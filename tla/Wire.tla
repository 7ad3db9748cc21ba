-------------------------------- MODULE Wire --------------------------------
(***************************************************************************)
(* The wire format of remote calls (rpc/wire.ts), which the client         *)
(* (rpc/client.ts) and the server share.  A value is a primitive, a Date   *)
(* or the like, a collection or an object.                                 *)
(***************************************************************************)
EXTENDS Rpc, TLC

CONSTANTS MaxDepth      \* MAX_DECODE_DEPTH

Prim(x) == [k |-> "prim", x |-> x]
Text(json) == [k |-> "prim", json |-> json]  \* the string JSON.stringify() makes
List(kind, items) == [k |-> kind, items |-> items]
Obj(fields) == [k |-> "Object", fields |-> fields]
TaggedValue(tag, v) == Obj(("__t" :> Prim(tag)) @@ ("v" :> v))
Undecodable == [k |-> "throws"]
BLOCKED_KEYS == {"__proto__", "constructor", "prototype"}
ScalarTags == {"Date", "BigInt", "Undefined", "RegExp"}

RECURSIVE Encode(_)
Encode(value) ==
  LET each(items) == [i \in DOMAIN items |-> Encode(items[i])]
  IN CASE value.k = "prim" -> value
       [] value.k \in ScalarTags -> TaggedValue(value.k, Prim(value.x))
       [] value.k \in {"Set", "Map"} -> TaggedValue(value.k, Text(List("Array", each(value.items))))
       [] value.k = "Array" -> List("Array", each(value.items))
       [] value.k = "Object" -> Obj([f \in DOMAIN value.fields \ {"__proto__"} |-> Encode(value.fields[f])])

\* A list of what was decoded, unless some of it cannot be.
Gathered(kind, items) ==
  IF Undecodable \in ToSet(items) THEN Undecodable ELSE List(kind, items)

\* decodeValue(): tags it knows become values, except that a RegExp stays its source;
\* blocked keys are dropped; nothing is walked deeper than the limit.
RECURSIVE DecodeValue(_, _)
DecodeValue(json, depth) ==
  LET each(items) == [i \in DOMAIN items |-> DecodeValue(items[i], depth + 1)]
      rebuilt == [f \in DOMAIN json.fields \ BLOCKED_KEYS |-> DecodeValue(json.fields[f], depth + 1)]
  IN CASE json.k = "prim" -> json
       [] json.k # "prim" /\ depth >= MaxDepth -> Undecodable
       [] json.k = "Array" /\ depth < MaxDepth -> Gathered("Array", each(json.items))
       [] json.k = "Object" /\ depth < MaxDepth ->
            LET tag == IF {"__t", "v"} \subseteq DOMAIN json.fields THEN json.fields["__t"] ELSE Prim("none")
            IN CASE tag = Prim("RegExp") -> json.fields["v"]
                 [] tag.x \in {"Set", "Map"} ->
                      IF "json" \in DOMAIN json.fields["v"]
                      THEN Gathered(tag.x, each(json.fields["v"].json.items)) ELSE Undecodable
                 [] tag.x \in ScalarTags \ {"RegExp"} -> [k |-> tag.x, x |-> json.fields["v"].x]
                 [] OTHER -> IF \E f \in DOMAIN rebuilt : rebuilt[f] = Undecodable THEN Undecodable ELSE Obj(rebuilt)

Decode(json) == DecodeValue(json, 0)
-----------------------------------------------------------------------------
RECURSIVE Height(_)
Height(v) ==
  LET parts == CASE v.k \in {"Array", "Set", "Map"} -> ToSet(v.items)
                 [] v.k = "Object" -> {v.fields[f] : f \in DOMAIN v.fields}
                 [] OTHER -> {}
  IN IF v.k = "prim" THEN 0 ELSE 1 + (IF parts = {} THEN 0 ELSE CHOOSE n \in {Height(p) : p \in parts} :
                                                                    \A p \in parts : Height(p) <= n)

RECURSIVE Ordinary(_)
Ordinary(v) ==
  CASE v.k = "Object" ->
         /\ DOMAIN v.fields \cap BLOCKED_KEYS = {}
         /\ {"__t", "v"} \subseteq DOMAIN v.fields =>
              v.fields["__t"] \notin {Prim(t) : t \in ScalarTags \cup {"Set", "Map"}}
         /\ \A f \in DOMAIN v.fields : Ordinary(v.fields[f])
    [] v.k \in {"Array", "Set", "Map"} -> \A i \in DOMAIN v.items : Ordinary(v.items[i])
    [] OTHER -> v.k # "RegExp"

\* What the client sends is what the handler gets, and what the handler returns is what the
\* client gets, for values without regular expressions, blocked keys and look-alikes of
\* tags; nested too deeply they are refused as a whole.
WireFaithful ==
  rpcAt = "arrived" /\ Ordinary(call.value) =>
    Decode(Encode(call.value)) = (IF Height(call.value) <= MaxDepth THEN call.value ELSE Undecodable)
=============================================================================
