-------------------------------- MODULE Schema --------------------------------
(***************************************************************************)
(* schema/src: fromSchema() finds the library a schema is of (detect.ts),  *)
(* the adapter validates with it and publishes a JSON Schema for OpenAPI   *)
(* (adapters/, json-schema.ts).                                            *)
(*                                                                         *)
(* A schema is a tree of nodes [k |-> the library's name of it, ...].      *)
(* Texts, formats, patterns and defaults are left out.  Numbers count      *)
(* halves, a string is its length.  What a library accepts (Parses) is     *)
(* its own affair.                                                         *)
(***************************************************************************)
EXTENDS Integers, Sequences, SequencesExt, FiniteSets

CONSTANTS SchemasGiven,   \* what fromSchema() is called with: [lib, has, mode, node]
          Named,          \* Named[name]: the node a lazy getter returns
          Bodies,         \* JSON values that are validated
          MaxSchemaDepth  \* MAX_DEPTH

VARIABLES given,          \* the schema
          adapter,        \* what fromSchema() took it for
          document,       \* the JSON Schema that was published
          verdict         \* the last validate(): [body, answer]

schemaVars == <<given, adapter, document, verdict>>

Null == [t |-> "null"]
Absent == [t |-> "absent"]
Size(v) == IF v.t = "array" THEN Len(v.of) ELSE v.n
-----------------------------------------------------------------------------
(* JSON Schema: a keyword that is not there is <<>>, or the empty set. *)

AnyValue == [types |-> {}, values |-> {}, bounds |-> <<>>, properties |-> <<>>, required |-> {}, additional |-> <<>>,
             prefix |-> <<>>, items |-> <<>>, anyOf |-> <<>>, allOf |-> <<>>]
Typed(t) == [AnyValue EXCEPT !.types = {t}]
Nothing == [AnyValue EXCEPT !.types = {"never"}]  \* { not: {} }, or false

Within(bound, n) ==
  CASE bound[1] = "min" -> n >= bound[2]
    [] bound[1] = "max" -> n <= bound[2]
    [] bound[1] = "above" -> n > bound[2]
    [] bound[1] = "below" -> n < bound[2]
    [] OTHER -> n % 2 = 0

\* What a document says of a value.
RECURSIVE Conforms(_, _)
Conforms(j, v) ==
  /\ j.types = {} \/ v.t \in j.types \/ ("integer" \in j.types /\ v.t = "number" /\ v.n % 2 = 0)
  /\ j.values = {} \/ v \in j.values
  /\ v.t \in {"string", "number", "array"} => \A b \in DOMAIN j.bounds : Within(<<b, j.bounds[b]>>, Size(v))
  /\ v.t = "array" => \A i \in DOMAIN v.of :
       IF i \in DOMAIN j.prefix THEN Conforms(j.prefix[i], v.of[i]) ELSE j.items = <<>> \/ Conforms(j.items[1], v.of[i])
  /\ v.t = "object" =>
       /\ j.required \subseteq DOMAIN v.fields
       /\ \A f \in DOMAIN v.fields : IF f \in DOMAIN j.properties THEN Conforms(j.properties[f], v.fields[f])
                                 ELSE j.additional = <<>> \/ Conforms(j.additional[1], v.fields[f])
  /\ j.anyOf = <<>> \/ \E i \in DOMAIN j.anyOf : Conforms(j.anyOf[i], v)
  /\ \A i \in DOMAIN j.allOf : Conforms(j.allOf[i], v)

(* The libraries' names of the nodes, and what they are converted as. *)

Zod3Kinds ==
  [ZodString |-> "string", ZodNumber |-> "number", ZodNaN |-> "nan", ZodBigInt |-> "bigint", ZodBoolean |-> "boolean",
   ZodDate |-> "date", ZodNull |-> "null", ZodLiteral |-> "literal", ZodEnum |-> "literal", ZodNativeEnum |-> "enum",
   ZodArray |-> "array", ZodObject |-> "object", ZodUnion |-> "union", ZodDiscriminatedUnion |-> "union",
   ZodIntersection |-> "intersection", ZodTuple |-> "tuple", ZodRecord |-> "record", ZodMap |-> "map", ZodSet |-> "set",
   ZodOptional |-> "optional", ZodNullable |-> "nullable", ZodDefault |-> "default", ZodCatch |-> "catch",
   ZodReadonly |-> "inner", ZodBranded |-> "inner", ZodEffects |-> "inner", ZodPipeline |-> "inner",
   ZodPromise |-> "inner", ZodLazy |-> "lazy", ZodNever |-> "never"]

Zod4Kinds ==
  [string |-> "string", template_literal |-> "string", number |-> "number", int |-> "number", nan |-> "nan",
   bigint |-> "bigint", boolean |-> "boolean", date |-> "date", file |-> "file", null |-> "null", literal |-> "literal",
   enum |-> "enum", array |-> "array", object |-> "object", interface |-> "object", union |-> "union",
   intersection |-> "intersection", tuple |-> "tuple", record |-> "record", map |-> "map", set |-> "set",
   optional |-> "optional", nonoptional |-> "nonoptional", readonly |-> "inner", catch |-> "catch", success |-> "catch",
   nullable |-> "nullable", default |-> "default", prefault |-> "default", pipe |-> "inner", lazy |-> "lazy",
   promise |-> "inner", never |-> "never"]

ValibotKinds ==
  [string |-> "string", number |-> "number", bigint |-> "bigint", boolean |-> "boolean", date |-> "date", blob |-> "file",
   file |-> "file", null |-> "null", literal |-> "literal", picklist |-> "literal", enum |-> "enum", array |-> "array",
   set |-> "set", tuple |-> "tuple", tuple_with_rest |-> "tuple", object |-> "object", loose_object |-> "object",
   strict_object |-> "object", object_with_rest |-> "object", record |-> "record", map |-> "map", union |-> "union",
   variant |-> "union", intersect |-> "intersection", optional |-> "optional", exact_optional |-> "optional",
   undefinedable |-> "undefinedable", non_optional |-> "nonoptional", non_nullable |-> "nonnullable",
   non_nullish |-> "nonnullable", nullable |-> "nullable", nullish |-> "nullish", lazy |-> "lazy", never |-> "never"]

KindNames == [zod3 |-> Zod3Kinds, zod4 |-> Zod4Kinds, valibot |-> ValibotKinds]
Kind(lib, node) == IF node.k \in DOMAIN KindNames[lib] THEN KindNames[lib][node.k] ELSE "any"
LeafTypes == [null |-> "null", boolean |-> "boolean", bigint |-> "integer", date |-> "string", file |-> "string", nan |-> "number"]
Wrappers == {"optional", "nonoptional", "undefinedable", "default", "catch", "inner", "nonnullable"}

\* What becomes of the keys an object does not declare.
Unknown(lib, node) ==
  IF lib # "valibot" THEN node.unknown
  ELSE CASE node.k = "strict_object" -> "strict" [] node.k = "loose_object" -> "loose"
         [] node.k = "object_with_rest" -> "catchall" [] OTHER -> "strip"
-----------------------------------------------------------------------------
nullable(inner) ==
  IF inner.types # {} THEN [inner EXCEPT !.types = @ \cup {"null"}]
  ELSE [AnyValue EXCEPT !.anyOf = <<inner, Typed("null")>>]

\* The object of an enum with these members: a numeric one is there both ways.
EnumObject(members) ==
  {<<m, members[m]>> : m \in DOMAIN members}
    \cup {<<members[m], m>> : m \in {m \in DOMAIN members : members[m].t = "number"}}

enumMembers(entries) ==
  {e[2] : e \in {e \in entries : ~(e[1].t = "number" /\ e[2].t = "string" /\ <<e[2], e[1]>> \in entries)}}

literalSchema(values) ==
  LET types == {v.t : v \in values}
  IN [AnyValue EXCEPT !.values = values, !.types = IF Cardinality(types) = 1 THEN types ELSE {}]

\* isZodOptionalMember(), isValibotOptionalMember().  Zod 4 says of every schema whether it
\* may be missing (optin).
RECURSIVE OptIn(_)
OptIn(node) ==
  LET k == Kind("zod4", node)
  IN \/ k \in {"optional", "default"}
     \/ k \in {"nullable", "inner", "catch"} /\ OptIn(node.of)
     \/ k = "union" /\ \E i \in DOMAIN node.options : OptIn(node.options[i])

IsOptional(lib, node) ==
  CASE lib = "zod3" -> Kind(lib, node) \in {"optional", "default"}
    [] lib = "zod4" -> OptIn(node)
    [] lib = "valibot" -> Kind(lib, node) \in {"optional", "nullish", "undefinedable"}

\* Checks come in order, and the last of a kind is published; Zod 4 keeps the tightest
\* bound of a side in its bag, which one exclusive check makes exclusive.
LastOf(checks, kind) ==
  checks[CHOOSE i \in DOMAIN checks : checks[i][1] = kind /\ \A l \in DOMAIN checks : checks[l][1] = kind => l <= i][2]
Tightest(checks, side, kinds) ==
  LET all == {checks[i][2] : i \in {i \in DOMAIN checks : checks[i][1] \in kinds}}
  IN CHOOSE n \in all : \A m \in all : Within(<<side, m>>, n)
BoundsOf(lib, checks) ==
  LET kinds == {checks[i][1] : i \in DOMAIN checks} \ {"int"}
      side(kind) == IF kind \in {"min", "above"} THEN {"min", "above"} ELSE {"max", "below"}
      exclusive(kind) == kind \in {"above", "below"}
      published == {kind \in kinds : lib = "zod4" /\ ~exclusive(kind) => side(kind) \cap kinds = {kind}}
  IN [kind \in published |-> IF lib # "zod4" THEN LastOf(checks, kind)
                             ELSE Tightest(checks, IF "min" \in side(kind) THEN "min" ELSE "max", side(kind))]

NumberType(checks) == IF \E i \in DOMAIN checks : checks[i][1] = "int" THEN "integer" ELSE "number"

\* Mutated form: every member is required.
ObjectRequiring(lib, node, properties, additional) ==
  [Typed("object") EXCEPT !.properties = properties, !.required = DOMAIN node.shape, !.additional = additional]

objectSchema(lib, node, properties, additional) ==
  [Typed("object") EXCEPT !.properties = properties, !.additional = additional,
                          !.required = {f \in DOMAIN node.shape : ~IsOptional(lib, node.shape[f])}]

\* convertZodNode(), convertValibotNode(): `seen` are the nodes on this branch that a lazy
\* getter can return again; one that builds anew every time never returns the same node.
RECURSIVE Convert(_, _, _, _)
Convert(lib, node, seen, depth) ==
  LET k == Kind(lib, node)
      sub(n) == Convert(lib, n, seen, depth + 1)
      each(ns) == [i \in DOMAIN ns |-> sub(ns[i])]
      listOf(j) == [Typed("array") EXCEPT !.items = <<j>>]
      unknown == CASE Unknown(lib, node) = "strict" -> <<Nothing>> [] Unknown(lib, node) = "loose" -> <<AnyValue>>
                   [] Unknown(lib, node) = "catchall" -> <<sub(node.catchall)>> [] OTHER -> <<>>
  IN IF depth > MaxSchemaDepth THEN AnyValue
     ELSE CASE k = "string" -> [Typed("string") EXCEPT !.bounds = BoundsOf(lib, node.checks)]
            [] k = "number" -> [Typed(NumberType(node.checks)) EXCEPT !.bounds = BoundsOf(lib, node.checks)]
            [] k = "array" -> [listOf(sub(node.of)) EXCEPT !.bounds = BoundsOf(lib, node.checks)]
            [] k \in DOMAIN LeafTypes -> Typed(LeafTypes[k])
            [] k = "never" -> Nothing
            [] k = "literal" -> literalSchema(node.values)
            [] k = "enum" -> literalSchema(enumMembers(EnumObject(node.members)))
            [] k = "set" -> listOf(sub(node.of))  \* and uniqueItems
            [] k = "map" -> listOf([listOf(Nothing) EXCEPT !.prefix = each(<<node.key, node.of>>)])
            [] k = "tuple" -> [listOf(Nothing) EXCEPT !.prefix = each(node.items),
                                                      !.items = IF node.rest = <<>> THEN @ ELSE each(node.rest)]
            [] k = "record" -> [Typed("object") EXCEPT !.additional = <<sub(node.of)>>]
            [] k = "object" -> objectSchema(lib, node, [f \in DOMAIN node.shape |-> sub(node.shape[f])], unknown)
            [] k = "union" -> [AnyValue EXCEPT !.anyOf = each(node.options)]
            [] k = "intersection" -> [AnyValue EXCEPT !.allOf = each(node.options)]
            [] k \in Wrappers -> sub(node.of)
            [] k \in {"nullable", "nullish"} -> nullable(sub(node.of))
            [] k = "lazy" -> IF node.to \in seen /\ ~node.fresh THEN AnyValue
                             ELSE Convert(lib, Named[lib][node.to], IF node.fresh THEN {} ELSE seen \cup {node.to}, depth + 1)
            [] OTHER -> AnyValue
-----------------------------------------------------------------------------
(* The libraries: does the schema accept the value, or that there is none? *)

RECURSIVE Parses(_, _, _)
Parses(lib, node, v) ==
  LET k == Kind(lib, node)
      in(n) == Parses(lib, n, v)
      checked == \A i \in DOMAIN node.checks : Within(node.checks[i], Size(v))
      missing(n) == IF lib = "valibot" THEN Kind(lib, n) \in {"optional", "nullish"} ELSE Parses(lib, n, Absent)
      unknown(f) == CASE Unknown(lib, node) = "strict" -> FALSE [] Unknown(lib, node) = "catchall" -> Parses(lib, node.catchall, v.fields[f])
                      [] OTHER -> TRUE
  IN CASE k \in {"string", "number"} -> v.t = k /\ checked
       [] k = "array" -> v.t = "array" /\ checked /\ \A i \in DOMAIN v.of : Parses(lib, node.of, v.of[i])
       [] k = "null" -> v = Null
       [] k \in {"never", "set", "map"} \cup (DOMAIN LeafTypes \ {"null"}) -> FALSE  \* no body of these is looked at
       [] k = "literal" -> v \in node.values
       [] k = "enum" -> \E m \in DOMAIN node.members : v = node.members[m]
       [] k = "tuple" ->
            /\ v.t = "array" /\ Len(v.of) >= Len(node.items) /\ (node.rest = <<>> => Len(v.of) = Len(node.items))
            /\ \A i \in DOMAIN v.of : Parses(lib, IF i \in DOMAIN node.items THEN node.items[i] ELSE node.rest[1], v.of[i])
       [] k = "record" -> v.t = "object" /\ \A f \in DOMAIN v.fields : Parses(lib, node.of, v.fields[f])
       [] k = "object" ->
            /\ v.t = "object"
            /\ \A f \in DOMAIN node.shape : IF f \in DOMAIN v.fields THEN Parses(lib, node.shape[f], v.fields[f])
                                            ELSE missing(node.shape[f])
            /\ \A f \in DOMAIN v.fields \ DOMAIN node.shape : unknown(f)
       [] k = "union" -> \E i \in DOMAIN node.options : in(node.options[i])
       [] k = "intersection" -> \A i \in DOMAIN node.options : in(node.options[i])
       [] k \in {"optional", "default"} -> v = Absent \/ in(node.of)
       [] k = "nullable" -> v = Null \/ in(node.of)
       [] k = "nullish" -> v \in {Null, Absent} \/ in(node.of)
       [] k = "nonoptional" -> v # Absent /\ in(node.of)
       [] k = "nonnullable" -> v # Null /\ in(node.of)
       [] k \in {"inner", "undefinedable"} -> in(node.of)
       [] k = "lazy" -> in(Named[lib][node.to])
       [] OTHER -> TRUE  \* any, and catch, which replaces what it refuses
-----------------------------------------------------------------------------
(* fromSchema() and its adapters *)

\* The library a schema with these members is taken for.
Detected(has) ==
  CASE {"validate", "toJsonSchema"} \subseteq has -> "itself"
    [] "TypeBox.Kind" \in has -> "typebox"
    [] {"safeParse", "parse"} \subseteq has -> "zod"
    [] has \cap {"~standard", "~run", "_parse"} # {} -> "valibot"
    [] {"type: object", "properties"} \subseteq has -> "typebox"
    [] OTHER -> "unsupported"  \* SchemaError

SchemaInit ==
  given \in SchemasGiven /\ adapter = "none" /\ document = <<>> /\ verdict = <<>>

FromSchema ==
  adapter = "none" /\ adapter' = Detected(given.has) /\ UNCHANGED <<given, document, verdict>>

ToJsonSchema ==
  /\ adapter \in {"zod", "valibot"} /\ document = <<>>
  /\ document' = <<Convert(given.lib, given.node, {}, 0)>>
  /\ UNCHANGED <<given, adapter, verdict>>

\* What the library does with a body: `mode` is how it is able to answer ("absent" when
\* TypeBox is not installed).
LibraryAnswer(body) ==
  CASE given.mode = "sync" -> IF Parses(given.lib, given.node, body) THEN "accepts" ELSE "refuses"
    [] given.mode = "errorless" -> IF Parses(given.lib, given.node, body) THEN "accepts" ELSE "fails without an error"
    [] OTHER -> given.mode

\* Zod throws when it would have to wait, which validate() makes an issue, like the promise
\* of Valibot's `~standard`.  A legacy Valibot's promise has no issues: it passes.
ZodSays(answer) ==
  CASE answer = "accepts" -> "success" [] answer = "throws" -> "throws" [] OTHER -> "issues"
ValibotSays(answer, standard) ==
  CASE answer = "accepts" \/ (answer = "waits" /\ ~standard) -> "success"
    [] answer = "throws" /\ standard -> "throws"
    [] OTHER -> "issues"
TypeBoxSays(answer) ==
  CASE answer = "accepts" -> "success" [] answer = "absent" -> "throws" [] OTHER -> "issues"

ValidateBody(body) ==
  /\ verdict = <<>> /\ adapter \in {"zod", "valibot", "typebox"}
  /\ LET answer == LibraryAnswer(body)
     IN verdict' = <<[body |-> body, answer |-> CASE adapter = "zod" -> ZodSays(answer) [] adapter = "typebox" -> TypeBoxSays(answer)
                                                 [] OTHER -> ValibotSays(answer, "~standard" \in given.has)]>>
  /\ UNCHANGED <<given, adapter, document>>

SchemaNext == FromSchema \/ ToJsonSchema \/ \E body \in Bodies : ValidateBody(body)
SchemaSpec == SchemaInit /\ [][SchemaNext]_schemaVars
-----------------------------------------------------------------------------
(* Properties *)

RECURSIVE Nodes(_)
Nodes(node) ==
  LET under == UNION {IF "shape" \in DOMAIN node THEN {node.shape[f] : f \in DOMAIN node.shape} ELSE {},
                      IF "catchall" \in DOMAIN node THEN {node.catchall} ELSE {},
                      IF "items" \in DOMAIN node THEN ToSet(node.items \o node.rest) ELSE {},
                      IF "options" \in DOMAIN node THEN ToSet(node.options) ELSE {},
                      IF "of" \in DOMAIN node THEN {node.of} ELSE {}}
  IN {node} \cup UNION {Nodes(n) : n \in under}

\* What the document of a schema is known to misstate: null beside an enum or a constant
\* (nullable() adds the type and leaves the values), a Zod member that may be missing and
\* does not say so (any, and in Zod 3 what another wrapper hides), what a catch replaces,
\* and two bounds of Zod 4 on one side of which one is exclusive.
Misstated(lib, n) ==
  \/ Kind(lib, n) \in {"nullable", "nullish"} /\ LET of == Convert(lib, n.of, {}, 0) IN of.values # {} /\ of.types # {}
  \/ lib # "valibot" /\ Kind(lib, n) = "object" /\
       \E f \in DOMAIN n.shape : ~IsOptional(lib, n.shape[f]) /\ Parses(lib, n.shape[f], Absent)
  \/ Kind(lib, n) = "catch"
  \/ lib = "zod4" /\ Kind(lib, n) = "number" /\ \E i, l \in DOMAIN n.checks :
       <<n.checks[i][1], n.checks[l][1]>> \in {<<"min", "above">>, <<"max", "below">>}

\* Everything the library accepts, the published document allows, and for schemas of the
\* plain kinds it allows nothing else (json-schema.ts); a schema is handed to the adapter
\* of its own library and validate() says success exactly when the library accepted the
\* body, but for the promise of a legacy Valibot schema (detect.ts, adapters/).
DocumentAdmits ==
  LET lib == given.lib
      parts == Nodes(given.node)
      loose == {"tuple", "set", "map", "lazy", "undefinedable", "nonnullable"} \cup (DOMAIN LeafTypes \ {"null"})
      \* The last of two checks of one kind is the one published.
      repeated(n) == "checks" \in DOMAIN n /\
        \E i, l \in DOMAIN n.checks : i # l /\ n.checks[i][1] = n.checks[l][1]
      exact == \A n \in parts : Kind(lib, n) \notin loose /\ ~repeated(n)
      accepts(v) == Parses(lib, given.node, v)
      says(v) == Conforms(document[1], v)
  IN document # <<>> /\ (\A n \in parts : ~Misstated(lib, n)) =>
       \A v \in Bodies : (accepts(v) => says(v)) /\ (exact /\ says(v) => accepts(v))
RightLibrary == adapter # "none" => adapter = (IF given.lib \in {"zod3", "zod4"} THEN "zod" ELSE given.lib)
VerdictTrue ==
  verdict # <<>> /\ ~(given.mode = "waits" /\ given.has = {"_parse"}) =>
    (verdict[1].answer = "success" <=> LibraryAnswer(verdict[1].body) = "accepts")
SchemaSound == DocumentAdmits /\ RightLibrary /\ VerdictTrue
=============================================================================
