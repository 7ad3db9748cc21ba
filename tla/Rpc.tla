--------------------------------- MODULE Rpc ---------------------------------
(***************************************************************************)
(* One remote call: what the builder made of the procedure                 *)
(* (rpc/procedure.ts), and RPCHandler.handle() with its chain of           *)
(* middlewares (rpc/router.ts).  Schemas, the context factory, middlewares *)
(* and the handler are the application's: they answer, refuse or throw,    *)
(* and a middleware that caught an error may call next() again.            *)
(***************************************************************************)
EXTENDS Integers, Sequences, FiniteSets, SequencesExt

CONSTANTS Calls,        \* the calls that are made
          MaxNext       \* bound: calls of next() by one middleware

\* What a procedure is declared with, and what is asked of a call.
ASSUME RpcAssumption ==
  /\ MaxNext \in Nat
  /\ \A c \in Calls : /\ c.path \in {"procedure", "unknown", "introspection"} /\ c.guards \in Nat
                       /\ c.steps \in Seq({"input", "output", "use", "allowFormData"})

VARIABLES call,         \* the call under way
          rpcAt,        \* where handle() is
          index,        \* runChain()'s index: middlewares entered
          frames,       \* those that have not returned, outermost first
          nexts,        \* nexts[m]: how often middleware m called next()
          result,       \* what the innermost frame's last next() gave it
          refused,      \* history: middlewares that threw without calling next()
          handlerRuns,  \* history: how often the handler ran
          status        \* of the response, "none" before it

rpcVars == <<call, rpcAt, index, frames, nexts, result, refused, handlerRuns, status>>
-----------------------------------------------------------------------------
(* The procedure builder *)

NewBuilder == [middlewares |-> 0, input |-> FALSE, output |-> FALSE, allowFormData |-> FALSE]

\* Mutated form: use() forgets that forms are allowed.
ChainedForgetfully(builder, step) ==
  CASE step = "use" -> [NewBuilder EXCEPT !.middlewares = builder.middlewares + 1,
                                          !.input = builder.input, !.output = builder.output]
    [] OTHER -> [builder EXCEPT ![step] = TRUE]

\* input(), output(), use() and allowFormData(): a new builder with one thing changed.
Chained(builder, step) ==
  CASE step = "use" -> [builder EXCEPT !.middlewares = @ + 1]
    [] OTHER -> [builder EXCEPT ![step] = TRUE]

Built(steps) ==
  LET after[n \in 0..Len(steps)] == IF n = 0 THEN NewBuilder ELSE Chained(after[n - 1], steps[n])
  IN after[Len(steps)]
-----------------------------------------------------------------------------
(* The handler.  A call: its path ("procedure", "unknown" or "introspection"); the
   procedure's type and builder steps; method, content type, where it comes from and
   whether the body can be read; the value sent, which Wire is about; and whether
   introspection is on. *)

Proc == Built(call.steps)
Chain == IF call.path = "introspection" THEN call.guards ELSE Proc.middlewares

RpcInit ==
  /\ call \in Calls
  /\ rpcAt = "arrived" /\ index = 0 /\ frames = <<>> /\ nexts = [m \in 1..Chain |-> 0]
  /\ result = "none" /\ refused = {} /\ handlerRuns = 0 /\ status = "none"

UnchangedChain == UNCHANGED <<call, index, frames, nexts, result, refused, handlerRuns>>

Answer(code) == rpcAt' = "answered" /\ status' = code
Await(where) == rpcAt' = where /\ UNCHANGED status

\* Input validation, as far as the context factory's await.
Validate ==
  IF ~Proc.input THEN Await("context")
  ELSE \/ call.valid /\ Await("context")
       \/ ~call.valid /\ Answer("400")
       \/ Answer("500")  \* the adapter throws: handleError()

\* checkOrigin() of everything but a GET query.
CrossOrigin == (call.type = "mutation" \/ call.method # "GET") /\ call.from = "cross"

\* handle() up to its first await.
Receive ==
  /\ rpcAt = "arrived" /\ UnchangedChain
  /\ CASE call.path = "introspection" ->
            IF ~call.served THEN Answer("404") ELSE IF call.guards = 0 THEN Answer("200") ELSE Await("context")
       [] call.path = "unknown" -> Answer("404")
       [] call.path = "procedure" /\ call.type = "mutation" /\ call.method # "POST" -> Answer("405")
       [] OTHER ->
            IF CrossOrigin THEN Answer("403")
            ELSE IF call.method = "GET" THEN IF call.readable THEN Validate ELSE Answer("400")
            ELSE IF call.content = "text" \/ (call.content = "form" /\ ~Proc.allowFormData) THEN Answer("415")
            ELSE Await("body")

\* parseBody() goes on: bad JSON is answered, a form that cannot be read rejects handle().
ReadBody ==
  /\ rpcAt = "body" /\ UnchangedChain
  /\ IF call.readable THEN Validate
     ELSE IF call.content = "form" THEN Answer("rejected") ELSE Answer("400")

\* The context factory answers or rejects; only a procedure's is caught.
MakeContext ==
  /\ rpcAt = "context" /\ UnchangedChain
  /\ \/ Await("chain")
     \/ IF call.path = "introspection" THEN Answer("rejected") ELSE Answer("500")

\* next(): the next middleware, or the handler when there is none.
NextInChain ==
  IF index < Chain
  THEN /\ index' = index + 1 /\ frames' = Append(frames, index + 1) /\ result' = "none"
       /\ UNCHANGED <<handlerRuns, rpcAt>>
  ELSE /\ handlerRuns' = handlerRuns + 1 /\ UNCHANGED <<index, frames>>
       /\ result' \in (IF call.path = "introspection" THEN {"value"} ELSE {"value", "error"})
       /\ rpcAt' = IF frames = <<>> THEN "ran" ELSE rpcAt

StartChain ==
  /\ rpcAt = "chain" /\ index = 0 /\ frames = <<>>
  /\ NextInChain /\ UNCHANGED <<call, nexts, refused, status>>

CallNext ==
  /\ rpcAt = "chain" /\ frames # <<>>
  /\ LET m == Last(frames) IN nexts[m] < MaxNext /\ nexts' = [nexts EXCEPT ![m] = @ + 1]
  /\ NextInChain /\ UNCHANGED <<call, refused, status>>

MiddlewareEnds(outcome) ==
  /\ rpcAt = "chain" /\ frames # <<>>
  /\ frames' = Front(frames) /\ result' = outcome
  /\ rpcAt' = IF Len(frames) = 1 THEN "ran" ELSE rpcAt
  /\ refused' = refused \cup {m \in {Last(frames)} : outcome = "error" /\ nexts[m] = 0}
  /\ UNCHANGED <<call, index, nexts, handlerRuns, status>>

\* The output is validated and encoded, or the error mapped.
EncodeOutput ==
  /\ rpcAt = "ran" /\ UnchangedChain
  /\ IF result = "error" THEN \E code \in {"401", "500"} : Answer(code)
     ELSE \/ Answer("200")
          \/ call.path = "procedure" /\ Proc.output /\ Answer("500")

RpcNext ==
  \/ Receive \/ ReadBody \/ MakeContext \/ StartChain \/ CallNext \/ EncodeOutput
  \/ \E outcome \in {"value", "error"} : MiddlewareEnds(outcome)

RpcSpec == RpcInit /\ [][RpcNext]_rpcVars
-----------------------------------------------------------------------------
Declared(step) == step \in ToSet(call.steps)

\* Unless a middleware called next() again, the handler runs at most once, inside all the
\* middlewares that were declared, and not when one of them refused; and even then it runs
\* after all of them were entered.
GuardsHold ==
  handlerRuns > 0 =>
    /\ index = IF call.path = "introspection" THEN call.guards ELSE Cardinality({i \in DOMAIN call.steps : call.steps[i] = "use"})
    /\ (\A m \in DOMAIN nexts : nexts[m] <= 1) => handlerRuns = 1 /\ refused = {}

\* The handler of a procedure runs only on what its declaration takes, wherever in the
\* chain of the builder it was declared; what the declaration takes is not refused; and
\* handle() rejects only for a form or for the context of an introspection.
DeclarationKept ==
  /\ handlerRuns > 0 /\ call.path = "procedure" =>
       /\ Declared("input") => call.valid
       /\ call.type = "mutation" => call.method = "POST"
       /\ call.method # "GET" => /\ call.from # "cross" /\ call.content # "text"
                                 /\ call.content = "form" => Declared("allowFormData")
  /\ status = "415" => call.content = "text" \/ ~Declared("allowFormData")
  /\ status = "rejected" => call.content = "form" \/ call.path = "introspection"

\* A call does what its declaration says.
CallSound == GuardsHold /\ DeclarationKept
=============================================================================
