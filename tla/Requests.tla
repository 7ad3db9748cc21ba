------------------------------- MODULE Requests -------------------------------
(***************************************************************************)
(* CelsianApp.handle of core/src/app.ts with the transactions of           *)
(* core/src/plugins/database.ts: a request, from its arrival to its        *)
(* onResponse hooks.                                                       *)
(*                                                                         *)
(* A request has two flows.  "handle" awaits the race of the lifecycle     *)
(* against the timeout, and takes the error path when the race is lost;    *)
(* "lifecycle" is runLifecycle, which goes on after a timeout.  They share *)
(* the reply and the transaction.  at[r][f] is the await a flow is at.     *)
(*                                                                         *)
(* What user code answers, whether it throws, and whether a call of the    *)
(* database rejects, is any choice.  A transaction hook stands between two *)
(* groups of other hooks in each of preHandler, onSend and onError.        *)
(***************************************************************************)
EXTENDS Naturals, Sequences

CONSTANTS Requests,
          Timed,      \* is requestTimeout > 0?
          MaxRejects  \* bound: calls of the database that reject

ASSUME RequestsAssumption == Timed \in BOOLEAN /\ MaxRejects \in Nat

VARIABLES at,          \* at[r][f]: the await flow f is at
          built,       \* built[r][f]: the status of the Response flow f has built
          statusCode,  \* reply.statusCode
          tx,          \* the transaction, as the database has it
          pending,     \* _txPending
          rejects,     \* calls of the database that rejected
          calls,       \* history: commit() and rollback() calls made
          reported,    \* history: the statuses onResponse was shown
          events       \* history: what happened to r that a property excepts

requestVars == <<at, built, statusCode, tx, pending, rejects, calls, reported, events>>

Flows == {"handle", "lifecycle"}
Statuses == {"none", "fine", "early", "error", "timeout", "answered", "missing"}
Events == {"timedOut", "early", "answered", "hookThrew", "commitRejected", "rollbackRejected"}

\* The awaits of runLifecycle up to its onSend hooks, in order.
After == [onRequest |-> "preParsing", preParsing |-> "parsing", parsing |-> "preValidation",
          preValidation |-> "validation", validation |-> "preHandler",
          loading |-> "handler", handler |-> "preSerialization"]
MayAnswer == {"onRequest", "preParsing", "preValidation", "preHandler", "loading"}
MayThrow == DOMAIN After \cup {"preHandler", "beginning", "preSerialization"}
Sending == {"onSend", "committing", "restOfOnSend"}

LifecycleAwaits == {"none", "done", "threw"} \cup MayThrow \cup Sending
HandleAwaits == {"new", "racing", "missHooks", "notFound", "errorHandler", "onError",
                 "rollingBack", "restOfOnError", "done", "answered", "rejected"} \cup Sending

RequestTypeOK ==
  /\ at \in [Requests -> [handle : HandleAwaits, lifecycle : LifecycleAwaits]]
  /\ built \in [Requests -> [handle : Statuses, lifecycle : Statuses]]
  /\ statusCode \in [Requests -> Statuses]
  /\ tx \in [Requests -> {"none", "open", "committed", "rolledBack"}]
  /\ pending \in [Requests -> BOOLEAN]
  /\ rejects \in 0..MaxRejects
  /\ calls \in [Requests -> Nat]
  /\ reported \in [Requests -> Seq(Statuses)]
  /\ events \in [Requests -> SUBSET Events]

RequestInit ==
  /\ at = [r \in Requests |-> [handle |-> "new", lifecycle |-> "none"]]
  /\ built = [r \in Requests |-> [handle |-> "none", lifecycle |-> "none"]]
  /\ statusCode = [r \in Requests |-> "none"]
  /\ tx = [r \in Requests |-> "none"] /\ pending = [r \in Requests |-> FALSE]
  /\ rejects = 0
  /\ calls = [r \in Requests |-> 0]
  /\ reported = [r \in Requests |-> <<>>]
  /\ events = [r \in Requests |-> {}]

Go(r, f, where) == at' = [at EXCEPT ![r][f] = where]
Build(r, f, status) == built' = [built EXCEPT ![r][f] = status]
Note(r, event) == events' = [events EXCEPT ![r] = @ \cup {event}]

\* The flow's Response has a status; its onSend hooks are shown it.
StartSending(r, f, status) ==
  /\ Go(r, f, "onSend") /\ Build(r, f, status)
  /\ statusCode' = [statusCode EXCEPT ![r] = status]
-----------------------------------------------------------------------------
(* runLifecycle *)

Continue(r) ==
  /\ at[r].lifecycle \in DOMAIN After
  /\ Go(r, "lifecycle", After[at[r].lifecycle])
  /\ UNCHANGED <<built, statusCode, tx, pending, rejects, calls, reported, events>>

\* The guards before withTransaction() pass; a route without it has no "beginning".
PassGuards(r) ==
  /\ at[r].lifecycle = "preHandler"
  /\ \E next \in {"beginning", "handler"} : Go(r, "lifecycle", next)
  /\ UNCHANGED <<built, statusCode, tx, pending, rejects, calls, reported, events>>

BeginTransaction(r) ==
  /\ at[r].lifecycle = "beginning"
  /\ tx' = [tx EXCEPT ![r] = "open"] /\ pending' = [pending EXCEPT ![r] = TRUE]
  /\ Go(r, "lifecycle", "loading")
  /\ UNCHANGED <<built, statusCode, rejects, calls, reported, events>>

\* A hook returned a Response, or sent the reply: no onSend hook runs.
AnswerEarly(r) ==
  /\ at[r].lifecycle \in MayAnswer
  /\ Go(r, "lifecycle", "done") /\ Build(r, "lifecycle", "early")
  /\ Note(r, "early")
  /\ UNCHANGED <<statusCode, tx, pending, rejects, calls, reported>>

\* A hook, the parser, the validation, beginTransaction() or the handler throws.
Throw(r) ==
  /\ at[r].lifecycle \in MayThrow
  /\ Go(r, "lifecycle", "threw")
  /\ UNCHANGED <<built, statusCode, tx, pending, rejects, calls, reported, events>>

\* The Response is built, whatever its status: `error` stands for a handler that
\* returns one, or for a response that fails its schema.
Respond(r) ==
  /\ at[r].lifecycle = "preSerialization"
  /\ \E status \in {"fine", "error"} : StartSending(r, "lifecycle", status)
  /\ UNCHANGED <<tx, pending, rejects, calls, reported, events>>
-----------------------------------------------------------------------------
(* runOnSendHooks, in runLifecycle and in applyOnSend *)

\* A hook throws: the error is logged and the hooks after it do not run.
SendHookThrows(r, f) ==
  /\ at[r][f] \in {"onSend", "restOfOnSend"}
  /\ Go(r, f, "done") /\ Note(r, "hookThrew")
  /\ UNCHANGED <<built, statusCode, tx, pending, rejects, calls, reported>>

\* Mutated form: commits whatever _txPending says.
CommitRegardless(r, f) ==
  /\ at[r][f] = "onSend"
  /\ IF tx[r] # "none"
     THEN Go(r, f, "committing") /\ calls' = [calls EXCEPT ![r] = @ + 1]
     ELSE Go(r, f, "restOfOnSend") /\ UNCHANGED calls
  /\ UNCHANGED <<built, statusCode, tx, pending, rejects, reported, events>>

\* The onSend hook of transactionLifecycle() calls commit() if one is pending.
CommitHook(r, f) ==
  /\ at[r][f] = "onSend"
  /\ IF tx[r] # "none" /\ pending[r]
     THEN Go(r, f, "committing") /\ calls' = [calls EXCEPT ![r] = @ + 1]
     ELSE Go(r, f, "restOfOnSend") /\ UNCHANGED calls
  /\ UNCHANGED <<built, statusCode, tx, pending, rejects, reported, events>>

Commits(r, f) ==
  /\ at[r][f] = "committing"
  /\ tx' = [tx EXCEPT ![r] = IF @ = "open" THEN "committed" ELSE @]
  /\ pending' = [pending EXCEPT ![r] = FALSE]
  /\ Go(r, f, "restOfOnSend")
  /\ UNCHANGED <<built, statusCode, rejects, calls, reported, events>>

\* commit() rejects: the hook threw.
CommitRejects(r, f) ==
  /\ at[r][f] = "committing" /\ rejects < MaxRejects
  /\ rejects' = rejects + 1
  /\ Go(r, f, "done") /\ Note(r, "commitRejected")
  /\ UNCHANGED <<built, statusCode, tx, pending, calls, reported>>

RestOfOnSend(r, f) ==
  /\ at[r][f] = "restOfOnSend"
  /\ Go(r, f, "done")
  /\ UNCHANGED <<built, statusCode, tx, pending, rejects, calls, reported, events>>
-----------------------------------------------------------------------------
(* handle *)

\* A route matches, none does, or the path does not decode.
Arrive(r) ==
  /\ at[r].handle = "new"
  /\ \/ at' = [at EXCEPT ![r] = [handle |-> "racing", lifecycle |-> "onRequest"]] /\ UNCHANGED built
     \/ Go(r, "handle", "missHooks") /\ UNCHANGED built
     \/ Go(r, "handle", "errorHandler") /\ Build(r, "handle", "error")
  /\ UNCHANGED <<statusCode, tx, pending, rejects, calls, reported, events>>

\* The lifecycle wins the race.
LifecycleDone(r) ==
  /\ at[r].handle = "racing" /\ at[r].lifecycle = "done"
  /\ Go(r, "handle", "done") /\ Build(r, "handle", built[r].lifecycle)
  /\ UNCHANGED <<statusCode, tx, pending, rejects, calls, reported, events>>

LifecycleThrew(r) ==
  /\ at[r].handle = "racing" /\ at[r].lifecycle = "threw"
  /\ Go(r, "handle", "errorHandler") /\ Build(r, "handle", "error")
  /\ UNCHANGED <<statusCode, tx, pending, rejects, calls, reported, events>>

\* Mutated form: the timer is cleared once the Response is built.
TimesOutUnlessSending(r) ==
  /\ Timed /\ at[r].handle = "racing" /\ at[r].lifecycle \notin {"done", "threw"} \cup Sending
  /\ Go(r, "handle", "errorHandler") /\ Build(r, "handle", "timeout")
  /\ Note(r, "timedOut")
  /\ UNCHANGED <<statusCode, tx, pending, rejects, calls, reported>>

\* The timeout wins; the lifecycle goes on, and nobody awaits it any more.
TimesOut(r) ==
  /\ Timed /\ at[r].handle = "racing" /\ at[r].lifecycle \notin {"done", "threw"}
  /\ Go(r, "handle", "errorHandler") /\ Build(r, "handle", "timeout")
  /\ Note(r, "timedOut")
  /\ UNCHANGED <<statusCode, tx, pending, rejects, calls, reported>>

\* No route: the root's onRequest hooks, which handle() does not guard, and then
\* the handler set for this, a 405 or a 404.
MissHooks(r) ==
  /\ at[r].handle = "missHooks"
  /\ \/ Go(r, "handle", "done") /\ Build(r, "handle", "early") /\ UNCHANGED statusCode
     \/ Go(r, "handle", "notFound") /\ UNCHANGED <<built, statusCode>>
     \/ Go(r, "handle", "rejected") /\ UNCHANGED <<built, statusCode>>
     \/ StartSending(r, "handle", "missing")
  /\ UNCHANGED <<tx, pending, rejects, calls, reported, events>>

\* setNotFoundHandler's handler returns a Response or throws; or it sent the reply,
\* and the onSend hooks are left out.
NotFoundHandler(r) ==
  /\ at[r].handle = "notFound"
  /\ \/ StartSending(r, "handle", "missing")
     \/ Go(r, "handle", "done") /\ Build(r, "handle", "missing") /\ UNCHANGED statusCode
  /\ UNCHANGED <<tx, pending, rejects, calls, reported, events>>
-----------------------------------------------------------------------------
(* handleError, then applyOnSend *)

\* A custom error handler, or an onError hook, answers: what follows does not run.
Answered(r, where) ==
  /\ at[r].handle = where
  /\ StartSending(r, "handle", "answered")
  /\ Note(r, "answered")
  /\ UNCHANGED <<tx, pending, rejects, calls, reported>>

\* There is no such handler, or it returned no Response, or threw.
PassErrorHandler(r) ==
  /\ at[r].handle = "errorHandler"
  /\ Go(r, "handle", "onError")
  /\ UNCHANGED <<built, statusCode, tx, pending, rejects, calls, reported, events>>

\* The onError hook of transactionLifecycle() calls rollback() if one is pending.
RollbackHook(r) ==
  /\ at[r].handle = "onError"
  /\ IF tx[r] # "none" /\ pending[r]
     THEN Go(r, "handle", "rollingBack") /\ calls' = [calls EXCEPT ![r] = @ + 1]
     ELSE Go(r, "handle", "restOfOnError") /\ UNCHANGED calls
  /\ UNCHANGED <<built, statusCode, tx, pending, rejects, reported, events>>

RollsBack(r) ==
  /\ at[r].handle = "rollingBack"
  /\ tx' = [tx EXCEPT ![r] = IF @ = "open" THEN "rolledBack" ELSE @]
  /\ pending' = [pending EXCEPT ![r] = FALSE]
  /\ Go(r, "handle", "restOfOnError")
  /\ UNCHANGED <<built, statusCode, rejects, calls, reported, events>>

\* rollback() rejects: logged, and the next hook runs.
RollbackRejects(r) ==
  /\ at[r].handle = "rollingBack" /\ rejects < MaxRejects
  /\ rejects' = rejects + 1
  /\ Go(r, "handle", "restOfOnError") /\ Note(r, "rollbackRejected")
  /\ UNCHANGED <<built, statusCode, tx, pending, calls, reported>>

\* The hooks after it answer, or the default error Response is built.
RestOfOnError(r) ==
  /\ at[r].handle = "restOfOnError"
  /\ StartSending(r, "handle", built[r].handle)
  /\ UNCHANGED <<tx, pending, rejects, calls, reported, events>>
-----------------------------------------------------------------------------
(* finish *)

\* Mutated form: reports the status the reply happens to have.
FinishAsIs(r) ==
  /\ at[r].handle = "done"
  /\ reported' = [reported EXCEPT ![r] = Append(@, statusCode[r])]
  /\ Go(r, "handle", "answered")
  /\ UNCHANGED <<built, statusCode, tx, pending, rejects, calls, events>>

\* Sets the status sent and starts the onResponse hooks.
Finish(r) ==
  /\ at[r].handle = "done"
  /\ statusCode' = [statusCode EXCEPT ![r] = built[r].handle]
  /\ reported' = [reported EXCEPT ![r] = Append(@, statusCode'[r])]
  /\ Go(r, "handle", "answered")
  /\ UNCHANGED <<built, tx, pending, rejects, calls, events>>
-----------------------------------------------------------------------------
SendStep(r, f) == SendHookThrows(r, f) \/ CommitHook(r, f) \/ Commits(r, f)
                  \/ CommitRejects(r, f) \/ RestOfOnSend(r, f)

LifecycleStep(r) == \/ Continue(r) \/ PassGuards(r) \/ BeginTransaction(r) \/ AnswerEarly(r)
                    \/ Throw(r) \/ Respond(r) \/ SendStep(r, "lifecycle")

ErrorStep(r) == \/ Answered(r, "errorHandler") \/ Answered(r, "onError") \/ PassErrorHandler(r)
                \/ RollbackHook(r) \/ RollsBack(r) \/ RollbackRejects(r) \/ RestOfOnError(r)

HandleStep(r) == \/ LifecycleDone(r) \/ LifecycleThrew(r) \/ TimesOut(r)
                 \/ MissHooks(r) \/ NotFoundHandler(r) \/ ErrorStep(r)
                 \/ SendStep(r, "handle") \/ Finish(r)

RequestNext == \E r \in Requests : Arrive(r) \/ LifecycleStep(r) \/ HandleStep(r)

RequestSpec == RequestInit /\ [][RequestNext]_requestVars

\* The timer fires, and the hooks and the database calls of the error path return.
\* Nothing is assumed of the lifecycle: its hooks and its handler may hang.
HandleFairness == \A r \in Requests : WF_requestVars(HandleStep(r))

FairRequestSpec == RequestSpec /\ HandleFairness
-----------------------------------------------------------------------------
(* Properties *)

Threw(r) == at[r].lifecycle = "threw"

\* The transaction of a request whose hooks or handler threw is not committed,
\* although the onSend hooks run on the error path too, unless an error handler or
\* an earlier onError hook answered, rollback() rejected, or the request timed out.
FailuresAreNotCommitted ==
  \A r \in Requests : Threw(r) /\ tx[r] = "committed" =>
    events[r] \cap {"answered", "rollbackRejected", "timedOut"} # {}

\* commit() and rollback() are called once between them, unless rollback() rejected
\* or a timeout made the two flows race.
SettledOnce ==
  \A r \in Requests : calls[r] > 1 => events[r] \cap {"rollbackRejected", "timedOut"} # {}

\* A transaction that is open when both flows are over, and so stays open, was left
\* by a hook that answered or threw, or by a call that rejected, or by a lifecycle
\* that threw after its timeout.
Over(r) == at[r].handle \in {"answered", "rejected"} /\ at[r].lifecycle \in {"none", "done", "threw"}
LeaksExplained ==
  \A r \in Requests : Over(r) /\ tx[r] = "open" =>
    \/ events[r] \cap {"early", "hookThrew", "commitRejected"} # {}
    \/ Threw(r) /\ "timedOut" \in events[r]

\* Every transaction is settled once, as its request went, or there is a reason.
TransactionsSettle == FailuresAreNotCommitted /\ SettledOnce /\ LeaksExplained

\* onResponse runs once for a request that was answered, with the status that was
\* sent, whatever a timed-out lifecycle has done to the reply.
StatusReported ==
  \A r \in Requests :
    reported[r] = IF at[r].handle = "answered" THEN <<built[r].handle>> ELSE <<>>

\* With a timeout every request that a route takes is answered, though its handler
\* hang or throw.
AnsweredInTime ==
  Timed => \A r \in Requests : at[r].handle = "racing" ~> at[r].handle = "answered"

\* What docs/database.md says of transactions ("If an error is thrown, it
\* auto-rollbacks"), for a database that never rejects and no timeout: nothing that
\* a request wrote before it threw is committed.
ErrorsRollBack ==
  ~Timed /\ MaxRejects = 0 => \A r \in Requests : Threw(r) => tx[r] # "committed"
=============================================================================
