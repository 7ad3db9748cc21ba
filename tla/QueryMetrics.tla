----------------------------- MODULE QueryMetrics -----------------------------
(***************************************************************************)
(* trackedPool() and dbAnalytics(), plugins/analytics.ts: one record of    *)
(* metrics per pool, which every request resets and reads.  A query takes  *)
(* as long as the pool likes, and may be left running by its request.  The *)
(* collector's hooks stand among others: one of those may query, answer or *)
(* throw before each of them, and the handler may go on after its timeout. *)
(***************************************************************************)
EXTENDS Naturals

CONSTANTS Users,    \* requests
          Slow,     \* the durations of the slowThreshold and above
          Durations,
          NoHeader,
          MaxQueries \* bound: queries started

ASSUME MetricsAssumption == Slow \subseteq Durations /\ Durations \subseteq Nat /\ MaxQueries \in Nat

VARIABLES metrics,  \* dbTime, queryCount, and queries as a set of [id, of, duration]
          running,  \* running queries: [id, of, kind]
          issuedQueries,   \* queries started
          requestPhase,    \* requestPhase[u]: where u is, by the collector's hooks
          unreset,  \* requests that timed out before the collector's onRequest hook
          intransaction, \* requests that hold a tracked transaction
          timing,   \* timing[u]: queryCount and dbTime of the Server-Timing header
          mine,     \* history, mine[u]: count and dbTime of u's own queries that ended since its reset
          due,      \* history, due[u]: mine[u] when the onSend hook ran
          logged,   \* logged[u]: the slow queries that u's onResponse hook reported
          alone     \* history: requests that had the pool to themselves since their reset

metricVars == <<metrics, running, issuedQueries, requestPhase, unreset, intransaction,
                timing, mine, due, logged, alone>>

NoMetrics == [dbTime |-> 0, queryCount |-> 0, queries |-> {}]
NoTiming == [count |-> 0, dbTime |-> 0]

\* "arrived": in the onRequest hooks before the collector's; "handling": until its onSend
\* hook; "sent": told; "answered": the response has passed its onSend hook by.
Phases == {"new", "arrived", "handling", "sent", "answered", "done"}

MetricsInit ==
  /\ metrics = NoMetrics /\ running = {} /\ issuedQueries = 0
  /\ requestPhase = [u \in Users |-> "new"] /\ unreset = {} /\ intransaction = {}
  /\ timing = [u \in Users |-> NoHeader]
  /\ mine = [u \in Users |-> NoTiming] /\ due = mine
  /\ logged = [u \in Users |-> {}]
  /\ alone = {}
-----------------------------------------------------------------------------
RequestArrives(u) ==
  /\ requestPhase[u] = "new" /\ requestPhase' = [requestPhase EXCEPT ![u] = "arrived"]
  /\ UNCHANGED <<metrics, running, issuedQueries, unreset, intransaction, timing, mine, due, logged, alone>>

\* No query of another is left running.
PoolFree(u) == \A q \in running : q.of = u

\* Mutated form: nothing is reset.
OnRequestKeeping(u) ==
  /\ requestPhase[u] = "arrived" /\ requestPhase' = [requestPhase EXCEPT ![u] = "handling"]
  /\ mine' = [mine EXCEPT ![u] = NoTiming]
  /\ alone' = IF PoolFree(u) THEN {u} ELSE {}
  /\ UNCHANGED <<metrics, running, issuedQueries, unreset, intransaction, timing, due, logged>>

\* The onRequest hook: the pool's metrics are reset, whoever else is being handled.
OnRequest(u) ==
  /\ requestPhase[u] = "arrived" /\ requestPhase' = [requestPhase EXCEPT ![u] = "handling"]
  /\ metrics' = NoMetrics
  /\ mine' = [mine EXCEPT ![u] = NoTiming]
  /\ alone' = IF PoolFree(u) THEN {u} ELSE {}
  /\ UNCHANGED <<running, issuedQueries, unreset, intransaction, timing, due, logged>>

\* An onRequest hook before it throws: nothing is reset, and the error's response goes
\* through the onSend hooks.
EarlierHookThrows(u) ==
  /\ requestPhase[u] = "arrived" /\ requestPhase' = [requestPhase EXCEPT ![u] = "handling"]
  /\ UNCHANGED <<metrics, running, issuedQueries, unreset, intransaction, timing, mine, due, logged, alone>>

\* It outlasts the timeout: the error's response does not wait for the reset, ...
EarlierHookTimesOut(u) ==
  /\ requestPhase[u] = "arrived" /\ requestPhase' = [requestPhase EXCEPT ![u] = "handling"]
  /\ unreset' = unreset \cup {u}
  /\ UNCHANGED <<metrics, running, issuedQueries, intransaction, timing, mine, due, logged, alone>>

\* ... which comes whenever the hook ends, nobody's measure since.
LateReset(u) ==
  /\ u \in unreset /\ unreset' = unreset \ {u}
  /\ metrics' = NoMetrics /\ alone' = {}
  /\ UNCHANGED <<running, issuedQueries, requestPhase, intransaction, timing, mine, due, logged>>

\* A hook before the handler answers, which skips the onSend hooks, or an onSend hook
\* before the collector's throws.
PassedBy(u) ==
  /\ requestPhase[u] \in {"arrived", "handling"}
  /\ requestPhase' = [requestPhase EXCEPT ![u] = "answered"]
  /\ UNCHANGED <<metrics, running, issuedQueries, unreset, intransaction, timing, mine, due, logged, alone>>

\* Somebody else's query ends the time u had the pool alone.  A query is started by a hook,
\* the handler, a later onSend hook (a commit), or a handler that outlives its timeout.
StartQuery(u, kind) ==
  /\ requestPhase[u] # "new" /\ issuedQueries < MaxQueries
  /\ issuedQueries' = issuedQueries + 1
  /\ running' = running \cup {[id |-> issuedQueries + 1, of |-> u, kind |-> kind]}
  /\ alone' = alone \cap {u}
  /\ UNCHANGED <<metrics, requestPhase, unreset, intransaction, timing, mine, due, logged>>

\* query() of the pool or of a tracked transaction, which also tracks commit and rollback.
Query(u) == StartQuery(u, "query")
BeginTransaction(u) == u \notin intransaction /\ StartQuery(u, "begin")
EndTransaction(u) == u \in intransaction /\ StartQuery(u, "end")

\* A query ends, well or not: it is counted, except a BEGIN that failed.
EndQuery(q, duration) ==
  /\ q \in running /\ running' = running \ {q}
  /\ intransaction' = CASE q.kind = "begin" -> intransaction \cup {q.of}
                        [] q.kind = "end" -> intransaction \ {q.of}
                        [] OTHER -> intransaction
  /\ metrics' = [dbTime |-> metrics.dbTime + duration, queryCount |-> metrics.queryCount + 1,
                 queries |-> metrics.queries \cup {[id |-> q.id, of |-> q.of, duration |-> duration]}]
  /\ mine' = [mine EXCEPT ![q.of] = [count |-> @.count + 1, dbTime |-> @.dbTime + duration]]
  /\ UNCHANGED <<issuedQueries, requestPhase, unreset, timing, due, logged, alone>>

BeginFails(q) ==
  /\ q \in running /\ q.kind = "begin" /\ running' = running \ {q}
  /\ UNCHANGED <<metrics, issuedQueries, requestPhase, unreset, intransaction, timing, mine, due, logged, alone>>

\* The onSend hook; after a timeout the lifecycle that goes on may run it once more.
OnSend(u) ==
  /\ requestPhase[u] \in {"handling", "sent"}
  /\ requestPhase' = [requestPhase EXCEPT ![u] = "sent"]
  /\ timing' = IF metrics.queryCount = 0 THEN timing
               ELSE [timing EXCEPT ![u] = [count |-> metrics.queryCount, dbTime |-> metrics.dbTime]]
  /\ due' = [due EXCEPT ![u] = mine[u]]
  /\ UNCHANGED <<metrics, running, issuedQueries, unreset, intransaction, mine, logged, alone>>

\* The onResponse hook, after the response has gone.
OnResponse(u) ==
  /\ requestPhase[u] \in {"sent", "answered"}
  /\ requestPhase' = [requestPhase EXCEPT ![u] = "done"]
  /\ logged' = [logged EXCEPT ![u] = {q \in metrics.queries : q.duration \in Slow}]
  /\ UNCHANGED <<metrics, running, issuedQueries, unreset, intransaction, timing, mine, due, alone>>

MetricsNext ==
  \/ \E u \in Users : \/ RequestArrives(u) \/ OnRequest(u) \/ PassedBy(u)
                      \/ EarlierHookThrows(u) \/ EarlierHookTimesOut(u) \/ LateReset(u)
                      \/ Query(u) \/ BeginTransaction(u) \/ EndTransaction(u)
                      \/ OnSend(u) \/ OnResponse(u)
  \/ \E q \in running : BeginFails(q) \/ \E duration \in Durations : EndQuery(q, duration)

MetricsSpec == MetricsInit /\ [][MetricsNext]_metricVars
-----------------------------------------------------------------------------
\* The header that so many queries account for.
HeaderFor(total) == IF total.count = 0 THEN NoHeader ELSE total

\* A request whose reset ran, and that has had the pool to itself since, is told in
\* Server-Timing exactly the queries that it had ended by then, those of a transaction
\* included; and the slow queries logged for it are its own.  One that an earlier hook
\* refused, answered or held up too long had no reset and is told what it finds.
AloneExact ==
  \A u \in alone : /\ requestPhase[u] = "sent" => timing[u] = HeaderFor(due[u])
                   /\ requestPhase[u] = "done" => \A q \in logged[u] : q.of = u

\* The inductive invariant behind AloneExact: a request that is alone owns the queries
\* that run and all that the pool's record counts, which is what it will be told; and
\* nothing is told before the onSend hook.
MetricsTypeOK ==
  /\ metrics.queryCount \in Nat /\ metrics.dbTime \in Nat
  /\ \A q \in running : q.of \in Users
  /\ requestPhase \in [Users -> Phases]
  /\ DOMAIN timing = Users /\ DOMAIN logged = Users /\ DOMAIN due = Users
  /\ mine \in [Users -> [count : Nat, dbTime : Nat]]
  /\ alone \subseteq Users

Untold ==
  \A u \in Users : requestPhase[u] \in {"new", "arrived", "handling"} => timing[u] = NoHeader

AloneOwns ==
  \A u \in alone :
    /\ requestPhase[u] \notin {"new", "arrived"}
    /\ \A q \in running \cup metrics.queries : q.of = u
    /\ mine[u] = [count |-> metrics.queryCount, dbTime |-> metrics.dbTime]

\* What a request that is alone was told before only grows.
ToldGrows ==
  \A u \in alone : timing[u] # NoHeader => metrics.queryCount > 0

MetricsInv == MetricsTypeOK /\ Untold /\ AloneOwns /\ ToldGrows /\ AloneExact

\* README.md: trackedPool() gives per-request query metrics.
MetricsPerRequest == \A u \in Users : requestPhase[u] = "sent" => timing[u] = HeaderFor(due[u])
=============================================================================
