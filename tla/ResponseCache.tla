---------------------------- MODULE ResponseCache ----------------------------
(***************************************************************************)
(* createResponseCache of cache/src/response-cache.ts for one cache key:   *)
(* any number of concurrent requests whose key it is, and invalidations.   *)
(*                                                                         *)
(* An action is the code from one await to the next.  A store call takes   *)
(* effect when it is made and its answer is seen at the await, so a value  *)
(* read may be stale when it is used.  Responses are what the rules tell   *)
(* apart: "public" (the origin says public or s-maxage), "shared"          *)
(* (storable, nothing said), "private" (never storable, or a status that   *)
(* is not cached) and "throws".  A handler sees the data as they are when  *)
(* it starts; `version` counts the writes to them.                         *)
(***************************************************************************)
EXTENDS Naturals, FiniteSets

CONSTANTS Requests,      \* each makes one call of cached()
          Nobody,        \* no request
          Credentialed,  \* requests that possibly carry a credential
          Revalidating,  \* requests with no-cache, no-store or max-age=0
          Kinds,         \* what the handler may answer
          OldRelease,    \* may the store hold an entry of an older release?
          MaxWrites,     \* bound: writes to the data behind the handler
          MaxPurges,     \* bound: calls of invalidate()
          MaxExpiries,   \* bound: entries that expire or are evicted
          MaxFaults,     \* bound: store calls that reject
          MaxTime        \* bound: clock ticks (milliseconds)

ASSUME CacheAssumption ==
  /\ IsFiniteSet(Requests) /\ Nobody \notin Requests
  /\ Credentialed \subseteq Requests /\ Revalidating \subseteq Requests
  /\ Kinds \subseteq {"public", "shared", "private", "throws"}
  /\ OldRelease \in BOOLEAN
  /\ {MaxWrites, MaxPurges, MaxExpiries, MaxFaults, MaxTime} \subseteq Nat

VARIABLES entry,     \* what the store holds under the key
          inFlight,  \* the request whose execution the Map publishes, or Nobody
          at,        \* at[r]: the await r is at
          answer,    \* answer[r]: what its last store.get read
          awaited,   \* awaited[r]: the execution it waits or waited for
          since,     \* waitingSince
          seen,      \* seen[r]: the version its handler read
          outcome,   \* outcome[r]: the response it got
          purge,     \* the running invalidate(): what its keys() found
          now,       \* Date.now()
          version,   \* of the data behind the handler
          arrived,   \* history: how things stood when r arrived
          stored,    \* history: requests whose response was stored
          missed,    \* history: requests that waited and found nothing to serve
          faulty,    \* history: requests whose own handler or store call failed
          latest,    \* history: the execution started last
          cleared,   \* history: whose entries were stored when a purge that is
                     \* completed began
          floor,     \* history: the version, and the handlers running, when the last
                     \* completed purge began
          spent      \* history: [purges, expiries, faults]

history == <<stored, missed, faulty, latest>>
purging == <<purge, cleared, floor>>
vars == <<entry, inFlight, at, answer, awaited, since, seen, outcome, purging,
          now, version, arrived, history, spent>>

Someone == Requests \cup {Nobody}
Entry == [by : Someone, kind : {"public", "shared", "private", "none"},
          version : 0..MaxWrites, cachedAt : 0..MaxTime]
NoEntry == [by |-> Nobody, kind |-> "none", version |-> 0, cachedAt |-> 0]
OldEntry == [NoEntry EXCEPT !.kind = "private"]
Idle == [state |-> "idle", by |-> Nobody, version |-> 0, racing |-> {}]

Floor == [version : 0..MaxWrites, racing : SUBSET Requests]
NoFloor == [version |-> 0, racing |-> {}]

TypeOK ==
  /\ entry \in Entry /\ inFlight \in Someone
  /\ at \in [Requests -> {"new", "looking", "deleting", "waiting", "rereading",
                          "handling", "storing", "served", "failed"}]
  /\ answer \in [Requests -> Entry] /\ outcome \in [Requests -> Entry]
  /\ awaited \in [Requests -> Someone]
  /\ since \in [Requests -> 0..MaxTime] /\ seen \in [Requests -> 0..MaxWrites]
  /\ now \in 0..MaxTime /\ version \in 0..MaxWrites
  /\ purge \in [state : {"idle", "empty", "listed"}, by : Someone,
                 version : 0..MaxWrites, racing : SUBSET Requests]
  /\ arrived \in [Requests -> [found : Entry, time : 0..MaxTime,
                              cleared : SUBSET Someone, floor : Floor]]
  /\ stored \cup missed \cup faulty \subseteq Requests
  /\ latest \in Someone /\ cleared \subseteq Someone /\ floor \in Floor
  /\ spent \in [purges : 0..MaxPurges, expiries : 0..MaxExpiries, faults : 0..MaxFaults]

Init ==
  /\ entry \in {NoEntry} \cup (IF OldRelease THEN {OldEntry} ELSE {})
  /\ inFlight = Nobody /\ latest = Nobody
  /\ at = [r \in Requests |-> "new"]
  /\ answer = [r \in Requests |-> NoEntry] /\ outcome = [r \in Requests |-> NoEntry]
  /\ awaited = [r \in Requests |-> Nobody]
  /\ since = [r \in Requests |-> 0] /\ seen = [r \in Requests |-> 0]
  /\ arrived = [r \in Requests |-> [found |-> NoEntry, time |-> 0, cleared |-> {},
                                floor |-> NoFloor]]
  /\ now = 0 /\ version = 0
  /\ purge = Idle /\ cleared = {} /\ floor = NoFloor
  /\ stored = {} /\ missed = {} /\ faulty = {}
  /\ spent = [purges |-> 0, expiries |-> 0, faults |-> 0]
-----------------------------------------------------------------------------
\* canStoreSharedResponse, canReplaySharedResponse, and canServe of request r.
CanStore(r, kind) == kind = "public" \/ (kind = "shared" /\ r \notin Credentialed)
CanReplay(e) == e.kind \in {"public", "shared"}

\* Mutated form: replays whatever may be replayed at all.
CanServeAnyone(r, e) == CanReplay(e)

CanServe(r, e) == CanReplay(e) /\ (r \notin Credentialed \/ e.kind = "public")

Serve(r, e) == /\ outcome' = [outcome EXCEPT ![r] = e]
               /\ at' = [at EXCEPT ![r] = "served"]

\* A store call of r rejects: so does cached().
StoreRejects(r) ==
  /\ spent.faults < MaxFaults
  /\ spent' = [spent EXCEPT !.faults = @ + 1]
  /\ faulty' = faulty \cup {r}
  /\ at' = [at EXCEPT ![r] = "failed"]

\* executeAndStore() starts and is published.
Execute(r) ==
  /\ at' = [at EXCEPT ![r] = "handling"]
  /\ seen' = [seen EXCEPT ![r] = version]
  /\ inFlight' = r /\ latest' = r

\* The synchronous part between the first store call and the next await.
JoinOrExecute(r) ==
  \/ /\ inFlight # Nobody
     /\ at' = [at EXCEPT ![r] = "waiting"]
     /\ awaited' = [awaited EXCEPT ![r] = inFlight]
     /\ since' = [since EXCEPT ![r] = now]
     /\ UNCHANGED <<inFlight, latest, seen>>
  \/ inFlight = Nobody /\ Execute(r) /\ UNCHANGED <<awaited, since>>

\* A revalidating request does not look into the store.
Arrive(r) ==
  /\ at[r] = "new"
  /\ arrived' = [arrived EXCEPT ![r] =
       [found |-> entry, time |-> now, cleared |-> cleared, floor |-> floor]]
  /\ \/ r \in Revalidating /\ JoinOrExecute(r) /\ UNCHANGED answer
     \/ /\ r \notin Revalidating
        /\ at' = [at EXCEPT ![r] = "looking"]
        /\ answer' = [answer EXCEPT ![r] = entry]
        /\ UNCHANGED <<inFlight, awaited, since, seen, latest>>
  /\ UNCHANGED <<entry, outcome, purging, now, version, stored, missed, faulty, spent>>

\* store.get() answered: serve it, delete what must not be replayed, or go on.
Look(r) ==
  /\ at[r] = "looking"
  /\ \/ /\ CanServe(r, answer[r])
        /\ Serve(r, answer[r])
        /\ UNCHANGED <<entry, inFlight, awaited, since, seen, faulty, latest, spent>>
     \/ /\ answer[r].kind = "private"
        /\ entry' = NoEntry
        /\ at' = [at EXCEPT ![r] = "deleting"]
        /\ UNCHANGED <<outcome, inFlight, awaited, since, seen, faulty, latest, spent>>
     \/ /\ answer[r].kind # "private" /\ ~CanServe(r, answer[r])
        /\ JoinOrExecute(r)
        /\ UNCHANGED <<entry, outcome, faulty, spent>>
     \/ /\ StoreRejects(r)
        /\ UNCHANGED <<entry, outcome, inFlight, awaited, since, seen, latest>>
  /\ UNCHANGED <<answer, purging, now, version, arrived, stored, missed>>

Deleted(r) ==
  /\ at[r] = "deleting"
  /\ JoinOrExecute(r)
  /\ UNCHANGED <<entry, answer, outcome, purging, now, version, arrived, stored,
                 missed, faulty, spent>>

\* Mutated form: goes on with what it read before it waited.
WakeWithoutReread(r) ==
  /\ at[r] = "waiting" /\ at[awaited[r]] \in {"served", "failed"}
  /\ at' = [at EXCEPT ![r] = "rereading"]
  /\ UNCHANGED <<entry, inFlight, answer, awaited, since, seen, outcome, purging, now,
                 version, arrived, history, spent>>

\* The execution waited for has settled, whether it resolved or rejected: re-read.
Wake(r) ==
  /\ at[r] = "waiting" /\ at[awaited[r]] \in {"served", "failed"}
  /\ at' = [at EXCEPT ![r] = "rereading"]
  /\ answer' = [answer EXCEPT ![r] = entry]
  /\ UNCHANGED <<entry, inFlight, awaited, since, seen, outcome, purging, now,
                 version, arrived, history, spent>>

FreshEnough(r) == r \in Revalidating => answer[r].cachedAt >= since[r]

\* Serve what was re-read, or execute, replacing what is published by now.
Reread(r) ==
  /\ at[r] = "rereading"
  /\ LET servable == CanServe(r, answer[r]) /\ FreshEnough(r)
     IN \/ /\ servable
           /\ Serve(r, answer[r])
           /\ UNCHANGED <<inFlight, seen, latest, missed, faulty, spent>>
        \/ /\ ~servable
           /\ Execute(r)
           /\ missed' = missed \cup {r}
           /\ UNCHANGED <<outcome, faulty, spent>>
        \/ /\ StoreRejects(r)
           /\ UNCHANGED <<outcome, inFlight, seen, latest, missed>>
  /\ UNCHANGED <<entry, answer, awaited, since, purging, now, version, arrived, stored>>
-----------------------------------------------------------------------------
\* The finally: only its own publication.
Unpublish(r) == inFlight' = IF inFlight = r THEN Nobody ELSE inFlight

Own(r, kind) == [by |-> r, kind |-> kind, version |-> seen[r], cachedAt |-> now]

HandlerThrows(r) ==
  /\ at[r] = "handling" /\ "throws" \in Kinds
  /\ at' = [at EXCEPT ![r] = "failed"]
  /\ faulty' = faulty \cup {r}
  /\ Unpublish(r)
  /\ UNCHANGED <<entry, answer, awaited, since, seen, outcome, purging, now,
                 version, arrived, stored, missed, latest, spent>>

\* A response that may not be stored is for this request alone.
AnswersUnstorable(r, kind) ==
  /\ at[r] = "handling" /\ ~CanStore(r, kind)
  /\ Serve(r, Own(r, kind))
  /\ Unpublish(r)
  /\ UNCHANGED <<entry, answer, awaited, since, seen, purging, now, version,
                 arrived, history, spent>>

\* Mutated form: the execution is over for its followers before it is stored.
AnswersUnpublished(r, kind) ==
  /\ at[r] = "handling" /\ CanStore(r, kind)
  /\ entry' = Own(r, kind)
  /\ outcome' = [outcome EXCEPT ![r] = Own(r, kind)]
  /\ at' = [at EXCEPT ![r] = "storing"]
  /\ stored' = stored \cup {r}
  /\ Unpublish(r)
  /\ UNCHANGED <<answer, awaited, since, seen, purging, now, version, arrived,
                 missed, faulty, latest, spent>>

\* A storable one goes to the store first; if that fails, so does the request.
Answers(r, kind) ==
  /\ at[r] = "handling" /\ CanStore(r, kind)
  /\ \/ /\ entry' = Own(r, kind)
        /\ outcome' = [outcome EXCEPT ![r] = Own(r, kind)]
        /\ at' = [at EXCEPT ![r] = "storing"]
        /\ stored' = stored \cup {r}
        /\ UNCHANGED <<inFlight, faulty, spent>>
     \/ /\ StoreRejects(r)
        /\ Unpublish(r)
        /\ UNCHANGED <<entry, outcome, stored>>
  /\ UNCHANGED <<answer, awaited, since, seen, purging, now, version, arrived,
                 missed, latest>>

\* store.set() returned.
Stored(r) ==
  /\ at[r] = "storing"
  /\ at' = [at EXCEPT ![r] = "served"]
  /\ Unpublish(r)
  /\ UNCHANGED <<entry, answer, awaited, since, seen, outcome, purging, now,
                 version, arrived, history, spent>>
-----------------------------------------------------------------------------
(* invalidate(): list the keys, then delete those that match *)
ListKeys ==
  /\ purge = Idle /\ spent.purges < MaxPurges
  /\ spent' = [spent EXCEPT !.purges = @ + 1]
  /\ purge' = [state |-> IF entry = NoEntry THEN "empty" ELSE "listed",
               by |-> entry.by, version |-> version,
               racing |-> {r \in Requests : at[r] = "handling"}]
  /\ UNCHANGED <<entry, inFlight, at, answer, awaited, since, seen, outcome, cleared,
                 floor, now, version, arrived, history>>

PurgeEnds ==
  /\ purge # Idle
  /\ purge' = Idle
  /\ cleared' = cleared \cup {purge.by}
  /\ floor' = [version |-> purge.version, racing |-> purge.racing]
  /\ UNCHANGED <<inFlight, at, answer, awaited, since, seen, outcome, now, version,
                 arrived, history, spent>>

\* Mutated form: leaves a key alone while an execution for it is in flight.
DeleteUnlessInFlight ==
  /\ PurgeEnds
  /\ entry' = IF purge.state = "listed" /\ inFlight = Nobody THEN NoEntry ELSE entry

DeleteKeys ==
  /\ PurgeEnds
  /\ entry' = IF purge.state = "listed" THEN NoEntry ELSE entry

\* The store drops the entry: its TTL, or the LRU cap.
Expire ==
  /\ entry # NoEntry /\ spent.expiries < MaxExpiries
  /\ spent' = [spent EXCEPT !.expiries = @ + 1]
  /\ entry' = NoEntry
  /\ UNCHANGED <<inFlight, at, answer, awaited, since, seen, outcome, purging, now,
                 version, arrived, history>>

Write == /\ version < MaxWrites /\ version' = version + 1
         /\ UNCHANGED <<entry, inFlight, at, answer, awaited, since, seen, outcome,
                        purging, now, arrived, history, spent>>

Tick == /\ now < MaxTime /\ now' = now + 1
        /\ UNCHANGED <<entry, inFlight, at, answer, awaited, since, seen, outcome,
                       purging, version, arrived, history, spent>>

Next ==
  \/ \E r \in Requests :
       \/ Arrive(r) \/ Look(r) \/ Deleted(r) \/ Wake(r) \/ Reread(r)
       \/ HandlerThrows(r) \/ Stored(r)
       \/ \E kind \in Kinds \ {"throws"} : AnswersUnstorable(r, kind) \/ Answers(r, kind)
  \/ ListKeys \/ DeleteKeys \/ Expire \/ Write \/ Tick

Spec == Init /\ [][Next]_vars
-----------------------------------------------------------------------------
(* Properties *)

Executing == {r \in Requests : at[r] \in {"handling", "storing"}}

\* Stampede protection: the handler runs once at a time for a key, plus once for
\* each request that waited and then found nothing it may be served.
StampedeBound == Cardinality(Executing) <= 1 + Cardinality(missed)

\* A request that has not waited yet never starts an execution beside the one
\* started last: replaced publications do not open the flight to newcomers.
NewcomersJoin ==
  [][\A r \in Requests :
       at[r] # "handling" /\ at'[r] = "handling" /\ r \notin missed'
         => latest \notin Executing]_vars

\* "A coalescing caller that awaits it is guaranteed to see the entry when it
\* re-reads": who waited for an execution that stored does not execute (unless
\* its credential or its wish for a fresher answer forbids it that entry).
Undisturbed == spent.purges = 0 /\ spent.expiries = 0 /\ ~OldRelease
FollowersServed ==
  Undisturbed => \A r \in missed \ (Credentialed \cup Revalidating) :
                   awaited[r] \notin stored

\* A request gets its own response or one that may be shared with it: public, or
\* made without credentials for a request without credentials.
OwnOrShared ==
  \A r \in Requests : at[r] = "served" =>
    LET e == outcome[r]
    IN \/ e.by = r
       \/ e.kind = "public"
       \/ e.kind = "shared" /\ {r, e.by} \cap Credentialed = {}

\* A revalidating request is never served the entry it found in the store, not
\* even after waiting for somebody else's execution (within one millisecond the
\* code cannot tell).
RevalidationFresh ==
  \A r \in Revalidating : at[r] = "served" =>
    \/ outcome[r] # arrived[r].found
    \/ outcome[r].cachedAt = arrived[r].time

\* What a request is served may be served to it.
ServedRightly == OwnOrShared /\ RevalidationFresh

\* A failing handler or store call fails its own request only: those that waited
\* for it go on.
FailuresAreOwn == \A r \in Requests : at[r] = "failed" => r \in faulty

\* A request that arrives after a purge completed is not served what was stored when
\* the purge began, nor what was computed from older data, unless the handler that
\* computed it was running then: that response is stored after the purge.
PurgeHolds ==
  \A r \in Requests : at[r] = "served" =>
    \/ outcome[r].by = r
    \/ /\ outcome[r].by \notin arrived[r].cleared
       /\ \/ outcome[r].version >= arrived[r].floor.version
          \/ outcome[r].by \in arrived[r].floor.racing
=============================================================================
