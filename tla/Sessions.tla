-------------------------------- MODULE Sessions --------------------------------
(***************************************************************************)
(* createSessionManager of cache/src/session.ts over a MemoryKVStore:      *)
(* concurrent handlers that load, change, save, rotate and destroy the     *)
(* sessions their cookies name, in a store that expires and evicts.        *)
(*                                                                         *)
(* An action is the code from one await to the next: a store call takes    *)
(* effect when it is made, what follows its await comes later.  The store  *)
(* keeps a reference to the data object of the session saved last, so the  *)
(* value of an entry is the handler whose object it is.                    *)
(***************************************************************************)
EXTENDS KVStore, FiniteSets

CONSTANTS Handlers,    \* requests: each has one session object
          SessionTtl,  \* ttlMs
          MaxIds,      \* bound: ids the server generates
          MaxCalls,    \* bound: calls one handler makes on its session
          MaxClock,    \* bound: clock ticks
          MaxChurn     \* bound: calls other users of the store make

ASSUME SessionAssumption ==
  /\ IsFiniteSet(Handlers)
  /\ SessionTtl \in Nat \ {0}
  /\ {MaxIds, MaxCalls, MaxClock, MaxChurn} \subseteq Nat

VARIABLES store,    \* the MemoryKVStore: sessions and the keys of others
          minted,   \* ids generated so far: 1..minted
          issued,   \* ids the clients know, from a Set-Cookie
          handler,  \* handler[r]: where r is and the id of its session object
          data,     \* data[r]: is the session object of r non-empty?
          clock,    \* Date.now()
          churned,  \* calls made by others
          lapsed,   \* history: ids whose entry expired or was evicted
          rotated   \* history: ids rotated away under which nothing was saved since

sessionVars == <<store, minted, issued, handler, data, clock, churned, lapsed, rotated>>

Unknown == 0                  \* a cookie whose id the server never issued
Ids == 1..MaxIds
Other(n) == MaxIds + n        \* the keys of other users of the store

Opened == {"loading", "open", "dropping", "clearing"}

SessionTypeOK ==
  /\ \A i \in DOMAIN store :
       store[i] \in [key : 1..(MaxIds + MaxChurn), value : Handlers \cup Nat, expiresAt : Nat]
  /\ minted \in 0..MaxIds /\ issued \subseteq 1..minted
  /\ handler \in [Handlers -> [at : Opened \cup {"idle", "done"},
                               sid : 0..minted, was : 0..minted, from : Handlers, calls : 0..MaxCalls]]
  /\ data \in [Handlers -> BOOLEAN]
  /\ clock \in 1..MaxClock /\ churned \in 0..MaxChurn /\ lapsed \subseteq Ids
  /\ rotated \subseteq Ids

SessionInit ==
  /\ store = <<>> /\ minted = 0 /\ issued = {}
  /\ data = [r \in Handlers |-> FALSE]
  /\ handler = [r \in Handlers |->
       [at |-> "idle", sid |-> Unknown, was |-> Unknown, from |-> r, calls |-> 0]]
  /\ clock = 1 /\ churned = 0 /\ lapsed = {} /\ rotated = {}

\* Sessions that a step ends although no caller deletes them.
Lapse(deleted) ==
  lapsed' = lapsed \cup {k \in Ids \ deleted : Live(store, k, clock) /\ ~Live(store', k, clock')}

Quiet == UNCHANGED <<clock, churned>>
-----------------------------------------------------------------------------
(* fromRequest *)

\* create(): an empty session is not persisted.
Create(r) ==
  /\ minted < MaxIds /\ minted' = minted + 1
  /\ handler' = [handler EXCEPT ![r].at = "open", ![r].sid = minted + 1]

\* Mutated form: the id of the cookie is adopted.
AdoptSession(r, cookie) ==
  /\ handler[r].at = "idle"
  /\ ~Live(store, cookie, clock)
  /\ minted' = minted
  /\ handler' = [handler EXCEPT ![r].at = "open", ![r].sid = cookie]
  /\ store' = StoreGet(store, cookie, clock)
  /\ UNCHANGED <<issued, data, lapsed, rotated>> /\ Quiet

\* No cookie, or one that names no live session.
NewSession(r, cookie) ==
  /\ handler[r].at = "idle"
  /\ ~Live(store, cookie, clock)
  /\ Create(r)
  /\ store' = StoreGet(store, cookie, clock)
  /\ UNCHANGED <<issued, data, lapsed, rotated>> /\ Quiet

\* load(): get() has found the entry; the object it refers to is copied later.
FindSession(r, cookie) ==
  /\ handler[r].at = "idle"
  /\ Live(store, cookie, clock)
  /\ handler' = [handler EXCEPT ![r].at = "loading", ![r].sid = cookie,
                                ![r].from = EntryOf(store, cookie).value]
  /\ store' = StoreGet(store, cookie, clock)
  /\ UNCHANGED <<minted, issued, data, lapsed, rotated>> /\ Quiet

\* makeSession
Loaded(r) ==
  /\ handler[r].at = "loading"
  /\ handler' = [handler EXCEPT ![r].at = "open"]
  /\ data' = [data EXCEPT ![r] = data[handler[r].from]]
  /\ UNCHANGED <<store, minted, issued, lapsed, rotated>> /\ Quiet
-----------------------------------------------------------------------------
(* The session object *)

Calls(r) == handler[r].at = "open" /\ handler[r].calls < MaxCalls
Called(r) == handler' = [handler EXCEPT ![r].calls = @ + 1]

\* set() and delete() change the object, which the store may refer to.
SetOrDelete(r) ==
  /\ Calls(r) /\ Called(r)
  /\ data' = [data EXCEPT ![r] = ~@]
  /\ UNCHANGED <<store, minted, issued, lapsed, rotated>> /\ Quiet

Saved(r, id) ==
  IF data[r] THEN StoreSet(store, id, r, SessionTtl, clock) ELSE StoreDelete(store, id)

Save(r) ==
  /\ Calls(r) /\ Called(r)
  /\ store' = Saved(r, handler[r].sid)
  /\ rotated' = rotated \ {handler[r].sid}
  /\ UNCHANGED <<minted, issued, data>> /\ Quiet
  /\ Lapse({handler[r].sid})

\* Mutated form: the old entry goes first, the new one is left to the next save().
RegenerateDropFirst(r) ==
  /\ Calls(r) /\ minted < MaxIds /\ minted' = minted + 1
  /\ handler' = [handler EXCEPT ![r].at = "dropping", ![r].was = handler[r].sid,
                                ![r].sid = minted + 1, ![r].calls = @ + 1]
  /\ store' = StoreDelete(store, handler[r].sid)
  /\ UNCHANGED <<issued, data, rotated>> /\ Quiet
  /\ Lapse({handler[r].sid})

\* regenerate() rotates the id in place and saves under the new one; the old entry
\* is deleted after that await.
Regenerate(r) ==
  /\ Calls(r) /\ minted < MaxIds /\ minted' = minted + 1
  /\ handler' = [handler EXCEPT ![r].at = "dropping", ![r].was = handler[r].sid,
                                ![r].sid = minted + 1, ![r].calls = @ + 1]
  /\ store' = Saved(r, minted + 1)
  /\ UNCHANGED <<issued, data, rotated>> /\ Quiet
  /\ Lapse({})

DropPrevious(r) ==
  /\ handler[r].at = "dropping"
  /\ handler' = [handler EXCEPT ![r].at = "open"]
  /\ store' = StoreDelete(store, handler[r].was)
  /\ rotated' = rotated \cup {handler[r].was}
  /\ UNCHANGED <<minted, issued, data, lapsed>> /\ Quiet

Destroy(r) ==
  /\ Calls(r)
  /\ handler' = [handler EXCEPT ![r].at = "clearing", ![r].calls = @ + 1]
  /\ store' = StoreDelete(store, handler[r].sid)
  /\ UNCHANGED <<minted, issued, data, lapsed, rotated>> /\ Quiet

Cleared(r) ==
  /\ handler[r].at = "clearing"
  /\ handler' = [handler EXCEPT ![r].at = "open"]
  /\ data' = [data EXCEPT ![r] = FALSE]
  /\ UNCHANGED <<store, minted, issued, lapsed, rotated>> /\ Quiet

\* The response carries sessions.cookie(session.id).
Respond(r) ==
  /\ handler[r].at = "open"
  /\ handler' = [handler EXCEPT ![r].at = "done"]
  /\ issued' = issued \cup {handler[r].sid}
  /\ UNCHANGED <<store, minted, data, lapsed, rotated>> /\ Quiet
-----------------------------------------------------------------------------
(* Everyone else *)

\* sessions.destroy(id)
Revoke(id) ==
  /\ store' = StoreDelete(store, id)
  /\ UNCHANGED <<minted, issued, handler, data, lapsed, rotated>> /\ Quiet

\* Another user of the same store counts something.
Churn(n) ==
  /\ churned < MaxChurn /\ churned' = churned + 1
  /\ store' = StoreIncr(store, Other(n), 1, clock)
  /\ UNCHANGED <<minted, issued, handler, data, clock, rotated>>
  /\ Lapse({})

SessionTick ==
  /\ clock < MaxClock /\ clock' = clock + 1
  /\ UNCHANGED <<store, minted, issued, handler, data, churned, rotated>>
  /\ Lapse({})

\* The interval of the store; how it falls between the ticks does not matter.
Cleanup ==
  /\ store' \in StoreCleanup(store, clock)
  /\ UNCHANGED <<minted, issued, handler, data, lapsed, rotated>> /\ Quiet

Handle(r) ==
  \/ \E cookie \in issued \cup {Unknown} : NewSession(r, cookie) \/ FindSession(r, cookie)
  \/ Loaded(r) \/ SetOrDelete(r) \/ Save(r) \/ Regenerate(r) \/ DropPrevious(r)
  \/ Destroy(r) \/ Cleared(r) \/ Respond(r)

SessionNext ==
  \/ \E r \in Handlers : Handle(r)
  \/ \E id \in issued : Revoke(id)
  \/ \E n \in 1..MaxChurn : Churn(n)
  \/ SessionTick \/ Cleanup

SessionSpec == SessionInit /\ [][SessionNext]_sessionVars
-----------------------------------------------------------------------------
Holds(r, id) == handler[r].at \in Opened /\ handler[r].sid = id

\* An id nobody can reach a session with any more, or never could.
Dead(id) == ~Live(store, id, clock) /\ \A r \in Handlers : ~Holds(r, id)

\* Once an id names no session and no handler in progress holds one, it never names
\* one again: a destroyed, rotated or expired session can only come back through a
\* handler that had loaded it before, and an id the server did not issue is never
\* adopted.
DeadStaysDead == [][\A id \in 0..minted : Dead(id) => Dead(id)']_sessionVars

\* After regenerate() the id the handler had names no session, unless another handler
\* that still had it saves under it; the handler that rotated it never does.
RotatedAway ==
  /\ \A id \in rotated : ~Live(store, id, clock)
  /\ \A r \in Handlers :
       handler[r].at # "dropping" /\ Live(store, handler[r].was, clock)
         => EntryOf(store, handler[r].was).value # r

\* While regenerate() has saved the new id and not yet dropped the old one, a session
\* with data is in the store under the new id, unless the store itself let it go.
NeverMissing ==
  \A r \in Handlers :
    handler[r].at = "dropping" /\ data[r] =>
      Live(store, handler[r].sid, clock) \/ handler[r].sid \in lapsed

\* What regenerate() promises: the session moves to its new id, and is never nowhere.
Rotation == RotatedAway /\ NeverMissing

\* The inductive invariant behind both.  The store holds a key once, a session under an id
\* that was generated, counts under the keys of others.
StoreSound ==
  /\ store \in Seq([key : Nat, value : Handlers \cup Nat, expiresAt : Nat])
  /\ \A i, j \in DOMAIN store : store[i].key = store[j].key => i = j
  /\ \A i \in DOMAIN store : \/ store[i].key \in 1..minted /\ store[i].value \in Handlers
                             \/ store[i].key > MaxIds /\ store[i].value \in Nat

\* The id of an open session was generated, after the one it was rotated from.
HandlersSound ==
  /\ minted \in 0..MaxIds /\ issued \subseteq 1..minted /\ rotated \subseteq 1..minted /\ clock \in Nat
  /\ data \in [Handlers -> BOOLEAN]
  /\ handler \in [Handlers -> [at : Opened \cup {"idle", "done"}, sid : 0..minted, was : 0..minted,
                               from : Handlers, calls : Nat]]
  /\ \A r \in Handlers : /\ handler[r].at \in Opened => handler[r].sid > handler[r].was
                         /\ handler[r].at = "idle" => handler[r].was = Unknown
                         /\ handler[r].at = "dropping" => handler[r].was # Unknown

\* The id regenerate() has generated is nobody else's before the response is sent.
FreshId ==
  \A r \in Handlers : handler[r].at = "dropping" =>
    /\ handler[r].sid \notin issued
    /\ \A q \in Handlers \ {r} : handler[q].sid # handler[r].sid /\ handler[q].was # handler[r].sid

SessionInv == StoreSound /\ HandlersSound /\ FreshId /\ Rotation
=============================================================================
