-------------------------------- MODULE KVStore --------------------------------
(***************************************************************************)
(* MemoryKVStore of cache/src/store.ts.  A store is the sequence of its    *)
(* entries in the iteration order of the Map, which the code keeps as the  *)
(* LRU order: the first entry is the one used longest ago.                 *)
(*                                                                         *)
(* Every operation runs to its end inside the call, before the caller's    *)
(* await: it is one function of the store, the time and its arguments.     *)
(***************************************************************************)
EXTENDS Naturals, SequencesExt

CONSTANT MaxEntries  \* maxEntries, 0 for no cap

ASSUME StoreAssumption == MaxEntries \in Nat

NoExpiry == 0  \* expiresAt: null.  The clock starts above it.

StoreKeys(store) == {store[i].key : i \in DOMAIN store}
EntryOf(store, k) == store[CHOOSE i \in DOMAIN store : store[i].key = k]
Expired(e, t) == e.expiresAt # NoExpiry /\ e.expiresAt <= t
Live(store, k, t) == k \in StoreKeys(store) /\ ~Expired(EntryOf(store, k), t)

\* Map.delete(): a key stands at one place.
StoreDelete(store, k) ==
  IF k \in StoreKeys(store) THEN RemoveAt(store, CHOOSE i \in DOMAIN store : store[i].key = k) ELSE store

EvictIfNeeded(store) ==
  IF MaxEntries = 0 \/ Len(store) <= MaxEntries THEN store
  ELSE SubSeq(store, Len(store) - MaxEntries + 1, Len(store))

\* Re-inserting an entry makes it the one used last.
Insert(store, k, value, expiresAt) ==
  EvictIfNeeded(Append(StoreDelete(store, k), [key |-> k, value |-> value, expiresAt |-> expiresAt]))

\* What get() leaves behind; it returns the value if the entry is live.
StoreGet(store, k, t) ==
  IF Live(store, k, t) THEN Append(StoreDelete(store, k), EntryOf(store, k))
  ELSE StoreDelete(store, k)

\* A TTL of 0 is no TTL.
StoreSet(store, k, value, ttl, t) ==
  Insert(store, k, value, IF ttl = 0 THEN NoExpiry ELSE t + ttl)

\* An expired counter starts again and has no expiry; a live one keeps its own.
StoreIncr(store, k, by, t) ==
  IF Live(store, k, t)
  THEN Insert(store, k, EntryOf(store, k).value + by, EntryOf(store, k).expiresAt)
  ELSE Insert(store, k, by, NoExpiry)

\* What cleanup() leaves, in its order: there is one such store.
StoreCleanup(store, t) ==
  {[n \in DOMAIN order |-> store[order[n]]] :
     order \in {o \in SetToSeqs({i \in DOMAIN store : ~Expired(store[i], t)}) :
                 \A m, n \in DOMAIN o : m < n => o[m] < o[n]}}
=============================================================================
