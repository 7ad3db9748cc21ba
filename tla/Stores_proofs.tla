---------------------------- MODULE Stores_proofs ----------------------------
(***************************************************************************)
(* Proofs about what is kept by key: the sessions of the cache package     *)
(* over a MemoryKVStore (what regenerate() promises, and that an id nobody *)
(* holds stays dead, for any number of handlers, ids and entries, and any  *)
(* cap and TTL), and the counters of the rate limiter (how many requests a *)
(* client gets through, whom it refuses and until when, for any clients    *)
(* and proxies, any limit, window and cap, in memory and in Redis).        *)
(***************************************************************************)
EXTENDS Sessions, RateLimit, FiniteSetTheorems, SequenceTheorems, WellFoundedInduction, TLAPS

(* MemoryKVStore, as a set of entries: a key stands in it once. *)

Unique(s) == \A i, j \in DOMAIN s : s[i].key = s[j].key => i = j
In(s) == {s[i] : i \in DOMAIN s}
Alive(S, k, t) == \E e \in S : e.key = k /\ ~Expired(e, t)

\* The entries at the places of a sequence.
LEMMA StoreFacts ==
  ASSUME NEW E, NEW s \in Seq(E)
  PROVE  /\ Len(s) \in Nat /\ DOMAIN s = 1..Len(s) /\ \A i \in DOMAIN s : s[i] \in E
         /\ In(s) \subseteq E
BY ElementOfSeq, LenProperties DEF In

\* An entry is found by its key.
LEMMA FoundByKey ==
  ASSUME NEW s, Unique(s), NEW e \in In(s)
  PROVE  e.key \in StoreKeys(s) /\ EntryOf(s, e.key) = e
<1>1. PICK i \in DOMAIN s : s[i] = e
  BY DEF In
<1>2. \A j \in DOMAIN s : s[j].key = e.key => j = i
  BY <1>1 DEF Unique
<1>3. (CHOOSE j \in DOMAIN s : s[j].key = e.key) = i
  BY <1>1, <1>2
<1> QED BY <1>1, <1>3 DEF StoreKeys, EntryOf

\* A key that is there has an entry.
LEMMA KeysHaveEntries ==
  ASSUME NEW s, NEW k \in StoreKeys(s)
  PROVE  EntryOf(s, k) \in In(s) /\ EntryOf(s, k).key = k
<1>1. \E i \in DOMAIN s : s[i].key = k
  BY DEF StoreKeys
<1>2. PICK i : i = CHOOSE j \in DOMAIN s : s[j].key = k
  OBVIOUS
<1>3. i \in DOMAIN s /\ s[i].key = k
  BY <1>1, <1>2
<1> QED BY <1>2, <1>3 DEF EntryOf, In

\* What get() finds.
LEMMA LiveIsAlive ==
  ASSUME NEW s, Unique(s), NEW k, NEW t
  PROVE  Live(s, k, t) <=> Alive(In(s), k, t)
<1>1. ASSUME Live(s, k, t) PROVE Alive(In(s), k, t)
  BY <1>1, KeysHaveEntries DEF Live, Alive
<1>2. ASSUME Alive(In(s), k, t) PROVE Live(s, k, t)
  BY <1>2, FoundByKey DEF Live, Alive
<1> QED BY <1>1, <1>2

\* An entry less, at one place.
LEMMA RemoveFacts ==
  ASSUME NEW E, NEW s \in Seq(E), Unique(s), NEW i \in DOMAIN s
  PROVE  /\ RemoveAt(s, i) \in Seq(E) /\ Unique(RemoveAt(s, i))
         /\ In(RemoveAt(s, i)) = {e \in In(s) : e.key # s[i].key}
<1>3. Len(s) \in Nat /\ DOMAIN s = 1..Len(s) /\ \A n \in 1..Len(s) : s[n] \in E
  BY StoreFacts
<1>4. PICK u, v : u = SubSeq(s, 1, i - 1) /\ v = SubSeq(s, i + 1, Len(s))
  OBVIOUS
<1>5. /\ u \in Seq(E) /\ Len(u) = i - 1 /\ \A n \in 1..(i - 1) : u[n] = s[n]
  <2>1. i - 1 \in Int /\ 1 \in Int /\ \A n \in 1..(i - 1) : s[n] \in E
    BY <1>3
  <2>2. /\ SubSeq(s, 1, i - 1) \in Seq(E) /\ Len(SubSeq(s, 1, i - 1)) = IF 1 <= i - 1 THEN (i - 1) - 1 + 1 ELSE 0
        /\ \A n \in 1..((i - 1) - 1 + 1) : SubSeq(s, 1, i - 1)[n] = s[1 + n - 1]
    BY <2>1, SubSeqProperties
  <2> QED BY <1>3, <1>4, <2>1, <2>2
<1>6. /\ v \in Seq(E) /\ Len(v) = Len(s) - i /\ \A n \in 1..(Len(s) - i) : v[n] = s[i + n]
  <2>1. i + 1 \in Int /\ Len(s) \in Int /\ \A n \in (i + 1)..Len(s) : s[n] \in E
    BY <1>3
  <2>2. /\ SubSeq(s, i + 1, Len(s)) \in Seq(E)
        /\ Len(SubSeq(s, i + 1, Len(s))) = IF i + 1 <= Len(s) THEN Len(s) - (i + 1) + 1 ELSE 0
        /\ \A n \in 1..(Len(s) - (i + 1) + 1) : SubSeq(s, i + 1, Len(s))[n] = s[i + 1 + n - 1]
    BY <2>1, SubSeqProperties
  <2> QED BY <1>3, <1>4, <2>1, <2>2
<1>7. PICK w : w = u \o v
  OBVIOUS
<1>8. RemoveAt(s, i) = w
  BY <1>4, <1>7 DEF RemoveAt
<1>9. /\ w \in Seq(E) /\ Len(w) = Len(s) - 1
      /\ \A n \in 1..(Len(s) - 1) : w[n] = IF n < i THEN s[n] ELSE s[n + 1]
  <2>1. /\ u \o v \in Seq(E) /\ Len(u \o v) = Len(u) + Len(v)
        /\ \A n \in 1..(Len(u) + Len(v)) : (u \o v)[n] = IF n <= Len(u) THEN u[n] ELSE v[n - Len(u)]
    BY <1>5, <1>6, ConcatProperties
  <2>2. \A n \in 1..(Len(s) - 1) : w[n] = IF n < i THEN s[n] ELSE s[n + 1]
    <3>1. ASSUME NEW n \in 1..(Len(s) - 1), n < i PROVE w[n] = s[n]
      BY <1>3, <1>5, <1>6, <1>7, <2>1, <3>1
    <3>2. ASSUME NEW n \in 1..(Len(s) - 1), ~(n < i) PROVE w[n] = s[n + 1]
      <4>1. n - (i - 1) \in 1..(Len(s) - i) /\ i + (n - (i - 1)) = n + 1
        BY <1>3, <3>2
      <4>2. n \in 1..(Len(u) + Len(v)) /\ ~(n <= Len(u)) /\ n - Len(u) = n - (i - 1)
        BY <1>3, <1>5, <1>6, <3>2
      <4>3. w[n] = v[n - (i - 1)]
        BY <1>7, <2>1, <4>2
      <4> QED BY <1>6, <4>1, <4>3
    <3> QED BY <3>1, <3>2
  <2> QED BY <1>3, <1>5, <1>6, <1>7, <2>1, <2>2
<1>10. DOMAIN w = 1..(Len(s) - 1)
  BY <1>3, <1>9, LenProperties
<1>11. PICK at : at = [n \in DOMAIN w |-> IF n < i THEN n ELSE n + 1]
  OBVIOUS
<1>12. \A n \in DOMAIN w : at[n] \in DOMAIN s \ {i} /\ w[n] = s[at[n]]
  BY <1>3, <1>9, <1>10, <1>11
<1>13. \A n, m \in DOMAIN w : at[n] = at[m] => n = m
  BY <1>3, <1>10, <1>11
<1>14. \A n \in DOMAIN s \ {i} : \E m \in DOMAIN w : at[m] = n
  <2>1. ASSUME NEW n \in DOMAIN s \ {i} PROVE \E m \in DOMAIN w : at[m] = n
    <3>1. CASE n < i
      BY <1>3, <1>10, <1>11, <3>1
    <3>2. CASE ~(n < i)
      <4>1. n - 1 \in DOMAIN w /\ at[n - 1] = n
        BY <1>3, <1>10, <1>11, <3>2
      <4> QED BY <4>1
    <3> QED BY <3>1, <3>2
  <2> QED BY <2>1
<1>15. Unique(w)
  BY <1>12, <1>13 DEF Unique
<1>16. In(w) = {e \in In(s) : e.key # s[i].key}
  <2>1. \A n \in DOMAIN s : n # i <=> s[n].key # s[i].key
    BY DEF Unique
  <2> QED BY <1>12, <1>14, <2>1 DEF In
<1> QED BY <1>8, <1>9, <1>15, <1>16

\* delete()
LEMMA DeleteFacts ==
  ASSUME NEW E, NEW s \in Seq(E), Unique(s), NEW k
  PROVE  /\ StoreDelete(s, k) \in Seq(E) /\ Unique(StoreDelete(s, k))
         /\ In(StoreDelete(s, k)) = {e \in In(s) : e.key # k}
<1>1. CASE k \notin StoreKeys(s)
  <2>1. StoreDelete(s, k) = s
    BY <1>1 DEF StoreDelete
  <2> QED BY <1>1, <2>1 DEF StoreKeys, In
<1>2. CASE k \in StoreKeys(s)
  <2>1. PICK i : i = CHOOSE j \in DOMAIN s : s[j].key = k
    OBVIOUS
  <2>2. i \in DOMAIN s /\ s[i].key = k
    BY <1>2, <2>1 DEF StoreKeys
  <2>3. StoreDelete(s, k) = RemoveAt(s, i)
    BY <1>2, <2>1 DEF StoreDelete
  <2> QED BY <2>2, <2>3, RemoveFacts
<1> QED BY <1>1, <1>2

\* An entry at the end of the order.
LEMMA AppendFacts ==
  ASSUME NEW E, NEW s \in Seq(E), Unique(s), NEW e \in E, \A x \in In(s) : x.key # e.key
  PROVE  /\ Append(s, e) \in Seq(E) /\ Unique(Append(s, e)) /\ In(Append(s, e)) = In(s) \cup {e}
         /\ Len(Append(s, e)) = Len(s) + 1 /\ Append(s, e)[Len(s) + 1] = e
<1>1. PICK t : t = Append(s, e)
  OBVIOUS
<1>2. /\ t \in Seq(E) /\ Len(t) = Len(s) + 1 /\ Len(s) \in Nat /\ DOMAIN s = 1..Len(s)
      /\ \A i \in 1..Len(s) : t[i] = s[i]
      /\ t[Len(s) + 1] = e
  BY <1>1, AppendProperties, LenProperties
<1>3. DOMAIN t = 1..(Len(s) + 1)
  BY <1>2, LenProperties
<1>4. \A i \in DOMAIN t : (i \in DOMAIN s /\ t[i] = s[i]) \/ (i = Len(s) + 1 /\ t[i] = e)
  BY <1>2, <1>3
<1>5. DOMAIN s \subseteq DOMAIN t /\ Len(s) + 1 \in DOMAIN t
  BY <1>2, <1>3
<1>6. In(t) = In(s) \cup {e}
  BY <1>2, <1>4, <1>5 DEF In
<1>7. Unique(t)
  BY <1>4 DEF Unique, In
<1> QED BY <1>1, <1>2, <1>6, <1>7

\* What the cap leaves are the entries used last.
LEMMA EvictFacts ==
  ASSUME StoreAssumption, NEW E, NEW s \in Seq(E), Unique(s), s # <<>>
  PROVE  /\ EvictIfNeeded(s) \in Seq(E) /\ Unique(EvictIfNeeded(s))
         /\ In(EvictIfNeeded(s)) \subseteq In(s) /\ s[Len(s)] \in In(EvictIfNeeded(s))
<1>1. Len(s) \in Nat \ {0} /\ DOMAIN s = 1..Len(s) /\ \A i \in 1..Len(s) : s[i] \in E
  BY StoreFacts, EmptySeq
<1>2. CASE MaxEntries = 0 \/ Len(s) <= MaxEntries
  BY <1>1, <1>2 DEF EvictIfNeeded, In
<1>3. CASE ~(MaxEntries = 0 \/ Len(s) <= MaxEntries)
  <2>0. MaxEntries \in Nat \ {0} /\ Len(s) > MaxEntries
    BY <1>1, <1>3 DEF StoreAssumption
  <2>1. PICK d \in Nat : d = Len(s) - MaxEntries
    <3>1. Len(s) - MaxEntries \in Nat
      BY <1>1, <2>0
    <3> QED BY <3>1
  <2>2. PICK t : t = SubSeq(s, d + 1, Len(s))
    OBVIOUS
  <2>3. EvictIfNeeded(s) = t
    BY <1>3, <2>1, <2>2 DEF EvictIfNeeded
  <2>4. /\ t \in Seq(E) /\ Len(t) = MaxEntries /\ \A i \in 1..MaxEntries : t[i] = s[d + i]
    <3>1. d + 1 \in Int /\ Len(s) \in Int /\ \A i \in (d + 1)..Len(s) : s[i] \in E
      BY <1>1, <2>1
    <3>2. /\ SubSeq(s, d + 1, Len(s)) \in Seq(E)
          /\ Len(SubSeq(s, d + 1, Len(s))) = IF d + 1 <= Len(s) THEN Len(s) - (d + 1) + 1 ELSE 0
          /\ \A i \in 1..(Len(s) - (d + 1) + 1) : SubSeq(s, d + 1, Len(s))[i] = s[d + 1 + i - 1]
      BY <3>1, SubSeqProperties
    <3> QED BY <1>1, <1>3, <2>1, <2>2, <3>2 DEF StoreAssumption
  <2>5. DOMAIN t = 1..MaxEntries
    BY <2>4, LenProperties
  <2>6. \A i \in DOMAIN t : i \in Nat /\ d + i \in DOMAIN s /\ t[i] = s[d + i]
    BY <1>1, <1>3, <2>1, <2>4, <2>5 DEF StoreAssumption
  <2>7. MaxEntries \in DOMAIN t /\ t[MaxEntries] = s[Len(s)]
    BY <1>1, <1>3, <2>1, <2>4, <2>5 DEF StoreAssumption
  <2>8. In(t) \subseteq In(s) /\ s[Len(s)] \in In(t)
    BY <2>6, <2>7 DEF In
  <2>9. Unique(t)
    <3>1. ASSUME NEW i \in DOMAIN t, NEW j \in DOMAIN t, t[i].key = t[j].key PROVE i = j
      <4>1. d + i = d + j
        BY <2>6, <3>1 DEF Unique
      <4> QED BY <2>1, <2>6, <4>1
    <3> QED BY <3>1 DEF Unique
  <2> QED BY <2>3, <2>4, <2>8, <2>9
<1> QED BY <1>2, <1>3

\* set(): the entry is the one used last, and no other of its key is left.
LEMMA InsertFacts ==
  ASSUME StoreAssumption, NEW E, NEW s \in Seq(E), Unique(s), NEW k, NEW value, NEW expiresAt,
         [key |-> k, value |-> value, expiresAt |-> expiresAt] \in E
  PROVE  LET new == [key |-> k, value |-> value, expiresAt |-> expiresAt]
             t == Insert(s, k, value, expiresAt)
         IN  /\ t \in Seq(E) /\ Unique(t) /\ new \in In(t)
             /\ In(t) \subseteq {e \in In(s) : e.key # k} \cup {new}
<1>1. PICK new : new = [key |-> k, value |-> value, expiresAt |-> expiresAt]
  OBVIOUS
<1>2. new \in E /\ new.key = k
  BY <1>1
<1>3. PICK rest : rest = StoreDelete(s, k)
  OBVIOUS
<1>4. rest \in Seq(E) /\ Unique(rest) /\ In(rest) = {e \in In(s) : e.key # k}
  BY <1>3, DeleteFacts
<1>5. PICK full : full = Append(rest, new)
  OBVIOUS
<1>6. /\ full \in Seq(E) /\ Unique(full) /\ In(full) = In(rest) \cup {new}
      /\ Len(full) = Len(rest) + 1 /\ full[Len(rest) + 1] = new
  BY <1>2, <1>4, <1>5, AppendFacts
<1>7. full # <<>>
  BY <1>2, <1>4, <1>5, AppendProperties
<1>8. PICK t : t = EvictIfNeeded(full)
  OBVIOUS
<1>9. t \in Seq(E) /\ Unique(t) /\ In(t) \subseteq In(full) /\ new \in In(t)
  BY <1>6, <1>7, <1>8, EvictFacts
<1>10. Insert(s, k, value, expiresAt) = t
  BY <1>1, <1>3, <1>5, <1>8 DEF Insert
<1> QED BY <1>1, <1>4, <1>6, <1>9, <1>10

\* get(): the entry moves to the end, or is gone if it has expired.
LEMMA GetFacts ==
  ASSUME NEW E, NEW s \in Seq(E), Unique(s), NEW k, NEW t
  PROVE  /\ StoreGet(s, k, t) \in Seq(E) /\ Unique(StoreGet(s, k, t))
         /\ In(StoreGet(s, k, t)) \subseteq In(s)
         /\ \A e \in In(s) : ~Expired(e, t) => e \in In(StoreGet(s, k, t))
<1>1. PICK rest : rest = StoreDelete(s, k)
  OBVIOUS
<1>2. rest \in Seq(E) /\ Unique(rest) /\ In(rest) = {e \in In(s) : e.key # k}
  BY <1>1, DeleteFacts
<1>3. CASE Live(s, k, t)
  <2>1. PICK e : e = EntryOf(s, k)
    OBVIOUS
  <2>2. e \in In(s) /\ e.key = k
    BY <1>3, <2>1, KeysHaveEntries DEF Live
  <2>3. e \in E
    BY <2>2, StoreFacts
  <2>4. PICK got : got = Append(rest, e)
    OBVIOUS
  <2>5. got \in Seq(E) /\ Unique(got) /\ In(got) = In(rest) \cup {e}
    BY <1>2, <2>2, <2>3, <2>4, AppendFacts
  <2>6. StoreGet(s, k, t) = got
    BY <1>1, <1>3, <2>1, <2>4 DEF StoreGet
  <2>7. \A x \in In(s) : x.key = k => x = e
    BY <2>1, FoundByKey
  <2> QED BY <1>2, <2>2, <2>5, <2>6, <2>7
<1>4. CASE ~Live(s, k, t)
  <2>1. StoreGet(s, k, t) = rest
    BY <1>1, <1>4 DEF StoreGet
  <2>2. \A x \in In(s) : x.key = k => Expired(x, t)
    BY <1>4, LiveIsAlive DEF Alive
  <2> QED BY <1>2, <2>1, <2>2
<1> QED BY <1>3, <1>4

\* The entries at some of the places, in their order.
LEMMA PlacesFacts ==
  ASSUME NEW E, NEW s \in Seq(E), Unique(s), NEW P, P \subseteq DOMAIN s,
         NEW f \in SetToSeqs(P), NEW rest, rest = [n \in DOMAIN f |-> s[f[n]]]
  PROVE  /\ rest \in Seq(E) /\ Unique(rest)
         /\ In(rest) = {s[i] : i \in P}
<1>1. Len(s) \in Nat /\ DOMAIN s = 1..Len(s) /\ \A i \in 1..Len(s) : s[i] \in E
  BY StoreFacts
<1>4. IsFiniteSet(P) /\ Cardinality(P) \in Nat
  <2>1. IsFiniteSet(1..Len(s))
    BY <1>1, FS_Interval
  <2> QED BY <1>1, <2>1, FS_Subset, FS_CardinalityType
<1>5. /\ f \in [1..Cardinality(P) -> P]
      /\ \A i, j \in 1..Cardinality(P) : i # j => f[i] # f[j]
  BY DEF SetToSeqs
<1>6. f \in Surjection(1..Cardinality(P), P)
  <2>1. IsFiniteSet(1..Cardinality(P)) /\ Cardinality(1..Cardinality(P)) = Cardinality(P)
    BY <1>4, FS_Interval
  <2>2. f \in Injection(1..Cardinality(P), P)
    BY <1>5 DEF Injection, IsInjective
  <2> QED BY <1>4, <2>1, <2>2, FS_Injection
<1>7. \A i \in P : \E n \in DOMAIN f : f[n] = i
  BY <1>5, <1>6 DEF Surjection
<1>8. /\ DOMAIN rest = 1..Cardinality(P) /\ DOMAIN f = DOMAIN rest
      /\ \A n \in DOMAIN rest : f[n] \in P /\ f[n] \in DOMAIN s /\ rest[n] = s[f[n]]
  BY <1>5
<1>9. rest \in Seq(E)
  <2>1. rest \in [1..Cardinality(P) -> E]
    BY <1>1, <1>5, <1>8
  <2> QED BY <1>4, <2>1
<1>10. Unique(rest)
  BY <1>5, <1>8 DEF Unique
<1>11. In(rest) = {s[i] : i \in P}
  BY <1>7, <1>8 DEF In
<1> QED BY <1>9, <1>10, <1>11

\* The interval: what has not expired is left.
LEMMA CleanupFacts ==
  ASSUME NEW E, NEW s \in Seq(E), Unique(s), NEW t, NEW rest \in StoreCleanup(s, t)
  PROVE  /\ rest \in Seq(E) /\ Unique(rest)
         /\ In(rest) = {e \in In(s) : ~Expired(e, t)}
<1>1. PICK P : P = {i \in DOMAIN s : ~Expired(s[i], t)}
  OBVIOUS
<1>2. PICK f \in SetToSeqs(P) : rest = [n \in DOMAIN f |-> s[f[n]]]
  BY <1>1 DEF StoreCleanup
<1>3. P \subseteq DOMAIN s
  BY <1>1
<1>4. rest \in Seq(E) /\ Unique(rest) /\ In(rest) = {s[i] : i \in P}
  BY <1>2, <1>3, PlacesFacts
<1> QED BY <1>1, <1>4 DEF In

-----------------------------------------------------------------------------
(* Sessions: what a step has to keep, put together once. *)

Entry == [key : Nat, value : Handlers \cup Nat, expiresAt : Nat]
EntrySound(e, ids) == \/ e.key \in 1..ids /\ e.value \in Handlers
                      \/ e.key > MaxIds /\ e.value \in Nat
HandlerRecord(ids) == [at : Opened \cup {"idle", "done"}, sid : 0..ids, was : 0..ids, from : Handlers, calls : Nat]

\* RotatedAway, of entries.
Away(S, t, h, gone) ==
  \A e \in S : ~Expired(e, t) => /\ e.key \notin gone
                                 /\ \A r \in Handlers : h[r].at # "dropping" /\ h[r].was = e.key => e.value # r

\* Whether an id is away, told from the set of entries.
LEMMA AwayFacts ==
  ASSUME NEW s, Unique(s), NEW t, NEW h, NEW gone
  PROVE  Away(In(s), t, h, gone) <=>
           /\ \A id \in gone : ~Live(s, id, t)
           /\ \A r \in Handlers : h[r].at # "dropping" /\ Live(s, h[r].was, t) => EntryOf(s, h[r].was).value # r
<1>1. \A k : Live(s, k, t) <=> \E e \in In(s) : e.key = k /\ ~Expired(e, t)
  BY LiveIsAlive DEF Alive
<1>2. \A e \in In(s) : EntryOf(s, e.key) = e
  BY FoundByKey
<1> QED BY <1>1, <1>2 DEF Away

\* Each entry is a session or one of the other users of the store.
LEMMA SoundFacts ==
  ASSUME StoreSound
  PROVE  store \in Seq(Entry) /\ Unique(store) /\ \A e \in In(store) : e \in Entry /\ EntrySound(e, minted)
<1>1. store \in Seq(Entry) /\ Unique(store)
  BY DEF StoreSound, Entry, Unique
<1>2. \A e \in In(store) : e \in Entry
  BY <1>1, StoreFacts
<1>3. \A e \in In(store) : EntrySound(e, minted)
  BY DEF StoreSound, EntrySound, In
<1> QED BY <1>1, <1>2, <1>3

\* A dead id stays dead in this step.
DeadStays == \A id \in 0..minted : Dead(id) => Dead(id)'

\* The ids outside k whose sessions go in this step are noted in `lapsed`.
Kept(k) == /\ lapsed \subseteq lapsed'
           /\ \A id \in Ids \ {k} : Live(store, id, clock) => Live(store', id, clock') \/ id \in lapsed'

\* A step keeps the invariant when what it adds is sound, under an id somebody holds and
\* that nobody has rotated away.
LEMMA StepKeeps ==
  ASSUME SessionInv, HandlersSound', FreshId', clock <= clock', minted <= minted',
         store' \in Seq(Entry), Unique(store'),
         NEW new, In(store') \subseteq In(store) \cup new,
         \A e \in new : /\ e \in Entry /\ EntrySound(e, minted')
                        /\ e.key > MaxIds \/ e.key = minted + 1 \/ \E q \in Handlers : Holds(q, e.key)
                        /\ e.key \notin rotated'
                        /\ \A r \in Handlers : handler'[r].at # "dropping" /\ handler'[r].was = e.key => e.value # r,
         \A id \in rotated' \ rotated : \A e \in In(store') : e.key # id,
         \A r \in Handlers : handler'[r].at # "dropping" =>
           \/ handler[r].at # "dropping" /\ handler'[r].was = handler[r].was
           \/ \A e \in In(store') : e.key # handler'[r].was,
         NEW k, Kept(k),
         \A r \in Handlers : handler'[r].at = "dropping" /\ data'[r] =>
           \/ handler[r].at = "dropping" /\ data[r] /\ handler'[r].sid = handler[r].sid /\ handler[r].sid # k
           \/ Live(store', handler'[r].sid, clock'),
         \A r \in Handlers : handler'[r].at \in Opened =>
           \/ handler[r].at \in Opened /\ handler'[r].sid = handler[r].sid
           \/ handler'[r].sid = minted + 1 \/ Live(store, handler'[r].sid, clock)
  PROVE  SessionInv' /\ DeadStays
<1>1. /\ store \in Seq(Entry) /\ Unique(store) /\ \A e \in In(store) : e \in Entry /\ EntrySound(e, minted)
      /\ minted \in 0..MaxIds /\ minted' \in 0..MaxIds /\ clock \in Nat /\ clock' \in Nat /\ MaxIds \in Nat
      /\ rotated \subseteq 1..minted
  BY SoundFacts, SessionAssumption DEF SessionInv, HandlersSound, SessionAssumption
<1>2. \A e \in In(store') : e \in Entry /\ EntrySound(e, minted')
  BY <1>1 DEF EntrySound
<1>3. StoreSound'
  <2>1. \A i \in DOMAIN store' : store'[i] \in In(store')
    BY DEF In
  <2> QED BY <1>2, <2>1 DEF StoreSound, Entry, Unique, EntrySound
<1>4. \A e \in In(store) : Expired(e, clock) => Expired(e, clock')
  BY <1>1 DEF Expired, Entry
<1>5. RotatedAway'
  <2>1. Away(In(store), clock, handler, rotated)
    BY <1>1, AwayFacts DEF SessionInv, Rotation, RotatedAway
  <2>2. ASSUME NEW e \in In(store'), ~Expired(e, clock')
        PROVE  /\ e.key \notin rotated'
               /\ \A r \in Handlers : handler'[r].at # "dropping" /\ handler'[r].was = e.key => e.value # r
    <3>1. CASE e \in new
      BY <3>1
    <3>2. CASE e \in In(store)
      <4>1. e \in In(store) /\ ~Expired(e, clock)
        BY <1>4, <2>2, <3>2
      <4>2. /\ e.key \notin rotated
            /\ \A r \in Handlers : handler[r].at # "dropping" /\ handler[r].was = e.key => e.value # r
        BY <2>1, <4>1 DEF Away
      <4> QED BY <2>2, <4>2
    <3> QED BY <3>1, <3>2
  <2>3. Away(In(store'), clock', handler', rotated')
    BY <2>2 DEF Away
  <2>4. /\ \A id \in rotated' : ~Live(store', id, clock')
        /\ \A r \in Handlers : handler'[r].at # "dropping" /\ Live(store', handler'[r].was, clock')
                               => EntryOf(store', handler'[r].was).value # r
    BY <2>3, AwayFacts
  <2> QED BY <2>4 DEF RotatedAway
<1>6. NeverMissing'
  <2>1. ASSUME NEW r \in Handlers, handler'[r].at = "dropping", data'[r]
        PROVE  Live(store', handler'[r].sid, clock') \/ handler'[r].sid \in lapsed'
    <3>1. CASE handler[r].at = "dropping" /\ data[r] /\ handler'[r].sid = handler[r].sid /\ handler[r].sid # k
      <4>1. handler[r].sid \in Ids \ {k}
        BY <1>1, <3>1 DEF SessionInv, HandlersSound, Ids, Opened
      <4>2. Live(store, handler[r].sid, clock) \/ handler[r].sid \in lapsed
        BY <3>1 DEF SessionInv, Rotation, NeverMissing
      <4> QED BY <3>1, <4>1, <4>2 DEF Kept
    <3> QED BY <2>1, <3>1
  <2> QED BY <2>1 DEF NeverMissing
<1>7. DeadStays
  <2>1. ASSUME NEW id \in 0..minted, Dead(id) PROVE Dead(id)'
    <3>1. ~Live(store', id, clock')
      <4>1. ASSUME NEW e \in In(store'), e.key = id, ~Expired(e, clock') PROVE FALSE
        <5>1. CASE e \in new
          <6>1. e.key # minted + 1 /\ ~(e.key > MaxIds)
            BY <1>1, <4>1
          <6> QED BY <2>1, <4>1, <5>1, <6>1 DEF Dead
        <5>2. CASE e \in In(store)
          <6>1. Alive(In(store), id, clock)
            BY <1>4, <4>1, <5>2 DEF Alive
          <6> QED BY <1>1, <2>1, <6>1, LiveIsAlive DEF Dead
        <5> QED BY <5>1, <5>2
      <4>2. ~Alive(In(store'), id, clock')
        BY <4>1 DEF Alive
      <4> QED BY <4>2, LiveIsAlive
    <3>2. ASSUME NEW r \in Handlers, handler'[r].at \in Opened, handler'[r].sid = id PROVE FALSE
      <4>1. id # minted + 1
        BY <1>1
      <4> QED BY <2>1, <3>2, <4>1 DEF Dead, Holds
    <3> QED BY <3>1, <3>2 DEF Dead, Holds
  <2> QED BY <2>1 DEF DeadStays
<1> QED BY <1>3, <1>5, <1>6, <1>7 DEF SessionInv, Rotation

\* A step of one handler.
LEMMA HandlersStay ==
  ASSUME HandlersSound, NEW r \in Handlers, NEW h \in HandlerRecord(minted'),
         handler' = [handler EXCEPT ![r] = h],
         minted <= minted', minted' \in 0..MaxIds,
         issued' \subseteq 1..minted', rotated' \subseteq 1..minted', clock' \in Nat, data' \in [Handlers -> BOOLEAN],
         h.at \in Opened => h.sid > h.was,
         h.at = "idle" => h.was = Unknown,
         h.at = "dropping" => h.was # Unknown
  PROVE  /\ HandlersSound' /\ handler'[r] = h
         /\ \A q \in Handlers : q # r => handler'[q] = handler[q]
<1>1. handler'[r] = h /\ \A q \in Handlers : q # r => handler'[q] = handler[q]
  BY DEF HandlersSound
<1>2. minted \in Nat /\ minted' \in Nat
  BY DEF HandlersSound
<1>3. \A q \in Handlers : handler[q] \in HandlerRecord(minted')
  <2>1. ASSUME NEW q \in Handlers PROVE handler[q] \in HandlerRecord(minted')
    <3>1. handler[q] \in [at : Opened \cup {"idle", "done"}, sid : 0..minted, was : 0..minted, from : Handlers, calls : Nat]
      BY DEF HandlersSound
    <3>2. 0..minted \subseteq 0..minted'
      BY <1>2
    <3> QED BY <3>1, <3>2 DEF HandlerRecord
  <2> QED BY <2>1
<1>4. handler' \in [Handlers -> HandlerRecord(minted')]
  <2>1. DOMAIN handler = Handlers
    BY DEF HandlersSound
  <2> QED BY <1>1, <1>3, <2>1
<1>5. \A q \in Handlers : /\ handler'[q].at \in Opened => handler'[q].sid > handler'[q].was
                          /\ handler'[q].at = "idle" => handler'[q].was = Unknown
                          /\ handler'[q].at = "dropping" => handler'[q].was # Unknown
  BY <1>1 DEF HandlersSound
<1>6. HandlersSound'
  BY <1>4, <1>5 DEF HandlersSound, HandlerRecord, Opened, Unknown
<1> QED BY <1>1, <1>6

\* A handler may take up an id it has, one that was issued, or the next one.
LEMMA FreshStays ==
  ASSUME HandlersSound, FreshId, NEW r \in Handlers, NEW h,
         handler' = [handler EXCEPT ![r] = h],
         {h.sid, h.was} \subseteq {handler[r].sid, handler[r].was, minted + 1} \cup issued,
         issued' \subseteq issued \cup {handler[r].sid},
         h.at = "dropping" => h.sid = minted + 1 /\ issued' = issued
  PROVE  FreshId'
<1>1. handler'[r] = h /\ \A q \in Handlers : q # r => handler'[q] = handler[q]
  BY DEF HandlersSound
<1>2. /\ minted \in Nat /\ issued \subseteq 1..minted
      /\ \A q \in Handlers : handler[q].sid \in 0..minted /\ handler[q].was \in 0..minted
  BY DEF HandlersSound
<1>3. ASSUME NEW q \in Handlers \ {r}, handler[q].at = "dropping"
      PROVE  /\ handler[q].sid \notin issued'
             /\ \A p \in Handlers \ {q} : handler'[p].sid # handler[q].sid /\ handler'[p].was # handler[q].sid
  <2>1. /\ handler[q].sid \notin issued
        /\ \A p \in Handlers \ {q} : handler[p].sid # handler[q].sid /\ handler[p].was # handler[q].sid
    BY <1>3 DEF FreshId
  <2>2. handler[q].sid # minted + 1
    BY <1>2
  <2>3. h.sid # handler[q].sid /\ h.was # handler[q].sid
    BY <2>1, <2>2
  <2> QED BY <1>1, <2>1, <2>3
<1>4. ASSUME h.at = "dropping"
      PROVE  /\ h.sid \notin issued'
             /\ \A p \in Handlers \ {r} : handler[p].sid # h.sid /\ handler[p].was # h.sid
  BY <1>2, <1>4
<1>5. ASSUME NEW q \in Handlers, handler'[q].at = "dropping"
      PROVE  /\ handler'[q].sid \notin issued'
             /\ \A p \in Handlers \ {q} : handler'[p].sid # handler'[q].sid /\ handler'[p].was # handler'[q].sid
  <2>1. CASE q = r
    BY <1>1, <1>4, <1>5, <2>1
  <2>2. CASE q # r
    BY <1>1, <1>3, <1>5, <2>2
  <2> QED BY <2>1, <2>2
<1> QED BY <1>5 DEF FreshId

\* The parts of the invariant.
LEMMA InvFacts ==
  ASSUME SessionInv
  PROVE  /\ store \in Seq(Entry) /\ Unique(store) /\ \A e \in In(store) : e \in Entry /\ EntrySound(e, minted)
         /\ handler \in [Handlers -> HandlerRecord(minted)] /\ data \in [Handlers -> BOOLEAN]
         /\ minted \in 0..MaxIds /\ clock \in Nat /\ issued \subseteq 1..minted /\ rotated \subseteq 1..minted
         /\ {MaxIds, SessionTtl} \subseteq Nat /\ SessionTtl # 0 /\ HandlersSound /\ FreshId
BY SoundFacts, SessionAssumption DEF SessionInv, HandlersSound, HandlerRecord, SessionAssumption

\* What leaves the store otherwise than by a delete() of k had expired.
LEMMA KeptFacts ==
  ASSUME Unique(store), Unique(store'), clock' = clock, lapsed' = lapsed, NEW k,
         \A e \in In(store) : ~Expired(e, clock) /\ e.key # k => e \in In(store')
  PROVE  Kept(k)
<1>1. ASSUME NEW id \in Ids \ {k}, Live(store, id, clock) PROVE Live(store', id, clock')
  <2>1. Alive(In(store), id, clock)
    BY <1>1, LiveIsAlive
  <2>2. Alive(In(store'), id, clock)
    BY <1>1, <2>1 DEF Alive
  <2> QED BY <2>2, LiveIsAlive
<1> QED BY <1>1 DEF Kept

\* An id other than those a step may end stays in store.
LEMMA LapseFacts ==
  /\ Lapse({}) => Kept(Unknown)
  /\ \A k : Lapse({k}) => Kept(k)
BY DEF Lapse, Kept, Ids, Unknown

\* A step of a handler that is not about to drop an id and saves nothing.
LEMMA QuietStep ==
  ASSUME SessionInv, NEW r \in Handlers, NEW h \in HandlerRecord(minted'),
         handler' = [handler EXCEPT ![r] = h],
         handler[r].at # "dropping", h.at # "dropping", h.was = handler[r].was,
         h.at \in Opened => /\ h.sid > h.was
                            /\ \/ handler[r].at \in Opened /\ h.sid = handler[r].sid
                               \/ h.sid = minted + 1 \/ Live(store, h.sid, clock),
         h.sid \in {handler[r].sid, minted + 1} \cup issued, h.at # "idle",
         minted <= minted', minted' \in 0..MaxIds, clock' = clock, lapsed' = lapsed, rotated' = rotated,
         issued' \subseteq issued \cup ({handler[r].sid} \cap (1..minted')),
         data' \in [Handlers -> BOOLEAN], \A q \in Handlers \ {r} : data'[q] = data[q],
         store' \in Seq(Entry), Unique(store'), In(store') \subseteq In(store),
         NEW k \in {Unknown, handler[r].sid},
         \A e \in In(store) : ~Expired(e, clock) /\ e.key # k => e \in In(store')
  PROVE  SessionInv' /\ DeadStays
<1>0. /\ HandlersSound /\ FreshId /\ Unique(store) /\ minted \in Nat /\ minted' \in Nat /\ clock \in Nat
      /\ issued \subseteq 1..minted /\ rotated \subseteq 1..minted
  BY InvFacts, SessionAssumption DEF SessionAssumption
<1>1. issued' \subseteq 1..minted' /\ rotated' \subseteq 1..minted'
  BY <1>0
<1>2. /\ HandlersSound' /\ handler'[r] = h
      /\ \A q \in Handlers : q # r => handler'[q] = handler[q]
  BY <1>0, <1>1, HandlersStay
<1>3. FreshId'
  <2>1. {h.sid, h.was} \subseteq {handler[r].sid, handler[r].was, minted + 1} \cup issued
    OBVIOUS
  <2> QED BY <1>0, <2>1, FreshStays
<1>4. Kept(k)
  BY <1>0, KeptFacts
<1>5. ASSUME NEW q \in Handlers, handler'[q].at = "dropping" /\ data'[q]
      PROVE  handler[q].at = "dropping" /\ data[q] /\ handler'[q].sid = handler[q].sid /\ handler[q].sid # k
  <2>1. q # r /\ handler[q].at = "dropping" /\ data[q] /\ handler'[q].sid = handler[q].sid
    BY <1>2, <1>5
  <2>2. handler[q].sid > handler[q].was /\ handler[q].was \in Nat
    BY <1>0, <2>1 DEF HandlersSound, Opened
  <2>3. handler[q].sid # handler[r].sid
    BY <1>0, <2>1 DEF FreshId
  <2> QED BY <2>1, <2>2, <2>3 DEF Unknown
<1>6. \A q \in Handlers : handler'[q].at # "dropping" =>
        handler[q].at # "dropping" /\ handler'[q].was = handler[q].was
  BY <1>2
<1>7. \A q \in Handlers : handler'[q].at \in Opened =>
           \/ handler[q].at \in Opened /\ handler'[q].sid = handler[q].sid
           \/ handler'[q].sid = minted + 1 \/ Live(store, handler'[q].sid, clock)
  BY <1>2
<1>8. In(store') \subseteq In(store) \cup {} /\ clock <= clock' /\ \A id \in rotated' \ rotated : FALSE
  BY <1>0
<1>9. PICK none : none = {}
  OBVIOUS
<1> QED BY <1>2, <1>3, <1>4, <1>5, <1>6, <1>7, <1>8, <1>9, StepKeeps
\* A handler's record, field by field.
LEMMA RecordFacts ==
  ASSUME NEW n, NEW x \in HandlerRecord(n)
  PROVE  /\ x = [at |-> x.at, sid |-> x.sid, was |-> x.was, from |-> x.from, calls |-> x.calls]
         /\ x.at \in Opened \cup {"idle", "done"} /\ x.sid \in 0..n /\ x.was \in 0..n
         /\ x.from \in Handlers /\ x.calls \in Nat
BY DEF HandlerRecord

\* A request without a known session id.
LEMMA NewStep ==
  ASSUME SessionInv, NEW r \in Handlers, NEW cookie, NewSession(r, cookie)
  PROVE  SessionInv' /\ DeadStays
<1>0. /\ store \in Seq(Entry) /\ Unique(store) /\ handler \in [Handlers -> HandlerRecord(minted)]
      /\ minted \in 0..MaxIds /\ MaxIds \in Nat /\ data \in [Handlers -> BOOLEAN] /\ issued \subseteq 1..minted
  BY InvFacts
<1>1. /\ handler[r].at = "idle" /\ handler[r].was = Unknown /\ minted < MaxIds /\ minted' = minted + 1
      /\ UNCHANGED <<issued, data, lapsed, rotated, clock>> /\ store' = StoreGet(store, cookie, clock)
  BY DEF NewSession, Create, Quiet, SessionInv, HandlersSound
<1>2. PICK h : h = [handler[r] EXCEPT !.at = "open", !.sid = minted + 1]
  OBVIOUS
<1>3. h.at = "open" /\ h.sid = minted + 1 /\ h.was = handler[r].was /\ h \in HandlerRecord(minted')
  <2>1. PICK x : x = handler[r]
    OBVIOUS
  <2>2. /\ x = [at |-> x.at, sid |-> x.sid, was |-> x.was, from |-> x.from, calls |-> x.calls]
        /\ x.was \in 0..minted /\ x.from \in Handlers /\ x.calls \in Nat
    BY <1>0, <2>1, RecordFacts
  <2>3. h = [at |-> "open", sid |-> minted + 1, was |-> x.was, from |-> x.from, calls |-> x.calls]
    BY <1>2, <2>1, <2>2
  <2>4. minted + 1 \in 0..minted' /\ x.was \in 0..minted'
    BY <1>0, <1>1, <2>2
  <2> QED BY <2>1, <2>2, <2>3, <2>4 DEF HandlerRecord, Opened
<1>4. handler' = [handler EXCEPT ![r] = h]
  BY <1>0, <1>2 DEF NewSession, Create
<1>5. /\ store' \in Seq(Entry) /\ Unique(store') /\ In(store') \subseteq In(store)
      /\ \A e \in In(store) : ~Expired(e, clock) => e \in In(store')
  BY <1>0, <1>1, GetFacts
<1>6. minted \in Nat /\ minted' \in 0..MaxIds /\ minted <= minted' /\ h.sid > h.was
  BY <1>0, <1>1, <1>3 DEF Unknown
<1> QED BY <1>0, <1>1, <1>3, <1>4, <1>5, <1>6, QuietStep DEF Opened

\* A request whose session is looked up.
LEMMA FindStep ==
  ASSUME SessionInv, NEW r \in Handlers, NEW cookie \in issued \cup {Unknown}, FindSession(r, cookie)
  PROVE  SessionInv' /\ DeadStays
<1>0. /\ store \in Seq(Entry) /\ Unique(store) /\ handler \in [Handlers -> HandlerRecord(minted)]
      /\ \A e \in In(store) : e \in Entry /\ EntrySound(e, minted)
      /\ minted \in 0..MaxIds /\ MaxIds \in Nat /\ data \in [Handlers -> BOOLEAN] /\ issued \subseteq 1..minted
  BY InvFacts
<1>1. /\ handler[r].at = "idle" /\ handler[r].was = Unknown /\ Live(store, cookie, clock)
      /\ UNCHANGED <<minted, issued, data, lapsed, rotated, clock>> /\ store' = StoreGet(store, cookie, clock)
  BY DEF FindSession, Quiet, SessionInv, HandlersSound
<1>2. PICK e : e = EntryOf(store, cookie)
  OBVIOUS
<1>3. e \in In(store) /\ e.key = cookie
  BY <1>1, <1>2, KeysHaveEntries DEF Live
<1>4. cookie \in issued /\ cookie \in 1..minted /\ e.value \in Handlers
  BY <1>0, <1>3 DEF EntrySound, Unknown
<1>5. PICK h : h = [handler[r] EXCEPT !.at = "loading", !.sid = cookie, !.from = e.value]
  OBVIOUS
<1>6. h.at = "loading" /\ h.sid = cookie /\ h.was = handler[r].was /\ h \in HandlerRecord(minted')
  <2>1. PICK x : x = handler[r]
    OBVIOUS
  <2>2. /\ x = [at |-> x.at, sid |-> x.sid, was |-> x.was, from |-> x.from, calls |-> x.calls]
        /\ x.was \in 0..minted /\ x.calls \in Nat
    BY <1>0, <2>1, RecordFacts
  <2>3. h = [at |-> "loading", sid |-> cookie, was |-> x.was, from |-> e.value, calls |-> x.calls]
    BY <1>5, <2>1, <2>2
  <2>4. cookie \in 0..minted' /\ x.was \in 0..minted'
    BY <1>0, <1>1, <1>4, <2>2
  <2> QED BY <1>4, <2>1, <2>2, <2>3, <2>4 DEF HandlerRecord, Opened
<1>7. handler' = [handler EXCEPT ![r] = h]
  BY <1>0, <1>2, <1>5 DEF FindSession
<1>8. /\ store' \in Seq(Entry) /\ Unique(store') /\ In(store') \subseteq In(store)
      /\ \A x \in In(store) : ~Expired(x, clock) => x \in In(store')
  BY <1>0, <1>1, GetFacts
<1>9. minted \in Nat /\ minted' \in 0..MaxIds /\ minted <= minted' /\ h.sid > h.was
  BY <1>0, <1>1, <1>4, <1>6 DEF Unknown
<1> QED BY <1>0, <1>1, <1>4, <1>6, <1>7, <1>8, <1>9, QuietStep DEF Opened

\* The steps that leave the store as it is.
LEMMA ObjectStep ==
  ASSUME SessionInv, NEW r \in Handlers, Loaded(r) \/ SetOrDelete(r) \/ Cleared(r) \/ Respond(r)
  PROVE  SessionInv' /\ DeadStays
<1>0. /\ store \in Seq(Entry) /\ Unique(store) /\ handler \in [Handlers -> HandlerRecord(minted)]
      /\ minted \in 0..MaxIds /\ data \in [Handlers -> BOOLEAN] /\ issued \subseteq 1..minted
      /\ minted \in Nat
  BY InvFacts, SessionAssumption DEF SessionAssumption
<1>1. /\ UNCHANGED <<store, minted, lapsed, rotated, clock>> /\ handler[r].at \in {"loading", "open", "clearing"}
      /\ issued' \subseteq issued \cup {handler[r].sid}
  BY DEF Loaded, SetOrDelete, Cleared, Respond, Calls, Called, Quiet
<1>2. handler[r].sid > handler[r].was /\ handler[r].sid \in 1..minted
  <2>1. handler[r].sid > handler[r].was
    BY <1>1 DEF SessionInv, HandlersSound, Opened
  <2> QED BY <1>0, <2>1 DEF HandlerRecord
<1>3. data' \in [Handlers -> BOOLEAN] /\ \A q \in Handlers \ {r} : data'[q] = data[q]
  <2>1. CASE Loaded(r)
    <3>1. data[handler[r].from] \in BOOLEAN
      BY <1>0 DEF HandlerRecord
    <3> QED BY <1>0, <2>1, <3>1 DEF Loaded
  <2>2. CASE SetOrDelete(r)
    BY <1>0, <2>2 DEF SetOrDelete
  <2>3. CASE Cleared(r)
    BY <1>0, <2>3 DEF Cleared
  <2>4. CASE Respond(r)
    BY <1>0, <2>4 DEF Respond
  <2> QED BY <2>1, <2>2, <2>3, <2>4
<1>4. PICK h : /\ handler' = [handler EXCEPT ![r] = h] /\ h \in HandlerRecord(minted) /\ h.at \in {"open", "done"}
               /\ h.sid = handler[r].sid /\ h.was = handler[r].was
  <2>1. CASE Loaded(r) \/ Cleared(r)
    <3>1. PICK h : h = [handler[r] EXCEPT !.at = "open"]
      OBVIOUS
    <3>2. handler' = [handler EXCEPT ![r] = h]
      BY <1>0, <2>1, <3>1 DEF Loaded, Cleared
    <3>3. /\ h \in HandlerRecord(minted) /\ h.at = "open"
          /\ h.sid = handler[r].sid /\ h.was = handler[r].was
      BY <1>0, <3>1 DEF HandlerRecord, Opened
    <3> QED BY <3>2, <3>3
  <2>2. CASE SetOrDelete(r)
    <3>1. PICK h : h = [handler[r] EXCEPT !.calls = @ + 1]
      OBVIOUS
    <3>4. handler[r].at = "open" /\ handler' = [handler EXCEPT ![r].calls = @ + 1]
      BY <2>2 DEF SetOrDelete, Calls, Called
    <3>2. handler' = [handler EXCEPT ![r] = h] /\ handler[r].at = "open"
      BY <1>0, <3>1, <3>4
    <3>3. /\ h \in HandlerRecord(minted) /\ h.at = "open"
          /\ h.sid = handler[r].sid /\ h.was = handler[r].was
      <4>1. PICK x : x = handler[r]
        OBVIOUS
      <4>2. /\ x = [at |-> x.at, sid |-> x.sid, was |-> x.was, from |-> x.from, calls |-> x.calls]
            /\ x.sid \in 0..minted /\ x.was \in 0..minted /\ x.from \in Handlers /\ x.calls \in Nat
        BY <1>0, <4>1, RecordFacts
      <4>3. h = [at |-> x.at, sid |-> x.sid, was |-> x.was, from |-> x.from, calls |-> x.calls + 1]
        BY <3>1, <4>1, <4>2
      <4> QED BY <3>2, <4>1, <4>2, <4>3 DEF HandlerRecord, Opened
    <3> QED BY <3>2, <3>3
  <2>3. CASE Respond(r)
    <3>1. PICK h : h = [handler[r] EXCEPT !.at = "done"]
      OBVIOUS
    <3>2. /\ handler' = [handler EXCEPT ![r] = h] /\ h \in HandlerRecord(minted) /\ h.at = "done"
          /\ h.sid = handler[r].sid /\ h.was = handler[r].was
      BY <1>0, <2>3, <3>1 DEF Respond, HandlerRecord, Opened
    <3> QED BY <3>2
  <2> QED BY <2>1, <2>2, <2>3
<1>5. minted' = minted /\ minted <= minted' /\ minted' \in 0..MaxIds /\ h \in HandlerRecord(minted')
  BY <1>0, <1>1, <1>4
<1>6. handler[r].at \in Opened /\ handler[r].at # "dropping" /\ h.at # "dropping" /\ h.at # "idle"
  BY <1>1, <1>4 DEF Opened
<1>7. issued' \subseteq issued \cup ({handler[r].sid} \cap (1..minted'))
  BY <1>1, <1>2
<1>8. store' \in Seq(Entry) /\ Unique(store') /\ In(store') = In(store)
  BY <1>0, <1>1
<1> QED BY <1>1, <1>2, <1>3, <1>4, <1>5, <1>6, <1>7, <1>8, QuietStep

\* destroy()
LEMMA DestroyStep ==
  ASSUME SessionInv, NEW r \in Handlers, Destroy(r)
  PROVE  SessionInv' /\ DeadStays
<1>0. /\ store \in Seq(Entry) /\ Unique(store) /\ handler \in [Handlers -> HandlerRecord(minted)]
      /\ minted \in 0..MaxIds /\ data \in [Handlers -> BOOLEAN] /\ issued \subseteq 1..minted
      /\ minted \in Nat
  BY InvFacts, SessionAssumption DEF SessionAssumption
<1>1. /\ UNCHANGED <<minted, issued, data, lapsed, rotated, clock>> /\ handler[r].at = "open"
      /\ store' = StoreDelete(store, handler[r].sid)
  BY DEF Destroy, Calls, Quiet
<1>2. handler[r].sid > handler[r].was
  BY <1>1 DEF SessionInv, HandlersSound, Opened
<1>3. PICK h : h = [handler[r] EXCEPT !.at = "clearing", !.calls = @ + 1]
  OBVIOUS
<1>4. /\ handler' = [handler EXCEPT ![r] = h] /\ h \in HandlerRecord(minted) /\ h.at = "clearing"
      /\ h.sid = handler[r].sid /\ h.was = handler[r].was
  BY <1>0, <1>3 DEF Destroy, HandlerRecord, Opened
<1>5. PICK k : k = handler[r].sid
  OBVIOUS
<1>6. /\ store' \in Seq(Entry) /\ Unique(store') /\ In(store') = {e \in In(store) : e.key # k}
  BY <1>0, <1>1, <1>5, DeleteFacts
<1>7. minted' = minted /\ minted <= minted' /\ minted' \in 0..MaxIds /\ h \in HandlerRecord(minted')
  BY <1>0, <1>1, <1>4
<1>8. handler[r].at \in Opened /\ handler[r].at # "dropping" /\ h.at # "dropping" /\ h.at # "idle"
  BY <1>1, <1>4 DEF Opened
<1> QED BY <1>0, <1>1, <1>2, <1>4, <1>5, <1>6, <1>7, <1>8, QuietStep

\* save() puts the entry of an id its handler holds.
LEMMA SaveStep ==
  ASSUME SessionInv, NEW r \in Handlers, Save(r)
  PROVE  SessionInv' /\ DeadStays
<1>0. /\ store \in Seq(Entry) /\ Unique(store) /\ handler \in [Handlers -> HandlerRecord(minted)]
      /\ minted \in 0..MaxIds /\ data \in [Handlers -> BOOLEAN] /\ issued \subseteq 1..minted
      /\ rotated \subseteq 1..minted /\ clock \in Nat /\ HandlersSound /\ FreshId
      /\ minted \in Nat /\ SessionTtl \in Nat /\ SessionTtl # 0
  BY InvFacts, SessionAssumption DEF SessionAssumption
<1>1. /\ UNCHANGED <<minted, issued, data, clock>> /\ handler[r].at = "open" /\ Lapse({handler[r].sid})
      /\ rotated' = rotated \ {handler[r].sid} /\ store' = Saved(r, handler[r].sid)
      /\ handler' = [handler EXCEPT ![r].calls = @ + 1]
  BY DEF Save, Calls, Called, Quiet
<1>2. PICK x : x = handler[r]
  OBVIOUS
<1>3. /\ x = [at |-> x.at, sid |-> x.sid, was |-> x.was, from |-> x.from, calls |-> x.calls]
      /\ x.sid \in 0..minted /\ x.was \in 0..minted /\ x.from \in Handlers /\ x.calls \in Nat
      /\ x.at = "open" /\ x.sid > x.was
  BY <1>0, <1>1, <1>2, RecordFacts DEF HandlersSound, Opened
<1>21. PICK c \in Nat : c = x.calls + 1
  BY <1>3
<1>4. PICK h : h = [at |-> "open", sid |-> x.sid, was |-> x.was, from |-> x.from, calls |-> c]
  OBVIOUS
<1>5. h \in HandlerRecord(minted') /\ h.at = "open" /\ h.sid = x.sid /\ h.was = x.was
  BY <1>1, <1>3, <1>4 DEF HandlerRecord, Opened
<1>6. handler' = [handler EXCEPT ![r] = h]
  <2>1. handler' = [handler EXCEPT ![r].calls = c]
    BY <1>1, <1>2, <1>21
  <2>2. [x EXCEPT !.calls = c] = [at |-> x.at, sid |-> x.sid, was |-> x.was, from |-> x.from, calls |-> c]
    BY <1>3
  <2>3. [x EXCEPT !.calls = c] = h
    BY <1>3, <1>4, <2>2
  <2> QED BY <1>0, <1>2, <2>1, <2>3
<1>7. /\ HandlersSound' /\ handler'[r] = h
      /\ \A q \in Handlers : q # r => handler'[q] = handler[q]
  <2>1. /\ issued' \subseteq 1..minted' /\ rotated' \subseteq 1..minted' /\ clock' \in Nat /\ data' \in [Handlers -> BOOLEAN]
        /\ minted <= minted' /\ minted' \in 0..MaxIds
    BY <1>0, <1>1
  <2>2. h.sid > h.was /\ h.at # "idle" /\ h.at # "dropping"
    BY <1>3, <1>5
  <2> QED BY <1>0, <1>5, <1>6, <2>1, <2>2, HandlersStay
<1>8. FreshId'
  <2>1. {h.sid, h.was} \subseteq {handler[r].sid, handler[r].was, minted + 1} \cup issued
    BY <1>2, <1>5
  <2>2. issued' \subseteq issued \cup {handler[r].sid} /\ h.at # "dropping"
    BY <1>1, <1>5
  <2> QED BY <1>0, <1>6, <2>1, <2>2, FreshStays
<1>9. PICK k : k = x.sid
  OBVIOUS
<1>10. Kept(k)
  BY <1>1, <1>2, <1>9, LapseFacts
<1>11. PICK e : e = [key |-> k, value |-> r, expiresAt |-> clock + SessionTtl]
  OBVIOUS
<1>12. k \in 1..minted /\ e \in Entry /\ EntrySound(e, minted) /\ e.key = k /\ e.value = r
  BY <1>0, <1>3, <1>9, <1>11 DEF Entry, EntrySound
<1>13. store' \in Seq(Entry) /\ Unique(store') /\ In(store') \subseteq In(store) \cup {e}
  <2>1. CASE data[r]
    <3>1. store' = Insert(store, k, r, clock + SessionTtl)
      BY <1>0, <1>1, <1>2, <1>9, <2>1 DEF Saved, StoreSet
    <3>2. [key |-> k, value |-> r, expiresAt |-> clock + SessionTtl] \in Entry
      BY <1>11, <1>12
    <3> QED BY <1>0, <1>11, <3>1, <3>2, InsertFacts, StoreAssumption
  <2>2. CASE ~data[r]
    <3>1. store' = StoreDelete(store, k)
      BY <1>1, <1>2, <1>9, <2>2 DEF Saved
    <3> QED BY <1>0, <3>1, DeleteFacts
  <2> QED BY <2>1, <2>2
<1>14. PICK new : new = {e}
  OBVIOUS
<1>15. \A n \in new : /\ n \in Entry /\ EntrySound(n, minted')
                      /\ n.key > MaxIds \/ n.key = minted + 1 \/ \E q \in Handlers : Holds(q, n.key)
                      /\ n.key \notin rotated'
                      /\ \A q \in Handlers : handler'[q].at # "dropping" /\ handler'[q].was = n.key => n.value # q
  <2>1. Holds(r, k) /\ k \notin rotated'
    BY <1>1, <1>2, <1>9 DEF Holds, Opened
  <2>2. \A q \in Handlers : handler'[q].was = k => r # q
    BY <1>3, <1>5, <1>7, <1>9
  <2> QED BY <1>1, <1>12, <1>14, <2>1, <2>2
<1>16. \A q \in Handlers : handler'[q].at # "dropping" => handler[q].at # "dropping" /\ handler'[q].was = handler[q].was
  BY <1>2, <1>3, <1>5, <1>7
<1>17. \A q \in Handlers : handler'[q].at = "dropping" /\ data'[q] =>
         handler[q].at = "dropping" /\ data[q] /\ handler'[q].sid = handler[q].sid /\ handler[q].sid # k
  BY <1>0, <1>1, <1>2, <1>5, <1>7, <1>9 DEF FreshId
<1>18. \A q \in Handlers : handler'[q].at \in Opened => handler[q].at \in Opened /\ handler'[q].sid = handler[q].sid
  BY <1>2, <1>3, <1>5, <1>7 DEF Opened
<1>19. clock <= clock' /\ minted <= minted' /\ In(store') \subseteq In(store) \cup new /\ rotated' \ rotated = {}
  BY <1>0, <1>1, <1>13, <1>14
<1> QED BY <1>7, <1>8, <1>10, <1>13, <1>15, <1>16, <1>17, <1>18, <1>19, StepKeeps

\* regenerate() up to its second await: the new id is nobody's.
LEMMA RegenerateStep ==
  ASSUME SessionInv, NEW r \in Handlers, Regenerate(r)
  PROVE  SessionInv' /\ DeadStays
<1>0. /\ store \in Seq(Entry) /\ Unique(store) /\ handler \in [Handlers -> HandlerRecord(minted)]
      /\ minted \in 0..MaxIds /\ MaxIds \in Nat /\ data \in [Handlers -> BOOLEAN] /\ issued \subseteq 1..minted
      /\ rotated \subseteq 1..minted /\ clock \in Nat /\ HandlersSound /\ FreshId
      /\ minted \in Nat /\ SessionTtl \in Nat /\ SessionTtl # 0
  BY InvFacts, SessionAssumption DEF SessionAssumption
<1>1. /\ UNCHANGED <<issued, data, clock, rotated>> /\ handler[r].at = "open" /\ Lapse({})
      /\ minted < MaxIds /\ minted' = minted + 1 /\ store' = Saved(r, minted + 1)
      /\ handler' = [handler EXCEPT ![r].at = "dropping", ![r].was = handler[r].sid,
                                    ![r].sid = minted + 1, ![r].calls = @ + 1]
  BY DEF Regenerate, Calls, Quiet
<1>2. PICK x : x = handler[r]
  OBVIOUS
<1>3. /\ x = [at |-> x.at, sid |-> x.sid, was |-> x.was, from |-> x.from, calls |-> x.calls]
      /\ x.sid \in 0..minted /\ x.was \in 0..minted /\ x.from \in Handlers /\ x.calls \in Nat
      /\ x.at = "open" /\ x.sid > x.was
  BY <1>0, <1>1, <1>2, RecordFacts DEF HandlersSound, Opened
<1>4. PICK k : k = minted + 1
  OBVIOUS
<1>21. PICK c \in Nat : c = x.calls + 1
  BY <1>3
<1>5. PICK h : h = [at |-> "dropping", sid |-> k, was |-> x.sid, from |-> x.from, calls |-> c]
  OBVIOUS
<1>6. minted' \in 0..MaxIds /\ minted <= minted' /\ k \in 1..minted' /\ x.sid \in 0..minted' /\ minted' = k /\ k \in Nat
  BY <1>0, <1>1, <1>3, <1>4
<1>7. /\ h \in HandlerRecord(minted') /\ h.at = "dropping" /\ h.sid = k /\ h.was = x.sid
      /\ h.sid > h.was /\ h.was # Unknown
  BY <1>0, <1>3, <1>4, <1>5, <1>6 DEF HandlerRecord, Opened, Unknown
<1>8. handler' = [handler EXCEPT ![r] = h]
  <2>1. handler' = [handler EXCEPT ![r].at = "dropping", ![r].was = x.sid, ![r].sid = k, ![r].calls = c]
    BY <1>1, <1>2, <1>4, <1>21
  <2> QED BY <1>0, <1>2, <1>3, <1>5, <2>1
<1>9. /\ HandlersSound' /\ handler'[r] = h
      /\ \A q \in Handlers : q # r => handler'[q] = handler[q]
  <2>1. issued' \subseteq 1..minted' /\ rotated' \subseteq 1..minted' /\ clock' \in Nat /\ data' \in [Handlers -> BOOLEAN]
    BY <1>0, <1>1
  <2> QED BY <1>0, <1>6, <1>7, <1>8, <2>1, HandlersStay
<1>10. FreshId'
  <2>1. {h.sid, h.was} \subseteq {handler[r].sid, handler[r].was, minted + 1} \cup issued
    BY <1>2, <1>4, <1>7
  <2>2. issued' = issued /\ h.sid = minted + 1
    BY <1>1, <1>4, <1>7
  <2>3. issued' \subseteq issued \cup {handler[r].sid}
    BY <2>2
  <2> QED BY <1>0, <1>8, <2>1, <2>2, <2>3, FreshStays
<1>11. Kept(Unknown)
  BY <1>1, LapseFacts
<1>12. PICK e : e = [key |-> k, value |-> r, expiresAt |-> clock + SessionTtl]
  OBVIOUS
<1>13. e \in Entry /\ EntrySound(e, minted') /\ e.key = k /\ e.value = r /\ ~Expired(e, clock)
  BY <1>0, <1>4, <1>6, <1>12 DEF Entry, EntrySound, Expired, NoExpiry
<1>14. /\ store' \in Seq(Entry) /\ Unique(store') /\ In(store') \subseteq In(store) \cup {e}
       /\ data[r] => e \in In(store')
  <2>1. CASE data[r]
    <3>1. store' = Insert(store, k, r, clock + SessionTtl)
      BY <1>0, <1>1, <1>4, <2>1 DEF Saved, StoreSet
    <3>2. [key |-> k, value |-> r, expiresAt |-> clock + SessionTtl] \in Entry
      BY <1>12, <1>13
    <3> QED BY <1>0, <1>12, <3>1, <3>2, InsertFacts, StoreAssumption
  <2>2. CASE ~data[r]
    <3>1. store' = StoreDelete(store, k)
      BY <1>1, <1>4, <2>2 DEF Saved
    <3> QED BY <1>0, <2>2, <3>1, DeleteFacts
  <2> QED BY <2>1, <2>2
<1>15. PICK new : new = {e}
  OBVIOUS
<1>16. \A n \in new : /\ n \in Entry /\ EntrySound(n, minted')
                      /\ n.key > MaxIds \/ n.key = minted + 1 \/ \E q \in Handlers : Holds(q, n.key)
                      /\ n.key \notin rotated'
                      /\ \A q \in Handlers : handler'[q].at # "dropping" /\ handler'[q].was = n.key => n.value # q
  <2>1. k \notin rotated'
    BY <1>0, <1>1, <1>4
  <2>2. \A q \in Handlers : handler'[q].was # k
    <3>1. \A q \in Handlers : handler[q].was \in 0..minted
      BY <1>0, RecordFacts
    <3> QED BY <1>0, <1>3, <1>4, <1>7, <1>9, <3>1
  <2> QED BY <1>4, <1>13, <1>15, <2>1, <2>2
<1>17. \A q \in Handlers : handler'[q].at # "dropping" => handler[q].at # "dropping" /\ handler'[q].was = handler[q].was
  BY <1>7, <1>9
<1>18. ASSUME NEW q \in Handlers, handler'[q].at = "dropping" /\ data'[q]
       PROVE  \/ handler[q].at = "dropping" /\ data[q] /\ handler'[q].sid = handler[q].sid /\ handler[q].sid # Unknown
              \/ Live(store', handler'[q].sid, clock')
  <2>1. CASE q = r
    <3>1. Alive(In(store'), k, clock)
      BY <1>1, <1>13, <1>14, <1>18, <2>1 DEF Alive
    <3> QED BY <1>1, <1>7, <1>9, <1>14, <2>1, <3>1, LiveIsAlive
  <2>2. CASE q # r
    <3>1. handler[q].at = "dropping" /\ data[q] /\ handler'[q].sid = handler[q].sid
      BY <1>1, <1>9, <1>18, <2>2
    <3>2. handler[q].sid > handler[q].was /\ handler[q].was \in 0..minted
      BY <1>0, <3>1, RecordFacts DEF HandlersSound, Opened
    <3> QED BY <1>0, <3>1, <3>2 DEF Unknown
  <2> QED BY <2>1, <2>2
<1>19. \A q \in Handlers : handler'[q].at \in Opened =>
         \/ handler[q].at \in Opened /\ handler'[q].sid = handler[q].sid
         \/ handler'[q].sid = minted + 1
  BY <1>4, <1>7, <1>9
<1>20. clock <= clock' /\ In(store') \subseteq In(store) \cup new /\ rotated' \ rotated = {}
  BY <1>0, <1>1, <1>14, <1>15
<1> QED BY <1>6, <1>9, <1>10, <1>11, <1>14, <1>16, <1>17, <1>18, <1>19, <1>20, StepKeeps

\* regenerate() after its second await.
LEMMA DropStep ==
  ASSUME SessionInv, NEW r \in Handlers, DropPrevious(r)
  PROVE  SessionInv' /\ DeadStays
<1>0. /\ store \in Seq(Entry) /\ Unique(store) /\ handler \in [Handlers -> HandlerRecord(minted)]
      /\ minted \in 0..MaxIds /\ data \in [Handlers -> BOOLEAN] /\ issued \subseteq 1..minted
      /\ rotated \subseteq 1..minted /\ clock \in Nat /\ HandlersSound /\ FreshId /\ minted \in Nat
  BY InvFacts, SessionAssumption DEF SessionAssumption
<1>1. /\ UNCHANGED <<minted, issued, data, clock, lapsed>> /\ handler[r].at = "dropping"
      /\ store' = StoreDelete(store, handler[r].was) /\ rotated' = rotated \cup {handler[r].was}
      /\ handler' = [handler EXCEPT ![r].at = "open"]
  BY DEF DropPrevious, Quiet
<1>2. PICK k : k = handler[r].was
  OBVIOUS
<1>3. k \in 1..minted /\ handler[r].sid > k
  BY <1>0, <1>1, <1>2, RecordFacts DEF HandlersSound, Opened, Unknown
<1>4. PICK h : h = [handler[r] EXCEPT !.at = "open"]
  OBVIOUS
<1>5. handler' = [handler EXCEPT ![r] = h]
  BY <1>0, <1>1, <1>4
<1>6. h \in HandlerRecord(minted) /\ h.at = "open" /\ h.sid = handler[r].sid /\ h.was = k
  <2>1. PICK x : x = handler[r]
    OBVIOUS
  <2>2. /\ x = [at |-> x.at, sid |-> x.sid, was |-> x.was, from |-> x.from, calls |-> x.calls]
        /\ x.sid \in 0..minted /\ x.was \in 0..minted /\ x.from \in Handlers /\ x.calls \in Nat
    BY <1>0, <2>1, RecordFacts
  <2>3. h = [at |-> "open", sid |-> x.sid, was |-> x.was, from |-> x.from, calls |-> x.calls]
    BY <1>4, <2>1, <2>2
  <2> QED BY <1>2, <2>1, <2>2, <2>3 DEF HandlerRecord, Opened
<1>7. /\ HandlersSound' /\ handler'[r] = h
      /\ \A q \in Handlers : q # r => handler'[q] = handler[q]
  <2>1. /\ issued' \subseteq 1..minted' /\ rotated' \subseteq 1..minted' /\ clock' \in Nat /\ data' \in [Handlers -> BOOLEAN]
        /\ minted <= minted' /\ minted' \in 0..MaxIds /\ h \in HandlerRecord(minted')
    BY <1>0, <1>1, <1>2, <1>3, <1>6
  <2>2. h.sid > h.was /\ h.at # "idle" /\ h.at # "dropping"
    BY <1>3, <1>6
  <2> QED BY <1>0, <1>5, <2>1, <2>2, HandlersStay
<1>8. FreshId'
  <2>1. {h.sid, h.was} \subseteq {handler[r].sid, handler[r].was, minted + 1} \cup issued
    BY <1>2, <1>6
  <2>2. issued' \subseteq issued \cup {handler[r].sid} /\ h.at # "dropping"
    BY <1>1, <1>6
  <2> QED BY <1>0, <1>5, <2>1, <2>2, FreshStays
<1>9. store' \in Seq(Entry) /\ Unique(store') /\ In(store') = {e \in In(store) : e.key # k}
  BY <1>0, <1>1, <1>2, DeleteFacts
<1>10. Kept(k)
  BY <1>0, <1>1, <1>9, KeptFacts
<1>11. \A id \in rotated' \ rotated : \A e \in In(store') : e.key # id
  BY <1>1, <1>2, <1>9
<1>12. \A q \in Handlers : handler'[q].at # "dropping" =>
         \/ handler[q].at # "dropping" /\ handler'[q].was = handler[q].was
         \/ \A e \in In(store') : e.key # handler'[q].was
  BY <1>6, <1>7, <1>9
<1>13. \A q \in Handlers : handler'[q].at = "dropping" /\ data'[q] =>
         handler[q].at = "dropping" /\ data[q] /\ handler'[q].sid = handler[q].sid /\ handler[q].sid # k
  BY <1>0, <1>1, <1>2, <1>6, <1>7 DEF FreshId
<1>14. \A q \in Handlers : handler'[q].at \in Opened => handler[q].at \in Opened /\ handler'[q].sid = handler[q].sid
  BY <1>1, <1>6, <1>7 DEF Opened
<1>15. PICK none : none = {}
  OBVIOUS
<1>16. clock <= clock' /\ minted <= minted' /\ In(store') \subseteq In(store) \cup none
  BY <1>0, <1>1, <1>9, <1>15
<1>17. \A n \in none : /\ n \in Entry /\ EntrySound(n, minted')
                       /\ n.key > MaxIds \/ n.key = minted + 1 \/ \E q \in Handlers : Holds(q, n.key)
                       /\ n.key \notin rotated'
                       /\ \A q \in Handlers : handler'[q].at # "dropping" /\ handler'[q].was = n.key => n.value # q
  BY <1>15
<1> QED BY <1>7, <1>8, <1>9, <1>10, <1>11, <1>12, <1>13, <1>14, <1>16, <1>17, StepKeeps

\* What a handler does.
LEMMA HandleStep ==
  ASSUME SessionInv, NEW r \in Handlers, Handle(r)
  PROVE  SessionInv' /\ DeadStays
<1>1. ASSUME NEW cookie \in issued \cup {Unknown}, NewSession(r, cookie) \/ FindSession(r, cookie)
      PROVE  SessionInv' /\ DeadStays
  BY <1>1, NewStep, FindStep
<1>2. ASSUME Loaded(r) \/ SetOrDelete(r) \/ Cleared(r) \/ Respond(r)
      PROVE  SessionInv' /\ DeadStays
  BY <1>2, ObjectStep
<1> QED BY <1>1, <1>2, SaveStep, RegenerateStep, DropStep, DestroyStep DEF Handle

\* The steps of everyone else leave the handlers alone, and change no session but by a
\* delete() of k.
LEMMA ElseStep ==
  ASSUME SessionInv, UNCHANGED <<minted, issued, handler, data, rotated>>,
         clock' \in Nat, clock <= clock', store' \in Seq(Entry), Unique(store'),
         NEW new, In(store') \subseteq In(store) \cup new,
         \A e \in new : e \in Entry /\ e.key > MaxIds /\ e.value \in Nat,
         NEW k \in issued \cup {Unknown}, Kept(k)
  PROVE  SessionInv' /\ DeadStays
<1>0. /\ handler \in [Handlers -> HandlerRecord(minted)] /\ MaxIds \in Nat
      /\ minted \in 0..MaxIds /\ issued \subseteq 1..minted /\ minted \in Nat
      /\ rotated \subseteq 1..minted /\ HandlersSound /\ FreshId
  BY InvFacts, SessionAssumption DEF SessionAssumption
<1>1. HandlersSound' /\ FreshId'
  BY <1>0 DEF HandlersSound, FreshId
<1>2. \A e \in new : /\ e \in Entry /\ EntrySound(e, minted')
                     /\ e.key > MaxIds \/ e.key = minted + 1 \/ \E q \in Handlers : Holds(q, e.key)
                     /\ e.key \notin rotated'
                     /\ \A q \in Handlers : handler'[q].at # "dropping" /\ handler'[q].was = e.key => e.value # q
  <2>1. ASSUME NEW e \in new, NEW q \in Handlers PROVE handler'[q].was # e.key
    <3>1. handler[q].was \in 0..minted
      BY <1>0, RecordFacts
    <3> QED BY <1>0, <3>1
  <2>2. ASSUME NEW e \in new PROVE e.key \notin rotated'
    <3>1. ASSUME e.key \in rotated PROVE FALSE
      <4>1. e.key \in 1..minted /\ e.key > MaxIds
        BY <1>0, <3>1
      <4> QED BY <1>0, <4>1
    <3> QED BY <3>1
  <2>3. ASSUME NEW e \in new PROVE EntrySound(e, minted')
    BY DEF EntrySound
  <2> QED BY <2>1, <2>2, <2>3
<1>3. ASSUME NEW q \in Handlers, handler'[q].at = "dropping" /\ data'[q]
      PROVE  handler[q].at = "dropping" /\ data[q] /\ handler'[q].sid = handler[q].sid /\ handler[q].sid # k
  <2>1. handler[q].sid > handler[q].was /\ handler[q].was \in 0..minted
    BY <1>0, <1>3, RecordFacts DEF HandlersSound, Opened
  <2>2. handler[q].sid \notin issued
    BY <1>0, <1>3 DEF FreshId
  <2> QED BY <1>0, <1>3, <2>1, <2>2 DEF Unknown
<1>4. minted <= minted' /\ rotated' \ rotated = {}
  BY <1>0
<1> QED BY <1>1, <1>2, <1>3, <1>4, StepKeeps

\* An id is deleted from outside.
LEMMA RevokeStep ==
  ASSUME SessionInv, NEW id \in issued, Revoke(id)
  PROVE  SessionInv' /\ DeadStays
<1>0. store \in Seq(Entry) /\ Unique(store) /\ clock \in Nat
  BY InvFacts
<1>1. UNCHANGED <<minted, issued, handler, data, lapsed, rotated, clock>> /\ store' = StoreDelete(store, id)
  BY DEF Revoke, Quiet
<1>2. store' \in Seq(Entry) /\ Unique(store') /\ In(store') = {e \in In(store) : e.key # id}
  BY <1>0, <1>1, DeleteFacts
<1>3. Kept(id)
  BY <1>0, <1>1, <1>2, KeptFacts
<1>4. PICK none : none = {}
  OBVIOUS
<1>5. clock' \in Nat /\ clock <= clock' /\ In(store') \subseteq In(store) \cup none
  BY <1>0, <1>1, <1>2, <1>4
<1>6. \A e \in none : e \in Entry /\ e.key > MaxIds /\ e.value \in Nat
  BY <1>4
<1>7. UNCHANGED <<minted, issued, handler, data, rotated>>
  BY <1>1
<1>8. id \in issued \cup {Unknown}
  OBVIOUS
<1> QED BY <1>2, <1>3, <1>5, <1>6, <1>7, <1>8, ElseStep

\* Other entries of the store come.
LEMMA ChurnStep ==
  ASSUME SessionInv, NEW n \in 1..MaxChurn, Churn(n)
  PROVE  SessionInv' /\ DeadStays
<1>0. /\ store \in Seq(Entry) /\ Unique(store) /\ clock \in Nat /\ minted \in 0..MaxIds /\ MaxIds \in Nat
      /\ \A e \in In(store) : e \in Entry /\ EntrySound(e, minted)
  BY InvFacts
<1>1. UNCHANGED <<minted, issued, handler, data, rotated, clock>> /\ Lapse({}) /\ store' = StoreIncr(store, Other(n), 1, clock)
  BY DEF Churn
<1>2. PICK k : k = Other(n)
  OBVIOUS
<1>3. k \in Nat /\ k > MaxIds
  BY <1>0, <1>2, SessionAssumption DEF SessionAssumption, Other
<1>4. PICK v \in Nat, x \in Nat : store' = Insert(store, k, v, x)
  <2>1. CASE Live(store, k, clock)
    <3>1. PICK e : e = EntryOf(store, k)
      OBVIOUS
    <3>2. e \in In(store) /\ e.key = k
      BY <2>1, <3>1, KeysHaveEntries DEF Live
    <3>3. e.value \in Nat /\ e.expiresAt \in Nat
      BY <1>0, <1>3, <3>2 DEF EntrySound, Entry
    <3>4. e.value + 1 \in Nat /\ store' = Insert(store, k, e.value + 1, e.expiresAt)
      BY <1>1, <1>2, <2>1, <3>1, <3>3 DEF StoreIncr
    <3> QED BY <3>3, <3>4
  <2>2. CASE ~Live(store, k, clock)
    <3>1. store' = Insert(store, k, 1, NoExpiry)
      BY <1>1, <1>2, <2>2 DEF StoreIncr
    <3> QED BY <3>1 DEF NoExpiry
  <2> QED BY <2>1, <2>2
<1>5. PICK e : e = [key |-> k, value |-> v, expiresAt |-> x]
  OBVIOUS
<1>6. e \in Entry /\ e.key > MaxIds /\ e.value \in Nat
  BY <1>3, <1>5 DEF Entry
<1>7. store' \in Seq(Entry) /\ Unique(store') /\ In(store') \subseteq In(store) \cup {e}
  <2>1. [key |-> k, value |-> v, expiresAt |-> x] \in Entry
    BY <1>5, <1>6
  <2> QED BY <1>0, <1>4, <1>5, <2>1, InsertFacts, StoreAssumption
<1>8. Kept(Unknown)
  BY <1>1, LapseFacts
<1>9. PICK new : new = {e}
  OBVIOUS
<1>10. clock' \in Nat /\ clock <= clock' /\ In(store') \subseteq In(store) \cup new
  BY <1>0, <1>1, <1>7, <1>9
<1>11. \A m \in new : m \in Entry /\ m.key > MaxIds /\ m.value \in Nat
  BY <1>6, <1>9
<1>12. UNCHANGED <<minted, issued, handler, data, rotated>> /\ Unknown \in issued \cup {Unknown}
  BY <1>1
<1> QED BY <1>7, <1>8, <1>10, <1>11, <1>12, ElseStep

\* The time passes, or the store drops what has expired.
LEMMA TimeStep ==
  ASSUME SessionInv, SessionTick \/ Cleanup \/ UNCHANGED sessionVars
  PROVE  SessionInv' /\ DeadStays
<1>0. store \in Seq(Entry) /\ Unique(store) /\ clock \in Nat
  BY InvFacts
<1>1. UNCHANGED <<minted, issued, handler, data, rotated>>
  BY DEF SessionTick, Cleanup, sessionVars
<1>2. CASE SessionTick
  <2>1. store' = store /\ clock' = clock + 1 /\ Lapse({})
    BY <1>2 DEF SessionTick
  <2>2. Kept(Unknown)
    BY <2>1, LapseFacts
  <2>3. PICK none : none = {}
    OBVIOUS
  <2>4. /\ store' \in Seq(Entry) /\ Unique(store') /\ In(store') \subseteq In(store) \cup none
        /\ clock' \in Nat /\ clock <= clock'
    BY <1>0, <2>1
  <2>5. (\A e \in none : e \in Entry /\ e.key > MaxIds /\ e.value \in Nat) /\ Unknown \in issued \cup {Unknown}
    BY <2>3
  <2> QED BY <1>1, <2>2, <2>4, <2>5, ElseStep
<1>3. CASE Cleanup \/ UNCHANGED sessionVars
  <2>1. clock' = clock /\ lapsed' = lapsed
    BY <1>3 DEF Cleanup, Quiet, sessionVars
  <2>2. /\ store' \in Seq(Entry) /\ Unique(store') /\ In(store') \subseteq In(store)
        /\ \A e \in In(store) : ~Expired(e, clock) => e \in In(store')
    <3>1. CASE Cleanup
      BY <1>0, <3>1, CleanupFacts DEF Cleanup
    <3>2. CASE UNCHANGED sessionVars
      BY <1>0, <3>2 DEF sessionVars
    <3> QED BY <1>3, <3>1, <3>2
  <2>3. Kept(Unknown)
    BY <1>0, <2>1, <2>2, KeptFacts
  <2>4. PICK none : none = {}
    OBVIOUS
  <2>5. In(store') \subseteq In(store) \cup none /\ clock' \in Nat /\ clock <= clock'
    BY <1>0, <2>1, <2>2
  <2>6. (\A e \in none : e \in Entry /\ e.key > MaxIds /\ e.value \in Nat) /\ Unknown \in issued \cup {Unknown}
    BY <2>4
  <2> QED BY <1>1, <2>2, <2>3, <2>5, <2>6, ElseStep
<1> QED BY <1>2, <1>3

\* At first nothing is stored.
LEMMA SessionsStart == SessionInit => SessionInv
<1> SUFFICES ASSUME SessionInit PROVE SessionInv
  OBVIOUS
<1>1. store = <<>> /\ DOMAIN store = {} /\ store \in Seq([key : Nat, value : Handlers \cup Nat, expiresAt : Nat])
  BY DEF SessionInit
<1>2. StoreSound
  BY <1>1 DEF StoreSound
<1>3. HandlersSound /\ FreshId
  <2>1. minted = 0 /\ minted \in 0..MaxIds /\ issued = {} /\ rotated = {} /\ clock \in Nat
    BY SessionAssumption DEF SessionInit, SessionAssumption
  <2>2. \A r \in Handlers : handler[r].at = "idle" /\ handler[r].was = 0
    BY DEF SessionInit, Unknown
  <2>3. data \in [Handlers -> BOOLEAN]
    BY DEF SessionInit
  <2>4. handler \in [Handlers -> [at : Opened \cup {"idle", "done"}, sid : 0..minted, was : 0..minted,
                                  from : Handlers, calls : Nat]]
    <3>1. 0 \in 0..minted
      BY <2>1
    <3> QED BY <3>1 DEF SessionInit, Unknown
  <2> QED BY <2>1, <2>2, <2>3, <2>4 DEF HandlersSound, FreshId, Opened, Unknown
<1>4. \A id : ~Live(store, id, clock)
  BY <1>1 DEF Live, StoreKeys
<1>5. Rotation
  BY <1>4 DEF Rotation, RotatedAway, NeverMissing, SessionInit
<1> QED BY <1>2, <1>3, <1>5 DEF SessionInv

\* Every step keeps the invariant.
LEMMA SessionStep == SessionInv /\ [SessionNext]_sessionVars => SessionInv' /\ DeadStays
BY HandleStep, RevokeStep, ChurnStep, TimeStep DEF SessionNext
-----------------------------------------------------------------------------
\* What regenerate() of session.ts promises, whatever other handlers, revocations, the
\* expiry and the cap of the store do between its awaits: the session moves to its new id
\* and is never nowhere, and the handler that rotated an id never saves under it again.
THEOREM RotationHolds == SessionSpec => []Rotation
<1>1. SessionInv => Rotation
  BY DEF SessionInv
<1> QED BY <1>1, SessionsStart, SessionStep, PTL DEF SessionSpec

\* An id that names no session and that no handler in progress holds never names one
\* again: fromRequest() adopts no id it did not find, and only a handler that had a
\* destroyed, rotated or expired session can bring it back.
THEOREM DeadIdsStayDead == SessionSpec => DeadStaysDead
<1>1. SessionInv /\ [SessionNext]_sessionVars => [\A id \in 0..minted : Dead(id) => Dead(id)']_sessionVars
  BY SessionStep DEF DeadStays
<1> QED BY <1>1, SessionsStart, SessionStep, PTL DEF SessionSpec, DeadStaysDead
-----------------------------------------------------------------------------
(* The limiter's counters, under their keys *)

\* A counter is found by its key.
LEMMA CounterFacts ==
  ASSUME NEW s, Unique(s), NEW k
  PROVE  /\ Counted(s, k) <=> \E e \in In(s) : e.key = k
         /\ \A e \in In(s) : e.key = k => Counter(s, k) = e
         /\ Counted(s, k) => Counter(s, k) \in In(s) /\ Counter(s, k).key = k
<1>1. ASSUME NEW i \in DOMAIN s, s[i].key = k PROVE (CHOOSE j \in DOMAIN s : s[j].key = k) = i
  BY <1>1 DEF Unique
<1>2. ASSUME NEW i \in DOMAIN s, s[i].key = k PROVE Counter(s, k) = s[i]
  BY <1>1, <1>2 DEF Counter
<1> QED BY <1>2 DEF Counted, In

\* Map.delete()
LEMMA WithoutFacts ==
  ASSUME NEW E, NEW s \in Seq(E), Unique(s), NEW k
  PROVE  /\ Without(s, k) \in Seq(E) /\ Unique(Without(s, k))
         /\ In(Without(s, k)) = {e \in In(s) : e.key # k}
<1>1. CASE ~Counted(s, k)
  <2>1. Without(s, k) = s
    BY <1>1 DEF Without
  <2> QED BY <1>1, <2>1 DEF Counted, In
<1>2. CASE Counted(s, k)
  <2>1. PICK i : i = CHOOSE j \in DOMAIN s : s[j].key = k
    OBVIOUS
  <2>2. i \in DOMAIN s /\ s[i].key = k
    BY <1>2, <2>1 DEF Counted
  <2>3. Without(s, k) = RemoveAt(s, i)
    BY <1>2, <2>1 DEF Without
  <2> QED BY <2>2, <2>3, RemoveFacts
<1> QED BY <1>1, <1>2

CounterRec == [key : Clients \cup Proxies, count : Nat \ {0}, resetAt : Nat]

\* A counter counts one more.
LEMMA CountUpFacts ==
  ASSUME NEW s \in Seq(CounterRec), Unique(s), NEW k, Counted(s, k)
  PROVE  LET t == CountUp(s, k)
             e == Counter(s, k)
             r == Counter(t, k)
         IN  /\ t \in Seq(CounterRec) /\ Unique(t) /\ Counted(t, k)
             /\ r.key = k /\ r.count = e.count + 1 /\ r.resetAt = e.resetAt
             /\ In(t) = {x \in In(s) : x.key # k} \cup {r}
<1>1. PICK t : t = CountUp(s, k)
  OBVIOUS
<1>2. Len(s) \in Nat /\ DOMAIN s = 1..Len(s) /\ \A i \in DOMAIN s : s[i] \in CounterRec
  BY StoreFacts
<1>3. DOMAIN t = DOMAIN s
  BY <1>1 DEF CountUp
<1>4. \A i \in DOMAIN s : t[i] = IF s[i].key = k THEN [s[i] EXCEPT !.count = @ + 1] ELSE s[i]
  BY <1>1 DEF CountUp
<1>5. ASSUME NEW i \in DOMAIN s, s[i].key = k
      PROVE  t[i] \in CounterRec /\ t[i].key = k /\ t[i].count = s[i].count + 1 /\ t[i].resetAt = s[i].resetAt
  <2>1. PICK e \in CounterRec : e = s[i]
    BY <1>2
  <2>2. e.count \in Nat \ {0} /\ e.resetAt \in Nat /\ e.key \in Clients \cup Proxies
    BY <2>1 DEF CounterRec
  <2>3. PICK n \in Nat \ {0} : n = e.count + 1
    BY <2>2
  <2>4. PICK h : h = [key |-> e.key, count |-> n, resetAt |-> e.resetAt]
    OBVIOUS
  <2>5. t[i] = h
    <3>1. t[i] = [e EXCEPT !.count = n]
      BY <1>4, <1>5, <2>1, <2>3
    <3> QED BY <2>4, <3>1 DEF CounterRec
  <2> QED BY <1>5, <2>1, <2>2, <2>3, <2>4, <2>5 DEF CounterRec
<1>6. ASSUME NEW i \in DOMAIN s, s[i].key # k PROVE t[i] = s[i]
  BY <1>4, <1>6
<1>7. \A i \in DOMAIN s : t[i] \in CounterRec /\ t[i].key = s[i].key
  BY <1>2, <1>5, <1>6
<1>8. t \in Seq(CounterRec)
  <2>1. t \in [1..Len(s) -> CounterRec]
    BY <1>1, <1>2, <1>7 DEF CountUp
  <2> QED BY <1>2, <2>1
<1>9. Unique(t)
  BY <1>3, <1>7 DEF Unique
<1>10. PICK i \in DOMAIN s : s[i].key = k
  BY DEF Counted
<1>11. Counter(s, k) = s[i] /\ Counter(t, k) = t[i]
  BY <1>3, <1>7, <1>9, <1>10, CounterFacts DEF In
<1>12. Counted(t, k)
  BY <1>3, <1>7, <1>10 DEF Counted
<1>13. In(t) = {x \in In(s) : x.key # k} \cup {t[i]}
  <2>1. \A j \in DOMAIN s : s[j].key = k => j = i
    BY <1>10 DEF Unique
  <2>2. ASSUME NEW j \in DOMAIN t PROVE t[j] \in {x \in In(s) : x.key # k} \cup {t[i]}
    <3>1. CASE j = i
      BY <3>1
    <3>2. CASE j # i
      BY <1>3, <1>6, <2>1, <3>2 DEF In
    <3> QED BY <3>1, <3>2
  <2>3. ASSUME NEW x \in In(s), x.key # k PROVE x \in In(t)
    BY <1>3, <1>6, <2>3 DEF In
  <2> QED BY <1>3, <1>10, <2>2, <2>3 DEF In
<1> QED BY <1>1, <1>5, <1>8, <1>9, <1>10, <1>11, <1>12, <1>13

\* A window begins, in a store that may hold the counter of the last one.
LEMMA FreshFacts ==
  ASSUME NEW s \in Seq(CounterRec), Unique(s), NEW k \in Clients \cup Proxies, NEW n \in Nat \ {0},
         tick \in Nat
  PROVE  LET t == FreshWindow(s, k, n)
             r == Counter(t, k)
         IN  /\ t \in Seq(CounterRec) /\ Unique(t) /\ Counted(t, k)
             /\ r.key = k /\ r.count = n /\ r.resetAt = tick + Window
             /\ In(t) = {x \in In(s) : x.key # k} \cup {r}
<1>1. PICK u : u = Without(s, k)
  OBVIOUS
<1>2. u \in Seq(CounterRec) /\ Unique(u) /\ In(u) = {e \in In(s) : e.key # k}
  BY <1>1, WithoutFacts
<1>3. PICK e : e = [key |-> k, count |-> n, resetAt |-> tick + Window]
  OBVIOUS
<1>4. e \in CounterRec /\ e.key = k /\ e.count = n /\ e.resetAt = tick + Window
  <2>1. tick + Window \in Nat
    BY LimitAssumption
  <2> QED BY <1>3, <2>1 DEF CounterRec
<1>5. PICK t : t = Append(u, e)
  OBVIOUS
<1>6. t \in Seq(CounterRec) /\ Unique(t) /\ In(t) = In(u) \cup {e}
  <2>1. \A x \in In(u) : x.key # e.key
    BY <1>2, <1>4
  <2> QED BY <1>2, <1>4, <1>5, <2>1, AppendFacts
<1>7. t = FreshWindow(s, k, n)
  BY <1>1, <1>3, <1>5 DEF FreshWindow
<1>8. Counted(t, k) /\ Counter(t, k) = e
  BY <1>4, <1>6, CounterFacts
<1> QED BY <1>2, <1>4, <1>6, <1>7, <1>8

\* A set of numbers that is not empty has a smallest one.
LEMMA SmallestNat ==
  ASSUME NEW T, T \subseteq Nat, T # {}
  PROVE  \E n \in T : \A m \in T : n <= m
<1> DEFINE less == {ss \in Nat \X Nat : ss[1] < ss[2]}
<1>1. IsWellFoundedOn(less, Nat)
  BY NatLessThanWellFounded DEF OpToRel
<1>2. \A m, n \in Nat : m < n => <<m, n>> \in less
  OBVIOUS
<1> HIDE DEF less
<1>3. PICK n \in T : \A m \in T : <<m, n>> \notin less
  BY <1>1, WFMin
<1>4. ASSUME NEW m \in T PROVE n <= m
  <2>1. ~(m < n)
    BY <1>2, <1>3
  <2> QED BY <2>1
<1> QED BY <1>4

\* The first of some places.
LEMMA FirstFacts ==
  ASSUME NEW S, S \subseteq Nat, S # {}
  PROVE  FirstOf(S) \in S
<1>1. \E i \in S : \A j \in S : i <= j
  BY SmallestNat
<1> QED BY <1>1 DEF FirstOf

\* Evicting looks at ScanLimit counters; one that has not lapsed goes only if none of them
\* has, and none of them counts less.
LEMMA EvictOneFacts ==
  ASSUME entries \in Seq(CounterRec), Len(entries) > 0
  PROVE  \E victim \in Scanned :
           /\ EvictOne = RemoveAt(entries, victim)
           /\ \/ Lapsed(entries[victim])
              \/ \A j \in Scanned : ~Lapsed(entries[j]) /\ entries[victim].count <= entries[j].count
<1>1. /\ Len(entries) \in Nat /\ DOMAIN entries = 1..Len(entries)
      /\ \A i \in DOMAIN entries : entries[i] \in CounterRec
  BY StoreFacts
<1>2. /\ \A i \in DOMAIN entries : entries[i].count \in Nat /\ entries[i].resetAt \in Nat
      /\ Scanned \subseteq DOMAIN entries /\ Scanned \subseteq Nat /\ 1 \in Scanned
  BY <1>1, LimitAssumption DEF CounterRec, Scanned
<1>3. PICK ended : ended = {i \in Scanned : Lapsed(entries[i])}
  OBVIOUS
<1>4. PICK weakest : weakest = {i \in Scanned : \A j \in Scanned : ~Weaker(entries[j], entries[i])}
  OBVIOUS
<1>5. PICK victim : victim = FirstOf(IF ended # {} THEN ended ELSE weakest)
  OBVIOUS
<1>6. EvictOne = RemoveAt(entries, victim)
  BY <1>3, <1>4, <1>5 DEF EvictOne
<1>7. CASE ended # {}
  <2>1. victim \in ended
    BY <1>2, <1>3, <1>5, <1>7, FirstFacts
  <2> QED BY <1>3, <1>6, <2>1
<1>8. CASE ended = {}
  <2>1. weakest # {}
    <3>1. PICK i \in Scanned : \A j \in Scanned : entries[i].count <= entries[j].count
      <4>1. PICK n \in {entries[i].count : i \in Scanned} : \A m \in {entries[i].count : i \in Scanned} : n <= m
        BY <1>2, SmallestNat
      <4> QED BY <4>1
    <3>2. PICK alike : alike = {j \in Scanned : entries[j].count = entries[i].count}
      OBVIOUS
    <3>3. PICK w \in alike : \A j \in alike : entries[w].resetAt <= entries[j].resetAt
      <4>1. PICK n \in {entries[j].resetAt : j \in alike} : \A m \in {entries[j].resetAt : j \in alike} : n <= m
        BY <1>2, <3>2, SmallestNat
      <4> QED BY <4>1
    <3>4. ASSUME NEW j \in Scanned PROVE ~Weaker(entries[j], entries[w])
      BY <1>2, <3>1, <3>2, <3>3 DEF Weaker
    <3> QED BY <1>4, <3>2, <3>4
  <2>2. victim \in weakest
    BY <1>2, <1>4, <1>5, <1>8, <2>1, FirstFacts
  <2>3. ASSUME NEW j \in Scanned PROVE ~Lapsed(entries[j]) /\ entries[victim].count <= entries[j].count
    BY <1>2, <1>3, <1>4, <1>8, <2>2 DEF Weaker
  <2> QED BY <1>4, <1>6, <2>2, <2>3
<1> QED BY <1>7, <1>8

\* The smaller of two numbers.
LEMMA FewerFacts ==
  ASSUME NEW a \in Nat, NEW b \in Nat
  PROVE  Fewer(a, b) \in Nat /\ Fewer(a, b) <= a /\ Fewer(a, b) <= b /\ Fewer(a, b) \in {a, b}
BY DEF Fewer

\* Whose window a full store ends while it runs: if the client had used up its limit, so
\* had all the others that were scanned.
LEMMA CrowdFacts ==
  ASSUME entries \in Seq(CounterRec), Unique(entries), Len(entries) >= MaxKeys,
         NEW victim \in Scanned, entries[victim].count > Limit,
         \A j \in Scanned : ~Lapsed(entries[j]) /\ entries[victim].count <= entries[j].count
  PROVE  Crowded(entries[victim].key)
<1>1. /\ Len(entries) \in Nat /\ DOMAIN entries = 1..Len(entries)
      /\ \A i \in DOMAIN entries : entries[i].count \in Nat
  <2>1. /\ Len(entries) \in Nat /\ DOMAIN entries = 1..Len(entries)
        /\ \A i \in DOMAIN entries : entries[i] \in CounterRec
    BY StoreFacts
  <2> QED BY <2>1 DEF CounterRec
<1>2. PICK v : v = entries[victim].key
  OBVIOUS
<1>3. PICK others : others = {i \in DOMAIN entries : /\ entries[i].key # v /\ ~Lapsed(entries[i])
                                                    /\ entries[i].count > Limit}
  OBVIOUS
<1>4. Limit \in Nat /\ ScanLimit \in Nat \ {0} /\ MaxKeys \in Nat \ {0}
  BY LimitAssumption
<1>5. PICK n \in Nat : n = Len(entries)
  BY <1>1
<1>5d. PICK few \in Nat : few = Fewer(ScanLimit, MaxKeys)
  BY <1>4, FewerFacts
<1>5e. few <= ScanLimit /\ few <= MaxKeys
  BY <1>4, <1>5d, FewerFacts
<1>5a. n >= MaxKeys /\ DOMAIN entries = 1..n
  BY <1>1, <1>5
<1>5b. PICK m \in Nat : m = Fewer(ScanLimit, n)
  BY <1>4, FewerFacts
<1>5c. m <= ScanLimit /\ m <= n /\ (m = ScanLimit \/ m = n)
  BY <1>4, <1>5b, FewerFacts
<1>6. Scanned = 1..m /\ m >= few
  <2>1. Scanned = {i \in 1..n : i <= ScanLimit}
    BY <1>5a DEF Scanned
  <2>2. {i \in 1..n : i <= ScanLimit} = 1..m
    BY <1>4, <1>5c
  <2>3. m >= few
    BY <1>4, <1>5a, <1>5c, <1>5e
  <2> QED BY <2>1, <2>2, <2>3
<1>7. Scanned \subseteq DOMAIN entries /\ Scanned \ {victim} \subseteq others
  <2>1. ASSUME NEW j \in Scanned \ {victim} PROVE entries[j].key # v
    BY <1>2 DEF Unique, Scanned
  <2> QED BY <1>1, <1>3, <1>4, <2>1 DEF Scanned
<1>8. IsFiniteSet(1..m) /\ Cardinality(1..m) = m
  BY FS_Interval
<1>9. IsFiniteSet(Scanned \ {victim}) /\ Cardinality(Scanned \ {victim}) = m - 1
  BY <1>6, <1>8, FS_RemoveElement
<1>10. IsFiniteSet(others) /\ Cardinality(others) \in Nat
  <2>1. IsFiniteSet(DOMAIN entries)
    BY <1>1, FS_Interval
  <2>2. others \in SUBSET DOMAIN entries
    BY <1>3
  <2> QED BY <2>1, <2>2, FS_Subset, FS_CardinalityType
<1>11. Cardinality(Scanned \ {victim}) <= Cardinality(others)
  BY <1>7, <1>10, FS_Subset
<1>12. Cardinality(others) >= few - 1
  BY <1>6, <1>9, <1>10, <1>11
<1> QED BY <1>2, <1>3, <1>5d, <1>12 DEF Crowded

\* What increment() does to the counter of its key, and to those of others: in memory one
\* may go, in Redis none.
LEMMA IncrementFacts ==
  ASSUME entries \in Seq(CounterRec), Unique(entries), tick \in Nat, backend \in {"memory", "redis"},
         \A e \in In(entries) : e.resetAt = NoTtl => backend = "redis",
         NEW k \in Clients \cup Proxies
  PROVE  LET t == Increment(k)
             e == Counter(entries, k)
             r == Counter(t, k)
         IN  /\ t \in Seq(CounterRec) /\ Unique(t) /\ Counted(t, k) /\ r \in In(t) /\ r.key = k
             /\ \/ /\ Counted(entries, k) /\ e.resetAt # NoTtl /\ e.resetAt >= tick
                   /\ backend = "memory" => ~Lapsed(e)
                   /\ r.count = e.count + 1 /\ r.resetAt = e.resetAt
                \/ /\ Counted(entries, k) => e.resetAt # NoTtl /\ Lapsed(e)
                   /\ r.count = 1 /\ r.resetAt = tick + Window
                \/ /\ Counted(entries, k) /\ e.resetAt = NoTtl
                   /\ r.count = e.count + 1 /\ r.resetAt = tick + Window
             /\ \A x \in In(t) : x = r \/ (x \in In(entries) /\ x.key # k)
             /\ \A x \in In(entries) : x.key # k =>
                  \/ x \in In(t)
                  \/ backend = "memory" /\ (Lapsed(x) \/ (x.count > Limit => Crowded(x.key)))
<1>1. PICK e : e = Counter(entries, k)
  OBVIOUS
<1>2. Counted(entries, k) => e \in In(entries) /\ e.key = k
  BY <1>1, CounterFacts
<1>3. \A x \in In(entries) : x.count \in Nat \ {0} /\ x.resetAt \in Nat
  <2>1. In(entries) \subseteq CounterRec
    BY StoreFacts
  <2> QED BY <2>1 DEF CounterRec
<1>4. Window \in Nat \ {0} /\ Limit \in Nat \ {0} /\ MaxKeys \in Nat \ {0}
  BY LimitAssumption
<1> DEFINE Others(t, r) == /\ \A x \in In(t) : x = r \/ (x \in In(entries) /\ x.key # k)
                           /\ \A x \in In(entries) : x.key # k => x \in In(t)
\* The counter counts on.
<1>5. ASSUME Counted(entries, k), e.resetAt # NoTtl, e.resetAt >= tick, backend = "memory" => ~Lapsed(e),
             NEW t, t = CountUp(entries, k)
      PROVE  LET r == Counter(t, k)
             IN  /\ t \in Seq(CounterRec) /\ Unique(t) /\ Counted(t, k) /\ r \in In(t) /\ r.key = k
                 /\ r.count = e.count + 1 /\ r.resetAt = e.resetAt
                 /\ Others(t, r)
  <2>1. PICK r : r = Counter(t, k)
    OBVIOUS
  <2>2. /\ t \in Seq(CounterRec) /\ Unique(t) /\ Counted(t, k)
        /\ r.key = k /\ r.count = e.count + 1 /\ r.resetAt = e.resetAt
        /\ In(t) = {x \in In(entries) : x.key # k} \cup {r}
    BY <1>1, <1>5, <2>1, CountUpFacts
  <2> QED BY <2>1, <2>2
\* A window begins.
<1>6. ASSUME NEW n \in Nat \ {0}, NEW t, t = FreshWindow(entries, k, n)
      PROVE  LET r == Counter(t, k)
             IN  /\ t \in Seq(CounterRec) /\ Unique(t) /\ Counted(t, k) /\ r \in In(t) /\ r.key = k
                 /\ r.count = n /\ r.resetAt = tick + Window
                 /\ Others(t, r)
  <2>1. PICK r : r = Counter(t, k)
    OBVIOUS
  <2>2. /\ t \in Seq(CounterRec) /\ Unique(t) /\ Counted(t, k)
        /\ r.key = k /\ r.count = n /\ r.resetAt = tick + Window
        /\ In(t) = {x \in In(entries) : x.key # k} \cup {r}
    BY <1>6, <2>1, FreshFacts
  <2> QED BY <2>1, <2>2
\* A window begins in a full store.
<1>7. ASSUME ~Counted(entries, k), Len(entries) >= MaxKeys, backend = "memory",
             NEW t, t = FreshWindow(EvictOne, k, 1)
      PROVE  LET r == Counter(t, k)
             IN  /\ t \in Seq(CounterRec) /\ Unique(t) /\ Counted(t, k) /\ r \in In(t) /\ r.key = k
                 /\ r.count = 1 /\ r.resetAt = tick + Window
                 /\ \A x \in In(t) : x = r \/ (x \in In(entries) /\ x.key # k)
                 /\ \A x \in In(entries) : x.key # k =>
                      x \in In(t) \/ Lapsed(x) \/ (x.count > Limit => Crowded(x.key))
  <2>1. PICK r : r = Counter(t, k)
    OBVIOUS
  <2>2. Len(entries) > 0 /\ Len(entries) \in Nat
    BY <1>4, <1>7, StoreFacts
  <2>3. PICK victim \in Scanned :
           /\ EvictOne = RemoveAt(entries, victim)
           /\ \/ Lapsed(entries[victim])
              \/ \A j \in Scanned : ~Lapsed(entries[j]) /\ entries[victim].count <= entries[j].count
    BY <2>2, EvictOneFacts
  <2>4. victim \in DOMAIN entries
    BY DEF Scanned
  <2>5. PICK s : s = EvictOne
    OBVIOUS
  <2>6. s \in Seq(CounterRec) /\ Unique(s) /\ In(s) = {x \in In(entries) : x.key # entries[victim].key}
    BY <2>3, <2>4, <2>5, RemoveFacts
  <2>7. /\ t \in Seq(CounterRec) /\ Unique(t) /\ Counted(t, k)
        /\ r.key = k /\ r.count = 1 /\ r.resetAt = tick + Window
        /\ In(t) = {x \in In(s) : x.key # k} \cup {r}
    BY <1>7, <2>1, <2>5, <2>6, FreshFacts
  <2>8. ASSUME NEW x \in In(entries), x.key # k
        PROVE  x \in In(t) \/ Lapsed(x) \/ (x.count > Limit => Crowded(x.key))
    <3>1. CASE x.key # entries[victim].key
      BY <2>6, <2>7, <2>8, <3>1
    <3>2. CASE x.key = entries[victim].key
      <4>1. x = entries[victim]
        BY <2>4, <3>2 DEF In, Unique
      <4>2. Lapsed(entries[victim]) \/ (entries[victim].count > Limit => Crowded(entries[victim].key))
        BY <1>7, <2>3, CrowdFacts
      <4> QED BY <4>1, <4>2
    <3> QED BY <3>1, <3>2
  <2> QED BY <2>1, <2>6, <2>7, <2>8
<1> HIDE DEF Others
<1>8. CASE backend = "memory"
  <2>1. Increment(k) = MemoryIncrement(k)
    BY <1>8 DEF Increment
  <2>2. CASE Counted(entries, k) /\ ~Lapsed(e)
    <3>1. MemoryIncrement(k) = CountUp(entries, k)
      BY <1>1, <2>2 DEF MemoryIncrement
    <3>2. e.resetAt # NoTtl /\ e.resetAt >= tick
      BY <1>2, <1>3, <1>8, <2>2 DEF Lapsed, NoTtl
    <3> QED BY <1>1, <1>5, <2>1, <2>2, <3>1, <3>2 DEF Others
  <2>3. CASE Counted(entries, k) /\ Lapsed(e)
    <3>1. MemoryIncrement(k) = FreshWindow(entries, k, 1)
      BY <1>1, <2>3 DEF MemoryIncrement
    <3>2. e.resetAt # NoTtl
      BY <1>2, <1>8, <2>3
    <3> QED BY <1>1, <1>6, <2>1, <2>3, <3>1, <3>2 DEF Others
  <2>4. CASE ~Counted(entries, k) /\ Len(entries) >= MaxKeys
    <3>1. MemoryIncrement(k) = FreshWindow(EvictOne, k, 1)
      BY <2>4 DEF MemoryIncrement
    <3> QED BY <1>1, <1>7, <1>8, <2>1, <2>4, <3>1
  <2>5. CASE ~Counted(entries, k) /\ ~(Len(entries) >= MaxKeys)
    <3>1. MemoryIncrement(k) = FreshWindow(entries, k, 1)
      BY <2>5 DEF MemoryIncrement
    <3> QED BY <1>1, <1>6, <2>1, <2>5, <3>1 DEF Others
  <2> QED BY <2>2, <2>3, <2>4, <2>5
<1>9. CASE backend = "redis"
  <2>1. Increment(k) = RedisIncrement(k)
    BY <1>9 DEF Increment
  <2>2. CASE ~Counted(entries, k)
    <3>1. RedisIncrement(k) = FreshWindow(entries, k, 1)
      BY <2>2 DEF RedisIncrement
    <3> QED BY <1>1, <1>6, <2>1, <2>2, <3>1 DEF Others
  <2>3. CASE Counted(entries, k) /\ e.resetAt = NoTtl
    <3>1. PICK n \in Nat \ {0} : n = e.count + 1
      BY <1>2, <1>3, <2>3
    <3>2. RedisIncrement(k) = FreshWindow(entries, k, n)
      BY <1>1, <2>3, <3>1 DEF RedisIncrement
    <3> QED BY <1>1, <1>6, <2>1, <2>3, <3>1, <3>2 DEF Others
  <2>4. CASE Counted(entries, k) /\ e.resetAt # NoTtl /\ e.resetAt < tick
    <3>1. RedisIncrement(k) = FreshWindow(entries, k, 1)
      BY <1>1, <2>4 DEF RedisIncrement
    <3>2. Lapsed(e)
      BY <1>2, <1>3, <2>4 DEF Lapsed
    <3> QED BY <1>1, <1>6, <2>1, <2>4, <3>1, <3>2 DEF Others
  <2>5. CASE Counted(entries, k) /\ e.resetAt # NoTtl /\ ~(e.resetAt < tick)
    <3>1. RedisIncrement(k) = CountUp(entries, k)
      BY <1>1, <2>5 DEF RedisIncrement
    <3>2. e.resetAt >= tick
      BY <1>2, <1>3, <2>5
    <3> QED BY <1>1, <1>5, <1>9, <2>1, <2>5, <3>1, <3>2 DEF Others
  <2> QED BY <2>2, <2>3, <2>4, <2>5
<1> QED BY <1>8, <1>9

-----------------------------------------------------------------------------
(* Whose counter a request draws on *)

\* Through the proxies or directly: a client's request has the client's own key.
LEMMA OwnKey ==
  ASSUME mode \in {"proxies", "hops"}, NEW c \in Clients, NEW k \in KeysOf(c)
  PROVE  k = c
<1>1. /\ c \notin Proxies /\ c # Text /\ c # Anonymous /\ Hops \in Nat \ {0}
      /\ CanonicalizeIp(c) = c
  BY LimitAssumption DEF CanonicalizeIp
<1>2. CASE \E xff \in UNION {ThroughProxies(c, sent) : sent \in Headers}, p \in Proxies :
             k = KeyGenerator(xff, p)
  <2>0. PICK xff \in UNION {ThroughProxies(c, sent) : sent \in Headers}, p \in Proxies : k = KeyGenerator(xff, p)
    BY <1>2
  <2>1. PICK sent \in Headers : xff \in ThroughProxies(c, sent)
    OBVIOUS
  <2>2. PICK E : E = Clients \cup Proxies \cup {Text}
    OBVIOUS
  <2>3. sent \in Seq(E) /\ Len(sent) \in Nat
    <3>1. PICK n \in 0..1 : sent \in [1..n -> E]
      BY <2>2 DEF Headers
    <3> QED BY <3>1
  <2>4. ASSUME NEW passed \in Seq(Proxies), NEW x, x = sent \o <<c>> \o passed
        PROVE  /\ Len(x) = Len(sent) + 1 + Len(passed) /\ DOMAIN x = 1..(Len(sent) + 1 + Len(passed))
               /\ Len(passed) \in Nat
               /\ x[Len(sent) + 1] = c
               /\ \A i \in DOMAIN x : i > Len(sent) + 1 => x[i] \in Proxies
    <3>1. <<c>> \in Seq(E) /\ Len(<<c>>) = 1 /\ <<c>>[1] = c
      BY <2>2
    <3>2. PICK y : y = sent \o <<c>>
      OBVIOUS
    <3>3. y \in Seq(E) /\ Len(y) = Len(sent) + 1 /\ y[Len(sent) + 1] = c
      BY <2>3, <3>1, <3>2, ConcatProperties
    <3>4. passed \in Seq(E) /\ Len(passed) \in Nat /\ \A i \in 1..Len(passed) : passed[i] \in Proxies
      BY <2>2, StoreFacts
    <3>5. /\ x \in Seq(E) /\ Len(x) = Len(y) + Len(passed)
          /\ \A i \in 1..(Len(y) + Len(passed)) : x[i] = IF i <= Len(y) THEN y[i] ELSE passed[i - Len(y)]
      BY <2>4, <3>2, <3>3, <3>4, ConcatProperties
    <3>6. DOMAIN x = 1..(Len(sent) + 1 + Len(passed))
      BY <2>3, <3>3, <3>4, <3>5, StoreFacts
    <3>7. x[Len(sent) + 1] = c
      BY <2>3, <3>3, <3>4, <3>5
    <3>8. ASSUME NEW i \in DOMAIN x, i > Len(sent) + 1 PROVE x[i] \in Proxies
      <4>1. x[i] = passed[i - Len(y)] /\ i - Len(y) \in 1..Len(passed)
        BY <2>3, <3>3, <3>4, <3>5, <3>6, <3>8
      <4> QED BY <3>4, <4>1
    <3> QED BY <2>3, <3>3, <3>4, <3>5, <3>6, <3>7, <3>8
  <2>5. CASE mode = "proxies"
    <3>0. PICK passed \in {<<>>} \cup {<<q>> : q \in Proxies} : xff = sent \o <<c>> \o passed
      BY <2>1, <2>5 DEF ThroughProxies
    <3>1. passed \in Seq(Proxies)
      <4>1. CASE passed = <<>>
        BY <4>1
      <4>2. CASE \E q \in Proxies : passed = <<q>>
        BY <4>2
      <4> QED BY <4>1, <4>2
    <3>2. PICK hops : hops = {i \in DOMAIN xff : xff[i] \notin Proxies}
      OBVIOUS
    <3>3. Len(sent) + 1 \in hops /\ \A j \in hops : j <= Len(sent) + 1 /\ j \in Int
      BY <1>1, <2>3, <2>4, <3>0, <3>1, <3>2
    <3>4. (CHOOSE i \in hops : \A j \in hops : j <= i) = Len(sent) + 1
      BY <2>3, <3>3
    <3>5. ClientIpFromTrustedProxies(xff) = c
      BY <1>1, <2>4, <3>0, <3>1, <3>2, <3>3, <3>4 DEF ClientIpFromTrustedProxies
    <3> QED BY <1>1, <2>0, <2>5, <3>5 DEF KeyGenerator
  <2>6. CASE mode = "hops"
    <3>1. PICK passed \in [1..(Hops - 1) -> Proxies] : xff = sent \o <<c>> \o passed
      BY <2>1, <2>6 DEF ThroughProxies
    <3>2. passed \in Seq(Proxies) /\ Len(passed) = Hops - 1
      BY <1>1
    <3>2a. Len(xff) = Len(sent) + 1 + Len(passed) /\ xff[Len(sent) + 1] = c
      BY <2>4, <3>1, <3>2
    <3>3. Len(xff) = Len(sent) + Hops /\ xff[Len(sent) + 1] = c
      BY <1>1, <2>3, <3>2, <3>2a
    <3>4. ~(Len(xff) < Hops) /\ Len(xff) - Hops + 1 = Len(sent) + 1
      BY <1>1, <2>3, <3>3
    <3>5. ClientIpFromHopCount(xff) = c
      BY <1>1, <3>3, <3>4 DEF ClientIpFromHopCount
    <3> QED BY <1>1, <2>0, <2>6, <3>5 DEF KeyGenerator
  <2> QED BY <2>5, <2>6
<1>3. CASE k = KeyGenerator(<<>>, c)
  <2>1. ClientIpFromTrustedProxies(<<>>) = Anonymous
    BY DEF ClientIpFromTrustedProxies
  <2>2. ClientIpFromHopCount(<<>>) = Anonymous
    BY <1>1 DEF ClientIpFromHopCount
  <2> QED BY <1>1, <1>3, <2>1, <2>2 DEF KeyGenerator
<1> QED BY <1>2, <1>3 DEF KeysOf

\* A proxy that asks on its own behalf is counted as itself.
LEMMA ProxyKey ==
  ASSUME NEW p \in Proxies
  PROVE  KeyGenerator(<<>>, p) = p
<1>1. p # Text /\ CanonicalizeIp(p) = p /\ Hops \in Nat \ {0}
  BY LimitAssumption DEF CanonicalizeIp
<1>2. ClientIpFromTrustedProxies(<<>>) = Anonymous
  BY DEF ClientIpFromTrustedProxies
<1>3. ClientIpFromHopCount(<<>>) = Anonymous
  BY <1>1 DEF ClientIpFromHopCount
<1> QED BY <1>1, <1>2, <1>3 DEF KeyGenerator

-----------------------------------------------------------------------------
(* The windows a client's admissions fell in *)

\* One more admission: in the window of the counter, or in one that begins now.
LEMMA SpacedAppend ==
  ASSUME NEW times \in Seq(Nat), NEW start \in [DOMAIN times -> Nat], Spaced(times, start),
         NEW now \in Nat, \A i \in DOMAIN times : times[i] <= now,
         NEW w \in Nat, NEW n \in 1..Limit, w <= now,
         \/ n > 1 /\ EndsIn(times, start, n - 1, w + Window)
         \/ /\ n = 1 /\ w = now
            /\ times # <<>> => start[Len(times)] + Window <= now
  PROVE  LET t == Append(times, now)
         IN  \E s \in [DOMAIN t -> Nat] : Spaced(t, s) /\ EndsIn(t, s, n, w + Window)
<1>1. Len(times) \in Nat /\ DOMAIN times = 1..Len(times) /\ \A i \in DOMAIN times : times[i] \in Nat
  BY StoreFacts
<1>2. PICK l \in Nat : l = Len(times)
  BY <1>1
<1>3. PICK t : t = Append(times, now)
  OBVIOUS
<1>4. /\ t \in Seq(Nat) /\ Len(t) = l + 1 /\ DOMAIN t = 1..(l + 1)
      /\ \A i \in 1..l : t[i] = times[i]
      /\ t[l + 1] = now
  BY <1>1, <1>2, <1>3, AppendProperties, LenProperties
<1>5. PICK s : s = [i \in 1..(l + 1) |-> IF i = l + 1 THEN w ELSE start[i]]
  OBVIOUS
<1>6. /\ \A i \in 1..l : s[i] = start[i] /\ start[i] \in Nat /\ i \in 1..(l + 1) /\ i # l + 1
      /\ s[l + 1] = w /\ l + 1 \in 1..(l + 1)
  BY <1>1, <1>2, <1>5
<1>7. s \in [DOMAIN t -> Nat]
  BY <1>1, <1>2, <1>4, <1>5
<1>8. Window \in Nat \ {0} /\ Limit \in Nat \ {0}
  BY LimitAssumption
<1>9. /\ \A i \in 1..l : start[i] <= times[i] /\ times[i] <= now /\ times[i] \in Nat
      /\ \A i, j \in 1..l : i < j =>
           start[i] = start[j] \/ (times[i] <= start[j] /\ start[i] + Window <= start[j])
      /\ \A i \in 1..l : i + Limit <= l => start[i] # start[i + Limit]
  BY <1>1, <1>2 DEF Spaced
\* Which of the earlier windows is the one admitted in, and that the others ended.
<1>10. /\ \A i \in 1..l : start[i] = w \/ (times[i] <= w /\ start[i] + Window <= w)
       /\ \A i \in 1..l : start[i] = w <=> i > l + 1 - n
       /\ n <= l + 1
  <2>1. CASE n > 1 /\ EndsIn(times, start, n - 1, w + Window)
    <3>1. /\ l >= n - 1 /\ w + Window = start[l] + Window
          /\ \A i \in 1..l : start[i] = start[l] <=> i > l - (n - 1)
      BY <1>1, <1>2, <2>1 DEF EndsIn
    <3>2. l \in 1..l /\ start[l] \in Nat
      BY <1>6, <2>1, <3>1
    <3>3. w = start[l]
      BY <1>8, <3>1, <3>2
    <3>4. ASSUME NEW i \in 1..l PROVE start[i] = w \/ (times[i] <= w /\ start[i] + Window <= w)
      <4>1. i = l \/ i < l
        OBVIOUS
      <4> QED BY <1>9, <3>2, <3>3, <4>1
    <3> QED BY <2>1, <3>1, <3>3, <3>4
  <2>2. CASE n = 1 /\ w = now /\ (times # <<>> => start[Len(times)] + Window <= now)
    <3>1. ASSUME NEW i \in 1..l PROVE times[i] <= w /\ start[i] + Window <= w
      <4>1. l \in 1..l /\ start[l] + Window <= w /\ start[l] \in Nat
        <5>1. times # <<>>
          BY <1>1, <1>2
        <5> QED BY <1>2, <1>6, <2>2, <5>1
      <4>2. start[i] = start[l] \/ start[i] + Window <= start[l]
        <5>1. i = l \/ i < l
          OBVIOUS
        <5> QED BY <1>9, <4>1, <5>1
      <4> QED BY <1>6, <1>8, <1>9, <2>2, <4>1, <4>2
    <3>2. ASSUME NEW i \in 1..l PROVE start[i] # w /\ ~(i > l + 1 - n)
      BY <1>6, <1>8, <2>2, <3>1
    <3> QED BY <2>2, <3>1, <3>2
  <2> QED BY <2>1, <2>2
<1>11. Spaced(t, s)
  <2>1. ASSUME NEW i \in 1..(l + 1) PROVE s[i] <= t[i]
    <3>1. CASE i = l + 1
      BY <1>4, <1>6, <3>1
    <3>2. CASE i \in 1..l
      BY <1>4, <1>6, <1>9, <3>2
    <3> QED BY <3>1, <3>2
  <2>2. ASSUME NEW i \in 1..(l + 1), NEW j \in 1..(l + 1), i < j
        PROVE  s[i] = s[j] \/ (t[i] <= s[j] /\ s[i] + Window <= s[j])
    <3>0. i \in 1..l
      BY <2>2
    <3>1. CASE j = l + 1
      BY <1>4, <1>6, <1>10, <3>0, <3>1
    <3>2. CASE j \in 1..l
      BY <1>4, <1>6, <1>9, <2>2, <3>0, <3>2
    <3> QED BY <3>1, <3>2
  <2>3. ASSUME NEW i \in 1..(l + 1), i + Limit <= l + 1 PROVE s[i] # s[i + Limit]
    <3>0. i \in 1..l /\ i + Limit \in 1..(l + 1) /\ (i + Limit = l + 1 \/ i + Limit \in 1..l)
      BY <1>8, <2>3
    <3>1. CASE i + Limit = l + 1
      <4>1. ~(i > l + 1 - n)
        BY <1>8, <3>0, <3>1
      <4> QED BY <1>6, <1>10, <3>0, <3>1, <4>1
    <3>2. CASE i + Limit \in 1..l
      <4>1. start[i] # start[i + Limit]
        BY <1>8, <1>9, <3>0, <3>2
      <4> QED BY <1>6, <3>0, <3>2, <4>1
    <3> QED BY <3>0, <3>1, <3>2
  <2> QED BY <1>4, <2>1, <2>2, <2>3 DEF Spaced
<1>12. EndsIn(t, s, n, w + Window)
  <2>1. ASSUME NEW i \in 1..(l + 1) PROVE s[i] = s[l + 1] <=> i > l + 1 - n
    <3>1. CASE i = l + 1
      BY <1>6, <3>1
    <3>2. CASE i \in 1..l
      BY <1>6, <1>10, <3>2
    <3> QED BY <3>1, <3>2
  <2> QED BY <1>4, <1>6, <1>10, <2>1 DEF EndsIn
<1> QED BY <1>3, <1>7, <1>11, <1>12

\* What the history keeps of it.
LEMMA SpacedLast ==
  ASSUME NEW times \in Seq(Nat), Len(times) <= Recent + 1,
         NEW start \in [DOMAIN times -> Nat], Spaced(times, start),
         NEW n \in 1..Limit, NEW resetAt, EndsIn(times, start, n, resetAt)
  PROVE  LET t == LastOf(times)
         IN  /\ t \in Seq(Nat) /\ Len(t) <= Recent
             /\ \A i \in DOMAIN t : \E j \in DOMAIN times : t[i] = times[j]
             /\ \E s \in [DOMAIN t -> Nat] : Spaced(t, s) /\ EndsIn(t, s, n, resetAt)
<1>1. Len(times) \in Nat /\ DOMAIN times = 1..Len(times) /\ \A i \in DOMAIN times : times[i] \in Nat
  BY StoreFacts
<1>2. Limit \in Nat \ {0} /\ Recent = 2 * Limit + 1 /\ Recent \in Nat /\ Window \in Nat \ {0}
  BY LimitAssumption DEF Recent
<1>3. CASE Len(times) <= Recent
  BY <1>3 DEF LastOf
<1>4. CASE ~(Len(times) <= Recent)
  <2>1. PICK l \in Nat : l = Recent
    BY <1>2
  <2>2. Len(times) = l + 1 /\ DOMAIN times = 1..(l + 1) /\ times # <<>>
    <3>1. PICK m \in Nat : m = Len(times)
      BY <1>1
    <3>2. m <= l + 1 /\ ~(m <= l)
      BY <1>4, <2>1, <3>1
    <3>3. Len(times) = l + 1
      BY <3>1, <3>2
    <3>4. times # <<>>
      BY <3>3
    <3> QED BY <1>1, <3>3, <3>4
  <2>2a. /\ \A i \in 1..(l + 1) : start[i] <= times[i]
         /\ \A i, j \in 1..(l + 1) : i < j =>
              start[i] = start[j] \/ (times[i] <= start[j] /\ start[i] + Window <= start[j])
         /\ \A i \in 1..(l + 1) : i + Limit <= l + 1 => start[i] # start[i + Limit]
    BY <2>2 DEF Spaced
  <2>3. PICK t : t = Tail(times)
    OBVIOUS
  <2>4. t \in Seq(Nat) /\ Len(t) = l /\ DOMAIN t = 1..l /\ \A i \in 1..l : t[i] = times[i + 1]
    <3>1. Tail(times) \in Seq(Nat) /\ Len(Tail(times)) = Len(times) - 1
          /\ \A i \in 1..Len(Tail(times)) : Tail(times)[i] = times[i + 1]
      BY <2>2, HeadTailProperties
    <3> QED BY <2>2, <2>3, <3>1, LenProperties
  <2>5. LastOf(times) = t
    BY <1>4, <2>3 DEF LastOf
  <2>6. PICK s : s = [i \in 1..l |-> start[i + 1]]
    OBVIOUS
  <2>7. \A i \in 1..l : i + 1 \in 1..(l + 1) /\ s[i] = start[i + 1] /\ start[i + 1] \in Nat
    BY <2>2, <2>6
  <2>8. s \in [DOMAIN t -> Nat]
    BY <2>4, <2>6, <2>7
  <2>9. Spaced(t, s)
    <3>1. \A i \in 1..l : s[i] <= t[i]
      BY <2>2a, <2>4, <2>7
    <3>2. ASSUME NEW i \in 1..l, NEW j \in 1..l, i < j
          PROVE  s[i] = s[j] \/ (t[i] <= s[j] /\ s[i] + Window <= s[j])
      <4>1. i + 1 < j + 1
        BY <3>2
      <4> QED BY <2>2a, <2>4, <2>7, <4>1
    <3>3. ASSUME NEW i \in 1..l, i + Limit <= l PROVE s[i] # s[i + Limit]
      <4>1. i + Limit \in 1..l /\ (i + Limit) + 1 = (i + 1) + Limit /\ (i + 1) + Limit <= l + 1
        BY <1>2, <3>3
      <4>2. start[i + 1] # start[(i + 1) + Limit]
        BY <2>2a, <2>7, <4>1
      <4> QED BY <2>7, <4>1, <4>2
    <3> QED BY <2>4, <3>1, <3>2, <3>3 DEF Spaced
  <2>10. EndsIn(t, s, n, resetAt)
    <3>1. /\ resetAt = start[l + 1] + Window
          /\ \A i \in 1..(l + 1) : start[i] = start[l + 1] <=> i > l + 1 - n
      <4>1. /\ resetAt = start[Len(times)] + Window
            /\ \A i \in DOMAIN times : start[i] = start[Len(times)] <=> i > Len(times) - n
        BY DEF EndsIn
      <4> QED BY <2>2, <4>1
    <3>2. l >= n /\ l \in 1..l
      BY <1>2, <2>1
    <3>3. ASSUME NEW i \in 1..l PROVE s[i] = s[l] <=> i > l - n
      BY <2>7, <3>1, <3>2
    <3>4. resetAt = s[l] + Window
      BY <2>7, <3>1, <3>2
    <3> QED BY <2>4, <3>2, <3>3, <3>4 DEF EndsIn
  <2>11. Len(t) <= Recent
    BY <1>2, <2>1, <2>4
  <2>12. \A i \in DOMAIN t : \E j \in DOMAIN times : t[i] = times[j]
    BY <2>2, <2>4, <2>7
  <2> QED BY <2>4, <2>5, <2>8, <2>9, <2>10, <2>11, <2>12
<1> QED BY <1>3, <1>4

\* The first admission after the counter was lost.
LEMMA SpacedAnew ==
  ASSUME NEW now \in Nat
  PROVE  LET t == <<now>>
         IN  /\ t \in Seq(Nat) /\ Len(t) = 1 /\ DOMAIN t = {1} /\ t[1] = now
             /\ \E s \in [DOMAIN t -> Nat] : Spaced(t, s) /\ EndsIn(t, s, 1, now + Window)
<1>1. PICK t : t = <<now>>
  OBVIOUS
<1>2. t \in Seq(Nat) /\ Len(t) = 1 /\ DOMAIN t = {1} /\ t[1] = now
  BY <1>1
<1>3. PICK s : s = [i \in {1} |-> now]
  OBVIOUS
<1>4. s \in [DOMAIN t -> Nat] /\ s[1] = now
  BY <1>2, <1>3
<1>5. Window \in Nat \ {0} /\ Limit \in Nat \ {0}
  BY LimitAssumption
<1>6. Spaced(t, s)
  BY <1>2, <1>4, <1>5 DEF Spaced
<1>7. EndsIn(t, s, 1, now + Window)
  BY <1>2, <1>4 DEF EndsIn
<1> QED BY <1>1, <1>2, <1>4, <1>6, <1>7

\* No 2 * Limit + 1 admissions fall within a window's length.
LEMMA SpacedBound ==
  ASSUME NEW times \in Seq(Nat), NEW start \in [DOMAIN times -> Nat], Spaced(times, start),
         Len(times) = Recent
  PROVE  times[Recent] - times[1] >= Window
<1>1. Limit \in Nat \ {0} /\ Recent = 2 * Limit + 1 /\ Window \in Nat
  BY LimitAssumption DEF Recent
<1>2. DOMAIN times = 1..Recent /\ \A i \in 1..Recent : times[i] \in Nat /\ start[i] \in Nat
  <2>1. DOMAIN times = 1..Len(times) /\ \A i \in DOMAIN times : times[i] \in Nat
    BY StoreFacts
  <2> QED BY <2>1
<1>3. PICK mid, last : mid = 1 + Limit /\ last = mid + Limit
  OBVIOUS
<1>4. /\ 1 \in 1..Recent /\ mid \in 1..Recent /\ last \in 1..Recent /\ last = Recent
      /\ 1 < mid /\ mid < last /\ 1 + Limit <= Len(times) /\ mid + Limit <= Len(times)
  BY <1>1, <1>3
<1>5. start[1] # start[mid] /\ start[mid] # start[last]
  BY <1>2, <1>3, <1>4 DEF Spaced
<1>6. times[1] <= start[mid]
  BY <1>2, <1>4, <1>5 DEF Spaced
<1>7. start[mid] + Window <= start[last]
  BY <1>2, <1>4, <1>5 DEF Spaced
<1>8. start[last] <= times[last]
  BY <1>2, <1>4 DEF Spaced
<1> QED BY <1>1, <1>2, <1>4, <1>6, <1>7, <1>8

\* The admissions of a window that is full, since it began.
LEMMA WindowFull ==
  ASSUME NEW times \in Seq(Nat), NEW start \in [DOMAIN times -> Nat], Spaced(times, start),
         NEW resetAt \in Nat, EndsIn(times, start, Limit, resetAt)
  PROVE  Cardinality({i \in DOMAIN times : times[i] >= resetAt - Window}) >= Limit
<1>1. Limit \in Nat \ {0} /\ Window \in Nat
  BY LimitAssumption
<1>2. PICK l \in Nat : l = Len(times) /\ DOMAIN times = 1..l /\ \A i \in 1..l : times[i] \in Nat /\ start[i] \in Nat
  <2>1. Len(times) \in Nat /\ DOMAIN times = 1..Len(times) /\ \A i \in DOMAIN times : times[i] \in Nat
    BY StoreFacts
  <2> QED BY <2>1
<1>3. /\ l >= Limit /\ resetAt = start[l] + Window
      /\ \A i \in 1..l : start[i] = start[l] <=> i > l - Limit
  BY <1>2 DEF EndsIn
<1>4. PICK full : full = {i \in DOMAIN times : times[i] >= resetAt - Window}
  OBVIOUS
<1>5. IsFiniteSet(full)
  <2>1. IsFiniteSet(1..l)
    BY FS_Interval
  <2>2. full \in SUBSET (1..l)
    BY <1>2, <1>4
  <2> QED BY <2>1, <2>2, FS_Subset
<1>6. (l - Limit + 1)..l \subseteq full
  <2>1. ASSUME NEW i \in (l - Limit + 1)..l PROVE i \in full
    <3>1. i \in 1..l /\ i > l - Limit /\ l \in 1..l
      BY <1>1, <1>3
    <3>2. start[i] = start[l] /\ start[i] <= times[i]
      BY <1>2, <1>3, <3>1 DEF Spaced
    <3> QED BY <1>1, <1>2, <1>3, <1>4, <3>1, <3>2
  <2> QED BY <2>1
<1>7. Cardinality((l - Limit + 1)..l) = Limit
  <2>1. l - Limit + 1 \in Int /\ l \in Int /\ ~(l - Limit + 1 > l) /\ l - (l - Limit + 1) + 1 = Limit
    BY <1>1
  <2> QED BY <2>1, FS_Interval
<1>8. Cardinality((l - Limit + 1)..l) <= Cardinality(full) /\ Cardinality(full) \in Nat
  BY <1>5, <1>6, FS_Subset, FS_CardinalityType
<1> QED BY <1>1, <1>4, <1>7, <1>8

-----------------------------------------------------------------------------
(* One step *)

ClientSound(c) == HistorySound(c) /\ RefusalHolds(c) /\ RefusalSound(c)

LimitTypes ==
  /\ mode \in {"proxies", "hops"} /\ backend \in {"memory", "redis"} /\ tick \in Nat
  /\ pending \in [Clients -> Nat \cup {None}] /\ retryAt \in [Clients -> Nat] /\ refusal \in [Clients -> Nat]
  /\ admitted \in [Clients -> Seq(Nat)]
  /\ fate \in [Clients -> {"kept", "evicted", "crowded", "leftover"}]

\* The counter of a client whose turn it is not is as it was, or gone: because it had
\* lapsed, or, in memory, to make room.
Untouched(v) ==
  /\ fate'[v] = fate[v] /\ (Counted(entries', v) <=> Counted(entries, v))
  /\ Counted(entries, v) => Counter(entries', v) = Counter(entries, v)
Removed(v) ==
  /\ backend = "memory" /\ Counted(entries, v) /\ ~Counted(entries', v)
  /\ \/ Lapsed(Counter(entries, v)) /\ fate'[v] = fate[v]
     \/ /\ fate'[v] \in {"evicted", "crowded"}
        /\ Counter(entries, v).count > Limit => fate'[v] = "crowded"

\* Either way what is said of it holds on.
LEMMA Bystander ==
  ASSUME LimitTypes, CountersSound, NEW v \in Clients, ClientSound(v),
         UNCHANGED <<backend, tick>>, admitted'[v] = admitted[v], refusal'[v] = refusal[v],
         pending'[v] = pending[v], retryAt'[v] = retryAt[v],
         Untouched(v) \/ Removed(v)
  PROVE  ClientSound(v)'
<1>1. PICK times, e : times = admitted[v] /\ e = Counter(entries, v)
  OBVIOUS
<1>2. /\ times \in Seq(Nat) /\ refusal[v] \in Nat /\ tick \in Nat
      /\ Limit \in Nat \ {0}
  BY <1>1, LimitAssumption DEF LimitTypes
<1>3. PICK start \in [DOMAIN times -> Nat] : InWindows(v, start)
  BY <1>1 DEF ClientSound, HistorySound
<1>4. /\ Len(times) <= Recent /\ \A i \in DOMAIN times : times[i] <= tick
      /\ fate[v] \in {"evicted", "crowded"} => ~Counted(entries, v)
      /\ fate[v] = "leftover" => /\ backend = "redis" /\ times = <<>> /\ Counted(entries, v)
                                 /\ e.count >= Limit
                                 /\ e.resetAt # NoTtl => e.count > Limit
  BY <1>1 DEF ClientSound, HistorySound
<1>5. /\ Spaced(times, start)
      /\ fate[v] = "kept" =>
           IF Counted(entries, v) THEN EndsIn(times, start, Fewer(e.count, Limit), e.resetAt)
           ELSE times # <<>> => start[Len(times)] + Window <= tick
  BY <1>1, <1>3 DEF InWindows
<1>6. tick < refusal[v] => \/ fate[v] = "crowded"
                           \/ Counted(entries, v) /\ e.count > Limit /\ e.resetAt = refusal[v]
  BY <1>1 DEF ClientSound, RefusalHolds
<1>7. CASE Untouched(v)
  <2>1. HistorySound(v)'
    BY <1>1, <1>3, <1>4, <1>5, <1>7 DEF Untouched, HistorySound, InWindows
  <2>2. RefusalHolds(v)'
    BY <1>7 DEF Untouched, ClientSound, RefusalHolds
  <2>3. RefusalSound(v)'
    BY <1>7 DEF Untouched, ClientSound, RefusalSound
  <2> QED BY <2>1, <2>2, <2>3 DEF ClientSound
<1>8. CASE Removed(v)
  <2>1. fate[v] # "leftover" /\ ~(fate[v] \in {"evicted", "crowded"})
    BY <1>4, <1>8 DEF Removed
  <2>2. fate[v] = "kept"
    BY <2>1 DEF LimitTypes
  <2>3. ~Counted(entries', v) /\ fate'[v] # "leftover"
    BY <1>8, <2>2 DEF Removed
  <2>4. fate'[v] = "kept" => (times # <<>> => start[Len(times)] + Window <= tick)
    <3>1. CASE fate'[v] = "kept"
      <4>1. e.resetAt <= tick
        BY <1>1, <1>8, <3>1 DEF Removed, Lapsed
      <4>2. e.resetAt = start[Len(times)] + Window
        BY <1>5, <1>8, <2>2 DEF Removed, EndsIn
      <4> QED BY <4>1, <4>2
    <3> QED BY <3>1
  <2>5. InWindows(v, start)'
    BY <1>1, <1>5, <2>3, <2>4 DEF InWindows
  <2>6. HistorySound(v)'
    BY <1>1, <1>3, <1>4, <2>3, <2>5 DEF HistorySound
  <2>7. RefusalHolds(v)'
    <3>1. tick < refusal[v] => fate'[v] = "crowded"
      <4>1. CASE Lapsed(e)
        <5>1. e.resetAt <= tick
          BY <4>1 DEF Lapsed
        <5>2. ASSUME tick < refusal[v] PROVE FALSE
          <6>1. e.resetAt = refusal[v]
            BY <1>6, <2>2, <5>2
          <6> QED BY <1>2, <5>1, <5>2, <6>1
        <5> QED BY <5>2
      <4>2. CASE ~Lapsed(e)
        BY <1>1, <1>6, <1>8, <2>2, <4>2 DEF Removed
      <4> QED BY <4>1, <4>2
    <3>2. pending[v] # None => IF backend = "memory" THEN pending[v] = refusal[v] ELSE tick + pending[v] >= refusal[v]
      BY DEF ClientSound, RefusalHolds
    <3> QED BY <3>1, <3>2 DEF RefusalHolds
  <2>8. RefusalSound(v)'
    BY <2>2 DEF ClientSound, RefusalSound
  <2> QED BY <2>6, <2>7, <2>8 DEF ClientSound
<1> QED BY <1>7, <1>8

\* A window ends after the tick it begins in.
LEMMA EndsLater ==
  ASSUME NEW t \in Nat
  PROVE  t + Window \in Nat /\ t + Window > t /\ t + Window # 0
<1>1. Window \in Nat \ {0}
  BY LimitAssumption
<1> QED BY <1>1

\* Each counter has a key, a count and an end.
LEMMA CountersIn ==
  ASSUME CountersSound, NEW x \in In(entries), x.resetAt = NoTtl
  PROVE  backend = "redis" /\ x.key \in Clients /\ fate[x.key] = "leftover"
<1>1. PICK i \in DOMAIN entries : entries[i] = x
  BY DEF In
<1> QED BY <1>1 DEF CountersSound

\* increment() leaves the counters sound, and the other clients untouched or removed.
LEMMA OthersAfter ==
  ASSUME LimitTypes, CountersSound, NEW k \in Clients \cup Proxies,
         entries' = Increment(k), UNCHANGED <<backend, tick>>,
         \A v \in Clients : v # k => fate'[v] = IF v \in Deprived(entries') THEN Lost(v) ELSE fate[v],
         \A v \in Clients : v # k => fate[v] # "leftover" \/ Counted(entries, v)
  PROVE  /\ CountersSound'
         /\ \A v \in Clients : v # k => Untouched(v) \/ Removed(v)
<1>1. /\ entries \in Seq(CounterRec) /\ Unique(entries) /\ tick \in Nat /\ backend \in {"memory", "redis"}
      /\ \A x \in In(entries) : x.resetAt = NoTtl =>
           backend = "redis" /\ x.key \in Clients /\ fate[x.key] = "leftover"
  <2>1. tick \in Nat /\ backend \in {"memory", "redis"}
    BY DEF LimitTypes
  <2>2. entries \in Seq(CounterRec) /\ Unique(entries)
    BY DEF CountersSound, CounterRec, Unique
  <2>3. \A x \in In(entries) : x.resetAt = NoTtl =>
           backend = "redis" /\ x.key \in Clients /\ fate[x.key] = "leftover"
    BY CountersIn
  <2> QED BY <2>1, <2>2, <2>3
<1>2. PICK t : t = entries'
  OBVIOUS
<1>3. PICK r : r = Counter(t, k)
  OBVIOUS
<1>4. /\ t \in Seq(CounterRec) /\ Unique(t) /\ Counted(t, k) /\ r \in In(t) /\ r.key = k
      /\ \/ /\ Counted(entries, k) /\ Counter(entries, k).resetAt # NoTtl
            /\ r.resetAt = Counter(entries, k).resetAt
         \/ r.resetAt = tick + Window
      /\ \A x \in In(t) : x = r \/ (x \in In(entries) /\ x.key # k)
      /\ \A x \in In(entries) : x.key # k =>
           \/ x \in In(t)
           \/ backend = "memory" /\ (Lapsed(x) \/ (x.count > Limit => Crowded(x.key)))
  BY <1>1, <1>2, <1>3, IncrementFacts
<1>5. r.resetAt # NoTtl
  <2>1. Window \in Nat \ {0} /\ tick \in Nat
    BY <1>1, LimitAssumption
  <2>2. tick + Window # 0
    BY <2>1, EndsLater
  <2> QED BY <1>4, <2>2 DEF NoTtl
<1>6. ASSUME NEW v \in Clients, v # k PROVE Untouched(v) \/ Removed(v)
  <2>1. PICK e : e = Counter(entries, v)
    OBVIOUS
  <2>2. CASE ~Counted(entries, v)
    <3>1. ~Counted(t, v)
      BY <1>1, <1>4, <1>6, <2>2, CounterFacts
    <3>2. v \notin Deprived(t)
      BY <2>2 DEF Deprived
    <3> QED BY <1>2, <1>6, <2>2, <3>1, <3>2 DEF Untouched
  <2>3. CASE Counted(entries, v)
    <3>1. e \in In(entries) /\ e.key = v
      BY <1>1, <2>1, <2>3, CounterFacts
    <3>2. CASE e \in In(t)
      <4>1. Counted(t, v) /\ Counter(t, v) = e
        BY <1>4, <3>1, <3>2, CounterFacts
      <4>2. v \notin Deprived(t)
        BY <4>1 DEF Deprived
      <4> QED BY <1>2, <1>6, <2>1, <2>3, <4>1, <4>2 DEF Untouched
    <3>3. CASE e \notin In(t)
      <4>1. ~Counted(t, v)
        <5>1. ASSUME NEW x \in In(t), x.key = v PROVE FALSE
          <6>1. x \in In(entries)
            BY <1>4, <1>6, <5>1
          <6>2. x = e
            BY <1>1, <2>1, <5>1, <6>1, CounterFacts
          <6> QED BY <3>3, <5>1, <6>2
        <5> QED BY <1>4, <5>1, CounterFacts
      <4>2. backend = "memory" /\ (Lapsed(e) \/ (e.count > Limit => Crowded(v)))
        BY <1>4, <1>6, <3>1, <3>3
      <4>3. CASE Lapsed(e)
        <5>1. v \notin Deprived(t)
          BY <2>1, <4>3 DEF Deprived
        <5> QED BY <1>2, <1>6, <2>1, <2>3, <4>1, <4>2, <4>3, <5>1 DEF Removed
      <4>4. CASE ~Lapsed(e)
        <5>1. v \in Deprived(t)
          BY <2>1, <2>3, <4>1, <4>4 DEF Deprived
        <5>2. fate'[v] = Lost(v)
          BY <1>2, <1>6, <5>1
        <5> QED BY <1>2, <2>1, <2>3, <4>1, <4>2, <4>4, <5>2 DEF Removed, Lost
      <4> QED BY <4>3, <4>4
    <3> QED BY <3>2, <3>3
  <2> QED BY <2>2, <2>3
<1>7. ASSUME NEW x \in In(t), x.resetAt = NoTtl
      PROVE  backend = "redis" /\ x.key \in Clients /\ fate'[x.key] = "leftover"
  <2>1. x \in In(entries) /\ x.key # k
    BY <1>4, <1>5, <1>7
  <2>2. backend = "redis" /\ x.key \in Clients /\ fate[x.key] = "leftover"
    BY <1>1, <1>7, <2>1
  <2>3. Untouched(x.key)
    BY <1>6, <2>1, <2>2 DEF Removed
  <2> QED BY <2>2, <2>3 DEF Untouched
<1>8. CountersSound'
  <2>1. \A i \in DOMAIN t : t[i] \in In(t)
    BY DEF In
  <2>2. /\ t \in Seq([key : Clients \cup Proxies, count : Nat \ {0}, resetAt : Nat])
        /\ \A i, j \in DOMAIN t : t[i].key = t[j].key => i = j
    BY <1>4 DEF CounterRec, Unique
  <2>3. \A i \in DOMAIN t : t[i].resetAt = NoTtl =>
          backend = "redis" /\ t[i].key \in Clients /\ fate'[t[i].key] = "leftover"
    BY <1>7, <2>1
  <2> QED BY <1>2, <2>2, <2>3 DEF CountersSound
<1> QED BY <1>6, <1>8

\* What counting a request of a client means for the client itself.
LEMMA CountEffects ==
  ASSUME LimitTypes, CountersSound, NEW c \in Clients, NEW k, Count(c, k), Counted(entries', c),
         NEW r, r = Counter(Increment(k), k)
  PROVE  /\ pending[c] = None /\ entries' = Increment(k) /\ UNCHANGED <<mode, backend, tick>>
         /\ retryAt'[c] = 0
         /\ r.count <= Limit => pending'[c] = None
         /\ ~(r.count <= Limit) =>
              /\ pending'[c] = IF backend = "memory" THEN r.resetAt ELSE r.resetAt - tick
              /\ admitted'[c] = admitted[c] /\ refusal'[c] = r.resetAt /\ fate'[c] = fate[c]
         /\ r.count <= Limit /\ fate[c] = "kept" =>
              /\ admitted'[c] = LastOf(Append(admitted[c], tick)) /\ refusal'[c] = refusal[c]
              /\ fate'[c] = "kept"
         /\ r.count <= Limit /\ fate[c] # "kept" =>
              admitted'[c] = <<tick>> /\ refusal'[c] = 0 /\ fate'[c] = "kept"
<1>1. /\ pending[c] = None /\ entries' = Increment(k) /\ UNCHANGED <<mode, backend, tick>>
  BY DEF Count
<1>2. c \notin Deprived(entries')
  BY DEF Deprived
<1>3. fate'[c] = IF r.count <= Limit /\ fate[c] # "kept" THEN "kept" ELSE fate[c]
  BY <1>1, <1>2 DEF Count
<1>4. retryAt'[c] = 0
  BY DEF Count, LimitTypes
<1>5. pending'[c] = CASE r.count <= Limit -> None
                      [] ~(r.count <= Limit) /\ backend = "memory" -> r.resetAt
                      [] OTHER -> r.resetAt - tick
  BY DEF Count, LimitTypes
<1>6. admitted'[c] = CASE ~(r.count <= Limit) -> admitted[c]
                       [] r.count <= Limit /\ fate[c] # "kept" -> <<tick>>
                       [] OTHER -> LastOf(Append(admitted[c], tick))
  BY DEF Count, LimitTypes
<1>7. refusal'[c] = CASE ~(r.count <= Limit) -> r.resetAt
                      [] r.count <= Limit /\ fate[c] # "kept" -> 0
                      [] OTHER -> refusal[c]
  BY DEF Count, LimitTypes
<1> QED BY <1>1, <1>3, <1>4, <1>5, <1>6, <1>7

\* It finds the client as the invariant says, and a refused one goes through before its
\* window ends only if its counter was crowded out.
LEMMA OwnStep ==
  ASSUME LimitTypes, CountersSound, NEW c \in Clients, ClientSound(c), Count(c, c)
  PROVE  /\ ClientSound(c)'
         /\ pending'[c] \in Nat \cup {None} /\ retryAt'[c] \in Nat /\ refusal'[c] \in Nat
         /\ admitted'[c] \in Seq(Nat) /\ fate'[c] \in {fate[c], "kept"}
         /\ admitted'[c] # admitted[c] /\ tick < refusal[c] => fate[c] = "crowded"
<1>1. PICK t : t = Increment(c)
  OBVIOUS
<1>2. PICK r : r = Counter(t, c)
  OBVIOUS
<1>3. PICK e : e = Counter(entries, c)
  OBVIOUS
<1>4. /\ entries \in Seq(CounterRec) /\ Unique(entries) /\ tick \in Nat /\ backend \in {"memory", "redis"}
      /\ \A x \in In(entries) : x.resetAt = NoTtl => backend = "redis"
  <2>1. entries \in Seq(CounterRec) /\ Unique(entries)
    BY DEF CountersSound, CounterRec, Unique
  <2> QED BY <2>1, CountersIn DEF LimitTypes
<1>5. /\ t \in Seq(CounterRec) /\ Unique(t) /\ Counted(t, c) /\ r \in In(t) /\ r.key = c
      /\ \/ /\ Counted(entries, c) /\ e.resetAt # NoTtl /\ e.resetAt >= tick
            /\ backend = "memory" => ~Lapsed(e)
            /\ r.count = e.count + 1 /\ r.resetAt = e.resetAt
         \/ /\ Counted(entries, c) => e.resetAt # NoTtl /\ Lapsed(e)
            /\ r.count = 1 /\ r.resetAt = tick + Window
         \/ /\ Counted(entries, c) /\ e.resetAt = NoTtl
            /\ r.count = e.count + 1 /\ r.resetAt = tick + Window
  BY <1>1, <1>2, <1>3, <1>4, IncrementFacts
<1>6. /\ r.count \in Nat \ {0} /\ r.resetAt \in Nat
      /\ Counted(entries, c) => e.count \in Nat \ {0} /\ e.resetAt \in Nat
  <2>1. In(t) \subseteq CounterRec /\ In(entries) \subseteq CounterRec
    BY <1>4, <1>5, StoreFacts
  <2>2. Counted(entries, c) => e \in In(entries)
    BY <1>3, <1>4, CounterFacts
  <2> QED BY <1>5, <2>1, <2>2 DEF CounterRec
<1>7. entries' = t
  BY <1>1 DEF Count
<1>8. /\ pending[c] = None /\ backend' = backend /\ tick' = tick
      /\ retryAt'[c] = 0
      /\ r.count <= Limit => pending'[c] = None
      /\ ~(r.count <= Limit) =>
           /\ pending'[c] = IF backend = "memory" THEN r.resetAt ELSE r.resetAt - tick
           /\ admitted'[c] = admitted[c] /\ refusal'[c] = r.resetAt /\ fate'[c] = fate[c]
      /\ r.count <= Limit /\ fate[c] = "kept" =>
           /\ admitted'[c] = LastOf(Append(admitted[c], tick)) /\ refusal'[c] = refusal[c]
           /\ fate'[c] = "kept"
      /\ r.count <= Limit /\ fate[c] # "kept" =>
           admitted'[c] = <<tick>> /\ refusal'[c] = 0 /\ fate'[c] = "kept"
  BY <1>1, <1>2, <1>5, <1>7, CountEffects
<1>9. PICK times : times = admitted[c]
  OBVIOUS
<1>10. /\ times \in Seq(Nat) /\ refusal[c] \in Nat
       /\ fate[c] \in {"kept", "evicted", "crowded", "leftover"}
       /\ Limit \in Nat \ {0} /\ Window \in Nat \ {0}
  BY <1>9, LimitAssumption DEF LimitTypes
<1>11. PICK start \in [DOMAIN times -> Nat] : InWindows(c, start)
  BY <1>9 DEF ClientSound, HistorySound
<1>12. /\ Spaced(times, start)
       /\ fate[c] = "kept" =>
           IF Counted(entries, c) THEN EndsIn(times, start, Fewer(e.count, Limit), e.resetAt)
           ELSE times # <<>> => start[Len(times)] + Window <= tick
  BY <1>3, <1>9, <1>11 DEF InWindows
<1>13. /\ Len(times) <= Recent /\ \A i \in DOMAIN times : times[i] <= tick
       /\ fate[c] \in {"evicted", "crowded"} => ~Counted(entries, c)
       /\ fate[c] = "leftover" => /\ backend = "redis" /\ times = <<>> /\ Counted(entries, c)
                                  /\ e.count >= Limit
                                  /\ e.resetAt # NoTtl => e.count > Limit
  BY <1>3, <1>9 DEF ClientSound, HistorySound
<1>14. tick < refusal[c] => \/ fate[c] = "crowded"
                            \/ Counted(entries, c) /\ e.count > Limit /\ e.resetAt = refusal[c]
  BY <1>3 DEF ClientSound, RefusalHolds
<1>15. ASSUME NEW x \in In(entries), x.resetAt = NoTtl PROVE fate[x.key] = "leftover"
  BY <1>15, CountersIn
<1>16. fate[c] # "leftover" /\ Counted(entries, c) => e.resetAt # NoTtl
  <2>1. Counted(entries, c) => e \in In(entries) /\ e.key = c
    BY <1>3, <1>4, CounterFacts
  <2> QED BY <1>15, <2>1
\* A window that a client was refused in does not let it through.
<1>17. r.count <= Limit /\ tick < refusal[c] => fate[c] = "crowded"
  <2>1. ASSUME r.count <= Limit, Counted(entries, c), e.count > Limit, e.resetAt = refusal[c], tick < refusal[c]
        PROVE  FALSE
    <3>1. ~(r.count = e.count + 1)
      BY <1>6, <1>10, <2>1
    <3>2. ~Lapsed(e)
      BY <1>4, <1>10, <2>1 DEF Lapsed
    <3> QED BY <1>5, <2>1, <3>1, <3>2
  <2> QED BY <1>14, <2>1
<1>18. CASE ~(r.count <= Limit)
  <2>1. /\ Counted(entries, c) /\ r.count = e.count + 1 /\ e.count >= Limit
        /\ fate[c] \in {"kept", "leftover"}
    <3>1. r.count # 1
      BY <1>10, <1>18
    <3>2. Counted(entries, c) /\ r.count = e.count + 1
      BY <1>5, <3>1
    <3>3. e.count >= Limit
      BY <1>6, <1>10, <1>18, <3>2
    <3> QED BY <1>10, <1>13, <3>2, <3>3
  <2>2. fate[c] = "kept" => /\ r.resetAt = e.resetAt /\ Fewer(e.count, Limit) = Limit
                            /\ Fewer(r.count, Limit) = Limit
                            /\ EndsIn(times, start, Limit, r.resetAt)
    <3>1. CASE fate[c] = "kept"
      <4>1. r.resetAt = e.resetAt
        <5>1. r.count # 1 /\ e.resetAt # NoTtl
          BY <1>10, <1>16, <1>18, <2>1, <3>1
        <5> QED BY <1>5, <5>1
      <4>2. Fewer(e.count, Limit) = Limit /\ Fewer(r.count, Limit) = Limit
        BY <1>6, <1>10, <1>18, <2>1 DEF Fewer
      <4> QED BY <1>12, <2>1, <3>1, <4>1, <4>2
    <3> QED BY <3>1
  <2>3. HistorySound(c)'
    <3>1. InWindows(c, start)'
      BY <1>2, <1>5, <1>7, <1>8, <1>9, <1>12, <1>18, <2>2 DEF InWindows
    <3>2. fate[c] = "leftover" => r.count >= Limit /\ (r.resetAt # NoTtl => r.count > Limit)
      BY <1>6, <1>10, <1>18
    <3>3. fate[c] = "leftover" => backend = "redis" /\ times = <<>>
      BY <1>13
    <3> QED BY <1>2, <1>5, <1>7, <1>8, <1>9, <1>11, <1>13, <1>18, <2>1, <3>1, <3>2, <3>3 DEF HistorySound
  <2>4. pending'[c] \in Nat /\ (backend = "memory" => pending'[c] = r.resetAt)
        /\ (backend # "memory" => tick + pending'[c] = r.resetAt)
    <3>1. backend # "memory" => r.resetAt >= tick
      <4>1. tick + Window >= tick
        BY <1>4, <1>10
      <4> QED BY <1>5, <4>1
    <3>2. CASE backend = "memory"
      <4>1. pending'[c] = r.resetAt
        BY <1>8, <1>18, <3>2
      <4> QED BY <1>6, <3>2, <4>1
    <3>3. CASE backend # "memory"
      <4>1. pending'[c] = r.resetAt - tick
        BY <1>8, <1>18, <3>3
      <4> QED BY <1>4, <1>6, <3>1, <3>3, <4>1
    <3> QED BY <3>2, <3>3
  <2>5. RefusalHolds(c)'
    <3>1. r.count > Limit /\ (backend # "memory" => tick + pending'[c] >= r.resetAt)
      BY <1>6, <1>10, <1>18, <2>4
    <3> QED BY <1>2, <1>5, <1>7, <1>8, <1>18, <2>4, <3>1 DEF RefusalHolds
  <2>6. RefusalSound(c)'
    <3>1. fate[c] = "kept" =>
            Cardinality({i \in DOMAIN times : times[i] >= r.resetAt - Window}) >= Limit
      BY <1>6, <1>10, <1>11, <1>12, <2>2, WindowFull
    <3> QED BY <1>8, <1>9, <1>18, <2>1, <3>1 DEF RefusalSound
  <2> QED BY <1>6, <1>8, <1>9, <1>10, <1>18, <2>3, <2>4, <2>5, <2>6 DEF ClientSound
<1>19. CASE r.count <= Limit /\ fate[c] = "kept"
  <2>1. PICK n \in 1..Limit : n = r.count
    BY <1>6, <1>10, <1>19
  <2>2. \E w \in Nat :
          /\ r.resetAt = w + Window /\ w <= tick
          /\ \/ n > 1 /\ EndsIn(times, start, n - 1, w + Window)
             \/ /\ n = 1 /\ w = tick
                /\ times # <<>> => start[Len(times)] + Window <= tick
    <3>1. CASE Counted(entries, c) /\ r.count = e.count + 1 /\ r.resetAt = e.resetAt
      <4>1. n > 1 /\ n - 1 = e.count /\ e.count < Limit
        <5>1. PICK before : before = e.count
          OBVIOUS
        <5>2. before \in Nat \ {0}
          BY <1>6, <3>1, <5>1
        <5>3. n = before + 1
          BY <2>1, <3>1, <5>1
        <5>4. n \in Nat /\ n <= Limit
          BY <1>10, <2>1
        <5>5. n > 1 /\ n - 1 = before /\ before < Limit
          BY <1>10, <5>2, <5>3, <5>4
        <5> QED BY <5>1, <5>5
      <4>2. Fewer(e.count, Limit) = n - 1
        BY <1>6, <1>10, <4>1 DEF Fewer
      <4>3. EndsIn(times, start, n - 1, e.resetAt)
        BY <1>12, <1>19, <3>1, <4>2
      <4>4. Len(times) \in DOMAIN times
        <5>1. Len(times) \in Nat /\ DOMAIN times = 1..Len(times)
          BY <1>10, StoreFacts
        <5>2. Len(times) >= n - 1
          BY <4>3 DEF EndsIn
        <5> QED BY <4>1, <5>1, <5>2
      <4>5. PICK w \in Nat : w = start[Len(times)]
        BY <1>11, <4>4
      <4>6. e.resetAt = w + Window
        BY <4>3, <4>5 DEF EndsIn
      <4>7. w <= tick
        <5>1. w <= times[Len(times)] /\ times[Len(times)] <= tick /\ times[Len(times)] \in Nat
          BY <1>10, <1>12, <1>13, <4>4, <4>5, StoreFacts DEF Spaced
        <5> QED BY <1>4, <5>1
      <4> QED BY <3>1, <4>1, <4>3, <4>6, <4>7
    <3>2. CASE r.count = 1 /\ r.resetAt = tick + Window /\ (Counted(entries, c) => Lapsed(e))
      <4>1. times # <<>> => start[Len(times)] + Window <= tick
        <5>1. CASE Counted(entries, c)
          BY <1>12, <1>19, <3>2, <5>1 DEF EndsIn, Lapsed
        <5>2. CASE ~Counted(entries, c)
          BY <1>12, <1>19, <5>2
        <5> QED BY <5>1, <5>2
      <4>2. n = 1 /\ tick <= tick
        BY <1>4, <2>1, <3>2
      <4> QED BY <1>4, <3>2, <4>1, <4>2
    <3> QED BY <1>5, <1>16, <1>19, <3>1, <3>2
  <2>3. PICK w \in Nat :
          /\ r.resetAt = w + Window /\ w <= tick
          /\ \/ n > 1 /\ EndsIn(times, start, n - 1, w + Window)
             \/ /\ n = 1 /\ w = tick
                /\ times # <<>> => start[Len(times)] + Window <= tick
    BY <2>2
  <2>4. PICK more : more = Append(times, tick)
    OBVIOUS
  <2>5. /\ more \in Seq(Nat) /\ Len(more) <= Recent + 1
        /\ \A i \in DOMAIN more : more[i] <= tick
    <3>1. /\ more \in Seq(Nat) /\ Len(more) = Len(times) + 1 /\ Len(times) \in Nat
          /\ DOMAIN times = 1..Len(times)
          /\ \A i \in 1..Len(times) : more[i] = times[i]
          /\ more[Len(times) + 1] = tick
      BY <1>4, <1>10, <2>4, AppendProperties, LenProperties
    <3>2. DOMAIN more = 1..(Len(times) + 1)
      BY <3>1, LenProperties
    <3>3. Recent \in Nat
      BY <1>10 DEF Recent
    <3>4. Len(more) <= Recent + 1
      BY <1>13, <3>1, <3>3
    <3>5. ASSUME NEW i \in DOMAIN more PROVE more[i] <= tick
      <4>1. CASE i \in 1..Len(times)
        BY <1>13, <3>1, <4>1
      <4>2. CASE i = Len(times) + 1
        BY <1>4, <3>1, <4>2
      <4> QED BY <3>1, <3>2, <4>1, <4>2
    <3> QED BY <3>1, <3>4, <3>5
  <2>6. PICK start2 \in [DOMAIN more -> Nat] : Spaced(more, start2) /\ EndsIn(more, start2, n, r.resetAt)
    <3>1. \E s \in [DOMAIN Append(times, tick) -> Nat] :
             Spaced(Append(times, tick), s) /\ EndsIn(Append(times, tick), s, n, w + Window)
      <4>1. Spaced(times, start) /\ tick \in Nat /\ times \in Seq(Nat)
            /\ \A i \in DOMAIN times : times[i] <= tick
        BY <1>4, <1>10, <1>12, <1>13
      <4> QED BY <1>11, <2>3, <4>1, SpacedAppend
    <3> QED BY <2>3, <2>4, <3>1
  <2>7. PICK last : last = LastOf(more)
    OBVIOUS
  <2>8. /\ last \in Seq(Nat) /\ Len(last) <= Recent
        /\ \A i \in DOMAIN last : \E j \in DOMAIN more : last[i] = more[j]
        /\ \E s \in [DOMAIN last -> Nat] : Spaced(last, s) /\ EndsIn(last, s, n, r.resetAt)
    BY <2>5, <2>6, <2>7, SpacedLast
  <2>9. PICK s \in [DOMAIN last -> Nat] : Spaced(last, s) /\ EndsIn(last, s, n, r.resetAt)
    BY <2>8
  <2>10. admitted'[c] = last /\ refusal'[c] = refusal[c] /\ fate'[c] = "kept" /\ pending'[c] = None
    BY <1>8, <1>9, <1>19, <2>4, <2>7
  <2>11. Fewer(r.count, Limit) = n
    BY <1>10, <2>1 DEF Fewer
  <2>12. InWindows(c, s)'
    BY <1>2, <1>5, <1>7, <2>9, <2>10, <2>11 DEF InWindows
  <2>13. HistorySound(c)'
    BY <1>8, <2>5, <2>8, <2>10, <2>12 DEF HistorySound
  <2>14. RefusalHolds(c)' /\ RefusalSound(c)'
    BY <1>8, <1>17, <1>19, <2>10 DEF RefusalHolds, RefusalSound
  <2> QED BY <1>8, <1>10, <1>17, <1>19, <2>8, <2>10, <2>13, <2>14 DEF ClientSound
<1>20. CASE r.count <= Limit /\ fate[c] # "kept"
  <2>1. r.count = 1 /\ r.resetAt = tick + Window
    <3>1. fate[c] # "leftover" => ~Counted(entries, c)
      BY <1>10, <1>13, <1>20
    <3>2. fate[c] = "leftover" => ~(r.count = e.count + 1)
      BY <1>6, <1>10, <1>13, <1>20
    <3>3. CASE fate[c] # "leftover"
      BY <1>5, <3>1, <3>3
    <3>4. CASE fate[c] = "leftover"
      BY <1>5, <3>2, <3>4
    <3> QED BY <3>3, <3>4
  <2>2. PICK new : new = <<tick>>
    OBVIOUS
  <2>3. /\ new \in Seq(Nat) /\ Len(new) = 1 /\ DOMAIN new = {1} /\ new[1] = tick
        /\ \E s \in [DOMAIN new -> Nat] : Spaced(new, s) /\ EndsIn(new, s, 1, tick + Window)
    BY <1>4, <2>2, SpacedAnew
  <2>4. PICK s \in [DOMAIN new -> Nat] : Spaced(new, s) /\ EndsIn(new, s, 1, tick + Window)
    BY <2>3
  <2>5. admitted'[c] = new /\ refusal'[c] = 0 /\ fate'[c] = "kept" /\ pending'[c] = None
    BY <1>8, <1>20, <2>2
  <2>6. Fewer(r.count, Limit) = 1
    BY <1>10, <2>1 DEF Fewer
  <2>7. InWindows(c, s)'
    BY <1>2, <1>5, <1>7, <2>1, <2>4, <2>5, <2>6 DEF InWindows
  <2>8. 1 <= Recent /\ tick <= tick
    BY <1>4, <1>10 DEF Recent
  <2>9. HistorySound(c)'
    BY <1>8, <2>3, <2>5, <2>7, <2>8 DEF HistorySound
  <2>10. RefusalHolds(c)' /\ RefusalSound(c)'
    <3>1. ~(tick < 0)
      BY <1>4
    <3> QED BY <1>8, <2>5, <3>1 DEF RefusalHolds, RefusalSound
  <2> QED BY <1>8, <1>17, <1>20, <2>3, <2>5, <2>9, <2>10 DEF ClientSound
<1> QED BY <1>18, <1>19, <1>20

\* The invariant, in the terms of the lemmas.
LEMMA LimitParts == LimitInv <=> LimitTypes /\ CountersSound /\ \A c \in Clients : ClientSound(c)
BY DEF LimitInv, LimitTypes, ClientSound

\* The same, after a step.
LEMMA LimitPartsAfter == LimitTypes' /\ CountersSound' /\ (\A c \in Clients : ClientSound(c)') => LimitInv'
BY DEF LimitInv, LimitTypes, ClientSound

\* What Redis had in store before the limiter is still there.
LEMMA LeftoverCounted ==
  ASSUME NEW c \in Clients, ClientSound(c), fate[c] = "leftover"
  PROVE  Counted(entries, c)
BY DEF ClientSound, HistorySound

\* A client that asks nothing has one of the fates.
LEMMA FateAfter ==
  ASSUME LimitTypes, NEW v \in Clients, Untouched(v) \/ Removed(v)
  PROVE  fate'[v] \in {"kept", "evicted", "crowded", "leftover"}
BY DEF LimitTypes, Untouched, Removed

\* A request of a client, through the proxies or direct.
LEMMA RequestKeeps ==
  ASSUME LimitInv, NEW c \in Clients, Request(c)
  PROVE  /\ LimitInv'
         /\ \A v \in Clients : admitted'[v] # admitted[v] /\ tick < refusal[v] => fate[v] = "crowded"
<1>1. LimitTypes /\ CountersSound /\ \A v \in Clients : ClientSound(v)
  BY LimitParts
<1>2. Count(c, c)
  <2>1. PICK k \in KeysOf(c) : Count(c, k)
    BY DEF Request
  <2>2. k = c
    BY <1>1, OwnKey DEF LimitTypes
  <2> QED BY <2>1, <2>2
<1>3. /\ entries' = Increment(c) /\ UNCHANGED <<mode, backend, tick>>
      /\ pending' \in [Clients -> {pending'[v] : v \in Clients}]
      /\ retryAt' \in [Clients -> {retryAt'[v] : v \in Clients}]
      /\ refusal' \in [Clients -> {refusal'[v] : v \in Clients}]
      /\ admitted' \in [Clients -> {admitted'[v] : v \in Clients}]
      /\ fate' \in [Clients -> {fate'[v] : v \in Clients}]
  <2>1. PICK p : pending' = [pending EXCEPT ![c] = p]
    BY <1>2 DEF Count
  <2>2. PICK r : refusal' = [refusal EXCEPT ![c] = r]
    BY <1>2 DEF Count
  <2>3. PICK a : admitted' = [admitted EXCEPT ![c] = a]
    BY <1>2 DEF Count
  <2>4. PICK f : fate' = [v \in Clients |-> f[v]]
    BY <1>2 DEF Count
  <2>5. retryAt' = [retryAt EXCEPT ![c] = 0]
    BY <1>2 DEF Count
  <2>6. /\ pending \in [Clients -> Nat \cup {None}] /\ retryAt \in [Clients -> Nat]
        /\ refusal \in [Clients -> Nat] /\ admitted \in [Clients -> Seq(Nat)]
    BY <1>1 DEF LimitTypes
  <2>7. /\ pending' \in [Clients -> {pending'[v] : v \in Clients}]
        /\ retryAt' \in [Clients -> {retryAt'[v] : v \in Clients}]
        /\ refusal' \in [Clients -> {refusal'[v] : v \in Clients}]
        /\ admitted' \in [Clients -> {admitted'[v] : v \in Clients}]
        /\ fate' \in [Clients -> {fate'[v] : v \in Clients}]
    BY <2>1, <2>6, <2>2, <2>3, <2>4, <2>5
  <2> QED BY <1>2, <2>7 DEF Count
<1>4. ASSUME NEW v \in Clients, v # c
      PROVE  /\ pending'[v] = pending[v] /\ retryAt'[v] = retryAt[v] /\ refusal'[v] = refusal[v]
             /\ admitted'[v] = admitted[v]
             /\ fate'[v] = IF v \in Deprived(entries') THEN Lost(v) ELSE fate[v]
  BY <1>1, <1>2, <1>3, <1>4 DEF Count, LimitTypes
<1>5. /\ CountersSound'
      /\ \A v \in Clients : v # c => Untouched(v) \/ Removed(v)
  <2>1. \A v \in Clients : v # c => fate[v] # "leftover" \/ Counted(entries, v)
    BY <1>1, LeftoverCounted
  <2>2. \A v \in Clients : v # c => fate'[v] = IF v \in Deprived(entries') THEN Lost(v) ELSE fate[v]
    BY <1>4
  <2> QED BY <1>1, <1>3, <2>1, <2>2, OthersAfter
<1>6. /\ ClientSound(c)'
      /\ pending'[c] \in Nat \cup {None} /\ retryAt'[c] \in Nat /\ refusal'[c] \in Nat
      /\ admitted'[c] \in Seq(Nat) /\ fate'[c] \in {fate[c], "kept"}
      /\ admitted'[c] # admitted[c] /\ tick < refusal[c] => fate[c] = "crowded"
  BY <1>1, <1>2, OwnStep
<1>7. \A v \in Clients : ClientSound(v)'
  <2>1. ASSUME NEW v \in Clients, v # c PROVE ClientSound(v)'
    BY <1>1, <1>3, <1>4, <1>5, <2>1, Bystander
  <2> QED BY <1>6, <2>1
<1>8. LimitTypes'
  <2>1. \A v \in Clients : /\ pending'[v] \in Nat \cup {None} /\ retryAt'[v] \in Nat
                           /\ refusal'[v] \in Nat /\ admitted'[v] \in Seq(Nat)
    BY <1>1, <1>4, <1>6 DEF LimitTypes
  <2>2. \A v \in Clients : fate'[v] \in {"kept", "evicted", "crowded", "leftover"}
    <3>1. ASSUME NEW v \in Clients, v # c PROVE fate'[v] \in {"kept", "evicted", "crowded", "leftover"}
      BY <1>1, <1>5, <3>1, FateAfter
    <3>2. fate'[c] \in {"kept", "evicted", "crowded", "leftover"}
      BY <1>1, <1>6 DEF LimitTypes
    <3> QED BY <3>1, <3>2
  <2> QED BY <1>1, <1>3, <2>1, <2>2 DEF LimitTypes
<1>9. LimitInv'
  BY <1>5, <1>7, <1>8, LimitPartsAfter
<1> QED BY <1>4, <1>6, <1>9

\* A proxy's own request.
LEMMA OwnRequestKeeps ==
  ASSUME LimitInv, NEW p \in Proxies, OwnRequest(p)
  PROVE  LimitInv' /\ UNCHANGED admitted
<1>1. LimitTypes /\ CountersSound /\ \A v \in Clients : ClientSound(v)
  BY LimitParts
<1>2. /\ entries' = Increment(p) /\ UNCHANGED <<mode, backend, tick, pending, retryAt, admitted, refusal>>
      /\ fate' = [v \in Clients |-> IF v \in Deprived(entries') THEN Lost(v) ELSE fate[v]]
  BY ProxyKey DEF OwnRequest
<1>3. \A v \in Clients : v # p
  BY LimitAssumption
<1>4. /\ CountersSound'
      /\ \A v \in Clients : Untouched(v) \/ Removed(v)
  <2>1. \A v \in Clients : v # p => fate[v] # "leftover" \/ Counted(entries, v)
    BY <1>1, LeftoverCounted
  <2>2. \A v \in Clients : v # p => fate'[v] = IF v \in Deprived(entries') THEN Lost(v) ELSE fate[v]
    BY <1>2
  <2> QED BY <1>1, <1>2, <1>3, <2>1, <2>2, OthersAfter
<1>5. \A v \in Clients : ClientSound(v)'
  BY <1>1, <1>2, <1>4, Bystander
<1>6. LimitTypes'
  <2>1. \A v \in Clients : fate'[v] \in {"kept", "evicted", "crowded", "leftover"}
    BY <1>1, <1>4, FateAfter
  <2> QED BY <1>1, <1>2, <2>1 DEF LimitTypes
<1>7. LimitInv'
  BY <1>4, <1>5, <1>6, LimitPartsAfter
<1> QED BY <1>2, <1>7

\* Rounding up to seconds ends no earlier.
LEMMA CeilFacts ==
  ASSUME NEW d \in Nat, NEW s \in Nat \ {0}
  PROVE  ((d + s - 1) \div s) * s >= d /\ ((d + s - 1) \div s) \in Nat
<1>1. PICK a \in Nat : a = d + s - 1
  OBVIOUS
<1>2. PICK q \in Int : q = a \div s
  OBVIOUS
<1>3. q * s <= a /\ a < q * s + s /\ q >= 0
  BY <1>2
<1> QED BY <1>1, <1>2, <1>3

\* Retry-After leads past the end of the window, and into the future.
LEMMA RetryFacts ==
  ASSUME tick \in Nat, NEW resetAt \in Nat
  PROVE  /\ tick + RetryAfter(resetAt) * Second \in Nat
         /\ tick + RetryAfter(resetAt) * Second >= resetAt
<1>1. PICK s \in Nat \ {0} : s = Second
  BY LimitAssumption
<1>2. PICK w : w = (resetAt - tick + s - 1) \div s
  OBVIOUS
<1>3. PICK n : n = RetryAfter(resetAt)
  OBVIOUS
<1>4. n = IF w < 1 THEN 1 ELSE w
  BY <1>1, <1>2, <1>3 DEF RetryAfter
<1>5. CASE resetAt >= tick
  <2>1. PICK d \in Nat : d = resetAt - tick
    BY <1>5
  <2>2. w * s >= d /\ w \in Nat
    BY <1>1, <1>2, <2>1, CeilFacts
  <2>3. n \in Nat /\ (n = 1 \/ n = w)
    BY <1>4, <2>2
  <2>4. n * s \in Nat /\ n * s >= d
    <3>1. CASE n = w
      BY <1>1, <2>2, <3>1
    <3>2. CASE n # w
      <4>1. w = 0 /\ n = 1
        BY <1>4, <2>2, <3>2
      <4>2. w * s = 0
        BY <4>1
      <4>3. n * s = s
        BY <1>1, <4>1
      <4> QED BY <1>1, <2>2, <4>2, <4>3
    <3> QED BY <3>1, <3>2
  <2>5. PICK m \in Nat : m = n * s
    BY <2>4
  <2>6. tick + m \in Nat /\ tick + m >= resetAt
    BY <2>1, <2>4, <2>5
  <2> QED BY <1>1, <1>3, <2>5, <2>6
<1>6. CASE ~(resetAt >= tick)
  <2>1. w \in Int
    BY <1>1, <1>2
  <2>2. n \in Nat /\ n >= 1
    BY <1>4, <2>1
  <2>3. PICK m \in Nat : m = n * s
    BY <1>1, <2>2
  <2>4. tick + m \in Nat /\ tick + m >= resetAt
    BY <1>6, <2>3
  <2> QED BY <1>1, <1>3, <2>3, <2>4
<1> QED BY <1>5, <1>6

\* The 429 of a refused request.
LEMMA RefuseKeeps ==
  ASSUME LimitInv, NEW c \in Clients, Refuse(c)
  PROVE  LimitInv' /\ UNCHANGED admitted
<1>1. LimitTypes /\ CountersSound /\ \A v \in Clients : ClientSound(v)
  BY LimitParts
<1>2. PICK resetAt : resetAt = IF backend = "memory" THEN pending[c] ELSE tick + pending[c]
  OBVIOUS
<1>3. PICK at : at = tick + RetryAfter(resetAt) * Second
  OBVIOUS
<1>4. /\ pending[c] # None
      /\ pending' = [pending EXCEPT ![c] = None] /\ retryAt' = [retryAt EXCEPT ![c] = at]
      /\ UNCHANGED <<mode, backend, entries, tick, admitted, refusal, fate>>
  BY <1>2, <1>3 DEF Refuse
<1>5. pending[c] \in Nat /\ tick \in Nat /\ refusal[c] \in Nat
  BY <1>1, <1>4 DEF LimitTypes
<1>6. resetAt \in Nat /\ resetAt >= refusal[c]
  <2>1. IF backend = "memory" THEN pending[c] = refusal[c] ELSE tick + pending[c] >= refusal[c]
    BY <1>1, <1>4 DEF ClientSound, RefusalHolds
  <2> QED BY <1>2, <1>5, <2>1
<1>7. at \in Nat /\ at >= refusal[c]
  <2>1. at \in Nat /\ at >= resetAt
    BY <1>3, <1>5, <1>6, RetryFacts
  <2> QED BY <1>5, <1>6, <2>1
<1>8. /\ pending'[c] = None /\ retryAt'[c] = at
      /\ \A v \in Clients : v # c => pending'[v] = pending[v] /\ retryAt'[v] = retryAt[v]
  BY <1>1, <1>4 DEF LimitTypes
<1>9. ASSUME NEW v \in Clients PROVE ClientSound(v)'
  <2>1. HistorySound(v) /\ RefusalHolds(v) /\ RefusalSound(v)
    BY <1>1 DEF ClientSound
  <2>2. HistorySound(v)'
    BY <1>4, <2>1 DEF HistorySound, InWindows
  <2>3. RefusalHolds(v)'
    BY <1>4, <1>8, <2>1 DEF RefusalHolds
  <2>4. RefusalSound(v)'
    BY <1>4, <1>7, <1>8, <2>1 DEF RefusalSound
  <2> QED BY <2>2, <2>3, <2>4 DEF ClientSound
<1>10. LimitTypes'
  <2>1. pending' \in [Clients -> Nat \cup {None}] /\ retryAt' \in [Clients -> Nat]
    BY <1>1, <1>4, <1>7 DEF LimitTypes
  <2> QED BY <1>1, <1>4, <2>1 DEF LimitTypes
<1>11. CountersSound'
  BY <1>1, <1>4 DEF CountersSound
<1> QED BY <1>4, <1>9, <1>10, <1>11, LimitPartsAfter

\* Time passes.
LEMMA TickKeeps ==
  ASSUME LimitInv, LimitTick
  PROVE  LimitInv' /\ UNCHANGED admitted
<1>1. LimitTypes /\ CountersSound /\ \A v \in Clients : ClientSound(v)
  BY LimitParts
<1>2. tick' = tick + 1 /\ UNCHANGED <<mode, backend, entries, pending, retryAt, admitted, refusal, fate>>
  BY DEF LimitTick
<1>3. tick \in Nat /\ tick' \in Nat /\ tick' > tick
  BY <1>1, <1>2 DEF LimitTypes
<1>4. LimitTypes'
  BY <1>1, <1>2, <1>3 DEF LimitTypes
<1>5. CountersSound'
  BY <1>1, <1>2 DEF CountersSound
<1>6. ASSUME NEW v \in Clients PROVE ClientSound(v)'
  <2>1. HistorySound(v) /\ RefusalHolds(v) /\ RefusalSound(v)
    BY <1>1 DEF ClientSound
  <2>2. /\ admitted[v] \in Seq(Nat) /\ refusal[v] \in Nat /\ pending[v] \in Nat \cup {None}
        /\ DOMAIN admitted[v] = 1..Len(admitted[v]) /\ Len(admitted[v]) \in Nat
        /\ \A i \in DOMAIN admitted[v] : admitted[v][i] \in Nat
    BY <1>1, StoreFacts DEF LimitTypes
  <2>3. PICK start \in [DOMAIN admitted[v] -> Nat] : InWindows(v, start)
    BY <2>1 DEF HistorySound
  <2>4. admitted[v] # <<>> /\ start[Len(admitted[v])] + Window <= tick
        => start[Len(admitted[v])] + Window <= tick'
    <3>1. ASSUME admitted[v] # <<>> PROVE start[Len(admitted[v])] + Window \in Nat
      <4>1. Len(admitted[v]) \in DOMAIN admitted[v]
        BY <2>2, <3>1, EmptySeq
      <4>2. Window \in Nat
        BY LimitAssumption
      <4> QED BY <2>3, <4>1, <4>2
    <3> QED BY <1>3, <3>1
  <2>5. InWindows(v, start)'
    BY <1>2, <2>3, <2>4 DEF InWindows
  <2>6. \A i \in DOMAIN admitted[v] : admitted[v][i] <= tick'
    BY <1>3, <2>1, <2>2 DEF HistorySound
  <2>7. HistorySound(v)'
    BY <1>2, <2>1, <2>3, <2>5, <2>6 DEF HistorySound
  <2>8. RefusalHolds(v)'
    <3>1. tick' < refusal[v] => tick < refusal[v]
      BY <1>3, <2>2
    <3>2. pending[v] # None /\ tick + pending[v] >= refusal[v] => tick' + pending[v] >= refusal[v]
      BY <1>3, <2>2
    <3> QED BY <1>2, <2>1, <3>1, <3>2 DEF RefusalHolds
  <2>9. RefusalSound(v)'
    BY <1>2, <2>1 DEF RefusalSound
  <2> QED BY <2>7, <2>8, <2>9 DEF ClientSound
<1> QED BY <1>2, <1>4, <1>5, <1>6, LimitPartsAfter

\* The cleanup interval.
LEMMA SweepKeeps ==
  ASSUME LimitInv, LimitSweep
  PROVE  LimitInv' /\ UNCHANGED admitted
<1>1. LimitTypes /\ CountersSound /\ \A v \in Clients : ClientSound(v)
  BY LimitParts
<1>2. /\ backend = "memory"
      /\ UNCHANGED <<mode, backend, tick, pending, retryAt, admitted, refusal, fate>>
  BY DEF LimitSweep
<1>3. PICK P : P = {i \in DOMAIN entries : ~Lapsed(entries[i])}
  OBVIOUS
<1>4. PICK f \in SetToSeqs(P) : entries' = [n \in DOMAIN f |-> entries[f[n]]]
  BY <1>3 DEF LimitSweep, AtPlaces
<1>5. entries \in Seq(CounterRec) /\ Unique(entries)
  BY <1>1 DEF CountersSound, CounterRec, Unique
<1>6. PICK t : t = entries'
  OBVIOUS
<1>7. t \in Seq(CounterRec) /\ Unique(t) /\ In(t) = {entries[i] : i \in P}
  <2>1. P \subseteq DOMAIN entries
    BY <1>3
  <2> QED BY <1>4, <1>5, <1>6, <2>1, PlacesFacts
<1>8. In(t) = {x \in In(entries) : ~Lapsed(x)}
  BY <1>3, <1>7 DEF In
<1>9. CountersSound'
  <2>1. \A i \in DOMAIN t : t[i] \in In(t) /\ t[i] \in In(entries)
    BY <1>8 DEF In
  <2>2. /\ t \in Seq([key : Clients \cup Proxies, count : Nat \ {0}, resetAt : Nat])
        /\ \A i, j \in DOMAIN t : t[i].key = t[j].key => i = j
    BY <1>7 DEF CounterRec, Unique
  <2>3. \A i \in DOMAIN t : t[i].resetAt = NoTtl =>
          backend = "redis" /\ t[i].key \in Clients /\ fate[t[i].key] = "leftover"
    BY <1>1, <2>1, CountersIn
  <2> QED BY <1>2, <1>6, <2>2, <2>3 DEF CountersSound
<1>10. ASSUME NEW v \in Clients PROVE Untouched(v) \/ Removed(v)
  <2>1. PICK e : e = Counter(entries, v)
    OBVIOUS
  <2>2. CASE ~Counted(entries, v)
    <3>1. ~Counted(t, v)
      BY <1>5, <1>7, <1>8, <2>2, CounterFacts
    <3> QED BY <1>2, <1>6, <2>2, <3>1 DEF Untouched
  <2>3. CASE Counted(entries, v)
    <3>1. e \in In(entries) /\ e.key = v
      BY <1>5, <2>1, <2>3, CounterFacts
    <3>2. CASE ~Lapsed(e)
      <4>1. Counted(t, v) /\ Counter(t, v) = e
        BY <1>7, <1>8, <3>1, <3>2, CounterFacts
      <4> QED BY <1>2, <1>6, <2>1, <2>3, <4>1 DEF Untouched
    <3>3. CASE Lapsed(e)
      <4>1. ~Counted(t, v)
        <5>1. ASSUME NEW x \in In(t), x.key = v PROVE FALSE
          <6>1. x \in In(entries) /\ ~Lapsed(x)
            BY <1>8, <5>1
          <6>2. x = e
            BY <1>5, <2>1, <5>1, <6>1, CounterFacts
          <6> QED BY <3>3, <6>1, <6>2
        <5> QED BY <1>7, <5>1, CounterFacts
      <4> QED BY <1>2, <1>6, <2>1, <2>3, <3>3, <4>1 DEF Removed
    <3> QED BY <3>2, <3>3
  <2> QED BY <2>2, <2>3
<1>11. \A v \in Clients : ClientSound(v)'
  BY <1>1, <1>2, <1>10, Bystander
<1>12. LimitTypes'
  BY <1>1, <1>2 DEF LimitTypes
<1>13. LimitInv'
  BY <1>9, <1>11, <1>12, LimitPartsAfter
<1> QED BY <1>2, <1>13

\* At first there is no counter, or in Redis one that something else left.
LEMMA LimitStarts == LimitInit => LimitInv
<1> SUFFICES ASSUME LimitInit PROVE LimitInv
  OBVIOUS
<1>1. LimitTypes
  BY DEF LimitInit, LimitTypes, None
<1>2. /\ tick = 1 /\ \A v \in Clients : /\ pending[v] = None /\ retryAt[v] = 0 /\ refusal[v] = 0 /\ admitted[v] = <<>>
                                        /\ fate[v] = IF Counted(entries, v) THEN "leftover" ELSE "kept"
  BY DEF LimitInit
<1>3. \/ entries = <<>>
      \/ /\ backend = "redis"
         /\ \E c \in Clients : entries = <<[key |-> c, count |-> Limit, resetAt |-> NoTtl]>>
  BY DEF LimitInit
<1>4. /\ CountersSound
      /\ \A v \in Clients : Counted(entries, v) =>
           backend = "redis" /\ Counter(entries, v).count >= Limit /\ Counter(entries, v).resetAt = NoTtl
  <2>1. CASE entries = <<>>
    <3>1. DOMAIN entries = {} /\ entries \in Seq([key : Clients \cup Proxies, count : Nat \ {0}, resetAt : Nat])
      BY <2>1
    <3> QED BY <3>1 DEF CountersSound, Counted
  <2>2. CASE backend = "redis" /\ \E c \in Clients : entries = <<[key |-> c, count |-> Limit, resetAt |-> NoTtl]>>
    <3>1. PICK c \in Clients : entries = <<[key |-> c, count |-> Limit, resetAt |-> NoTtl]>>
      BY <2>2
    <3>2. PICK e : e = [key |-> c, count |-> Limit, resetAt |-> NoTtl]
      OBVIOUS
    <3>3. e \in [key : Clients \cup Proxies, count : Nat \ {0}, resetAt : Nat]
      BY <3>2, LimitAssumption DEF NoTtl
    <3>4. e.key = c /\ e.count = Limit /\ e.resetAt = NoTtl /\ Limit >= Limit
      BY <3>2, LimitAssumption
    <3>5. entries = <<e>> /\ DOMAIN entries = {1} /\ entries[1] = e
      BY <3>1, <3>2
    <3>6. Counted(entries, c)
      BY <3>4, <3>5 DEF Counted
    <3>7. entries \in Seq([key : Clients \cup Proxies, count : Nat \ {0}, resetAt : Nat])
      BY <3>3, <3>5
    <3>8. CountersSound
      BY <1>2, <2>2, <3>4, <3>5, <3>6, <3>7 DEF CountersSound
    <3>9. ASSUME NEW v \in Clients, Counted(entries, v) PROVE Counter(entries, v) = e
      BY <3>5, <3>9 DEF Counted, Counter
    <3> QED BY <2>2, <3>4, <3>8, <3>9
  <2> QED BY <1>3, <2>1, <2>2
<1>5. ASSUME NEW v \in Clients PROVE ClientSound(v)
  <2>1. PICK times : times = admitted[v]
    OBVIOUS
  <2>2. times = <<>> /\ DOMAIN times = {} /\ Len(times) = 0
    BY <1>2, <2>1
  <2>3. PICK start : start = [i \in DOMAIN times |-> 0]
    OBVIOUS
  <2>4. start \in [DOMAIN times -> Nat]
    BY <2>3
  <2>5. InWindows(v, start)
    BY <1>2, <2>1, <2>2 DEF InWindows, Spaced
  <2>6. 0 <= Recent
    BY LimitAssumption DEF Recent
  <2>7. HistorySound(v)
    BY <1>2, <1>4, <2>1, <2>2, <2>4, <2>5, <2>6 DEF HistorySound
  <2>8. RefusalHolds(v) /\ RefusalSound(v)
    BY <1>2 DEF RefusalHolds, RefusalSound
  <2> QED BY <2>7, <2>8 DEF ClientSound
<1> QED BY <1>1, <1>4, <1>5, LimitParts

\* Every step keeps the invariant and pardons nobody but those crowded out.
LEMMA LimitSteps ==
  LimitInv /\ [LimitNext]_limitVars =>
    /\ LimitInv'
    /\ \A v \in Clients : admitted'[v] # admitted[v] /\ tick < refusal[v] => fate[v] = "crowded"
<1> SUFFICES ASSUME LimitInv, [LimitNext]_limitVars
             PROVE  /\ LimitInv'
                    /\ \A v \in Clients : admitted'[v] # admitted[v] /\ tick < refusal[v] => fate[v] = "crowded"
  OBVIOUS
<1>1. CASE \E c \in Clients : Request(c)
  BY <1>1, RequestKeeps
<1>2. CASE \E c \in Clients : Refuse(c)
  BY <1>2, RefuseKeeps
<1>3. CASE \E p \in Proxies : OwnRequest(p)
  BY <1>3, OwnRequestKeeps
<1>4. CASE LimitTick
  BY <1>4, TickKeeps
<1>5. CASE LimitSweep
  BY <1>5, SweepKeeps
<1>6. CASE UNCHANGED limitVars
  BY <1>6 DEF limitVars, LimitInv, CountersSound, HistorySound, InWindows, RefusalHolds, RefusalSound
<1> QED BY <1>1, <1>2, <1>3, <1>4, <1>5, <1>6 DEF LimitNext

\* The fixed window lets a client through no more than twice the limit in a window's length,
\* refuses nobody below the limit, and Retry-After leads to the next window (rate-limit/src):
\* for any clients, proxies, limit, window and capacity of the store.
THEOREM LimiterIsSound == LimitSpec => []LimiterSound
<1>1. LimitInv => LimiterSound
  <2> SUFFICES ASSUME LimitInv PROVE LimiterSound
    OBVIOUS
  <2>1. WindowBound
    <3>1. ASSUME NEW c \in Clients, Len(admitted[c]) = Recent
          PROVE  admitted[c][Recent] - admitted[c][1] >= Window
      <4>1. admitted[c] \in Seq(Nat) /\ HistorySound(c)
        BY DEF LimitInv
      <4>2. PICK start \in [DOMAIN admitted[c] -> Nat] : Spaced(admitted[c], start)
        BY <4>1 DEF HistorySound, InWindows
      <4> QED BY <3>1, <4>1, <4>2, SpacedBound
    <3> QED BY <3>1 DEF WindowBound
  <2>2. RefusalsAreSound
    BY DEF LimitInv, RefusalsAreSound
  <2> QED BY <2>1, <2>2 DEF LimiterSound
<1>2. LimitInv /\ [LimitNext]_limitVars => LimitInv'
  BY LimitSteps
<1> QED BY <1>1, <1>2, LimitStarts, PTL DEF LimitSpec

\* A refused client is let through early only if its counter was evicted from a store whose
\* scanned counters were all those of refused clients (rate-limit/src/index.ts, evictOne).
THEOREM PardonTakesCrowd == LimitSpec => PardonNeedsCrowd
<1>1. LimitInv /\ [LimitNext]_limitVars => LimitInv'
  BY LimitSteps
<1>2. LimitInv /\ [LimitNext]_limitVars =>
        [\A c \in Clients : admitted'[c] # admitted[c] /\ tick < refusal[c] => fate[c] = "crowded"]_limitVars
  BY LimitSteps
<1> QED BY <1>1, <1>2, LimitStarts, PTL DEF LimitSpec, PardonNeedsCrowd
=============================================================================
