--------------------------- MODULE RedisQueue_proofs ---------------------------
(***************************************************************************)
(* Proofs about RedisQueue, for any number of processes and jobs, any      *)
(* retry limits, caps and interruptions: type correctness, and the         *)
(* invariants that a job is lost only out of the hand of an interrupted    *)
(* call, has one copy and one holder, and is delivered within its budget;  *)
(* and that every step moves each job as JobLifecycle allows.              *)
(***************************************************************************)
EXTENDS RedisQueue, TLAPS, FiniteSetTheorems, SequenceTheorems

\* Job j has at most one entry in a list.
Once(s, j) == \A i, k \in DOMAIN s : s[i].id = j /\ s[k].id = j => i = k

\* A list t that is s with one entry of job x more, or less.
Added(s, x, t) ==
  /\ JobsOf(t) = JobsOf(s) \cup {x}
  /\ \A j : Once(s, j) /\ (j = x => j \notin JobsOf(s)) => Once(t, j)
Removed(s, x, t) ==
  /\ JobsOf(s) = JobsOf(t) \cup {x}
  /\ \A j : Once(s, j) => Once(t, j) /\ (j = x => j \notin JobsOf(t))

-----------------------------------------------------------------------------
(* The lists after each command *)

\* Entries taken from a list at distinct places: none new, none twice.
LEMMA EmbeddedJobs ==
  ASSUME NEW s, NEW t, NEW h \in [DOMAIN t -> DOMAIN s],
         \A k, l \in DOMAIN t : h[k] = h[l] => k = l,
         \A k \in DOMAIN t : t[k].id = s[h[k]].id
  PROVE  /\ JobsOf(t) \subseteq JobsOf(s)
         /\ \A j : Once(s, j) => Once(t, j)
<1>1. \A k \in DOMAIN t : h[k] \in DOMAIN s
  OBVIOUS
<1>2. JobsOf(t) \subseteq JobsOf(s)
  BY <1>1, Zenon DEF JobsOf
<1>3. ASSUME NEW j, Once(s, j), NEW k \in DOMAIN t, NEW l \in DOMAIN t, t[k].id = j, t[l].id = j
      PROVE  k = l
  <2>1. s[h[k]].id = j /\ s[h[l]].id = j
    BY <1>3
  <2>2. h[k] = h[l]
    BY <1>1, <1>3, <2>1, Zenon DEF Once
  <2> QED BY <2>2
<1> QED BY <1>2, <1>3 DEF Once

\* All entries but one, at their places.
LEMMA RemovedJobs ==
  ASSUME NEW s, NEW t, NEW i \in DOMAIN s, NEW h \in [DOMAIN t -> DOMAIN s],
         \A k, l \in DOMAIN t : h[k] = h[l] => k = l,
         \A k \in DOMAIN t : t[k] = s[h[k]] /\ h[k] # i,
         \A n \in DOMAIN s : n = i \/ \E k \in DOMAIN t : h[k] = n
  PROVE  Removed(s, s[i].id, t)
<1>1. JobsOf(t) \subseteq JobsOf(s) /\ \A j : Once(s, j) => Once(t, j)
  BY EmbeddedJobs
<1>2. \A n \in DOMAIN s : s[n].id \in JobsOf(t) \cup {s[i].id}
  <2> TAKE n \in DOMAIN s
  <2>1. CASE n = i
    BY <2>1
  <2>2. CASE n # i
    BY <2>2 DEF JobsOf
  <2> QED BY <2>1, <2>2
<1>3. s[i].id \in JobsOf(s)
  BY DEF JobsOf
<1>4. JobsOf(s) = JobsOf(t) \cup {s[i].id}
  <2> DEFINE J == JobsOf(t) \cup {s[i].id}
  <2>0. \A n \in DOMAIN s : s[n].id \in J
    BY <1>2
  <2> HIDE DEF J
  <2>1. JobsOf(s) \subseteq J
    BY <2>0, SMT DEF JobsOf
  <2> QED BY <2>1, <1>1, <1>3 DEF J
<1>5. ASSUME Once(s, s[i].id), NEW k \in DOMAIN t, t[k].id = s[i].id PROVE FALSE
  <2>1. h[k] \in DOMAIN s /\ s[h[k]].id = s[i].id
    BY <1>5
  <2>2. h[k] = i
    BY <2>1, <1>5, Zenon DEF Once
  <2> QED BY <2>2
<1>6. Once(s, s[i].id) => s[i].id \notin JobsOf(t)
  BY <1>5 DEF JobsOf
<1> QED BY <1>1, <1>4, <1>6 DEF Removed

\* LPUSH and ZADD.
LEMMA AppendJobs ==
  ASSUME NEW S, NEW s \in Seq(S), NEW m \in S
  PROVE  /\ Append(s, m) \in Seq(S)
         /\ Added(s, m.id, Append(s, m))
<1> DEFINE t == Append(s, m)
           n == Len(s)
<1>1. /\ t \in Seq(S) /\ n \in Nat
      /\ DOMAIN s = 1..n /\ DOMAIN t = 1..n \cup {n + 1}
      /\ \A k \in 1..n : t[k] = s[k]
      /\ t[n + 1] = m /\ n + 1 \notin 1..n
  <2>1. /\ Append(s, m) \in Seq(S) /\ Len(s) \in Nat
        /\ Len(Append(s, m)) = Len(s) + 1 /\ DOMAIN s = 1..Len(s)
        /\ \A k \in 1..Len(s) : Append(s, m)[k] = s[k]
        /\ Append(s, m)[Len(s) + 1] = m
    OBVIOUS
  <2>2. DOMAIN Append(s, m) = 1..(Len(s) + 1)
    BY <2>1
  <2>3. 1..(Len(s) + 1) = 1..Len(s) \cup {Len(s) + 1} /\ Len(s) + 1 \notin 1..Len(s)
    BY <2>1
  <2> QED BY <2>1, <2>2, <2>3, Zenon
<1> HIDE DEF t, n
<1>2. JobsOf(t) = JobsOf(s) \cup {m.id}
  BY <1>1, Zenon DEF JobsOf
<1>3. ASSUME NEW j, Once(s, j), j = m.id => j \notin JobsOf(s) PROVE Once(t, j)
  BY <1>1, <1>3, Zenon DEF JobsOf, Once
<1> QED BY <1>1, <1>2, <1>3 DEF Added, t

\* RPOP.
LEMMA TailJobs ==
  ASSUME NEW S, NEW s \in Seq(S), s # <<>>
  PROVE  /\ Tail(s) \in Seq(S)
         /\ Head(s) \in S
         /\ Removed(s, Head(s).id, Tail(s))
<1> DEFINE t == Tail(s)
<1>1. /\ t \in Seq(S) /\ Len(s) \in Nat /\ Len(s) >= 1 /\ Head(s) = s[1] /\ s[1] \in S
      /\ DOMAIN s = 1..Len(s) /\ DOMAIN t = 1..(Len(s) - 1)
      /\ \A k \in 1..(Len(s) - 1) : t[k] = s[k + 1]
  OBVIOUS
<1> DEFINE h == [k \in DOMAIN t |-> k + 1]
<1>2. /\ h \in [DOMAIN t -> DOMAIN s] /\ 1 \in DOMAIN s
      /\ \A k, l \in DOMAIN t : h[k] = h[l] => k = l
      /\ \A k \in DOMAIN t : t[k] = s[h[k]] /\ h[k] # 1
  <2> HIDE DEF t
  <2> QED BY <1>1
<1>3. \A n \in DOMAIN s : n = 1 \/ \E k \in DOMAIN t : h[k] = n
  <2> TAKE n \in DOMAIN s
  <2> HIDE DEF t
  <2>1. CASE n # 1
    <3>1. n - 1 \in DOMAIN t /\ h[n - 1] = n
      BY <1>1, <2>1
    <3> QED BY <3>1
  <2> QED BY <2>1
<1> HIDE DEF t, h
<1>4. Removed(s, s[1].id, t)
  BY <1>2, <1>3, RemovedJobs
<1> QED BY <1>1, <1>4 DEF t

\* LREM.
LEMMA RemoveAtJobs ==
  ASSUME NEW S, NEW s \in Seq(S), NEW i \in DOMAIN s
  PROVE  /\ RemoveAt(s, i) \in Seq(S)
         /\ Removed(s, s[i].id, RemoveAt(s, i))
<1> DEFINE a == SubSeq(s, 1, i - 1)
           b == SubSeq(s, i + 1, Len(s))
           t == RemoveAt(s, i)
           n == Len(s)
<1>1. a \in Seq(S) /\ Len(a) = i - 1 /\ \A k \in 1..(i - 1) : a[k] = s[k]
  OBVIOUS
<1>2. b \in Seq(S) /\ Len(b) = n - i /\ \A k \in 1..(n - i) : b[k] = s[k + i]
  OBVIOUS
<1>3. t = a \o b
  BY DEF RemoveAt
<1> HIDE DEF a, b
<1>4. /\ a \o b \in Seq(S)
      /\ Len(a \o b) = Len(a) + Len(b)
      /\ \A k \in 1..(Len(a) + Len(b)) :
           (a \o b)[k] = IF k <= Len(a) THEN a[k] ELSE b[k - Len(a)]
  BY <1>1, <1>2, ConcatProperties
<1>5. Len(a) + Len(b) = n - 1 /\ n \in Nat /\ DOMAIN s = 1..n /\ i \in 1..n
  <2>1. n \in Nat /\ DOMAIN s = 1..n
    OBVIOUS
  <2> HIDE DEF n
  <2> QED BY <2>1, <1>1, <1>2
<1> HIDE DEF t, n
<1>6. t \in Seq(S) /\ DOMAIN t = 1..(n - 1)
  BY <1>3, <1>4, <1>5
<1>7. \A k \in 1..(n - 1) : t[k] = s[IF k < i THEN k ELSE k + 1]
  <2> TAKE k \in 1..(n - 1)
  <2>1. CASE k < i
    BY <2>1, <1>1, <1>3, <1>4, <1>5
  <2>2. CASE ~(k < i)
    <3>1. k - (i - 1) \in 1..(n - i) /\ (k - (i - 1)) + i = k + 1
      BY <2>2, <1>5
    <3>2. t[k] = b[k - (i - 1)]
      BY <2>2, <1>1, <1>3, <1>4, <1>5
    <3> QED BY <2>2, <3>1, <3>2, <1>2
  <2> QED BY <2>1, <2>2
<1> DEFINE h == [k \in DOMAIN t |-> IF k < i THEN k ELSE k + 1]
<1>8. /\ h \in [DOMAIN t -> DOMAIN s]
      /\ \A k, l \in DOMAIN t : h[k] = h[l] => k = l
      /\ \A k \in DOMAIN t : t[k] = s[h[k]] /\ h[k] # i
  BY <1>5, <1>6, <1>7
<1>9. ASSUME NEW m \in DOMAIN s, m # i PROVE \E k \in DOMAIN t : h[k] = m
  <2>1. CASE m < i
    <3>1. m \in DOMAIN t /\ h[m] = m
      BY <2>1, <1>5, <1>6
    <3> QED BY <3>1
  <2>2. CASE ~(m < i)
    <3>1. m - 1 \in DOMAIN t /\ h[m - 1] = m
      BY <2>2, <1>9, <1>5, <1>6
    <3> QED BY <3>1
  <2> QED BY <2>1, <2>2
<1> HIDE DEF h
<1>10. Removed(s, s[i].id, t)
  BY <1>8, <1>9, RemovedJobs
<1> QED BY <1>6, <1>10 DEF t

\* LREM of one entry makes the list one shorter.
LEMMA RemoveAtLength ==
  ASSUME NEW S, NEW s \in Seq(S), NEW i \in DOMAIN s
  PROVE  Len(RemoveAt(s, i)) = Len(s) - 1
<1> DEFINE a == SubSeq(s, 1, i - 1)
           b == SubSeq(s, i + 1, Len(s))
<1>1. /\ a \in Seq(S) /\ Len(a) = i - 1
      /\ b \in Seq(S) /\ Len(b) = Len(s) - i
      /\ Len(s) \in Nat /\ i \in Nat
  OBVIOUS
<1>2. RemoveAt(s, i) = a \o b
  BY DEF RemoveAt
<1> HIDE DEF a, b
<1>3. Len(a \o b) = Len(a) + Len(b)
  BY <1>1, ConcatProperties
<1> QED BY <1>1, <1>2, <1>3

\* LTRIM.
LEMMA TrimJobs ==
  ASSUME NEW S, NEW s \in Seq(S)
  PROVE  /\ Trim(s) \in Seq(S)
         /\ Len(Trim(s)) <= MaxDead
         /\ JobsOf(Trim(s)) \subseteq JobsOf(s)
         /\ \A j : Once(s, j) => Once(Trim(s), j)
<1>1. CASE Len(s) > MaxDead
  <2> DEFINE o == Len(s) - MaxDead
             t == SubSeq(s, o + 1, Len(s))
  <2>1. Trim(s) = t
    BY <1>1 DEF Trim
  <2>2. o \in Nat /\ o + MaxDead = Len(s) /\ MaxDead \in Nat /\ Len(s) \in Nat
    BY <1>1, RedisAssumption
  <2> HIDE DEF o
  <2>3. /\ t \in Seq(S) /\ Len(t) = MaxDead /\ DOMAIN t = 1..MaxDead
        /\ \A k \in 1..MaxDead : t[k] = s[k + o]
    BY <2>2
  <2> DEFINE h == [k \in DOMAIN t |-> k + o]
  <2> HIDE DEF t
  <2>4. /\ h \in [DOMAIN t -> DOMAIN s]
        /\ \A k, l \in DOMAIN t : h[k] = h[l] => k = l
        /\ \A k \in DOMAIN t : t[k].id = s[h[k]].id
    BY <2>2, <2>3
  <2> HIDE DEF h
  <2>5. JobsOf(t) \subseteq JobsOf(s) /\ \A j : Once(s, j) => Once(t, j)
    BY <2>4, EmbeddedJobs
  <2> QED BY <2>1, <2>2, <2>3, <2>5
<1>2. CASE ~(Len(s) > MaxDead)
  <2>1. Trim(s) = s
    BY <1>2 DEF Trim
  <2>2. Len(s) <= MaxDead
    BY <1>2, RedisAssumption
  <2> QED BY <2>1, <2>2
<1> QED BY <1>1, <1>2

\* A list after another.
LEMMA ConcatJobs ==
  ASSUME NEW S, NEW s \in Seq(S), NEW t \in Seq(S)
  PROVE  /\ s \o t \in Seq(S)
         /\ JobsOf(s \o t) = JobsOf(s) \cup JobsOf(t)
         /\ \A j : Once(s, j) /\ Once(t, j) /\ ~(j \in JobsOf(s) /\ j \in JobsOf(t))
                     => Once(s \o t, j)
<1> DEFINE u == s \o t
           m == Len(s)
           n == Len(t)
<1>1. /\ u \in Seq(S) /\ Len(u) = m + n
      /\ \A i \in 1..(m + n) : u[i] = IF i <= m THEN s[i] ELSE t[i - m]
      /\ m \in Nat /\ n \in Nat
      /\ DOMAIN s = 1..m /\ DOMAIN t = 1..n /\ DOMAIN u = 1..(m + n)
  BY ConcatProperties
<1> HIDE DEF u, m, n
<1>2. /\ \A i \in DOMAIN s : i \in DOMAIN u /\ u[i] = s[i]
      /\ \A i \in DOMAIN t : m + i \in DOMAIN u /\ u[m + i] = t[i]
      /\ \A i \in DOMAIN u : (i \in DOMAIN s /\ u[i] = s[i])
                             \/ (i - m \in DOMAIN t /\ u[i] = t[i - m])
      /\ \A i, k \in DOMAIN u : i - m = k - m => i = k
  <2>1. ASSUME NEW i \in 1..m PROVE i \in DOMAIN u /\ u[i] = s[i]
    BY <1>1
  <2>2. ASSUME NEW i \in 1..n PROVE m + i \in DOMAIN u /\ u[m + i] = t[i]
    <3>1. m + i \in 1..(m + n) /\ ~(m + i <= m) /\ (m + i) - m = i
      BY <1>1
    <3>2. u[m + i] = t[(m + i) - m]
      BY <1>1, <3>1
    <3> QED BY <1>1, <3>1, <3>2
  <2>3. ASSUME NEW i \in DOMAIN u, i \notin 1..m
        PROVE  i - m \in 1..n /\ u[i] = t[i - m]
    <3>1. i \in 1..(m + n) /\ ~(i <= m) /\ i - m \in 1..n
      BY <1>1, <2>3
    <3> QED BY <1>1, <3>1
  <2>4. \A i, k \in DOMAIN u : i - m = k - m => i = k
    BY <1>1
  <2> QED BY <1>1, <2>1, <2>2, <2>3, <2>4
<1>3. JobsOf(u) = JobsOf(s) \cup JobsOf(t)
  <2>1. \A i \in DOMAIN u : u[i].id \in JobsOf(s) \cup JobsOf(t)
    BY <1>2, SMT DEF JobsOf
  <2>2. \A i \in DOMAIN s : s[i].id \in JobsOf(u)
    BY <1>2, SMT DEF JobsOf
  <2>3. \A i \in DOMAIN t : t[i].id \in JobsOf(u)
    BY <1>2, SMT DEF JobsOf
  <2> QED BY <2>1, <2>2, <2>3, SMT DEF JobsOf
<1>4. ASSUME NEW j, Once(s, j), Once(t, j), ~(j \in JobsOf(s) /\ j \in JobsOf(t)),
             NEW i \in DOMAIN u, NEW k \in DOMAIN u, u[i].id = j, u[k].id = j
      PROVE  i = k
  <2>1. CASE i \in DOMAIN s /\ u[i] = s[i] /\ k \in DOMAIN s /\ u[k] = s[k]
    BY <1>4, <2>1, Zenon DEF Once
  <2>2. CASE i - m \in DOMAIN t /\ u[i] = t[i - m] /\ k - m \in DOMAIN t /\ u[k] = t[k - m]
    <3>1. i - m = k - m
      BY <1>4, <2>2, Zenon DEF Once
    <3> QED BY <3>1, <1>2
  <2>3. CASE i \in DOMAIN s /\ u[i] = s[i] /\ k - m \in DOMAIN t /\ u[k] = t[k - m]
    BY <1>4, <2>3, Zenon DEF JobsOf
  <2>4. CASE k \in DOMAIN s /\ u[k] = s[k] /\ i - m \in DOMAIN t /\ u[i] = t[i - m]
    BY <1>4, <2>4, Zenon DEF JobsOf
  <2> QED BY <2>1, <2>2, <2>3, <2>4, <1>2
<1>5. \A j : Once(s, j) /\ Once(t, j) /\ ~(j \in JobsOf(s) /\ j \in JobsOf(t)) => Once(u, j)
  BY <1>4 DEF Once
<1> QED BY <1>1, <1>3, <1>5 DEF u

\* An enumeration of some places of a list.
LEMMA PlacesFacts ==
  ASSUME NEW n \in Nat, NEW P \in SUBSET (1..n), NEW f \in SetToSeqs(P)
  PROVE  /\ f \in Seq(P)
         /\ \A k, l \in DOMAIN f : f[k] = f[l] => k = l
         /\ \A i \in P : \E k \in DOMAIN f : f[k] = i
<1>1. IsFiniteSet(P) /\ Cardinality(P) \in Nat
  <2>1. IsFiniteSet(1..n)
    BY FS_Interval
  <2> QED BY <2>1, FS_Subset, FS_CardinalityType
<1>2. /\ f \in [1..Cardinality(P) -> P]
      /\ \A i, k \in 1..Cardinality(P) : i # k => f[i] # f[k]
  BY DEF SetToSeqs
<1>3. IsFiniteSet(1..Cardinality(P)) /\ Cardinality(1..Cardinality(P)) = Cardinality(P)
  BY <1>1, FS_Interval
<1>4. f \in Injection(1..Cardinality(P), P)
  BY <1>2 DEF Injection, IsInjective
<1>5. f \in Surjection(1..Cardinality(P), P)
  BY <1>1, <1>3, <1>4, FS_Injection
<1>6. \A i \in P : \E k \in DOMAIN f : f[k] = i
  BY <1>2, <1>5 DEF Surjection
<1>7. f \in Seq(P)
  BY <1>1, <1>2
<1> QED BY <1>2, <1>6, <1>7

\* The entries of a list at some of its places.
Selected(s, f) == [k \in DOMAIN f |-> s[f[k]]]

\* The promotion splits the delayed messages in two.
LEMMA SplitJobs ==
  ASSUME NEW S, NEW s \in Seq(S), NEW P \in SUBSET DOMAIN s,
         NEW f \in SetToSeqs(P), NEW g \in SetToSeqs(DOMAIN s \ P)
  PROVE  /\ Selected(s, f) \in Seq(S) /\ Selected(s, g) \in Seq(S)
         /\ JobsOf(s) = JobsOf(Selected(s, f)) \cup JobsOf(Selected(s, g))
         /\ \A j : Once(s, j) =>
              /\ Once(Selected(s, f), j) /\ Once(Selected(s, g), j)
              /\ ~(j \in JobsOf(Selected(s, f)) /\ j \in JobsOf(Selected(s, g)))
<1> DEFINE u == Selected(s, f)
           v == Selected(s, g)
<1>1. /\ Len(s) \in Nat /\ DOMAIN s = 1..Len(s) /\ \A i \in DOMAIN s : s[i] \in S
  OBVIOUS
<1>2. /\ f \in Seq(P)
      /\ \A k, l \in DOMAIN f : f[k] = f[l] => k = l
      /\ \A i \in P : \E k \in DOMAIN f : f[k] = i
  <2> DEFINE Q == P
  <2>1. Q \in SUBSET (1..Len(s)) /\ f \in SetToSeqs(Q)
    BY <1>1
  <2> HIDE DEF Q
  <2>2. /\ f \in Seq(Q)
        /\ \A k, l \in DOMAIN f : f[k] = f[l] => k = l
        /\ \A i \in Q : \E k \in DOMAIN f : f[k] = i
    BY <1>1, <2>1, PlacesFacts
  <2> QED BY <2>2 DEF Q
<1>3. /\ g \in Seq(DOMAIN s \ P)
      /\ \A k, l \in DOMAIN g : g[k] = g[l] => k = l
      /\ \A i \in DOMAIN s \ P : \E k \in DOMAIN g : g[k] = i
  <2> DEFINE Q == DOMAIN s \ P
  <2>1. Q \in SUBSET (1..Len(s))
    BY <1>1
  <2> HIDE DEF Q
  <2>2. g \in SetToSeqs(Q)
    BY DEF Q
  <2>3. /\ g \in Seq(Q)
        /\ \A k, l \in DOMAIN g : g[k] = g[l] => k = l
        /\ \A i \in Q : \E k \in DOMAIN g : g[k] = i
    BY <1>1, <2>1, <2>2, PlacesFacts
  <2> QED BY <2>3 DEF Q
<1>4. /\ u \in Seq(S) /\ DOMAIN u = DOMAIN f
      /\ \A k \in DOMAIN f : f[k] \in P /\ u[k] = s[f[k]]
  BY <1>1, <1>2 DEF Selected
<1>5. /\ v \in Seq(S) /\ DOMAIN v = DOMAIN g
      /\ \A k \in DOMAIN g : g[k] \in DOMAIN s \ P /\ v[k] = s[g[k]]
  BY <1>1, <1>3 DEF Selected
<1> HIDE DEF u, v
<1>6. /\ f \in [DOMAIN u -> DOMAIN s] /\ \A k \in DOMAIN u : u[k].id = s[f[k]].id
      /\ g \in [DOMAIN v -> DOMAIN s] /\ \A k \in DOMAIN v : v[k].id = s[g[k]].id
      /\ \A k, l \in DOMAIN u : f[k] = f[l] => k = l
      /\ \A k, l \in DOMAIN v : g[k] = g[l] => k = l
  BY <1>2, <1>3, <1>4, <1>5
<1>7. JobsOf(u) \subseteq JobsOf(s) /\ \A j : Once(s, j) => Once(u, j)
  BY <1>6, EmbeddedJobs
<1>8. JobsOf(v) \subseteq JobsOf(s) /\ \A j : Once(s, j) => Once(v, j)
  BY <1>6, EmbeddedJobs
<1>9. ASSUME NEW i \in DOMAIN s PROVE s[i].id \in JobsOf(u) \cup JobsOf(v)
  <2>1. CASE i \in P
    BY <1>2, <1>4, <2>1, SMT DEF JobsOf
  <2>2. CASE i \notin P
    BY <1>3, <1>5, <2>2, SMT DEF JobsOf
  <2> QED BY <2>1, <2>2
<1>10. JobsOf(s) = JobsOf(u) \cup JobsOf(v)
  <2>1. JobsOf(s) \subseteq JobsOf(u) \cup JobsOf(v)
    <3> DEFINE J == JobsOf(u) \cup JobsOf(v)
    <3>1. \A i \in DOMAIN s : s[i].id \in J
      BY <1>9
    <3> HIDE DEF J
    <3>2. JobsOf(s) \subseteq J
      BY <3>1, SMT DEF JobsOf
    <3> QED BY <3>2 DEF J
  <2> QED BY <2>1, <1>7, <1>8
<1>11. ASSUME NEW j, Once(s, j), NEW k \in DOMAIN u, NEW l \in DOMAIN v,
              u[k].id = j, v[l].id = j
       PROVE  FALSE
  <2>1. f[k] \in DOMAIN s /\ g[l] \in DOMAIN s /\ s[f[k]].id = j /\ s[g[l]].id = j
    BY <1>4, <1>5, <1>6, <1>11
  <2>2. f[k] = g[l]
    BY <2>1, <1>11, Zenon DEF Once
  <2> QED BY <2>2, <1>4, <1>5
<1>12. \A j : Once(s, j) => ~(j \in JobsOf(u) /\ j \in JobsOf(v))
  BY <1>11, Zenon DEF JobsOf
<1> QED BY <1>4, <1>5, <1>7, <1>8, <1>10, <1>12 DEF u, v

-----------------------------------------------------------------------------
(* Type correctness, and the calls in progress *)

\* A caller holds a message exactly between its two commands, has looked up one
\* entry when it is to remove it, and remembers to trim only while it drains.
Shaped(r) ==
  /\ r.held = <<>> \/ Len(r.held) = 1
  /\ r.held # <<>> <=> r.at = "pushing"
  /\ r.at = "removing" => Len(r.found) = 1
  /\ r.handled => r.at = "draining"
CallShape == \A c \in Callers : Shaped(call[c])

Typed == TypeOK /\ CallShape

\* The records a step writes are of their types.
LEMMA RecordTypes ==
  ASSUME Typed
  PROVE  /\ IdleCall \in Call
         /\ \A d \in Delivery : d.id \in Jobs /\ d.attempt \in Nat /\ d.lease \in Nat
         /\ \A m \in Message : m.id \in Jobs /\ m.attempt \in Nat
         /\ \A j \in Jobs : Fresh(j) \in Message /\ Fresh(j).id = j /\ Fresh(j).attempt = 0
         /\ \A c \in Callers : /\ call[c] \in Call
                               /\ call[c].held \in Seq(Message)
                               /\ call[c].found \in Seq(DeadEntry)
                               /\ call[c].staged \subseteq Delivery
<1>1. IdleCall \in Call
  BY DEF IdleCall, Call
<1>2. /\ \A d \in Delivery : d.id \in Jobs /\ d.attempt \in Nat /\ d.lease \in Nat
      /\ \A m \in Message : m.id \in Jobs /\ m.attempt \in Nat
      /\ \A j \in Jobs : Fresh(j) \in Message /\ Fresh(j).id = j /\ Fresh(j).attempt = 0
  BY DEF Delivery, Message, Fresh
<1>3. ASSUME NEW c \in Callers
      PROVE  /\ call[c] \in Call
             /\ call[c].held \in Seq(Message)
             /\ call[c].found \in Seq(DeadEntry)
             /\ call[c].staged \subseteq Delivery
  <2>1. call[c] \in Call
    BY DEF Typed, TypeOK
  <2> QED BY <2>1 DEF Call
<1> QED BY <1>1, <1>2, <1>3

\* A step of one call leaves the calls typed and shaped if it leaves its own so.
LEMMA OneCall ==
  ASSUME Typed, NEW c \in Callers, NEW r \in Call, Shaped(r),
         call' = [call EXCEPT ![c] = r]
  PROVE  call' \in [Callers -> Call] /\ CallShape'
BY DEF Typed, TypeOK, CallShape

\* A list of one entry.
LEMMA One ==
  ASSUME NEW S, NEW x \in S
  PROVE  /\ <<x>> \in Seq(S) /\ Len(<<x>>) = 1 /\ <<x>> # <<>>
         /\ Head(<<x>>) = x
OBVIOUS

\* nack() or a re-drive is about to push one message.
LEMMA NowHolding ==
  ASSUME NEW q \in Call, ~q.handled, NEW m \in Message, NEW r,
         r = [q EXCEPT !.at = "pushing", !.held = <<m>>]
  PROVE  r \in Call /\ Shaped(r) /\ r.held = <<m>>
<1> DEFINE w == <<m>>
<1>1. w \in Seq(Message) /\ Len(w) = 1 /\ w # <<>>
  BY One
<1>2. r = [q EXCEPT !.at = "pushing", !.held = w]
  OBVIOUS
<1> HIDE DEF w
<1>3. r \in Call /\ r.at = "pushing" /\ r.held = w /\ ~r.handled
  BY <1>1, <1>2 DEF Call
<1> QED BY <1>1, <1>3 DEF Shaped, w

\* redriveDeadLetter() is about to remove one entry.
LEMMA NowRemoving ==
  ASSUME NEW q \in Call, ~q.handled, q.held = <<>>, NEW x \in DeadEntry, NEW r,
         r = [q EXCEPT !.at = "removing", !.found = <<x>>]
  PROVE  r \in Call /\ Shaped(r) /\ r.held = <<>>
<1> DEFINE w == <<x>>
<1>1. w \in Seq(DeadEntry) /\ Len(w) = 1
  BY One
<1>2. r = [q EXCEPT !.at = "removing", !.found = w]
  OBVIOUS
<1> HIDE DEF w
<1>3. r \in Call /\ r.at = "removing" /\ r.held = <<>> /\ r.found = w /\ ~r.handled
  BY <1>1, <1>2 DEF Call
<1> QED BY <1>1, <1>3 DEF Shaped

\* The jobs a list names.
LEMMA DeadJobs ==
  ASSUME NEW s \in Seq(DeadEntry) PROVE JobsOf(s) \subseteq Jobs
<1>1. \A i \in DOMAIN s : s[i] \in DeadEntry
  OBVIOUS
<1>2. \A i \in DOMAIN s : s[i].id \in Jobs
  BY <1>1 DEF DeadEntry
<1> QED BY <1>2, SMT DEF JobsOf

\* The dead-letter queue names jobs.
LEMMA DeadNames ==
  ASSUME Typed
  PROVE  /\ \A i \in DOMAIN dead : dead[i].id \in Jobs
         /\ dead # <<>> => Head(dead).id \in Jobs
<1>1. dead \in Seq(DeadEntry)
  BY DEF Typed, TypeOK
<1>2. \A x \in DeadEntry : x.id \in Jobs
  BY DEF DeadEntry
<1> QED BY <1>1, <1>2

\* A list of messages names jobs.
LEMMA MessageJobs ==
  ASSUME NEW s \in Seq(Message) PROVE JobsOf(s) \subseteq Jobs
<1>1. \A i \in DOMAIN s : s[i] \in Message
  OBVIOUS
<1>2. \A i \in DOMAIN s : s[i].id \in Jobs
  BY <1>1 DEF Message
<1> QED BY <1>2, SMT DEF JobsOf

\* A call that ended.
LEMMA IdleShaped == IdleCall \in Call /\ Shaped(IdleCall)
BY DEF IdleCall, Call, Shaped

\* A caller that is between two calls.
LEMMA IdleFacts ==
  ASSUME Typed, NEW c \in Callers, Idle(c)
  PROVE  call[c] \in Call /\ ~call[c].handled /\ call[c].held = <<>>
BY RecordTypes DEF Typed, CallShape, Shaped, Idle

\* The message a call that is to push it holds, and the only one.
LEMMA HeldMessage ==
  ASSUME Typed, NEW c \in Callers, call[c].at = "pushing"
  PROVE  /\ Head(call[c].held) \in Message
         /\ call[c].held = <<Head(call[c].held)>>
<1>1. call[c].held \in Seq(Message) /\ Len(call[c].held) = 1
  BY RecordTypes DEF Typed, CallShape, Shaped
<1> QED BY <1>1

\* The entry a call that is to remove it looked up.
LEMMA FoundEntry ==
  ASSUME Typed, NEW c \in Callers, call[c].at = "removing"
  PROVE  /\ Head(call[c].found) \in DeadEntry
         /\ Head(call[c].found).id \in JobsOf(call[c].found)
         /\ Head(call[c].found).id \in Jobs
<1>1. call[c].found \in Seq(DeadEntry) /\ Len(call[c].found) = 1
  BY RecordTypes DEF Typed, CallShape, Shaped
<1>2. Head(call[c].found) = call[c].found[1] /\ 1 \in DOMAIN call[c].found
  BY <1>1
<1>3. call[c].found[1] \in DeadEntry
  BY <1>1, <1>2
<1> QED BY <1>2, <1>3 DEF JobsOf, DeadEntry

\* What PromoteDelayed does to the two lists.
LEMMA PromotedLists ==
  ASSUME Typed, NEW c \in Callers, PromoteDelayed(c)
  PROVE  \E u, v \in Seq(Message) :
           /\ pending' = pending \o u
           /\ delayed' = v
           /\ JobsOf(delayed) = JobsOf(u) \cup JobsOf(v)
           /\ \A j : Once(delayed, j) =>
                Once(u, j) /\ Once(v, j) /\ ~(j \in JobsOf(u) /\ j \in JobsOf(v))
           /\ \A k \in DOMAIN u : \E i \in DOMAIN delayed : u[k] = delayed[i]
           /\ \A k \in DOMAIN v : \E i \in DOMAIN delayed : v[k] = delayed[i]
<1> DEFINE P == {i \in DOMAIN delayed : delayed[i].ready}
           Q == {i \in DOMAIN delayed : ~delayed[i].ready}
<1>1. PICK due \in SetToSeqs(P), rest \in SetToSeqs(Q) :
        /\ pending' = pending \o [k \in DOMAIN due |-> delayed[due[k]]]
        /\ delayed' = [k \in DOMAIN rest |-> delayed[rest[k]]]
  BY DEF PromoteDelayed
<1>2. P \in SUBSET DOMAIN delayed /\ Q = DOMAIN delayed \ P
  OBVIOUS
<1>3. delayed \in Seq(Message)
  BY DEF Typed, TypeOK
<1> HIDE DEF P, Q
<1> DEFINE u == Selected(delayed, due)
           v == Selected(delayed, rest)
<1>4. pending' = pending \o u /\ delayed' = v
  BY <1>1 DEF Selected
<1>5. /\ u \in Seq(Message) /\ v \in Seq(Message)
      /\ JobsOf(delayed) = JobsOf(u) \cup JobsOf(v)
      /\ \A j : Once(delayed, j) =>
           Once(u, j) /\ Once(v, j) /\ ~(j \in JobsOf(u) /\ j \in JobsOf(v))
  <2>1. due \in SetToSeqs(P) /\ rest \in SetToSeqs(DOMAIN delayed \ P)
    BY <1>2
  <2> HIDE DEF u, v
  <2> QED BY <1>2, <1>3, <2>1, SplitJobs DEF u, v
<1>6. /\ \A k \in DOMAIN u : \E i \in DOMAIN delayed : u[k] = delayed[i]
      /\ \A k \in DOMAIN v : \E i \in DOMAIN delayed : v[k] = delayed[i]
  <2>1. \A k \in DOMAIN due : due[k] \in DOMAIN delayed
    BY <1>2 DEF SetToSeqs
  <2>2. \A k \in DOMAIN rest : rest[k] \in DOMAIN delayed
    BY <1>2 DEF SetToSeqs
  <2> QED BY <2>1, <2>2 DEF Selected
<1> HIDE DEF u, v
<1> QED BY <1>4, <1>5, <1>6

\* Every step keeps the types and the shape of the calls.
LEMMA TypedInductive == Typed /\ [Next]_vars => Typed'
<1> SUFFICES ASSUME Typed, [Next]_vars PROVE Typed'
  OBVIOUS
<1> USE RecordTypes
<1>1. ASSUME NEW j \in Jobs, NEW ready \in BOOLEAN, Push(j, ready) PROVE Typed'
  <2>1. [id |-> j, attempt |-> 0, ready |-> ready] \in Message
    BY DEF Message
  <2>2. pending' \in Seq(Message) /\ delayed' \in Seq(Message)
    BY <1>1, <2>1, AppendJobs DEF Push, Insert, Typed, TypeOK
  <2> QED BY <1>1, <2>2 DEF Push, Typed, TypeOK, CallShape
<1>2. ASSUME NEW c \in Callers, PromoteDelayed(c) PROVE Typed'
  <2> DEFINE r == [call[c] EXCEPT !.at = "reaping", !.pops = TRUE]
  <2>1. call[c] \in Call /\ Shaped(call[c]) /\ call[c].at = "idle"
    BY <1>2 DEF Typed, CallShape, PromoteDelayed, Idle
  <2>2. r \in Call /\ Shaped(r)
    BY <2>1 DEF Call, Shaped
  <2>3. call' = [call EXCEPT ![c] = r]
    BY <1>2 DEF PromoteDelayed, Typed, TypeOK
  <2>4. pending' \in Seq(Message) /\ delayed' \in Seq(Message)
    <3>1. PICK u, v \in Seq(Message) : pending' = pending \o u /\ delayed' = v
      BY <1>2, PromotedLists
    <3>2. pending \in Seq(Message)
      BY DEF Typed, TypeOK
    <3>3. pending \o u \in Seq(Message)
      BY <3>2, ConcatJobs
    <3> QED BY <3>1, <3>3
  <2>5. call' \in [Callers -> Call] /\ CallShape'
    BY <2>2, <2>3, OneCall
  <2> QED BY <1>2, <2>4, <2>5 DEF PromoteDelayed, Typed, TypeOK, history
<1>3. ASSUME NEW c \in Callers, Stage(c) PROVE Typed'
  <2> DEFINE r == [call[c] EXCEPT !.at = "listing"]
  <2>1. call[c] \in Call /\ Shaped(call[c]) /\ call[c].at \in {"idle", "reaping"}
    BY <1>3 DEF Typed, CallShape, Stage, Idle
  <2>2. r \in Call /\ Shaped(r)
    BY <2>1 DEF Call, Shaped
  <2>3. call' = [call EXCEPT ![c] = r]
    BY <1>3 DEF Stage, Typed, TypeOK
  <2>4. call' \in [Callers -> Call] /\ CallShape'
    BY <2>2, <2>3, OneCall
  <2>5. /\ processing' \in SUBSET InFlight /\ reclaim' \in SUBSET Delivery
        /\ over' \in SUBSET Nat
    BY <1>3 DEF Stage, Typed, TypeOK, InFlight, Delivery
  <2> QED BY <1>3, <2>4, <2>5 DEF Stage, Typed, TypeOK
<1>4. ASSUME NEW c \in Callers, List(c) PROVE Typed'
  <2> DEFINE r == [call[c] EXCEPT !.at = "draining", !.staged = reclaim]
  <2>1. call[c] \in Call /\ Shaped(call[c]) /\ call[c].at = "listing"
    BY <1>4 DEF Typed, CallShape, List
  <2>2. r \in Call /\ Shaped(r)
    BY <2>1 DEF Call, Shaped, Typed, TypeOK
  <2>3. call' = [call EXCEPT ![c] = r]
    BY <1>4 DEF List, Typed, TypeOK
  <2>4. call' \in [Callers -> Call] /\ CallShape'
    BY <2>2, <2>3, OneCall
  <2> QED BY <1>4, <2>4 DEF List, Typed, TypeOK, redis, history
<1>5. ASSUME NEW c \in Callers, NEW e \in call[c].staged, Drain(c, e) PROVE Typed'
  <2> DEFINE r == [call[c] EXCEPT !.staged = @ \ {e}, !.handled = @ \/ e \in reclaim]
  <2>1. call[c] \in Call /\ Shaped(call[c]) /\ call[c].at = "draining" /\ e \in Delivery
    BY <1>5 DEF Typed, CallShape, Drain
  <2>2. r \in Call /\ Shaped(r)
    <3>1. (call[c].handled \/ e \in reclaim) \in BOOLEAN
      OBVIOUS
    <3> QED BY <2>1, <3>1 DEF Call, Shaped
  <2>3. call' = [call EXCEPT ![c] = r]
    BY <1>5 DEF Drain, Typed, TypeOK
  <2>4. call' \in [Callers -> Call] /\ CallShape'
    BY <2>2, <2>3, OneCall
  <2>5. /\ [id |-> e.id, lease |-> e.lease] \in DeadEntry
        /\ [id |-> e.id, attempt |-> e.attempt + 1, ready |-> TRUE] \in Message
    BY <2>1 DEF Delivery, DeadEntry, Message
  <2>6. dead' \in Seq(DeadEntry) /\ pending' \in Seq(Message)
    BY <1>5, <2>5, AppendJobs DEF Drain, Typed, TypeOK
  <2> QED BY <1>5, <2>4, <2>6 DEF Drain, Typed, TypeOK, history
<1>6. ASSUME NEW c \in Callers, EndDrain(c) PROVE Typed'
  <2> DEFINE r == IF call[c].pops THEN [IdleCall EXCEPT !.at = "popping"] ELSE IdleCall
  <2>1. [IdleCall EXCEPT !.at = "popping"] \in Call
    BY DEF IdleCall, Call
  <2>2. r \in Call /\ Shaped(r)
    BY <2>1 DEF Shaped, IdleCall
  <2>3. call' = [call EXCEPT ![c] = r]
    BY <1>6 DEF EndDrain, Typed, TypeOK
  <2>4. call' \in [Callers -> Call] /\ CallShape'
    BY <2>2, <2>3, OneCall
  <2>5. dead' \in Seq(DeadEntry) /\ discarded' \in SUBSET Jobs
    BY <1>6, TrimJobs, DeadJobs DEF EndDrain, KeepDead, Typed, TypeOK
  <2> QED BY <1>6, <2>4, <2>5 DEF EndDrain, Typed, TypeOK
<1>7. ASSUME NEW c \in Callers, Take(c) PROVE Typed'
  <2>1. call' \in [Callers -> Call] /\ CallShape'
    BY <1>7, IdleShaped, OneCall DEF Take
  <2>2. CASE pending = <<>>
    BY <1>7, <2>1, <2>2 DEF Take, Typed, TypeOK
  <2>3. CASE pending # <<>>
    <3>1. Tail(pending) \in Seq(Message) /\ Head(pending) \in Message
      BY <2>3, TailJobs DEF Typed, TypeOK
    <3>2. pending' \in Seq(Message)
      BY <1>7, <2>3, <3>1 DEF Take
    <3>3. /\ processing' \in SUBSET InFlight /\ deliveries' \in SUBSET Delivery
          /\ leases' \in Nat
      <4> DEFINE m == Head(pending)
      <4>1. /\ processing' = processing \cup {[id |-> m.id, attempt |-> m.attempt,
                                               lease |-> leases + 1, lapsed |-> FALSE]}
            /\ deliveries' = deliveries \cup {[id |-> m.id, attempt |-> m.attempt,
                                               lease |-> leases + 1]}
            /\ leases' = leases + 1
        BY <1>7, <2>3 DEF Take
      <4>2. m.id \in Jobs /\ m.attempt \in Nat /\ leases + 1 \in Nat
        BY <3>1 DEF Typed, TypeOK
      <4> HIDE DEF m
      <4>3. /\ [id |-> m.id, attempt |-> m.attempt, lease |-> leases + 1,
                lapsed |-> FALSE] \in InFlight
            /\ [id |-> m.id, attempt |-> m.attempt, lease |-> leases + 1] \in Delivery
        BY <4>2 DEF InFlight, Delivery
      <4> QED BY <4>1, <4>2, <4>3 DEF Typed, TypeOK
    <3> QED BY <1>7, <2>1, <3>2, <3>3 DEF Take, Typed, TypeOK
  <2> QED BY <2>2, <2>3
<1>8. ASSUME NEW d \in deliveries, Ack(d) PROVE Typed'
  <2>1. d \in Delivery
    BY DEF Typed, TypeOK
  <2>2. /\ processing' \subseteq processing /\ over' = over \cup {d.lease}
        /\ completed' = completed \cup {d.id}
        /\ UNCHANGED <<pending, delayed, reclaim, dead, call, leases, deliveries, submitted,
                       discarded, forked, dropped, faults>>
    BY <1>8 DEF Ack, Release
  <2>3. d.id \in Jobs /\ d.lease \in Nat
    BY <2>1 DEF Delivery
  <2> QED BY <2>2, <2>3 DEF Typed, TypeOK, CallShape
<1>9. ASSUME NEW c \in Callers, NEW d \in deliveries, NEW ready \in BOOLEAN,
             Nack(c, d, ready)
      PROVE  Typed'
  <2> DEFINE m == [id |-> d.id, attempt |-> d.attempt + 1, ready |-> ready]
             r == [call[c] EXCEPT !.at = "pushing", !.held = <<m>>]
  <2>1. d \in Delivery
    BY DEF Typed, TypeOK
  <2>2. m \in Message
    BY <2>1 DEF Message
  <2>3. call[c] \in Call /\ ~call[c].handled /\ call[c].held = <<>>
    BY <1>9, IdleFacts DEF Nack
  <2> HIDE DEF m
  <2>4. r \in Call /\ Shaped(r)
    <3>1. r = [call[c] EXCEPT !.at = "pushing", !.held = <<m>>]
      OBVIOUS
    <3> HIDE DEF r
    <3> QED BY <2>2, <2>3, <3>1, NowHolding
  <2>5. call' = [call EXCEPT ![c] = r]
    BY <1>9 DEF Nack, Typed, TypeOK, m
  <2> HIDE DEF r
  <2>6. call' \in [Callers -> Call] /\ CallShape'
    BY <2>4, <2>5, OneCall
  <2> QED BY <1>9, <2>1, <2>6 DEF Nack, Release, Typed, TypeOK
<1>10. ASSUME NEW c \in Callers, PushHeld(c) PROVE Typed'
  <2>1. call' \in [Callers -> Call] /\ CallShape'
    BY <1>10, IdleShaped, OneCall DEF PushHeld
  <2>2. Head(call[c].held) \in Message
    BY <1>10, HeldMessage DEF PushHeld
  <2>3. pending' \in Seq(Message) /\ delayed' \in Seq(Message)
    BY <1>10, <2>2, AppendJobs DEF PushHeld, Insert, Typed, TypeOK
  <2> QED BY <1>10, <2>1, <2>3 DEF PushHeld, Typed, TypeOK, history
<1>11. ASSUME NEW d \in deliveries, Extend(d) PROVE Typed'
  <2>1. processing' \in SUBSET InFlight
    BY <1>11 DEF Extend, Typed, TypeOK, InFlight
  <2> QED BY <1>11, <2>1 DEF Extend, Typed, TypeOK, CallShape, history
<1>12. ASSUME NEW d \in deliveries, DeadLetter(d) PROVE Typed'
  <2>1. d \in Delivery /\ [id |-> d.id, lease |-> d.lease] \in DeadEntry
    BY DEF Typed, TypeOK, Delivery, DeadEntry
  <2> DEFINE s == Append(dead, [id |-> d.id, lease |-> d.lease])
  <2>2. s \in Seq(DeadEntry)
    BY <2>1, AppendJobs DEF Typed, TypeOK
  <2>3. dead' = Trim(s) /\ discarded' = discarded \cup (JobsOf(s) \ JobsOf(Trim(s)))
    BY <1>12 DEF DeadLetter, KeepDead
  <2> HIDE DEF s
  <2>4. dead' \in Seq(DeadEntry) /\ discarded' \in SUBSET Jobs
    BY <2>2, <2>3, TrimJobs, DeadJobs DEF Typed, TypeOK
  <2>5. /\ processing' \in SUBSET InFlight /\ over' \in SUBSET Nat
        /\ forked' \in SUBSET Jobs
    BY <1>12, <2>1 DEF DeadLetter, Release, Typed, TypeOK
  <2> QED BY <1>12, <2>4, <2>5 DEF DeadLetter, Typed, TypeOK, CallShape
<1>13. ASSUME NEW c \in Callers, NEW i \in DOMAIN dead, FindDead(c, i) PROVE Typed'
  <2> DEFINE r == [call[c] EXCEPT !.at = "removing", !.found = <<dead[i]>>]
  <2>1. call[c] \in Call /\ ~call[c].handled /\ call[c].held = <<>>
    BY <1>13, IdleFacts DEF FindDead
  <2>2. dead[i] \in DeadEntry
    BY DEF Typed, TypeOK
  <2>3. r \in Call /\ Shaped(r)
    <3>1. r = [call[c] EXCEPT !.at = "removing", !.found = <<dead[i]>>]
      OBVIOUS
    <3> HIDE DEF r
    <3> QED BY <2>1, <2>2, <3>1, NowRemoving
  <2>4. call' = [call EXCEPT ![c] = r]
    BY <1>13 DEF FindDead, Typed, TypeOK
  <2>5. call' \in [Callers -> Call] /\ CallShape'
    BY <2>3, <2>4, OneCall
  <2> QED BY <1>13, <2>5 DEF FindDead, Typed, TypeOK, redis, history
<1>14. ASSUME NEW c \in Callers, RemoveDead(c) PROVE Typed'
  <2> DEFINE e == Head(call[c].found)
             m == Fresh(e.id)
             r == [IdleCall EXCEPT !.at = "pushing", !.held = <<m>>]
  <2>1. e.id \in Jobs
    BY <1>14, FoundEntry DEF RemoveDead
  <2>2. CASE dead' = dead /\ call' = [call EXCEPT ![c] = IdleCall]
    <3>1. call' \in [Callers -> Call] /\ CallShape'
      BY <2>2, IdleShaped, OneCall
    <3> QED BY <1>14, <2>2, <3>1 DEF RemoveDead, Typed, TypeOK, history
  <2>3. ASSUME NEW i \in DOMAIN dead, dead' = RemoveAt(dead, i),
               call' = [call EXCEPT ![c] = r]
        PROVE  Typed'
    <3>1. m \in Message
      BY <2>1
    <3> HIDE DEF m
    <3>2. r \in Call /\ Shaped(r)
      <4>1. IdleCall \in Call /\ ~IdleCall.handled
        BY IdleShaped DEF IdleCall
      <4> QED BY <3>1, <4>1, NowHolding
    <3> HIDE DEF r
    <3>3. call' \in [Callers -> Call] /\ CallShape'
      BY <2>3, <3>2, OneCall
    <3>4. dead' \in Seq(DeadEntry)
      BY <2>3, RemoveAtJobs DEF Typed, TypeOK
    <3> QED BY <1>14, <3>3, <3>4 DEF RemoveDead, Typed, TypeOK, history
  <2> QED BY <1>14, <2>2, <2>3 DEF RemoveDead
<1>15. ASSUME NEW c \in Callers, TakeDead(c) PROVE Typed'
  <2> DEFINE m == Fresh(Head(dead).id)
             r == [call[c] EXCEPT !.at = "pushing", !.held = <<m>>]
  <2>1. Tail(dead) \in Seq(DeadEntry) /\ Head(dead) \in DeadEntry
    BY <1>15, TailJobs DEF TakeDead, Typed, TypeOK
  <2>2. m \in Message
    BY <2>1 DEF DeadEntry
  <2>3. call[c] \in Call /\ ~call[c].handled /\ call[c].held = <<>>
    BY <1>15, IdleFacts DEF TakeDead
  <2>4. call' = [call EXCEPT ![c] = r]
    BY <1>15 DEF TakeDead, Typed, TypeOK
  <2> HIDE DEF m
  <2>5. r \in Call /\ Shaped(r)
    <3>1. r = [call[c] EXCEPT !.at = "pushing", !.held = <<m>>]
      OBVIOUS
    <3> HIDE DEF r
    <3> QED BY <2>2, <2>3, <3>1, NowHolding
  <2> HIDE DEF r
  <2>6. call' \in [Callers -> Call] /\ CallShape'
    BY <2>4, <2>5, OneCall
  <2> QED BY <1>15, <2>1, <2>6 DEF TakeDead, Typed, TypeOK, history
<1>16. CASE PurgeDeadLetters
  <2>1. JobsOf(dead) \subseteq Jobs
    BY DeadJobs DEF Typed, TypeOK
  <2> QED BY <1>16, <2>1 DEF PurgeDeadLetters, Typed, TypeOK, CallShape
<1>17. ASSUME NEW c \in Callers, Abort(c) PROVE Typed'
  <2>1. call' \in [Callers -> Call] /\ CallShape'
    BY <1>17, IdleShaped, OneCall DEF Abort
  <2>2. JobsOf(call[c].held) \subseteq Jobs
    BY MessageJobs
  <2>3. faults' \in 0..MaxFaults
    BY <1>17, RedisAssumption DEF Abort, Typed, TypeOK
  <2> QED BY <1>17, <2>1, <2>2, <2>3 DEF Abort, Typed, TypeOK, redis, history
<1>18. ASSUME NEW i \in DOMAIN delayed, Ripen(i) PROVE Typed'
  <2>1. delayed[i] \in Message
    BY DEF Typed, TypeOK
  <2>2. [delayed[i] EXCEPT !.ready = TRUE] \in Message
    BY <2>1 DEF Message
  <2>3. delayed' \in Seq(Message)
    BY <1>18, <2>2 DEF Ripen, Typed, TypeOK
  <2> QED BY <1>18, <2>3 DEF Ripen, Typed, TypeOK, CallShape, history
<1>19. ASSUME NEW e \in processing, Lapse(e) PROVE Typed'
  <2>1. processing' \in SUBSET InFlight
    BY <1>19 DEF Lapse, Typed, TypeOK, InFlight
  <2> QED BY <1>19, <2>1 DEF Lapse, Typed, TypeOK, CallShape, history
<1>20. CASE UNCHANGED vars
  BY <1>20 DEF vars, redis, history, Typed, TypeOK, CallShape
<1> QED
  BY <1>1, <1>2, <1>3, <1>4, <1>5, <1>6, <1>7, <1>8, <1>9, <1>10, <1>11, <1>12, <1>13,
     <1>14, <1>15, <1>16, <1>17, <1>18, <1>19, <1>20 DEF Next, PopStep

-----------------------------------------------------------------------------
(* Leases: who holds what *)

\* The delivery an in-flight entry was made for.
DeliveryOf(e) == [id |-> e.id, attempt |-> e.attempt, lease |-> e.lease]

\* A lease names one delivery; it has one in-flight entry until it is over, and
\* the entries in the staging list are of deliveries whose lease is over.
LeasesSound ==
  /\ over \subseteq 1..leases
  /\ \A d \in deliveries : d.lease \in 1..leases
  /\ \A d, e \in deliveries : d.lease = e.lease => d = e
  /\ \A e \in processing : DeliveryOf(e) \in deliveries /\ e.lease \notin over
  /\ \A e, f \in processing : e.lease = f.lease => e = f
  /\ \A e \in reclaim : e \in deliveries /\ e.lease \in over
  /\ \A d \in deliveries : Holds(d) \/ d.lease \in over

\* A step that touches neither the entries nor the leases.
LEMMA LeasesFrame ==
  ASSUME LeasesSound, UNCHANGED <<processing, reclaim, leases, deliveries, over>>
  PROVE  LeasesSound'
BY DEF LeasesSound, Holds, OwnedBy

\* The entry of a delivery that still holds its lease is that delivery's.
LEMMA OwnEntry ==
  ASSUME Typed, LeasesSound, NEW d \in deliveries, NEW e \in OwnedBy(d)
  PROVE  /\ e \in processing /\ OwnedBy(d) = {e} /\ DeliveryOf(e) = d
         /\ e.id = d.id
<1>1. e \in processing /\ e.lease = d.lease
  BY DEF OwnedBy
<1>2. DeliveryOf(e) \in deliveries /\ DeliveryOf(e).lease = d.lease
  BY <1>1 DEF LeasesSound, DeliveryOf
<1>3. DeliveryOf(e) = d
  BY <1>2 DEF LeasesSound
<1>4. \A f \in OwnedBy(d) : f = e
  BY <1>1 DEF LeasesSound, OwnedBy
<1>5. e.id = DeliveryOf(e).id
  BY DEF DeliveryOf
<1> QED BY <1>1, <1>3, <1>4, <1>5

\* Acking, nacking or dead-lettering ends the lease and removes its entry.
LEMMA ReleaseLeases ==
  ASSUME Typed, LeasesSound, NEW d \in deliveries, Release(d),
         UNCHANGED <<reclaim, leases, deliveries>>
  PROVE  LeasesSound'
<1>1. /\ processing' = {e \in processing : e.lease # d.lease}
      /\ over' = over \cup {d.lease}
  BY DEF Release, OwnedBy
<1>2. over' \subseteq 1..leases
  BY <1>1 DEF LeasesSound
<1>3. /\ \A e \in processing' : DeliveryOf(e) \in deliveries /\ e.lease \notin over'
      /\ \A e, f \in processing' : e.lease = f.lease => e = f
      /\ \A e \in reclaim : e \in deliveries /\ e.lease \in over'
  BY <1>1 DEF LeasesSound
<1>4. ASSUME NEW x \in deliveries PROVE Holds(x)' \/ x.lease \in over'
  <2>1. CASE x.lease = d.lease
    BY <1>1, <2>1
  <2>2. CASE x.lease # d.lease
    BY <1>1, <2>2 DEF LeasesSound, Holds, OwnedBy
  <2> QED BY <2>1, <2>2
<1> QED BY <1>2, <1>3, <1>4 DEF LeasesSound

\* REAP_SCRIPT moves the lapsed entries to the staging list and ends their leases.
LEMMA StageLeases ==
  ASSUME Typed, LeasesSound, NEW c \in Callers, Stage(c)
  PROVE  LeasesSound'
<1> DEFINE expired == {e \in processing : e.lapsed}
<1>1. /\ processing' = processing \ expired
      /\ reclaim' = reclaim \cup {DeliveryOf(e) : e \in expired}
      /\ over' = over \cup {e.lease : e \in expired}
      /\ UNCHANGED <<leases, deliveries>>
  BY DEF Stage, DeliveryOf
<1>2. \A e \in processing : DeliveryOf(e) \in deliveries /\ DeliveryOf(e).lease = e.lease
  BY DEF LeasesSound, DeliveryOf
<1> HIDE DEF expired
<1>3. expired \subseteq processing
  BY DEF expired
<1>4. over' \subseteq 1..leases
  BY <1>1, <1>2, <1>3 DEF LeasesSound
<1>5. \A e \in processing' : DeliveryOf(e) \in deliveries /\ e.lease \notin over'
  BY <1>1, <1>2, <1>3 DEF LeasesSound
<1>6. \A e \in reclaim' : e \in deliveries /\ e.lease \in over'
  BY <1>1, <1>2, <1>3 DEF LeasesSound
<1>7. ASSUME NEW d \in deliveries PROVE Holds(d)' \/ d.lease \in over'
  <2>1. CASE d.lease \in over
    BY <1>1, <2>1
  <2>2. CASE Holds(d)
    BY <1>1, <1>3, <2>2 DEF Holds, OwnedBy
  <2> QED BY <2>1, <2>2 DEF LeasesSound
<1> QED BY <1>1, <1>3, <1>4, <1>5, <1>6, <1>7 DEF LeasesSound

\* POP_SCRIPT hands the message out under a lease no delivery ever had.
LEMMA TakeLeases ==
  ASSUME Typed, LeasesSound, NEW c \in Callers, Take(c), pending # <<>>
  PROVE  LeasesSound'
<1> DEFINE m == Head(pending)
           d == [id |-> m.id, attempt |-> m.attempt, lease |-> leases + 1]
           e == [id |-> m.id, attempt |-> m.attempt, lease |-> leases + 1, lapsed |-> FALSE]
<1>1. /\ processing' = processing \cup {e}
      /\ leases' = leases + 1
      /\ deliveries' = deliveries \cup {d}
      /\ UNCHANGED <<reclaim, over>>
  BY DEF Take
<1>2. e.lease = leases + 1 /\ d.lease = leases + 1 /\ DeliveryOf(e) = d
  BY DEF DeliveryOf
<1> HIDE DEF d, e
<1>3. leases \in Nat /\ leases + 1 \notin 1..leases /\ 1..leases \subseteq 1..(leases + 1)
      /\ leases + 1 \in 1..(leases + 1)
  BY DEF Typed, TypeOK
<1>4. over' \subseteq 1..leases' /\ \A x \in deliveries' : x.lease \in 1..leases'
  BY <1>1, <1>2, <1>3 DEF LeasesSound
<1>5. \A x, y \in deliveries' : x.lease = y.lease => x = y
  BY <1>1, <1>2, <1>3 DEF LeasesSound
<1>6. /\ \A x \in processing : x.lease \in 1..leases
      /\ \A x \in processing' : DeliveryOf(x) \in deliveries' /\ x.lease \notin over'
  <2>1. \A x \in processing : x.lease = DeliveryOf(x).lease
    BY DEF DeliveryOf
  <2> QED BY <1>1, <1>2, <1>3, <2>1 DEF LeasesSound
<1>7. \A x, y \in processing' : x.lease = y.lease => x = y
  BY <1>1, <1>2, <1>3, <1>6 DEF LeasesSound
<1>8. \A x \in reclaim' : x \in deliveries' /\ x.lease \in over'
  BY <1>1 DEF LeasesSound
<1>9. ASSUME NEW x \in deliveries' PROVE Holds(x)' \/ x.lease \in over'
  BY <1>1, <1>2 DEF LeasesSound, Holds, OwnedBy
<1> QED BY <1>4, <1>5, <1>6, <1>7, <1>8, <1>9 DEF LeasesSound

\* EXTEND_SCRIPT and the passing of time change when a lease lapses, not whose it is.
LEMMA SameLeases ==
  ASSUME LeasesSound, UNCHANGED <<reclaim, leases, deliveries, over>>,
         NEW h \in [processing -> processing'],
         \A e \in processing : DeliveryOf(h[e]) = DeliveryOf(e),
         \A f \in processing' : \E e \in processing : f = h[e]
  PROVE  LeasesSound'
<1>1. \A e \in processing : h[e] \in processing' /\ h[e].lease = e.lease
  <2> TAKE e \in processing
  <2>1. DeliveryOf(h[e]).lease = DeliveryOf(e).lease
    OBVIOUS
  <2> QED BY <2>1 DEF DeliveryOf
<1>2. \A f \in processing' : DeliveryOf(f) \in deliveries /\ f.lease \notin over
  BY <1>1 DEF LeasesSound
<1>3. \A f, g \in processing' : f.lease = g.lease => f = g
  BY <1>1 DEF LeasesSound
<1>4. \A d \in deliveries : Holds(d) => Holds(d)'
  BY <1>1 DEF Holds, OwnedBy
<1> QED BY <1>2, <1>3, <1>4 DEF LeasesSound

\* What EXTEND_SCRIPT or the passing of time makes of each in-flight entry.
Touched(h) ==
  /\ \A e \in processing : DeliveryOf(h[e]) = DeliveryOf(e)
  /\ \A f \in processing' : \E e \in processing : f = h[e]

\* EXTEND_SCRIPT and the passing of time change an entry's lease and nothing else.
LEMMA TouchedEntries ==
  ASSUME Typed,
         \/ \E d \in deliveries : Extend(d)
         \/ \E e \in processing : Lapse(e)
  PROVE  /\ \E h \in [processing -> processing'] : Touched(h)
         /\ UNCHANGED <<pending, delayed, reclaim, dead, call, history, dropped, faults>>
<1>1. ASSUME NEW d \in deliveries, Extend(d)
      PROVE  \E h \in [processing -> processing'] : Touched(h)
  <2> DEFINE h == [e \in processing |->
                     IF e.lease = d.lease THEN [e EXCEPT !.lapsed = FALSE] ELSE e]
  <2>1. h \in [processing -> processing']
    BY <1>1 DEF Extend
  <2>2. \A f \in processing' : \E e \in processing : f = h[e]
    BY <1>1 DEF Extend
  <2>3. \A e \in processing : DeliveryOf(h[e]) = DeliveryOf(e)
    BY DEF DeliveryOf, Typed, TypeOK, InFlight
  <2> HIDE DEF h
  <2> QED BY <2>1, <2>2, <2>3 DEF Touched
<1>2. ASSUME NEW x \in processing, Lapse(x)
      PROVE  \E h \in [processing -> processing'] : Touched(h)
  <2> DEFINE h == [e \in processing |-> IF e = x THEN [e EXCEPT !.lapsed = TRUE] ELSE e]
  <2>1. h \in [processing -> processing']
    BY <1>2 DEF Lapse
  <2>2. \A f \in processing' : \E e \in processing : f = h[e]
    BY <1>2 DEF Lapse
  <2>3. \A e \in processing : DeliveryOf(h[e]) = DeliveryOf(e)
    BY DEF DeliveryOf, Typed, TypeOK, InFlight
  <2> HIDE DEF h
  <2> QED BY <2>1, <2>2, <2>3 DEF Touched
<1>3. UNCHANGED <<pending, delayed, reclaim, dead, call, history, dropped, faults>>
  BY DEF Extend, Lapse
<1> QED BY <1>1, <1>2, <1>3

\* Every step keeps the leases sound.
LEMMA LeasesInductive == Typed /\ LeasesSound /\ [Next]_vars => LeasesSound'
<1> SUFFICES ASSUME Typed, LeasesSound, [Next]_vars PROVE LeasesSound'
  OBVIOUS
<1>1. CASE UNCHANGED <<processing, reclaim, leases, deliveries, over>>
  BY <1>1, LeasesFrame
<1>2. ASSUME NEW j \in Jobs, NEW ready \in BOOLEAN, Push(j, ready) PROVE LeasesSound'
  BY <1>1, <1>2 DEF Push
<1>3. ASSUME NEW c \in Callers, PopStep(c) PROVE LeasesSound'
  <2>1. CASE Stage(c)
    BY <2>1, StageLeases
  <2>2. ASSUME NEW e \in call[c].staged, Drain(c, e) PROVE LeasesSound'
    <3>1. /\ reclaim' \subseteq reclaim
          /\ UNCHANGED <<processing, leases, deliveries, over>>
      BY <2>2 DEF Drain, history
    <3>2. \A d \in deliveries : Holds(d)' = Holds(d)
      BY <3>1 DEF Holds, OwnedBy
    <3> QED BY <3>1, <3>2 DEF LeasesSound
  <2>3. CASE Take(c)
    <3>1. CASE pending = <<>>
      BY <1>1, <2>3, <3>1 DEF Take
    <3> QED BY <2>3, <3>1, TakeLeases
  <2>4. CASE PromoteDelayed(c) \/ List(c) \/ EndDrain(c)
    BY <1>1, <2>4 DEF PromoteDelayed, List, EndDrain, redis, history
  <2> QED BY <1>3, <2>1, <2>2, <2>3, <2>4 DEF PopStep
<1>4. ASSUME NEW c \in Callers,
             PushHeld(c) \/ RemoveDead(c) \/ TakeDead(c) \/ Abort(c)
      PROVE  LeasesSound'
  BY <1>1, <1>4 DEF PushHeld, RemoveDead, TakeDead, Abort, redis, history
<1>5. ASSUME NEW c \in Callers, NEW i \in DOMAIN dead, FindDead(c, i) PROVE LeasesSound'
  BY <1>1, <1>5 DEF FindDead, redis, history
<1>6. ASSUME NEW c \in Callers, NEW d \in deliveries, NEW ready \in BOOLEAN,
             Nack(c, d, ready)
      PROVE  LeasesSound'
  BY <1>6, ReleaseLeases DEF Nack
<1>7. ASSUME NEW d \in deliveries, Ack(d) PROVE LeasesSound'
  BY <1>7, ReleaseLeases DEF Ack
<1>8. ASSUME NEW d \in deliveries, DeadLetter(d) PROVE LeasesSound'
  <2>1. UNCHANGED <<reclaim, leases, deliveries>>
    BY <1>8 DEF DeadLetter
  <2>2. CASE Release(d)
    BY <2>1, <2>2, ReleaseLeases
  <2>3. CASE UNCHANGED <<processing, over>>
    BY <1>1, <2>1, <2>3
  <2> QED BY <1>8, <2>2, <2>3 DEF DeadLetter
<1>9. CASE (\E d \in deliveries : Extend(d)) \/ (\E e \in processing : Lapse(e))
  <2>1. UNCHANGED <<reclaim, leases, deliveries, over>>
    BY <1>9, TouchedEntries DEF history
  <2>2. PICK h \in [processing -> processing'] : Touched(h)
    BY <1>9, TouchedEntries
  <2> QED BY <2>1, <2>2, SameLeases DEF Touched
<1>10. CASE PurgeDeadLetters
  BY <1>1, <1>10 DEF PurgeDeadLetters
<1>11. ASSUME NEW i \in DOMAIN delayed, Ripen(i) PROVE LeasesSound'
  BY <1>1, <1>11 DEF Ripen, history
<1>12. CASE UNCHANGED vars
  BY <1>1, <1>12 DEF vars, redis, history
<1> QED
  BY <1>2, <1>3, <1>4, <1>5, <1>6, <1>7, <1>8, <1>9, <1>10, <1>11, <1>12 DEF Next

-----------------------------------------------------------------------------
(* What each step does to the messages that callers hold *)

HeldSame == \A b \in Callers : call'[b].held = call[b].held
Handed(c, s) == /\ call'[c].held = s
                /\ \A b \in Callers \ {c} : call'[b].held = call[b].held

\* A caller holds nothing except between the two commands.
LEMMA NothingHeld ==
  ASSUME Typed, NEW c \in Callers, call[c].at # "pushing"
  PROVE  call[c].held = <<>>
BY DEF Typed, CallShape, Shaped

\* The steps of pop() and the lookup of a re-drive leave what is held.
LEMMA PopHolds ==
  ASSUME Typed, NEW c \in Callers,
         \/ PopStep(c)
         \/ \E i \in DOMAIN dead : FindDead(c, i)
  PROVE  HeldSame
<1> USE DEF HeldSame
<1>1. call \in [Callers -> Call] /\ \A b \in Callers : call[b] \in Call
  BY DEF Typed, TypeOK
<1>2. CASE PromoteDelayed(c)
  <2>1. call' = [call EXCEPT ![c] = [call[c] EXCEPT !.at = "reaping", !.pops = TRUE]]
    BY <1>1, <1>2 DEF PromoteDelayed
  <2> QED BY <1>1, <2>1 DEF Call
<1>3. CASE Stage(c) \/ List(c)
  <2>1. \/ call' = [call EXCEPT ![c] = [call[c] EXCEPT !.at = "listing"]]
        \/ call' = [call EXCEPT ![c] = [call[c] EXCEPT !.at = "draining", !.staged = reclaim]]
    <3>1. CASE Stage(c)
      BY <1>1, <3>1 DEF Stage
    <3>2. CASE List(c)
      BY <1>1, <3>2 DEF List
    <3> QED BY <1>3, <3>1, <3>2
  <2>2. CASE call' = [call EXCEPT ![c] = [call[c] EXCEPT !.at = "listing"]]
    BY <1>1, <2>2 DEF Call
  <2>3. CASE call' = [call EXCEPT ![c] = [call[c] EXCEPT !.at = "draining", !.staged = reclaim]]
    BY <1>1, <2>3 DEF Call
  <2> QED BY <2>1, <2>2, <2>3
<1>4. ASSUME NEW e \in call[c].staged, Drain(c, e) PROVE HeldSame
  BY <1>1, <1>4 DEF Drain, Call
<1>5. CASE EndDrain(c) \/ Take(c)
  <2>1. call[c].held = <<>>
    BY <1>5, NothingHeld DEF EndDrain, Take
  <2>2. \E r : r.held = <<>> /\ call' = [call EXCEPT ![c] = r]
    <3>1. IdleCall.held = <<>> /\ [IdleCall EXCEPT !.at = "popping"].held = <<>>
      BY DEF IdleCall
    <3>2. CASE Take(c)
      BY <3>1, <3>2 DEF Take
    <3>3. CASE EndDrain(c)
      BY <3>1, <3>3 DEF EndDrain
    <3> QED BY <1>5, <3>2, <3>3
  <2> QED BY <1>1, <2>1, <2>2
<1>6. ASSUME NEW i \in DOMAIN dead, FindDead(c, i) PROVE HeldSame
  <2> DEFINE w == <<dead[i]>>
  <2>1. call' = [call EXCEPT ![c] = [call[c] EXCEPT !.at = "removing", !.found = w]]
    BY <1>1, <1>6 DEF FindDead
  <2> HIDE DEF w
  <2> QED BY <1>1, <2>1 DEF Call
<1> QED BY <1>2, <1>3, <1>4, <1>5, <1>6 DEF PopStep

\* nack() takes the message into its hand ...
LEMMA NackHolds ==
  ASSUME Typed, NEW c \in Callers, NEW d \in deliveries, NEW ready \in BOOLEAN,
         Nack(c, d, ready)
  PROVE  /\ call[c].held = <<>>
         /\ Handed(c, <<[id |-> d.id, attempt |-> d.attempt + 1, ready |-> ready]>>)
<1> DEFINE w == <<[id |-> d.id, attempt |-> d.attempt + 1, ready |-> ready]>>
<1>1. call \in [Callers -> Call] /\ \A b \in Callers : call[b] \in Call
  BY DEF Typed, TypeOK
<1>2. call' = [call EXCEPT ![c] = [call[c] EXCEPT !.at = "pushing", !.held = w]]
  BY <1>1 DEF Nack
<1>3. call[c].held = <<>>
  BY NothingHeld DEF Nack, Idle
<1> HIDE DEF w
<1>4. Handed(c, w)
  BY <1>1, <1>2 DEF Handed, Call
<1> QED BY <1>3, <1>4 DEF w

\* ... and so does the call that removed the entry of a job from the dead-letter queue.
LEMMA RemoveHolds ==
  ASSUME Typed, NEW c \in Callers, RemoveDead(c)
  PROVE  /\ call[c].held = <<>>
         /\ \/ HeldSame /\ dead' = dead
            \/ \E i \in DOMAIN dead :
                 /\ dead[i].id = Head(call[c].found).id
                 /\ dead' = RemoveAt(dead, i)
                 /\ Handed(c, <<Fresh(dead[i].id)>>)
<1> DEFINE w == <<Fresh(Head(call[c].found).id)>>
<1>1. call \in [Callers -> Call] /\ \A b \in Callers : call[b] \in Call
  BY DEF Typed, TypeOK
<1>2. call[c].held = <<>>
  BY NothingHeld DEF RemoveDead
<1>3. \/ dead' = dead /\ call' = [call EXCEPT ![c] = IdleCall]
      \/ \E i \in DOMAIN dead :
           /\ dead[i] = Head(call[c].found)
           /\ dead' = RemoveAt(dead, i)
           /\ call' = [call EXCEPT ![c] = [IdleCall EXCEPT !.at = "pushing", !.held = w]]
  BY DEF RemoveDead
<1> HIDE DEF w
<1>4. CASE dead' = dead /\ call' = [call EXCEPT ![c] = IdleCall]
  BY <1>1, <1>2, <1>4 DEF HeldSame, IdleCall
<1>5. ASSUME NEW i \in DOMAIN dead, dead[i] = Head(call[c].found),
             dead' = RemoveAt(dead, i),
             call' = [call EXCEPT ![c] = [IdleCall EXCEPT !.at = "pushing", !.held = w]]
      PROVE  dead[i].id = Head(call[c].found).id /\ Handed(c, <<Fresh(dead[i].id)>>)
  <2>1. Handed(c, w)
    BY <1>1, <1>5 DEF Handed, IdleCall
  <2> QED BY <1>5, <2>1 DEF w
<1> QED BY <1>2, <1>3, <1>4, <1>5

\* A round of redriveDeadLetters() holds the oldest dead job.
LEMMA TakeHolds ==
  ASSUME Typed, NEW c \in Callers, TakeDead(c)
  PROVE  /\ call[c].held = <<>>
         /\ Handed(c, <<Fresh(Head(dead).id)>>)
<1> DEFINE w == <<Fresh(Head(dead).id)>>
<1>1. call \in [Callers -> Call] /\ \A b \in Callers : call[b] \in Call
  BY DEF Typed, TypeOK
<1>2. call' = [call EXCEPT ![c] = [call[c] EXCEPT !.at = "pushing", !.held = w]]
  BY <1>1 DEF TakeDead
<1>3. call[c].held = <<>>
  BY NothingHeld DEF TakeDead, Idle
<1> HIDE DEF w
<1>4. Handed(c, w)
  BY <1>1, <1>2 DEF Handed, Call
<1> QED BY <1>3, <1>4 DEF w

\* The push, or an interruption, empties the hand.
LEMMA EmptyHand ==
  ASSUME Typed, NEW c \in Callers, PushHeld(c) \/ Abort(c)
  PROVE  Handed(c, <<>>)
BY DEF Handed, PushHeld, Abort, IdleCall, Typed, TypeOK

-----------------------------------------------------------------------------
(* The retry budget *)

\* No message of a list has used more attempts than its job has.
WithinBudget(s) == \A i \in DOMAIN s : s[i].attempt <= MaxRetries[s[i].id]

Budget ==
  /\ WithinBudget(pending) /\ WithinBudget(delayed)
  /\ \A c \in Callers : WithinBudget(call[c].held)
  /\ \A d \in deliveries : d.attempt <= MaxRetries[d.id]

\* A push of a message within its budget.
LEMMA WithinAppend ==
  ASSUME NEW s \in Seq(Message), NEW m \in Message, WithinBudget(s),
         m.attempt <= MaxRetries[m.id]
  PROVE  WithinBudget(Append(s, m))
<1> DEFINE t == Append(s, m)
<1>1. \A k \in DOMAIN t : (k \in DOMAIN s /\ t[k] = s[k]) \/ t[k] = m
  OBVIOUS
<1> HIDE DEF t
<1> QED BY <1>1 DEF WithinBudget, t

\* A list of messages of lists within their budget.
LEMMA WithinParts ==
  ASSUME NEW s, NEW t, WithinBudget(s),
         \A k \in DOMAIN t : \E i \in DOMAIN s : t[k] = s[i]
  PROVE  WithinBudget(t)
BY DEF WithinBudget

\* An entry of a concatenation is an entry of one of its parts.
LEMMA ConcatParts ==
  ASSUME NEW S, NEW s \in Seq(S), NEW t \in Seq(S), NEW k \in DOMAIN (s \o t)
  PROVE  \/ \E i \in DOMAIN s : (s \o t)[k] = s[i]
         \/ \E i \in DOMAIN t : (s \o t)[k] = t[i]
<1> DEFINE u == s \o t
<1>1. /\ u \in Seq(S) /\ Len(u) = Len(s) + Len(t)
      /\ \A i \in 1..(Len(s) + Len(t)) : u[i] = IF i <= Len(s) THEN s[i] ELSE t[i - Len(s)]
  BY ConcatProperties
<1>2. k \in DOMAIN u
  OBVIOUS
<1> HIDE DEF u
<1>3. k \in 1..(Len(s) + Len(t))
  BY <1>1, <1>2
<1>4. CASE k <= Len(s)
  BY <1>1, <1>3, <1>4 DEF u
<1>5. CASE ~(k <= Len(s))
  <2>1. k - Len(s) \in DOMAIN t
    BY <1>3, <1>5
  <2>2. u[k] = t[k - Len(s)]
    BY <1>1, <1>3, <1>5
  <2> QED BY <2>1, <2>2 DEF u
<1> QED BY <1>4, <1>5

\* Two lists within the budget, one after the other.
LEMMA WithinConcat ==
  ASSUME NEW s \in Seq(Message), NEW t \in Seq(Message), WithinBudget(s), WithinBudget(t)
  PROVE  WithinBudget(s \o t)
BY ConcatParts DEF WithinBudget

\* Every step keeps what waits and what is handed out within the budget.
LEMMA BudgetInductive == Typed /\ LeasesSound /\ Budget /\ [Next]_vars => Budget'
<1> SUFFICES ASSUME Typed, LeasesSound, Budget, [Next]_vars PROVE Budget'
  OBVIOUS
<1>1. \A j \in Jobs : MaxRetries[j] \in Nat
  BY RedisAssumption
<1>2. /\ pending \in Seq(Message) /\ delayed \in Seq(Message)
      /\ deliveries \subseteq Delivery /\ \A c \in Callers : call[c].held \in Seq(Message)
  BY RecordTypes DEF Typed, TypeOK
<1>3. CASE UNCHANGED <<pending, delayed, deliveries>> /\ HeldSame
  BY <1>3 DEF Budget, WithinBudget, HeldSame
<1>4. WithinBudget(<<>>) /\ \A m \in Message : m.attempt <= MaxRetries[m.id] => WithinBudget(<<m>>)
  BY DEF WithinBudget
<1>5. ASSUME NEW c \in Callers, NEW s \in Seq(Message), Handed(c, s), WithinBudget(s)
      PROVE  \A b \in Callers : WithinBudget(call'[b].held)
  BY <1>5 DEF Handed, Budget
<1>6. ASSUME NEW m \in Message, m.attempt <= MaxRetries[m.id], Insert(m)
      PROVE  WithinBudget(pending') /\ WithinBudget(delayed')
  BY <1>2, <1>6, WithinAppend DEF Insert, Budget
<1>7. ASSUME NEW j \in Jobs, NEW ready \in BOOLEAN, Push(j, ready) PROVE Budget'
  <2> DEFINE m == [id |-> j, attempt |-> 0, ready |-> ready]
  <2>1. m \in Message /\ m.attempt <= MaxRetries[m.id]
    BY <1>1 DEF Message
  <2>2. Insert(m) /\ UNCHANGED <<call, deliveries>>
    BY <1>7 DEF Push
  <2> HIDE DEF m
  <2> QED BY <1>6, <2>1, <2>2 DEF Budget
<1>8. ASSUME NEW c \in Callers, PopStep(c) PROVE Budget'
  <2>1. HeldSame
    BY <1>8, PopHolds
  <2>2. CASE PromoteDelayed(c)
    <3>1. PICK u, v \in Seq(Message) :
            /\ pending' = pending \o u /\ delayed' = v
            /\ \A k \in DOMAIN u : \E i \in DOMAIN delayed : u[k] = delayed[i]
            /\ \A k \in DOMAIN v : \E i \in DOMAIN delayed : v[k] = delayed[i]
      BY <2>2, PromotedLists
    <3>2. WithinBudget(u) /\ WithinBudget(v)
      BY <3>1, WithinParts DEF Budget
    <3>3. WithinBudget(pending')
      BY <1>2, <3>1, <3>2, WithinConcat DEF Budget
    <3> QED BY <2>1, <2>2, <3>1, <3>2, <3>3 DEF PromoteDelayed, history, Budget, HeldSame
  <2>3. ASSUME NEW e \in call[c].staged, Drain(c, e) PROVE Budget'
    <3> DEFINE m == [id |-> e.id, attempt |-> e.attempt + 1, ready |-> TRUE]
    <3>1. e \in Delivery
      BY RecordTypes
    <3>2. m \in Message /\ (~Exhausted(e) => m.attempt <= MaxRetries[m.id])
      BY <1>1, <3>1 DEF Exhausted, Message, Delivery
    <3>3. /\ (pending' = Append(pending, m) /\ ~Exhausted(e)) \/ pending' = pending
          /\ UNCHANGED <<delayed, deliveries>>
      BY <2>3 DEF Drain, history
    <3> HIDE DEF m
    <3>4. WithinBudget(pending')
      BY <1>2, <3>2, <3>3, WithinAppend DEF Budget
    <3> QED BY <2>1, <3>3, <3>4 DEF Budget, HeldSame
  <2>4. CASE Take(c)
    <3>1. CASE pending = <<>>
      BY <1>3, <2>1, <2>4, <3>1 DEF Take
    <3>2. CASE pending # <<>>
      <4> DEFINE m == Head(pending)
      <4>1. /\ pending' = Tail(pending) /\ UNCHANGED delayed
            /\ deliveries' = deliveries \cup {[id |-> m.id, attempt |-> m.attempt,
                                               lease |-> leases + 1]}
        BY <2>4, <3>2 DEF Take
      <4>2. m.attempt <= MaxRetries[m.id]
        BY <1>2, <3>2 DEF Budget, WithinBudget
      <4>3. \A k \in DOMAIN Tail(pending) : \E i \in DOMAIN pending : Tail(pending)[k] = pending[i]
        BY <1>2, <3>2
      <4>4. WithinBudget(pending')
        BY <4>1, <4>3, WithinParts DEF Budget
      <4> HIDE DEF m
      <4> QED BY <2>1, <4>1, <4>2, <4>4 DEF Budget, HeldSame
    <3> QED BY <3>1, <3>2
  <2>5. CASE Stage(c) \/ List(c) \/ EndDrain(c)
    BY <1>3, <2>1, <2>5 DEF Stage, List, EndDrain, redis, history
  <2> QED BY <1>8, <2>2, <2>3, <2>4, <2>5 DEF PopStep
<1>9. ASSUME NEW c \in Callers, PushHeld(c) PROVE Budget'
  <2> DEFINE m == Head(call[c].held)
  <2>1. m \in Message /\ call[c].held = <<m>>
    BY <1>9, HeldMessage DEF PushHeld
  <2>2. m.attempt <= MaxRetries[m.id]
    <3>1. WithinBudget(call[c].held) /\ 1 \in DOMAIN call[c].held /\ call[c].held[1] = m
      BY <2>1, <1>2 DEF Budget
    <3> QED BY <3>1 DEF WithinBudget
  <2>3. Handed(c, <<>>)
    BY <1>9, EmptyHand
  <2>4. Insert(m) /\ UNCHANGED deliveries
    BY <1>9 DEF PushHeld, history
  <2> HIDE DEF m
  <2>5. <<>> \in Seq(Message)
    OBVIOUS
  <2> QED BY <1>4, <1>5, <1>6, <2>1, <2>2, <2>3, <2>4, <2>5 DEF Budget
<1>10. ASSUME NEW j \in Jobs, NEW c \in Callers, Handed(c, <<Fresh(j)>>),
              UNCHANGED <<pending, delayed, deliveries>>
       PROVE  Budget'
  <2>1. Fresh(j) \in Message /\ Fresh(j).attempt <= MaxRetries[Fresh(j).id]
    BY <1>1, RecordTypes
  <2>2. <<Fresh(j)>> \in Seq(Message) /\ WithinBudget(<<Fresh(j)>>)
    BY <1>4, <2>1, One
  <2> QED BY <1>5, <1>10, <2>2 DEF Budget
<1>11. ASSUME NEW c \in Callers, RemoveDead(c) PROVE Budget'
  <2>1. UNCHANGED <<pending, delayed, deliveries>>
    BY <1>11 DEF RemoveDead, history
  <2>2. \A i \in DOMAIN dead : dead[i].id \in Jobs
    BY DeadNames
  <2> QED BY <1>3, <1>10, <1>11, <2>1, <2>2, RemoveHolds
<1>12. ASSUME NEW c \in Callers, TakeDead(c) PROVE Budget'
  <2>1. UNCHANGED <<pending, delayed, deliveries>>
    BY <1>12 DEF TakeDead, history
  <2>2. Head(dead).id \in Jobs
    BY <1>12, DeadNames DEF TakeDead
  <2> QED BY <1>10, <1>12, <2>1, <2>2, TakeHolds
<1>13. ASSUME NEW c \in Callers, Abort(c) PROVE Budget'
  <2>1. UNCHANGED <<pending, delayed, deliveries>>
    BY <1>13 DEF Abort, redis, history
  <2>2. Handed(c, <<>>) /\ <<>> \in Seq(Message)
    BY <1>13, EmptyHand
  <2> QED BY <1>4, <1>5, <2>1, <2>2 DEF Budget
<1>14. ASSUME NEW c \in Callers, NEW i \in DOMAIN dead, FindDead(c, i) PROVE Budget'
  <2>1. HeldSame
    BY <1>14, PopHolds
  <2> QED BY <1>3, <1>14, <2>1 DEF FindDead, redis, history
<1>15. ASSUME NEW c \in Callers, NEW d \in deliveries, NEW ready \in BOOLEAN,
              WillRetry(d), Nack(c, d, ready)
       PROVE  Budget'
  <2> DEFINE m == [id |-> d.id, attempt |-> d.attempt + 1, ready |-> ready]
  <2>1. m \in Message /\ m.attempt <= MaxRetries[m.id]
    BY <1>1, <1>2, <1>15 DEF WillRetry, Message, Delivery
  <2>2. Handed(c, <<m>>)
    BY <1>15, NackHolds
  <2>3. UNCHANGED <<pending, delayed, deliveries>>
    BY <1>15 DEF Nack
  <2> HIDE DEF m
  <2>4. <<m>> \in Seq(Message) /\ WithinBudget(<<m>>)
    BY <1>4, <2>1, One
  <2> QED BY <1>5, <2>2, <2>3, <2>4 DEF Budget
<1>16. ASSUME NEW d \in deliveries, Ack(d) \/ DeadLetter(d) PROVE Budget'
  BY <1>3, <1>16 DEF Ack, DeadLetter, HeldSame
<1>17. CASE (\E d \in deliveries : Extend(d)) \/ (\E e \in processing : Lapse(e))
  BY <1>3, <1>17, TouchedEntries DEF HeldSame, history
<1>18. CASE PurgeDeadLetters
  BY <1>3, <1>18 DEF PurgeDeadLetters, HeldSame
<1>19. ASSUME NEW i \in DOMAIN delayed, Ripen(i) PROVE Budget'
  <2>1. \A k \in DOMAIN delayed' : /\ k \in DOMAIN delayed
                                   /\ delayed'[k].attempt = delayed[k].attempt
                                   /\ delayed'[k].id = delayed[k].id
    BY <1>2, <1>19 DEF Ripen, Message
  <2>2. WithinBudget(delayed')
    BY <2>1 DEF WithinBudget, Budget
  <2> QED BY <1>19, <2>2 DEF Ripen, Budget, history
<1>20. CASE UNCHANGED vars
  BY <1>3, <1>20 DEF vars, redis, history, HeldSame
<1> QED
  BY <1>7, <1>8, <1>9, <1>11, <1>12, <1>13, <1>14, <1>15, <1>16, <1>17, <1>18, <1>19,
     <1>20 DEF Next

-----------------------------------------------------------------------------
(* Where a job is *)

StagedOf(j) == {e \in reclaim : e.id = j}
Holders(j) == {c \in Callers : j \in JobsOf(call[c].held)}
Dropped(j) == j \in discarded \cup dropped
Sole(S) == \A x, y \in S : x = y

Placed(j) ==
  \/ j \in JobsOf(pending) \/ j \in JobsOf(delayed) \/ Entries(j) # {} \/ StagedOf(j) # {}
  \/ Dead(j) \/ Holders(j) # {} \/ j \in completed \/ Dropped(j)

\* Each structure has one entry of the job at most ...
OneEach(j) ==
  /\ Once(pending, j) /\ Once(delayed, j) /\ Once(dead, j)
  /\ Sole(Entries(j)) /\ Sole(StagedOf(j)) /\ Sole(Holders(j))

\* ... and if one has an entry, no other does.
Apart(j) ==
  /\ j \in JobsOf(pending) =>
       /\ j \notin JobsOf(delayed) /\ Entries(j) = {} /\ StagedOf(j) = {}
       /\ ~Dead(j) /\ Holders(j) = {} /\ j \notin completed /\ ~Dropped(j)
  /\ j \in JobsOf(delayed) =>
       /\ Entries(j) = {} /\ StagedOf(j) = {}
       /\ ~Dead(j) /\ Holders(j) = {} /\ j \notin completed /\ ~Dropped(j)
  /\ Entries(j) # {} =>
       StagedOf(j) = {} /\ ~Dead(j) /\ Holders(j) = {} /\ j \notin completed /\ ~Dropped(j)
  /\ StagedOf(j) # {} => ~Dead(j) /\ Holders(j) = {} /\ j \notin completed /\ ~Dropped(j)
  /\ Dead(j) => Holders(j) = {} /\ j \notin completed /\ ~Dropped(j)
  /\ Holders(j) # {} => j \notin completed /\ ~Dropped(j)
  /\ j \in completed => ~Dropped(j)

\* A job is somewhere once it is submitted, and not before; unless a delivery
\* without its lease dead-lettered it, it is in one place, once.
JobSound(j) ==
  /\ j \in submitted <=> Placed(j)
  /\ j \in forked \/ (\E d \in deliveries : d.id = j) => j \in submitted
  /\ j \notin forked => OneEach(j) /\ Apart(j)

\* A list that changed, but not for job j.
Keeps(s, t, j) ==
  /\ j \in JobsOf(t) <=> j \in JobsOf(s)
  /\ Once(s, j) => Once(t, j)

\* An entry more or less of one job leaves the others as they were.
LEMMA AddedKeeps ==
  ASSUME NEW s, NEW t, NEW x, Added(s, x, t), NEW j, j # x
  PROVE  Keeps(s, t, j)
BY DEF Added, Keeps

\* The same of an entry that is removed.
LEMMA RemovedKeeps ==
  ASSUME NEW s, NEW t, NEW x, Removed(s, x, t), NEW j, j # x
  PROVE  Keeps(s, t, j)
BY DEF Removed, Keeps

\* The ends of two states that have the same place for job j.
LEMMA JobStays ==
  ASSUME NEW j, JobSound(j),
         Keeps(pending, pending', j), Keeps(delayed, delayed', j), Keeps(dead, dead', j),
         Entries(j)' = Entries(j), StagedOf(j)' = StagedOf(j), Holders(j)' = Holders(j),
         j \in completed' <=> j \in completed, Dropped(j)' <=> Dropped(j),
         j \in submitted' <=> j \in submitted, j \in forked' <=> j \in forked,
         (\E d \in deliveries' : d.id = j) => j \in submitted
  PROVE  JobSound(j)'
<1>1. Placed(j)' <=> Placed(j)
  BY DEF Placed, Dead, Keeps
<1>2. OneEach(j) => OneEach(j)'
  BY DEF OneEach, Keeps, Sole
<1>3. Apart(j) => Apart(j)'
  BY DEF Apart, Dead, Keeps
<1> QED BY <1>1, <1>2, <1>3 DEF JobSound

\* Who holds job j after the steps of `held`.
LEMMA HoldersAfter ==
  ASSUME NEW c \in Callers, NEW j
  PROVE  /\ HeldSame => Holders(j)' = Holders(j)
         /\ Handed(c, <<>>) => Holders(j)' = Holders(j) \ {c}
         /\ \A m : Handed(c, <<m>>) /\ call[c].held = <<>> =>
              Holders(j)' = IF j = m.id THEN Holders(j) \cup {c} ELSE Holders(j)
         /\ \A m : call[c].held = <<m>> => (c \in Holders(j) <=> j = m.id)
<1>1. JobsOf(<<>>) = {} /\ \A m : JobsOf(<<m>>) = {m.id}
  BY DEF JobsOf
<1>2. HeldSame => Holders(j)' = Holders(j)
  BY DEF HeldSame, Holders
<1>3. Handed(c, <<>>) => Holders(j)' = Holders(j) \ {c}
  BY <1>1 DEF Handed, Holders
<1>4. ASSUME NEW m, Handed(c, <<m>>), call[c].held = <<>>
      PROVE  Holders(j)' = IF j = m.id THEN Holders(j) \cup {c} ELSE Holders(j)
  <2>1. JobsOf(call[c].held) = {} /\ JobsOf(call'[c].held) = {m.id}
    BY <1>1, <1>4 DEF Handed
  <2> QED BY <1>4, <2>1 DEF Handed, Holders
<1>5. ASSUME NEW m, call[c].held = <<m>> PROVE c \in Holders(j) <=> j = m.id
  <2>1. JobsOf(call[c].held) = {m.id}
    BY <1>1, <1>5
  <2> QED BY <2>1 DEF Holders
<1> QED BY <1>2, <1>3, <1>4, <1>5

\* A list that did not change.
LEMMA KeepsSame == ASSUME NEW s, NEW j PROVE Keeps(s, s, j)
BY DEF Keeps

\* Insert puts the message in one of the two lists.
LEMMA Inserted ==
  ASSUME Typed, NEW m \in Message, Insert(m)
  PROVE  \/ Added(pending, m.id, pending') /\ delayed' = delayed
         \/ Added(delayed, m.id, delayed') /\ pending' = pending
BY AppendJobs DEF Insert, Typed, TypeOK

\* push(): a job that was nowhere waits.
LEMMA JobPush ==
  ASSUME Typed, NEW j \in Jobs, JobSound(j),
         NEW i \in Jobs, NEW ready \in BOOLEAN, Push(i, ready)
  PROVE  JobSound(j)'
<1> DEFINE m == [id |-> i, attempt |-> 0, ready |-> ready]
<1>1. m \in Message /\ m.id = i
  BY DEF Message
<1>2. Insert(m)
  BY DEF Push
<1> HIDE DEF m
<1>3. \/ Added(pending, i, pending') /\ delayed' = delayed
      \/ Added(delayed, i, delayed') /\ pending' = pending
  BY <1>1, <1>2, Inserted
<1>4. /\ i \notin submitted /\ submitted' = submitted \cup {i}
      /\ UNCHANGED <<processing, reclaim, dead, call, deliveries, completed, discarded,
                     forked, dropped>>
  BY DEF Push
<1>5. /\ Entries(j)' = Entries(j) /\ StagedOf(j)' = StagedOf(j) /\ Holders(j)' = Holders(j)
      /\ Dropped(j)' <=> Dropped(j)
  BY <1>4 DEF Entries, StagedOf, Holders, Dropped
<1>6. CASE j # i
  <2>1. Keeps(pending, pending', j) /\ Keeps(delayed, delayed', j) /\ Keeps(dead, dead', j)
    BY <1>3, <1>4, <1>6, AddedKeeps, KeepsSame
  <2> QED BY <1>4, <1>5, <1>6, <2>1, JobStays DEF JobSound
<1>7. CASE j = i
  <2>1. ~Placed(j) /\ j \notin forked /\ OneEach(j)
    BY <1>4, <1>7 DEF JobSound
  <2>2. Placed(j)'
    BY <1>3, <1>7 DEF Placed, Added
  <2>3. OneEach(j)'
    BY <1>3, <1>4, <1>5, <1>7, <2>1 DEF OneEach, Added, Placed
  <2>4. Apart(j)'
    BY <1>3, <1>4, <1>5, <1>7, <2>1 DEF Apart, Added, Placed, Dead
  <2> QED BY <1>4, <1>7, <2>2, <2>3, <2>4 DEF JobSound
<1> QED BY <1>6, <1>7

\* The promotion moves delayed jobs to the pending list.
LEMMA JobPromote ==
  ASSUME Typed, NEW j \in Jobs, JobSound(j), NEW c \in Callers, PromoteDelayed(c)
  PROVE  JobSound(j)'
<1>1. PICK u, v \in Seq(Message) :
        /\ pending' = pending \o u /\ delayed' = v
        /\ JobsOf(delayed) = JobsOf(u) \cup JobsOf(v)
        /\ Once(delayed, j) =>
             Once(u, j) /\ Once(v, j) /\ ~(j \in JobsOf(u) /\ j \in JobsOf(v))
  BY PromotedLists
<1>2. /\ JobsOf(pending') = JobsOf(pending) \cup JobsOf(u)
      /\ Once(pending, j) /\ Once(u, j) /\ ~(j \in JobsOf(pending) /\ j \in JobsOf(u))
           => Once(pending', j)
  BY <1>1, ConcatJobs DEF Typed, TypeOK
<1>3. Holders(j)' = Holders(j)
  BY PopHolds, HoldersAfter DEF PopStep
<1>4. /\ UNCHANGED <<processing, reclaim, dead, deliveries, completed, submitted, discarded,
                     forked, dropped>>
      /\ Entries(j)' = Entries(j) /\ StagedOf(j)' = StagedOf(j) /\ Dropped(j)' = Dropped(j)
  BY DEF PromoteDelayed, history, Entries, StagedOf, Dropped
<1>5. Placed(j)' <=> Placed(j)
  BY <1>1, <1>2, <1>3, <1>4 DEF Placed, Dead
<1>6. OneEach(j) /\ Apart(j) => OneEach(j)' /\ Apart(j)'
  BY <1>1, <1>2, <1>3, <1>4 DEF OneEach, Apart, Dead
<1> QED BY <1>4, <1>5, <1>6 DEF JobSound

\* REAP_SCRIPT moves the lapsed entries of a job to the staging list.
LEMMA JobStage ==
  ASSUME Typed, NEW j \in Jobs, JobSound(j), NEW c \in Callers, Stage(c)
  PROVE  JobSound(j)'
<1> DEFINE expired == {e \in processing : e.lapsed}
<1>1. /\ processing' = processing \ expired
      /\ reclaim' = reclaim \cup {DeliveryOf(e) : e \in expired}
      /\ UNCHANGED <<pending, delayed, dead, deliveries, completed, submitted, discarded,
                     forked, dropped>>
  BY DEF Stage, DeliveryOf
<1>2. \A e : DeliveryOf(e).id = e.id
  BY DEF DeliveryOf
<1> HIDE DEF expired
<1>3. expired \subseteq processing
  BY DEF expired
<1>4. Entries(j)' = Entries(j) \ expired
  BY <1>1 DEF Entries
<1>5. StagedOf(j)' = StagedOf(j) \cup {DeliveryOf(e) : e \in Entries(j) \cap expired}
  BY <1>1, <1>2, <1>3 DEF StagedOf, Entries
<1>6. Holders(j)' = Holders(j) /\ Dropped(j)' = Dropped(j)
  BY <1>1, PopHolds, HoldersAfter DEF PopStep, Dropped
<1>7. CASE Entries(j) \cap expired = {}
  <2>1. Entries(j)' = Entries(j) /\ StagedOf(j)' = StagedOf(j)
    BY <1>4, <1>5, <1>7
  <2> QED BY <1>1, <1>6, <2>1, JobStays, KeepsSame DEF JobSound
<1>8. ASSUME NEW e \in Entries(j) \cap expired PROVE JobSound(j)'
  <2>1. Placed(j) /\ StagedOf(j)' # {}
    BY <1>5, <1>8 DEF Placed
  <2>2. ASSUME OneEach(j), Apart(j)
        PROVE  StagedOf(j)' = {DeliveryOf(e)} /\ Entries(j)' = {}
    BY <1>4, <1>5, <1>8, <2>2 DEF OneEach, Sole, Apart
  <2>3. OneEach(j) /\ Apart(j) => OneEach(j)' /\ Apart(j)'
    BY <1>1, <1>6, <1>8, <2>2 DEF OneEach, Apart, Sole, Dead
  <2> QED BY <1>1, <2>1, <2>3 DEF JobSound, Placed
<1> QED BY <1>7, <1>8

\* DRAIN_RECLAIM_SCRIPT moves an entry the call still finds there.
LEMMA JobDrain ==
  ASSUME Typed, NEW j \in Jobs, JobSound(j),
         NEW c \in Callers, NEW e \in call[c].staged, Drain(c, e)
  PROVE  JobSound(j)'
<1> DEFINE m == [id |-> e.id, attempt |-> e.attempt + 1, ready |-> TRUE]
           x == [id |-> e.id, lease |-> e.lease]
<1>1. /\ reclaim' = reclaim \ {e}
      /\ \/ e \notin reclaim /\ UNCHANGED <<pending, dead>>
         \/ e \in reclaim /\ pending' = Append(pending, m) /\ dead' = dead
         \/ e \in reclaim /\ dead' = Append(dead, x) /\ pending' = pending
      /\ UNCHANGED <<delayed, processing, deliveries, completed, submitted, discarded,
                     forked, dropped>>
  BY DEF Drain, history
<1>2. m \in Message /\ x \in DeadEntry /\ m.id = e.id /\ x.id = e.id
  BY RecordTypes DEF Message, DeadEntry
<1> HIDE DEF m, x
<1>3. \/ e \notin reclaim /\ UNCHANGED <<pending, dead>>
      \/ e \in reclaim /\ Added(pending, e.id, pending') /\ dead' = dead
      \/ e \in reclaim /\ Added(dead, e.id, dead') /\ pending' = pending
  BY <1>1, <1>2, AppendJobs DEF Typed, TypeOK
<1>4. StagedOf(j)' = StagedOf(j) \ {e}
  BY <1>1 DEF StagedOf
<1>5. /\ Holders(j)' = Holders(j) /\ Dropped(j)' = Dropped(j) /\ Entries(j)' = Entries(j)
  BY <1>1, PopHolds, HoldersAfter DEF PopStep, Dropped, Entries
<1>6. CASE e \notin reclaim \/ e.id # j
  <2>1. StagedOf(j)' = StagedOf(j)
    BY <1>4, <1>6 DEF StagedOf
  <2>2. Keeps(pending, pending', j) /\ Keeps(dead, dead', j)
    BY <1>3, <1>6, AddedKeeps, KeepsSame
  <2> QED BY <1>1, <1>5, <2>1, <2>2, JobStays, KeepsSame DEF JobSound
<1>7. CASE e \in reclaim /\ e.id = j
  <2>1. e \in StagedOf(j) /\ Placed(j)
    BY <1>7 DEF StagedOf, Placed
  <2>2. Placed(j)'
    BY <1>3, <1>7 DEF Placed, Added, Dead
  <2>3. ASSUME OneEach(j), Apart(j) PROVE StagedOf(j)' = {}
    BY <1>4, <2>1, <2>3 DEF OneEach, Sole
  <2>4. ASSUME OneEach(j), Apart(j) PROVE OneEach(j)'
    BY <1>1, <1>3, <1>5, <1>7, <2>1, <2>3, <2>4 DEF OneEach, Apart, Added, Sole, Dead
  <2>5. ASSUME OneEach(j), Apart(j) PROVE Apart(j)'
    BY <1>1, <1>3, <1>5, <1>7, <2>1, <2>3, <2>5 DEF Apart, Added, Dead
  <2> QED BY <1>1, <2>1, <2>2, <2>4, <2>5 DEF JobSound
<1> QED BY <1>6, <1>7

\* The LTRIM that follows a dead-lettering drops the jobs it cuts off.
LEMMA KeepDeadJobs ==
  ASSUME NEW s \in Seq(DeadEntry), KeepDead(s), NEW j
  PROVE  /\ j \in JobsOf(dead') => j \in JobsOf(s)
         /\ Once(s, j) => Once(dead', j)
         /\ j \in discarded' <=> j \in discarded \/ (j \in JobsOf(s) /\ j \notin JobsOf(dead'))
BY TrimJobs DEF KeepDead

\* The end of the drain: a dead job stays dead or is dropped.
LEMMA JobEndDrain ==
  ASSUME Typed, NEW j \in Jobs, JobSound(j), NEW c \in Callers, EndDrain(c)
  PROVE  JobSound(j)'
<1>1. UNCHANGED <<pending, delayed, processing, reclaim, deliveries, completed, submitted,
                  forked, dropped>>
  BY DEF EndDrain
<1>2. Holders(j)' = Holders(j) /\ Entries(j)' = Entries(j) /\ StagedOf(j)' = StagedOf(j)
  BY <1>1, PopHolds, HoldersAfter DEF PopStep, Entries, StagedOf
<1>3. CASE UNCHANGED <<dead, discarded>>
  BY <1>1, <1>2, <1>3, JobStays, KeepsSame DEF JobSound, Dropped
<1>4. CASE KeepDead(dead)
  <2>1. /\ j \in JobsOf(dead') => j \in JobsOf(dead)
        /\ Once(dead, j) => Once(dead', j)
        /\ j \in discarded' <=> j \in discarded \/ (j \in JobsOf(dead) /\ j \notin JobsOf(dead'))
    BY <1>4, KeepDeadJobs DEF Typed, TypeOK
  <2>2. Dropped(j)' <=> Dropped(j) \/ (Dead(j) /\ ~Dead(j)')
    BY <1>1, <2>1 DEF Dropped, Dead
  <2>3. Dead(j)' => Dead(j)
    BY <2>1 DEF Dead
  <2>4. Placed(j)' <=> Placed(j)
    BY <1>1, <1>2, <2>2, <2>3 DEF Placed
  <2>5. OneEach(j) => OneEach(j)'
    BY <1>1, <1>2, <2>1 DEF OneEach
  <2>6. Apart(j) => Apart(j)'
    BY <1>1, <1>2, <2>2, <2>3 DEF Apart
  <2> QED BY <1>1, <2>4, <2>5, <2>6 DEF JobSound
<1> QED BY <1>3, <1>4 DEF EndDrain

\* POP_SCRIPT leases the oldest pending message.
LEMMA JobTake ==
  ASSUME Typed, NEW j \in Jobs, JobSound(j), NEW c \in Callers, Take(c)
  PROVE  JobSound(j)'
<1>1. UNCHANGED <<delayed, reclaim, dead, completed, submitted, discarded, forked, dropped>>
  BY DEF Take
<1>2. Holders(j)' = Holders(j) /\ StagedOf(j)' = StagedOf(j) /\ Dropped(j)' = Dropped(j)
  BY <1>1, PopHolds, HoldersAfter DEF PopStep, StagedOf, Dropped
<1>3. CASE UNCHANGED <<pending, processing, deliveries>>
  BY <1>1, <1>2, <1>3, JobStays, KeepsSame DEF JobSound, Entries
<1>4. CASE pending # <<>>
  <2> DEFINE m == Head(pending)
             e == [id |-> m.id, attempt |-> m.attempt, lease |-> leases + 1, lapsed |-> FALSE]
             d == [id |-> m.id, attempt |-> m.attempt, lease |-> leases + 1]
  <2>1. /\ pending' = Tail(pending)
        /\ processing' = processing \cup {e}
        /\ deliveries' = deliveries \cup {d}
    BY <1>4 DEF Take
  <2>2. e.id = m.id /\ d.id = m.id
    OBVIOUS
  <2>3. Removed(pending, m.id, pending')
    BY <1>4, <2>1, TailJobs DEF Typed, TypeOK
  <2> HIDE DEF d, e, m
  <2>4. Entries(j)' = IF j = m.id THEN Entries(j) \cup {e} ELSE Entries(j)
    BY <2>1, <2>2 DEF Entries
  <2>5. (\E x \in deliveries' : x.id = j) => (\E x \in deliveries : x.id = j) \/ j = m.id
    BY <2>1, <2>2
  <2>6. CASE j # m.id
    BY <1>1, <1>2, <2>3, <2>4, <2>5, <2>6, JobStays, KeepsSame, RemovedKeeps DEF JobSound
  <2>7. CASE j = m.id
    <3>1. j \in JobsOf(pending) /\ Placed(j) /\ Placed(j)'
      BY <2>3, <2>4, <2>7 DEF Removed, Placed
    <3>2. ASSUME OneEach(j), Apart(j) PROVE OneEach(j)' /\ Apart(j)'
      <4>1. Entries(j)' = {e} /\ j \notin JobsOf(pending') /\ Once(pending', j)
        BY <2>3, <2>4, <2>7, <3>1, <3>2 DEF OneEach, Apart, Removed
      <4> QED BY <1>1, <1>2, <3>1, <3>2, <4>1 DEF OneEach, Apart, Sole, Dead
    <3> QED BY <1>1, <3>1, <3>2 DEF JobSound
  <2> QED BY <2>6, <2>7
<1> QED BY <1>3, <1>4 DEF Take

\* What a release by lease leaves of the entries of each job.
LEMMA ReleasedEntries ==
  ASSUME Typed, LeasesSound, NEW d \in deliveries, Release(d), NEW j
  PROVE  /\ j # d.id => Entries(j)' = Entries(j)
         /\ j = d.id => /\ Entries(j) # {}
                        /\ Sole(Entries(j)) => Entries(j)' = {}
<1>1. PICK e \in OwnedBy(d) : TRUE
  BY DEF Release, Holds
<1>2. e \in processing /\ OwnedBy(d) = {e} /\ e.id = d.id
  BY <1>1, OwnEntry
<1>3. processing' = processing \ {e}
  BY <1>2 DEF Release
<1> QED BY <1>2, <1>3 DEF Entries, Sole

\* ack().
LEMMA JobAck ==
  ASSUME Typed, LeasesSound, NEW j \in Jobs, JobSound(j), NEW d \in deliveries, Ack(d)
  PROVE  JobSound(j)'
<1>1. /\ UNCHANGED <<pending, delayed, reclaim, dead, call, deliveries, submitted,
                     discarded, forked, dropped>>
      /\ completed' = completed \cup {d.id} /\ Release(d)
  BY DEF Ack
<1>2. Holders(j)' = Holders(j) /\ StagedOf(j)' = StagedOf(j) /\ Dropped(j)' = Dropped(j)
  BY <1>1 DEF Holders, StagedOf, Dropped
<1>3. /\ j # d.id => Entries(j)' = Entries(j)
      /\ j = d.id => Entries(j) # {} /\ (Sole(Entries(j)) => Entries(j)' = {})
  BY <1>1, ReleasedEntries
<1>4. CASE j # d.id
  BY <1>1, <1>2, <1>3, <1>4, JobStays, KeepsSame DEF JobSound
<1>5. CASE j = d.id
  <2>1. Placed(j) /\ Placed(j)'
    BY <1>1, <1>3, <1>5 DEF Placed
  <2>2. ASSUME OneEach(j), Apart(j) PROVE OneEach(j)' /\ Apart(j)'
    <3>1. Entries(j)' = {} /\ Entries(j) # {}
      BY <1>3, <1>5, <2>2 DEF OneEach
    <3> QED BY <1>1, <1>2, <2>2, <3>1 DEF OneEach, Apart, Sole, Dead
  <2> QED BY <1>1, <2>1, <2>2 DEF JobSound
<1> QED BY <1>4, <1>5

\* nack() releases the job into its hand.
LEMMA JobNack ==
  ASSUME Typed, LeasesSound, NEW j \in Jobs, JobSound(j),
         NEW c \in Callers, NEW d \in deliveries, NEW ready \in BOOLEAN, Nack(c, d, ready)
  PROVE  JobSound(j)'
<1> DEFINE m == [id |-> d.id, attempt |-> d.attempt + 1, ready |-> ready]
<1>1. /\ UNCHANGED <<pending, delayed, reclaim, dead, deliveries, completed, submitted,
                     discarded, forked, dropped>>
      /\ Release(d)
  BY DEF Nack
<1>2. StagedOf(j)' = StagedOf(j) /\ Dropped(j)' = Dropped(j)
  BY <1>1 DEF StagedOf, Dropped
<1>3. /\ j # d.id => Entries(j)' = Entries(j)
      /\ j = d.id => Entries(j) # {} /\ (Sole(Entries(j)) => Entries(j)' = {})
  BY <1>1, ReleasedEntries
<1>4. call[c].held = <<>> /\ Handed(c, <<m>>) /\ m.id = d.id
  BY NackHolds
<1> HIDE DEF m
<1>5. Holders(j)' = IF j = d.id THEN Holders(j) \cup {c} ELSE Holders(j)
  BY <1>4, HoldersAfter
<1>6. CASE j # d.id
  BY <1>1, <1>2, <1>3, <1>5, <1>6, JobStays, KeepsSame DEF JobSound
<1>7. CASE j = d.id
  <2>1. Placed(j) /\ Placed(j)'
    BY <1>3, <1>5, <1>7 DEF Placed
  <2>2. ASSUME OneEach(j), Apart(j) PROVE OneEach(j)' /\ Apart(j)'
    <3>1. Entries(j)' = {} /\ Entries(j) # {} /\ Holders(j) = {} /\ Holders(j)' = {c}
      BY <1>3, <1>5, <1>7, <2>2 DEF OneEach, Apart
    <3> QED BY <1>1, <1>2, <2>2, <3>1 DEF OneEach, Apart, Sole, Dead
  <2> QED BY <1>1, <2>1, <2>2 DEF JobSound
<1> QED BY <1>6, <1>7

\* The push puts it back.
LEMMA JobPushHeld ==
  ASSUME Typed, NEW j \in Jobs, JobSound(j), NEW c \in Callers, PushHeld(c)
  PROVE  JobSound(j)'
<1> DEFINE m == Head(call[c].held)
<1>1. m \in Message /\ call[c].held = <<m>>
  BY HeldMessage DEF PushHeld
<1>2. Insert(m) /\ Handed(c, <<>>)
  BY EmptyHand DEF PushHeld
<1>3. UNCHANGED <<processing, reclaim, dead, deliveries, completed, submitted, discarded,
                  forked, dropped>>
  BY DEF PushHeld, history
<1> HIDE DEF m
<1>4. \/ Added(pending, m.id, pending') /\ delayed' = delayed
      \/ Added(delayed, m.id, delayed') /\ pending' = pending
  BY <1>1, <1>2, Inserted
<1>5. Holders(j)' = Holders(j) \ {c} /\ (c \in Holders(j) <=> j = m.id)
  BY <1>1, <1>2, HoldersAfter
<1>6. Entries(j)' = Entries(j) /\ StagedOf(j)' = StagedOf(j) /\ Dropped(j)' = Dropped(j)
  BY <1>3 DEF Entries, StagedOf, Dropped
<1>7. CASE j # m.id
  <2>1. Keeps(pending, pending', j) /\ Keeps(delayed, delayed', j)
    BY <1>4, <1>7, AddedKeeps, KeepsSame
  <2> QED BY <1>3, <1>5, <1>6, <1>7, <2>1, JobStays, KeepsSame DEF JobSound
<1>8. CASE j = m.id
  <2>1. Placed(j) /\ Placed(j)'
    BY <1>4, <1>5, <1>8 DEF Placed, Added
  <2>2. ASSUME OneEach(j), Apart(j) PROVE Holders(j)' = {} /\ Holders(j) # {}
    BY <1>5, <1>8, <2>2 DEF OneEach, Sole
  <2>3. ASSUME OneEach(j), Apart(j) PROVE OneEach(j)'
    BY <1>3, <1>4, <1>6, <1>8, <2>2, <2>3 DEF OneEach, Apart, Added, Sole
  <2>4. ASSUME OneEach(j), Apart(j) PROVE Apart(j)'
    BY <1>3, <1>4, <1>6, <1>8, <2>2, <2>4 DEF Apart, Added, Dead
  <2> QED BY <1>3, <2>1, <2>3, <2>4 DEF JobSound
<1> QED BY <1>7, <1>8

\* A renewed or lapsed lease leaves every job with as many entries.
LEMMA JobTouched ==
  ASSUME Typed, NEW j \in Jobs, JobSound(j),
         \/ \E d \in deliveries : Extend(d)
         \/ \E e \in processing : Lapse(e)
  PROVE  JobSound(j)'
<1>1. UNCHANGED <<pending, delayed, reclaim, dead, call, deliveries, completed, submitted,
                  discarded, forked, dropped>>
  BY TouchedEntries DEF history
<1>2. PICK h \in [processing -> processing'] : Touched(h)
  BY TouchedEntries
<1>3. \A e \in processing : h[e] \in processing' /\ h[e].id = e.id
  <2> TAKE e \in processing
  <2>1. DeliveryOf(h[e]).id = DeliveryOf(e).id
    BY <1>2 DEF Touched
  <2> QED BY <2>1 DEF DeliveryOf
<1>4. \A f \in Entries(j)' : \E e \in Entries(j) : f = h[e]
  BY <1>2, <1>3 DEF Touched, Entries
<1>5. \A e \in Entries(j) : h[e] \in Entries(j)'
  BY <1>3 DEF Entries
<1>6. Entries(j)' = {} <=> Entries(j) = {}
  BY <1>4, <1>5
<1>7. Sole(Entries(j)) => Sole(Entries(j)')
  BY <1>4 DEF Sole
<1>8. Holders(j)' = Holders(j) /\ StagedOf(j)' = StagedOf(j) /\ Dropped(j)' = Dropped(j)
  BY <1>1 DEF Holders, StagedOf, Dropped
<1>9. Placed(j)' <=> Placed(j)
  BY <1>1, <1>6, <1>8 DEF Placed, Dead
<1>10. OneEach(j) => OneEach(j)'
  BY <1>1, <1>7, <1>8 DEF OneEach, Sole
<1>11. Apart(j) => Apart(j)'
  BY <1>1, <1>6, <1>8 DEF Apart, Dead
<1> QED BY <1>1, <1>9, <1>10, <1>11 DEF JobSound

\* DEAD_LETTER_SCRIPT ends the lease and keeps the job; without a lease to end,
\* it may have made a copy, and the job is forked.
LEMMA JobDeadLetter ==
  ASSUME Typed, LeasesSound, NEW j \in Jobs, JobSound(j),
         NEW d \in deliveries, DeadLetter(d)
  PROVE  JobSound(j)'
<1> DEFINE x == [id |-> d.id, lease |-> d.lease]
           s == Append(dead, x)
<1>1. /\ UNCHANGED <<pending, delayed, reclaim, call, deliveries, completed, submitted,
                     dropped>>
      /\ KeepDead(s)
      /\ \/ Release(d) /\ forked' = forked
         \/ processing' = processing /\ forked' = forked \cup {d.id}
  BY DEF DeadLetter
<1>2. x \in DeadEntry /\ x.id = d.id
  BY DEF Typed, TypeOK, Delivery, DeadEntry
<1> HIDE DEF x
<1>3. s \in Seq(DeadEntry) /\ Added(dead, d.id, s)
  BY <1>2, AppendJobs DEF Typed, TypeOK
<1> HIDE DEF s
<1>4. /\ j \in JobsOf(dead') => j \in JobsOf(s)
      /\ Once(s, j) => Once(dead', j)
      /\ j \in discarded' <=> j \in discarded \/ (j \in JobsOf(s) /\ j \notin JobsOf(dead'))
  BY <1>1, <1>3, KeepDeadJobs
<1>5. Holders(j)' = Holders(j) /\ StagedOf(j)' = StagedOf(j)
  BY <1>1 DEF Holders, StagedOf
<1>6. /\ Dead(j)' => j \in JobsOf(s)
      /\ Dropped(j)' <=> Dropped(j) \/ (j \in JobsOf(s) /\ ~Dead(j)')
  BY <1>1, <1>4 DEF Dropped, Dead
<1>7. CASE j # d.id
  <2>1. (j \in JobsOf(s) <=> Dead(j)) /\ (Once(dead, j) => Once(s, j))
    BY <1>3, <1>7 DEF Added, Dead
  <2>2. Entries(j)' = Entries(j) /\ (j \in forked' <=> j \in forked)
    BY <1>1, <1>7, ReleasedEntries DEF Entries
  <2>3. Placed(j)' <=> Placed(j)
    BY <1>1, <1>5, <1>6, <2>1, <2>2 DEF Placed
  <2>4. OneEach(j) => OneEach(j)'
    BY <1>1, <1>4, <1>5, <2>1, <2>2 DEF OneEach
  <2>5. Apart(j) => Apart(j)'
    BY <1>1, <1>5, <1>6, <2>1, <2>2 DEF Apart
  <2> QED BY <1>1, <2>2, <2>3, <2>4, <2>5 DEF JobSound
<1>8. CASE j = d.id
  <2>1. j \in submitted /\ Placed(j)'
    BY <1>3, <1>6, <1>8 DEF JobSound, Placed, Added
  <2>2. CASE j \in forked'
    BY <1>1, <2>1, <2>2 DEF JobSound
  <2>3. CASE Release(d) /\ forked' = forked
    <3>1. Entries(j) # {} /\ (Sole(Entries(j)) => Entries(j)' = {})
      BY <1>8, <2>3, ReleasedEntries
    <3>2. ASSUME OneEach(j), Apart(j) PROVE OneEach(j)'
      <4>1. Entries(j)' = {} /\ ~Dead(j)
        BY <3>1, <3>2 DEF OneEach, Apart
      <4>2. Once(dead', j)
        BY <1>3, <1>4, <3>2, <4>1 DEF Added, OneEach, Dead
      <4> QED BY <1>1, <1>5, <3>2, <4>1, <4>2 DEF OneEach, Sole
    <3>3. ASSUME OneEach(j), Apart(j) PROVE Apart(j)'
      <4>1. Entries(j)' = {} /\ ~Dropped(j)
        BY <3>1, <3>3 DEF OneEach, Apart
      <4> QED BY <1>1, <1>5, <1>6, <3>1, <3>3, <4>1 DEF Apart
    <3> QED BY <1>1, <2>1, <2>3, <3>2, <3>3 DEF JobSound
  <2> QED BY <1>1, <1>8, <2>2, <2>3
<1> QED BY <1>7, <1>8

\* A re-drive takes the entry of a job from the dead-letter queue into its hand.
LEMMA JobTaken ==
  ASSUME Typed, NEW j \in Jobs, JobSound(j), NEW c \in Callers, NEW i \in Jobs,
         call[c].held = <<>>, Handed(c, <<Fresh(i)>>), Removed(dead, i, dead'),
         UNCHANGED <<pending, delayed, processing, reclaim, history, dropped>>
  PROVE  JobSound(j)'
<1>1. UNCHANGED <<deliveries, completed, submitted, discarded, forked>>
  BY DEF history
<1>2. Fresh(i).id = i
  BY DEF Fresh
<1>3. Holders(j)' = IF j = i THEN Holders(j) \cup {c} ELSE Holders(j)
  BY <1>2, HoldersAfter
<1>4. Entries(j)' = Entries(j) /\ StagedOf(j)' = StagedOf(j) /\ Dropped(j)' = Dropped(j)
  BY <1>1 DEF Entries, StagedOf, Dropped
<1>5. CASE j # i
  BY <1>1, <1>3, <1>4, <1>5, JobStays, KeepsSame, RemovedKeeps DEF JobSound
<1>6. CASE j = i
  <2>1. Dead(j) /\ Placed(j) /\ Placed(j)'
    BY <1>3, <1>6 DEF Placed, Dead, Removed
  <2>2. ASSUME OneEach(j), Apart(j) PROVE OneEach(j)' /\ Apart(j)'
    <3>1. Holders(j) = {} /\ Holders(j)' = {c} /\ ~Dead(j)' /\ Once(dead', j)
      BY <1>3, <1>6, <2>1, <2>2 DEF OneEach, Apart, Removed, Dead
    <3> QED BY <1>1, <1>4, <2>1, <2>2, <3>1 DEF OneEach, Apart, Sole
  <2> QED BY <1>1, <2>1, <2>2 DEF JobSound
<1> QED BY <1>5, <1>6

\* redriveDeadLetter(): the entry is gone already, or this caller takes it.
LEMMA JobRemoveDead ==
  ASSUME Typed, NEW j \in Jobs, JobSound(j), NEW c \in Callers, RemoveDead(c)
  PROVE  JobSound(j)'
<1>1. UNCHANGED <<pending, delayed, processing, reclaim, history, dropped>>
  BY DEF RemoveDead
<1>2. CASE HeldSame /\ dead' = dead
  <2>1. /\ Holders(j)' = Holders(j) /\ Entries(j)' = Entries(j)
        /\ StagedOf(j)' = StagedOf(j) /\ Dropped(j)' = Dropped(j)
    BY <1>1, <1>2, HoldersAfter DEF Entries, StagedOf, Dropped, history
  <2> QED BY <1>1, <1>2, <2>1, JobStays, KeepsSame DEF JobSound, history
<1>3. ASSUME NEW i \in DOMAIN dead, dead' = RemoveAt(dead, i),
             Handed(c, <<Fresh(dead[i].id)>>)
      PROVE  JobSound(j)'
  <2>1. Removed(dead, dead[i].id, dead')
    BY <1>3, RemoveAtJobs DEF Typed, TypeOK
  <2>2. call[c].held = <<>> /\ dead[i].id \in Jobs
    BY RemoveHolds, DeadNames
  <2> QED BY <1>1, <1>3, <2>1, <2>2, JobTaken
<1> QED BY <1>2, <1>3, RemoveHolds

\* redriveDeadLetters() takes the oldest entry.
LEMMA JobTakeDead ==
  ASSUME Typed, NEW j \in Jobs, JobSound(j), NEW c \in Callers, TakeDead(c)
  PROVE  JobSound(j)'
<1>1. UNCHANGED <<pending, delayed, processing, reclaim, history, dropped>>
  BY DEF TakeDead
<1>2. Removed(dead, Head(dead).id, dead') /\ Head(dead).id \in Jobs
  BY TailJobs, DeadNames DEF TakeDead, Typed, TypeOK
<1> QED BY <1>1, <1>2, TakeHolds, JobTaken

\* purgeDeadLetters() drops the dead jobs.
LEMMA JobPurge ==
  ASSUME Typed, NEW j \in Jobs, JobSound(j), PurgeDeadLetters
  PROVE  JobSound(j)'
<1>1. /\ UNCHANGED <<pending, delayed, processing, reclaim, call, deliveries, completed,
                     submitted, forked, dropped>>
      /\ dead' = <<>> /\ discarded' = discarded \cup JobsOf(dead)
  BY DEF PurgeDeadLetters
<1>2. Entries(j)' = Entries(j) /\ StagedOf(j)' = StagedOf(j) /\ Holders(j)' = Holders(j)
  BY <1>1 DEF Entries, StagedOf, Holders
<1>3. ~Dead(j)' /\ Once(dead', j) /\ (Dropped(j)' <=> Dropped(j) \/ Dead(j))
  BY <1>1 DEF Dead, Dropped, JobsOf, Once
<1>4. Placed(j)' <=> Placed(j)
  BY <1>1, <1>2, <1>3 DEF Placed
<1>5. OneEach(j) => OneEach(j)'
  BY <1>1, <1>2, <1>3 DEF OneEach
<1>6. Apart(j) => Apart(j)'
  BY <1>1, <1>2, <1>3 DEF Apart
<1> QED BY <1>1, <1>4, <1>5, <1>6 DEF JobSound

\* An interrupted call drops what it holds, and nothing else.
LEMMA JobAbort ==
  ASSUME Typed, NEW j \in Jobs, JobSound(j), NEW c \in Callers, Abort(c)
  PROVE  JobSound(j)'
<1>1. /\ UNCHANGED <<pending, delayed, processing, reclaim, dead, deliveries, completed,
                     submitted, discarded, forked>>
      /\ dropped' = dropped \cup JobsOf(call[c].held)
  BY DEF Abort, redis, history
<1>2. Entries(j)' = Entries(j) /\ StagedOf(j)' = StagedOf(j)
  BY <1>1 DEF Entries, StagedOf
<1>3. Holders(j)' = Holders(j) \ {c}
  BY EmptyHand, HoldersAfter
<1>4. Dropped(j)' <=> Dropped(j) \/ c \in Holders(j)
  BY <1>1 DEF Dropped, Holders
<1>5. Placed(j)' <=> Placed(j)
  BY <1>1, <1>2, <1>3, <1>4 DEF Placed, Dead
<1>6. OneEach(j) => OneEach(j)'
  BY <1>1, <1>2, <1>3 DEF OneEach, Sole
<1>7. OneEach(j) /\ Apart(j) => Apart(j)'
  BY <1>1, <1>2, <1>3, <1>4 DEF OneEach, Apart, Sole, Dead
<1> QED BY <1>1, <1>5, <1>6, <1>7 DEF JobSound

\* A delayed message becomes ready where it is.
LEMMA JobRipen ==
  ASSUME Typed, NEW j \in Jobs, JobSound(j), NEW i \in DOMAIN delayed, Ripen(i)
  PROVE  JobSound(j)'
<1>1. UNCHANGED <<pending, processing, reclaim, dead, call, deliveries, completed, submitted,
                  discarded, forked, dropped>>
  BY DEF Ripen, history
<1>2. /\ Entries(j)' = Entries(j) /\ StagedOf(j)' = StagedOf(j)
      /\ Holders(j)' = Holders(j) /\ Dropped(j)' = Dropped(j)
  BY <1>1 DEF Entries, StagedOf, Holders, Dropped
<1>3. DOMAIN delayed' = DOMAIN delayed /\ \A k \in DOMAIN delayed : delayed'[k].id = delayed[k].id
  BY DEF Ripen, Typed, TypeOK, Message
<1>4. JobsOf(delayed') = JobsOf(delayed)
  BY <1>3 DEF JobsOf
<1>5. Keeps(delayed, delayed', j)
  BY <1>3, <1>4 DEF Keeps, Once
<1> QED BY <1>1, <1>2, <1>5, JobStays, KeepsSame DEF JobSound

JobsSound == \A j \in Jobs : JobSound(j)

\* Every step keeps every job in its one place.
LEMMA JobsInductive == Typed /\ LeasesSound /\ JobsSound /\ [Next]_vars => JobsSound'
<1> SUFFICES ASSUME Typed, LeasesSound, JobsSound, [Next]_vars, NEW j \in Jobs
             PROVE  JobSound(j)'
  BY DEF JobsSound
<1>1. JobSound(j)
  BY DEF JobsSound
<1>2. ASSUME NEW c \in Callers, PopStep(c) PROVE JobSound(j)'
  <2>1. CASE List(c)
    <3>1. UNCHANGED <<redis, history, dropped>> /\ HeldSame
      BY <1>2, <2>1, PopHolds DEF List
    <3> QED BY <1>1, <3>1, HoldersAfter, JobStays, KeepsSame
            DEF redis, history, JobSound, Entries, StagedOf, Dropped
  <2> QED
    BY <1>1, <1>2, <2>1, JobPromote, JobStage, JobDrain, JobEndDrain, JobTake DEF PopStep
<1>3. ASSUME NEW c \in Callers, NEW i \in DOMAIN dead, FindDead(c, i) PROVE JobSound(j)'
  <2>1. UNCHANGED <<redis, history, dropped>> /\ HeldSame
    BY <1>3, PopHolds DEF FindDead
  <2> QED BY <1>1, <1>3, <2>1, HoldersAfter, JobStays, KeepsSame
          DEF redis, history, JobSound, Entries, StagedOf, Dropped
<1>4. CASE UNCHANGED vars
  <2>1. HeldSame
    BY <1>4 DEF vars, HeldSame
  <2>2. Holders(j)' = Holders(j)
    BY <1>4 DEF vars, Holders
  <2> QED BY <1>1, <1>4, <2>2, JobStays, KeepsSame
          DEF vars, redis, history, JobSound, Entries, StagedOf, Dropped
<1> QED
  BY <1>1, <1>2, <1>3, <1>4, JobPush, JobPushHeld, JobRemoveDead, JobTakeDead, JobAbort,
     JobNack, JobAck, JobTouched, JobDeadLetter, JobPurge, JobRipen DEF Next

-----------------------------------------------------------------------------
(* The cap of the dead-letter queue *)

\* A list over the cap has a caller that is still to trim it, unless one was
\* interrupted before it could.
Capped == Len(dead) > MaxDead => faults > 0 \/ \E c \in Callers : call[c].handled

\* Only Drain adds to the list without trimming it, and it says so.
LEMMA CappedInductive == Typed /\ Capped /\ [Next]_vars => Capped'
<1> SUFFICES ASSUME Typed, Capped, [Next]_vars PROVE Capped'
  OBVIOUS
<1>1. /\ call \in [Callers -> Call] /\ faults \in Nat /\ dead \in Seq(DeadEntry)
      /\ MaxDead \in Nat /\ Len(dead) \in Nat
      /\ \A b \in Callers : call[b] \in Call
  BY RedisAssumption DEF Typed, TypeOK
<1>2. ASSUME Len(dead') <= Len(dead), Len(dead') \in Nat, faults' = faults,
             \A b \in Callers : call[b].handled => call'[b].handled
      PROVE  Capped'
  BY <1>1, <1>2 DEF Capped
<1>3. ASSUME UNCHANGED <<dead, faults>>, NEW c \in Callers, ~call[c].handled, NEW r,
             call' = [call EXCEPT ![c] = r]
      PROVE  Capped'
  BY <1>1, <1>2, <1>3
<1>4. ASSUME NEW s \in Seq(DeadEntry), KeepDead(s) PROVE Capped'
  <2>1. Len(dead') <= MaxDead /\ Len(dead') \in Nat
    BY <1>4, TrimJobs DEF KeepDead
  <2> QED BY <1>1, <2>1 DEF Capped
<1>5. \A c \in Callers : call[c].at # "draining" => ~call[c].handled
  BY DEF Typed, CallShape, Shaped
<1>6. ASSUME NEW c \in Callers, PopStep(c) PROVE Capped'
  <2>1. CASE PromoteDelayed(c) \/ Stage(c) \/ List(c) \/ Take(c)
    <3>1. ~call[c].handled
      BY <1>5, <2>1 DEF PromoteDelayed, Stage, List, Take, Idle
    <3>2. UNCHANGED <<dead, faults>>
      BY <2>1 DEF PromoteDelayed, Stage, List, Take, redis, history
    <3>3. \A b \in Callers : b # c => call'[b] = call[b]
      BY <1>1, <2>1 DEF PromoteDelayed, Stage, List, Take
    <3> QED BY <1>1, <1>2, <3>1, <3>2, <3>3
  <2>2. ASSUME NEW e \in call[c].staged, Drain(c, e) PROVE Capped'
    <3>1. CASE e \in reclaim
      <4>1. call'[c].handled
        BY <1>1, <2>2, <3>1 DEF Drain, Call
      <4> QED BY <4>1 DEF Capped
    <3>2. CASE e \notin reclaim
      <4>1. UNCHANGED <<dead, faults>>
        BY <2>2, <3>2 DEF Drain
      <4>2. \A b \in Callers : call[b].handled => call'[b].handled
        BY <1>1, <2>2 DEF Drain, Call
      <4> QED BY <1>1, <1>2, <4>1, <4>2
    <3> QED BY <3>1, <3>2
  <2>3. CASE EndDrain(c)
    <3>1. CASE call[c].handled
      BY <1>1, <1>4, <2>3, <3>1 DEF EndDrain
    <3>2. CASE ~call[c].handled
      BY <1>3, <2>3, <3>2 DEF EndDrain
    <3> QED BY <3>1, <3>2
  <2> QED BY <1>6, <2>1, <2>2, <2>3 DEF PopStep
<1>7. ASSUME NEW c \in Callers, PushHeld(c) PROVE Capped'
  BY <1>3, <1>5, <1>7 DEF PushHeld
<1>8. ASSUME NEW c \in Callers,
             RemoveDead(c) \/ TakeDead(c) \/ (\E i \in DOMAIN dead : FindDead(c, i))
      PROVE  Capped'
  <2>1. ~call[c].handled
    BY <1>5, <1>8 DEF RemoveDead, TakeDead, FindDead, Idle
  <2>2. \A b \in Callers : b # c => call'[b] = call[b]
    BY <1>1, <1>8 DEF RemoveDead, TakeDead, FindDead
  <2>3. faults' = faults
    BY <1>8 DEF RemoveDead, TakeDead, FindDead
  <2>4. Len(dead') <= Len(dead) /\ Len(dead') \in Nat
    <3>1. \A i \in DOMAIN dead :
            Len(RemoveAt(dead, i)) <= Len(dead) /\ Len(RemoveAt(dead, i)) \in Nat
      BY <1>1, RemoveAtLength
    <3>2. dead # <<>> => Len(Tail(dead)) <= Len(dead) /\ Len(Tail(dead)) \in Nat
      BY <1>1
    <3> QED BY <1>1, <1>8, <3>1, <3>2 DEF RemoveDead, TakeDead, FindDead, redis
  <2> QED BY <1>2, <2>1, <2>2, <2>3, <2>4
<1>9. ASSUME NEW c \in Callers, Abort(c) PROVE Capped'
  BY <1>1, <1>9 DEF Abort, Capped
<1>10. ASSUME NEW c \in Callers, NEW d \in deliveries, NEW ready \in BOOLEAN, Nack(c, d, ready)
       PROVE  Capped'
  <2>1. ~call[c].handled /\ UNCHANGED <<dead, faults>>
    BY <1>5, <1>10 DEF Nack, Idle
  <2>2. \A b \in Callers : b # c => call'[b] = call[b]
    BY <1>1, <1>10 DEF Nack
  <2> QED BY <1>1, <1>2, <2>1, <2>2
<1>11. ASSUME NEW d \in deliveries, DeadLetter(d) PROVE Capped'
  <2> DEFINE x == [id |-> d.id, lease |-> d.lease]
  <2>1. x \in DeadEntry
    BY DEF Typed, TypeOK, Delivery, DeadEntry
  <2>2. Append(dead, x) \in Seq(DeadEntry)
    BY <1>1, <2>1, AppendJobs
  <2>3. KeepDead(Append(dead, x))
    BY <1>11 DEF DeadLetter
  <2> HIDE DEF x
  <2> QED BY <1>4, <2>2, <2>3
<1>12. CASE UNCHANGED <<dead, call, faults>>
  BY <1>1, <1>2, <1>12
<1>13. ASSUME NEW d \in deliveries, Ack(d) PROVE Capped'
  BY <1>12, <1>13 DEF Ack
<1>14. CASE (\E d \in deliveries : Extend(d)) \/ (\E e \in processing : Lapse(e))
  BY <1>12, <1>14, TouchedEntries
<1>15. CASE PurgeDeadLetters
  BY <1>1, <1>2, <1>15 DEF PurgeDeadLetters
<1>16. ASSUME NEW j \in Jobs, NEW ready \in BOOLEAN, Push(j, ready) PROVE Capped'
  BY <1>12, <1>16 DEF Push
<1>17. ASSUME NEW i \in DOMAIN delayed, Ripen(i) PROVE Capped'
  BY <1>12, <1>17 DEF Ripen
<1>18. CASE UNCHANGED vars
  BY <1>12, <1>18 DEF vars, redis
<1> QED
  BY <1>6, <1>7, <1>8, <1>9, <1>10, <1>11, <1>13, <1>14, <1>15, <1>16, <1>17, <1>18 DEF Next

-----------------------------------------------------------------------------
(* The theorems *)

RedisInv == Typed /\ LeasesSound /\ Budget /\ JobsSound /\ Capped

\* Before the first call there is nothing in Redis and every caller is idle.
LEMMA RedisInit == Init => RedisInv
<1> SUFFICES ASSUME Init PROVE RedisInv
  OBVIOUS
<1>1. Typed
  <2>1. faults \in 0..MaxFaults
    BY RedisAssumption DEF Init
  <2> QED BY <2>1, IdleShaped DEF Init, Typed, TypeOK, CallShape
<1>2. LeasesSound
  BY DEF Init, LeasesSound
<1>3. \A c \in Callers : call[c].held = <<>>
  BY DEF Init, IdleCall
<1>4. Budget
  BY <1>3 DEF Init, Budget, WithinBudget
<1>5. JobsOf(<<>>) = {} /\ \A j : Once(<<>>, j)
  BY DEF JobsOf, Once
<1>6. ASSUME NEW j \in Jobs PROVE JobSound(j)
  <2>1. Entries(j) = {} /\ StagedOf(j) = {} /\ Holders(j) = {} /\ ~Dropped(j) /\ ~Dead(j)
    BY <1>3, <1>5 DEF Init, Entries, StagedOf, Holders, Dropped, Dead
  <2> QED BY <1>5, <2>1 DEF Init, JobSound, Placed, OneEach, Apart, Sole
<1>7. Capped
  BY RedisAssumption DEF Init, Capped
<1> QED BY <1>1, <1>2, <1>4, <1>6, <1>7 DEF RedisInv, JobsSound

\* The inductive invariant holds in every state.
LEMMA RedisInductive == Spec => []RedisInv
<1>1. RedisInv /\ [Next]_vars => RedisInv'
  BY TypedInductive, LeasesInductive, BudgetInductive, JobsInductive, CappedInductive
     DEF RedisInv
<1> QED BY <1>1, RedisInit, PTL DEF Spec

\* A set of one element at most.
LEMMA SoleCardinality ==
  ASSUME NEW S, Sole(S)
  PROVE  /\ S = {} => Cardinality(S) = 0
         /\ S # {} => Cardinality(S) = 1
<1>1. CASE S = {}
  BY <1>1, FS_EmptySet
<1>2. CASE S # {}
  <2>1. PICK x : S = {x}
    BY <1>2 DEF Sole
  <2> QED BY <1>2, <2>1, FS_Singleton
<1> QED BY <1>1, <1>2

\* Copies counts the entries that OneEach and Apart speak of.
LEMMA OneCopy ==
  ASSUME NEW j \in Jobs, OneEach(j), Apart(j)
  PROVE  Copies(j) <= 1
<1> DEFINE P == {i \in DOMAIN pending : pending[i].id = j}
           D == {i \in DOMAIN delayed : delayed[i].id = j}
           X == {i \in DOMAIN dead : dead[i].id = j}
           C == {j} \cap completed
<1>1. Sole(P) /\ Sole(D) /\ Sole(X) /\ Sole(C)
  BY DEF OneEach, Once, Sole
<1>2. /\ P = {} <=> j \notin JobsOf(pending)
      /\ D = {} <=> j \notin JobsOf(delayed)
      /\ X = {} <=> ~Dead(j)
      /\ C = {} <=> j \notin completed
  BY DEF JobsOf, Dead
<1>3. Copies(j) = Cardinality(P) + Cardinality(D) + Cardinality(Entries(j))
        + Cardinality(StagedOf(j)) + Cardinality(X) + Cardinality(Holders(j)) + Cardinality(C)
  BY DEF Copies, StagedOf, Holders
<1> HIDE DEF P, D, X, C
<1>4. /\ Cardinality(P) = IF j \in JobsOf(pending) THEN 1 ELSE 0
      /\ Cardinality(D) = IF j \in JobsOf(delayed) THEN 1 ELSE 0
      /\ Cardinality(X) = IF Dead(j) THEN 1 ELSE 0
      /\ Cardinality(C) = IF j \in completed THEN 1 ELSE 0
      /\ Cardinality(Entries(j)) = IF Entries(j) # {} THEN 1 ELSE 0
      /\ Cardinality(StagedOf(j)) = IF StagedOf(j) # {} THEN 1 ELSE 0
      /\ Cardinality(Holders(j)) = IF Holders(j) # {} THEN 1 ELSE 0
  BY <1>1, <1>2, SoleCardinality DEF OneEach
<1> QED BY <1>3, <1>4 DEF Apart

\* Every state the processes can bring Redis to is well typed.
THEOREM TypeCorrect == Spec => []TypeOK
<1>1. RedisInv => TypeOK
  BY DEF RedisInv, Typed
<1> QED BY <1>1, RedisInductive, PTL

\* A submitted job is in one of the Redis structures, acked, dropped by the
\* dead-letter queue, or in the hand of a call between its two commands; it is lost
\* only if such a call is interrupted.
THEOREM NoJobLost == Spec => []LostOnlyInHand
<1>1. RedisInv => LostOnlyInHand
  <2> SUFFICES ASSUME RedisInv, NEW j \in submitted
               PROVE  \/ Waiting(j) \/ Entries(j) # {} \/ Staged(j) \/ Dead(j) \/ InHand(j)
                      \/ j \in completed \cup discarded \cup dropped
    BY DEF LostOnlyInHand
  <2>1. Placed(j)
    BY DEF RedisInv, JobsSound, JobSound, Typed, TypeOK
  <2>2. (StagedOf(j) # {} => Staged(j)) /\ (Holders(j) # {} => InHand(j))
    BY DEF StagedOf, Staged, Holders, InHand
  <2> QED BY <2>1, <2>2 DEF Placed, Waiting, Dropped
<1> QED BY <1>1, RedisInductive, PTL

\* However many processes promote, reap, drain and re-drive at once, and wherever they
\* are interrupted: one copy of each job, held by one delivery, in queues that keep
\* their cap.
THEOREM CopiesAreSound == Spec => []CopiesSound
<1>1. RedisInv => SingleCopy
  BY OneCopy DEF RedisInv, JobsSound, JobSound, SingleCopy
<1>2. RedisInv => LeaseExclusive
  BY DEF RedisInv, LeasesSound, LeaseExclusive
<1>3. RedisInv => DeadCapped
  <2> SUFFICES ASSUME RedisInv, Len(dead) > MaxDead PROVE Untrimmed > 0
    BY DEF DeadCapped
  <2> DEFINE W == {c \in Callers : call[c].handled}
  <2>1. IsFiniteSet(W) /\ Cardinality(W) \in Nat /\ (W # {} => Cardinality(W) # 0)
    <3>1. IsFiniteSet(W)
      BY RedisAssumption, FS_Subset
    <3> HIDE DEF W
    <3> QED BY <3>1, FS_CardinalityType, FS_EmptySet
  <2>2. faults \in Nat /\ (faults > 0 \/ W # {})
    BY RedisAssumption DEF RedisInv, Typed, TypeOK, Capped
  <2>3. Untrimmed = Cardinality(W) + faults
    BY DEF Untrimmed
  <2> HIDE DEF W
  <2> QED BY <2>1, <2>2, <2>3
<1> QED BY <1>1, <1>2, <1>3, RedisInductive, PTL DEF CopiesSound

\* Lapses, nacks and re-drives draw down one budget: no delivery exceeds it.
THEOREM WithinRetries == Spec => []RetryBudget
<1>1. RedisInv => RetryBudget
  BY DEF RedisInv, Budget, RetryBudget
<1> QED BY <1>1, RedisInductive, PTL

-----------------------------------------------------------------------------
(* The refinement of JobLifecycle *)

\* The abstract state of a job, and the steps it may take, as JobStep or Stay.
Mark(j, s, n) == StatusOf(j) = s /\ TriesOf(j) = n
Moves(j, s, n, t, k) ==
  \/ s = t /\ n = k
  \/ s = "new" /\ t = "waiting" /\ k = 0
  \/ s = "waiting" /\ t = "leased" /\ k = n
  \/ s = "leased" /\ t = "done" /\ k = 0
  \/ s = "leased" /\ n < MaxRetries[j] /\ t = "waiting" /\ k = n + 1
  \/ s = "leased" /\ t \in {"dead", "discarded"} /\ k = 0
  \/ s = "dead" /\ t = "waiting" /\ k = 0
  \/ s = "dead" /\ t = "discarded" /\ k = 0
  \/ s # "new" /\ t = "outside" /\ k = 0

Gone(j) == j \in forked \cup dropped

\* What StatusOf and TriesOf say of a job, by the place it is in.
Views(j) ==
  /\ Gone(j) => Mark(j, "outside", 0)
  /\ ~Gone(j) =>
       /\ \A m \in Stored(j) : Mark(j, "waiting", m.attempt)
       /\ \A e \in Leased(j) : Mark(j, "leased", e.attempt)
       /\ \A c \in Holders(j) :
            IF Head(call[c].held).attempt = 0 THEN Mark(j, "dead", 0)
            ELSE Mark(j, "leased", Head(call[c].held).attempt - 1)
       /\ Dead(j) => Mark(j, "dead", 0)
       /\ j \in completed => Mark(j, "done", 0)
       /\ j \in discarded => Mark(j, "discarded", 0)
       /\ ~Placed(j) => Mark(j, "new", 0)

\* A job that waits has one message, in one list.
LEMMA StoredSole ==
  ASSUME NEW j, OneEach(j), Apart(j)
  PROVE  /\ Sole(Stored(j))
         /\ Waiting(j) <=> Stored(j) # {}
<1>1. \A m : m \in Stored(j) <=>
        \/ \E i \in DOMAIN pending : m = pending[i] /\ pending[i].id = j
        \/ \E i \in DOMAIN delayed : m = delayed[i] /\ delayed[i].id = j
  BY DEF Stored, Range
<1>2. /\ j \in JobsOf(pending) <=> \E i \in DOMAIN pending : pending[i].id = j
      /\ j \in JobsOf(delayed) <=> \E i \in DOMAIN delayed : delayed[i].id = j
  BY DEF JobsOf
<1>3. ~(j \in JobsOf(pending) /\ j \in JobsOf(delayed))
  BY DEF Apart
<1>4. Sole(Stored(j))
  BY <1>1, <1>2, <1>3 DEF OneEach, Once, Sole
<1> QED BY <1>1, <1>2, <1>4 DEF Waiting

\* The message a job is held as.
LEMMA HeldIs ==
  ASSUME Typed, NEW j, OneEach(j), NEW c \in Holders(j)
  PROVE  /\ call[c].held = <<Head(call[c].held)>>
         /\ Head(call[c].held) \in Message
         /\ Head(call[c].held).id = j
         /\ HeldFor(j) = Head(call[c].held)
<1>1. c \in Callers /\ j \in JobsOf(call[c].held)
  BY DEF Holders
<1>2. call[c].at = "pushing"
  <2>1. call[c].held # <<>>
    BY <1>1 DEF JobsOf
  <2> QED BY <1>1, <2>1 DEF Typed, CallShape, Shaped
<1>3. call[c].held = <<Head(call[c].held)>> /\ Head(call[c].held) \in Message
  BY <1>1, <1>2, HeldMessage
<1>4. Head(call[c].held).id = j
  <2> DEFINE m == Head(call[c].held)
  <2> HIDE DEF m
  <2>1. call[c].held = <<m>>
    BY <1>3 DEF m
  <2>2. c \in Holders(j) <=> j = m.id
    BY <1>1, <2>1, HoldersAfter
  <2> QED BY <2>2 DEF m
<1> DEFINE H == {Head(call[b].held) : b \in {x \in Callers : call[x].held # <<>>}}
<1>5. Head(call[c].held) \in H
  BY <1>1, <1>2 DEF Typed, CallShape, Shaped
<1>6. ASSUME NEW m \in H, m.id = j PROVE m = Head(call[c].held)
  <2>1. PICK b \in Callers : m = Head(call[b].held) /\ call[b].held # <<>>
    OBVIOUS
  <2>2. call[b].held = <<m>>
    BY <2>1, HeldMessage DEF Typed, CallShape, Shaped
  <2> HIDE DEF H
  <2>3. b \in Holders(j)
    BY <1>6, <2>1, <2>2, HoldersAfter
  <2>4. b = c
    BY <2>3 DEF OneEach, Sole
  <2> QED BY <2>1, <2>4
<1>7. HeldFor(j) = CHOOSE m \in H : m.id = j
  BY DEF HeldFor
<1> HIDE DEF H
<1>8. HeldFor(j) = Head(call[c].held)
  BY <1>4, <1>5, <1>6, <1>7
<1> QED BY <1>3, <1>4, <1>8

\* In a state of the invariant, a job's place decides its abstract state.
LEMMA ViewsHold == RedisInv => \A j \in Jobs : Views(j)
<1> SUFFICES ASSUME RedisInv, NEW j \in Jobs PROVE Views(j)
  OBVIOUS
<1>1. Typed /\ JobSound(j)
  BY DEF RedisInv, JobsSound
<1>2. CASE Gone(j)
  <2>1. StatusOf(j) = "outside"
    BY <1>2 DEF StatusOf, Gone
  <2> QED BY <1>2, <2>1 DEF Views, Mark, TriesOf
<1>3. CASE ~Gone(j)
  <2>1. OneEach(j) /\ Apart(j)
    BY <1>1, <1>3 DEF JobSound, Gone
  <2>2. /\ Sole(Stored(j)) /\ (Waiting(j) <=> Stored(j) # {})
        /\ Waiting(j) <=> j \in JobsOf(pending) \/ j \in JobsOf(delayed)
        /\ InHand(j) <=> Holders(j) # {}
        /\ Staged(j) <=> StagedOf(j) # {}
        /\ Leased(j) = Entries(j) \cup StagedOf(j)
    BY <2>1, StoredSole DEF Waiting, InHand, Holders, Staged, StagedOf, Leased
  <2>3. /\ Waiting(j) => StatusOf(j) = "waiting"
        /\ ~Waiting(j) /\ InHand(j) =>
             StatusOf(j) = IF HeldFor(j).attempt = 0 THEN "dead" ELSE "leased"
        /\ ~Waiting(j) /\ ~InHand(j) =>
             StatusOf(j) = IF Entries(j) # {} \/ Staged(j) THEN "leased"
                           ELSE IF j \in completed THEN "done"
                           ELSE IF Dead(j) THEN "dead"
                           ELSE IF j \in discarded THEN "discarded" ELSE "new"
    <3>1. ~(Waiting(j) /\ InHand(j))
      BY <2>1, <2>2 DEF Apart
    <3>2. j \notin forked \cup dropped
      BY <1>3 DEF Gone
    <3>3. CASE Waiting(j)
      BY <3>1, <3>2, <3>3 DEF StatusOf
    <3>4. CASE ~Waiting(j) /\ InHand(j)
      BY <3>1, <3>2, <3>4 DEF StatusOf
    <3>5. CASE ~Waiting(j) /\ ~InHand(j)
      BY <3>2, <3>5 DEF StatusOf
    <3> QED BY <3>3, <3>4, <3>5
  <2>4. /\ StatusOf(j) = "waiting" => TriesOf(j) = AttemptIn(Stored(j))
        /\ StatusOf(j) = "leased" =>
             TriesOf(j) = IF InHand(j) THEN HeldFor(j).attempt - 1 ELSE AttemptIn(Leased(j))
        /\ StatusOf(j) \notin {"waiting", "leased"} => TriesOf(j) = 0
    BY DEF TriesOf
  <2>5. \A S : \A x \in S : Sole(S) => AttemptIn(S) = x.attempt
    BY DEF Sole, AttemptIn
  <2>6. ASSUME NEW m \in Stored(j) PROVE Mark(j, "waiting", m.attempt)
    BY <2>2, <2>3, <2>4, <2>5, <2>6 DEF Mark
  <2>7. ASSUME NEW e \in Leased(j) PROVE Mark(j, "leased", e.attempt)
    <3>1. Sole(Leased(j)) /\ ~Waiting(j) /\ ~InHand(j) /\ (Entries(j) # {} \/ Staged(j))
      BY <2>1, <2>2, <2>7 DEF OneEach, Apart, Sole
    <3> QED BY <2>3, <2>4, <2>5, <2>7, <3>1 DEF Mark
  <2>8. ASSUME NEW c \in Holders(j)
        PROVE  IF Head(call[c].held).attempt = 0 THEN Mark(j, "dead", 0)
               ELSE Mark(j, "leased", Head(call[c].held).attempt - 1)
    <3>1. ~Waiting(j) /\ InHand(j) /\ HeldFor(j) = Head(call[c].held)
      BY <1>1, <2>1, <2>2, <2>8, HeldIs DEF Apart
    <3> QED BY <2>3, <2>4, <3>1 DEF Mark
  <2>9. /\ Dead(j) => Mark(j, "dead", 0)
        /\ j \in completed => Mark(j, "done", 0)
        /\ j \in discarded => Mark(j, "discarded", 0)
        /\ ~Placed(j) => Mark(j, "new", 0)
    <3>1. Dead(j) \/ j \in completed \/ j \in discarded \/ ~Placed(j)
            => ~Waiting(j) /\ ~InHand(j) /\ Entries(j) = {} /\ ~Staged(j)
      BY <2>1, <2>2 DEF Apart, Dropped, Placed
    <3>2. /\ Dead(j) => j \notin completed
          /\ j \in discarded => j \notin completed /\ ~Dead(j)
      BY <2>1 DEF Apart, Dropped
    <3>3. ~Placed(j) => ~Dead(j) /\ j \notin completed /\ j \notin discarded
      BY DEF Placed, Dropped
    <3> QED BY <2>3, <2>4, <3>1, <3>2, <3>3 DEF Mark
  <2> QED BY <1>3, <2>6, <2>7, <2>8, <2>9 DEF Views
<1> QED BY <1>2, <1>3

\* The abstract step of job j, and what its proof knows before and after.
Step(j) == Moves(j, StatusOf(j), TriesOf(j), StatusOf(j)', TriesOf(j)')
Known(j) ==
  /\ Typed /\ LeasesSound /\ Budget /\ JobSound(j) /\ Views(j)
  /\ ~Gone(j) /\ OneEach(j) /\ Apart(j)

\* A job that is somewhere is not "new".
LEMMA PlacedIsNotNew ==
  ASSUME NEW j, Known(j), Placed(j)
  PROVE  StatusOf(j) # "new"
<1>1. /\ Stored(j) # {} \/ Leased(j) # {} \/ Holders(j) # {} \/ Dead(j)
         \/ j \in completed \/ j \in discarded
  BY StoredSole DEF Known, Placed, Waiting, Dropped, Gone, Leased, StagedOf
<1> QED BY <1>1 DEF Known, Views, Mark

\* A step that leaves the job in its place, at the same attempt.
LEMMA LifeStays ==
  ASSUME NEW j, Known(j), Known(j)',
         Stored(j) # {} => \E m \in Stored(j), n \in Stored(j)' : m.attempt = n.attempt,
         Leased(j) # {} => \E e \in Leased(j), f \in Leased(j)' : e.attempt = f.attempt,
         Holders(j) # {} => \E c \in Holders(j), b \in Holders(j)' :
                              Head(call[c].held) = Head(call'[b].held),
         Dead(j) => Dead(j)' \/ j \in discarded', j \in completed => j \in completed',
         j \in discarded => j \in discarded', j \in submitted' => j \in submitted
  PROVE  Step(j)
<1>1. CASE Stored(j) # {}
  <2>1. PICK m \in Stored(j), q \in Stored(j)' : m.attempt = q.attempt
    BY <1>1
  <2>2. Mark(j, "waiting", m.attempt) /\ Mark(j, "waiting", m.attempt)'
    BY <2>1 DEF Known, Views, Mark
  <2> QED BY <2>2 DEF Step, Moves, Mark
<1>2. CASE Leased(j) # {}
  <2>1. PICK e \in Leased(j), f \in Leased(j)' : e.attempt = f.attempt
    BY <1>2
  <2>2. Mark(j, "leased", e.attempt) /\ Mark(j, "leased", e.attempt)'
    BY <2>1 DEF Known, Views, Mark
  <2> QED BY <2>2 DEF Step, Moves, Mark
<1>3. CASE Holders(j) # {}
  <2>1. PICK c \in Holders(j), b \in Holders(j)' : Head(call[c].held) = Head(call'[b].held)
    BY <1>3
  <2>2. PICK q : q = Head(call[c].held).attempt
    OBVIOUS
  <2>3. IF q = 0 THEN Mark(j, "dead", 0) ELSE Mark(j, "leased", q - 1)
    BY <2>2 DEF Known, Views
  <2>4. IF q = 0 THEN Mark(j, "dead", 0)' ELSE Mark(j, "leased", q - 1)'
    BY <2>1, <2>2 DEF Known, Views, Mark
  <2> QED BY <2>3, <2>4 DEF Step, Moves, Mark
<1>4. CASE Dead(j) \/ j \in completed \/ j \in discarded
  BY <1>4 DEF Known, Views, Step, Moves, Mark
<1>5. CASE ~Placed(j)
  <2>1. Mark(j, "new", 0) /\ j \notin submitted
    BY <1>5 DEF Known, Views, JobSound
  <2>2. Mark(j, "new", 0)'
    BY <2>1 DEF Known, Views, JobSound
  <2> QED BY <2>1, <2>2 DEF Step, Moves, Mark
<1>6. Placed(j) => \/ Stored(j) # {} \/ Leased(j) # {} \/ Holders(j) # {} \/ Dead(j)
                   \/ j \in completed \/ j \in discarded
  BY StoredSole DEF Known, Placed, Waiting, Dropped, Gone, Leased, StagedOf
<1> QED BY <1>1, <1>2, <1>3, <1>4, <1>5, <1>6

\* The entries of the lists after each command.
LEMMA AppendRange ==
  ASSUME NEW S, NEW s \in Seq(S), NEW m \in S
  PROVE  Range(Append(s, m)) = Range(s) \cup {m}
<1> DEFINE t == Append(s, m)
           n == Len(s)
<1>1. /\ DOMAIN s = 1..n /\ DOMAIN t = 1..n \cup {n + 1}
      /\ \A k \in 1..n : t[k] = s[k]
      /\ t[n + 1] = m
  <2>1. /\ Append(s, m) \in Seq(S) /\ Len(s) \in Nat
        /\ Len(Append(s, m)) = Len(s) + 1 /\ DOMAIN s = 1..Len(s)
        /\ \A k \in 1..Len(s) : Append(s, m)[k] = s[k]
        /\ Append(s, m)[Len(s) + 1] = m
    OBVIOUS
  <2>2. DOMAIN Append(s, m) = 1..(Len(s) + 1)
    BY <2>1
  <2>3. 1..(Len(s) + 1) = 1..Len(s) \cup {Len(s) + 1}
    BY <2>1
  <2> QED BY <2>1, <2>2, <2>3, Zenon
<1> HIDE DEF t, n
<1>2. Range(t) = Range(s) \cup {m}
  BY <1>1, Zenon DEF Range
<1> QED BY <1>2 DEF t

\* The entries of a list are its oldest one and those of its tail.
LEMMA TailRange ==
  ASSUME NEW S, NEW s \in Seq(S), s # <<>>
  PROVE  Range(s) = Range(Tail(s)) \cup {Head(s)}
<1> DEFINE t == Tail(s)
<1>1. /\ Len(s) \in Nat /\ Len(s) >= 1 /\ Head(s) = s[1]
      /\ DOMAIN s = 1..Len(s) /\ DOMAIN t = 1..(Len(s) - 1)
      /\ \A k \in 1..(Len(s) - 1) : t[k] = s[k + 1]
  OBVIOUS
<1> HIDE DEF t
<1>2. \A k \in DOMAIN s : k = 1 \/ (k - 1 \in DOMAIN t /\ t[k - 1] = s[k])
  BY <1>1
<1>3. \A k \in DOMAIN t : k + 1 \in DOMAIN s /\ t[k] = s[k + 1]
  BY <1>1
<1>4. 1 \in DOMAIN s
  BY <1>1
<1>5. Range(s) = Range(t) \cup {Head(s)}
  <2>1. \A k \in DOMAIN s : s[k] \in Range(t) \cup {Head(s)}
    BY <1>1, <1>2 DEF Range
  <2>2. \A k \in DOMAIN t : t[k] \in Range(s)
    BY <1>3 DEF Range
  <2>3. Head(s) \in Range(s)
    BY <1>1, <1>4 DEF Range
  <2> QED BY <2>1, <2>2, <2>3 DEF Range
<1> QED BY <1>5 DEF t

\* The messages of a job after a push or a delivery.
LEMMA StoredAfterPush ==
  ASSUME Typed, NEW m \in Message, Insert(m), NEW j
  PROVE  Stored(j)' = IF j = m.id THEN Stored(j) \cup {m} ELSE Stored(j)
<1>1. pending \in Seq(Message) /\ delayed \in Seq(Message)
  BY DEF Typed, TypeOK
<1>2. /\ Range(Append(pending, m)) = Range(pending) \cup {m}
      /\ Range(Append(delayed, m)) = Range(delayed) \cup {m}
  BY <1>1, AppendRange
<1>3. \/ Range(pending') = Range(pending) \cup {m} /\ delayed' = delayed
      \/ Range(delayed') = Range(delayed) \cup {m} /\ pending' = pending
  BY <1>2 DEF Insert
<1> QED BY <1>3 DEF Stored

\* POP_SCRIPT takes the oldest message.
LEMMA StoredAfterTake ==
  ASSUME Typed, pending # <<>>, pending' = Tail(pending), delayed' = delayed, NEW j
  PROVE  /\ Head(pending).id # j => Stored(j)' = Stored(j)
         /\ Head(pending).id = j => Head(pending) \in Stored(j)
<1>1. Range(pending) = Range(pending') \cup {Head(pending)}
  BY TailRange DEF Typed, TypeOK
<1> QED BY <1>1 DEF Stored

\* The job is in the hands it was in.
HandsStill(j) == /\ Holders(j)' = Holders(j)
                 /\ \A b \in Holders(j) : call'[b].held = call[b].held

\* The steps that leave the job in the hands it was in.
LEMMA HandsAfter ==
  ASSUME NEW j, NEW c \in Callers
  PROVE  /\ HeldSame => HandsStill(j)
         /\ Handed(c, <<>>) /\ c \notin Holders(j) => HandsStill(j)
         /\ \A m : Handed(c, <<m>>) /\ call[c].held = <<>> /\ j # m.id => HandsStill(j)
<1>1. \A b \in Holders(j) : b \in Callers
  BY DEF Holders
<1>2. HeldSame => HandsStill(j)
  BY <1>1, HoldersAfter DEF HeldSame, HandsStill
<1>3. Handed(c, <<>>) /\ c \notin Holders(j) => HandsStill(j)
  BY <1>1, HoldersAfter DEF Handed, HandsStill
<1>4. ASSUME NEW m, Handed(c, <<m>>), call[c].held = <<>>, j # m.id
      PROVE  HandsStill(j)
  <2>1. Holders(j)' = Holders(j)
    BY <1>4, HoldersAfter
  <2>2. c \notin Holders(j)
    BY <1>4 DEF Holders, JobsOf
  <2>3. \A b \in Holders(j) : call'[b].held = call[b].held
    BY <1>1, <1>4, <2>2 DEF Handed
  <2> QED BY <2>1, <2>3 DEF HandsStill
<1> QED BY <1>2, <1>3, <1>4

\* A step that changes nothing of the job, or only drops it when it is dead.
LEMMA LifeFrame ==
  ASSUME NEW j, Known(j), Known(j)',
         Stored(j)' = Stored(j), Entries(j)' = Entries(j), StagedOf(j)' = StagedOf(j),
         HandsStill(j), Dead(j) => Dead(j)' \/ j \in discarded',
         j \in completed => j \in completed', j \in discarded => j \in discarded',
         j \in submitted' => j \in submitted
  PROVE  Step(j)
<1>1. Leased(j)' = Leased(j)
  BY DEF Leased, StagedOf
<1> QED BY <1>1, LifeStays DEF HandsStill

\* push()
LEMMA LifePush ==
  ASSUME NEW j \in Jobs, Known(j), Known(j)', NEW i \in Jobs, NEW ready \in BOOLEAN,
         Push(i, ready)
  PROVE  Step(j)
<1> DEFINE m == [id |-> i, attempt |-> 0, ready |-> ready]
<1>1. m \in Message /\ m.id = i /\ m.attempt = 0
  BY DEF Message
<1>2. Insert(m) /\ i \notin submitted /\ submitted' = submitted \cup {i}
      /\ UNCHANGED <<processing, reclaim, dead, call, completed, discarded>>
  BY DEF Push
<1> HIDE DEF m
<1>3. Stored(j)' = IF j = i THEN Stored(j) \cup {m} ELSE Stored(j)
  BY <1>1, <1>2, StoredAfterPush DEF Known
<1>4. CASE j # i
  <2>1. /\ Entries(j)' = Entries(j) /\ StagedOf(j)' = StagedOf(j) /\ HandsStill(j)
        /\ Dead(j) => Dead(j)'
    BY <1>2 DEF Entries, StagedOf, HandsStill, Holders, Dead
  <2> QED BY <1>2, <1>3, <1>4, <2>1, LifeFrame
<1>5. CASE j = i
  <2>1. Mark(j, "new", 0)
    BY <1>2, <1>5 DEF Known, JobSound, Views
  <2>2. Mark(j, "waiting", 0)'
    BY <1>1, <1>3, <1>5 DEF Known, Views, Mark
  <2> QED BY <2>1, <2>2 DEF Step, Moves, Mark
<1> QED BY <1>4, <1>5

\* The promotion leaves the job waiting.
LEMMA LifePromote ==
  ASSUME NEW j \in Jobs, Known(j), Known(j)', NEW c \in Callers, PromoteDelayed(c)
  PROVE  Step(j)
<1>1. PICK u, v \in Seq(Message) :
        /\ pending' = pending \o u /\ delayed' = v
        /\ JobsOf(delayed) = JobsOf(u) \cup JobsOf(v)
        /\ \A k \in DOMAIN u : \E i \in DOMAIN delayed : u[k] = delayed[i]
        /\ \A k \in DOMAIN v : \E i \in DOMAIN delayed : v[k] = delayed[i]
  BY PromotedLists DEF Known
<1>2. JobsOf(pending') = JobsOf(pending) \cup JobsOf(u)
  BY <1>1, ConcatJobs DEF Known, Typed, TypeOK
<1>3. Range(pending') \subseteq Range(pending) \cup Range(delayed)
  <2>1. pending \in Seq(Message)
    BY DEF Known, Typed, TypeOK
  <2>2. ASSUME NEW k \in DOMAIN pending'
        PROVE  \/ \E i \in DOMAIN pending : pending'[k] = pending[i]
               \/ \E i \in DOMAIN u : pending'[k] = u[i]
    BY <1>1, <2>1, ConcatParts
  <2> QED BY <1>1, <2>2 DEF Range
<1>4. Range(delayed') \subseteq Range(delayed)
  BY <1>1 DEF Range
<1>5. Stored(j)' \subseteq Stored(j)
  BY <1>3, <1>4 DEF Stored
<1>6. Stored(j) # {} => Stored(j)' # {}
  <2>1. Waiting(j) => Waiting(j)'
    BY <1>1, <1>2 DEF Waiting
  <2>2. \A s : j \in JobsOf(s) <=> \E m \in Range(s) : m.id = j
    BY DEF JobsOf, Range
  <2>3. Stored(j) # {} => Waiting(j)
    BY <2>2 DEF Stored, Waiting
  <2>4. Waiting(j)' => Stored(j)' # {}
    BY <2>2 DEF Stored, Waiting
  <2> QED BY <2>1, <2>3, <2>4
<1>7. /\ UNCHANGED <<processing, reclaim, dead, completed, discarded, submitted>>
      /\ HeldSame
  BY PopHolds DEF PromoteDelayed, history, PopStep, Known
<1>8. /\ Leased(j)' = Leased(j) /\ (Dead(j) => Dead(j)') /\ Holders(j)' = Holders(j)
      /\ \A b \in Holders(j) : call'[b].held = call[b].held
  BY <1>7 DEF Leased, Entries, Dead, HeldSame, Holders
<1> QED BY <1>5, <1>6, <1>7, <1>8, LifeStays

\* A lapsed lease leaves the job leased, for the staging list.
LEMMA LifeStage ==
  ASSUME NEW j \in Jobs, Known(j), Known(j)', NEW c \in Callers, Stage(c)
  PROVE  Step(j)
<1> DEFINE expired == {e \in processing : e.lapsed}
<1>1. /\ processing' = processing \ expired
      /\ reclaim' = reclaim \cup {DeliveryOf(e) : e \in expired}
      /\ UNCHANGED <<pending, delayed, dead, completed, submitted, discarded>>
  BY DEF Stage, DeliveryOf
<1>2. HeldSame
  BY PopHolds DEF PopStep, Known
<1>3. \A e : DeliveryOf(e).id = e.id /\ DeliveryOf(e).attempt = e.attempt
  BY DEF DeliveryOf
<1> HIDE DEF expired
<1>4. ASSUME NEW e \in Leased(j)
      PROVE  \E f \in Leased(j)' : e.attempt = f.attempt
  <2>1. CASE e \in Entries(j) \cap expired
    <3>1. DeliveryOf(e) \in Leased(j)'
      BY <1>1, <1>3, <2>1 DEF Leased, Entries
    <3> QED BY <1>3, <3>1
  <2>2. CASE e \notin Entries(j) \cap expired
    BY <1>1, <1>4, <2>2 DEF Leased, Entries
  <2> QED BY <2>1, <2>2
<1>5. /\ Stored(j)' = Stored(j) /\ (Dead(j) => Dead(j)') /\ Holders(j)' = Holders(j)
      /\ \A b \in Holders(j) : call'[b].held = call[b].held
  BY <1>1, <1>2 DEF Stored, Dead, HeldSame, Holders
<1> QED BY <1>1, <1>4, <1>5, LifeStays

\* drainReclaimed(): the lapsed delivery costs one attempt, or is the last.
LEMMA LifeDrain ==
  ASSUME NEW j \in Jobs, Known(j), Known(j)',
         NEW c \in Callers, NEW e \in call[c].staged, Drain(c, e)
  PROVE  Step(j)
<1> DEFINE m == [id |-> e.id, attempt |-> e.attempt + 1, ready |-> TRUE]
           x == [id |-> e.id, lease |-> e.lease]
<1>1. /\ reclaim' = reclaim \ {e}
      /\ \/ e \notin reclaim /\ UNCHANGED <<pending, dead>>
         \/ /\ e \in reclaim /\ ~Exhausted(e)
            /\ pending' = Append(pending, m) /\ dead' = dead
         \/ /\ e \in reclaim /\ Exhausted(e)
            /\ dead' = Append(dead, x) /\ pending' = pending
      /\ UNCHANGED <<delayed, processing, completed, submitted, discarded>>
  BY DEF Drain, history
<1>2. /\ e \in Delivery /\ m \in Message /\ x \in DeadEntry
      /\ m.id = e.id /\ x.id = e.id /\ m.attempt = e.attempt + 1
      /\ pending \in Seq(Message) /\ dead \in Seq(DeadEntry)
  <2>1. Typed /\ pending \in Seq(Message) /\ dead \in Seq(DeadEntry)
    BY DEF Known, Typed, TypeOK
  <2>2. e \in Delivery
    BY <2>1, RecordTypes
  <2>3. e.id \in Jobs /\ e.attempt + 1 \in Nat /\ e.lease \in Nat
    BY <2>2 DEF Delivery
  <2> QED BY <2>1, <2>2, <2>3 DEF Message, DeadEntry
<1> HIDE DEF m, x
<1>3. /\ Range(Append(pending, m)) = Range(pending) \cup {m}
      /\ JobsOf(Append(dead, x)) = JobsOf(dead) \cup {e.id}
  BY <1>2, AppendRange, AppendJobs DEF Added
<1>4. /\ Entries(j)' = Entries(j) /\ HandsStill(j) /\ (Dead(j) => Dead(j)')
  <2>1. HeldSame
    BY PopHolds DEF PopStep, Known
  <2> QED BY <1>1, <1>3, <2>1, HandsAfter DEF Entries, Dead
<1>5. CASE e \notin reclaim \/ e.id # j
  <2>1. Stored(j)' = Stored(j)
    BY <1>1, <1>2, <1>3, <1>5 DEF Stored
  <2>2. StagedOf(j)' = StagedOf(j)
    BY <1>1, <1>5 DEF StagedOf
  <2> QED BY <1>1, <1>4, <2>1, <2>2, LifeFrame
<1>6. CASE e \in reclaim /\ e.id = j
  <2>1. Mark(j, "leased", e.attempt)
    BY <1>6 DEF Known, Views, Leased
  <2>2. CASE ~Exhausted(e)
    <3>1. m \in Stored(j)'
      BY <1>1, <1>2, <1>3, <1>6, <2>2 DEF Stored
    <3>2. Mark(j, "waiting", e.attempt + 1)'
      BY <1>2, <3>1 DEF Known, Views, Mark
    <3>3. e.attempt < MaxRetries[j]
      BY <1>2, <1>6, <2>2, RedisAssumption DEF Exhausted, Delivery
    <3> QED BY <2>1, <3>2, <3>3 DEF Step, Moves, Mark
  <2>3. CASE Exhausted(e)
    <3>1. Dead(j)'
      BY <1>1, <1>3, <1>6, <2>3 DEF Dead
    <3> QED BY <2>1, <3>1 DEF Known, Views, Step, Moves, Mark
  <2> QED BY <2>2, <2>3
<1> QED BY <1>5, <1>6

\* The end of the drain may drop dead jobs.
LEMMA LifeEndDrain ==
  ASSUME NEW j \in Jobs, Known(j), Known(j)', NEW c \in Callers, EndDrain(c)
  PROVE  Step(j)
<1>1. /\ UNCHANGED <<pending, delayed, processing, reclaim, completed, submitted>>
      /\ KeepDead(dead) \/ UNCHANGED <<dead, discarded>>
  BY DEF EndDrain
<1>2. /\ Dead(j) => Dead(j)' \/ j \in discarded'
      /\ j \in discarded => j \in discarded'
  BY <1>1, KeepDeadJobs DEF Dead, Known, Typed, TypeOK
<1>3. /\ Stored(j)' = Stored(j) /\ Entries(j)' = Entries(j) /\ StagedOf(j)' = StagedOf(j)
  BY <1>1 DEF Stored, Entries, StagedOf
<1>4. HandsStill(j)
  BY PopHolds, HandsAfter DEF PopStep, Known
<1> QED BY <1>1, <1>2, <1>3, <1>4, LifeFrame

\* POP_SCRIPT: the job that waited longest is leased at its attempt.
LEMMA LifeTake ==
  ASSUME NEW j \in Jobs, Known(j), Known(j)', NEW c \in Callers, Take(c)
  PROVE  Step(j)
<1> DEFINE m == Head(pending)
           f == [id |-> m.id, attempt |-> m.attempt, lease |-> leases + 1, lapsed |-> FALSE]
<1>1. /\ UNCHANGED <<delayed, reclaim, dead, completed, submitted, discarded>>
      /\ \/ UNCHANGED <<pending, processing>>
         \/ pending # <<>> /\ pending' = Tail(pending) /\ processing' = processing \cup {f}
  BY DEF Take
<1>2. f.id = m.id /\ f.attempt = m.attempt
  OBVIOUS
<1> HIDE DEF f
<1>3. StagedOf(j)' = StagedOf(j) /\ HandsStill(j) /\ (Dead(j) => Dead(j)')
  <2>1. HeldSame
    BY PopHolds DEF PopStep, Known
  <2> QED BY <1>1, <2>1, HandsAfter DEF StagedOf, Dead
<1>4. CASE UNCHANGED <<pending, processing>>
  <2>1. Stored(j)' = Stored(j) /\ Entries(j)' = Entries(j)
    BY <1>1, <1>4 DEF Stored, Entries
  <2> QED BY <1>1, <1>3, <2>1, LifeFrame
<1>5. CASE pending # <<>> /\ pending' = Tail(pending) /\ processing' = processing \cup {f}
  <2>1. /\ m.id # j => Stored(j)' = Stored(j)
        /\ m.id = j => m \in Stored(j)
    BY <1>1, <1>5, StoredAfterTake DEF Known
  <2>2. CASE m.id # j
    <3>1. Entries(j)' = Entries(j)
      BY <1>2, <1>5, <2>2 DEF Entries
    <3> QED BY <1>1, <1>3, <2>1, <2>2, <3>1, LifeFrame
  <2>3. CASE m.id = j
    <3>1. PICK n : n = m.attempt
      OBVIOUS
    <3>2. Mark(j, "waiting", n)
      BY <2>1, <2>3, <3>1 DEF Known, Views
    <3>3. \E g \in Leased(j)' : g.attempt = n
      BY <1>2, <1>5, <2>3, <3>1 DEF Leased, Entries
    <3>4. Mark(j, "leased", n)'
      BY <3>3 DEF Known, Views, Mark
    <3> QED BY <3>2, <3>4 DEF Step, Moves, Mark
  <2> QED BY <2>2, <2>3
<1> QED BY <1>1, <1>4, <1>5

\* The holder of a lease sees its job leased, at the attempt of its delivery.
LEMMA HolderSees ==
  ASSUME NEW d \in deliveries, Known(d.id), Holds(d)
  PROVE  Mark(d.id, "leased", d.attempt)
<1>1. PICK e : e \in OwnedBy(d)
  BY DEF Holds
<1>2. e \in processing /\ DeliveryOf(e) = d /\ e.id = d.id
  BY <1>1, OwnEntry DEF Known
<1>3. e.attempt = d.attempt
  BY <1>2 DEF DeliveryOf
<1>4. e \in Leased(d.id)
  BY <1>2 DEF Leased, Entries
<1> QED BY <1>3, <1>4 DEF Known, Views

\* ack()
LEMMA LifeAck ==
  ASSUME NEW j \in Jobs, Known(j), Known(j)', NEW d \in deliveries, Ack(d)
  PROVE  Step(j)
<1>1. /\ Release(d) /\ Holds(d) /\ completed' = completed \cup {d.id}
      /\ UNCHANGED <<pending, delayed, reclaim, dead, call, submitted, discarded>>
  BY DEF Ack, Release
<1>2. CASE j # d.id
  <2>1. Entries(j)' = Entries(j)
    BY <1>1, <1>2, ReleasedEntries DEF Known
  <2>2. /\ Stored(j)' = Stored(j) /\ StagedOf(j)' = StagedOf(j) /\ HandsStill(j)
        /\ Dead(j) => Dead(j)'
    BY <1>1 DEF Stored, StagedOf, HandsStill, Holders, Dead
  <2> QED BY <1>1, <1>2, <2>1, <2>2, LifeFrame
<1>3. CASE j = d.id
  <2>1. Mark(j, "leased", d.attempt)
    BY <1>1, <1>3, HolderSees
  <2>2. j \in completed'
    BY <1>1, <1>3
  <2> QED BY <2>1, <2>2 DEF Known, Views, Step, Moves, Mark
<1> QED BY <1>2, <1>3

\* nack(): the job is leased to the call until that call has pushed it.
LEMMA LifeNack ==
  ASSUME NEW j \in Jobs, Known(j), Known(j)',
         NEW c \in Callers, NEW d \in deliveries, NEW ready \in BOOLEAN, Nack(c, d, ready)
  PROVE  Step(j)
<1> DEFINE m == [id |-> d.id, attempt |-> d.attempt + 1, ready |-> ready]
<1>1. /\ Release(d) /\ Holds(d)
      /\ UNCHANGED <<pending, delayed, reclaim, dead, completed, submitted, discarded>>
  BY DEF Nack, Release
<1>2. call[c].held = <<>> /\ Handed(c, <<m>>)
  BY NackHolds DEF Known
<1>3. m.id = d.id /\ m.attempt = d.attempt + 1 /\ d.attempt \in Nat
  BY DEF Known, Typed, TypeOK, Delivery
<1> HIDE DEF m
<1>4. CASE j # d.id
  <2>1. Entries(j)' = Entries(j)
    BY <1>1, <1>4, ReleasedEntries DEF Known
  <2>2. /\ Stored(j)' = Stored(j) /\ StagedOf(j)' = StagedOf(j)
        /\ Dead(j) => Dead(j)'
    BY <1>1 DEF Stored, StagedOf, Dead
  <2>3. HandsStill(j)
    BY <1>2, <1>3, <1>4, HandsAfter
  <2> QED BY <1>1, <1>4, <2>1, <2>2, <2>3, LifeFrame
<1>5. CASE j = d.id
  <2>1. Mark(j, "leased", d.attempt)
    BY <1>1, <1>5, HolderSees
  <2>2. c \in Holders(j)' /\ call'[c].held = <<m>>
    BY <1>2, <1>3, <1>5, HoldersAfter DEF Handed
  <2>3. Head(call'[c].held).attempt = d.attempt + 1
    BY <1>3, <2>2
  <2>4. /\ Head(call'[c].held).attempt # 0
        /\ Head(call'[c].held).attempt - 1 = d.attempt
    BY <1>3, <2>3
  <2>5. Mark(j, "leased", d.attempt)'
    BY <2>2, <2>4 DEF Known, Views, Mark
  <2> QED BY <2>1, <2>5 DEF Step, Moves, Mark
<1> QED BY <1>4, <1>5

\* The push that ends a nack or a re-drive.
LEMMA LifePushHeld ==
  ASSUME NEW j \in Jobs, Known(j), Known(j)', NEW c \in Callers, PushHeld(c)
  PROVE  Step(j)
<1> DEFINE m == Head(call[c].held)
<1>1. /\ call[c].at = "pushing" /\ Insert(m)
      /\ UNCHANGED <<processing, reclaim, dead, completed, submitted, discarded>>
  BY DEF PushHeld, history
<1>2. m \in Message /\ call[c].held = <<m>> /\ Handed(c, <<>>)
  BY <1>1, HeldMessage, EmptyHand DEF Known
<1>3. m.attempt <= MaxRetries[m.id] /\ m.attempt \in Nat /\ m.id \in Jobs
  <2>1. WithinBudget(call[c].held) /\ 1 \in DOMAIN call[c].held /\ call[c].held[1] = m
    BY <1>2 DEF Known, Budget
  <2> QED BY <1>2, <2>1 DEF WithinBudget, Message
<1>4. c \in Holders(j) <=> j = m.id
  BY <1>2, HoldersAfter
<1> HIDE DEF m
<1>5. Stored(j)' = IF j = m.id THEN Stored(j) \cup {m} ELSE Stored(j)
  BY <1>1, <1>2, StoredAfterPush DEF Known
<1>6. CASE j # m.id
  <2>1. HandsStill(j)
    BY <1>2, <1>4, <1>6, HandsAfter
  <2>2. /\ Entries(j)' = Entries(j) /\ StagedOf(j)' = StagedOf(j) /\ (Dead(j) => Dead(j)')
    BY <1>1 DEF Entries, StagedOf, Dead
  <2> QED BY <1>1, <1>5, <1>6, <2>1, <2>2, LifeFrame
<1>7. CASE j = m.id
  <2>1. PICK n : n = m.attempt
    OBVIOUS
  <2>2. IF n = 0 THEN Mark(j, "dead", 0) ELSE Mark(j, "leased", n - 1)
    BY <1>4, <1>7, <2>1 DEF Known, Views, m
  <2>3. Mark(j, "waiting", n)'
    <3>1. \E q \in Stored(j)' : q.attempt = n
      BY <1>5, <1>7, <2>1
    <3> QED BY <3>1 DEF Known, Views, Mark
  <2>4. n \in Nat /\ n <= MaxRetries[j] /\ MaxRetries[j] \in Nat
    BY <1>3, <1>7, <2>1, RedisAssumption
  <2>5. CASE n = 0
    BY <2>2, <2>3, <2>5 DEF Step, Moves, Mark
  <2>6. CASE n # 0
    <3>1. n - 1 < MaxRetries[j] /\ n = (n - 1) + 1
      BY <2>4, <2>6
    <3> QED BY <2>2, <2>3, <2>6, <3>1 DEF Step, Moves, Mark
  <2> QED BY <2>5, <2>6
<1> QED BY <1>6, <1>7

\* extendLease() and the passing of time touch the lease, not the job.
LEMMA LifeTouched ==
  ASSUME NEW j \in Jobs, Known(j), Known(j)',
         \/ \E d \in deliveries : Extend(d)
         \/ \E e \in processing : Lapse(e)
  PROVE  Step(j)
<1>1. UNCHANGED <<pending, delayed, reclaim, dead, call, completed, submitted, discarded>>
  BY TouchedEntries DEF history, Known
<1>2. PICK h \in [processing -> processing'] : Touched(h)
  BY TouchedEntries DEF Known
<1>3. \A e \in processing : h[e] \in processing' /\ h[e].id = e.id /\ h[e].attempt = e.attempt
  <2> TAKE e \in processing
  <2>1. DeliveryOf(h[e]).id = DeliveryOf(e).id /\ DeliveryOf(h[e]).attempt = DeliveryOf(e).attempt
    BY <1>2 DEF Touched
  <2> QED BY <2>1 DEF DeliveryOf
<1>4. ASSUME NEW e \in Leased(j) PROVE \E f \in Leased(j)' : e.attempt = f.attempt
  <2>1. CASE e \in Entries(j)
    <3>1. h[e] \in Leased(j)' /\ e.attempt = h[e].attempt
      BY <1>3, <2>1 DEF Leased, Entries
    <3> QED BY <3>1
  <2>2. CASE e \notin Entries(j)
    <3>1. e \in Leased(j)'
      BY <1>1, <2>2 DEF Leased
    <3> QED BY <3>1
  <2> QED BY <2>1, <2>2
<1>5. /\ Stored(j)' = Stored(j) /\ Holders(j)' = Holders(j) /\ (Dead(j) => Dead(j)')
      /\ \A b \in Holders(j) : call'[b].held = call[b].held
  BY <1>1 DEF Stored, Holders, Dead
<1> QED BY <1>1, <1>4, <1>5, LifeStays

\* A message becomes due and goes on waiting.
LEMMA LifeRipen ==
  ASSUME NEW j \in Jobs, Known(j), Known(j)', NEW i \in DOMAIN delayed, Ripen(i)
  PROVE  Step(j)
<1>1. UNCHANGED <<pending, processing, reclaim, dead, call, completed, submitted, discarded>>
  BY DEF Ripen, history
<1>2. /\ DOMAIN delayed' = DOMAIN delayed
      /\ \A k \in DOMAIN delayed : /\ delayed'[k].id = delayed[k].id
                                   /\ delayed'[k].attempt = delayed[k].attempt
  BY DEF Ripen, Known, Typed, TypeOK, Message
<1>3. ASSUME NEW m \in Stored(j) PROVE \E n \in Stored(j)' : m.attempt = n.attempt
  <2>1. CASE m \in Range(pending)
    BY <1>1, <2>1 DEF Stored
  <2>2. CASE m \in Range(delayed)
    <3>1. PICK k \in DOMAIN delayed : m = delayed[k]
      BY <2>2 DEF Range
    <3>2. delayed'[k] \in Stored(j)'
      BY <1>2, <3>1 DEF Stored, Range
    <3> QED BY <1>2, <3>1, <3>2
  <2> QED BY <2>1, <2>2 DEF Stored
<1>4. /\ Leased(j)' = Leased(j) /\ Holders(j)' = Holders(j) /\ (Dead(j) => Dead(j)')
      /\ \A b \in Holders(j) : call'[b].held = call[b].held
  BY <1>1 DEF Leased, Entries, Holders, Dead
<1> QED BY <1>1, <1>3, <1>4, LifeStays

\* The steps that only look: the reaper's LRANGE and the lookup of a re-drive.
LEMMA LifeLook ==
  ASSUME NEW j \in Jobs, Known(j), Known(j)', NEW c \in Callers,
         List(c) \/ \E i \in DOMAIN dead : FindDead(c, i)
  PROVE  Step(j)
<1>1. UNCHANGED <<pending, delayed, processing, reclaim, dead, completed, submitted, discarded>>
  BY DEF List, FindDead, redis, history
<1>2. HandsStill(j)
  BY PopHolds, HandsAfter DEF PopStep, Known
<1>3. /\ Stored(j)' = Stored(j) /\ Entries(j)' = Entries(j) /\ StagedOf(j)' = StagedOf(j)
      /\ Dead(j) => Dead(j)'
  BY <1>1 DEF Stored, Entries, StagedOf, Dead
<1> QED BY <1>1, <1>2, <1>3, LifeFrame

\* deadLetter() with the lease buries its job; a full queue drops another one.
LEMMA LifeDeadLetter ==
  ASSUME NEW j \in Jobs, Known(j), Known(j)', NEW d \in deliveries, DeadLetter(d)
  PROVE  Step(j)
<1> DEFINE x == [id |-> d.id, lease |-> d.lease]
           s == Append(dead, x)
<1>1. /\ UNCHANGED <<pending, delayed, reclaim, call, completed, submitted>>
      /\ KeepDead(s)
      /\ \/ Release(d)
         \/ processing' = processing /\ forked' = forked \cup {d.id}
  BY DEF DeadLetter
<1>2. x \in DeadEntry /\ x.id = d.id
  BY DEF Known, Typed, TypeOK, Delivery, DeadEntry
<1> HIDE DEF x
<1>3. s \in Seq(DeadEntry) /\ JobsOf(s) = JobsOf(dead) \cup {d.id}
  BY <1>2, AppendJobs DEF Known, Typed, TypeOK, Added
<1> HIDE DEF s
<1>4. /\ j \in JobsOf(s) => Dead(j)' \/ j \in discarded'
      /\ j \in discarded => j \in discarded'
  BY <1>1, <1>3, KeepDeadJobs DEF Dead
<1>5. CASE j # d.id
  <2>1. Entries(j)' = Entries(j)
    BY <1>1, <1>5, ReleasedEntries DEF Entries, Known
  <2>2. /\ Stored(j)' = Stored(j) /\ StagedOf(j)' = StagedOf(j) /\ HandsStill(j)
        /\ Dead(j) => j \in JobsOf(s)
    BY <1>1, <1>3 DEF Stored, StagedOf, HandsStill, Holders, Dead
  <2> QED BY <1>1, <1>4, <1>5, <2>1, <2>2, LifeFrame
<1>6. CASE j = d.id
  <2>1. Release(d)
    BY <1>1, <1>6 DEF Known, Gone
  <2>2. Mark(j, "leased", d.attempt)
    BY <1>6, <2>1, HolderSees DEF Release
  <2>3. Dead(j)' \/ j \in discarded'
    BY <1>3, <1>4, <1>6
  <2> QED BY <2>2, <2>3 DEF Known, Views, Step, Moves, Mark
<1> QED BY <1>5, <1>6

\* A job a re-drive has taken is dead until it is pushed.
LEMMA LifeTaken ==
  ASSUME NEW j \in Jobs, Known(j), Known(j)', NEW c \in Callers, NEW i \in Jobs,
         call[c].held = <<>>, Handed(c, <<Fresh(i)>>), Removed(dead, i, dead'),
         UNCHANGED <<pending, delayed, processing, reclaim, history, dropped>>
  PROVE  Step(j)
<1>1. Fresh(i).id = i /\ Fresh(i).attempt = 0
  BY DEF Fresh
<1>2. CASE j # i
  <2>1. HandsStill(j)
    BY <1>1, <1>2, HandsAfter
  <2>2. Dead(j) => Dead(j)'
    BY <1>2 DEF Dead, Removed
  <2>3. /\ Stored(j)' = Stored(j) /\ Entries(j)' = Entries(j) /\ StagedOf(j)' = StagedOf(j)
    BY DEF Stored, Entries, StagedOf
  <2> QED BY <2>1, <2>2, <2>3, LifeFrame DEF history
<1>3. CASE j = i
  <2>1. Dead(j)
    BY <1>3 DEF Dead, Removed
  <2>2. c \in Holders(j)' /\ call'[c].held = <<Fresh(i)>>
    BY <1>1, <1>3, HoldersAfter DEF Handed
  <2>3. Head(call'[c].held).attempt = 0
    BY <1>1, <2>2
  <2> QED BY <2>1, <2>2, <2>3 DEF Known, Views, Step, Moves, Mark
<1> QED BY <1>2, <1>3

\* redriveDeadLetter()
LEMMA LifeRemoveDead ==
  ASSUME NEW j \in Jobs, Known(j), Known(j)', NEW c \in Callers, RemoveDead(c)
  PROVE  Step(j)
<1>1. UNCHANGED <<pending, delayed, processing, reclaim, history, dropped>>
  BY DEF RemoveDead
<1>2. CASE HeldSame /\ dead' = dead
  <2>1. /\ Stored(j)' = Stored(j) /\ Entries(j)' = Entries(j) /\ StagedOf(j)' = StagedOf(j)
        /\ HandsStill(j) /\ (Dead(j) => Dead(j)')
    BY <1>1, <1>2, HandsAfter DEF Stored, Entries, StagedOf, Dead
  <2> QED BY <1>1, <2>1, LifeFrame DEF history
<1>3. ASSUME NEW i \in DOMAIN dead, dead' = RemoveAt(dead, i),
             Handed(c, <<Fresh(dead[i].id)>>)
      PROVE  Step(j)
  <2>1. Removed(dead, dead[i].id, dead')
    BY <1>3, RemoveAtJobs DEF Known, Typed, TypeOK
  <2>2. call[c].held = <<>> /\ dead[i].id \in Jobs
    BY RemoveHolds, DeadNames DEF Known
  <2> QED BY <1>1, <1>3, <2>1, <2>2, LifeTaken
<1> QED BY <1>2, <1>3, RemoveHolds DEF Known

\* redriveDeadLetters()
LEMMA LifeTakeDead ==
  ASSUME NEW j \in Jobs, Known(j), Known(j)', NEW c \in Callers, TakeDead(c)
  PROVE  Step(j)
<1>1. UNCHANGED <<pending, delayed, processing, reclaim, history, dropped>>
  BY DEF TakeDead
<1>2. Removed(dead, Head(dead).id, dead') /\ Head(dead).id \in Jobs
  BY TailJobs, DeadNames DEF TakeDead, Known, Typed, TypeOK
<1> QED BY <1>1, <1>2, TakeHolds, LifeTaken DEF Known

\* purgeDeadLetters()
LEMMA LifePurge ==
  ASSUME NEW j \in Jobs, Known(j), Known(j)', PurgeDeadLetters
  PROVE  Step(j)
<1>1. /\ UNCHANGED <<pending, delayed, processing, reclaim, call, completed, submitted>>
      /\ discarded' = discarded \cup JobsOf(dead)
  BY DEF PurgeDeadLetters
<1>2. /\ Stored(j)' = Stored(j) /\ Entries(j)' = Entries(j) /\ StagedOf(j)' = StagedOf(j)
      /\ HandsStill(j) /\ (Dead(j) => j \in discarded')
  BY <1>1 DEF Stored, Entries, StagedOf, HandsStill, Holders, Dead
<1> QED BY <1>1, <1>2, LifeFrame

\* An interrupted call leaves the jobs it did not hold.
LEMMA LifeAbort ==
  ASSUME NEW j \in Jobs, Known(j), Known(j)', NEW c \in Callers, Abort(c)
  PROVE  Step(j)
<1>1. /\ UNCHANGED <<pending, delayed, processing, reclaim, dead, completed, submitted, discarded>>
      /\ dropped' = dropped \cup JobsOf(call[c].held)
  BY DEF Abort, redis, history
<1>2. c \notin Holders(j)
  BY <1>1 DEF Known, Gone, Holders
<1>3. HandsStill(j)
  BY <1>2, EmptyHand, HandsAfter DEF Known
<1>4. /\ Stored(j)' = Stored(j) /\ Entries(j)' = Entries(j) /\ StagedOf(j)' = StagedOf(j)
      /\ Dead(j) => Dead(j)'
  BY <1>1 DEF Stored, Entries, StagedOf, Dead
<1> QED BY <1>1, <1>3, <1>4, LifeFrame

\* A job leaves the promise once it is submitted, and for good.
LEMMA GoneGrows ==
  ASSUME Typed, NEW j, JobSound(j), [Next]_vars
  PROVE  /\ Gone(j) => Gone(j)'
         /\ ~Gone(j) /\ Gone(j)' => Placed(j)
<1>1. ASSUME NEW d \in deliveries, DeadLetter(d)
      PROVE  dropped' = dropped /\ (forked' = forked \/ forked' = forked \cup {d.id})
  BY <1>1 DEF DeadLetter
<1>2. ASSUME NEW c \in Callers, Abort(c)
      PROVE  forked' = forked /\ dropped' = dropped \cup JobsOf(call[c].held)
  BY <1>2 DEF Abort, history
<1>3. \/ UNCHANGED <<forked, dropped>>
      \/ \E d \in deliveries : DeadLetter(d)
      \/ \E c \in Callers : Abort(c)
  <2>1. CASE UNCHANGED vars
    BY <2>1 DEF vars, history
  <2>2. ASSUME NEW c \in Callers, PopStep(c) PROVE UNCHANGED <<forked, dropped>>
    BY <2>2 DEF PopStep, PromoteDelayed, Stage, List, Drain, EndDrain, Take, history
  <2>3. ASSUME NEW c \in Callers, PushHeld(c) \/ RemoveDead(c) \/ TakeDead(c)
        PROVE  UNCHANGED <<forked, dropped>>
    BY <2>3 DEF PushHeld, RemoveDead, TakeDead, history
  <2>4. ASSUME NEW c \in Callers,
               \/ \E i \in DOMAIN dead : FindDead(c, i)
               \/ \E d \in deliveries, ready \in BOOLEAN : Nack(c, d, ready)
        PROVE  UNCHANGED <<forked, dropped>>
    BY <2>4 DEF FindDead, Nack, history
  <2>5. ASSUME \/ \E i \in Jobs, ready \in BOOLEAN : Push(i, ready)
               \/ \E d \in deliveries : Ack(d) \/ Extend(d)
               \/ PurgeDeadLetters
               \/ \E i \in DOMAIN delayed : Ripen(i)
               \/ \E e \in processing : Lapse(e)
        PROVE  UNCHANGED <<forked, dropped>>
    BY <2>5 DEF Push, Ack, Extend, PurgeDeadLetters, Ripen, Lapse, history
  <2> QED BY <2>1, <2>2, <2>3, <2>4, <2>5 DEF Next
<1>4. Gone(j) => Gone(j)'
  BY <1>1, <1>2, <1>3 DEF Gone
<1>5. ASSUME NEW d \in deliveries, j = d.id PROVE Placed(j)
  BY <1>5 DEF JobSound
<1>6. ASSUME NEW c \in Callers, j \in JobsOf(call[c].held) PROVE Placed(j)
  BY <1>6 DEF Placed, Holders
<1> QED BY <1>1, <1>2, <1>3, <1>4, <1>5, <1>6 DEF Gone

\* Every step of the queue moves each job as the life of a job allows.
LEMMA LifeMoves ==
  ASSUME RedisInv, RedisInv', NEW j \in Jobs, Views(j), Views(j)', [Next]_vars
  PROVE  Step(j)
<1>1. /\ Typed /\ LeasesSound /\ Budget /\ JobSound(j)
      /\ (Typed /\ LeasesSound /\ Budget /\ JobSound(j))'
  BY DEF RedisInv, JobsSound
<1>2. /\ Gone(j) => Gone(j)'
      /\ ~Gone(j) /\ Gone(j)' => Placed(j)
  BY <1>1, GoneGrows
<1>3. ~Gone(j) => Known(j)
  BY <1>1 DEF Known, JobSound, Gone
<1>4. ~Gone(j)' => Known(j)'
  BY <1>1 DEF Known, JobSound, Gone
<1>5. CASE Gone(j)'
  <2>1. Mark(j, "outside", 0)'
    BY <1>5 DEF Views
  <2>2. CASE Gone(j)
    BY <2>1, <2>2 DEF Views, Step, Moves, Mark
  <2>3. CASE ~Gone(j)
    <3>1. StatusOf(j) # "new"
      BY <1>2, <1>3, <1>5, <2>3, PlacedIsNotNew
    <3> QED BY <2>1, <3>1 DEF Step, Moves, Mark
  <2> QED BY <2>2, <2>3
<1>6. CASE ~Gone(j)'
  <2>1. Known(j) /\ Known(j)'
    BY <1>2, <1>3, <1>4, <1>6
  <2>2. ASSUME NEW c \in Callers, PopStep(c) PROVE Step(j)
    BY <2>1, <2>2, LifePromote, LifeStage, LifeLook, LifeDrain, LifeEndDrain, LifeTake
       DEF PopStep
  <2>3. CASE UNCHANGED vars
    <3>1. UNCHANGED <<pending, delayed, processing, reclaim, dead, call, completed, submitted,
                      discarded>>
      BY <2>3 DEF vars, redis, history
    <3>2. /\ Stored(j)' = Stored(j) /\ Entries(j)' = Entries(j) /\ StagedOf(j)' = StagedOf(j)
          /\ HandsStill(j) /\ (Dead(j) => Dead(j)')
      BY <3>1 DEF Stored, Entries, StagedOf, HandsStill, Holders, Dead
    <3> QED BY <2>1, <3>1, <3>2, LifeFrame
  <2> QED
    BY <2>1, <2>2, <2>3, LifePush, LifePushHeld, LifeRemoveDead, LifeTakeDead, LifeAbort,
       LifeLook, LifeNack, LifeAck, LifeTouched, LifeDeadLetter, LifePurge, LifeRipen DEF Next
<1> QED BY <1>5, <1>6

\* The abstract state of a job is one of those of JobLifecycle.
LEMMA LifeTyped ==
  ASSUME RedisInv, NEW j \in Jobs, Views(j)
  PROVE  StatusOf(j) \in Life!Status /\ TriesOf(j) \in Nat
<1>1. Typed /\ JobSound(j)
  BY DEF RedisInv, JobsSound
<1>2. CASE Gone(j)
  BY <1>2 DEF Views, Mark, Life!Status
<1>3. CASE ~Gone(j)
  <2>1. OneEach(j) /\ Apart(j)
    BY <1>1, <1>3 DEF JobSound, Gone
  <2>2. ASSUME NEW m \in Stored(j) PROVE StatusOf(j) = "waiting" /\ TriesOf(j) \in Nat
    <3>1. m \in Message
      BY <1>1 DEF Stored, Range, Typed, TypeOK
    <3> QED BY <1>3, <3>1 DEF Views, Mark, Message
  <2>3. ASSUME NEW e \in Leased(j) PROVE StatusOf(j) = "leased" /\ TriesOf(j) \in Nat
    <3>1. e.attempt \in Nat
      BY <1>1 DEF Leased, Entries, Typed, TypeOK, InFlight, Delivery
    <3> QED BY <1>3, <3>1 DEF Views, Mark
  <2>4. ASSUME NEW c \in Holders(j) PROVE StatusOf(j) \in {"dead", "leased"} /\ TriesOf(j) \in Nat
    <3>1. Head(call[c].held).attempt \in Nat
      BY <1>1, <2>1, HeldIs DEF Message
    <3>2. CASE Head(call[c].held).attempt = 0
      BY <1>3, <3>2 DEF Views, Mark
    <3>3. CASE Head(call[c].held).attempt # 0
      <4>1. Head(call[c].held).attempt - 1 \in Nat
        BY <3>1, <3>3
      <4> QED BY <1>3, <3>3, <4>1 DEF Views, Mark
    <3> QED BY <3>2, <3>3
  <2>5. ASSUME Dead(j) \/ j \in completed \/ j \in discarded \/ ~Placed(j)
        PROVE  StatusOf(j) \in {"dead", "done", "discarded", "new"} /\ TriesOf(j) \in Nat
    BY <1>3, <2>5 DEF Views, Mark
  <2>6. \/ Stored(j) # {} \/ Leased(j) # {} \/ Holders(j) # {}
        \/ Dead(j) \/ j \in completed \/ j \in discarded \/ ~Placed(j)
    BY <1>3, <2>1, StoredSole DEF Placed, Waiting, Dropped, Gone, Leased, StagedOf
  <2> QED BY <2>2, <2>3, <2>4, <2>5, <2>6 DEF Life!Status
<1> QED BY <1>2, <1>3

\* The durable queue implements the life of a job: whatever the processes that
\* share it promote, reap, drain, push and re-drive at once, and wherever they are
\* interrupted, each job is submitted once, leased to one delivery at a time, given
\* back at the cost of one retry, and ends acked or dead-lettered.
THEOREM Implements == Spec => ImplementsLifecycle
<1> DEFINE Seen == \A j \in Jobs :
                     Views(j) /\ StatusOf(j) \in Life!Status /\ TriesOf(j) \in Nat
<1>1. Init => Life!LifeInit
  <2> SUFFICES ASSUME Init PROVE Life!LifeInit
    OBVIOUS
  <2>1. RedisInv
    BY RedisInit
  <2>2. ASSUME NEW j \in Jobs PROVE Mark(j, "new", 0)
    <3>1. ~Gone(j)
      BY DEF Init, Gone
    <3>2. ~Placed(j)
      BY <2>1 DEF Init, RedisInv, JobsSound, JobSound
    <3> QED BY <2>1, <3>1, <3>2, ViewsHold DEF Views
  <2> QED BY <2>2 DEF Life!LifeInit, Mark
<1>2. RedisInv /\ Seen /\ RedisInv' /\ Seen' /\ [Next]_vars => [Life!LifeNext]_(Life!lifeVars)
  <2> SUFFICES ASSUME RedisInv, Seen, RedisInv', Seen', [Next]_vars PROVE Life!LifeNext
    OBVIOUS
  <2>1. ASSUME NEW j \in Jobs
        PROVE  Step(j) /\ StatusOf(j)' \in Life!Status /\ TriesOf(j)' \in Nat
    BY LifeMoves DEF Life!Status
  <2> QED BY <2>1
      DEF Life!LifeNext, Life!JobStep, Life!Submit, Life!Deliver, Life!Complete,
          Life!GiveBack, Life!Bury, Life!Redrive, Life!Discard, Life!Leave, Life!Stay,
          Life!To, Step, Moves
<1>3. RedisInv => Seen
  BY ViewsHold, LifeTyped
<1> QED BY <1>1, <1>2, <1>3, RedisInductive, PTL DEF Spec, ImplementsLifecycle, Life!LifeSpec

=============================================================================
