---------------------------- MODULE Queue_proofs ----------------------------
(***************************************************************************)
(* Proofs about MemoryQueue and about TaskWorker, which drains it.         *)
(*                                                                         *)
(* Of the queue, for any jobs, retry limits, caps and bounds: type         *)
(* correctness, and that no job is lost, copied, taken from its holder or  *)
(* delivered beyond its budget.  Of the worker: it keeps the discipline of *)
(* the queue, its slots are accounted for, the concurrency limit is        *)
(* exceeded by restarts only, polling never dies, and executions of one    *)
(* job exclude each other while the lease lasts.                           *)
(***************************************************************************)
EXTENDS TaskWorker, FiniteSetTheorems, SequenceTheorems, TLAPS

(* The queue *)

\* What RemoveAt returns, element by element.
LEMMA RemoveAtFacts ==
  ASSUME NEW S, NEW s \in Seq(S), NEW i \in 1..Len(s)
  PROVE  /\ RemoveAt(s, i) \in Seq(S)
         /\ Len(RemoveAt(s, i)) = Len(s) - 1
         /\ \A k \in 1..(Len(s) - 1) :
              RemoveAt(s, i)[k] = IF k < i THEN s[k] ELSE s[k + 1]
<1> DEFINE a == SubSeq(s, 1, i - 1)
           b == SubSeq(s, i + 1, Len(s))
<1>1. a \in Seq(S) /\ Len(a) = i - 1 /\ \A k \in 1..(i - 1) : a[k] = s[k]
  OBVIOUS
<1>2. b \in Seq(S) /\ Len(b) = Len(s) - i /\ \A k \in 1..(Len(s) - i) : b[k] = s[k + i]
  OBVIOUS
<1>3. RemoveAt(s, i) = a \o b
  BY DEF RemoveAt
<1> HIDE DEF a, b
<1>4. /\ a \o b \in Seq(S)
      /\ Len(a \o b) = Len(a) + Len(b)
      /\ \A k \in 1..(Len(a) + Len(b)) :
           (a \o b)[k] = IF k <= Len(a) THEN a[k] ELSE b[k - Len(a)]
  BY <1>1, <1>2, ConcatProperties
<1>5. Len(a) + Len(b) = Len(s) - 1
  BY <1>1, <1>2
<1>6. \A k \in 1..(Len(s) - 1) :
        (a \o b)[k] = IF k < i THEN s[k] ELSE s[k + 1]
  <2> TAKE k \in 1..(Len(s) - 1)
  <2>1. CASE k < i
    BY <2>1, <1>1, <1>4, <1>5
  <2>2. CASE ~(k < i)
    <3>1. k - (i - 1) \in 1..(Len(s) - i) /\ (k - (i - 1)) + i = k + 1
      BY <2>2
    <3>2. (a \o b)[k] = b[k - (i - 1)]
      BY <2>2, <1>1, <1>4, <1>5
    <3>3. b[k - (i - 1)] = s[(k - (i - 1)) + i]
      BY <3>1, <1>2
    <3> QED BY <2>2, <3>1, <3>2, <3>3
  <2> QED BY <2>1, <2>2
<1> QED
  BY <1>3, <1>4, <1>5, <1>6

\* An enumeration of a set of jobs: its type, its elements, no repetition.
LEMMA SetToSeqsFacts ==
  ASSUME NEW S \in SUBSET Jobs, NEW s \in SetToSeqs(S)
  PROVE  /\ s \in Seq(S)
         /\ s \in Seq(Jobs)
         /\ Range(s) = S
         /\ \A i, k \in DOMAIN s : s[i] = s[k] => i = k
<1>1. IsFiniteSet(S) /\ Cardinality(S) \in Nat
  BY QueueAssumption, FS_Subset, FS_CardinalityType
<1>2. /\ s \in [1..Cardinality(S) -> S]
      /\ \A i, k \in 1..Cardinality(S) : i # k => s[i] # s[k]
  BY DEF SetToSeqs
<1>3. IsFiniteSet(1..Cardinality(S)) /\ Cardinality(1..Cardinality(S)) = Cardinality(S)
  BY <1>1, FS_Interval
<1>4. s \in Injection(1..Cardinality(S), S)
  BY <1>2 DEF Injection, IsInjective
<1>5. s \in Surjection(1..Cardinality(S), S)
  BY <1>1, <1>3, <1>4, FS_Injection
<1>6. Range(s) = S
  BY <1>2, <1>5 DEF Surjection, Range
<1>7. s \in Seq(S) /\ s \in Seq(Jobs)
  BY <1>1, <1>2
<1> QED
  BY <1>2, <1>6, <1>7

-----------------------------------------------------------------------------
(* Where an id occurs after each edit of a sequence *)

\* Appending an id adds it to the range, once if it was not there.
LEMMA AppendIds ==
  ASSUME NEW s \in Seq(Jobs), NEW x \in Jobs
  PROVE  /\ Range(Append(s, x)) = Range(s) \cup {x}
         /\ \A j \in Jobs : Once(s, j) /\ (j = x => j \notin Range(s))
                              => Once(Append(s, x), j)
<1>1. /\ Append(s, x) \in Seq(Jobs)
      /\ Len(Append(s, x)) = Len(s) + 1
      /\ \A k \in 1..Len(s) : Append(s, x)[k] = s[k]
      /\ Append(s, x)[Len(s) + 1] = x
  OBVIOUS
<1>2. DOMAIN s = 1..Len(s) /\ DOMAIN Append(s, x) = 1..(Len(s) + 1)
  BY <1>1
<1> DEFINE t == Append(s, x)
<1> HIDE DEF t
<1>3. 1..(Len(s) + 1) = 1..Len(s) \cup {Len(s) + 1}
  OBVIOUS
<1>4. Range(t) = Range(s) \cup {x}
  BY <1>1, <1>2, <1>3, Zenon DEF Range, t
<1>5. ASSUME NEW j \in Jobs, Once(s, j), j = x => j \notin Range(s) PROVE Once(t, j)
  BY <1>1, <1>2, <1>3, <1>5, Zenon DEF Range, Once, t
<1> QED BY <1>4, <1>5 DEF t

\* A concatenation has the ids of both parts; an id that is once in one of them
\* and absent from the other is once in it.
LEMMA ConcatIds ==
  ASSUME NEW s \in Seq(Jobs), NEW t \in Seq(Jobs)
  PROVE  /\ Range(s \o t) = Range(s) \cup Range(t)
         /\ \A j \in Jobs : Once(s, j) /\ Once(t, j) /\ ~(j \in Range(s) /\ j \in Range(t))
                              => Once(s \o t, j)
         /\ \A j \in Jobs : Once(s \o t, j) =>
              Once(s, j) /\ Once(t, j) /\ ~(j \in Range(s) /\ j \in Range(t))
<1> DEFINE u == s \o t
           m == Len(s)
           n == Len(t)
<1>1. /\ u \in Seq(Jobs) /\ Len(u) = m + n
      /\ \A i \in 1..(m + n) : u[i] = IF i <= m THEN s[i] ELSE t[i - m]
      /\ m \in Nat /\ n \in Nat
      /\ DOMAIN s = 1..m /\ DOMAIN t = 1..n /\ DOMAIN u = 1..(m + n)
  BY ConcatProperties
<1> HIDE DEF u, m, n
<1>2. /\ \A i \in 1..m : i \in DOMAIN u /\ u[i] = s[i]
      /\ \A i \in 1..n : m + i \in DOMAIN u /\ u[m + i] = t[i]
      /\ \A i \in DOMAIN u : i \in 1..m \/ (i - m \in 1..n /\ u[i] = t[i - m])
  <2>1. ASSUME NEW i \in 1..m PROVE i \in DOMAIN u /\ u[i] = s[i]
    BY <1>1
  <2>2. ASSUME NEW i \in 1..n PROVE m + i \in DOMAIN u /\ u[m + i] = t[i]
    <3>1. m + i \in 1..(m + n) /\ ~(m + i <= m) /\ (m + i) - m = i
      BY <1>1
    <3>2. u[m + i] = t[(m + i) - m]
      BY <1>1, <3>1
    <3> QED BY <1>1, <3>1, <3>2
  <2>3. ASSUME NEW i \in DOMAIN u, i \notin 1..m
        PROVE  i - m \in 1..n /\ u[i] = t[i - m]
    <3>1. i \in 1..(m + n) /\ ~(i <= m) /\ i - m \in 1..n
      BY <1>1, <2>3
    <3> QED BY <1>1, <3>1
  <2> QED BY <2>1, <2>2, <2>3
<1>3. Range(u) = Range(s) \cup Range(t)
  <2>1. \A i \in DOMAIN u : u[i] \in Range(s) \cup Range(t)
    BY <1>1, <1>2, Zenon DEF Range
  <2>2. \A i \in DOMAIN s : s[i] \in Range(u)
    BY <1>1, <1>2, Zenon DEF Range
  <2>3. \A i \in DOMAIN t : t[i] \in Range(u)
    BY <1>1, <1>2, Zenon DEF Range
  <2> QED BY <2>1, <2>2, <2>3, Zenon DEF Range
<1>4. ASSUME NEW j \in Jobs, Once(s, j), Once(t, j), ~(j \in Range(s) /\ j \in Range(t))
      PROVE  Once(u, j)
  <2> SUFFICES ASSUME NEW i \in DOMAIN u, NEW k \in DOMAIN u, u[i] = j, u[k] = j
               PROVE  i = k
    BY DEF Once
  <2>1. CASE i \in 1..m /\ k \in 1..m
    BY <1>1, <1>2, <1>4, <2>1 DEF Once
  <2>2. CASE i \notin 1..m /\ k \notin 1..m
    <3>1. t[i - m] = j /\ t[k - m] = j /\ i - m \in 1..n /\ k - m \in 1..n
      BY <1>1, <1>2, <2>2
    <3>2. i - m = k - m
      BY <3>1, <1>1, <1>4 DEF Once
    <3> QED BY <3>2, <1>1
  <2>3. CASE i \in 1..m /\ k \notin 1..m
    <3>1. s[i] = j /\ t[k - m] = j /\ k - m \in 1..n
      BY <1>1, <1>2, <2>3
    <3> QED BY <3>1, <1>1, <1>4, <2>3 DEF Range
  <2>4. CASE i \notin 1..m /\ k \in 1..m
    <3>1. s[k] = j /\ t[i - m] = j /\ i - m \in 1..n
      BY <1>1, <1>2, <2>4
    <3> QED BY <3>1, <1>1, <1>4, <2>4 DEF Range
  <2> QED BY <2>1, <2>2, <2>3, <2>4
<1>5. ASSUME NEW j \in Jobs, Once(u, j)
      PROVE  Once(s, j) /\ Once(t, j) /\ ~(j \in Range(s) /\ j \in Range(t))
  <2>1. Once(s, j)
    BY <1>1, <1>2, <1>5 DEF Once
  <2>2. Once(t, j)
    <3> SUFFICES ASSUME NEW i \in 1..n, NEW k \in 1..n, t[i] = j, t[k] = j PROVE i = k
      BY <1>1 DEF Once
    <3>1. m + i = m + k
      BY <1>2, <1>5 DEF Once
    <3> QED BY <3>1, <1>1
  <2>3. ASSUME NEW i \in 1..m, NEW k \in 1..n, s[i] = j, t[k] = j PROVE FALSE
    <3>1. i = m + k
      BY <1>1, <1>2, <1>5, <2>3 DEF Once
    <3> QED BY <3>1, <1>1
  <2> QED BY <2>1, <2>2, <2>3, <1>1 DEF Range
<1> QED BY <1>3, <1>4, <1>5 DEF u

\* Removing position i removes its id, if it was there once, and no other.
LEMMA RemoveIds ==
  ASSUME NEW s \in Seq(Jobs), NEW i \in 1..Len(s)
  PROVE  /\ Range(s) = Range(RemoveAt(s, i)) \cup {s[i]}
         /\ \A j \in Jobs : Once(s, j) => Once(RemoveAt(s, i), j)
         /\ Once(s, s[i]) => s[i] \notin Range(RemoveAt(s, i))
<1> DEFINE t == RemoveAt(s, i)
           n == Len(s)
<1>1. /\ t \in Seq(Jobs) /\ Len(t) = n - 1 /\ n \in Nat
      /\ \A k \in 1..(n - 1) : t[k] = IF k < i THEN s[k] ELSE s[k + 1]
      /\ DOMAIN s = 1..n /\ DOMAIN t = 1..(n - 1)
  <2>1. t \in Seq(Jobs) /\ Len(t) = n - 1
    BY RemoveAtFacts
  <2>2. \A k \in 1..(n - 1) : t[k] = IF k < i THEN s[k] ELSE s[k + 1]
    BY RemoveAtFacts
  <2>3. n \in Nat /\ DOMAIN s = 1..n
    OBVIOUS
  <2>4. DOMAIN t = 1..Len(t)
    BY <2>1
  <2> HIDE DEF t, n
  <2> QED BY <2>1, <2>2, <2>3, <2>4
<1> HIDE DEF t, n
<1>2. /\ \A k \in 1..(n - 1) : k < i => k \in DOMAIN s /\ t[k] = s[k]
      /\ \A k \in 1..(n - 1) : ~(k < i) => k + 1 \in DOMAIN s /\ t[k] = s[k + 1]
      /\ \A k \in 1..n : k < i => k \in DOMAIN t /\ t[k] = s[k]
      /\ \A k \in 1..n : k > i => k - 1 \in DOMAIN t /\ t[k - 1] = s[k]
  BY <1>1
<1>3. Range(s) = Range(t) \cup {s[i]}
  <2>1. \A k \in DOMAIN s : s[k] \in Range(t) \cup {s[i]}
    <3> TAKE k \in DOMAIN s
    <3>1. k \in 1..n /\ i \in 1..n
      BY <1>1 DEF n
    <3>2. CASE k < i
      BY <1>2, <3>1, <3>2, Zenon DEF Range
    <3>3. CASE k > i
      BY <1>2, <3>1, <3>3, Zenon DEF Range
    <3> QED BY <3>1, <3>2, <3>3
  <2>2. \A k \in DOMAIN t : t[k] \in Range(s)
    BY <1>1, <1>2 DEF Range
  <2>3. s[i] \in Range(s)
    BY <1>1 DEF Range, n
  <2> QED BY <2>1, <2>2, <2>3 DEF Range
<1>4. ASSUME NEW j \in Jobs, Once(s, j) PROVE Once(t, j)
  <2> SUFFICES ASSUME NEW k \in 1..(n - 1), NEW l \in 1..(n - 1), t[k] = j, t[l] = j
               PROVE  k = l
    BY <1>1 DEF Once
  <2> DEFINE at(x) == IF x < i THEN x ELSE x + 1
  <2>1. /\ at(k) \in DOMAIN s /\ s[at(k)] = j
        /\ at(l) \in DOMAIN s /\ s[at(l)] = j
    BY <1>1, <1>2
  <2>2. at(k) = at(l)
    BY <2>1, <1>4 DEF Once
  <2> QED BY <2>2
<1>5. ASSUME Once(s, s[i]), NEW k \in DOMAIN t, t[k] = s[i] PROVE FALSE
  <2>1. k \in 1..(n - 1) /\ i \in DOMAIN s
    BY <1>1 DEF n
  <2>2. CASE k < i
    BY <1>2, <1>5, <2>1, <2>2 DEF Once
  <2>3. CASE ~(k < i)
    <3>1. k + 1 = i
      BY <1>2, <1>5, <2>1, <2>3 DEF Once
    <3> QED BY <3>1, <2>1, <2>3
  <2> QED BY <2>2, <2>3
<1> QED BY <1>3, <1>4, <1>5 DEF t, Range

\* Cutting a list of ids in two parts loses none of them and copies none.
LEMMA SplitIds ==
  ASSUME NEW s \in Seq(Jobs), NEW n \in 0..Len(s)
  PROVE  /\ SubSeq(s, 1, n) \in Seq(Jobs)
         /\ SubSeq(s, n + 1, Len(s)) \in Seq(Jobs)
         /\ Range(s) = Range(SubSeq(s, 1, n)) \cup Range(SubSeq(s, n + 1, Len(s)))
         /\ \A j \in Jobs : Once(s, j) =>
              /\ Once(SubSeq(s, 1, n), j) /\ Once(SubSeq(s, n + 1, Len(s)), j)
              /\ ~(j \in Range(SubSeq(s, 1, n)) /\ j \in Range(SubSeq(s, n + 1, Len(s))))
<1> DEFINE a == SubSeq(s, 1, n)
           b == SubSeq(s, n + 1, Len(s))
<1>1. a \in Seq(Jobs) /\ Len(a) = n /\ \A k \in 1..n : a[k] = s[k]
  OBVIOUS
<1>2. /\ b \in Seq(Jobs) /\ Len(b) = Len(s) - n
      /\ \A k \in 1..(Len(s) - n) : b[k] = s[k + n]
  OBVIOUS
<1> HIDE DEF a, b
<1>3. a \o b = s
  <2>1. /\ a \o b \in Seq(Jobs) /\ Len(a \o b) = Len(a) + Len(b)
        /\ \A i \in 1..(Len(a) + Len(b)) :
             (a \o b)[i] = IF i <= Len(a) THEN a[i] ELSE b[i - Len(a)]
    BY <1>1, <1>2, ConcatProperties
  <2>2. Len(a \o b) = Len(s)
    BY <1>1, <1>2, <2>1
  <2>3. ASSUME NEW i \in 1..Len(s) PROVE (a \o b)[i] = s[i]
    <3>1. CASE i <= n
      BY <3>1, <1>1, <1>2, <2>1
    <3>2. CASE ~(i <= n)
      <4>1. i - n \in 1..(Len(s) - n) /\ (i - n) + n = i
        BY <3>2
      <4>2. (a \o b)[i] = b[i - n]
        BY <3>2, <1>1, <1>2, <2>1
      <4> QED BY <4>1, <4>2, <1>2
    <3> QED BY <3>1, <3>2
  <2> QED BY <2>1, <2>2, <2>3, SeqEqual
<1>4. Range(a \o b) = Range(a) \cup Range(b)
  BY <1>1, <1>2, ConcatIds
<1>5. \A j \in Jobs : Once(a \o b, j) =>
        Once(a, j) /\ Once(b, j) /\ ~(j \in Range(a) /\ j \in Range(b))
  BY <1>1, <1>2, ConcatIds
<1> QED
  BY <1>1, <1>2, <1>3, <1>4, <1>5, Zenon DEF a, b

\* pushDead's cap keeps some of the ids and copies none.
LEMMA TrimIds ==
  ASSUME NEW s \in Seq(Jobs)
  PROVE  /\ Trim(s) \in Seq(Jobs)
         /\ Range(Trim(s)) \subseteq Range(s)
         /\ \A j \in Jobs : Once(s, j) => Once(Trim(s), j)
<1>1. CASE Len(s) > MaxDead
  <2>1. Len(s) - MaxDead \in 0..Len(s)
    BY <1>1, QueueAssumption
  <2>2. Trim(s) = SubSeq(s, (Len(s) - MaxDead) + 1, Len(s))
    BY <1>1 DEF Trim
  <2> QED BY <2>1, <2>2, SplitIds
<1>2. CASE ~(Len(s) > MaxDead)
  BY <1>2 DEF Trim
<1> QED BY <1>1, <1>2

-----------------------------------------------------------------------------
(* Type correctness *)

\* What reclaimExpired() appends: the type and the ids of the reclaimed messages.
LEMMA RequeueFacts ==
  ASSUME TypeOK, NEW retried \in SetToSeqs(Expired \ Exhausted)
  PROVE  /\ retried \in Seq(Jobs)
         /\ Requeue(retried) \in Seq(Message)
         /\ Len(Requeue(retried)) = Len(messages) + Len(retried)
         /\ \A k \in 1..Len(messages) : Requeue(retried)[k] = messages[k]
         /\ \A k \in 1..Len(retried) :
              Requeue(retried)[Len(messages) + k] = Reclaimed(retried[k])
<1> DEFINE r == [k \in DOMAIN retried |-> Reclaimed(retried[k])]
<1>1. retried \in Seq(Jobs)
  BY SetToSeqsFacts DEF Expired
<1>2. \A j \in Jobs : Reclaimed(j) \in Message
  BY DEF TypeOK, Reclaimed, Message, Entry
<1>3. /\ r \in Seq(Message)
      /\ Len(r) = Len(retried)
      /\ \A k \in 1..Len(retried) : r[k] = Reclaimed(retried[k])
  BY <1>1, <1>2
<1>4. Requeue(retried) = messages \o r
  BY DEF Requeue
<1> HIDE DEF r
<1>5. /\ messages \o r \in Seq(Message)
      /\ Len(messages \o r) = Len(messages) + Len(r)
      /\ \A k \in 1..(Len(messages) + Len(r)) :
           (messages \o r)[k] = IF k <= Len(messages) THEN messages[k]
                                ELSE r[k - Len(messages)]
  BY <1>3, ConcatProperties DEF TypeOK
<1>6. Len(messages) \in Nat /\ Len(retried) \in Nat
  BY <1>1 DEF TypeOK
<1>7. \A k \in 1..Len(messages) : (messages \o r)[k] = messages[k]
  BY <1>3, <1>5, <1>6
<1>8. ASSUME NEW k \in 1..Len(retried)
      PROVE  (messages \o r)[Len(messages) + k] = Reclaimed(retried[k])
  <2>1. Len(messages) + k \in 1..(Len(messages) + Len(r))
    BY <1>3, <1>6
  <2>2. (messages \o r)[Len(messages) + k] = r[k]
    BY <1>5, <1>6, <2>1
  <2> QED BY <1>3, <2>2
<1> QED
  BY <1>1, <1>3, <1>4, <1>5, <1>7, <1>8

\* pop() keeps every variable in its type.
LEMMA PopType == TypeOK /\ Pop => TypeOK'
<1> SUFFICES ASSUME TypeOK, Pop PROVE TypeOK'
  OBVIOUS
<1>1. PICK retried \in SetToSeqs(Expired \ Exhausted), buried \in SetToSeqs(Exhausted) :
        LET queue == Requeue(retried)
        IN /\ Bury(dead \o buried)
           /\ \/ /\ leases < MaxLeases
                 /\ \E i \in DOMAIN queue : FirstReady(queue, i) /\ Deliver(queue, i)
              \/ (\A i \in DOMAIN queue : ~queue[i].ready) /\ DeliverNothing(queue)
  BY DEF Pop
<1>2. buried \in Seq(Jobs) /\ dead \o buried \in Seq(Jobs)
  BY SetToSeqsFacts DEF Exhausted, Expired, TypeOK
<1>3. dead' \in Seq(Jobs) /\ discarded' \in SUBSET Jobs
  <2>1. Range(dead \o buried) \subseteq Jobs
    BY <1>2, SMT DEF Range
  <2> QED BY <1>1, <1>2, <2>1, TrimIds DEF Bury, TypeOK
<1>4. Unexpired \in [Jobs -> Entry]
  BY DEF TypeOK, Unexpired, Entry, NoEntry
<1>5. /\ messages' \in Seq(Message)
      /\ inFlight' \in [Jobs -> Entry]
      /\ leases' \in Nat
      /\ deliveries' \in SUBSET Delivery
  <2> DEFINE queue == Requeue(retried)
  <2>1. queue \in Seq(Message)
    BY RequeueFacts
  <2> HIDE DEF queue
  <2>2. CASE DeliverNothing(queue)
    BY <2>1, <2>2, <1>4 DEF DeliverNothing, TypeOK
  <2>3. ASSUME NEW i \in DOMAIN queue, Deliver(queue, i)
        PROVE  /\ messages' \in Seq(Message)
               /\ inFlight' \in [Jobs -> Entry]
               /\ leases' \in Nat
               /\ deliveries' \in SUBSET Delivery
    <3>1. queue[i] \in Message /\ i \in 1..Len(queue)
      BY <2>1
    <3>2. messages' \in Seq(Message)
      BY <2>1, <2>3, <3>1, RemoveAtFacts DEF Deliver
    <3>3. leases + 1 \in Nat /\ leases' \in Nat
      BY <2>3 DEF Deliver, TypeOK
    <3>4. inFlight' \in [Jobs -> Entry] /\ deliveries' \in SUBSET Delivery
      BY <2>3, <3>1, <3>3, <1>4 DEF Deliver, TypeOK, Message, Entry, Delivery
    <3> QED BY <3>2, <3>3, <3>4
  <2> QED BY <1>1, <2>2, <2>3 DEF queue
<1>6. over' \in SUBSET Nat
  BY DEF Pop, TypeOK, Expired, Entry
<1> QED
  BY <1>3, <1>5, <1>6 DEF Pop, TypeOK

\* Every step keeps every variable in its type.
LEMMA TypeInductive == TypeOK /\ [Next]_qvars => TypeOK'
<1> SUFFICES ASSUME TypeOK, [Next]_qvars PROVE TypeOK'
  OBVIOUS
<1>1. ASSUME NEW j \in Jobs, NEW ready \in BOOLEAN, Push(j, ready) PROVE TypeOK'
  <2>1. messages' \in Seq(Message)
    BY <1>1 DEF Push, TypeOK, Message
  <2> QED BY <1>1, <2>1 DEF Push, TypeOK
<1>2. CASE Pop
  BY <1>2, PopType
<1>3. ASSUME NEW d \in deliveries, Ack(d) PROVE TypeOK'
  BY <1>3 DEF Ack, TypeOK, NoEntry, Entry, Delivery
<1>4. ASSUME NEW d \in deliveries, Extend(d) PROVE TypeOK'
  BY <1>4 DEF Extend, TypeOK, Entry, Delivery, history
<1>5. ASSUME NEW d \in deliveries, DeadLetter(d) PROVE TypeOK'
  <2>1. d.id \in Jobs /\ d.lease \in Nat
    BY DEF TypeOK, Delivery
  <2>2. Append(dead, d.id) \in Seq(Jobs) /\ Range(Append(dead, d.id)) \subseteq Jobs
    <3>1. Append(dead, d.id) \in Seq(Jobs)
      BY <2>1 DEF TypeOK
    <3> QED BY <3>1 DEF Range
  <2>3. dead' \in Seq(Jobs) /\ discarded' \in SUBSET Jobs
    BY <1>5, <2>2, TrimIds DEF DeadLetter, Bury, TypeOK
  <2>4. inFlight' \in [Jobs -> Entry] /\ over' \in SUBSET Nat /\ forked' \in SUBSET Jobs
    <3>1. NoEntry \in Entry
      BY DEF NoEntry, Entry
    <3>2. CASE Holds(d)
      BY <1>5, <2>1, <3>1, <3>2 DEF DeadLetter, TypeOK
    <3>3. CASE ~Holds(d)
      BY <1>5, <2>1, <3>3 DEF DeadLetter, TypeOK
    <3> QED BY <3>2, <3>3
  <2> QED BY <1>5, <2>3, <2>4 DEF DeadLetter, TypeOK
<1>6. ASSUME NEW d \in deliveries, NEW ready \in BOOLEAN, Nack(d, ready) PROVE TypeOK'
  <2>1. d.id \in Jobs /\ d.lease \in Nat
    BY DEF TypeOK, Delivery
  <2>2. [id |-> d.id, attempt |-> inFlight[d.id].attempt + 1, ready |-> ready] \in Message
    BY <2>1 DEF TypeOK, Message, Entry
  <2>3. messages' \in Seq(Message)
    BY <1>6, <2>2 DEF Nack, TypeOK
  <2>4. inFlight' \in [Jobs -> Entry] /\ over' \in SUBSET Nat
    BY <1>6, <2>1 DEF Nack, TypeOK, NoEntry, Entry
  <2> QED BY <1>6, <2>3, <2>4 DEF Nack, TypeOK
<1>7. ASSUME NEW j \in Jobs, RedriveDeadLetter(j) PROVE TypeOK'
  <2>1. PICK i \in DOMAIN dead : dead' = RemoveAt(dead, i)
    BY <1>7 DEF RedriveDeadLetter
  <2>2. dead' \in Seq(Jobs)
    BY <2>1, RemoveAtFacts DEF TypeOK
  <2>3. Fresh(j) \in Message
    BY DEF Fresh, Message
  <2> QED BY <1>7, <2>2, <2>3 DEF RedriveDeadLetter, TypeOK, history
<1>8. ASSUME NEW j \in Jobs, Lapse(j) PROVE TypeOK'
  BY <1>8 DEF Lapse, TypeOK, Entry, history
<1>9. ASSUME NEW limit \in DOMAIN dead, RedriveDeadLetters(limit) PROVE TypeOK'
  <2>1. [k \in 1..limit |-> Fresh(dead[k])] \in Seq(Message)
    <3>1. limit \in Nat /\ \A k \in 1..limit : dead[k] \in Jobs
      BY DEF TypeOK
    <3>2. \A j \in Jobs : Fresh(j) \in Message
      BY DEF Fresh, Message
    <3> QED BY <3>1, <3>2
  <2>2. messages' \in Seq(Message)
    BY <1>9, <2>1, ConcatProperties DEF RedriveDeadLetters, TypeOK
  <2>3. dead' \in Seq(Jobs)
    BY <1>9 DEF RedriveDeadLetters, TypeOK
  <2> QED BY <1>9, <2>2, <2>3 DEF RedriveDeadLetters, TypeOK, history
<1>10. CASE PurgeDeadLetters
  <2>1. Range(dead) \subseteq Jobs
    BY DEF TypeOK, Range
  <2> QED BY <1>10, <2>1 DEF PurgeDeadLetters, TypeOK
<1>11. ASSUME NEW i \in DOMAIN messages, Ripen(i) PROVE TypeOK'
  <2>1. [messages[i] EXCEPT !.ready = TRUE] \in Message
    <3>1. messages[i] \in Message
      BY DEF TypeOK
    <3> QED BY <3>1 DEF Message
  <2>2. messages' \in Seq(Message)
    BY <1>11, <2>1 DEF Ripen, TypeOK
  <2> QED BY <1>11, <2>2 DEF Ripen, TypeOK, history
<1>12. CASE UNCHANGED qvars
  BY <1>12 DEF qvars, history, TypeOK
<1> QED
  BY <1>1, <1>2, <1>3, <1>4, <1>5, <1>6, <1>7, <1>8, <1>9, <1>10, <1>11, <1>12 DEF Next

\* Every state the backend reaches is well typed, for any jobs and bounds.
THEOREM TypeCorrect == Spec => []TypeOK
<1>1. Init => TypeOK
  BY DEF Init, TypeOK, NoEntry, Entry, Delivery, Message
<1>2. TypeOK /\ [Next]_qvars => TypeOK'
  BY TypeInductive
<1> QED
  BY <1>1, <1>2, PTL DEF Spec

-----------------------------------------------------------------------------
(* The ids of the pending messages after each edit of `messages` *)

\* The ids of the pending messages are a sequence of jobs.
LEMMA IdsType ==
  ASSUME NEW q \in Seq(Message)
  PROVE  /\ Ids(q) \in Seq(Jobs)
         /\ Len(Ids(q)) = Len(q)
         /\ \A k \in 1..Len(q) : Ids(q)[k] = q[k].id
<1>1. /\ Len(q) \in Nat /\ DOMAIN q = 1..Len(q)
      /\ \A k \in 1..Len(q) : q[k] \in Message
  OBVIOUS
<1>2. \A k \in 1..Len(q) : q[k].id \in Jobs
  BY <1>1 DEF Message
<1>3. Ids(q) = [k \in 1..Len(q) |-> q[k].id]
  BY <1>1 DEF Ids
<1>4. Ids(q) \in [1..Len(q) -> Jobs]
  BY <1>2, <1>3
<1> QED BY <1>1, <1>3, <1>4

\* Ids of the list after a push.
LEMMA IdsAppend ==
  ASSUME NEW q \in Seq(Message), NEW m \in Message
  PROVE  Ids(Append(q, m)) = Append(Ids(q), m.id)
<1>1. /\ Append(q, m) \in Seq(Message)
      /\ Len(Append(q, m)) = Len(q) + 1
      /\ \A k \in 1..Len(q) : Append(q, m)[k] = q[k]
      /\ Append(q, m)[Len(q) + 1] = m
  OBVIOUS
<1> DEFINE t == Append(q, m)
<1>2. /\ Ids(t) \in Seq(Jobs) /\ Len(Ids(t)) = Len(q) + 1
      /\ \A k \in 1..(Len(q) + 1) : Ids(t)[k] = t[k].id
  BY <1>1, IdsType
<1>3. m.id \in Jobs
  BY DEF Message
<1>4. Ids(q) \in Seq(Jobs) /\ Len(Ids(q)) = Len(q) /\ \A k \in 1..Len(q) : Ids(q)[k] = q[k].id
  BY IdsType
<1> DEFINE u == Append(Ids(q), m.id)
<1>5. /\ u \in Seq(Jobs) /\ Len(u) = Len(q) + 1
      /\ \A k \in 1..Len(q) : u[k] = Ids(q)[k]
      /\ u[Len(q) + 1] = m.id
  <2> HIDE DEF t
  <2> QED BY <1>3, <1>4
<1>6. \A k \in 1..(Len(q) + 1) : Ids(t)[k] = u[k]
  <2> TAKE k \in 1..(Len(q) + 1)
  <2> HIDE DEF t, u
  <2>1. CASE k = Len(q) + 1
    BY <2>1, <1>1, <1>2, <1>5 DEF t
  <2>2. CASE k # Len(q) + 1
    <3>1. k \in 1..Len(q)
      BY <2>2
    <3> QED BY <3>1, <1>1, <1>2, <1>4, <1>5 DEF t
  <2> QED BY <2>1, <2>2
<1> HIDE DEF t, u
<1>7. Ids(t) = u
  BY <1>2, <1>5, <1>6, SeqEqual
<1> QED BY <1>7 DEF t, u

\* Ids of the list after several pushes.
LEMMA IdsConcat ==
  ASSUME NEW q \in Seq(Message), NEW r \in Seq(Message)
  PROVE  Ids(q \o r) = Ids(q) \o Ids(r)
<1>1. /\ q \o r \in Seq(Message) /\ Len(q \o r) = Len(q) + Len(r)
      /\ \A k \in 1..(Len(q) + Len(r)) :
           (q \o r)[k] = IF k <= Len(q) THEN q[k] ELSE r[k - Len(q)]
  BY ConcatProperties
<1>2. /\ Ids(q) \in Seq(Jobs) /\ Len(Ids(q)) = Len(q)
      /\ \A k \in 1..Len(q) : Ids(q)[k] = q[k].id
      /\ Ids(r) \in Seq(Jobs) /\ Len(Ids(r)) = Len(r)
      /\ \A k \in 1..Len(r) : Ids(r)[k] = r[k].id
  BY IdsType
<1>3. /\ Ids(q \o r) \in Seq(Jobs) /\ Len(Ids(q \o r)) = Len(q) + Len(r)
      /\ \A k \in 1..(Len(q) + Len(r)) : Ids(q \o r)[k] = (q \o r)[k].id
  BY <1>1, IdsType
<1>4. /\ Ids(q) \o Ids(r) \in Seq(Jobs)
      /\ Len(Ids(q) \o Ids(r)) = Len(q) + Len(r)
      /\ \A k \in 1..(Len(q) + Len(r)) : (Ids(q) \o Ids(r))[k] =
           IF k <= Len(q) THEN Ids(q)[k] ELSE Ids(r)[k - Len(q)]
  <2> DEFINE x == Ids(q)
             y == Ids(r)
  <2>1. x \in Seq(Jobs) /\ Len(x) = Len(q) /\ y \in Seq(Jobs) /\ Len(y) = Len(r)
    BY <1>2
  <2> HIDE DEF x, y
  <2>2. /\ x \o y \in Seq(Jobs) /\ Len(x \o y) = Len(x) + Len(y)
        /\ \A k \in 1..(Len(x) + Len(y)) :
             (x \o y)[k] = IF k <= Len(x) THEN x[k] ELSE y[k - Len(x)]
    BY <2>1, ConcatProperties
  <2> QED BY <2>1, <2>2 DEF x, y
<1>5. Len(q) \in Nat /\ Len(r) \in Nat
  OBVIOUS
<1> DEFINE a == Ids(q \o r)
           b == Ids(q) \o Ids(r)
<1>6. ASSUME NEW k \in 1..(Len(q) + Len(r)) PROVE a[k] = b[k]
  <2>1. CASE k <= Len(q)
    <3>1. k \in 1..Len(q)
      BY <2>1, <1>5
    <3>2. a[k] = q[k].id
      BY <2>1, <1>1, <1>3
    <3>3. b[k] = Ids(q)[k]
      BY <2>1, <1>4
    <3> QED BY <3>1, <3>2, <3>3, <1>2
  <2>2. CASE ~(k <= Len(q))
    <3>1. k - Len(q) \in 1..Len(r)
      BY <2>2, <1>5
    <3>2. a[k] = r[k - Len(q)].id
      BY <2>2, <1>1, <1>3
    <3>3. b[k] = Ids(r)[k - Len(q)]
      BY <2>2, <1>4
    <3> QED BY <3>1, <3>2, <3>3, <1>2
  <2> QED BY <2>1, <2>2
<1>7. /\ a \in Seq(Jobs) /\ b \in Seq(Jobs) /\ Len(a) = Len(b)
      /\ \A k \in 1..Len(a) : a[k] = b[k]
  BY <1>3, <1>4, <1>6
<1> HIDE DEF a, b
<1>8. a = b
  BY <1>7, SeqEqual
<1> QED BY <1>8 DEF a, b

\* Ids of the list after a delivery.
LEMMA IdsRemove ==
  ASSUME NEW q \in Seq(Message), NEW i \in 1..Len(q)
  PROVE  /\ Ids(RemoveAt(q, i)) = RemoveAt(Ids(q), i)
         /\ Ids(q)[i] = q[i].id
         /\ i \in 1..Len(Ids(q))
<1>1. /\ Ids(q) \in Seq(Jobs) /\ Len(Ids(q)) = Len(q)
      /\ \A k \in 1..Len(q) : Ids(q)[k] = q[k].id
  BY IdsType
<1>2. /\ RemoveAt(q, i) \in Seq(Message) /\ Len(RemoveAt(q, i)) = Len(q) - 1
      /\ \A k \in 1..(Len(q) - 1) : RemoveAt(q, i)[k] = IF k < i THEN q[k] ELSE q[k + 1]
  BY RemoveAtFacts
<1>3. i \in 1..Len(Ids(q))
  BY <1>1
<1>4. /\ RemoveAt(Ids(q), i) \in Seq(Jobs) /\ Len(RemoveAt(Ids(q), i)) = Len(q) - 1
      /\ \A k \in 1..(Len(q) - 1) :
           RemoveAt(Ids(q), i)[k] = IF k < i THEN Ids(q)[k] ELSE Ids(q)[k + 1]
  BY <1>1, <1>3, RemoveAtFacts
<1> DEFINE a == Ids(RemoveAt(q, i))
           b == RemoveAt(Ids(q), i)
<1>5. /\ a \in Seq(Jobs) /\ Len(a) = Len(q) - 1
      /\ \A k \in 1..(Len(q) - 1) : a[k] = RemoveAt(q, i)[k].id
  BY <1>2, IdsType
<1>6. ASSUME NEW k \in 1..(Len(q) - 1) PROVE a[k] = b[k]
  <2>1. k \in 1..Len(q) /\ k + 1 \in 1..Len(q)
    OBVIOUS
  <2>2. CASE k < i
    BY <2>1, <2>2, <1>1, <1>2, <1>4, <1>5
  <2>3. CASE ~(k < i)
    BY <2>1, <2>3, <1>1, <1>2, <1>4, <1>5
  <2> QED BY <2>2, <2>3
<1>7. /\ a \in Seq(Jobs) /\ b \in Seq(Jobs) /\ Len(a) = Len(b)
      /\ \A k \in 1..Len(a) : a[k] = b[k]
  BY <1>4, <1>5, <1>6
<1> HIDE DEF a, b
<1>8. a = b
  BY <1>7, SeqEqual
<1> QED BY <1>8, <1>1, <1>3 DEF a, b

\* Ids of the list after the reclaimed messages are appended.
LEMMA IdsRequeue ==
  ASSUME TypeOK, NEW retried \in SetToSeqs(Expired \ Exhausted)
  PROVE  Ids(Requeue(retried)) = Ids(messages) \o retried
<1> DEFINE r == [k \in DOMAIN retried |-> Reclaimed(retried[k])]
<1>1. retried \in Seq(Jobs)
  BY SetToSeqsFacts DEF Expired
<1>2. \A j \in Jobs : Reclaimed(j) \in Message /\ Reclaimed(j).id = j
  BY DEF TypeOK, Reclaimed, Message, Entry
<1>3. /\ r \in Seq(Message) /\ Len(r) = Len(retried)
      /\ \A k \in 1..Len(retried) : r[k].id = retried[k]
  BY <1>1, <1>2
<1> HIDE DEF r
<1>4. /\ Ids(r) \in Seq(Jobs) /\ Len(Ids(r)) = Len(r)
      /\ \A k \in 1..Len(r) : Ids(r)[k] = r[k].id
  BY <1>3, IdsType
<1>5. Ids(r) = retried
  BY <1>1, <1>3, <1>4, SeqEqual
<1>6. Ids(messages \o r) = Ids(messages) \o Ids(r)
  BY <1>3, IdsConcat DEF TypeOK
<1> QED BY <1>5, <1>6 DEF Requeue, r

-----------------------------------------------------------------------------
(* What waits is within its retry budget after each edit of `messages` *)

\* A push within the budget keeps the list within the budget.
LEMMA WithinAppend ==
  ASSUME NEW q \in Seq(Message), NEW m \in Message, WithinBudget(q),
         m.attempt <= MaxRetries[m.id]
  PROVE  WithinBudget(Append(q, m))
<1>1. /\ DOMAIN Append(q, m) = 1..(Len(q) + 1)
      /\ \A k \in 1..Len(q) : Append(q, m)[k] = q[k]
      /\ Append(q, m)[Len(q) + 1] = m
  OBVIOUS
<1>2. \A k \in 1..Len(q) : q[k].attempt <= MaxRetries[q[k].id]
  BY DEF WithinBudget
<1> DEFINE t == Append(q, m)
<1> HIDE DEF t
<1>3. ASSUME NEW k \in 1..(Len(q) + 1) PROVE t[k].attempt <= MaxRetries[t[k].id]
  <2>1. CASE k = Len(q) + 1
    BY <1>1, <2>1 DEF t
  <2>2. CASE k # Len(q) + 1
    <3>1. k \in 1..Len(q)
      BY <2>2
    <3> QED BY <1>1, <1>2, <3>1 DEF t
  <2> QED BY <2>1, <2>2
<1> QED BY <1>1, <1>3 DEF WithinBudget, t

\* So do several pushes.
LEMMA WithinConcat ==
  ASSUME NEW q \in Seq(Message), NEW r \in Seq(Message),
         WithinBudget(q), WithinBudget(r)
  PROVE  WithinBudget(q \o r)
<1>1. /\ q \o r \in Seq(Message) /\ Len(q \o r) = Len(q) + Len(r)
      /\ \A k \in 1..(Len(q) + Len(r)) :
           (q \o r)[k] = IF k <= Len(q) THEN q[k] ELSE r[k - Len(q)]
  BY ConcatProperties
<1>2. /\ \A k \in 1..Len(q) : q[k].attempt <= MaxRetries[q[k].id]
      /\ \A k \in 1..Len(r) : r[k].attempt <= MaxRetries[r[k].id]
  BY DEF WithinBudget
<1> DEFINE t == q \o r
<1> HIDE DEF t
<1>3. ASSUME NEW k \in 1..(Len(q) + Len(r)) PROVE t[k].attempt <= MaxRetries[t[k].id]
  <2>1. CASE k <= Len(q)
    <3>1. k \in 1..Len(q)
      BY <2>1
    <3> QED BY <1>1, <1>2, <2>1, <3>1 DEF t
  <2>2. CASE ~(k <= Len(q))
    <3>1. k - Len(q) \in 1..Len(r)
      BY <2>2
    <3> QED BY <1>1, <1>2, <2>2, <3>1 DEF t
  <2> QED BY <2>1, <2>2
<1>4. DOMAIN t = 1..(Len(q) + Len(r))
  BY <1>1 DEF t
<1> QED BY <1>3, <1>4 DEF WithinBudget, t

\* So does a delivery.
LEMMA WithinRemove ==
  ASSUME NEW q \in Seq(Message), NEW i \in 1..Len(q), WithinBudget(q)
  PROVE  WithinBudget(RemoveAt(q, i))
<1>1. /\ RemoveAt(q, i) \in Seq(Message) /\ Len(RemoveAt(q, i)) = Len(q) - 1
      /\ \A k \in 1..(Len(q) - 1) : RemoveAt(q, i)[k] = IF k < i THEN q[k] ELSE q[k + 1]
  BY RemoveAtFacts
<1>2. \A k \in 1..Len(q) : q[k].attempt <= MaxRetries[q[k].id]
  BY DEF WithinBudget
<1> DEFINE t == RemoveAt(q, i)
<1> HIDE DEF t
<1>3. ASSUME NEW k \in 1..(Len(q) - 1) PROVE t[k].attempt <= MaxRetries[t[k].id]
  <2>1. k \in 1..Len(q) /\ k + 1 \in 1..Len(q)
    OBVIOUS
  <2> QED BY <1>1, <1>2, <2>1 DEF t
<1>4. DOMAIN t = 1..(Len(q) - 1)
  BY <1>1 DEF t
<1> QED BY <1>3, <1>4 DEF WithinBudget, t

\* So does reclaiming: what would exceed the budget is dead-lettered instead.
LEMMA WithinRequeue ==
  ASSUME TypeOK, WithinBudget(messages), NEW retried \in SetToSeqs(Expired \ Exhausted)
  PROVE  WithinBudget(Requeue(retried))
<1> DEFINE r == [k \in DOMAIN retried |-> Reclaimed(retried[k])]
<1>1. retried \in Seq(Expired \ Exhausted) /\ retried \in Seq(Jobs)
  BY SetToSeqsFacts DEF Expired
<1>2. \A j \in Jobs : Reclaimed(j) \in Message
  BY DEF TypeOK, Reclaimed, Message, Entry
<1>3. \A j \in Expired \ Exhausted : Reclaimed(j).attempt <= MaxRetries[Reclaimed(j).id]
  BY QueueAssumption DEF Expired, Exhausted, Reclaimed, TypeOK, Entry
<1>4. /\ r \in Seq(Message) /\ DOMAIN r = DOMAIN retried
      /\ \A k \in DOMAIN retried : r[k] = Reclaimed(retried[k])
  BY <1>1, <1>2
<1>5. \A k \in DOMAIN retried : retried[k] \in Expired \ Exhausted
  BY <1>1
<1> HIDE DEF r
<1>6. WithinBudget(r)
  BY <1>3, <1>4, <1>5, Zenon DEF WithinBudget
<1> QED BY <1>4, <1>6, WithinConcat DEF Requeue, r, TypeOK

-----------------------------------------------------------------------------
(* The inductive step of QueueInv, pop() first *)

\* pop() preserves the inductive invariant: every lapsed lease is requeued or
\* buried, and the message delivered moves from the list to the leased entries.
LEMMA PopInv == QueueInv /\ Pop => QueueInv'
<1> SUFFICES ASSUME QueueInv, Pop PROVE QueueInv'
  OBVIOUS
<1> USE DEF QueueInv
<1>0. TypeOK'
  BY PopType
<1>1. PICK retried \in SetToSeqs(Expired \ Exhausted), buried \in SetToSeqs(Exhausted) :
        LET queue == Requeue(retried)
        IN /\ Bury(dead \o buried)
           /\ \/ /\ leases < MaxLeases
                 /\ \E i \in DOMAIN queue : FirstReady(queue, i) /\ Deliver(queue, i)
              \/ (\A i \in DOMAIN queue : ~queue[i].ready) /\ DeliverNothing(queue)
  BY DEF Pop
<1>2. /\ over' = over \cup {inFlight[j].lease : j \in Expired}
      /\ completed' = completed /\ submitted' = submitted /\ forked' = forked
  BY DEF Pop
<1> DEFINE queue == Requeue(retried)
           ids == Ids(queue)
<1>3. /\ retried \in Seq(Jobs) /\ Range(retried) = Expired \ Exhausted
      /\ \A j \in Jobs : Once(retried, j)
      /\ buried \in Seq(Jobs) /\ Range(buried) = Exhausted
      /\ \A j \in Jobs : Once(buried, j)
  BY SetToSeqsFacts DEF Expired, Exhausted, Once
<1>4. /\ Ids(messages) \in Seq(Jobs) /\ dead \in Seq(Jobs)
      /\ Range(Ids(messages)) \subseteq Jobs /\ Range(dead) \subseteq Jobs
  <2>1. Ids(messages) \in Seq(Jobs) /\ dead \in Seq(Jobs)
    BY IdsType DEF TypeOK
  <2> QED BY <2>1 DEF Range
<1>5. /\ queue \in Seq(Message) /\ WithinBudget(queue) /\ ids \in Seq(Jobs)
      /\ Range(ids) = Range(Ids(messages)) \cup (Expired \ Exhausted)
      /\ \A j \in Jobs \ forked : Once(ids, j)
  <2>1. queue \in Seq(Message) /\ WithinBudget(queue)
    BY RequeueFacts, WithinRequeue DEF WaitingBudget
  <2>2. ids = Ids(messages) \o retried /\ ids \in Seq(Jobs)
    BY <2>1, IdsRequeue, IdsType
  <2>3. Range(ids) = Range(Ids(messages)) \cup Range(retried)
    BY <1>3, <1>4, <2>2, ConcatIds
  <2>4. ASSUME NEW j \in Jobs \ forked PROVE Once(ids, j)
    <3>1. Once(Ids(messages), j) /\ ~(j \in Range(Ids(messages)) /\ j \in Range(retried))
      BY <1>3 DEF SingleCopy, Waiting, Expired
    <3> QED BY <1>3, <1>4, <2>2, <3>1, ConcatIds
  <2> QED BY <1>3, <2>1, <2>2, <2>3, <2>4
<1>6. /\ Range(dead') \subseteq Range(dead) \cup Exhausted
      /\ Range(dead) \cup Exhausted \subseteq Range(dead') \cup discarded'
      /\ discarded' = discarded \cup ((Range(dead) \cup Exhausted) \ Range(dead'))
      /\ \A j \in Jobs \ forked : Once(dead', j)
  <2> DEFINE cemetery == dead \o buried
  <2>1. cemetery \in Seq(Jobs) /\ Range(cemetery) = Range(dead) \cup Exhausted
    BY <1>3, <1>4, ConcatIds
  <2>2. ASSUME NEW j \in Jobs \ forked PROVE Once(cemetery, j)
    <3>1. Once(dead, j) /\ ~(j \in Range(dead) /\ j \in Range(buried))
      BY <1>3 DEF SingleCopy, Dead, Expired, Exhausted
    <3> QED BY <1>3, <1>4, <3>1, ConcatIds
  <2> HIDE DEF cemetery
  <2>3. dead' = Trim(cemetery) /\ discarded' = discarded \cup (Range(cemetery) \ Range(Trim(cemetery)))
    BY <1>1 DEF Bury, cemetery
  <2> QED BY <2>1, <2>2, <2>3, TrimIds
<1>7. \A j \in Jobs : Unexpired[j] = IF j \in Expired THEN NoEntry ELSE inFlight[j]
  BY DEF Unexpired
<1>8. /\ WaitingBudget'
      /\ \/ /\ Ids(messages') = ids /\ DeliverNothing(queue)
         \/ \E i \in 1..Len(queue) :
              /\ Deliver(queue, i)
              /\ Range(ids) = Range(Ids(messages')) \cup {queue[i].id}
              /\ \A j \in Jobs : Once(ids, j) => Once(Ids(messages'), j)
              /\ Once(ids, queue[i].id) => queue[i].id \notin Range(Ids(messages'))
  <2> HIDE DEF queue
  <2>1. CASE DeliverNothing(queue)
    BY <1>5, <2>1 DEF DeliverNothing, WaitingBudget
  <2>2. ASSUME NEW i \in DOMAIN queue, Deliver(queue, i)
        PROVE  /\ WaitingBudget'
               /\ i \in 1..Len(queue)
               /\ Range(ids) = Range(Ids(messages')) \cup {queue[i].id}
               /\ \A j \in Jobs : Once(ids, j) => Once(Ids(messages'), j)
               /\ Once(ids, queue[i].id) => queue[i].id \notin Range(Ids(messages'))
    <3>1. i \in 1..Len(queue) /\ messages' = RemoveAt(queue, i)
      BY <1>5, <2>2 DEF Deliver
    <3>2. /\ Ids(messages') = RemoveAt(ids, i)
          /\ ids[i] = queue[i].id
          /\ i \in 1..Len(ids)
      BY <1>5, <3>1, IdsRemove
    <3>3. WithinBudget(messages')
      BY <1>5, <3>1, WithinRemove
    <3> HIDE DEF ids
    <3> QED BY <1>5, <3>1, <3>2, <3>3, RemoveIds DEF WaitingBudget
  <2>3. \/ DeliverNothing(queue)
        \/ \E i \in DOMAIN queue : Deliver(queue, i)
    BY <1>1 DEF queue
  <2> QED BY <2>1, <2>2, <2>3
<1> HIDE DEF ids, queue
<1>9. CASE Ids(messages') = ids /\ DeliverNothing(queue)
  <2>1. inFlight' = Unexpired /\ leases' = leases /\ deliveries' = deliveries
    BY <1>9 DEF DeliverNothing
  <2>2. \A j \in Jobs : Leased(j)' <=> Leased(j) /\ j \notin Expired
    BY <1>7, <2>1 DEF Leased, NoEntry
  <2>3. Conserved'
    BY <1>2, <1>5, <1>6, <1>9, <2>2 DEF Conserved, Waiting, Dead, TypeOK
  <2>4. SingleCopy'
    BY <1>2, <1>5, <1>6, <1>9, <2>2 DEF SingleCopy, Waiting, Dead, Expired, Exhausted
  <2>5. LeaseExclusive'
    BY <1>2, <1>7, <2>1 DEF LeaseExclusive, Holds, TypeOK, Delivery
  <2>6. RetryBudget'
    BY <2>1 DEF RetryBudget
  <2>7. LeasesFresh'
    BY <1>7, <2>1, <2>2 DEF LeasesFresh, Leased
  <2>8. OnlySubmitted'
    BY <1>2, <1>4, <1>5, <1>6, <1>9, <2>1, <2>2 DEF OnlySubmitted, Waiting, Dead, Expired, Exhausted
  <2>9. WaitingBudget'
    BY <1>8
  <2> QED BY <1>0, <2>9, <2>3, <2>4, <2>5, <2>6, <2>7, <2>8
<1>10. ASSUME NEW i \in 1..Len(queue),
              Deliver(queue, i),
              Range(ids) = Range(Ids(messages')) \cup {queue[i].id},
              \A j \in Jobs : Once(ids, j) => Once(Ids(messages'), j),
              Once(ids, queue[i].id) => queue[i].id \notin Range(Ids(messages'))
       PROVE  QueueInv'
  <2> DEFINE m == queue[i]
             new == [id |-> m.id, attempt |-> m.attempt, lease |-> leases + 1]
  <2>1. m \in Message /\ m.id \in Jobs /\ m.attempt <= MaxRetries[m.id]
    <3>1. m \in Message
      BY <1>5
    <3> QED BY <1>5, <3>1 DEF Message, WithinBudget
  <2>2. /\ inFlight' = [Unexpired EXCEPT ![m.id] =
                          [attempt |-> m.attempt, lease |-> leases + 1, lapsed |-> FALSE]]
        /\ leases' = leases + 1
        /\ deliveries' = deliveries \cup {new}
    BY <1>10 DEF Deliver
  <2> HIDE DEF m
  <2>3. /\ \A j \in Jobs \ {m.id} : inFlight'[j] = IF j \in Expired THEN NoEntry ELSE inFlight[j]
        /\ inFlight'[m.id] = [attempt |-> m.attempt, lease |-> leases + 1, lapsed |-> FALSE]
    BY <1>7, <2>1, <2>2 DEF Unexpired
  <2>4. leases \in Nat
    BY DEF TypeOK
  <2>5. /\ \A j \in Jobs \ {m.id} : Leased(j)' <=> Leased(j) /\ j \notin Expired
        /\ inFlight'[m.id].lease # 0
    <3>1. inFlight'[m.id].lease = leases + 1 /\ leases + 1 # 0
      BY <2>3, <2>4
    <3>2. ASSUME NEW j \in Jobs \ {m.id}
          PROVE  Leased(j)' <=> Leased(j) /\ j \notin Expired
      BY <2>3 DEF Leased, NoEntry
    <3> QED BY <3>1, <3>2
  <2>6. m.id \in Range(ids) /\ (m.id \in Range(Ids(messages)) \/ m.id \in Expired \ Exhausted)
    BY <1>5, <1>10 DEF m
  <2>7. m.id \notin forked => m.id \notin Range(Ids(messages'))
    BY <1>5, <1>10, <2>1 DEF m
  <2>8. Range(ids) = Range(Ids(messages')) \cup {m.id}
    BY <1>10 DEF m
  <2>9. Conserved'
    <3> SUFFICES ASSUME NEW j \in submitted
                 PROVE  \/ Waiting(j)' \/ Leased(j)' \/ Dead(j)'
                        \/ j \in completed' \/ j \in discarded'
      BY <1>2 DEF Conserved
    <3>1. j \in Jobs
      BY DEF TypeOK
    <3>2. CASE j = m.id
      BY <2>5, <3>2 DEF Leased
    <3>3. CASE j # m.id /\ Leased(j) /\ j \notin Expired
      BY <2>5, <3>1, <3>3
    <3>4. CASE j # m.id /\ ~(Leased(j) /\ j \notin Expired)
      BY <1>2, <1>5, <1>6, <2>8, <3>4 DEF Conserved, Waiting, Dead
    <3> QED BY <3>2, <3>3, <3>4
  <2>10. SingleCopy'
    <3> SUFFICES ASSUME NEW j \in Jobs \ forked
                 PROVE  /\ Once(Ids(messages'), j) /\ Once(dead', j)
                        /\ Waiting(j)' => /\ ~Leased(j)' /\ ~Dead(j)'
                                          /\ j \notin completed' \cup discarded'
                        /\ Leased(j)' => ~Dead(j)' /\ j \notin completed' \cup discarded'
                        /\ Dead(j)' => j \notin completed' \cup discarded'
                        /\ j \in completed' => j \notin discarded'
      BY <1>2 DEF SingleCopy
    <3>1. Once(Ids(messages'), j) /\ Once(dead', j)
      BY <1>5, <1>6, <1>10
    <3>2. CASE j = m.id
      BY <1>2, <1>6, <2>5, <2>6, <2>7, <3>1, <3>2
         DEF SingleCopy, Waiting, Dead, Expired, Exhausted
    <3>3. CASE j # m.id
      BY <1>2, <1>5, <1>6, <2>5, <2>8, <3>1, <3>3
         DEF SingleCopy, Waiting, Dead, Expired, Exhausted
    <3> QED BY <3>2, <3>3
  <2>11. LeaseExclusive'
    <3> SUFFICES ASSUME NEW d \in deliveries', d.id \notin forked
                 PROVE  inFlight'[d.id].lease = d.lease \/ d.lease \in over'
      BY <1>2 DEF LeaseExclusive, Holds
    <3>1. CASE d = new
      BY <2>3, <3>1
    <3>2. CASE d \in deliveries /\ d.id = m.id
      <4>1. inFlight[d.id].lease = d.lease \/ d.lease \in over
        BY <3>2 DEF LeaseExclusive, Holds
      <4>2. d.lease # 0
        BY <2>4, <3>2 DEF LeasesFresh
      <4>3. CASE m.id \in Range(Ids(messages))
        BY <1>2, <3>2, <4>1, <4>2, <4>3, <2>1 DEF SingleCopy, Waiting, Leased
      <4>4. CASE m.id \in Expired \ Exhausted
        BY <1>2, <3>2, <4>1, <4>4
      <4> QED BY <2>6, <4>3, <4>4
    <3>3. CASE d \in deliveries /\ d.id # m.id
      <4>1. d.id \in Jobs \ {m.id} /\ (inFlight[d.id].lease = d.lease \/ d.lease \in over)
        BY <3>3 DEF LeaseExclusive, Holds, TypeOK, Delivery
      <4> QED BY <1>2, <2>3, <4>1
    <3> QED BY <2>2, <3>1, <3>2, <3>3
  <2>12. RetryBudget'
    BY <2>1, <2>2 DEF RetryBudget
  <2>13. LeasesFresh'
    <3>1. \A d \in deliveries' : d.lease \in 1..leases'
      BY <2>2, <2>4 DEF LeasesFresh
    <3>2. \A d, e \in deliveries' : d.lease = e.lease => d = e
      BY <2>2, <2>4 DEF LeasesFresh
    <3>3. ASSUME NEW j \in Jobs, Leased(j)'
          PROVE  [id |-> j, attempt |-> inFlight'[j].attempt, lease |-> inFlight'[j].lease] \in deliveries'
      <4>1. CASE j = m.id
        BY <2>2, <2>3, <4>1
      <4>2. CASE j # m.id
        BY <2>2, <2>3, <2>5, <3>3, <4>2 DEF LeasesFresh
      <4> QED BY <4>1, <4>2
    <3> QED BY <3>1, <3>2, <3>3 DEF LeasesFresh
  <2>14. OnlySubmitted'
    <3>1. m.id \in submitted
      BY <2>1, <2>6 DEF OnlySubmitted, Waiting, Expired
    <3>2. \A d \in deliveries' : d.id \in submitted'
      BY <1>2, <2>2, <3>1 DEF OnlySubmitted
    <3>3. ASSUME NEW j \in Jobs,
                 \/ Waiting(j)' \/ Leased(j)' \/ Dead(j)'
                 \/ j \in completed' \cup discarded' \cup forked'
          PROVE  j \in submitted'
      <4>1. CASE j = m.id
        BY <1>2, <3>1, <4>1
      <4>2. CASE j # m.id
        BY <1>2, <1>4, <1>5, <1>6, <2>5, <2>8, <3>3, <4>2
           DEF OnlySubmitted, Waiting, Dead, Expired, Exhausted
      <4> QED BY <4>1, <4>2
    <3> QED BY <3>2, <3>3 DEF OnlySubmitted
  <2>15. WaitingBudget'
    BY <1>8
  <2> QED BY <1>0, <2>15, <2>9, <2>10, <2>11, <2>12, <2>13, <2>14
<1> QED BY <1>8, <1>9, <1>10

\* push() preserves it: a fresh id is nowhere else.
LEMMA PushInv ==
  ASSUME QueueInv, NEW j \in Jobs, NEW ready \in BOOLEAN, Push(j, ready)
  PROVE  QueueInv'
<1> USE DEF QueueInv
<1>0. TypeOK'
  BY TypeInductive DEF Next
<1> DEFINE m == [id |-> j, attempt |-> 0, ready |-> ready]
<1>1. m \in Message /\ messages \in Seq(Message) /\ dead \in Seq(Jobs)
  BY DEF Message, TypeOK
<1>2. /\ messages' = Append(messages, m)
      /\ j \notin submitted /\ submitted' = submitted \cup {j}
      /\ UNCHANGED <<inFlight, dead, completed, leases, deliveries, over, discarded, forked>>
  BY DEF Push
<1>3. Ids(messages) \in Seq(Jobs) /\ Ids(messages') = Append(Ids(messages), j)
  BY <1>1, <1>2, IdsAppend, IdsType
<1>4. /\ Range(Ids(messages')) = Range(Ids(messages)) \cup {j}
      /\ \A k \in Jobs : Once(Ids(messages), k) /\ (k = j => k \notin Range(Ids(messages)))
           => Once(Ids(messages'), k)
  BY <1>3, AppendIds
<1>5. ~Waiting(j) /\ ~Leased(j) /\ ~Dead(j) /\ j \notin completed \cup discarded \cup forked
  BY <1>2 DEF OnlySubmitted
<1>6. \A k \in Jobs : Leased(k)' = Leased(k) /\ Dead(k)' = Dead(k)
  BY <1>2 DEF Leased, Dead
<1>7. Conserved'
  BY <1>2, <1>4, <1>6 DEF Conserved, Waiting, TypeOK
<1>8. SingleCopy'
  BY <1>2, <1>4, <1>5, <1>6 DEF SingleCopy, Waiting
<1>9. WaitingBudget'
  <2>1. m.attempt <= MaxRetries[m.id]
    BY QueueAssumption
  <2> QED BY <1>1, <1>2, <2>1, WithinAppend DEF WaitingBudget
<1>10. OnlySubmitted'
  BY <1>2, <1>4, <1>6 DEF OnlySubmitted, Waiting
<1>11. LeaseExclusive' /\ RetryBudget' /\ LeasesFresh'
  BY <1>2 DEF LeaseExclusive, RetryBudget, LeasesFresh, Leased, Holds
<1> QED BY <1>0, <1>7, <1>8, <1>9, <1>10, <1>11

\* What every call of a delivery may rely on: it was made for a submitted job.
LEMMA DeliveryFacts ==
  ASSUME QueueInv, NEW d \in deliveries
  PROVE  /\ d.id \in Jobs /\ d.lease \in Nat /\ d.lease # 0
         /\ Holds(d) => /\ Leased(d.id) /\ d.id \in submitted
                        /\ inFlight[d.id].attempt = d.attempt
<1> USE DEF QueueInv
<1>1. d.id \in Jobs /\ d.lease \in Nat /\ d.lease # 0
  BY DEF TypeOK, Delivery, LeasesFresh
<1>2. ASSUME Holds(d) PROVE Leased(d.id) /\ d.id \in submitted
  BY <1>1, <1>2 DEF Holds, Leased, OnlySubmitted
<1>3. ASSUME Holds(d) PROVE inFlight[d.id].attempt = d.attempt
  <2> DEFINE e == [id |-> d.id, attempt |-> inFlight[d.id].attempt,
                   lease |-> inFlight[d.id].lease]
  <2>1. e \in deliveries
    BY <1>1, <1>2, <1>3 DEF LeasesFresh
  <2>2. e = d
    BY <1>3, <2>1 DEF Holds, LeasesFresh
  <2> QED BY <2>2
<1> QED BY <1>1, <1>2, <1>3

\* A call that ends the lease of d and leaves every other entry alone keeps the
\* facts about leases.
LEMMA ReleaseKeepsLeases ==
  ASSUME QueueInv, NEW d \in deliveries, Holds(d),
         inFlight' = [inFlight EXCEPT ![d.id] = NoEntry],
         over' = over \cup {d.lease},
         leases' = leases, deliveries' = deliveries, forked' = forked
  PROVE  /\ \A j \in Jobs : Leased(j)' <=> Leased(j) /\ j # d.id
         /\ LeaseExclusive' /\ RetryBudget' /\ LeasesFresh'
<1> USE DEF QueueInv
<1>1. /\ d.id \in Jobs
      /\ \A j \in Jobs : inFlight'[j] = IF j = d.id THEN NoEntry ELSE inFlight[j]
  BY DeliveryFacts DEF TypeOK
<1>2. \A j \in Jobs : Leased(j)' <=> Leased(j) /\ j # d.id
  BY <1>1 DEF Leased, NoEntry
<1>3. LeaseExclusive'
  <2> SUFFICES ASSUME NEW e \in deliveries, e.id \notin forked
               PROVE  inFlight'[e.id].lease = e.lease \/ e.lease \in over'
    BY DEF LeaseExclusive, Holds
  <2>1. e.id \in Jobs /\ (inFlight[e.id].lease = e.lease \/ e.lease \in over)
    BY DeliveryFacts DEF LeaseExclusive, Holds
  <2> QED BY <1>1, <2>1 DEF Holds
<1>4. RetryBudget'
  BY DEF RetryBudget
<1>5. LeasesFresh'
  BY <1>1, <1>2 DEF LeasesFresh, Leased
<1> QED BY <1>2, <1>3, <1>4, <1>5

\* ack() preserves it.
LEMMA AckInv ==
  ASSUME QueueInv, NEW d \in deliveries, Ack(d)
  PROVE  QueueInv'
<1> USE DEF QueueInv
<1>0. TypeOK'
  BY TypeInductive DEF Next
<1>1. /\ Holds(d) /\ completed' = completed \cup {d.id}
      /\ UNCHANGED <<messages, dead, deliveries, submitted, discarded, forked>>
  BY DEF Ack
<1>2. /\ \A j \in Jobs : Leased(j)' <=> Leased(j) /\ j # d.id
      /\ LeaseExclusive' /\ RetryBudget' /\ LeasesFresh'
  BY ReleaseKeepsLeases DEF Ack
<1>3. Leased(d.id) /\ d.id \in submitted
  BY <1>1, DeliveryFacts
<1>4. Conserved'
  BY <1>1, <1>2 DEF Conserved, Waiting, Dead, TypeOK
<1>5. SingleCopy'
  BY <1>1, <1>2, <1>3 DEF SingleCopy, Waiting, Dead
<1>6. OnlySubmitted'
  BY <1>1, <1>2, <1>3 DEF OnlySubmitted, Waiting, Dead
<1> QED BY <1>0, <1>1, <1>2, <1>4, <1>5, <1>6 DEF WaitingBudget

\* nack() preserves it, for a delivery that may retry.
LEMMA NackInv ==
  ASSUME QueueInv, NEW d \in deliveries, NEW ready \in BOOLEAN, WillRetry(d), Nack(d, ready)
  PROVE  QueueInv'
<1> USE DEF QueueInv
<1>0. TypeOK'
  BY TypeInductive DEF Next
<1> DEFINE m == [id |-> d.id, attempt |-> inFlight[d.id].attempt + 1, ready |-> ready]
<1>1. /\ Holds(d) /\ d.attempt < MaxRetries[d.id]
      /\ messages' = Append(messages, m)
      /\ UNCHANGED <<dead, completed, deliveries, submitted, discarded, forked>>
  BY DEF Nack, WillRetry
<1>2. /\ \A j \in Jobs : Leased(j)' <=> Leased(j) /\ j # d.id
      /\ LeaseExclusive' /\ RetryBudget' /\ LeasesFresh'
  BY ReleaseKeepsLeases DEF Nack
<1>3. /\ d.id \in Jobs /\ Leased(d.id) /\ d.id \in submitted
      /\ inFlight[d.id].attempt = d.attempt
  BY <1>1, DeliveryFacts
<1>4. /\ m \in Message /\ m.id = d.id /\ messages \in Seq(Message)
      /\ m.attempt <= MaxRetries[m.id]
  <2>1. inFlight[d.id].attempt \in Nat /\ MaxRetries[d.id] \in Nat
    BY <1>3, QueueAssumption DEF TypeOK, Entry
  <2> QED BY <1>1, <1>3, <2>1 DEF Message, TypeOK
<1>5. Ids(messages) \in Seq(Jobs) /\ Ids(messages') = Append(Ids(messages), d.id)
  <2> HIDE DEF m
  <2> QED BY <1>1, <1>4, IdsAppend, IdsType
<1>6. /\ Range(Ids(messages')) = Range(Ids(messages)) \cup {d.id}
      /\ \A k \in Jobs : Once(Ids(messages), k) /\ (k = d.id => k \notin Range(Ids(messages)))
           => Once(Ids(messages'), k)
  BY <1>3, <1>5, AppendIds
<1>7. WaitingBudget'
  <2> HIDE DEF m
  <2> QED BY <1>1, <1>4, WithinAppend DEF WaitingBudget
<1> HIDE DEF m
<1>8. Conserved'
  BY <1>1, <1>2, <1>6 DEF Conserved, Waiting, Dead, TypeOK
<1>9. SingleCopy'
  BY <1>1, <1>2, <1>3, <1>6 DEF SingleCopy, Waiting, Dead
<1>10. OnlySubmitted'
  BY <1>1, <1>2, <1>3, <1>6 DEF OnlySubmitted, Waiting, Dead
<1> QED BY <1>0, <1>2, <1>7, <1>8, <1>9, <1>10

\* deadLetter() preserves it: a stale caller's job is recorded in `forked`.
LEMMA DeadLetterInv ==
  ASSUME QueueInv, NEW d \in deliveries, DeadLetter(d)
  PROVE  QueueInv'
<1> USE DEF QueueInv
<1>0. TypeOK'
  BY TypeInductive DEF Next
<1> DEFINE cemetery == Append(dead, d.id)
<1>1. /\ dead' = Trim(cemetery)
      /\ discarded' = discarded \cup (Range(cemetery) \ Range(Trim(cemetery)))
      /\ UNCHANGED <<messages, completed, leases, deliveries, submitted>>
  BY DEF DeadLetter, Bury
<1>2. d.id \in Jobs /\ dead \in Seq(Jobs)
  BY DeliveryFacts DEF TypeOK
<1>3. /\ cemetery \in Seq(Jobs)
      /\ Range(cemetery) = Range(dead) \cup {d.id}
      /\ \A k \in Jobs : Once(dead, k) /\ (k = d.id => k \notin Range(dead)) => Once(cemetery, k)
  BY <1>2, AppendIds
<1> HIDE DEF cemetery
<1>4. /\ Range(dead') \subseteq Range(dead) \cup {d.id}
      /\ Range(dead) \cup {d.id} \subseteq Range(dead') \cup discarded'
      /\ discarded' = discarded \cup ((Range(dead) \cup {d.id}) \ Range(dead'))
      /\ \A k \in Jobs : Once(cemetery, k) => Once(dead', k)
  BY <1>1, <1>3, TrimIds
<1>5. WaitingBudget'
  BY <1>1 DEF WaitingBudget
<1>6. d.id \in submitted
  BY DEF OnlySubmitted
<1>7. CASE Holds(d)
  <2>1. /\ inFlight' = [inFlight EXCEPT ![d.id] = NoEntry]
        /\ over' = over \cup {d.lease} /\ forked' = forked
    BY <1>7 DEF DeadLetter
  <2>2. /\ \A j \in Jobs : Leased(j)' <=> Leased(j) /\ j # d.id
        /\ LeaseExclusive' /\ RetryBudget' /\ LeasesFresh'
    BY <1>1, <1>7, <2>1, ReleaseKeepsLeases
  <2>3. Leased(d.id) /\ d.id \in submitted
    BY <1>7, DeliveryFacts
  <2>4. Conserved'
    BY <1>1, <1>4, <2>2 DEF Conserved, Waiting, Dead, TypeOK
  <2>5. SingleCopy'
    BY <1>1, <1>2, <1>3, <1>4, <2>1, <2>2, <2>3 DEF SingleCopy, Waiting, Dead
  <2>6. OnlySubmitted'
    BY <1>1, <1>4, <2>1, <2>2, <2>3 DEF OnlySubmitted, Waiting, Dead
  <2> QED BY <1>0, <1>5, <2>2, <2>4, <2>5, <2>6
<1>8. CASE ~Holds(d)
  <2>1. inFlight' = inFlight /\ over' = over /\ forked' = forked \cup {d.id}
    BY <1>8 DEF DeadLetter
  <2>2. LeaseExclusive' /\ RetryBudget' /\ LeasesFresh'
    BY <1>1, <2>1 DEF LeaseExclusive, RetryBudget, LeasesFresh, Leased, Holds
  <2>3. \A j \in Jobs : Leased(j)' = Leased(j)
    BY <2>1 DEF Leased
  <2>4. Conserved'
    BY <1>1, <1>4, <2>3 DEF Conserved, Waiting, Dead, TypeOK
  <2>5. SingleCopy'
    BY <1>1, <1>2, <1>3, <1>4, <2>1, <2>3 DEF SingleCopy, Waiting, Dead
  <2>6. OnlySubmitted'
    BY <1>1, <1>4, <1>6, <2>1, <2>3 DEF OnlySubmitted, Waiting, Dead
  <2> QED BY <1>0, <1>5, <2>2, <2>4, <2>5, <2>6
<1> QED BY <1>7, <1>8

\* Re-driving moves ids from the dead-letter queue to the end of the pending
\* list; `moved` are those ids and `rest` what stays dead.
LEMMA RedriveInv ==
  ASSUME QueueInv, TypeOK', WaitingBudget',
         NEW moved \in Seq(Jobs),
         Ids(messages') = Ids(messages) \o moved,
         Range(dead) = Range(dead') \cup Range(moved),
         \A j \in Jobs : Once(dead, j) =>
           /\ Once(dead', j) /\ Once(moved, j)
           /\ ~(j \in Range(moved) /\ j \in Range(dead')),
         UNCHANGED <<inFlight, completed, leases, history>>
  PROVE  QueueInv'
<1> USE DEF QueueInv
<1>1. Ids(messages) \in Seq(Jobs)
  BY IdsType DEF TypeOK
<1>2. /\ Range(Ids(messages')) = Range(Ids(messages)) \cup Range(moved)
      /\ \A j \in Jobs : Once(Ids(messages), j) /\ Once(moved, j)
             /\ ~(j \in Range(Ids(messages)) /\ j \in Range(moved)) => Once(Ids(messages'), j)
  BY <1>1, ConcatIds
<1>3. /\ deliveries' = deliveries /\ over' = over /\ submitted' = submitted
      /\ discarded' = discarded /\ forked' = forked /\ inFlight' = inFlight
      /\ completed' = completed /\ leases' = leases
  BY DEF history
<1>4. \A j \in Jobs : Leased(j)' = Leased(j)
  BY <1>3 DEF Leased
<1>5. Conserved'
  BY <1>2, <1>3, <1>4 DEF Conserved, Waiting, Dead, TypeOK
<1>6. SingleCopy'
  <2> SUFFICES ASSUME NEW j \in Jobs \ forked
               PROVE  /\ Once(Ids(messages'), j) /\ Once(dead', j)
                      /\ Waiting(j)' => /\ ~Leased(j)' /\ ~Dead(j)'
                                        /\ j \notin completed' \cup discarded'
                      /\ Leased(j)' => ~Dead(j)' /\ j \notin completed' \cup discarded'
                      /\ Dead(j)' => j \notin completed' \cup discarded'
                      /\ j \in completed' => j \notin discarded'
    BY <1>3 DEF SingleCopy
  <2>1. /\ Once(Ids(messages), j) /\ Once(dead, j)
        /\ ~(j \in Range(Ids(messages)) /\ j \in Range(dead))
    BY DEF SingleCopy, Waiting, Dead
  <2>2. Once(Ids(messages'), j) /\ Once(dead', j)
    BY <1>2, <2>1
  <2> QED BY <1>2, <1>3, <1>4, <2>1, <2>2 DEF SingleCopy, Waiting, Dead
<1>7. OnlySubmitted'
  BY <1>2, <1>3, <1>4 DEF OnlySubmitted, Waiting, Dead
<1>8. LeaseExclusive' /\ RetryBudget' /\ LeasesFresh'
  BY <1>3, <1>4 DEF LeaseExclusive, RetryBudget, LeasesFresh, Leased, Holds
<1> QED BY <1>5, <1>6, <1>7, <1>8

\* redriveDeadLetter() preserves it.
LEMMA RedriveOneInv ==
  ASSUME QueueInv, NEW j \in Jobs, RedriveDeadLetter(j)
  PROVE  QueueInv'
<1> USE DEF QueueInv
<1>0. TypeOK'
  BY TypeInductive DEF Next
<1>1. PICK i \in DOMAIN dead : dead[i] = j /\ dead' = RemoveAt(dead, i)
  BY DEF RedriveDeadLetter
<1>2. /\ messages' = Append(messages, Fresh(j))
      /\ UNCHANGED <<inFlight, completed, leases, history>>
  BY DEF RedriveDeadLetter
<1>3. /\ Fresh(j) \in Message /\ Fresh(j).id = j
      /\ Fresh(j).attempt <= MaxRetries[Fresh(j).id]
  BY QueueAssumption DEF Fresh, Message
<1>4. messages \in Seq(Message) /\ dead \in Seq(Jobs) /\ i \in 1..Len(dead)
  BY DEF TypeOK
<1>5. WaitingBudget'
  BY <1>2, <1>3, <1>4, WithinAppend DEF WaitingBudget
<1> DEFINE moved == <<j>>
<1>6. moved \in Seq(Jobs) /\ Range(moved) = {j} /\ \A k \in Jobs : Once(moved, k)
  BY DEF Range, Once
<1>7. Ids(messages') = Ids(messages) \o moved
  <2>1. Ids(messages') = Append(Ids(messages), j) /\ Ids(messages) \in Seq(Jobs)
    BY <1>2, <1>3, <1>4, IdsAppend, IdsType
  <2> QED BY <2>1, AppendIsConcat
<1>8. /\ Range(dead) = Range(dead') \cup {j}
      /\ \A k \in Jobs : Once(dead, k) => Once(dead', k)
      /\ Once(dead, j) => j \notin Range(dead')
  BY <1>1, <1>4, RemoveIds
<1> HIDE DEF moved
<1> QED BY <1>0, <1>2, <1>5, <1>6, <1>7, <1>8, RedriveInv

\* redriveDeadLetters() preserves it.
LEMMA RedriveManyInv ==
  ASSUME QueueInv, NEW limit \in DOMAIN dead, RedriveDeadLetters(limit)
  PROVE  QueueInv'
<1> USE DEF QueueInv
<1>0. TypeOK'
  BY TypeInductive DEF Next
<1> DEFINE r == [k \in 1..limit |-> Fresh(dead[k])]
           moved == SubSeq(dead, 1, limit)
<1>1. /\ dead' = SubSeq(dead, limit + 1, Len(dead))
      /\ messages' = messages \o r
      /\ UNCHANGED <<inFlight, completed, leases, history>>
  BY DEF RedriveDeadLetters
<1>2. /\ messages \in Seq(Message) /\ dead \in Seq(Jobs)
      /\ limit \in 0..Len(dead) /\ limit \in Nat
      /\ \A k \in 1..limit : dead[k] \in Jobs
  BY DEF TypeOK
<1>3. \A j \in Jobs : /\ Fresh(j) \in Message /\ Fresh(j).id = j
                      /\ Fresh(j).attempt <= MaxRetries[Fresh(j).id]
  BY QueueAssumption DEF Fresh, Message
<1>4. /\ r \in Seq(Message) /\ Len(r) = limit /\ DOMAIN r = 1..limit
      /\ \A k \in 1..limit : r[k] = Fresh(dead[k])
  BY <1>2, <1>3
<1>5. moved \in Seq(Jobs) /\ Len(moved) = limit /\ \A k \in 1..limit : moved[k] = dead[k]
  BY <1>2
<1> HIDE DEF r, moved
<1>6. WaitingBudget'
  <2>1. WithinBudget(r)
    <3>1. SUFFICES ASSUME NEW k \in DOMAIN r PROVE r[k].attempt <= MaxRetries[r[k].id]
      BY DEF WithinBudget
    <3>2. k \in 1..limit /\ r[k] = Fresh(dead[k])
      BY <1>4
    <3>3. dead[k] \in Jobs
      BY <1>2, <3>2
    <3>4. Fresh(dead[k]).attempt <= MaxRetries[Fresh(dead[k]).id]
      BY <1>3, <3>3
    <3> QED BY <3>2, <3>4
  <2> QED BY <1>1, <1>2, <1>4, <2>1, WithinConcat DEF WaitingBudget
<1>7. Ids(r) = moved
  <2>1. /\ Ids(r) \in Seq(Jobs) /\ Len(Ids(r)) = limit
        /\ \A k \in 1..limit : Ids(r)[k] = r[k].id
    BY <1>4, IdsType
  <2>2. \A k \in 1..limit : Ids(r)[k] = moved[k]
    BY <1>2, <1>3, <1>4, <1>5, <2>1
  <2> QED BY <1>5, <2>1, <2>2, SeqEqual
<1>8. Ids(messages') = Ids(messages) \o moved
  BY <1>1, <1>2, <1>4, <1>7, IdsConcat
<1>9. /\ Range(dead) = Range(moved) \cup Range(dead')
      /\ \A j \in Jobs : Once(dead, j) =>
           /\ Once(moved, j) /\ Once(dead', j)
           /\ ~(j \in Range(moved) /\ j \in Range(dead'))
  BY <1>1, <1>2, SplitIds DEF moved
<1> QED BY <1>0, <1>1, <1>5, <1>6, <1>8, <1>9, RedriveInv

\* Calls and clock steps that move no job: no id changes place.
LEMMA StillInv ==
  ASSUME QueueInv, TypeOK', WaitingBudget', LeaseExclusive', LeasesFresh',
         Ids(messages') = Ids(messages),
         \A j \in Jobs : Leased(j)' = Leased(j),
         UNCHANGED <<dead, completed, leases, history>>
  PROVE  QueueInv'
<1> USE DEF QueueInv
<1>1. Conserved' /\ SingleCopy' /\ OnlySubmitted' /\ RetryBudget'
  BY DEF Conserved, SingleCopy, OnlySubmitted, RetryBudget, Waiting, Dead, history, TypeOK
<1> QED BY <1>1

\* Extending a lease or letting it lapse preserves it.
LEMMA LeaseClockInv ==
  ASSUME QueueInv, NEW j \in Jobs, NEW lapsed \in BOOLEAN,
         inFlight' = [inFlight EXCEPT ![j].lapsed = lapsed],
         UNCHANGED <<messages, dead, completed, leases, history>>, TypeOK'
  PROVE  QueueInv'
<1> USE DEF QueueInv
<1>1. \A k \in Jobs : inFlight'[k].lease = inFlight[k].lease
                      /\ inFlight'[k].attempt = inFlight[k].attempt
  BY DEF TypeOK, Entry
<1>2. \A k \in Jobs : Leased(k)' = Leased(k)
  BY <1>1 DEF Leased
<1>3. WaitingBudget' /\ Ids(messages') = Ids(messages)
  BY DEF WaitingBudget
<1>4. LeaseExclusive' /\ LeasesFresh'
  BY <1>1, <1>2 DEF LeaseExclusive, LeasesFresh, Holds, history, TypeOK, Delivery
<1> QED BY <1>2, <1>3, <1>4, StillInv

\* A delayed message becoming available preserves it.
LEMMA RipenInv ==
  ASSUME QueueInv, NEW i \in DOMAIN messages, Ripen(i)
  PROVE  QueueInv'
<1> USE DEF QueueInv
<1>0. TypeOK'
  BY TypeInductive DEF Next
<1>1. /\ messages' = [messages EXCEPT ![i].ready = TRUE]
      /\ UNCHANGED <<inFlight, dead, completed, leases, history>>
  BY DEF Ripen
<1>2. /\ DOMAIN messages' = DOMAIN messages
      /\ \A k \in DOMAIN messages : /\ messages'[k].id = messages[k].id
                                    /\ messages'[k].attempt = messages[k].attempt
  <2>1. \A k \in DOMAIN messages : messages[k] \in Message
    BY DEF TypeOK
  <2> QED BY <1>1, <2>1 DEF Message
<1>3. Ids(messages') = Ids(messages)
  BY <1>2 DEF Ids
<1>4. WaitingBudget'
  BY <1>2 DEF WaitingBudget, WithinBudget
<1>5. LeaseExclusive' /\ LeasesFresh' /\ \A j \in Jobs : Leased(j)' = Leased(j)
  BY <1>1 DEF LeaseExclusive, LeasesFresh, Leased, Holds, history
<1> QED BY <1>0, <1>1, <1>3, <1>4, <1>5, StillInv

\* purgeDeadLetters() preserves it: what it drops is recorded in `discarded`.
LEMMA PurgeInv == QueueInv /\ PurgeDeadLetters => QueueInv'
<1> SUFFICES ASSUME QueueInv, PurgeDeadLetters PROVE QueueInv'
  OBVIOUS
<1> USE DEF QueueInv
<1>0. TypeOK'
  BY TypeInductive DEF Next
<1>1. /\ dead' = <<>> /\ discarded' = discarded \cup Range(dead)
      /\ UNCHANGED <<messages, inFlight, completed, leases, deliveries, over, submitted, forked>>
  BY DEF PurgeDeadLetters
<1>2. Range(dead') = {} /\ \A j \in Jobs : Once(dead', j)
  BY <1>1 DEF Range, Once
<1>3. Range(dead) \subseteq Jobs
  BY DEF Range, TypeOK
<1>4. \A j \in Jobs : Leased(j)' = Leased(j)
  BY <1>1 DEF Leased
<1>5. Conserved'
  BY <1>1, <1>4 DEF Conserved, Waiting, Dead, TypeOK
<1>6. SingleCopy'
  BY <1>1, <1>2, <1>4 DEF SingleCopy, Waiting, Dead
<1>7. OnlySubmitted'
  BY <1>1, <1>2, <1>4 DEF OnlySubmitted, Waiting, Dead
<1>8. LeaseExclusive' /\ RetryBudget' /\ LeasesFresh' /\ WaitingBudget'
  BY <1>1 DEF LeaseExclusive, RetryBudget, LeasesFresh, WaitingBudget, Leased, Holds
<1> QED BY <1>0, <1>5, <1>6, <1>7, <1>8

\* Every step preserves the inductive invariant.
LEMMA InvInductive == QueueInv /\ [Next]_qvars => QueueInv'
<1> SUFFICES ASSUME QueueInv, [Next]_qvars PROVE QueueInv'
  OBVIOUS
<1>0. TypeOK'
  BY TypeInductive DEF QueueInv
<1>1. CASE Pop
  BY <1>1, PopInv
<1>2. ASSUME NEW j \in Jobs, NEW ready \in BOOLEAN, Push(j, ready) PROVE QueueInv'
  BY <1>2, PushInv
<1>3. ASSUME NEW d \in deliveries, Ack(d) PROVE QueueInv'
  BY <1>3, AckInv
<1>4. ASSUME NEW d \in deliveries, DeadLetter(d) PROVE QueueInv'
  BY <1>4, DeadLetterInv
<1>5. ASSUME NEW d \in deliveries, NEW ready \in BOOLEAN, WillRetry(d), Nack(d, ready)
      PROVE  QueueInv'
  BY <1>5, NackInv
<1>6. ASSUME NEW d \in deliveries, Extend(d) PROVE QueueInv'
  <2>1. d.id \in Jobs
    BY DeliveryFacts
  <2> QED BY <1>0, <1>6, <2>1, LeaseClockInv DEF Extend
<1>7. ASSUME NEW j \in Jobs, Lapse(j) PROVE QueueInv'
  BY <1>0, <1>7, LeaseClockInv DEF Lapse
<1>8. ASSUME NEW j \in Jobs, RedriveDeadLetter(j) PROVE QueueInv'
  BY <1>8, RedriveOneInv
<1>9. ASSUME NEW limit \in DOMAIN dead, RedriveDeadLetters(limit) PROVE QueueInv'
  BY <1>9, RedriveManyInv
<1>10. CASE PurgeDeadLetters
  BY <1>10, PurgeInv
<1>11. ASSUME NEW i \in DOMAIN messages, Ripen(i) PROVE QueueInv'
  BY <1>11, RipenInv
<1>12. CASE UNCHANGED qvars
  BY <1>12 DEF qvars, history, QueueInv, TypeOK, Conserved, SingleCopy, LeaseExclusive,
     RetryBudget, LeasesFresh, WaitingBudget, OnlySubmitted, Waiting, Dead, Leased, Holds
<1> QED
  BY <1>1, <1>2, <1>3, <1>4, <1>5, <1>6, <1>7, <1>8, <1>9, <1>10, <1>11, <1>12 DEF Next

\* It holds of the empty queue.
LEMMA InvInit == Init => QueueInv
<1> SUFFICES ASSUME Init PROVE QueueInv
  OBVIOUS
<1>1. TypeOK
  BY DEF Init, TypeOK, NoEntry, Entry, Delivery, Message
<1>2. Ids(messages) = <<>> /\ Range(Ids(messages)) = {} /\ Range(dead) = {}
  BY DEF Init, Ids, Range
<1>3. \A j \in Jobs : ~Leased(j) /\ Once(Ids(messages), j) /\ Once(dead, j)
  BY <1>2 DEF Init, Leased, NoEntry, Once
<1>4. Conserved /\ SingleCopy /\ OnlySubmitted
  BY <1>2, <1>3 DEF Init, Conserved, SingleCopy, OnlySubmitted, Waiting, Dead
<1>5. LeaseExclusive /\ RetryBudget /\ LeasesFresh /\ WaitingBudget
  BY <1>3 DEF Init, LeaseExclusive, RetryBudget, LeasesFresh, WaitingBudget, WithinBudget
<1> QED BY <1>1, <1>4, <1>5 DEF QueueInv

\* It holds in every reachable state.
LEMMA InvAlways == Spec => []QueueInv
BY InvInit, InvInductive, PTL DEF Spec

\* No pushed job is ever lost by MemoryQueue except to the dead-letter queue's
\* own cap or a purge, for any number of jobs, leases and dead letters.
\* Only a dead-letter call made without the current lease can duplicate one.
THEOREM NoJobLostOrDoubled == Spec => []JobsAccounted
BY InvAlways, PTL DEF QueueInv, JobsAccounted

\* A lease ends by its own holder's call or by lapsing, never by a stale call; nacks and
\* lapses draw down one budget, and no delivery exceeds it.
THEOREM StaleCallsHarmless == Spec => []DeliveriesSound
BY InvAlways, PTL DEF QueueInv, DeliveriesSound

-----------------------------------------------------------------------------
(* The refinement of JobLifecycle *)

\* The abstract state of a job, and the steps it may take, as JobStep or Stay.
Mark(j, s, n) == StatusOf(j) = s /\ TriesOf(j) = n
Moves(j, s, n, t, k) ==
  \/ s = t /\ n = k
  \/ s = "new" /\ t = "waiting" /\ k = 0
  \/ s = "waiting" /\ t = "leased" /\ k = n
  \/ s = "leased" /\ t = "done" /\ k = 0
  \/ s = "leased" /\ n < MaxRetries[j] /\ t \in {"waiting", "leased"} /\ k = n + 1
  \/ s = "leased" /\ t \in {"dead", "discarded"} /\ k = 0
  \/ s = "dead" /\ t = "waiting" /\ k = 0
  \/ s = "dead" /\ t = "discarded" /\ k = 0
  \/ s # "new" /\ t = "outside" /\ k = 0

\* What StatusOf and TriesOf say of a job, by the place it is in.
Stored(j) == {m \in Range(messages) : m.id = j}
Views(j) ==
  /\ j \in forked => Mark(j, "outside", 0)
  /\ j \notin forked =>
       /\ \A m \in Stored(j) : Mark(j, "waiting", m.attempt)
       /\ Leased(j) => Mark(j, "leased", inFlight[j].attempt)
       /\ Dead(j) => Mark(j, "dead", 0)
       /\ j \in completed => Mark(j, "done", 0)
       /\ j \in discarded => Mark(j, "discarded", 0)
       /\ j \notin submitted => Mark(j, "new", 0)

\* A job waits when it has a message.
LEMMA WaitingStored ==
  ASSUME TypeOK, NEW j
  PROVE  Waiting(j) <=> Stored(j) # {}
<1>1. Ids(messages) = [i \in DOMAIN messages |-> messages[i].id]
  BY DEF Ids
<1>2. Waiting(j) <=> \E i \in DOMAIN messages : messages[i].id = j
  BY <1>1 DEF Waiting, Range
<1> QED BY <1>2 DEF Stored, Range

\* In a state of the invariant, a job's place decides its abstract state.
LEMMA ViewsHold ==
  ASSUME QueueInv, NEW j \in Jobs
  PROVE  /\ Views(j)
         /\ StatusOf(j) \in Life!Status /\ TriesOf(j) \in Nat
<1> USE DEF QueueInv
<1>1. CASE j \in forked
  <2>1. StatusOf(j) = "outside"
    BY <1>1 DEF StatusOf
  <2> QED BY <1>1, <2>1 DEF Views, Mark, TriesOf, Life!Status
<1>2. CASE j \notin forked
  <2>1. /\ Once(Ids(messages), j) /\ (Waiting(j) <=> Stored(j) # {})
        /\ Waiting(j) => ~Leased(j) /\ ~Dead(j) /\ j \notin completed \cup discarded
        /\ Leased(j) => ~Dead(j) /\ j \notin completed \cup discarded
        /\ Dead(j) => j \notin completed \cup discarded
        /\ j \in completed => j \notin discarded
        /\ Waiting(j) \/ Leased(j) \/ Dead(j) \/ j \in completed \cup discarded <=> j \in submitted
    BY <1>2, WaitingStored DEF SingleCopy, Conserved, OnlySubmitted
  <2>2. /\ Waiting(j) => StatusOf(j) = "waiting"
        /\ ~Waiting(j) /\ Leased(j) => StatusOf(j) = "leased"
        /\ ~Waiting(j) /\ ~Leased(j) =>
             StatusOf(j) = IF j \in completed THEN "done"
                           ELSE IF Dead(j) THEN "dead"
                           ELSE IF j \in discarded THEN "discarded" ELSE "new"
    <3>1. CASE Waiting(j)
      BY <1>2, <3>1 DEF StatusOf
    <3>2. CASE ~Waiting(j) /\ Leased(j)
      BY <1>2, <3>2 DEF StatusOf
    <3>3. CASE ~Waiting(j) /\ ~Leased(j)
      BY <1>2, <3>3 DEF StatusOf
    <3> QED BY <3>1, <3>2, <3>3
  <2>3. /\ StatusOf(j) = "waiting" => TriesOf(j) = AttemptOf(j)
        /\ StatusOf(j) = "leased" => TriesOf(j) = inFlight[j].attempt
        /\ StatusOf(j) \notin {"waiting", "leased"} => TriesOf(j) = 0
    BY DEF TriesOf
  <2>4. ASSUME NEW m \in Stored(j) PROVE Mark(j, "waiting", m.attempt) /\ m.attempt \in Nat
    <3>1. PICK i \in DOMAIN messages : m = messages[i] /\ messages[i].id = j
      BY <2>4 DEF Stored, Range
    <3>2. \A k \in DOMAIN messages : messages[k].id = j => k = i
      BY <2>1, <3>1 DEF Once, Ids
    <3>3. AttemptOf(j) = m.attempt
      <4>1. (CHOOSE k \in DOMAIN messages : messages[k].id = j) = i
        BY <3>1, <3>2
      <4> QED BY <3>1, <4>1 DEF AttemptOf
    <3>4. m \in Message
      BY <3>1 DEF TypeOK
    <3> QED BY <2>1, <2>2, <2>3, <2>4, <3>3, <3>4 DEF Mark, Message
  <2>5. Leased(j) => Mark(j, "leased", inFlight[j].attempt) /\ inFlight[j].attempt \in Nat
    BY <2>1, <2>2, <2>3 DEF Mark, TypeOK, Entry
  <2>6. /\ Dead(j) => Mark(j, "dead", 0)
        /\ j \in completed => Mark(j, "done", 0)
        /\ j \in discarded => Mark(j, "discarded", 0)
        /\ j \notin submitted => Mark(j, "new", 0)
    BY <2>1, <2>2, <2>3 DEF Mark
  <2>7. Views(j)
    BY <1>2, <2>4, <2>5, <2>6 DEF Views
  <2>8. StatusOf(j) \in Life!Status /\ TriesOf(j) \in Nat
    BY <2>1, <2>4, <2>5, <2>6 DEF Mark, Life!Status
  <2> QED BY <2>7, <2>8
<1> QED BY <1>1, <1>2

\* The abstract step of job j, and what its proof knows before and after.
Step(j) == Moves(j, StatusOf(j), TriesOf(j), StatusOf(j)', TriesOf(j)')
Known(j) == QueueInv /\ Views(j) /\ j \notin forked

\* A step that leaves the job in its place, or only drops it when it is dead.
LEMMA LifeStays ==
  ASSUME NEW j \in Jobs, Known(j), Known(j)',
         Stored(j) # {} => \E m \in Stored(j), q \in Stored(j)' : m.attempt = q.attempt,
         Leased(j) => Leased(j)' /\ inFlight'[j].attempt = inFlight[j].attempt,
         Dead(j) => Dead(j)' \/ j \in discarded', j \in completed => j \in completed',
         j \in discarded => j \in discarded', j \in submitted' => j \in submitted
  PROVE  Step(j)
<1>1. CASE Stored(j) # {}
  <2>1. PICK m \in Stored(j), q \in Stored(j)' : m.attempt = q.attempt
    BY <1>1
  <2>2. Mark(j, "waiting", m.attempt) /\ Mark(j, "waiting", m.attempt)'
    BY <2>1 DEF Known, Views, Mark
  <2> QED BY <2>2 DEF Step, Moves, Mark
<1>2. CASE Leased(j)
  BY <1>2 DEF Known, Views, Step, Moves, Mark
<1>3. CASE Dead(j) \/ j \in completed \/ j \in discarded
  BY <1>3 DEF Known, Views, Step, Moves, Mark
<1>4. CASE j \notin submitted
  BY <1>4 DEF Known, Views, Step, Moves, Mark
<1>5. j \in submitted => Stored(j) # {} \/ Leased(j) \/ Dead(j) \/ j \in completed \/ j \in discarded
  BY WaitingStored DEF Known, QueueInv, Conserved
<1> QED BY <1>1, <1>2, <1>3, <1>4, <1>5

\* The same when its message and its entry are the same.
LEMMA LifeFrame ==
  ASSUME NEW j \in Jobs, Known(j), Known(j)',
         Stored(j)' = Stored(j), inFlight'[j] = inFlight[j],
         Dead(j) => Dead(j)' \/ j \in discarded', j \in completed => j \in completed',
         j \in discarded => j \in discarded', j \in submitted' => j \in submitted
  PROVE  Step(j)
BY LifeStays DEF Leased

\* The entries of the queues after each call.
LEMMA AppendRange ==
  ASSUME NEW S, NEW s \in Seq(S), NEW m \in S
  PROVE  Range(Append(s, m)) = Range(s) \cup {m}
<1> DEFINE t == Append(s, m)
           n == Len(s)
<1>1. /\ DOMAIN s = 1..n /\ DOMAIN t = 1..n \cup {n + 1}
      /\ \A k \in 1..n : t[k] = s[k]
      /\ t[n + 1] = m
  <2>1. /\ t \in Seq(S) /\ n \in Nat /\ Len(t) = n + 1 /\ DOMAIN s = 1..n
        /\ \A k \in 1..n : t[k] = s[k]
        /\ t[n + 1] = m
    OBVIOUS
  <2>2. DOMAIN t = 1..(n + 1)
    BY <2>1
  <2>3. 1..(n + 1) = 1..n \cup {n + 1}
    BY <2>1
  <2> QED BY <2>1, <2>2, <2>3, Zenon
<1> HIDE DEF t, n
<1>2. Range(t) = Range(s) \cup {m}
  BY <1>1, Zenon DEF Range
<1> QED BY <1>2 DEF t

\* A concatenation has the entries of both parts.
LEMMA ConcatRange ==
  ASSUME NEW S, NEW s \in Seq(S), NEW t \in Seq(S)
  PROVE  Range(s \o t) = Range(s) \cup Range(t)
<1> DEFINE u == s \o t
           m == Len(s)
           n == Len(t)
<1>1. /\ \A i \in 1..(m + n) : u[i] = IF i <= m THEN s[i] ELSE t[i - m]
      /\ m \in Nat /\ n \in Nat
      /\ DOMAIN s = 1..m /\ DOMAIN t = 1..n /\ DOMAIN u = 1..(m + n)
  BY ConcatProperties
<1> HIDE DEF u, m, n
<1>2. ASSUME NEW i \in 1..m PROVE i \in DOMAIN u /\ u[i] = s[i]
  BY <1>1
<1>3. ASSUME NEW i \in 1..n PROVE m + i \in DOMAIN u /\ u[m + i] = t[i]
  <2>1. m + i \in 1..(m + n) /\ ~(m + i <= m) /\ (m + i) - m = i
    BY <1>1
  <2>2. u[m + i] = t[(m + i) - m]
    BY <1>1, <2>1
  <2> QED BY <1>1, <2>1, <2>2
<1>4. ASSUME NEW i \in DOMAIN u, i \notin 1..m
      PROVE  i - m \in 1..n /\ u[i] = t[i - m]
  <2>1. i \in 1..(m + n) /\ ~(i <= m) /\ i - m \in 1..n
    BY <1>1, <1>4
  <2> QED BY <1>1, <2>1
<1>5. \A i \in DOMAIN u : u[i] \in Range(s) \cup Range(t)
  BY <1>1, <1>2, <1>4, Zenon DEF Range
<1>6. \A i \in DOMAIN s : s[i] \in Range(u)
  BY <1>1, <1>2, Zenon DEF Range
<1>7. \A i \in DOMAIN t : t[i] \in Range(u)
  BY <1>1, <1>3, Zenon DEF Range
<1>8. Range(u) = Range(s) \cup Range(t)
  BY <1>5, <1>6, <1>7, Zenon DEF Range
<1> QED BY <1>8 DEF u

\* What is left of a sequence, and what was taken out of it.
LEMMA RemoveRange ==
  ASSUME NEW S, NEW s \in Seq(S), NEW i \in 1..Len(s)
  PROVE  Range(s) = Range(RemoveAt(s, i)) \cup {s[i]}
<1> DEFINE t == RemoveAt(s, i)
           n == Len(s)
<1>1. /\ t \in Seq(S) /\ Len(t) = n - 1 /\ n \in Nat /\ i \in 1..n
      /\ \A k \in 1..(n - 1) : t[k] = IF k < i THEN s[k] ELSE s[k + 1]
      /\ DOMAIN s = 1..n
  <2>1. t \in Seq(S) /\ Len(t) = n - 1
    BY RemoveAtFacts
  <2>2. \A k \in 1..(n - 1) : t[k] = IF k < i THEN s[k] ELSE s[k + 1]
    BY RemoveAtFacts
  <2>3. n \in Nat /\ i \in 1..n /\ DOMAIN s = 1..n
    OBVIOUS
  <2> HIDE DEF t, n
  <2> QED BY <2>1, <2>2, <2>3
<1>2. DOMAIN t = 1..(n - 1)
  BY <1>1
<1> HIDE DEF t, n
<1>3. ASSUME NEW k \in DOMAIN s, k # i PROVE s[k] \in Range(t)
  <2>1. CASE k < i
    <3>1. k \in DOMAIN t /\ t[k] = s[k]
      BY <1>1, <1>2, <2>1
    <3> QED BY <3>1 DEF Range
  <2>2. CASE k > i
    <3>1. k - 1 \in 1..(n - 1) /\ ~(k - 1 < i) /\ (k - 1) + 1 = k
      BY <1>1, <2>2
    <3>2. t[k - 1] = s[(k - 1) + 1]
      BY <1>1, <3>1
    <3> QED BY <1>2, <3>1, <3>2 DEF Range
  <2> QED BY <1>1, <1>3, <2>1, <2>2
<1>4. ASSUME NEW k \in DOMAIN t PROVE t[k] \in Range(s)
  <2>1. /\ k \in DOMAIN s /\ k + 1 \in DOMAIN s
        /\ t[k] = s[k] \/ t[k] = s[k + 1]
    BY <1>1, <1>2
  <2> QED BY <2>1 DEF Range
<1>5. Range(s) = Range(t) \cup {s[i]}
  <2>1. s[i] \in Range(s)
    BY <1>1 DEF Range
  <2> QED BY <1>3, <1>4, <2>1 DEF Range
<1> QED BY <1>5 DEF t

\* enqueue() and push()
LEMMA LifePush ==
  ASSUME NEW j \in Jobs, Known(j), Known(j)', NEW i \in Jobs, NEW ready \in BOOLEAN,
         Push(i, ready)
  PROVE  Step(j)
<1> DEFINE m == [id |-> i, attempt |-> 0, ready |-> ready]
<1>1. /\ i \notin submitted /\ submitted' = submitted \cup {i}
      /\ messages' = Append(messages, m)
      /\ UNCHANGED <<inFlight, dead, completed, discarded>>
  BY DEF Push
<1>2. m \in Message /\ m.id = i /\ m.attempt = 0 /\ messages \in Seq(Message)
  BY DEF Message, Known, QueueInv, TypeOK
<1> HIDE DEF m
<1>3. Range(messages') = Range(messages) \cup {m}
  BY <1>1, <1>2, AppendRange
<1>4. CASE j # i
  <2>1. Stored(j)' = Stored(j) /\ (Dead(j) => Dead(j)')
    BY <1>1, <1>2, <1>3, <1>4 DEF Stored, Dead
  <2> QED BY <1>1, <1>4, <2>1, LifeFrame
<1>5. CASE j = i
  <2>1. Mark(j, "new", 0)
    BY <1>1, <1>5 DEF Known, Views
  <2>2. \E q \in Stored(j)' : q.attempt = 0
    BY <1>2, <1>3, <1>5 DEF Stored
  <2>3. Mark(j, "waiting", 0)'
    BY <2>2 DEF Known, Views, Mark
  <2> QED BY <2>1, <2>3 DEF Step, Moves, Mark
<1> QED BY <1>4, <1>5

\* The messages of pop(): those that waited and those of the lapsed leases.
LEMMA RequeueRange ==
  ASSUME TypeOK, NEW retried \in SetToSeqs(Expired \ Exhausted)
  PROVE  Range(Requeue(retried)) = Range(messages) \cup {Reclaimed(k) : k \in Expired \ Exhausted}
<1> DEFINE r == [k \in DOMAIN retried |-> Reclaimed(retried[k])]
<1>1. /\ retried \in Seq(Jobs) /\ Range(retried) = Expired \ Exhausted
      /\ \A k \in DOMAIN retried : retried[k] \in Jobs
  BY SetToSeqsFacts DEF Expired
<1>2. \A k \in Jobs : Reclaimed(k) \in Message
  BY DEF Reclaimed, Message, TypeOK, Entry
<1>3. r \in Seq(Message)
  <2>1. Len(retried) \in Nat /\ DOMAIN retried = 1..Len(retried)
    BY <1>1
  <2> QED BY <1>1, <1>2, <2>1
<1>4. Range(r) = {Reclaimed(k) : k \in Expired \ Exhausted}
  BY <1>1 DEF Range
<1> HIDE DEF r
<1>5. Range(messages \o r) = Range(messages) \cup Range(r)
  BY <1>3, ConcatRange DEF TypeOK
<1> QED BY <1>4, <1>5 DEF Requeue, r

\* pop() gives back what has lapsed, buries what has no retry left, and leases the
\* message it returns, which may be one it has just given back.
LEMMA LifePop ==
  ASSUME NEW j \in Jobs, Known(j), Known(j)', Pop
  PROVE  Step(j)
<1> USE DEF Known
<1>1. PICK retried \in SetToSeqs(Expired \ Exhausted), buried \in SetToSeqs(Exhausted) :
        /\ Bury(dead \o buried)
        /\ \/ \E i \in DOMAIN Requeue(retried) : Deliver(Requeue(retried), i)
           \/ DeliverNothing(Requeue(retried))
  BY DEF Pop
<1>2. UNCHANGED <<completed, submitted>>
  BY DEF Pop
<1> DEFINE queue == Requeue(retried)
           Given == {Reclaimed(k) : k \in Expired \ Exhausted}
<1>3. /\ TypeOK /\ messages \in Seq(Message) /\ inFlight \in [Jobs -> Entry]
      /\ dead \in Seq(Jobs) /\ leases \in Nat
      /\ queue \in Seq(Message) /\ Range(queue) = Range(messages) \cup Given
      /\ Exhausted \subseteq Expired /\ Expired \subseteq Jobs
  BY RequeueFacts, RequeueRange DEF QueueInv, TypeOK, Expired, Exhausted
<1> HIDE DEF queue
<1>4. /\ Dead(j) \/ j \in Exhausted => Dead(j)' \/ j \in discarded'
      /\ j \in discarded => j \in discarded'
  <2>1. buried \in Seq(Jobs) /\ Range(buried) = Exhausted
    BY <1>3, SetToSeqsFacts
  <2>2. Range(dead \o buried) = Range(dead) \cup Exhausted
    BY <1>3, <2>1, ConcatRange
  <2> QED BY <1>1, <2>2 DEF Bury, Dead
<1>5. /\ \A k \in Jobs : /\ Reclaimed(k).id = k
                         /\ Reclaimed(k).attempt = inFlight[k].attempt + 1
                         /\ inFlight[k].attempt \in Nat
      /\ Unexpired[j] = IF j \in Expired THEN NoEntry ELSE inFlight[j]
      /\ j \in Expired => Leased(j)
      /\ j \in Expired \ Exhausted => inFlight[j].attempt < MaxRetries[j]
  BY <1>3, QueueAssumption DEF Reclaimed, Unexpired, Entry, Expired, Exhausted
<1>6. \A m \in Range(queue) : m.id = j =>
        \/ m \in Stored(j)
        \/ j \in Expired \ Exhausted /\ m = Reclaimed(j)
  BY <1>3, <1>5 DEF Stored
<1>7. ASSUME NEW i \in DOMAIN queue, Deliver(queue, i), queue[i].id = j PROVE Step(j)
  <2> DEFINE m == queue[i]
  <2>1. inFlight'[j] = [attempt |-> m.attempt, lease |-> leases + 1, lapsed |-> FALSE]
    <3>1. inFlight' = [Unexpired EXCEPT ![m.id] =
                         [attempt |-> m.attempt, lease |-> leases + 1, lapsed |-> FALSE]]
      BY <1>7 DEF Deliver
    <3>2. j \in DOMAIN Unexpired
      BY DEF Unexpired
    <3> QED BY <1>7, <3>1, <3>2
  <2>2. PICK n : n = m.attempt
    OBVIOUS
  <2>3. Leased(j)' /\ inFlight'[j].attempt = n
    BY <1>3, <2>1, <2>2 DEF Leased
  <2>4. Mark(j, "leased", n)'
    BY <2>3 DEF Views, Mark
  <2>5. m \in Range(queue)
    BY DEF Range
  <2>6. CASE m \in Stored(j)
    <3>1. Mark(j, "waiting", n)
      BY <2>2, <2>6 DEF Views
    <3> QED BY <2>4, <3>1 DEF Step, Moves, Mark
  <2>7. CASE j \in Expired \ Exhausted /\ m = Reclaimed(j)
    <3>1. Mark(j, "leased", inFlight[j].attempt)
      BY <1>5, <2>7 DEF Views
    <3>2. n = inFlight[j].attempt + 1 /\ inFlight[j].attempt < MaxRetries[j]
      BY <1>5, <2>2, <2>7
    <3> QED BY <2>4, <3>1, <3>2 DEF Step, Moves, Mark
  <2> QED BY <1>6, <1>7, <2>5, <2>6, <2>7
<1>8. ASSUME Stored(j)' = {m \in Range(queue) : m.id = j}, inFlight'[j] = Unexpired[j]
      PROVE  Step(j)
  <2>1. CASE j \in Exhausted
    <3>1. Mark(j, "leased", inFlight[j].attempt)
      BY <1>3, <1>5, <2>1 DEF Views
    <3>2. Dead(j)' \/ j \in discarded'
      BY <1>4, <2>1
    <3> QED BY <3>1, <3>2 DEF Views, Step, Moves, Mark
  <2>2. CASE j \in Expired \ Exhausted
    <3>1. Mark(j, "leased", inFlight[j].attempt)
      BY <1>5, <2>2 DEF Views
    <3>2. PICK n : n = inFlight[j].attempt + 1
      OBVIOUS
    <3>3. \E q \in Stored(j)' : q.attempt = n
      BY <1>3, <1>5, <1>8, <2>2, <3>2
    <3>4. Mark(j, "waiting", n)'
      BY <3>3 DEF Views, Mark
    <3> QED BY <1>5, <2>2, <3>1, <3>2, <3>4 DEF Step, Moves, Mark
  <2>3. CASE j \notin Expired
    <3>1. Stored(j)' = Stored(j)
      BY <1>3, <1>6, <1>8, <2>3 DEF Stored
    <3>2. inFlight'[j] = inFlight[j]
      BY <1>5, <1>8, <2>3
    <3> QED BY <1>2, <1>4, <3>1, <3>2, LifeFrame
  <2> QED BY <2>1, <2>2, <2>3
<1>9. ASSUME NEW i \in DOMAIN queue, Deliver(queue, i), queue[i].id # j PROVE Step(j)
  <2>1. Range(queue) = Range(messages') \cup {queue[i]}
    BY <1>3, <1>9, RemoveRange DEF Deliver
  <2>2. Stored(j)' = {m \in Range(queue) : m.id = j}
    BY <1>9, <2>1 DEF Stored
  <2>3. inFlight'[j] = Unexpired[j]
    BY <1>9 DEF Deliver, Unexpired
  <2> QED BY <1>8, <2>2, <2>3
<1>10. ASSUME DeliverNothing(queue) PROVE Step(j)
  <2>1. Stored(j)' = {m \in Range(queue) : m.id = j} /\ inFlight'[j] = Unexpired[j]
    BY <1>10 DEF DeliverNothing, Stored
  <2> QED BY <1>8, <2>1
<1> QED BY <1>1, <1>7, <1>9, <1>10 DEF queue

\* ack(), nack() and deadLetter() of the delivery that holds the job.
LEMMA LifeRelease ==
  ASSUME NEW j \in Jobs, Known(j), Known(j)', NEW d \in deliveries,
         \/ Ack(d)
         \/ \E ready \in BOOLEAN : WillRetry(d) /\ Nack(d, ready)
         \/ DeadLetter(d)
  PROVE  Step(j)
<1>1. /\ d.id \in Jobs
      /\ Holds(d) => Leased(d.id) /\ inFlight[d.id].attempt = d.attempt
      /\ messages \in Seq(Message) /\ inFlight \in [Jobs -> Entry] /\ dead \in Seq(Jobs)
  BY DeliveryFacts DEF Known, QueueInv, TypeOK
<1>2. j = d.id /\ Holds(d) => Mark(j, "leased", d.attempt)
  BY <1>1 DEF Known, Views
<1>3. j # d.id /\ inFlight' = [inFlight EXCEPT ![d.id] = NoEntry] => inFlight'[j] = inFlight[j]
  OBVIOUS
<1>4. CASE Ack(d)
  <2>1. /\ inFlight' = [inFlight EXCEPT ![d.id] = NoEntry]
        /\ Holds(d) /\ completed' = completed \cup {d.id}
        /\ UNCHANGED <<messages, dead, submitted, discarded>>
    BY <1>4 DEF Ack
  <2>2. Stored(j)' = Stored(j) /\ (Dead(j) => Dead(j)')
    BY <2>1 DEF Stored, Dead
  <2>3. CASE j # d.id
    BY <1>3, <2>1, <2>2, <2>3, LifeFrame
  <2>4. CASE j = d.id
    BY <1>2, <2>1, <2>4 DEF Known, Views, Step, Moves, Mark
  <2> QED BY <2>3, <2>4
<1>5. ASSUME NEW ready \in BOOLEAN, WillRetry(d), Nack(d, ready) PROVE Step(j)
  <2> DEFINE m == [id |-> d.id, attempt |-> inFlight[d.id].attempt + 1, ready |-> ready]
  <2>1. /\ inFlight' = [inFlight EXCEPT ![d.id] = NoEntry]
        /\ Holds(d) /\ messages' = Append(messages, m)
        /\ UNCHANGED <<dead, completed, submitted, discarded>>
    BY <1>5 DEF Nack
  <2>2. m \in Message /\ m.id = d.id /\ m.attempt = d.attempt + 1
    BY <1>1, <2>1 DEF Message, Entry
  <2> HIDE DEF m
  <2>3. Range(messages') = Range(messages) \cup {m}
    BY <1>1, <2>1, <2>2, AppendRange
  <2>4. CASE j # d.id
    <3>1. Stored(j)' = Stored(j) /\ (Dead(j) => Dead(j)')
      BY <2>1, <2>2, <2>3, <2>4 DEF Stored, Dead
    <3> QED BY <1>3, <2>1, <2>4, <3>1, LifeFrame
  <2>5. CASE j = d.id
    <3>1. \E q \in Stored(j)' : q.attempt = d.attempt + 1
      BY <2>2, <2>3, <2>5 DEF Stored
    <3>2. Mark(j, "waiting", d.attempt + 1)'
      BY <2>1, <3>1 DEF Known, Views, Mark
    <3>3. d.attempt < MaxRetries[j]
      BY <1>5, <2>5 DEF WillRetry
    <3> QED BY <1>2, <2>1, <2>5, <3>2, <3>3 DEF Step, Moves, Mark
  <2> QED BY <2>4, <2>5
<1>6. CASE DeadLetter(d)
  <2>1. /\ UNCHANGED <<messages, completed, submitted>>
        /\ Bury(Append(dead, d.id))
        /\ IF Holds(d) THEN inFlight' = [inFlight EXCEPT ![d.id] = NoEntry]
           ELSE forked' = forked \cup {d.id} /\ inFlight' = inFlight
    BY <1>6 DEF DeadLetter
  <2>2. Range(Append(dead, d.id)) = Range(dead) \cup {d.id}
    BY <1>1, AppendRange
  <2>3. /\ Dead(j) \/ j = d.id => Dead(j)' \/ j \in discarded'
        /\ j \in discarded => j \in discarded'
        /\ Stored(j)' = Stored(j)
    BY <2>1, <2>2 DEF Bury, Dead, Stored
  <2>4. CASE j # d.id
    BY <1>3, <2>1, <2>3, <2>4, LifeFrame
  <2>5. CASE j = d.id
    <3>1. Holds(d)
      BY <2>1, <2>5 DEF Known
    <3> QED BY <1>2, <2>3, <2>5, <3>1 DEF Known, Views, Step, Moves, Mark
  <2> QED BY <2>4, <2>5
<1> QED BY <1>4, <1>5, <1>6

\* The re-drives: the dead jobs they take wait again.
LEMMA LifeRedrive ==
  ASSUME NEW j \in Jobs, Known(j), Known(j)', NEW moved,
         Range(messages') = Range(messages) \cup {Fresh(k) : k \in moved},
         Range(dead) = Range(dead') \cup moved,
         UNCHANGED <<inFlight, completed, leases, history>>
  PROVE  Step(j)
<1>1. \A k : Fresh(k).id = k /\ Fresh(k).attempt = 0
  BY DEF Fresh
<1>2. CASE j \notin moved
  <2>1. Stored(j)' = Stored(j)
    BY <1>1, <1>2 DEF Stored
  <2>2. Dead(j) => Dead(j)'
    BY <1>2 DEF Dead
  <2> QED BY <2>1, <2>2, LifeFrame DEF history
<1>3. CASE j \in moved
  <2>1. Dead(j)
    BY <1>3 DEF Dead
  <2>2. \E q \in Stored(j)' : q.attempt = 0
    BY <1>1, <1>3 DEF Stored
  <2>3. Mark(j, "waiting", 0)'
    BY <2>2 DEF Known, Views, Mark
  <2> QED BY <2>1, <2>3 DEF Known, Views, Step, Moves, Mark
<1> QED BY <1>2, <1>3

\* redriveDeadLetter()
LEMMA LifeRedriveOne ==
  ASSUME NEW j \in Jobs, Known(j), Known(j)', NEW k \in Jobs, RedriveDeadLetter(k)
  PROVE  Step(j)
<1>1. /\ messages \in Seq(Message) /\ dead \in Seq(Jobs) /\ Fresh(k) \in Message
  BY DEF Known, QueueInv, TypeOK, Fresh, Message
<1>2. PICK i \in DOMAIN dead : dead[i] = k /\ dead' = RemoveAt(dead, i)
  BY DEF RedriveDeadLetter
<1>3. messages' = Append(messages, Fresh(k)) /\ UNCHANGED <<inFlight, completed, leases, history>>
  BY DEF RedriveDeadLetter
<1>4. Range(messages') = Range(messages) \cup {Fresh(x) : x \in {k}}
  BY <1>1, <1>3, AppendRange
<1>5. Range(dead) = Range(dead') \cup {k}
  BY <1>1, <1>2, RemoveRange
<1> QED BY <1>3, <1>4, <1>5, LifeRedrive

\* redriveDeadLetters()
LEMMA LifeRedriveMany ==
  ASSUME NEW j \in Jobs, Known(j), Known(j)', NEW limit \in DOMAIN dead,
         RedriveDeadLetters(limit)
  PROVE  Step(j)
<1> DEFINE r == [k \in 1..limit |-> Fresh(dead[k])]
           first == SubSeq(dead, 1, limit)
           moved == Range(first)
<1>1. /\ messages \in Seq(Message) /\ dead \in Seq(Jobs) /\ limit \in 0..Len(dead)
      /\ \A k \in 1..limit : dead[k] \in Jobs
  BY DEF Known, QueueInv, TypeOK
<1>2. /\ dead' = SubSeq(dead, limit + 1, Len(dead))
      /\ messages' = messages \o r
      /\ UNCHANGED <<inFlight, completed, leases, history>>
  BY DEF RedriveDeadLetters
<1>3. r \in Seq(Message) /\ DOMAIN r = 1..limit
  <2>1. \A k \in Jobs : Fresh(k) \in Message
    BY DEF Fresh, Message
  <2> QED BY <1>1, <2>1
<1>4. /\ DOMAIN first = 1..limit
      /\ \A k \in 1..limit : first[k] = dead[k]
  BY <1>1
<1>5. Range(r) = {Fresh(x) : x \in moved}
  BY <1>3, <1>4 DEF Range
<1>6. Range(dead) = Range(dead') \cup moved
  BY <1>1, <1>2, SplitIds
<1> HIDE DEF r, first
<1>7. Range(messages') = Range(messages) \cup {Fresh(x) : x \in moved}
  BY <1>1, <1>2, <1>3, <1>5, ConcatRange
<1> QED BY <1>2, <1>6, <1>7, LifeRedrive

\* extend(), the passing of time and purgeDeadLetters().
LEMMA LifeClock ==
  ASSUME NEW j \in Jobs, Known(j), Known(j)',
         \/ \E d \in deliveries : Extend(d)
         \/ \E k \in Jobs : Lapse(k)
         \/ \E i \in DOMAIN messages : Ripen(i)
         \/ PurgeDeadLetters
  PROVE  Step(j)
<1>1. /\ messages \in Seq(Message) /\ inFlight \in [Jobs -> Entry]
      /\ \A d \in deliveries : d.id \in Jobs
  BY DEF Known, QueueInv, TypeOK, Delivery
<1>2. ASSUME NEW k \in Jobs, NEW lapsed \in BOOLEAN,
             inFlight' = [inFlight EXCEPT ![k].lapsed = lapsed],
             UNCHANGED <<messages, dead, completed, leases, history>>
      PROVE  Step(j)
  <2>1. inFlight'[j].attempt = inFlight[j].attempt /\ inFlight'[j].lease = inFlight[j].lease
    BY <1>1, <1>2 DEF Entry
  <2>2. Stored(j)' = Stored(j) /\ (Dead(j) => Dead(j)')
    BY <1>2 DEF Stored, Dead
  <2> QED BY <1>2, <2>1, <2>2, LifeStays DEF Leased, history
<1>3. ASSUME NEW i \in DOMAIN messages, Ripen(i) PROVE Step(j)
  <2>1. /\ DOMAIN messages' = DOMAIN messages
        /\ \A k \in DOMAIN messages : /\ messages'[k].id = messages[k].id
                                      /\ messages'[k].attempt = messages[k].attempt
    BY <1>1, <1>3 DEF Ripen, Message
  <2>2. ASSUME NEW m \in Stored(j) PROVE \E q \in Stored(j)' : m.attempt = q.attempt
    <3>1. PICK k \in DOMAIN messages : m = messages[k]
      BY DEF Stored, Range
    <3>2. messages'[k] \in Stored(j)'
      BY <2>1, <3>1 DEF Stored, Range
    <3> QED BY <2>1, <3>1, <3>2
  <2>3. UNCHANGED <<inFlight, dead, completed, submitted, discarded>>
    BY <1>3 DEF Ripen, history
  <2>4. Dead(j) => Dead(j)'
    BY <2>3 DEF Dead
  <2> QED BY <2>2, <2>3, <2>4, LifeStays DEF Leased
<1>4. CASE PurgeDeadLetters
  <2>1. /\ UNCHANGED <<messages, inFlight, completed, submitted>>
        /\ discarded' = discarded \cup Range(dead)
    BY <1>4 DEF PurgeDeadLetters
  <2>2. Stored(j)' = Stored(j) /\ (Dead(j) => j \in discarded')
    BY <2>1 DEF Stored, Dead
  <2> QED BY <2>1, <2>2, LifeFrame
<1> QED BY <1>1, <1>2, <1>3, <1>4 DEF Extend, Lapse

\* A stale dead-letter call takes a submitted job out of the promise for good.
LEMMA ForkedGrows ==
  ASSUME QueueInv, [Next]_qvars, NEW j \in Jobs
  PROVE  /\ j \in forked => j \in forked'
         /\ j \notin forked /\ j \in forked' => j \in submitted
<1>1. ASSUME NEW d \in deliveries, DeadLetter(d)
      PROVE  d.id \in submitted /\ (forked' = forked \/ forked' = forked \cup {d.id})
  BY <1>1 DEF DeadLetter, QueueInv, OnlySubmitted
<1>2. forked' = forked \/ \E d \in deliveries : DeadLetter(d)
  BY DEF Next, Push, Pop, Ack, Extend, Nack, RedriveDeadLetter, Lapse, RedriveDeadLetters,
         PurgeDeadLetters, Ripen, qvars, history
<1> QED BY <1>1, <1>2

\* Every call moves each job as the life of a job allows.
LEMMA LifeMoves ==
  ASSUME QueueInv, QueueInv', NEW j \in Jobs, Views(j), Views(j)', [Next]_qvars
  PROVE  Step(j)
<1>1. /\ j \in forked => j \in forked'
      /\ j \notin forked /\ j \in forked' => j \in submitted
  BY ForkedGrows
<1>2. CASE j \in forked'
  <2>1. Mark(j, "outside", 0)'
    BY <1>2 DEF Views
  <2>2. CASE j \in forked
    BY <2>1, <2>2 DEF Views, Step, Moves, Mark
  <2>3. CASE j \notin forked
    <3>1. \/ Stored(j) # {} \/ Leased(j) \/ Dead(j) \/ j \in completed \/ j \in discarded
      BY <1>1, <1>2, <2>3, WaitingStored DEF QueueInv, Conserved
    <3>2. StatusOf(j) # "new"
      BY <2>3, <3>1 DEF Views, Mark
    <3> QED BY <2>1, <3>2 DEF Step, Moves, Mark
  <2> QED BY <2>2, <2>3
<1>3. CASE j \notin forked'
  <2>1. Known(j) /\ Known(j)'
    BY <1>1, <1>3 DEF Known
  <2>2. CASE UNCHANGED qvars
    <3>1. Stored(j)' = Stored(j) /\ (Dead(j) => Dead(j)')
      BY <2>2 DEF qvars, Stored, Dead
    <3> QED BY <2>1, <2>2, <3>1, LifeFrame DEF qvars, history
  <2> QED BY <2>1, <2>2, LifePush, LifePop, LifeRelease, LifeRedriveOne, LifeRedriveMany,
             LifeClock DEF Next
<1> QED BY <1>2, <1>3

\* MemoryQueue implements the life of a job, for any number of jobs and any retry
\* limits and caps: each job is submitted once, leased to one delivery at a time, given
\* back at the cost of one retry, and ends acked or dead-lettered.
THEOREM Implements == Spec => ImplementsLifecycle
<1> DEFINE Seen == \A j \in Jobs :
                     Views(j) /\ StatusOf(j) \in Life!Status /\ TriesOf(j) \in Nat
<1>1. Init => Life!LifeInit
  <2> SUFFICES ASSUME Init PROVE Life!LifeInit
    OBVIOUS
  <2>1. ASSUME NEW j \in Jobs PROVE Mark(j, "new", 0)
    <3>1. Views(j)
      BY InvInit, ViewsHold
    <3> QED BY <3>1 DEF Init, Views
  <2> QED BY <2>1 DEF Life!LifeInit, Mark
<1>2. QueueInv /\ Seen /\ QueueInv' /\ Seen' /\ [Next]_qvars => [Life!LifeNext]_(Life!lifeVars)
  <2> SUFFICES ASSUME QueueInv, Seen, QueueInv', Seen', [Next]_qvars PROVE Life!LifeNext
    OBVIOUS
  <2>1. ASSUME NEW j \in Jobs
        PROVE  Step(j) /\ StatusOf(j)' \in Life!Status /\ TriesOf(j)' \in Nat
    BY LifeMoves DEF Life!Status
  <2> QED BY <2>1
      DEF Life!LifeNext, Life!JobStep, Life!Submit, Life!Deliver, Life!Complete,
          Life!GiveBack, Life!Bury, Life!Redrive, Life!Discard, Life!Leave, Life!Stay,
          Life!To, Step, Moves
<1>3. QueueInv => Seen
  BY ViewsHold
<1> QED BY <1>1, <1>2, <1>3, InvAlways, PTL DEF Spec, ImplementsLifecycle, Life!LifeSpec

-----------------------------------------------------------------------------
(* The worker *)

\* What a step of poll loop l does, with `active` jobs and running = up: it waits
\* for pop() or not, and the answer it gets, if it is a message, is a new lease.
Moved(l, active, up) ==
  \E at \in {"ended", "popping", "sleeping"}, ans \in 0..(MaxLeases + 1) :
    /\ loop' = [loop EXCEPT ![l] = at]
    /\ popped' = [popped EXCEPT ![l] = ans]
    /\ at = "popping" => up /\ active < Concurrency
    /\ up => at # "ended"
    /\ ~up => leases' = leases
    /\ \/ ans \notin Leases /\ leases' = leases
       \/ /\ at = "popping" /\ ans = leases + 1 /\ leases' = leases + 1
          /\ ans \in Leases
          /\ \E d \in deliveries' : d.lease = ans

\* What a pop() can do to the leases.
LEMMA PopHandsOut ==
  ASSUME TypeOK, Pop
  PROVE  /\ deliveries \subseteq deliveries'
         /\ \/ leases' = leases
            \/ /\ leases' = leases + 1 /\ leases < MaxLeases
               /\ \E d \in deliveries' : d.lease = leases + 1
<1>1. PICK retried \in SetToSeqs(Expired \ Exhausted), buried \in SetToSeqs(Exhausted) :
        LET queue == Requeue(retried)
        IN /\ Bury(dead \o buried)
           /\ \/ /\ leases < MaxLeases
                 /\ \E i \in DOMAIN queue : FirstReady(queue, i) /\ Deliver(queue, i)
              \/ (\A i \in DOMAIN queue : ~queue[i].ready) /\ DeliverNothing(queue)
  BY DEF Pop
<1> DEFINE queue == Requeue(retried)
<1>2. CASE DeliverNothing(queue)
  BY <1>2 DEF DeliverNothing
<1>3. ASSUME leases < MaxLeases, NEW i \in DOMAIN queue, Deliver(queue, i)
      PROVE  /\ deliveries \subseteq deliveries'
             /\ leases' = leases + 1
             /\ \E d \in deliveries' : d.lease = leases + 1
  <2> DEFINE d == [id |-> queue[i].id, attempt |-> queue[i].attempt, lease |-> leases + 1]
  <2>1. deliveries' = deliveries \cup {d} /\ leases' = leases + 1
    BY <1>3 DEF Deliver
  <2>2. d.lease = leases + 1
    OBVIOUS
  <2> QED BY <2>1, <2>2
<1> QED BY <1>1, <1>2, <1>3

\* No other call of the queue makes a lease or forgets a delivery.
LEMMA OthersHandOutNothing ==
  ASSUME [Next]_qvars, ~Pop
  PROVE  leases' = leases /\ deliveries' = deliveries
BY DEF Next, Push, Ack, Extend, DeadLetter, Nack, RedriveDeadLetter, Lapse,
   RedriveDeadLetters, PurgeDeadLetters, Ripen, qvars, history

\* The end of a tick moves the loop and touches nothing of the queue.
LEMMA EndTickFacts ==
  ASSUME WorkerTypeOK, NEW l \in Loops, NEW active, NEW up \in BOOLEAN, EndTick(l, up)
  PROVE  /\ UNCHANGED qvars
         /\ deliveries' = deliveries
         /\ pollTimer' \in Loops \cup {0}
         /\ faults' = faults /\ faults' \in 0..MaxFaults
         /\ Moved(l, active, up)
<1> USE WorkerAssumption, QueueAssumption
<1> DEFINE at == IF up THEN "sleeping" ELSE "ended"
<1>1. /\ loop' = [loop EXCEPT ![l] = at]
      /\ pollTimer' \in Loops \cup {0}
      /\ popped' = [popped EXCEPT ![l] = 0]
      /\ UNCHANGED qvars /\ leases' = leases /\ deliveries' = deliveries
      /\ faults' = faults /\ faults' \in 0..MaxFaults
  BY DEF EndTick, Nothing, WorkerTypeOK, qvars, history
<1>2. 0 \in 0..(MaxLeases + 1) /\ 0 \notin Leases
  BY DEF Leases
<1>3. at \in {"ended", "popping", "sleeping"} /\ at # "popping" /\ (up => at # "ended")
  OBVIOUS
<1> HIDE DEF at
<1> QED BY <1>1, <1>2, <1>3 DEF Moved

\* One pass through the while loop of a tick: either the loop waits for pop(),
\* with a free slot, or it ends the tick; what pop() answers is new.
LEMMA IterateFacts ==
  ASSUME TypeOK, WorkerTypeOK, NEW l \in Loops, NEW active \in Nat, NEW up \in BOOLEAN,
         Iterate(l, active, up)
  PROVE  /\ Pop \/ UNCHANGED qvars
         /\ deliveries \subseteq deliveries'
         /\ pollTimer' \in Loops \cup {0}
         /\ faults <= faults' /\ faults' \in 0..MaxFaults
         /\ Moved(l, active, up)
<1> USE WorkerAssumption, QueueAssumption
<1>1. CASE up /\ active < Concurrency /\ CallPop(l)
  <2>1. /\ loop' = [loop EXCEPT ![l] = "popping"] /\ pollTimer' = pollTimer
        /\ \/ Pop /\ popped' = [popped EXCEPT ![l] = IF leases' > leases THEN leases' ELSE Nothing]
                  /\ faults' = faults
           \/ Reject /\ popped' = [popped EXCEPT ![l] = Rejected]
    BY <1>1 DEF CallPop
  <2>2. CASE Reject /\ popped' = [popped EXCEPT ![l] = Rejected]
    <3>1. /\ UNCHANGED qvars /\ leases' = leases /\ deliveries' = deliveries
          /\ faults <= faults' /\ faults' \in 0..MaxFaults
      BY <2>2 DEF Reject, qvars, history, WorkerTypeOK
    <3>2. Rejected \in 0..(MaxLeases + 1) /\ Rejected \notin Leases
      BY DEF Rejected, Leases
    <3>3. Moved(l, active, up)
      BY <1>1, <2>1, <2>2, <3>1, <3>2 DEF Moved
    <3> QED BY <2>1, <3>1, <3>3 DEF WorkerTypeOK
  <2>3. CASE /\ Pop /\ faults' = faults
             /\ popped' = [popped EXCEPT ![l] = IF leases' > leases THEN leases' ELSE Nothing]
    <3> DEFINE ans == IF leases' > leases THEN leases' ELSE Nothing
    <3>2. leases \in Nat
      BY DEF TypeOK
    <3>3. /\ deliveries \subseteq deliveries'
          /\ \/ leases' = leases /\ ans = 0
             \/ /\ leases' = leases + 1 /\ leases < MaxLeases /\ ans = leases + 1
                /\ \E d \in deliveries' : d.lease = ans
      BY <2>3, <3>2, PopHandsOut DEF Nothing
    <3>4. ans \in 0..(MaxLeases + 1) /\ (ans \in Leases \/ (ans = 0 /\ ans \notin Leases))
      BY <3>2, <3>3 DEF Leases
    <3>5. popped' = [popped EXCEPT ![l] = ans]
      BY <2>3
    <3> HIDE DEF ans
    <3>6. \/ ans \notin Leases /\ leases' = leases
          \/ /\ ans = leases + 1 /\ leases' = leases + 1 /\ ans \in Leases
             /\ \E d \in deliveries' : d.lease = ans
      <4>1. CASE leases' = leases /\ ans = 0
        BY <4>1 DEF Leases
      <4>2. CASE leases' = leases + 1 /\ ans = leases + 1 /\ leases < MaxLeases
        BY <3>2, <3>3, <3>4, <4>2, SMT
      <4> QED BY <3>3, <4>1, <4>2
    <3>7. Moved(l, active, up)
      <4> DEFINE Right(at, a) ==
            /\ loop' = [loop EXCEPT ![l] = at]
            /\ popped' = [popped EXCEPT ![l] = a]
            /\ at = "popping" => up /\ active < Concurrency
            /\ up => at # "ended"
            /\ ~up => leases' = leases
            /\ \/ a \notin Leases /\ leases' = leases
               \/ /\ at = "popping" /\ a = leases + 1 /\ leases' = leases + 1
                  /\ a \in Leases
                  /\ \E d \in deliveries' : d.lease = a
      <4>1. Right("popping", ans)
        BY <1>1, <2>1, <3>5, <3>6
      <4> HIDE DEF Right
      <4>2. \E at \in {"ended", "popping", "sleeping"}, a \in 0..(MaxLeases + 1) : Right(at, a)
        BY <3>4, <4>1
      <4> QED BY <4>2, Zenon DEF Moved, Right
    <3>8. /\ pollTimer' \in Loops \cup {0}
          /\ faults <= faults' /\ faults' \in 0..MaxFaults
      BY <2>1, <2>3 DEF WorkerTypeOK
    <3> QED BY <2>3, <3>3, <3>7, <3>8
  <2> QED BY <2>1, <2>2, <2>3
<1>2. CASE EndTick(l, up)
  <2>1. /\ UNCHANGED qvars /\ deliveries' = deliveries /\ pollTimer' \in Loops \cup {0}
        /\ faults' = faults /\ faults' \in 0..MaxFaults /\ Moved(l, active, up)
    BY <1>2, EndTickFacts
  <2> QED BY <2>1
<1> QED BY <1>1, <1>2 DEF Iterate

\* A delivery that reached processMessage, or that pop() answered, is the one
\* with that lease token; tokens of the future are nobody's.
LEMMA TokenFacts ==
  ASSUME QueueInv, WorkerTypeOK, HandedOut
  PROVE  /\ leases \in Nat
         /\ \A k \in Leases : phase[k] # "none" =>
              k <= leases /\ DeliveryOf(k) \in deliveries /\ DeliveryOf(k).lease = k
         /\ \A l \in Loops : popped[l] \in Leases => popped[l] <= leases
<1>1. leases \in Nat /\ \A d \in deliveries : d.lease \in 1..leases
  BY DEF QueueInv, TypeOK, LeasesFresh
<1> QED BY <1>1 DEF HandedOut, DeliveryOf

\* The calls of the queue that a worker makes, and the passage of time: it never
\* re-drives or purges dead letters, and nacks only while attempts are left.
Call ==
  \/ Pop
  \/ \E d \in deliveries : \/ Ack(d) \/ Extend(d) \/ DeadLetter(d)
                           \/ WillRetry(d) /\ Nack(d, FALSE)
  \/ \E j \in Jobs : Push(j, TRUE) \/ Lapse(j)
  \/ \E i \in DOMAIN messages : Ripen(i)

\* Every step of the worker makes one of these calls, or leaves the queue alone.
LEMMA CallStep ==
  ASSUME QueueInv, WorkerTypeOK, HandedOut, [WorkerNext]_allvars
  PROVE  [Call]_qvars
<1> USE WorkerAssumption
<1>0. TypeOK
  BY DEF QueueInv
<1>1. CASE Start
  <2>1. starts + 1 \in Loops /\ activeJobs \in Nat
    BY <1>1 DEF Start, Loops, WorkerTypeOK
  <2>2. Iterate(starts + 1, activeJobs, TRUE)
    BY <1>1, Zenon DEF Start
  <2> QED BY <1>0, <2>1, <2>2, IterateFacts DEF Call
<1>2. CASE Stop \/ StopReturns
  BY <1>2 DEF Stop, StopReturns
<1>3. ASSUME NEW l \in Loops, TimerFires(l) PROVE [Call]_qvars
  <2>1. CASE running /\ Iterate(l, activeJobs, running)
    BY <1>0, <2>1, IterateFacts DEF WorkerTypeOK, Call
  <2>2. CASE UNCHANGED qvars
    BY <2>2
  <2> QED BY <1>3, <2>1, <2>2 DEF TimerFires
<1>4. ASSUME NEW l \in Loops, PopAnswers(l) PROVE [Call]_qvars
  <2>1. CASE popped[l] \in Leases
    <3>1. Iterate(l, activeJobs + 1, running) /\ activeJobs + 1 \in Nat /\ running \in BOOLEAN
      BY <1>4, <2>1 DEF PopAnswers, WorkerTypeOK
    <3> QED BY <1>0, <3>1, IterateFacts DEF Call
  <2>2. CASE popped[l] \notin Leases
    BY <1>4, <2>2 DEF PopAnswers, EndTick
  <2> QED BY <2>1, <2>2
<1>5. ASSUME NEW k \in Leases, HandlerResolves(k) PROVE [Call]_qvars
  <2> DEFINE d == DeliveryOf(k)
  <2>1. d \in deliveries /\ Settle(k, Ack(d), ~Holds(d))
    BY <1>5, TokenFacts DEF HandlerResolves
  <2>2. Ack(d) => Call
    BY <2>1 DEF Call
  <2> QED BY <2>1, <2>2 DEF Settle, Reject
<1>6. ASSUME NEW k \in Leases, HandlerFails(k) PROVE [Call]_qvars
  BY <1>6 DEF HandlerFails
<1>7. ASSUME NEW k \in Leases, RetryLater(k) PROVE [Call]_qvars
  <2> DEFINE d == DeliveryOf(k)
  <2>1. d \in deliveries /\ WillRetry(d) /\ Settle(k, Nack(d, FALSE), ~Holds(d))
    BY <1>7, TokenFacts DEF RetryLater
  <2>2. Nack(d, FALSE) => Call
    BY <2>1 DEF Call
  <2> QED BY <2>1, <2>2 DEF Settle, Reject
<1>8. ASSUME NEW k \in Leases, FailPermanently(k) PROVE [Call]_qvars
  <2> DEFINE d == DeliveryOf(k)
  <2>1. d \in deliveries /\ Settle(k, DeadLetter(d), FALSE)
    BY <1>8, TokenFacts DEF FailPermanently
  <2>2. DeadLetter(d) => Call
    BY <2>1 DEF Call
  <2> QED BY <2>1, <2>2 DEF Settle, Reject
<1>9. ASSUME NEW k \in Leases, Finish(k) PROVE [Call]_qvars
  BY <1>9 DEF Finish
<1>10. ASSUME NEW k \in Leases, Heartbeat(k) PROVE [Call]_qvars
  <2>1. DeliveryOf(k) \in deliveries /\ Extend(DeliveryOf(k))
    BY <1>10, TokenFacts DEF Heartbeat, Processing
  <2> QED BY <2>1 DEF Call
<1>11. ASSUME NEW j \in Jobs, Enqueue(j) PROVE [Call]_qvars
  BY <1>11 DEF Enqueue, Call
<1>12. CASE Tick
  BY <1>12 DEF Tick, Call
<1>13. CASE UNCHANGED allvars
  BY <1>13 DEF allvars
<1> QED
  BY <1>1, <1>2, <1>3, <1>4, <1>5, <1>6, <1>7, <1>8, <1>9, <1>10, <1>11, <1>12, <1>13
  DEF WorkerNext

\* Hence every step of the worker is a step of the queue, or leaves it alone.
LEMMA QueueStep ==
  ASSUME QueueInv, WorkerTypeOK, HandedOut, [WorkerNext]_allvars
  PROVE  [Next]_qvars
<1>1. Call => Next
  BY DEF Call, Next
<1> QED BY <1>1, CallStep

\* Only poll loops 1 to n are live, and l is one of them.
Among(l, n) == l \in 1..n /\ \A m \in Loops : m > n => loop[m] = "ended"

\* Moving poll loop l changes the number of pending pop() calls by l alone, and
\* the others are no more than the other loops that were ever started.
LEMMA PlacesAfter ==
  ASSUME WorkerTypeOK, NEW l \in Loops, NEW n \in Nat, Among(l, n), NEW at,
         loop' = [loop EXCEPT ![l] = at]
  PROVE  /\ Cardinality(Popping) \in Nat /\ Cardinality(Popping') \in Nat
         /\ \E others \in Nat :
              /\ others <= n - 1
              /\ Cardinality(Popping) = others + (IF loop[l] = "popping" THEN 1 ELSE 0)
              /\ Cardinality(Popping') = others + (IF at = "popping" THEN 1 ELSE 0)
<1> DEFINE Others == Popping \ {l}
<1>1. IsFiniteSet(1..n) /\ Cardinality(1..n) = n
  BY FS_Interval
<1>2. l \in 1..n
  BY DEF Among
<1>3. IsFiniteSet((1..n) \ {l}) /\ Cardinality((1..n) \ {l}) = n - 1
  BY <1>1, <1>2, FS_RemoveElement
<1>4. Others \subseteq (1..n) \ {l}
  BY DEF Among, Popping, Loops, WorkerTypeOK
<1>5. IsFiniteSet(Others) /\ Cardinality(Others) \in Nat /\ Cardinality(Others) <= n - 1
  BY <1>3, <1>4, FS_Subset, FS_CardinalityType
<1>6. l \notin Others
  OBVIOUS
<1>7. Popping = IF loop[l] = "popping" THEN Others \cup {l} ELSE Others
  BY DEF Popping
<1>8. Popping' = IF at = "popping" THEN Others \cup {l} ELSE Others
  BY DEF Popping, WorkerTypeOK
<1>9. IsFiniteSet(Others \cup {l}) /\ Cardinality(Others \cup {l}) = Cardinality(Others) + 1
  BY <1>5, <1>6, FS_AddElement
<1> HIDE DEF Others
<1>10. /\ Cardinality(Popping) = Cardinality(Others) + (IF loop[l] = "popping" THEN 1 ELSE 0)
       /\ Cardinality(Popping') = Cardinality(Others) + (IF at = "popping" THEN 1 ELSE 0)
  BY <1>5, <1>7, <1>8, <1>9
<1> QED BY <1>5, <1>10

\* The bookkeeping of deliveries and loops survives a step of loop l, whether
\* its answer is handed to processMessage or there is none.
LEMMA LoopStep ==
  ASSUME QueueInv, WorkerTypeOK, HandedOut, AnsweredOnce, UnstartedLoops,
         NEW l \in Loops, NEW active, NEW up \in BOOLEAN, Moved(l, active, up),
         deliveries \subseteq deliveries', l <= starts', starts <= starts',
         starts' \in 0..MaxStarts,
         \/ popped[l] \notin Leases /\ phase' = phase
         \/ popped[l] \in Leases /\ phase' = [phase EXCEPT ![popped[l]] = "handling"]
  PROVE  /\ loop' \in [Loops -> {"ended", "popping", "sleeping"}]
         /\ popped' \in [Loops -> 0..(MaxLeases + 1)]
         /\ phase' \in [Leases -> {"none", "handling", "failed", "settling", "done"}]
         /\ HandedOut' /\ AnsweredOnce' /\ UnstartedLoops'
         /\ up => \E m \in Loops : loop'[m] # "ended"
<1>1. PICK at \in {"ended", "popping", "sleeping"}, ans \in 0..(MaxLeases + 1) :
        /\ loop' = [loop EXCEPT ![l] = at]
        /\ popped' = [popped EXCEPT ![l] = ans]
        /\ up => at # "ended"
        /\ \/ ans \notin Leases
           \/ /\ at = "popping" /\ ans = leases + 1
              /\ ans \in Leases
              /\ \E d \in deliveries' : d.lease = ans
  BY DEF Moved
<1>2. /\ loop' \in [Loops -> {"ended", "popping", "sleeping"}]
      /\ popped' \in [Loops -> 0..(MaxLeases + 1)]
      /\ phase' \in [Leases -> {"none", "handling", "failed", "settling", "done"}]
  BY <1>1 DEF WorkerTypeOK
<1>3. HandedOut'
  <2>1. ASSUME NEW k \in Leases, phase'[k] # "none" PROVE \E d \in deliveries' : d.lease = k
    BY <2>1 DEF HandedOut, WorkerTypeOK
  <2>2. ASSUME NEW m \in Loops, popped'[m] \in Leases
        PROVE  \E d \in deliveries' : d.lease = popped'[m]
    BY <1>1, <2>2 DEF HandedOut, WorkerTypeOK
  <2> QED BY <2>1, <2>2 DEF HandedOut
<1>4. /\ leases + 1 \notin Leases \/ phase[leases + 1] = "none"
      /\ \A m \in Loops : popped[m] # leases + 1 \/ popped[m] \notin Leases
      /\ popped[l] # leases + 1 \/ popped[l] \notin Leases
  BY TokenFacts
<1>5. AnsweredOnce'
  <2>1. ASSUME NEW m \in Loops, popped'[m] \in Leases
        PROVE  loop'[m] = "popping" /\ phase'[popped'[m]] = "none"
    <3>1. CASE m = l
      BY <1>1, <1>4, <2>1, <3>1 DEF WorkerTypeOK
    <3>2. CASE m # l
      BY <1>1, <2>1, <3>2 DEF WorkerTypeOK, AnsweredOnce
    <3> QED BY <3>1, <3>2
  <2>2. ASSUME NEW m \in Loops, NEW n \in Loops, popped'[m] \in Leases, popped'[m] = popped'[n]
        PROVE  m = n
    BY <1>1, <1>4, <2>2 DEF WorkerTypeOK, AnsweredOnce
  <2> QED BY <2>1, <2>2 DEF AnsweredOnce
<1>6. UnstartedLoops'
  BY <1>1 DEF UnstartedLoops, WorkerTypeOK, Loops
<1>7. up => \E m \in Loops : loop'[m] # "ended"
  BY <1>1 DEF WorkerTypeOK
<1> QED BY <1>2, <1>3, <1>5, <1>6, <1>7

\* Deliveries are never forgotten.
LEMMA DeliveriesGrow ==
  ASSUME TypeOK, [Next]_qvars
  PROVE  deliveries \subseteq deliveries'
BY PopHandsOut, OthersHandOutNothing

\* Moving the delivery with token k changes the number of busy slots by k alone.
LEMMA BusyAfter ==
  ASSUME WorkerTypeOK, NEW k \in Leases, NEW at, phase' = [phase EXCEPT ![k] = at]
  PROVE  /\ Cardinality(Busy) \in Nat /\ Cardinality(Busy') \in Nat
         /\ Cardinality(Busy') =
              Cardinality(Busy) - (IF Processing(k) THEN 1 ELSE 0)
                + (IF at \in {"handling", "failed", "settling"} THEN 1 ELSE 0)
<1> DEFINE Others == Busy \ {k}
<1>1. IsFiniteSet(Leases)
  BY QueueAssumption, FS_Interval DEF Leases
<1>2. Others \subseteq Leases /\ Busy \subseteq Leases /\ k \notin Others
  BY DEF Busy
<1>3. IsFiniteSet(Others) /\ Cardinality(Others) \in Nat
  BY <1>1, <1>2, FS_Subset, FS_CardinalityType
<1>4. IsFiniteSet(Others \cup {k}) /\ Cardinality(Others \cup {k}) = Cardinality(Others) + 1
  BY <1>2, <1>3, FS_AddElement
<1>5. Busy = IF Processing(k) THEN Others \cup {k} ELSE Others
  BY DEF Busy
<1>6. Busy' = IF at \in {"handling", "failed", "settling"} THEN Others \cup {k} ELSE Others
  BY DEF Busy, Processing, WorkerTypeOK
<1> HIDE DEF Others
<1> QED BY <1>3, <1>4, <1>5, <1>6

\* What a step inside processMessage preserves.
LEMMA PhaseStep ==
  ASSUME WorkerTypeOK, HandedOut, AnsweredOnce, UnstartedLoops, NeverDeaf, PlacesBound,
         NEW k \in Leases, phase[k] # "none", NEW at \in {"failed", "settling", "done"},
         phase' = [phase EXCEPT ![k] = at], deliveries \subseteq deliveries',
         UNCHANGED <<running, pollTimer, loop, popped, stopping, starts>>,
         activeJobs' \in Nat, activeJobs' <= activeJobs, faults' \in 0..MaxFaults
  PROVE  /\ WorkerTypeOK' /\ HandedOut' /\ AnsweredOnce' /\ UnstartedLoops'
         /\ NeverDeaf' /\ PlacesBound'
<1>1. WorkerTypeOK'
  BY DEF WorkerTypeOK
<1>2. HandedOut' /\ AnsweredOnce' /\ UnstartedLoops' /\ NeverDeaf'
  BY DEF HandedOut, AnsweredOnce, UnstartedLoops, NeverDeaf, WorkerTypeOK
<1>3. PlacesBound'
  <2>1. Popping' = Popping /\ Popping \subseteq Loops /\ starts' = starts
    BY DEF Popping
  <2>2. IsFiniteSet(Loops)
    BY WorkerAssumption, FS_Interval DEF Loops
  <2>3. Cardinality(Popping) \in Nat
    BY <2>1, <2>2, FS_Subset, FS_CardinalityType
  <2> QED BY <2>1, <2>3, WorkerAssumption DEF PlacesBound, WorkerTypeOK
<1> QED BY <1>1, <1>2, <1>3

\* The number of busy slots when no delivery moves.
LEMMA BusyStill == ASSUME phase' = phase PROVE Busy' = Busy
BY DEF Busy, Processing

\* start() gives the new loop a place of its own; every other pending pop()
\* belongs to an earlier start().
LEMMA StartInv ==
  ASSUME WorkerInv, Start, QueueInv'
  PROVE  WorkerInv'
<1> USE WorkerAssumption DEF WorkerInv
<1>0. PICK l \in Loops : l = starts + 1
  BY DEF Start, Loops, WorkerTypeOK
<1>1. /\ l = starts + 1 /\ l \in Nat /\ starts \in Nat /\ activeJobs \in Nat
      /\ starts' = l /\ starts' \in 0..MaxStarts /\ ~running /\ running' = TRUE
      /\ UNCHANGED <<activeJobs, phase>>
      /\ stopping' \in {"none", "waiting", "drained", "abandoned"}
  BY <1>0 DEF Start, Loops, WorkerTypeOK
<1> PICK up \in BOOLEAN : up
  OBVIOUS
<1>2. Iterate(l, activeJobs, up)
  <2>1. Iterate(starts + 1, activeJobs, TRUE)
    BY Zenon DEF Start
  <2>2. up = TRUE
    OBVIOUS
  <2> QED BY <1>0, <2>1, <2>2, Zenon
<1>3. loop[l] = "ended" /\ popped[l] \notin Leases
  BY <1>1 DEF UnstartedLoops, AnsweredOnce
<1>4. /\ Moved(l, activeJobs, up) /\ deliveries \subseteq deliveries'
      /\ pollTimer' \in Loops \cup {0} /\ faults' \in 0..MaxFaults
  BY <1>1, <1>2, IterateFacts DEF QueueInv
<1>5. /\ loop' \in [Loops -> {"ended", "popping", "sleeping"}]
      /\ popped' \in [Loops -> 0..(MaxLeases + 1)]
      /\ phase' \in [Leases -> {"none", "handling", "failed", "settling", "done"}]
      /\ HandedOut' /\ AnsweredOnce' /\ UnstartedLoops'
      /\ \E m \in Loops : loop'[m] # "ended"
  <2>1. phase' = phase /\ l <= starts' /\ starts <= starts' /\ starts' \in 0..MaxStarts
    BY <1>1
  <2> QED BY <1>3, <1>4, <2>1, LoopStep
<1>6. WorkerTypeOK' /\ NeverDeaf'
  BY <1>1, <1>4, <1>5 DEF WorkerTypeOK, NeverDeaf
<1>7. SlotsAccounted'
  BY <1>1, BusyStill DEF SlotsAccounted
<1>8. PlacesBound'
  <2>1. PICK at : loop' = [loop EXCEPT ![l] = at] /\ (at = "popping" => activeJobs < Concurrency)
    BY <1>4 DEF Moved
  <2>2. /\ Cardinality(Popping) \in Nat /\ Cardinality(Popping') \in Nat
        /\ Cardinality(Popping) <= starts
        /\ Cardinality(Popping') = Cardinality(Popping) + (IF at = "popping" THEN 1 ELSE 0)
    <3>0. PICK n \in Nat : n = starts + 1
      BY <1>1
    <3>1. Among(l, n)
      BY <1>1, <3>0 DEF Among, UnstartedLoops, Loops
    <3>2. l \in Loops /\ n \in Nat /\ WorkerTypeOK /\ loop' = [loop EXCEPT ![l] = at]
      BY <1>0, <2>1, <3>0
    <3> HIDE DEF WorkerInv
    <3>3. /\ Cardinality(Popping) \in Nat /\ Cardinality(Popping') \in Nat
          /\ \E others \in Nat :
               /\ others <= n - 1
               /\ Cardinality(Popping) = others + (IF loop[l] = "popping" THEN 1 ELSE 0)
               /\ Cardinality(Popping') = others + (IF at = "popping" THEN 1 ELSE 0)
      BY ONLY <3>1, <3>2, PlacesAfter
    <3> QED BY <1>1, <1>3, <3>0, <3>3
  <2> QED BY <1>1, <2>1, <2>2 DEF PlacesBound
<1> QED BY <1>5, <1>6, <1>7, <1>8

\* The next tick of a loop takes a place only while a slot is free.
LEMMA TimerInv ==
  ASSUME WorkerInv, NEW l \in Loops, TimerFires(l), QueueInv'
  PROVE  WorkerInv'
<1> USE WorkerAssumption DEF WorkerInv
<1>1. /\ starts \in Nat /\ activeJobs \in Nat /\ loop[l] = "sleeping" /\ popped[l] \notin Leases
      /\ l \in Nat /\ l <= starts /\ l > 0
  BY DEF TimerFires, WorkerTypeOK, AnsweredOnce, UnstartedLoops, Loops
<1>2. UNCHANGED <<running, activeJobs, phase, stopping, starts>>
  BY DEF TimerFires
<1>3. /\ Moved(l, activeJobs, running) /\ deliveries \subseteq deliveries'
      /\ pollTimer' \in Loops \cup {0} /\ faults' \in 0..MaxFaults
  <2>1. CASE Iterate(l, activeJobs, running)
    BY <1>1, <2>1, IterateFacts DEF QueueInv, WorkerTypeOK
  <2>2. CASE /\ ~running /\ loop' = [loop EXCEPT ![l] = "ended"]
             /\ UNCHANGED <<qvars, pollTimer, popped, faults>>
    <3>1. popped' = [popped EXCEPT ![l] = popped[l]] /\ leases' = leases
          /\ deliveries' = deliveries /\ popped[l] \in 0..(MaxLeases + 1)
      BY <2>2 DEF WorkerTypeOK, qvars, history
    <3>2. Moved(l, activeJobs, running)
      BY <1>1, <2>2, <3>1 DEF Moved
    <3> QED BY <2>2, <3>1, <3>2 DEF WorkerTypeOK
  <2> QED BY <2>1, <2>2 DEF TimerFires
<1>4. /\ loop' \in [Loops -> {"ended", "popping", "sleeping"}]
      /\ popped' \in [Loops -> 0..(MaxLeases + 1)]
      /\ HandedOut' /\ AnsweredOnce' /\ UnstartedLoops'
      /\ running => \E m \in Loops : loop'[m] # "ended"
  BY <1>1, <1>2, <1>3, LoopStep DEF WorkerTypeOK
<1>5. WorkerTypeOK' /\ NeverDeaf'
  BY <1>2, <1>3, <1>4 DEF WorkerTypeOK, NeverDeaf
<1>6. SlotsAccounted'
  BY <1>2, BusyStill DEF SlotsAccounted
<1>7. PlacesBound'
  <2>1. PICK at : loop' = [loop EXCEPT ![l] = at] /\ (at = "popping" => activeJobs < Concurrency)
    BY <1>3 DEF Moved
  <2>2. Among(l, starts)
    BY <1>1 DEF Among, UnstartedLoops
  <2>3. PICK others \in Nat :
          /\ others <= starts - 1
          /\ Cardinality(Popping) = others + (IF loop[l] = "popping" THEN 1 ELSE 0)
          /\ Cardinality(Popping') = others + (IF at = "popping" THEN 1 ELSE 0)
    BY <1>1, <2>1, <2>2, PlacesAfter
  <2> QED BY <1>1, <1>2, <2>1, <2>3 DEF PlacesBound
<1> QED BY <1>4, <1>5, <1>6, <1>7

\* A message that arrives turns its loop's place into a busy slot.
LEMMA AnswerInv ==
  ASSUME WorkerInv, NEW l \in Loops, PopAnswers(l), QueueInv'
  PROVE  WorkerInv'
<1> USE WorkerAssumption DEF WorkerInv
<1>1. /\ starts \in Nat /\ activeJobs \in Nat /\ loop[l] = "popping" /\ running \in BOOLEAN
      /\ l \in Nat /\ l <= starts /\ l > 0
  BY DEF PopAnswers, WorkerTypeOK, UnstartedLoops, Loops
<1>2. UNCHANGED <<running, stopping, starts>>
  BY DEF PopAnswers
<1> DEFINE k == popped[l]
<1> DEFINE active == IF k \in Leases THEN activeJobs + 1 ELSE activeJobs
<1>3. /\ Moved(l, active, running) /\ deliveries \subseteq deliveries'
      /\ pollTimer' \in Loops \cup {0} /\ faults' \in 0..MaxFaults
      /\ activeJobs' = active
      /\ \/ k \notin Leases /\ phase' = phase
         \/ k \in Leases /\ phase' = [phase EXCEPT ![k] = "handling"]
  <2>1. CASE k \in Leases
    <3>1. activeJobs + 1 \in Nat /\ Iterate(l, activeJobs + 1, running)
      BY <1>1, <2>1 DEF PopAnswers
    <3>2. /\ Moved(l, activeJobs + 1, running) /\ deliveries \subseteq deliveries'
          /\ pollTimer' \in Loops \cup {0} /\ faults' \in 0..MaxFaults
      BY <1>1, <3>1, IterateFacts DEF QueueInv
    <3> QED BY <2>1, <3>2 DEF PopAnswers
  <2>2. CASE k \notin Leases
    BY <1>1, <2>2, EndTickFacts DEF PopAnswers
  <2> QED BY <2>1, <2>2
<1>4. /\ loop' \in [Loops -> {"ended", "popping", "sleeping"}]
      /\ popped' \in [Loops -> 0..(MaxLeases + 1)]
      /\ phase' \in [Leases -> {"none", "handling", "failed", "settling", "done"}]
      /\ HandedOut' /\ AnsweredOnce' /\ UnstartedLoops'
      /\ running => \E m \in Loops : loop'[m] # "ended"
  <2> HIDE DEF active
  <2> QED BY <1>1, <1>2, <1>3, LoopStep DEF WorkerTypeOK
<1>5. active \in Nat
  BY <1>1
<1>6. WorkerTypeOK' /\ NeverDeaf'
  <2> HIDE DEF active, k
  <2> QED BY <1>2, <1>3, <1>4, <1>5 DEF WorkerTypeOK, NeverDeaf
<1>7. SlotsAccounted'
  <2>1. CASE k \notin Leases
    BY <1>3, <2>1, BusyStill DEF SlotsAccounted
  <2>2. CASE k \in Leases
    <3>1. phase' = [phase EXCEPT ![k] = "handling"] /\ activeJobs' = activeJobs + 1
      BY <1>3, <2>2
    <3>2. ~Processing(k)
      BY <2>2 DEF AnsweredOnce, Processing
    <3>3. PICK n \in Leases : n = k
      BY <2>2
    <3>4. phase' = [phase EXCEPT ![n] = "handling"] /\ ~Processing(n)
      BY <3>1, <3>2, <3>3
    <3> HIDE DEF k, active
    <3>5. /\ Cardinality(Busy) \in Nat
          /\ Cardinality(Busy') = Cardinality(Busy) - (IF Processing(n) THEN 1 ELSE 0)
               + (IF "handling" \in {"handling", "failed", "settling"} THEN 1 ELSE 0)
      BY <3>4, BusyAfter
    <3>6. Cardinality(Busy') = Cardinality(Busy) + 1
      BY <3>4, <3>5
    <3> QED BY <3>1, <3>6 DEF SlotsAccounted
  <2> QED BY <2>1, <2>2
<1>8. PlacesBound'
  <2> HIDE DEF active, k
  <2>1. PICK at : loop' = [loop EXCEPT ![l] = at] /\ (at = "popping" => active < Concurrency)
    BY <1>3 DEF Moved
  <2>2. Among(l, starts)
    BY <1>1 DEF Among, UnstartedLoops
  <2>3. PICK others \in Nat :
          /\ others <= starts - 1
          /\ Cardinality(Popping) = others + (IF loop[l] = "popping" THEN 1 ELSE 0)
          /\ Cardinality(Popping') = others + (IF at = "popping" THEN 1 ELSE 0)
    BY <1>1, <2>1, <2>2, PlacesAfter
  <2>4. active <= activeJobs + 1
    BY <1>1 DEF active
  <2> QED BY <1>1, <1>2, <1>3, <1>5, <2>1, <2>3, <2>4 DEF PlacesBound
<1> QED BY <1>4, <1>6, <1>7, <1>8

\* The number of pending pop() calls is a number.
LEMMA PoppingCounts ==
  ASSUME WorkerTypeOK
  PROVE  IsFiniteSet(Popping) /\ Cardinality(Popping) \in Nat
<1>1. IsFiniteSet(Loops) /\ Popping \subseteq Loops
  BY WorkerAssumption, FS_Interval DEF Loops, Popping
<1> QED BY <1>1, FS_Subset, FS_CardinalityType

\* A step inside processMessage, up to its settling call, keeps the slot.
LEMMA ProcessInv ==
  ASSUME WorkerInv, QueueInv', [Next]_qvars, NEW k \in Leases, Processing(k),
         NEW at \in {"failed", "settling"}, phase' = [phase EXCEPT ![k] = at],
         UNCHANGED <<running, pollTimer, activeJobs, loop, popped, stopping, starts>>,
         faults' \in 0..MaxFaults
  PROVE  WorkerInv'
<1> USE DEF WorkerInv
<1>1. phase[k] # "none" /\ activeJobs' \in Nat /\ activeJobs' <= activeJobs
  BY DEF Processing, WorkerTypeOK
<1>2. deliveries \subseteq deliveries'
  BY DeliveriesGrow DEF QueueInv
<1>3. /\ WorkerTypeOK' /\ HandedOut' /\ AnsweredOnce' /\ UnstartedLoops'
      /\ NeverDeaf' /\ PlacesBound'
  BY <1>1, <1>2, PhaseStep
<1>4. /\ Cardinality(Busy) \in Nat
      /\ Cardinality(Busy') =
           Cardinality(Busy) - (IF Processing(k) THEN 1 ELSE 0)
             + (IF at \in {"handling", "failed", "settling"} THEN 1 ELSE 0)
  BY BusyAfter
<1>5. SlotsAccounted'
  BY <1>4 DEF SlotsAccounted
<1> QED BY <1>3, <1>5

\* The finally of a tick frees the slot that its delivery held.
LEMMA FinishInv ==
  ASSUME WorkerInv, QueueInv', NEW k \in Leases, Finish(k)
  PROVE  WorkerInv'
<1> USE DEF WorkerInv
<1>1. PICK at \in {"failed", "settling", "done"} : at = "done"
  OBVIOUS
<1>2. /\ phase[k] = "settling" /\ phase' = [phase EXCEPT ![k] = at]
      /\ activeJobs' = activeJobs - 1 /\ UNCHANGED <<qvars, faults>>
      /\ UNCHANGED <<running, pollTimer, loop, popped, stopping, starts>>
  BY <1>1 DEF Finish
<1>3. /\ Cardinality(Busy) \in Nat /\ Cardinality(Busy') \in Nat
      /\ Cardinality(Busy') =
           Cardinality(Busy) - (IF Processing(k) THEN 1 ELSE 0)
             + (IF at \in {"handling", "failed", "settling"} THEN 1 ELSE 0)
  BY <1>2, BusyAfter
<1>4. Cardinality(Busy') = Cardinality(Busy) - 1
  BY <1>1, <1>2, <1>3 DEF Processing
<1>5. activeJobs' \in Nat /\ activeJobs' <= activeJobs /\ SlotsAccounted'
  BY <1>2, <1>3, <1>4 DEF SlotsAccounted
<1>6. deliveries \subseteq deliveries' /\ faults' \in 0..MaxFaults /\ phase[k] # "none"
  BY <1>2 DEF qvars, history, WorkerTypeOK
<1>7. /\ WorkerTypeOK' /\ HandedOut' /\ AnsweredOnce' /\ UnstartedLoops'
      /\ NeverDeaf' /\ PlacesBound'
  BY <1>1, <1>2, <1>5, <1>6, PhaseStep
<1> QED BY <1>5, <1>7

\* stop() ends a sleeping loop at most, and no place is freed by it.
LEMMA StopInv ==
  ASSUME WorkerInv, QueueInv', Stop
  PROVE  WorkerInv'
<1> USE DEF WorkerInv
<1>1. /\ \A m \in Loops : loop'[m] = loop[m] \/ (loop[m] = "sleeping" /\ loop'[m] = "ended")
      /\ loop' \in [Loops -> {"ended", "popping", "sleeping"}]
      /\ running' = FALSE /\ pollTimer' = 0 /\ stopping' = "waiting"
      /\ UNCHANGED <<activeJobs, popped, phase, starts, faults>> /\ deliveries' = deliveries
  BY DEF Stop, WorkerTypeOK, qvars, history
<1>2. WorkerTypeOK' /\ NeverDeaf'
  BY <1>1 DEF WorkerTypeOK, NeverDeaf
<1>3. HandedOut' /\ AnsweredOnce' /\ UnstartedLoops'
  BY <1>1 DEF HandedOut, AnsweredOnce, UnstartedLoops
<1>4. Popping' = Popping
  BY <1>1 DEF Popping
<1>5. SlotsAccounted' /\ PlacesBound'
  BY <1>1, <1>4, BusyStill DEF SlotsAccounted, PlacesBound
<1> QED BY <1>2, <1>3, <1>5

\* The queue moving on its own, or stop() returning, disturbs nothing.
LEMMA QuietInv ==
  ASSUME WorkerInv, QueueInv', [Next]_qvars,
         UNCHANGED <<running, pollTimer, activeJobs, loop, popped, phase, starts, faults>>,
         stopping' \in {"none", "waiting", "drained", "abandoned"}
  PROVE  WorkerInv'
<1> USE DEF WorkerInv
<1>1. deliveries \subseteq deliveries'
  BY DeliveriesGrow DEF QueueInv
<1>2. WorkerTypeOK' /\ NeverDeaf' /\ HandedOut' /\ AnsweredOnce' /\ UnstartedLoops'
  BY <1>1 DEF WorkerTypeOK, NeverDeaf, HandedOut, AnsweredOnce, UnstartedLoops
<1>3. Popping' = Popping
  BY DEF Popping
<1>4. SlotsAccounted' /\ PlacesBound'
  BY <1>3, BusyStill DEF SlotsAccounted, PlacesBound
<1> QED BY <1>2, <1>4

\* The worker starts with nothing handed out and nothing busy.
LEMMA WorkerStarts == WorkerInit => WorkerInv
<1> SUFFICES ASSUME WorkerInit PROVE WorkerInv
  OBVIOUS
<1> USE WorkerAssumption, QueueAssumption
<1>1. QueueInv
  BY InvInit DEF WorkerInit
<1>2. WorkerTypeOK
  <2>1. 0 \in 0..(MaxLeases + 1) /\ 0 \in 0..MaxStarts /\ 0 \in 0..MaxFaults
    OBVIOUS
  <2>2. /\ loop \in [Loops -> {"ended", "popping", "sleeping"}]
        /\ phase \in [Leases -> {"none", "handling", "failed", "settling", "done"}]
    BY DEF WorkerInit
  <2>3. popped \in [Loops -> 0..(MaxLeases + 1)]
    BY <2>1 DEF WorkerInit, Nothing
  <2> QED BY <2>1, <2>2, <2>3 DEF WorkerInit, WorkerTypeOK
<1>3. HandedOut /\ AnsweredOnce /\ UnstartedLoops /\ NeverDeaf
  BY DEF WorkerInit, HandedOut, AnsweredOnce, UnstartedLoops, NeverDeaf, Nothing, Leases
<1>4. Busy = {} /\ Popping = {}
  BY DEF WorkerInit, Busy, Processing, Popping
<1>5. SlotsAccounted /\ PlacesBound
  BY <1>4, FS_EmptySet DEF WorkerInit, SlotsAccounted, PlacesBound
<1> QED BY <1>1, <1>2, <1>3, <1>5 DEF WorkerInv

\* Every step of the worker preserves its inductive invariant.
LEMMA WorkerInductive == WorkerInv /\ [WorkerNext]_allvars => WorkerInv'
<1> SUFFICES ASSUME WorkerInv, [WorkerNext]_allvars PROVE WorkerInv'
  OBVIOUS
<1>0. [Next]_qvars /\ QueueInv'
  BY QueueStep, InvInductive DEF WorkerInv
<1>1. CASE Start
  BY <1>0, <1>1, StartInv
<1>2. CASE Stop
  BY <1>0, <1>2, StopInv
<1>3. CASE StopReturns
  <2>1. /\ UNCHANGED <<running, pollTimer, activeJobs, loop, popped, phase, starts, faults>>
        /\ stopping' \in {"none", "waiting", "drained", "abandoned"}
    BY <1>3 DEF StopReturns
  <2> QED BY <1>0, <2>1, QuietInv
<1>4. ASSUME NEW l \in Loops, TimerFires(l) PROVE WorkerInv'
  BY <1>0, <1>4, TimerInv
<1>5. ASSUME NEW l \in Loops, PopAnswers(l) PROVE WorkerInv'
  BY <1>0, <1>5, AnswerInv
<1>6. ASSUME NEW k \in Leases, Finish(k) PROVE WorkerInv'
  BY <1>0, <1>6, FinishInv
<1>7. ASSUME NEW k \in Leases,
             HandlerResolves(k) \/ HandlerFails(k) \/ RetryLater(k) \/ FailPermanently(k)
      PROVE  WorkerInv'
  <2>1. PICK at \in {"failed", "settling"} :
          /\ Processing(k) /\ phase' = [phase EXCEPT ![k] = at]
          /\ UNCHANGED <<running, pollTimer, activeJobs, loop, popped, stopping, starts>>
          /\ faults' = faults \/ Reject
    BY <1>7 DEF HandlerResolves, HandlerFails, RetryLater, FailPermanently, Settle, Processing
  <2>2. faults' \in 0..MaxFaults
    BY <2>1, WorkerAssumption DEF Reject, WorkerInv, WorkerTypeOK
  <2> QED BY <1>0, <2>1, <2>2, ProcessInv
<1>8. CASE UNCHANGED wvars
  <2>1. /\ UNCHANGED <<running, pollTimer, activeJobs, loop, popped, phase, starts, faults>>
        /\ stopping' \in {"none", "waiting", "drained", "abandoned"}
    BY <1>8 DEF wvars, WorkerInv, WorkerTypeOK
  <2> QED BY <1>0, <2>1, QuietInv
<1>9. ASSUME NEW k \in Leases, Heartbeat(k) PROVE UNCHANGED wvars
  BY <1>9 DEF Heartbeat
<1>10. ASSUME NEW j \in Jobs, Enqueue(j) PROVE UNCHANGED wvars
  BY <1>10 DEF Enqueue
<1>11. Tick => UNCHANGED wvars
  BY DEF Tick
<1>12. UNCHANGED allvars => UNCHANGED wvars
  BY DEF allvars
<1> QED
  BY <1>1, <1>2, <1>3, <1>4, <1>5, <1>6, <1>7, <1>8, <1>9, <1>10, <1>11, <1>12
  DEF WorkerNext

\* The inductive invariant holds of every worker.
LEMMA WorkerInvAlways == WorkerSpec => []WorkerInv
BY WorkerStarts, WorkerInductive, PTL DEF WorkerSpec

\* The variables of processMessage and of the poll loop (task.ts 161-318) keep
\* their types.
THEOREM WorkerTypeCorrect == WorkerSpec => []WorkerTypeOK
BY WorkerInvAlways, PTL DEF WorkerInv

\* No path through processMessage (task.ts 270-318) leaks a slot or frees one
\* twice, for any number of jobs, slots, starts and rejected calls.
THEOREM SlotsNeverLeak == WorkerSpec => []SlotsAccounted
BY WorkerInvAlways, PTL DEF WorkerInv

\* The concurrency limit (the while of task.ts 245) is exceeded by at most one job
\* for each restart of the same worker.
THEOREM LimitKept == WorkerSpec => []ConcurrencyBound
<1>1. WorkerInv => ConcurrencyBound
  <2> SUFFICES ASSUME WorkerInv PROVE ConcurrencyBound
    OBVIOUS
  <2>1. Cardinality(Popping) \in Nat /\ activeJobs \in Nat /\ starts \in Nat
    BY PoppingCounts DEF WorkerInv, WorkerTypeOK
  <2> QED BY <2>1, WorkerAssumption DEF WorkerInv, PlacesBound, ConcurrencyBound
<1> QED BY <1>1, WorkerInvAlways, PTL

\* A running worker always has a poll loop that will go on (task.ts 253-264).
THEOREM PollingGoesOn == WorkerSpec => []NeverDeaf
BY WorkerInvAlways, PTL DEF WorkerInv

\* A worker uses the queue only in ways MemoryQueue allows, so what is proved of
\* the queue (no job lost, one copy, one budget) holds under this worker.
THEOREM WorkerIsACaller == WorkerSpec => KeepsQueueDiscipline
<1>1. WorkerInit => Init
  BY DEF WorkerInit
<1>2. WorkerInv /\ [WorkerNext]_allvars => [Next]_qvars
  BY QueueStep DEF WorkerInv
<1> QED BY <1>1, <1>2, WorkerInvAlways, PTL DEF WorkerSpec, Spec, KeepsQueueDiscipline

\* A step of a poll loop that finds the worker stopped takes no lease.
LEMMA StoppedLoop ==
  ASSUME WorkerInv, NEW l \in Loops, TimerFires(l) \/ PopAnswers(l), ~running
  PROVE  leases' = leases
<1> USE DEF WorkerInv
<1>1. CASE TimerFires(l)
  BY <1>1 DEF TimerFires, qvars, history
<1>2. CASE PopAnswers(l)
  <2>1. EndTick(l, running)
    BY <1>2 DEF PopAnswers, Iterate
  <2> QED BY <2>1 DEF EndTick, qvars, history
<1> QED BY <1>1, <1>2

\* A settling call, an extension, a push and the passing of time make no lease.
LEMMA SettlingTakesNothing ==
  ASSUME \/ \E k \in Leases : \/ HandlerResolves(k) \/ HandlerFails(k) \/ RetryLater(k)
                              \/ FailPermanently(k) \/ Finish(k) \/ Heartbeat(k)
         \/ \E j \in Jobs : Enqueue(j)
         \/ Tick \/ Stop \/ StopReturns
  PROVE  leases' = leases
<1>1. /\ \A d : Ack(d) \/ Nack(d, FALSE) \/ DeadLetter(d) \/ Extend(d) => leases' = leases
      /\ \A j : Lapse(j) \/ Push(j, TRUE) => leases' = leases
      /\ \A i : Ripen(i) => leases' = leases
  BY DEF Ack, Nack, DeadLetter, Extend, Lapse, Push, Ripen
<1>2. UNCHANGED qvars => leases' = leases
  BY DEF qvars, history
<1> QED
  BY <1>1, <1>2 DEF HandlerResolves, HandlerFails, RetryLater, FailPermanently, Finish,
     Heartbeat, Settle, Reject, Enqueue, Tick, Stop, StopReturns

\* A stopped worker (running read at task.ts 245 and 261) takes no message.
THEOREM StoppedWorkerTakesNothing == WorkerSpec => StoppedTakesNothing
<1>1. ASSUME WorkerInv, [WorkerNext]_allvars, ~running, ~running' PROVE leases' = leases
  <2>1. ASSUME NEW l \in Loops, TimerFires(l) \/ PopAnswers(l) PROVE leases' = leases
    BY <1>1, <2>1, StoppedLoop
  <2>2. CASE UNCHANGED allvars
    BY <2>2 DEF allvars, qvars, history
  <2>3. ~Start
    BY <1>1 DEF Start
  <2> QED BY <1>1, <2>1, <2>2, <2>3, SettlingTakesNothing DEF WorkerNext
<1>2. WorkerInv /\ [WorkerNext]_allvars => [~running /\ ~running' => UNCHANGED leases]_allvars
  BY <1>1
<1> QED BY <1>2, WorkerInvAlways, PTL DEF WorkerSpec, StoppedTakesNothing

-----------------------------------------------------------------------------
(* Executions of one job exclude each other *)

\* Who holds job j after a call of the queue: whoever held it, nobody, or the
\* delivery just made.
HolderMoves(j) ==
  \/ inFlight'[j].lease = inFlight[j].lease
  \/ inFlight'[j].lease = 0
  \/ leases' = leases + 1 /\ inFlight'[j].lease = leases + 1

\* pop() moves the one live copy of a job: a lapsed lease goes back to the list,
\* and the message delivered leaves it.
LEMMA PopLive ==
  ASSUME QueueInv, OneLive, NewestHolds, Pop
  PROVE  /\ OneLive' /\ NewestHolds'
         /\ \A j \in Jobs : HolderMoves(j)
         /\ leases' \in Nat /\ (leases' = leases \/ (leases < MaxLeases /\ leases' = leases + 1))
<1> USE DEF QueueInv
<1>1. PICK retried \in SetToSeqs(Expired \ Exhausted), buried \in SetToSeqs(Exhausted) :
        LET queue == Requeue(retried)
        IN /\ Bury(dead \o buried)
           /\ \/ /\ leases < MaxLeases
                 /\ \E i \in DOMAIN queue : FirstReady(queue, i) /\ Deliver(queue, i)
              \/ (\A i \in DOMAIN queue : ~queue[i].ready) /\ DeliverNothing(queue)
  BY DEF Pop
<1>2. over' = over \cup {inFlight[j].lease : j \in Expired}
  BY DEF Pop
<1> DEFINE queue == Requeue(retried)
           ids == Ids(queue)
<1>3. /\ retried \in Seq(Jobs) /\ Range(retried) = Expired \ Exhausted
      /\ \A j \in Jobs : Once(retried, j)
  BY SetToSeqsFacts DEF Expired, Exhausted, Once
<1>4. Ids(messages) \in Seq(Jobs)
  BY IdsType DEF TypeOK
<1>5. /\ queue \in Seq(Message) /\ ids \in Seq(Jobs)
      /\ Range(ids) = Range(Ids(messages)) \cup (Expired \ Exhausted)
      /\ \A j \in Jobs : Once(ids, j)
  <2>1. queue \in Seq(Message)
    BY RequeueFacts
  <2>2. ids = Ids(messages) \o retried /\ ids \in Seq(Jobs)
    BY <2>1, IdsRequeue, IdsType
  <2>3. Range(ids) = Range(Ids(messages)) \cup Range(retried)
    BY <1>3, <1>4, <2>2, ConcatIds
  <2>4. ASSUME NEW j \in Jobs PROVE Once(ids, j)
    <3>1. Once(Ids(messages), j) /\ ~(j \in Range(Ids(messages)) /\ j \in Range(retried))
      BY <1>3 DEF OneLive, Waiting, Expired
    <3> QED BY <1>3, <1>4, <2>2, <3>1, ConcatIds
  <2> QED BY <1>3, <2>1, <2>2, <2>3, <2>4
<1>6. \A j \in Jobs : Unexpired[j] = IF j \in Expired THEN NoEntry ELSE inFlight[j]
  BY DEF Unexpired
<1>7. leases \in Nat /\ \A d \in deliveries : d.id \in Jobs /\ d.lease \in 1..leases
  BY DEF TypeOK, LeasesFresh, Delivery
<1>8. Expired \subseteq Jobs /\ \A j \in Expired : Leased(j)
  BY DEF Expired
<1> HIDE DEF queue
<1>9. CASE DeliverNothing(queue)
  <2>1. /\ Ids(messages') = ids /\ inFlight' = Unexpired
        /\ leases' = leases /\ deliveries' = deliveries
    BY <1>9 DEF DeliverNothing
  <2> HIDE DEF ids
  <2>2. \A j \in Jobs : inFlight'[j].lease = IF j \in Expired THEN 0 ELSE inFlight[j].lease
    BY <1>6, <2>1 DEF NoEntry
  <2>3. OneLive'
    BY <1>5, <2>1, <2>2 DEF OneLive, Waiting, Leased
  <2>4. NewestHolds'
    BY <1>2, <1>7, <2>1, <2>2 DEF NewestHolds, Holds, Leased
  <2>5. \A j \in Jobs : HolderMoves(j)
    BY <2>2 DEF HolderMoves
  <2> QED BY <1>7, <2>1, <2>3, <2>4, <2>5
<1>10. ASSUME NEW i \in DOMAIN queue, Deliver(queue, i), leases < MaxLeases
       PROVE  /\ OneLive' /\ NewestHolds'
              /\ \A j \in Jobs : HolderMoves(j)
              /\ leases' \in Nat /\ leases < MaxLeases /\ leases' = leases + 1
  <2>1. i \in 1..Len(queue) /\ messages' = RemoveAt(queue, i)
    BY <1>5, <1>10 DEF Deliver
  <2>2. /\ Ids(messages') = RemoveAt(ids, i)
        /\ ids[i] = queue[i].id
        /\ i \in 1..Len(ids) /\ queue[i] \in Message
    BY <1>5, <2>1, IdsRemove
  <2> DEFINE h == queue[i].id
             new == [id |-> h, attempt |-> queue[i].attempt, lease |-> leases + 1]
  <2>3. h \in Jobs
    BY <2>2 DEF Message
  <2>4. /\ leases' = leases + 1 /\ deliveries' = deliveries \cup {new}
        /\ inFlight' = [Unexpired EXCEPT ![h] =
             [attempt |-> queue[i].attempt, lease |-> leases + 1, lapsed |-> FALSE]]
    BY <1>10 DEF Deliver
  <2>5. \A j \in Jobs : inFlight'[j].lease =
          IF j = h THEN leases + 1 ELSE IF j \in Expired THEN 0 ELSE inFlight[j].lease
    BY <1>6, <2>3, <2>4 DEF NoEntry, Unexpired
  <2>6. new.id = h /\ new.lease = leases + 1
    OBVIOUS
  <2> HIDE DEF ids, h, new
  <2>7. /\ Range(ids) = Range(Ids(messages')) \cup {h}
        /\ \A j \in Jobs : Once(Ids(messages'), j)
        /\ h \notin Range(Ids(messages'))
    BY <1>5, <2>2, <2>3, RemoveIds DEF h
  <2>8. h \in Range(Ids(messages)) \/ h \in Expired
    BY <1>5, <2>7
  <2>9. Leased(h) => h \in Expired
    BY <2>3, <2>8 DEF OneLive, Waiting
  <2>10. OneLive'
    <3> SUFFICES ASSUME NEW j \in Jobs, j \in Range(Ids(messages'))
                 PROVE  inFlight'[j].lease = 0
      BY <2>7 DEF OneLive, Waiting, Leased
    <3>1. j # h /\ (j \in Range(Ids(messages)) \/ j \in Expired)
      BY <1>5, <2>7
    <3>2. j \in Expired \/ inFlight[j].lease = 0
      BY <3>1 DEF OneLive, Waiting, Leased
    <3> QED BY <2>5, <3>1, <3>2
  <2>11. NewestHolds'
    <3> SUFFICES ASSUME NEW d \in deliveries'
                 PROVE  /\ d.lease \in over' \/ inFlight'[d.id].lease = d.lease
                        /\ inFlight'[d.id].lease # 0 => d.lease <= inFlight'[d.id].lease
      BY DEF NewestHolds, Holds, Leased
    <3>1. CASE d = new
      BY <1>7, <2>3, <2>5, <2>6, <3>1
    <3>2. CASE d \in deliveries
      <4>1. /\ d.id \in Jobs /\ d.lease \in Nat /\ d.lease # 0 /\ d.lease <= leases
            /\ d.lease \in over \/ inFlight[d.id].lease = d.lease
            /\ inFlight[d.id].lease # 0 => d.lease <= inFlight[d.id].lease
        BY <1>7, <3>2 DEF NewestHolds, Holds, Leased
      <4>2. CASE d.id \in Expired
        BY <1>2, <1>7, <2>5, <4>1, <4>2
      <4>3. CASE d.id \notin Expired /\ d.id = h
        BY <1>2, <1>7, <2>5, <2>9, <4>1, <4>3 DEF Leased
      <4>4. CASE d.id \notin Expired /\ d.id # h
        BY <1>2, <2>5, <4>1, <4>4
      <4> QED BY <4>2, <4>3, <4>4
    <3> QED BY <2>4, <3>1, <3>2
  <2>12. \A j \in Jobs : HolderMoves(j)
    BY <2>4, <2>5 DEF HolderMoves
  <2> QED BY <1>7, <1>10, <2>4, <2>10, <2>11, <2>12
<1> QED BY <1>1, <1>9, <1>10 DEF queue

\* A call that ends the lease of d gives the job back at most as one message.
LEMMA ReleaseLive ==
  ASSUME QueueInv, OneLive, NewestHolds, NEW d \in deliveries, Holds(d),
         inFlight' = [inFlight EXCEPT ![d.id] = NoEntry],
         over' = over \cup {d.lease}, leases' = leases, deliveries' = deliveries,
         \/ messages' = messages
         \/ \E m \in Message : m.id = d.id /\ messages' = Append(messages, m)
  PROVE  /\ OneLive' /\ NewestHolds' /\ \A j \in Jobs : HolderMoves(j)
         /\ \A j \in Jobs : inFlight'[j].lease # d.lease
<1> USE DEF QueueInv
<1>1. d.id \in Jobs /\ Leased(d.id) /\ d.lease # 0
  BY DeliveryFacts
<1>2. \A j \in Jobs : inFlight'[j].lease = IF j = d.id THEN 0 ELSE inFlight[j].lease
  BY <1>1 DEF NoEntry, TypeOK
<1>3. Ids(messages) \in Seq(Jobs) /\ messages \in Seq(Message)
  BY IdsType DEF TypeOK
<1>4. /\ \A j \in Jobs : Once(Ids(messages'), j)
      /\ Range(Ids(messages')) \subseteq Range(Ids(messages)) \cup {d.id}
  <2>1. CASE messages' = messages
    BY <2>1 DEF OneLive
  <2>2. ASSUME NEW m \in Message, m.id = d.id, messages' = Append(messages, m)
        PROVE  /\ \A j \in Jobs : Once(Ids(messages'), j)
               /\ Range(Ids(messages')) \subseteq Range(Ids(messages)) \cup {d.id}
    <3>1. Ids(messages') = Append(Ids(messages), d.id)
      BY <1>3, <2>2, IdsAppend
    <3>2. d.id \notin Range(Ids(messages))
      BY <1>1 DEF OneLive, Waiting
    <3> QED BY <1>1, <1>3, <3>1, <3>2, AppendIds DEF OneLive
  <2> QED BY <2>1, <2>2
<1>5. OneLive'
  BY <1>2, <1>4 DEF OneLive, Waiting, Leased
<1>6. NewestHolds'
  <2> SUFFICES ASSUME NEW e \in deliveries
               PROVE  /\ e.lease \in over' \/ inFlight'[e.id].lease = e.lease
                      /\ inFlight'[e.id].lease # 0 => e.lease <= inFlight'[e.id].lease
    BY DEF NewestHolds, Holds, Leased
  <2>1. e.id \in Jobs
    BY DeliveryFacts
  <2> QED BY <1>2, <2>1 DEF NewestHolds, Holds, Leased
<1>7. ASSUME NEW j \in Jobs PROVE HolderMoves(j) /\ inFlight'[j].lease # d.lease
  <2>1. HolderMoves(j)
    BY <1>2 DEF HolderMoves
  <2>2. CASE j = d.id
    BY <1>1, <1>2, <2>1, <2>2
  <2>3. CASE j # d.id /\ Leased(j)
    <3> DEFINE e == [id |-> j, attempt |-> inFlight[j].attempt, lease |-> inFlight[j].lease]
    <3>1. e \in deliveries /\ e.id = j /\ e.lease = inFlight[j].lease
      BY <2>3 DEF LeasesFresh
    <3> HIDE DEF e
    <3>2. e.lease # d.lease
      BY <2>3, <3>1 DEF LeasesFresh
    <3> QED BY <1>2, <2>1, <2>3, <3>1, <3>2
  <2>4. CASE j # d.id /\ ~Leased(j)
    BY <1>1, <1>2, <2>1, <2>4 DEF Leased
  <2> QED BY <2>2, <2>3, <2>4
<1> QED BY <1>5, <1>6, <1>7

\* A call that keeps every lease and every waiting job keeps both.
LEMMA StillLive ==
  ASSUME OneLive, NewestHolds, Ids(messages') = Ids(messages),
         \A j \in Jobs : inFlight'[j].lease = inFlight[j].lease,
         \A d \in deliveries : d.id \in Jobs,
         UNCHANGED <<leases, deliveries, over>>
  PROVE  OneLive' /\ NewestHolds' /\ \A j \in Jobs : HolderMoves(j)
<1>1. OneLive'
  BY DEF OneLive, Waiting, Leased
<1>2. NewestHolds'
  BY DEF NewestHolds, Holds, Leased
<1> QED BY <1>1, <1>2 DEF HolderMoves

\* Ripening a message changes no id.
LEMMA RipenIds ==
  ASSUME TypeOK, NEW i \in DOMAIN messages, Ripen(i)
  PROVE  Ids(messages') = Ids(messages)
<1>1. /\ messages' = [messages EXCEPT ![i].ready = TRUE]
      /\ \A k \in DOMAIN messages : messages[k] \in Message
  BY DEF Ripen, TypeOK
<1>2. DOMAIN messages' = DOMAIN messages
  BY <1>1
<1>3. \A k \in DOMAIN messages : messages'[k].id = messages[k].id
  BY <1>1 DEF Message
<1> QED BY <1>2, <1>3 DEF Ids

\* Every call of the worker keeps the live copies single and the newest holder.
LEMMA LiveStep ==
  ASSUME QueueInv, OneLive, NewestHolds, [Call]_qvars
  PROVE  /\ OneLive' /\ NewestHolds'
         /\ \A j \in Jobs : HolderMoves(j)
         /\ leases' \in Nat
         /\ leases' = leases \/ (leases < MaxLeases /\ leases' = leases + 1)
<1> USE DEF QueueInv
<1>0. leases \in Nat /\ (\A d \in deliveries : d.id \in Jobs) /\ inFlight \in [Jobs -> Entry]
  BY DEF TypeOK, Delivery
<1>1. CASE Pop
  BY <1>1, PopLive
<1>2. ASSUME NEW d \in deliveries, Ack(d) \/ Nack(d, FALSE) \/ (DeadLetter(d) /\ Holds(d))
      PROVE  /\ OneLive' /\ NewestHolds' /\ \A j \in Jobs : HolderMoves(j)
             /\ leases' = leases
  <2>1. /\ Holds(d) /\ inFlight' = [inFlight EXCEPT ![d.id] = NoEntry]
        /\ over' = over \cup {d.lease} /\ leases' = leases /\ deliveries' = deliveries
    BY <1>2 DEF Ack, Nack, DeadLetter
  <2>2. \/ messages' = messages
        \/ \E m \in Message : m.id = d.id /\ messages' = Append(messages, m)
    <3>1. CASE Ack(d) \/ DeadLetter(d)
      BY <3>1 DEF Ack, DeadLetter
    <3>2. CASE Nack(d, FALSE)
      <4> DEFINE m == [id |-> d.id, attempt |-> inFlight[d.id].attempt + 1, ready |-> FALSE]
      <4>1. m \in Message /\ m.id = d.id
        BY <1>0 DEF Message, Entry
      <4>2. messages' = Append(messages, m)
        BY <3>2 DEF Nack
      <4> QED BY <4>1, <4>2
    <3> QED BY <1>2, <3>1, <3>2
  <2> QED BY <2>1, <2>2, ReleaseLive
<1>3. ASSUME NEW d \in deliveries, DeadLetter(d), ~Holds(d)
      PROVE  /\ OneLive' /\ NewestHolds' /\ \A j \in Jobs : HolderMoves(j)
             /\ leases' = leases
  BY <1>0, <1>3, StillLive DEF DeadLetter
<1>4. ASSUME NEW j \in Jobs, NEW lapsed \in BOOLEAN,
             inFlight' = [inFlight EXCEPT ![j].lapsed = lapsed],
             UNCHANGED <<messages, leases, deliveries, over>>
      PROVE  /\ OneLive' /\ NewestHolds' /\ \A k \in Jobs : HolderMoves(k)
             /\ leases' = leases
  <2>1. \A k \in Jobs : inFlight'[k].lease = inFlight[k].lease
    BY <1>0, <1>4 DEF Entry
  <2> QED BY <1>0, <1>4, <2>1, StillLive
<1>5. ASSUME NEW j \in Jobs, Lapse(j)
      PROVE  /\ OneLive' /\ NewestHolds' /\ \A k \in Jobs : HolderMoves(k)
             /\ leases' = leases
  BY <1>4, <1>5 DEF Lapse, history
<1>6. ASSUME NEW d \in deliveries, Extend(d)
      PROVE  /\ OneLive' /\ NewestHolds' /\ \A k \in Jobs : HolderMoves(k)
             /\ leases' = leases
  BY <1>0, <1>4, <1>6 DEF Extend, history
<1>7. ASSUME NEW i \in DOMAIN messages, Ripen(i)
      PROVE  /\ OneLive' /\ NewestHolds' /\ \A k \in Jobs : HolderMoves(k)
             /\ leases' = leases
  BY <1>0, <1>7, RipenIds, StillLive DEF Ripen, history
<1>8. ASSUME NEW i \in Jobs, Push(i, TRUE)
      PROVE  /\ OneLive' /\ NewestHolds' /\ \A k \in Jobs : HolderMoves(k)
             /\ leases' = leases
  <2> DEFINE m == [id |-> i, attempt |-> 0, ready |-> TRUE]
  <2>1. m \in Message /\ m.id = i /\ messages \in Seq(Message)
    BY DEF Message, TypeOK
  <2>2. /\ messages' = Append(messages, m) /\ i \notin submitted
        /\ UNCHANGED <<inFlight, leases, deliveries, over>>
    BY <1>8 DEF Push
  <2> HIDE DEF m
  <2>3. Ids(messages) \in Seq(Jobs) /\ Ids(messages') = Append(Ids(messages), i)
    BY <2>1, <2>2, IdsAppend, IdsType
  <2>4. ~Waiting(i) /\ ~Leased(i)
    BY <2>2 DEF OnlySubmitted
  <2>5. /\ Range(Ids(messages')) = Range(Ids(messages)) \cup {i}
        /\ \A k \in Jobs : Once(Ids(messages'), k)
    BY <2>3, <2>4, AppendIds DEF OneLive, Waiting
  <2>6. OneLive'
    BY <2>2, <2>4, <2>5 DEF OneLive, Waiting, Leased
  <2>7. NewestHolds'
    BY <2>2 DEF NewestHolds, Holds, Leased
  <2> QED BY <2>2, <2>6, <2>7 DEF HolderMoves
<1>9. CASE UNCHANGED qvars
  BY <1>0, <1>9, StillLive DEF qvars, history
<1> QED BY <1>0, <1>1, <1>2, <1>3, <1>5, <1>6, <1>7, <1>8, <1>9 DEF Call

\* The lease that a job is held under is one of the leases, and names its delivery.
LEMMA LeaseOf ==
  ASSUME QueueInv, leases <= MaxLeases, NEW j \in Jobs, Leased(j)
  PROVE  /\ inFlight[j].lease \in Leases /\ inFlight[j].lease <= leases
         /\ \A d \in deliveries : d.lease = inFlight[j].lease => d.id = j /\ Holds(d)
<1> DEFINE e == [id |-> j, attempt |-> inFlight[j].attempt, lease |-> inFlight[j].lease]
<1>1. e \in deliveries /\ e.id = j /\ e.lease = inFlight[j].lease
  BY DEF QueueInv, LeasesFresh
<1> HIDE DEF e
<1>2. e.lease \in 1..leases /\ leases \in Nat /\ \A d \in deliveries : d.lease = e.lease => d = e
  BY <1>1 DEF QueueInv, LeasesFresh, TypeOK
<1>3. e.lease \in 1..MaxLeases /\ e.lease <= leases
  BY <1>2, QueueAssumption
<1> QED BY <1>1, <1>2, <1>3 DEF Leases, Holds

\* At most as many stranded leases after a step that strands none.
LEMMA StrandedShrinks ==
  ASSUME StrandedPaid, WorkerTypeOK, faults' \in Nat, faults <= faults', Stranded' \subseteq Stranded
  PROVE  StrandedPaid'
<1>1. IsFiniteSet(Jobs) /\ Stranded \subseteq Jobs /\ faults \in Nat
  BY QueueAssumption, WorkerAssumption DEF Stranded, WorkerTypeOK
<1>2. IsFiniteSet(Stranded) /\ Cardinality(Stranded) \in Nat
  BY <1>1, FS_Subset, FS_CardinalityType
<1>3. Cardinality(Stranded') <= Cardinality(Stranded) /\ Cardinality(Stranded') \in Nat
  BY <1>2, FS_Subset, FS_CardinalityType
<1> QED BY <1>1, <1>2, <1>3 DEF StrandedPaid

\* A rejected call strands one lease more, and is one fault more.
LEMMA StrandedGrows ==
  ASSUME StrandedPaid, WorkerTypeOK, faults' = faults + 1,
         NEW j \in Jobs, Stranded' \subseteq Stranded \cup {j}
  PROVE  StrandedPaid'
<1>1. IsFiniteSet(Jobs) /\ Stranded \subseteq Jobs /\ faults \in Nat
  BY QueueAssumption, WorkerAssumption DEF Stranded, WorkerTypeOK
<1>2. IsFiniteSet(Stranded) /\ Cardinality(Stranded) \in Nat
  BY <1>1, FS_Subset, FS_CardinalityType
<1>3. /\ IsFiniteSet(Stranded \cup {j})
      /\ Cardinality(Stranded \cup {j}) <= Cardinality(Stranded) + 1
      /\ Cardinality(Stranded \cup {j}) \in Nat
  <2>1. CASE j \in Stranded
    <3>1. Stranded \cup {j} = Stranded
      BY <2>1
    <3> QED BY <1>2, <3>1
  <2>2. CASE j \notin Stranded
    <3>1. /\ IsFiniteSet(Stranded \cup {j})
          /\ Cardinality(Stranded \cup {j}) = Cardinality(Stranded) + 1
      BY <1>2, <2>2, FS_AddElement
    <3> QED BY <1>2, <3>1
  <2> QED BY <2>1, <2>2
<1>4. /\ Cardinality(Stranded') <= Cardinality(Stranded \cup {j})
      /\ Cardinality(Stranded') \in Nat
  BY <1>3, FS_Subset, FS_CardinalityType
<1> QED BY <1>1, <1>2, <1>3, <1>4 DEF StrandedPaid

\* A step of poll loop l takes what pop() handed out, and strands nothing.
LEMMA LoopHolds ==
  ASSUME QueueInv, WorkerTypeOK, HandedOut, LeaseTaken, StrandedPaid,
         NEW l \in Loops, NEW active, NEW up, Moved(l, active, up),
         \A j \in Jobs : HolderMoves(j),
         leases' = leases \/ (leases < MaxLeases /\ leases' = leases + 1),
         faults' \in Nat, faults <= faults',
         \/ popped[l] \notin Leases /\ phase' = phase
         \/ popped[l] \in Leases /\ phase' = [phase EXCEPT ![popped[l]] = "handling"]
  PROVE  LeaseTaken' /\ StrandedPaid'
<1>1. PICK at \in {"ended", "popping", "sleeping"}, ans \in 0..(MaxLeases + 1) :
        /\ popped' = [popped EXCEPT ![l] = ans]
        /\ \/ ans \notin Leases /\ leases' = leases
           \/ ans = leases + 1 /\ leases' = leases + 1
  BY DEF Moved
<1>2. /\ leases \in Nat /\ leases <= MaxLeases /\ MaxLeases \in Nat
      /\ leases' \in Nat /\ leases' <= MaxLeases
  BY QueueAssumption, TokenFacts DEF LeaseTaken
<1>3. /\ leases + 1 \notin Leases \/ phase[leases + 1] = "none"
      /\ leases + 1 \notin Leases \/ popped[l] # leases + 1
  BY TokenFacts
<1>4. \A k \in Leases : /\ phase[k] # "none" => phase'[k] # "none"
                        /\ phase'[k] \in {"settling", "done"} => phase[k] = phase'[k]
                        /\ k = popped[l] => phase'[k] # "none"
  BY DEF WorkerTypeOK
<1>5. ASSUME NEW j \in Jobs, Leased(j)'
      PROVE  /\ \/ phase'[inFlight'[j].lease] # "none"
                \/ \E m \in Loops : popped'[m] = inFlight'[j].lease
             /\ phase'[inFlight'[j].lease] \in {"settling", "done"} => j \in Stranded
  <2>1. inFlight'[j].lease # 0 /\ HolderMoves(j)
    BY <1>5 DEF Leased
  <2>2. CASE inFlight'[j].lease = inFlight[j].lease
    <3>1. Leased(j)
      BY <2>1, <2>2 DEF Leased
    <3>2. PICK k \in Leases : k = inFlight[j].lease /\ k <= leases
      BY <1>2, <3>1, LeaseOf
    <3>3. phase'[k] \in {"settling", "done"} => j \in Stranded
      BY <1>4, <3>1, <3>2 DEF Stranded
    <3>4. phase'[k] # "none" \/ \E m \in Loops : popped'[m] = k
      <4>1. CASE phase[k] # "none"
        BY <1>4, <4>1
      <4>2. ASSUME NEW m \in Loops, popped[m] = k
            PROVE  phase'[k] # "none" \/ \E n \in Loops : popped'[n] = k
        <5>1. CASE m = l
          BY <1>4, <4>2, <5>1
        <5>2. CASE m # l
          BY <1>1, <4>2, <5>2 DEF WorkerTypeOK
        <5> QED BY <5>1, <5>2
      <4> QED BY <3>1, <3>2, <4>1, <4>2 DEF LeaseTaken
    <3> QED BY <2>2, <3>2, <3>3, <3>4
  <2>3. CASE leases' = leases + 1 /\ inFlight'[j].lease = leases + 1
    <3>1. popped'[l] = leases + 1
      BY <1>1, <1>2, <2>3 DEF WorkerTypeOK
    <3>2. leases + 1 \in Leases
      BY <1>2, <2>3 DEF Leases
    <3>3. phase'[leases + 1] = "none"
      BY <1>3, <3>2 DEF WorkerTypeOK
    <3> QED BY <2>3, <3>1, <3>3
  <2> QED BY <2>1, <2>2, <2>3 DEF HolderMoves
<1>6. Stranded' \subseteq Stranded
  BY <1>5 DEF Stranded
<1>7. LeaseTaken'
  BY <1>2, <1>5 DEF LeaseTaken
<1> QED BY <1>6, <1>7, StrandedShrinks

\* A step that hands nothing out, and settles no delivery that keeps its lease,
\* strands nothing.
LEMMA SettledHolds ==
  ASSUME QueueInv, WorkerTypeOK, LeaseTaken, StrandedPaid,
         \A j \in Jobs : HolderMoves(j), leases' = leases, leases \in Nat,
         popped' = popped, faults' \in Nat, faults <= faults',
         \A k \in Leases : phase[k] # "none" => phase'[k] # "none",
         \A k \in Leases : phase'[k] \in {"settling", "done"} =>
           \/ phase[k] \in {"settling", "done"}
           \/ \A j \in Jobs : inFlight'[j].lease # k
  PROVE  LeaseTaken' /\ StrandedPaid'
<1>1. ASSUME NEW j \in Jobs, Leased(j)'
      PROVE  /\ \/ phase'[inFlight'[j].lease] # "none"
                \/ \E m \in Loops : popped'[m] = inFlight'[j].lease
             /\ phase'[inFlight'[j].lease] \in {"settling", "done"} => j \in Stranded
  <2>1. inFlight'[j].lease = inFlight[j].lease /\ Leased(j)
    BY <1>1 DEF Leased, HolderMoves
  <2>2. PICK k \in Leases : k = inFlight[j].lease
    BY <2>1, LeaseOf DEF LeaseTaken
  <2>3. phase[k] # "none" \/ \E m \in Loops : popped[m] = k
    BY <2>1, <2>2 DEF LeaseTaken
  <2>4. phase'[k] \in {"settling", "done"} => j \in Stranded
    BY <2>1, <2>2 DEF Stranded
  <2> QED BY <2>1, <2>2, <2>3, <2>4
<1>2. Stranded' \subseteq Stranded
  BY <1>1 DEF Stranded
<1>3. LeaseTaken'
  BY <1>1 DEF LeaseTaken
<1> QED BY <1>2, <1>3, StrandedShrinks

\* A settling call that rejects strands the lease it was to end, if it still holds.
LEMMA RejectedHolds ==
  ASSUME QueueInv, WorkerTypeOK, LeaseTaken, StrandedPaid, NEW k \in Leases,
         NEW d \in deliveries, d.lease = k,
         Reject, popped' = popped, phase' = [phase EXCEPT ![k] = "settling"]
  PROVE  LeaseTaken' /\ StrandedPaid'
<1>1. /\ UNCHANGED <<inFlight, leases>> /\ faults' = faults + 1 /\ d.id \in Jobs
  BY DeliveryFacts DEF Reject, qvars
<1>2. \A m \in Leases : /\ phase[m] # "none" => phase'[m] # "none"
                        /\ m # k => phase'[m] = phase[m]
  BY DEF WorkerTypeOK
<1>3. \A j \in Jobs : Leased(j) => inFlight[j].lease \in Leases /\ (inFlight[j].lease = k => j = d.id)
  BY LeaseOf DEF LeaseTaken
<1>4. LeaseTaken'
  BY <1>1, <1>2, <1>3 DEF LeaseTaken, Leased
<1>5. Stranded' \subseteq Stranded \cup {d.id}
  BY <1>1, <1>2, <1>3 DEF Stranded, Leased
<1> QED BY <1>1, <1>4, <1>5, StrandedGrows

\* Nobody holds under a lease that its delivery has lost.
LEMMA LostLease ==
  ASSUME QueueInv, LeaseTaken, NEW d \in deliveries, ~Holds(d)
  PROVE  \A j \in Jobs : inFlight[j].lease # d.lease
<1>1. d.lease # 0
  BY DeliveryFacts
<1>2. ASSUME NEW j \in Jobs, inFlight[j].lease = d.lease PROVE FALSE
  <2>1. Leased(j)
    BY <1>1, <1>2 DEF Leased
  <2> QED BY <1>2, <2>1, LeaseOf DEF LeaseTaken
<1> QED BY <1>2

\* The settling calls leave nobody holding under the lease they are made with.
LEMMA CallReleases ==
  ASSUME QueueInv, OneLive, NewestHolds, LeaseTaken, NEW d \in deliveries,
         Ack(d) \/ Nack(d, FALSE) \/ DeadLetter(d)
  PROVE  leases' = leases /\ \A j \in Jobs : inFlight'[j].lease # d.lease
<1>1. CASE Holds(d)
  <2>1. /\ inFlight' = [inFlight EXCEPT ![d.id] = NoEntry] /\ leases' = leases
        /\ d.id \in Jobs /\ d.lease # 0
    BY <1>1, DeliveryFacts DEF Ack, Nack, DeadLetter
  <2>2. ASSUME NEW j \in Jobs, inFlight'[j].lease = d.lease PROVE FALSE
    <3>1. j # d.id /\ inFlight[j].lease = d.lease
      BY <2>1, <2>2 DEF NoEntry, QueueInv, TypeOK
    <3>2. Leased(j)
      BY <2>1, <3>1 DEF Leased
    <3> QED BY <3>1, <3>2, LeaseOf DEF LeaseTaken
  <2> QED BY <2>1, <2>2
<1>2. CASE ~Holds(d)
  BY <1>2, LostLease DEF Ack, Nack, DeadLetter
<1> QED BY <1>1, <1>2

\* The three outcomes of a settling call.
LEMMA SettleHolds ==
  ASSUME HolderInv, \A j \in Jobs : HolderMoves(j), NEW k \in Leases,
         NEW d \in deliveries, d.lease = k, phase[k] # "none",
         \/ Settle(k, Ack(d), ~Holds(d))
         \/ Settle(k, Nack(d, FALSE), ~Holds(d))
         \/ Settle(k, DeadLetter(d), FALSE)
  PROVE  LeaseTaken' /\ StrandedPaid'
<1> USE DEF HolderInv, WorkerInv
<1>1. phase' = [phase EXCEPT ![k] = "settling"] /\ popped' = popped
  BY DEF Settle
<1>2. /\ \A m \in Leases : phase[m] # "none" => phase'[m] # "none"
      /\ \A m \in Leases : m # k => phase'[m] = phase[m]
  BY <1>1 DEF WorkerTypeOK
<1>3. leases \in Nat /\ faults \in Nat /\ faults <= faults
  BY WorkerAssumption DEF QueueInv, TypeOK, WorkerTypeOK
<1>4. CASE (Ack(d) \/ Nack(d, FALSE) \/ DeadLetter(d)) /\ faults' = faults
  <2>1. leases' = leases /\ \A j \in Jobs : inFlight'[j].lease # k
    BY <1>4, CallReleases
  <2> QED BY <1>1, <1>2, <1>3, <1>4, <2>1, SettledHolds
<1>5. CASE ~Holds(d) /\ UNCHANGED <<qvars, faults>>
  <2>1. inFlight' = inFlight /\ leases' = leases
    BY <1>5 DEF qvars
  <2>2. \A j \in Jobs : inFlight'[j].lease # k
    BY <1>5, <2>1, LostLease
  <2> QED BY <1>1, <1>2, <1>3, <1>5, <2>1, <2>2, SettledHolds
<1>6. CASE Reject
  BY <1>1, <1>6, RejectedHolds
<1> QED BY <1>4, <1>5, <1>6 DEF Settle

\* A step that moves no delivery into its settling, and hands none out.
LEMMA QuietHolds ==
  ASSUME HolderInv, \A j \in Jobs : HolderMoves(j), leases' = leases,
         popped' = popped, faults' = faults,
         \A k \in Leases : phase[k] # "none" => phase'[k] # "none",
         \A k \in Leases : phase'[k] \in {"settling", "done"} => phase[k] \in {"settling", "done"}
  PROVE  LeaseTaken' /\ StrandedPaid'
<1> USE DEF HolderInv, WorkerInv
<1>1. leases \in Nat /\ faults \in Nat /\ faults <= faults
  BY WorkerAssumption DEF QueueInv, TypeOK, WorkerTypeOK
<1> QED BY <1>1, SettledHolds

\* Every step of a poll loop.
LEMMA LoopsHold ==
  ASSUME HolderInv, \A j \in Jobs : HolderMoves(j),
         leases' = leases \/ (leases < MaxLeases /\ leases' = leases + 1),
         Start \/ \E l \in Loops : TimerFires(l) \/ PopAnswers(l)
  PROVE  LeaseTaken' /\ StrandedPaid'
<1> USE WorkerAssumption DEF HolderInv, WorkerInv
<1>0. TypeOK /\ activeJobs \in Nat /\ activeJobs + 1 \in Nat /\ running \in BOOLEAN
      /\ faults \in Nat /\ MaxFaults \in Nat
  BY DEF QueueInv, WorkerTypeOK
<1>1. CASE Start
  <2>1. PICK l \in Loops : l = starts + 1
    BY <1>1 DEF Start, Loops, WorkerTypeOK
  <2>2. Iterate(l, activeJobs, TRUE) /\ phase' = phase
    BY <1>1, <2>1, Zenon DEF Start
  <2>3. PICK up \in BOOLEAN : Iterate(l, activeJobs, up)
    BY <2>2
  <2>4. Moved(l, activeJobs, up) /\ faults <= faults' /\ faults' \in Nat
    BY <1>0, <2>3, IterateFacts
  <2>5. popped[l] \notin Leases
    BY <2>1 DEF AnsweredOnce, UnstartedLoops, WorkerTypeOK
  <2> QED BY <2>2, <2>4, <2>5, LoopHolds
<1>2. ASSUME NEW l \in Loops, TimerFires(l) PROVE LeaseTaken' /\ StrandedPaid'
  <2>1. popped[l] \notin Leases /\ loop[l] = "sleeping" /\ phase' = phase
    BY <1>2 DEF TimerFires, AnsweredOnce
  <2>2. CASE Iterate(l, activeJobs, running)
    <3>1. Moved(l, activeJobs, running) /\ faults <= faults' /\ faults' \in 0..MaxFaults
      BY <1>0, <2>2, IterateFacts
    <3> QED BY <1>0, <2>1, <3>1, LoopHolds
  <2>3. CASE UNCHANGED <<qvars, pollTimer, popped, faults>>
    <3>1. leases' = leases
      BY <2>3 DEF qvars
    <3> QED BY <2>1, <2>3, <3>1, QuietHolds
  <2> QED BY <1>2, <2>2, <2>3 DEF TimerFires
<1>3. ASSUME NEW l \in Loops, PopAnswers(l) PROVE LeaseTaken' /\ StrandedPaid'
  <2>1. CASE popped[l] \in Leases
    <3>1. /\ Iterate(l, activeJobs + 1, running)
          /\ phase' = [phase EXCEPT ![popped[l]] = "handling"]
      BY <1>3, <2>1 DEF PopAnswers
    <3>2. PICK active \in Nat : active = activeJobs + 1
      BY <1>0
    <3>3. Moved(l, active, running) /\ faults <= faults' /\ faults' \in Nat
      BY <1>0, <3>1, <3>2, IterateFacts
    <3> QED BY <2>1, <3>1, <3>3, LoopHolds
  <2>2. CASE popped[l] \notin Leases
    <3>1. EndTick(l, running) /\ phase' = phase
      BY <1>3, <2>2 DEF PopAnswers
    <3>2. Moved(l, activeJobs, running) /\ faults' = faults
      BY <1>0, <3>1, EndTickFacts
    <3> QED BY <1>0, <2>2, <3>1, <3>2, LoopHolds
  <2> QED BY <2>1, <2>2
<1> QED BY <1>1, <1>2, <1>3

\* Every step of the worker preserves the invariant about who holds what.
LEMMA HolderInductive == HolderInv /\ [WorkerNext]_allvars => HolderInv'
<1> SUFFICES ASSUME HolderInv, [WorkerNext]_allvars PROVE HolderInv'
  OBVIOUS
<1> USE DEF HolderInv
<1>1. WorkerInv'
  BY WorkerInductive
<1>2. /\ OneLive' /\ NewestHolds' /\ \A j \in Jobs : HolderMoves(j)
      /\ leases' = leases \/ (leases < MaxLeases /\ leases' = leases + 1)
  <2>1. [Call]_qvars
    BY CallStep DEF WorkerInv
  <2> QED BY <2>1, LiveStep DEF WorkerInv
<1>3. LeaseTaken' /\ StrandedPaid'
  <2>1. CASE Start \/ \E l \in Loops : TimerFires(l) \/ PopAnswers(l)
    BY <1>2, <2>1, LoopsHold
  <2>2. ASSUME NEW k \in Leases, HandlerResolves(k) \/ RetryLater(k) \/ FailPermanently(k)
        PROVE  LeaseTaken' /\ StrandedPaid'
    <3> DEFINE d == DeliveryOf(k)
    <3>1. phase[k] # "none"
      BY <2>2 DEF HandlerResolves, RetryLater, FailPermanently
    <3>2. d \in deliveries /\ d.lease = k
      BY <3>1, TokenFacts DEF WorkerInv
    <3>3. \/ Settle(k, Ack(d), ~Holds(d))
          \/ Settle(k, Nack(d, FALSE), ~Holds(d))
          \/ Settle(k, DeadLetter(d), FALSE)
      BY <2>2 DEF HandlerResolves, RetryLater, FailPermanently
    <3> HIDE DEF d, HolderInv
    <3> QED BY <1>2, <3>1, <3>2, <3>3, SettleHolds
  <2>3. CASE \/ \E k \in Leases : HandlerFails(k) \/ Finish(k) \/ Heartbeat(k)
             \/ \E j \in Jobs : Enqueue(j)
             \/ Tick \/ Stop \/ StopReturns \/ UNCHANGED allvars
    <3>1. leases' = leases
      BY <2>3, SettlingTakesNothing DEF allvars, qvars
    <3>2. popped' = popped /\ faults' = faults
      BY <2>3 DEF HandlerFails, Finish, Heartbeat, Enqueue, Tick, Stop, StopReturns, allvars, wvars
    <3>3. \/ phase' = phase
          \/ \E k \in Leases : phase[k] = "handling" /\ phase' = [phase EXCEPT ![k] = "failed"]
          \/ \E k \in Leases : phase[k] = "settling" /\ phase' = [phase EXCEPT ![k] = "done"]
      BY <2>3 DEF HandlerFails, Finish, Heartbeat, Enqueue, Tick, Stop, StopReturns, allvars, wvars
    <3>4. /\ \A k \in Leases : phase[k] # "none" => phase'[k] # "none"
          /\ \A k \in Leases : phase'[k] \in {"settling", "done"} => phase[k] \in {"settling", "done"}
      BY <3>3 DEF WorkerInv, WorkerTypeOK
    <3> HIDE DEF HolderInv
    <3> QED BY <1>2, <3>1, <3>2, <3>4, QuietHolds
  <2> QED BY <2>1, <2>2, <2>3 DEF WorkerNext
<1> QED BY <1>1, <1>2, <1>3

\* The invariant holds before anything was handed out.
LEMMA HolderStarts == WorkerInit => HolderInv
<1> SUFFICES ASSUME WorkerInit PROVE HolderInv
  OBVIOUS
<1>1. WorkerInv
  BY WorkerStarts
<1>2. messages = <<>> /\ leases = 0 /\ deliveries = {} /\ faults = 0
      /\ \A j \in Jobs : ~Leased(j)
  BY DEF WorkerInit, Init, Leased, NoEntry
<1>3. Stranded = {}
  BY <1>2 DEF Stranded
<1>4. StrandedPaid
  BY <1>2, <1>3, FS_EmptySet DEF StrandedPaid
<1>5. OneLive /\ NewestHolds
  BY <1>2 DEF OneLive, NewestHolds, Once, Ids
<1>6. LeaseTaken
  BY <1>2, QueueAssumption DEF LeaseTaken
<1> QED BY <1>1, <1>4, <1>5, <1>6 DEF HolderInv

\* What the invariant says of two executions of one job, and of abandoned leases.
LEMMA HolderExclusive == HolderInv => RunsExclusive
<1> SUFFICES ASSUME HolderInv PROVE RunsExclusive
  OBVIOUS
<1> USE DEF HolderInv, WorkerInv
<1>1. ASSUME NEW j \in Jobs, Leased(j), ~Orphan(j)
      PROVE  \/ Processing(inFlight[j].lease)
             \/ \E l \in Loops : loop[l] = "popping" /\ popped[l] = inFlight[j].lease
  <2>1. PICK k \in Leases : k = inFlight[j].lease
    BY <1>1, LeaseOf DEF LeaseTaken
  <2>2. phase[k] # "done"
    BY <1>1, <2>1 DEF Orphan
  <2>3. CASE phase[k] # "none"
    BY <2>1, <2>2, <2>3 DEF Processing, WorkerTypeOK
  <2>4. ASSUME NEW l \in Loops, popped[l] = k
        PROVE  loop[l] = "popping" /\ popped[l] = inFlight[j].lease
    BY <2>1, <2>4 DEF AnsweredOnce
  <2> QED BY <1>1, <2>1, <2>3, <2>4 DEF LeaseTaken
<1>2. Cardinality({j \in Jobs : Orphan(j)}) <= faults
  <2> DEFINE Orphans == {j \in Jobs : Orphan(j)}
  <2>1. Orphans \subseteq Stranded /\ Stranded \subseteq Jobs
    BY DEF Orphan, Stranded
  <2>2. IsFiniteSet(Stranded)
    BY <2>1, QueueAssumption, FS_Subset
  <2>3. /\ Cardinality(Orphans) <= Cardinality(Stranded)
        /\ Cardinality(Orphans) \in Nat /\ Cardinality(Stranded) \in Nat
    BY <2>1, <2>2, FS_Subset, FS_CardinalityType
  <2>4. faults \in Nat
    BY WorkerAssumption DEF WorkerTypeOK
  <2> HIDE DEF Orphans
  <2>5. Cardinality(Orphans) <= faults
    BY <2>3, <2>4 DEF StrandedPaid
  <2> QED BY <2>5 DEF Orphans
<1>3. ASSUME NEW k \in Leases, NEW m \in Leases, k < m, Processing(k), Processing(m),
             DeliveryOf(k).id = DeliveryOf(m).id
      PROVE  k \in over
  <2>1. phase[k] # "none" /\ phase[m] # "none"
    BY <1>3 DEF Processing
  <2>2. PICK d \in deliveries : d = DeliveryOf(k) /\ d.lease = k
    BY <2>1, TokenFacts
  <2>3. PICK e \in deliveries : e = DeliveryOf(m) /\ e.lease = m
    BY <2>1, TokenFacts
  <2>4. d.id = e.id /\ d.lease \in Nat /\ e.lease \in Nat /\ d.lease < e.lease /\ d.lease # 0
    BY <1>3, <2>2, <2>3, DeliveryFacts
  <2>5. Holds(d) => FALSE
    BY <2>4 DEF Holds, NewestHolds, Leased
  <2> QED BY <2>2, <2>5 DEF NewestHolds
<1> QED BY <1>1, <1>2, <1>3 DEF RunsExclusive, LeaseHasHolder, OverlapNeedsLapse

\* Two executions of one job (task.ts 260-303) overlap only after the earlier lease
\* ran out, and a lease that nobody runs any more was left by a settling call that
\* rejected: for any number of jobs, loops, starts and rejected calls.
THEOREM ExecutionsExclude == WorkerSpec => []RunsExclusive
BY HolderStarts, HolderInductive, HolderExclusive, PTL DEF WorkerSpec

================================================================================
