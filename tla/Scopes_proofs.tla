---------------------------- MODULE Scopes_proofs ----------------------------
(***************************************************************************)
(* Proofs about Scopes, for any plugins, requests, hooks and prefixes:     *)
(* that requests wait for the plugins that load, and that none of them     *)
(* gets past a hook it was promised, whatever is registered meanwhile.     *)
(*                                                                         *)
(* The chains are made by two recursive walks of a tree that grows.  The   *)
(* lemmas are about any tree: what FlattenSeq joins, what one chain keeps  *)
(* of another (Leads), the way up from a context (Up), the visit down      *)
(* (VisitOf).  Sound is what registration keeps of the tree, BindingsOk of *)
(* the scopes, CallerOk of a request, and ScopeInv says all of it of the   *)
(* variables.                                                              *)
(***************************************************************************)
EXTENDS Scopes, SequenceTheorems, WellFoundedInduction, TLAPS

(* FlattenSeq, and what it does to the elements. *)

LEMMA SmallestNat ==
  ASSUME NEW T, T \subseteq Nat, T # {}
  PROVE  \E n \in T : \A m \in T : n <= m
<1> DEFINE less == {ss \in Nat \X Nat : ss[1] < ss[2]}
<1>1. IsWellFoundedOn(less, Nat)
  BY NatLessThanWellFounded DEF OpToRel
<1>2. \A m, n \in Nat : m < n => <<m, n>> \in less
  OBVIOUS
<1> HIDE DEF less
<1>3. PICK n \in T : \A m \in T : <<m, n>> \notin less
  BY <1>1, WFMin
<1>4. ASSUME NEW m \in T PROVE n <= m
  <2>1. ~(m < n)
    BY <1>2, <1>3
  <2> QED BY <2>1
<1> QED BY <1>3, <1>4

\* The sums of a sequence of sequences, from the left.
Joins(g, ss) ==
  g = [i \in 1..Len(ss) |-> IF i = 1 THEN ss[i] ELSE g[i - 1] \o ss[i]]

LEMMA JoinsExist ==
  ASSUME NEW ss, Len(ss) \in Nat
  PROVE  \E g : Joins(g, ss)
<1> DEFINE Partly(k, g) == g = [i \in 1..k |-> IF i = 1 THEN ss[i] ELSE g[i - 1] \o ss[i]]
           Bad == {k \in Nat : ~ \E g : Partly(k, g)}
<1>1. SUFFICES Bad = {}
  <2>1. \E g : Partly(Len(ss), g)
    BY <1>1
  <2> QED BY <2>1 DEF Joins
<1>2. SUFFICES ASSUME Bad # {} PROVE FALSE
  OBVIOUS
<1>3. PICK k \in Bad : \A m \in Bad : k <= m
  BY <1>2, SmallestNat
<1>4. k # 0
  <2>1. Partly(0, [i \in 1..0 |-> ss[i]])
    OBVIOUS
  <2> QED BY <2>1
<1>5. PICK g : Partly(k - 1, g)
  <2>1. k \in Nat /\ k - 1 \in Nat /\ ~(k <= k - 1)
    BY <1>4
  <2>2. k - 1 \notin Bad
    <3> HIDE DEF Bad
    <3> QED BY <1>3, <2>1
  <2> QED BY <2>1, <2>2
<1> DEFINE h == [i \in 1..k |-> IF i <= k - 1 THEN g[i] ELSE IF i = 1 THEN ss[i] ELSE g[i - 1] \o ss[i]]
<1>6. \A i \in 1..k : h[i] = IF i = 1 THEN ss[i] ELSE h[i - 1] \o ss[i]
  <2> SUFFICES ASSUME NEW i \in 1..k PROVE h[i] = IF i = 1 THEN ss[i] ELSE h[i - 1] \o ss[i]
    OBVIOUS
  <2>1. i # 1 => i - 1 \in 1..k-1 /\ h[i - 1] = g[i - 1]
    OBVIOUS
  <2>2. i <= k - 1 => h[i] = g[i] /\ g[i] = IF i = 1 THEN ss[i] ELSE g[i - 1] \o ss[i]
    <3>1. CASE i <= k - 1
      <4>1. i \in 1..k-1 /\ h[i] = g[i]
        BY <3>1
      <4> QED BY <1>5, <4>1
    <3> QED BY <3>1
  <2>3. ~(i <= k - 1) => h[i] = IF i = 1 THEN ss[i] ELSE g[i - 1] \o ss[i]
    OBVIOUS
  <2> QED BY <2>1, <2>2, <2>3
<1>7. Partly(k, h)
  BY <1>6
<1> QED BY <1>3, <1>7

LEMMA JoinsOne ==
  ASSUME NEW ss, Len(ss) \in Nat, Len(ss) # 0
  PROVE  \E g : Joins(g, ss) /\ FlattenSeq(ss) = g[Len(ss)]
<1>1. PICK g : g = CHOOSE f : Joins(f, ss)
  OBVIOUS
<1>2. Joins(g, ss)
  BY <1>1, JoinsExist
<1>3. FlattenSeq(ss) = g[Len(ss)]
  BY <1>1 DEF FlattenSeq, Joins
<1> QED BY <1>2, <1>3


\* Sequences that agree as far as n have the same sums as far as n.
AlikeTo(n, g, ss, h, tt) ==
  /\ Len(ss) \in Nat /\ Len(tt) \in Nat /\ Joins(g, ss) /\ Joins(h, tt)
  /\ n \in Nat /\ n <= Len(ss) /\ n <= Len(tt) /\ \A i \in 1..n : ss[i] = tt[i]

LEMMA JoinsAgree ==
  ASSUME NEW ss, NEW tt, NEW g, NEW h, NEW n, AlikeTo(n, g, ss, h, tt)
  PROVE  \A i \in 1..n : g[i] = h[i]
<1> USE DEF AlikeTo
<1> DEFINE Bad == {i \in 1..n : g[i] # h[i]}
<1>1. SUFFICES ASSUME Bad # {} PROVE FALSE
  OBVIOUS
<1>a. Bad \subseteq Nat /\ Bad \subseteq 1..n
  OBVIOUS
<1>b. \A i \in 1..n : i \notin Bad => g[i] = h[i]
  OBVIOUS
<1>c. \A i \in Bad : g[i] # h[i]
  OBVIOUS
<1> HIDE DEF Bad
<1>2. PICK i \in Bad : \A m \in Bad : i <= m
  BY <1>1, <1>a, SmallestNat
<1>3. /\ i \in 1..n /\ i \in 1..Len(ss) /\ i \in 1..Len(tt) /\ ss[i] = tt[i]
  BY <1>a
<1>4. g[i] = (IF i = 1 THEN ss[i] ELSE g[i - 1] \o ss[i]) /\ h[i] = (IF i = 1 THEN tt[i] ELSE h[i - 1] \o tt[i])
  BY <1>3 DEF Joins
<1>5. i # 1 => g[i - 1] = h[i - 1]
  <2>1. i # 1 => i - 1 \in 1..n /\ ~(i <= i - 1)
    BY <1>3
  <2> QED BY <1>2, <1>b, <2>1
<1> QED BY <1>c, <1>3, <1>4, <1>5

LEMMA FlattenEmpty == FlattenSeq(<<>>) = <<>>
BY DEF FlattenSeq

LEMMA JoinsTyped ==
  ASSUME NEW S, NEW ss \in Seq(Seq(S)), NEW g, Joins(g, ss)
  PROVE  \A i \in 1..Len(ss) : g[i] \in Seq(S)
<1> DEFINE Bad == {i \in 1..Len(ss) : g[i] \notin Seq(S)}
<1>1. SUFFICES ASSUME Bad # {} PROVE FALSE
  OBVIOUS
<1>l. Len(ss) \in Nat
  OBVIOUS
<1>a. Bad \subseteq Nat /\ Bad \subseteq 1..Len(ss)
  BY <1>l
<1>b. \A i \in 1..Len(ss) : i \notin Bad => g[i] \in Seq(S)
  OBVIOUS
<1>c. \A i \in Bad : g[i] \notin Seq(S)
  OBVIOUS
<1> HIDE DEF Bad
<1>2. PICK i \in Bad : \A m \in Bad : i <= m
  BY <1>1, <1>a, SmallestNat
<1>d. i \in 1..Len(ss)
  BY <1>a
<1>3. g[i] = (IF i = 1 THEN ss[i] ELSE g[i - 1] \o ss[i])
  BY <1>d DEF Joins
<1>e. ss[i] \in Seq(S)
  BY <1>d, <1>l, ElementOfSeq
<1>4. i # 1 => g[i - 1] \in Seq(S)
  <2>1. i # 1 => i - 1 \in 1..Len(ss) /\ ~(i <= i - 1)
    BY <1>d, <1>l
  <2> QED BY <1>2, <1>b, <2>1
<1>5. i # 1 => g[i - 1] \o ss[i] \in Seq(S)
  BY <1>e, <1>4, ConcatProperties
<1> QED BY <1>c, <1>e, <1>3, <1>5

LEMMA FlattenTyped ==
  ASSUME NEW S, NEW ss \in Seq(Seq(S))
  PROVE  FlattenSeq(ss) \in Seq(S)
<1>1. Len(ss) \in Nat
  OBVIOUS
<1>2. CASE Len(ss) = 0
  <2>1. ss = <<>>
    BY <1>2
  <2>2. FlattenSeq(ss) = <<>>
    BY <2>1, FlattenEmpty
  <2> QED BY <2>2
<1>3. CASE Len(ss) # 0
  <2>1. PICK g : Joins(g, ss) /\ FlattenSeq(ss) = g[Len(ss)]
    BY <1>1, <1>3, JoinsOne
  <2>2. Len(ss) \in 1..Len(ss)
    BY <1>1, <1>3
  <2>3. \A i \in 1..Len(ss) : g[i] \in Seq(S)
    BY <2>1, JoinsTyped
  <2> QED BY <2>1, <2>2, <2>3
<1> QED BY <1>2, <1>3

LEMMA FlattenAppend ==
  ASSUME NEW S, NEW ss \in Seq(Seq(S)), NEW e \in Seq(S)
  PROVE  FlattenSeq(Append(ss, e)) = FlattenSeq(ss) \o e
<1>1. PICK tt : tt = Append(ss, e)
  OBVIOUS
<1>2. /\ tt \in Seq(Seq(S)) /\ Len(tt) = Len(ss) + 1 /\ Len(ss) \in Nat
      /\ \A i \in 1..Len(ss) : tt[i] = ss[i]
      /\ tt[Len(ss) + 1] = e
  BY <1>1, AppendProperties
<1>3. PICK h : Joins(h, tt) /\ FlattenSeq(tt) = h[Len(tt)]
  <2>1. Len(tt) \in Nat /\ Len(tt) # 0
    BY <1>2
  <2> QED BY <2>1, JoinsOne
<1>a. PICK n \in Nat : n = Len(ss)
  BY <1>2
<1>4. h[n + 1] = IF n + 1 = 1 THEN e ELSE h[n] \o e
  <2>1. n + 1 \in 1..Len(tt) /\ (n + 1) - 1 = n /\ tt[n + 1] = e
    BY <1>2, <1>a
  <2>2. h[n + 1] = IF n + 1 = 1 THEN tt[n + 1] ELSE h[(n + 1) - 1] \o tt[n + 1]
    BY <1>3, <2>1 DEF Joins
  <2> QED BY <2>1, <2>2
<1>5. CASE n = 0
  <2>1. ss = <<>>
    BY <1>5, <1>a
  <2>2. FlattenSeq(ss) = <<>>
    BY <2>1, FlattenEmpty
  <2>3. h[n + 1] = e
    BY <1>4, <1>5
  <2> QED BY <1>1, <1>2, <1>3, <1>a, <2>2, <2>3, ConcatEmptySeq
<1>6. CASE n # 0
  <2>1. PICK g : Joins(g, ss) /\ FlattenSeq(ss) = g[Len(ss)]
    BY <1>2, <1>a, <1>6, JoinsOne
  <2>2. \A i \in 1..n : g[i] = h[i]
    <3>1. Len(tt) \in Nat /\ n <= Len(ss) /\ n <= Len(tt) /\ \A i \in 1..n : ss[i] = tt[i]
      <4>1. Len(tt) = n + 1 /\ n = Len(ss)
        BY <1>2, <1>a
      <4>2. \A i \in 1..n : ss[i] = tt[i]
        BY <1>2, <4>1
      <4> QED BY <4>1, <4>2
    <3>2. Len(ss) \in Nat /\ Joins(g, ss) /\ Joins(h, tt)
      BY <1>2, <1>3, <2>1
    <3>3. AlikeTo(n, g, ss, h, tt)
      BY <3>1, <3>2 DEF AlikeTo
    <3> QED BY <3>3, JoinsAgree
  <2>3. h[n] = FlattenSeq(ss)
    <3>1. n \in 1..n
      BY <1>6
    <3> QED BY <1>a, <2>1, <2>2, <3>1
  <2>4. h[n + 1] = h[n] \o e
    <3>1. n + 1 # 1
      BY <1>6
    <3> QED BY <1>4, <3>1
  <2> QED BY <1>1, <1>2, <1>3, <1>a, <2>3, <2>4
<1> QED BY <1>5, <1>6

\* A sequence that is not empty is one shorter and an element.
LEMMA SplitLast ==
  ASSUME NEW S, NEW s \in Seq(S), Len(s) # 0
  PROVE  \E t \in Seq(S), e \in S : s = Append(t, e) /\ Len(t) + 1 = Len(s) /\ \A i \in 1..Len(t) : t[i] = s[i]
<1>1. PICK n \in Nat : n = Len(s) /\ n > 0
  OBVIOUS
<1>2. PICK t : t = [i \in 1..n - 1 |-> s[i]]
  OBVIOUS
<1>3. t \in Seq(S) /\ Len(t) = n - 1
  <2>1. n - 1 \in Nat /\ \A i \in 1..n - 1 : s[i] \in S
    BY <1>1
  <2> QED BY <1>2, <2>1
<1>4. s[n] \in S
  BY <1>1
<1>5. \A i \in 1..Len(t) : t[i] = s[i]
  BY <1>2, <1>3, <1>1
<1>6. s = Append(t, s[n])
  BY <1>1, <1>2, <1>3, <1>4
<1> QED BY <1>1, <1>3, <1>4, <1>5, <1>6

\* The elements.
LEMMA ConcatSet ==
  ASSUME NEW S, NEW s \in Seq(S), NEW t \in Seq(S)
  PROVE  ToSet(s \o t) = ToSet(s) \cup ToSet(t)
<1>1. PICK u : u = s \o t
  OBVIOUS
<1>2. PICK m \in Nat, n \in Nat : m = Len(s) /\ n = Len(t)
  OBVIOUS
<1>3. DOMAIN u = 1..m + n /\ DOMAIN s = 1..m /\ DOMAIN t = 1..n
  BY <1>1, <1>2, ConcatProperties
<1>4. \A i \in 1..m + n : u[i] = IF i <= m THEN s[i] ELSE t[i - m]
  BY <1>1, <1>2, ConcatProperties
<1>5. \A x \in ToSet(s) : x \in ToSet(u)
  <2> SUFFICES ASSUME NEW i \in 1..m PROVE s[i] \in ToSet(u)
    BY <1>3 DEF ToSet
  <2>1. i \in 1..m + n /\ u[i] = s[i]
    BY <1>4
  <2> QED BY <1>3, <2>1 DEF ToSet
<1>6. \A x \in ToSet(t) : x \in ToSet(u)
  <2> SUFFICES ASSUME NEW i \in 1..n PROVE t[i] \in ToSet(u)
    BY <1>3 DEF ToSet
  <2>1. i + m \in 1..m + n /\ ~(i + m <= m) /\ (i + m) - m = i
    OBVIOUS
  <2>2. u[i + m] = t[i]
    BY <1>4, <2>1
  <2> QED BY <1>3, <2>1, <2>2 DEF ToSet
<1>7. \A x \in ToSet(u) : x \in ToSet(s) \cup ToSet(t)
  <2> SUFFICES ASSUME NEW i \in 1..m + n PROVE u[i] \in ToSet(s) \cup ToSet(t)
    BY <1>3 DEF ToSet
  <2>1. CASE i <= m
    <3>1. i \in 1..m /\ u[i] = s[i]
      BY <1>4, <2>1
    <3> QED BY <1>3, <3>1 DEF ToSet
  <2>2. CASE ~(i <= m)
    <3>1. i - m \in 1..n /\ u[i] = t[i - m]
      BY <1>4, <2>2
    <3> QED BY <1>3, <3>1 DEF ToSet
  <2> QED BY <2>1, <2>2
<1> QED BY <1>1, <1>5, <1>6, <1>7

LEMMA AppendedSet ==
  ASSUME NEW S, NEW s \in Seq(S), NEW e \in S
  PROVE  ToSet(Append(s, e)) = ToSet(s) \cup {e}
<1>1. PICK u : u = Append(s, e)
  OBVIOUS
<1>2. PICK m \in Nat : m = Len(s)
  OBVIOUS
<1>3. DOMAIN u = 1..m + 1 /\ DOMAIN s = 1..m /\ u[m + 1] = e /\ \A i \in 1..m : u[i] = s[i]
  BY <1>1, <1>2, AppendProperties
<1>4. 1..m + 1 = (1..m) \cup {m + 1}
  OBVIOUS
<1> HIDE DEF ToSet
<1>5. ToSet(u) = {u[i] : i \in (1..m) \cup {m + 1}} /\ ToSet(s) = {s[i] : i \in 1..m}
  BY <1>3, <1>4 DEF ToSet
<1> QED BY <1>1, <1>3, <1>5

LEMMA FlattenedSet ==
  ASSUME NEW S, NEW ss \in Seq(Seq(S))
  PROVE  \A x : x \in ToSet(FlattenSeq(ss)) <=> \E i \in 1..Len(ss) : x \in ToSet(ss[i])
<1> DEFINE Bad == {n \in Nat : \E tt \in Seq(Seq(S)) : Len(tt) = n /\
                    ~ \A x : x \in ToSet(FlattenSeq(tt)) <=> \E i \in 1..Len(tt) : x \in ToSet(tt[i])}
<1>1. SUFFICES ASSUME Bad # {} PROVE FALSE
  <2>1. Len(ss) \in Nat
    OBVIOUS
  <2> QED BY <2>1
<1>2. Bad \subseteq Nat
  OBVIOUS
<1>3. PICK n \in Bad : \A m \in Bad : n <= m
  <2> HIDE DEF Bad
  <2> QED BY <1>1, <1>2, SmallestNat
<1>4. PICK tt \in Seq(Seq(S)) : Len(tt) = n /\
                    ~ \A x : x \in ToSet(FlattenSeq(tt)) <=> \E i \in 1..Len(tt) : x \in ToSet(tt[i])
  OBVIOUS
<1>5. CASE n = 0
  <2>1. tt = <<>> /\ 1..Len(tt) = {}
    BY <1>4, <1>5
  <2>2. ToSet(FlattenSeq(tt)) = {}
    BY <2>1, FlattenEmpty DEF ToSet
  <2> QED BY <1>4, <2>1, <2>2
<1>6. CASE n # 0
  <2>1. PICK uu \in Seq(Seq(S)), e \in Seq(S) : tt = Append(uu, e) /\ Len(uu) + 1 = n /\ \A i \in 1..Len(uu) : uu[i] = tt[i]
    <3>1. Len(tt) # 0
      BY <1>4, <1>6
    <3> QED BY <1>4, <3>1, SplitLast
  <2>2. \A x : x \in ToSet(FlattenSeq(uu)) <=> \E i \in 1..Len(uu) : x \in ToSet(uu[i])
    <3>1. Len(uu) \in Nat /\ ~(n <= Len(uu))
      BY <2>1
    <3>2. Len(uu) \notin Bad
      <4> HIDE DEF Bad
      <4> QED BY <1>3, <3>1
    <3> QED BY <3>1, <3>2
  <2>3. FlattenSeq(tt) = FlattenSeq(uu) \o e /\ FlattenSeq(uu) \in Seq(S)
    BY <2>1, FlattenAppend, FlattenTyped
  <2>4. ToSet(FlattenSeq(tt)) = ToSet(FlattenSeq(uu)) \cup ToSet(e)
    BY <2>3, ConcatSet
  <2>5. tt[n] = e /\ 1..Len(tt) = (1..Len(uu)) \cup {n}
    <3>1. Len(uu) \in Nat
      OBVIOUS
    <3> QED BY <1>4, <2>1, <3>1, AppendProperties
  <2>6. \A x : (\E i \in 1..Len(tt) : x \in ToSet(tt[i])) <=> (\E i \in 1..Len(uu) : x \in ToSet(uu[i])) \/ x \in ToSet(e)
    BY <2>1, <2>5
  <2> QED BY <1>4, <2>2, <2>4, <2>6
<1> QED BY <1>5, <1>6

-----------------------------------------------------------------------------
(* Lists that lead into one another, and the hooks of lists of contexts. *)

LEMMA ThreeJoined ==
  ASSUME NEW S, NEW a \in Seq(S), NEW b \in Seq(S), NEW c \in Seq(S)
  PROVE  (a \o b) \o c = a \o (b \o c)
BY ConcatAssociative

LEMMA FlattenConcat ==
  ASSUME NEW S, NEW ss \in Seq(Seq(S)), NEW tt \in Seq(Seq(S))
  PROVE  FlattenSeq(ss \o tt) = FlattenSeq(ss) \o FlattenSeq(tt)
<1> DEFINE Bad == {n \in Nat : \E uu \in Seq(Seq(S)) : Len(uu) = n /\
                    FlattenSeq(ss \o uu) # FlattenSeq(ss) \o FlattenSeq(uu)}
<1>1. SUFFICES ASSUME Bad # {} PROVE FALSE
  <2>1. Len(tt) \in Nat
    OBVIOUS
  <2> QED BY <2>1
<1>2. Bad \subseteq Nat
  OBVIOUS
<1>3. PICK n \in Bad : \A m \in Bad : n <= m
  <2> HIDE DEF Bad
  <2> QED BY <1>1, <1>2, SmallestNat
<1>4. PICK uu \in Seq(Seq(S)) : Len(uu) = n /\ FlattenSeq(ss \o uu) # FlattenSeq(ss) \o FlattenSeq(uu)
  OBVIOUS
<1>f. FlattenSeq(ss) \in Seq(S)
  BY FlattenTyped
<1>5. CASE n = 0
  <2>1. uu = <<>>
    BY <1>4, <1>5
  <2>2. ss \o uu = ss
    BY <2>1, ConcatEmptySeq
  <2>3. FlattenSeq(uu) = <<>>
    BY <2>1, FlattenEmpty
  <2>4. FlattenSeq(ss) \o FlattenSeq(uu) = FlattenSeq(ss)
    BY <2>3, <1>f, ConcatEmptySeq
  <2> QED BY <1>4, <2>2, <2>4
<1>6. CASE n # 0
  <2>1. PICK vv \in Seq(Seq(S)), e \in Seq(S) : uu = Append(vv, e) /\ Len(vv) + 1 = n
    <3>1. Len(uu) # 0
      BY <1>4, <1>6
    <3> QED BY <1>4, <3>1, SplitLast
  <2>2. FlattenSeq(ss \o vv) = FlattenSeq(ss) \o FlattenSeq(vv)
    <3>1. Len(vv) \in Nat /\ ~(n <= Len(vv))
      BY <2>1
    <3>2. Len(vv) \notin Bad
      <4> HIDE DEF Bad
      <4> QED BY <1>3, <3>1
    <3> QED BY <3>1, <3>2
  <2>3. ss \o uu = Append(ss \o vv, e) /\ ss \o vv \in Seq(Seq(S))
    <3>1. uu = vv \o <<e>> /\ <<e>> \in Seq(Seq(S))
      BY <2>1
    <3>2. ss \o vv \in Seq(Seq(S))
      BY ConcatProperties
    <3>3. ss \o (vv \o <<e>>) = (ss \o vv) \o <<e>>
      BY <3>1, ConcatAssociative
    <3>4. Append(ss \o vv, e) = (ss \o vv) \o <<e>>
      BY <3>2, AppendIsConcat
    <3> QED BY <3>1, <3>2, <3>3, <3>4
  <2>4. FlattenSeq(ss \o uu) = (FlattenSeq(ss) \o FlattenSeq(vv)) \o e
    BY <2>2, <2>3, FlattenAppend
  <2>5. FlattenSeq(uu) = FlattenSeq(vv) \o e /\ FlattenSeq(vv) \in Seq(S)
    BY <2>1, FlattenAppend, FlattenTyped
  <2>6. (FlattenSeq(ss) \o FlattenSeq(vv)) \o e = FlattenSeq(ss) \o (FlattenSeq(vv) \o e)
    <3>1. PICK a \in Seq(S), b \in Seq(S) : a = FlattenSeq(ss) /\ b = FlattenSeq(vv)
      BY <1>f, <2>5
    <3>2. (a \o b) \o e = a \o (b \o e)
      BY ThreeJoined
    <3> QED BY <3>1, <3>2
  <2> QED BY <1>4, <2>4, <2>5, <2>6
<1> QED BY <1>5, <1>6

\* What stands at a place of s stands in t, at that place or a later one.
Leads(s, t) == \A i \in 1..Len(s) : \E j \in i..Len(t) : t[j] = s[i]

LEMMA LeadsSelf ==
  ASSUME NEW S, NEW s \in Seq(S)
  PROVE  Leads(s, s)
<1>1. Len(s) \in Nat
  OBVIOUS
<1> QED BY <1>1 DEF Leads

LEMMA LeadsTrans ==
  ASSUME NEW S, NEW s \in Seq(S), NEW t \in Seq(S), NEW u \in Seq(S), Leads(s, t), Leads(t, u)
  PROVE  Leads(s, u)
<1>1. PICK l \in Nat, m \in Nat, n \in Nat : l = Len(s) /\ m = Len(t) /\ n = Len(u)
  OBVIOUS
<1> SUFFICES ASSUME NEW i \in 1..l PROVE \E j \in i..n : u[j] = s[i]
  BY <1>1 DEF Leads
<1>2. PICK j \in i..m : t[j] = s[i]
  BY <1>1 DEF Leads
<1>3. j \in 1..m
  OBVIOUS
<1>4. PICK k \in j..n : u[k] = t[j]
  BY <1>1, <1>3 DEF Leads
<1> QED BY <1>2, <1>4

LEMMA LeadsSet ==
  ASSUME NEW S, NEW s \in Seq(S), NEW t \in Seq(S), Leads(s, t)
  PROVE  ToSet(s) \subseteq ToSet(t)
<1>1. PICK l \in Nat, m \in Nat : l = Len(s) /\ m = Len(t)
  OBVIOUS
<1>2. DOMAIN s = 1..l /\ DOMAIN t = 1..m
  BY <1>1
<1> SUFFICES ASSUME NEW i \in 1..l PROVE s[i] \in ToSet(t)
  BY <1>2 DEF ToSet
<1>3. PICK j \in i..m : t[j] = s[i]
  BY <1>1 DEF Leads
<1>4. j \in 1..m
  OBVIOUS
<1> QED BY <1>2, <1>3, <1>4 DEF ToSet

LEMMA LeadsConcat ==
  ASSUME NEW S, NEW s \in Seq(S), NEW t \in Seq(S), NEW u \in Seq(S), NEW v \in Seq(S), Leads(s, u), Leads(t, v)
  PROVE  Leads(s \o t, u \o v)
<1>1. PICK a \in Nat, b \in Nat, c \in Nat, d \in Nat : a = Len(s) /\ b = Len(t) /\ c = Len(u) /\ d = Len(v)
  OBVIOUS
<1>2. a <= c
  <2>1. CASE a = 0
    BY <2>1
  <2>2. CASE a # 0
    <3>1. a \in 1..a
      BY <2>2
    <3>2. PICK j \in a..c : u[j] = s[a]
      BY <1>1, <3>1 DEF Leads
    <3> QED BY <3>2
  <2> QED BY <2>1, <2>2
<1>3. PICK st, uv : st = s \o t /\ uv = u \o v
  OBVIOUS
<1>4. Len(st) = a + b /\ \A i \in 1..a + b : st[i] = IF i <= a THEN s[i] ELSE t[i - a]
  BY <1>1, <1>3, ConcatProperties
<1>5. Len(uv) = c + d /\ \A i \in 1..c + d : uv[i] = IF i <= c THEN u[i] ELSE v[i - c]
  BY <1>1, <1>3, ConcatProperties
<1> SUFFICES ASSUME NEW i \in 1..a + b PROVE \E j \in i..c + d : uv[j] = st[i]
  BY <1>3, <1>4, <1>5 DEF Leads
<1>6. CASE i <= a
  <2>1. i \in 1..a /\ st[i] = s[i]
    BY <1>4, <1>6
  <2>2. PICK j \in i..c : u[j] = s[i]
    BY <1>1, <2>1 DEF Leads
  <2>3. j \in 1..c + d /\ j <= c /\ j \in i..c + d
    OBVIOUS
  <2>4. uv[j] = u[j]
    BY <1>5, <2>3
  <2> QED BY <2>1, <2>2, <2>3, <2>4
<1>7. CASE ~(i <= a)
  <2>1. i - a \in 1..b /\ st[i] = t[i - a]
    BY <1>4, <1>7
  <2>2. PICK k \in (i - a)..d : v[k] = t[i - a]
    BY <1>1, <2>1 DEF Leads
  <2>3. k + c \in 1..c + d /\ ~(k + c <= c) /\ (k + c) - c = k /\ k + c \in i..c + d
    BY <1>2, <2>1
  <2>4. uv[k + c] = v[k]
    BY <1>5, <2>3
  <2> QED BY <2>1, <2>2, <2>3, <2>4
<1> QED BY <1>6, <1>7

LEMMA LeadsMore ==
  ASSUME NEW S, NEW s \in Seq(S), NEW t \in Seq(S), NEW u \in Seq(S), Leads(s, t)
  PROVE  Leads(s, t \o u)
<1>0. <<>> \in Seq(S)
  BY EmptySeq
<1>1. PICK e \in Seq(S) : e = <<>>
  BY <1>0
<1>a. Leads(e, u)
  BY <1>1 DEF Leads
<1>2. Leads(s \o e, t \o u)
  BY <1>a, LeadsConcat
<1> QED BY <1>1, <1>2, ConcatEmptySeq

\* Whoever has walked as far as n - 1 has as much before him, if not more.
LEMMA LeadsRest ==
  ASSUME NEW S, NEW s \in Seq(S), NEW t \in Seq(S), Leads(s, t), NEW n \in Nat, n > 0
  PROVE  {s[j] : j \in n..Len(s)} \subseteq {t[j] : j \in n..Len(t)}
<1>1. PICK l \in Nat, m \in Nat : l = Len(s) /\ m = Len(t)
  OBVIOUS
<1> SUFFICES ASSUME NEW i \in n..l PROVE \E j \in n..m : t[j] = s[i]
  BY <1>1
<1>2. i \in 1..l
  OBVIOUS
<1>3. PICK j \in i..m : t[j] = s[i]
  BY <1>1, <1>2 DEF Leads
<1> QED BY <1>3

\* The hooks of contexts, one context after the other.
Lists(hk, C, S) == hk \in [C -> Seq(S)]
HooksAt(hk, s) == [i \in DOMAIN s |-> hk[s[i]]]
Spread(hk, s) == FlattenSeq(HooksAt(hk, s))

LEMMA SpreadParts ==
  ASSUME NEW S, NEW C, NEW hk, Lists(hk, C, S), NEW s \in Seq(C)
  PROVE  /\ HooksAt(hk, s) \in Seq(Seq(S)) /\ Len(HooksAt(hk, s)) = Len(s)
         /\ \A i \in 1..Len(s) : HooksAt(hk, s)[i] = hk[s[i]]
<1>1. PICK l \in Nat : l = Len(s) /\ DOMAIN s = 1..l
  OBVIOUS
<1>2. \A i \in 1..l : hk[s[i]] \in Seq(S)
  BY <1>1 DEF Lists
<1> QED BY <1>1, <1>2 DEF HooksAt

LEMMA SpreadTyped ==
  ASSUME NEW S, NEW C, NEW hk, Lists(hk, C, S), NEW s \in Seq(C)
  PROVE  Spread(hk, s) \in Seq(S)
BY SpreadParts, FlattenTyped DEF Spread

LEMMA SpreadSet ==
  ASSUME NEW S, NEW C, NEW hk, Lists(hk, C, S), NEW s \in Seq(C)
  PROVE  \A x : x \in ToSet(Spread(hk, s)) <=> \E c \in ToSet(s) : x \in ToSet(hk[c])
<1>1. PICK parts : parts = HooksAt(hk, s)
  OBVIOUS
<1>2. parts \in Seq(Seq(S)) /\ Len(parts) = Len(s) /\ DOMAIN s = 1..Len(s) /\ \A i \in 1..Len(s) : parts[i] = hk[s[i]]
  BY <1>1, SpreadParts
<1>3. \A x : x \in ToSet(Spread(hk, s)) <=> \E i \in 1..Len(s) : x \in ToSet(hk[s[i]])
  <2>1. \A x : x \in ToSet(FlattenSeq(parts)) <=> \E i \in 1..Len(parts) : x \in ToSet(parts[i])
    BY <1>2, FlattenedSet
  <2> QED BY <1>1, <1>2, <2>1 DEF Spread
<1>4. \A c : c \in ToSet(s) <=> \E i \in 1..Len(s) : c = s[i]
  BY <1>2 DEF ToSet
<1> QED BY <1>3, <1>4

LEMMA SpreadConcat ==
  ASSUME NEW S, NEW C, NEW hk, Lists(hk, C, S), NEW s \in Seq(C), NEW t \in Seq(C)
  PROVE  Spread(hk, s \o t) = Spread(hk, s) \o Spread(hk, t)
<1>1. PICK p, q, r : p = HooksAt(hk, s) /\ q = HooksAt(hk, t) /\ r = HooksAt(hk, s \o t)
  OBVIOUS
<1>2. /\ p \in Seq(Seq(S)) /\ q \in Seq(Seq(S)) /\ Len(p) = Len(s) /\ Len(q) = Len(t)
      /\ (\A i \in 1..Len(s) : p[i] = hk[s[i]]) /\ \A i \in 1..Len(t) : q[i] = hk[t[i]]
  BY <1>1, SpreadParts
<1>3. PICK a \in Nat, b \in Nat : a = Len(s) /\ b = Len(t)
  OBVIOUS
<1>4. PICK st : st = s \o t
  OBVIOUS
<1>5. DOMAIN st = 1..a + b /\ \A i \in 1..a + b : st[i] = IF i <= a THEN s[i] ELSE t[i - a]
  BY <1>3, <1>4, ConcatProperties
<1>6. PICK pq : pq = p \o q
  OBVIOUS
<1>7. pq \in Seq(Seq(S)) /\ Len(pq) = a + b /\ \A i \in 1..a + b : pq[i] = IF i <= a THEN p[i] ELSE q[i - a]
  <2>1. pq \in Seq(Seq(S))
    BY <1>2, <1>6, ConcatProperties
  <2>2. Len(pq) = a + b
    <3>1. Len(p \o q) = Len(p) + Len(q)
      BY <1>2, ConcatProperties
    <3> QED BY <1>2, <1>3, <1>6, <3>1
  <2>3. \A i \in 1..a + b : pq[i] = IF i <= a THEN p[i] ELSE q[i - a]
    <3>1. Len(p) = a /\ Len(q) = b
      BY <1>2, <1>3
    <3>2. \A i \in 1..Len(p) + Len(q) : (p \o q)[i] = IF i <= Len(p) THEN p[i] ELSE q[i - Len(p)]
      BY <1>2, ConcatProperties
    <3> QED BY <3>1, <3>2, <1>6
  <2> QED BY <2>1, <2>2, <2>3
<1>8. (\A i \in 1..a : p[i] = hk[s[i]]) /\ \A i \in 1..b : q[i] = hk[t[i]]
  BY <1>2, <1>3
<1>9. \A i \in 1..a + b : pq[i] = hk[st[i]]
  <2> SUFFICES ASSUME NEW i \in 1..a + b PROVE pq[i] = hk[st[i]]
    OBVIOUS
  <2>1. CASE i <= a
    <3>1. i \in 1..a
      BY <2>1
    <3> QED BY <3>1, <2>1, <1>5, <1>7, <1>8
  <2>2. CASE ~(i <= a)
    <3>1. i - a \in 1..b
      BY <2>2
    <3> QED BY <3>1, <2>2, <1>5, <1>7, <1>8
  <2> QED BY <2>1, <2>2
<1>10. pq = [i \in 1..a + b |-> hk[st[i]]]
  <2>1. pq = [i \in 1..a + b |-> pq[i]]
    BY <1>7
  <2> QED BY <2>1, <1>9
<1>11. r = p \o q
  <2>1. r = [i \in DOMAIN st |-> hk[st[i]]]
    BY <1>1, <1>4 DEF HooksAt
  <2> QED BY <2>1, <1>5, <1>6, <1>10
<1>12. FlattenSeq(p \o q) = FlattenSeq(p) \o FlattenSeq(q)
  BY <1>2, FlattenConcat
<1> QED BY <1>1, <1>11, <1>12 DEF Spread

LEMMA SpreadOne ==
  ASSUME NEW S, NEW C, NEW hk, Lists(hk, C, S), NEW c \in C
  PROVE  Spread(hk, <<c>>) = hk[c] /\ Spread(hk, <<>>) = <<>>
<1>1. PICK s : s = <<c>>
  OBVIOUS
<1>2. PICK p : p = HooksAt(hk, s)
  OBVIOUS
<1>3. DOMAIN s = 1..1 /\ s[1] = c
  BY <1>1
<1>4. p = <<hk[c]>>
  <2>1. p = [i \in 1..1 |-> hk[s[i]]]
    BY <1>2, <1>3 DEF HooksAt
  <2> QED BY <2>1, <1>3
<1>5. PICK e : e = hk[c] /\ e \in Seq(S)
  BY DEF Lists
<1>6. <<e>> = Append(<<>>, e) /\ <<>> \in Seq(Seq(S))
  OBVIOUS
<1>7. FlattenSeq(<<e>>) = FlattenSeq(<<>>) \o e
  BY <1>5, <1>6, FlattenAppend
<1>8. FlattenSeq(<<e>>) = e
  BY <1>5, <1>7, FlattenEmpty, ConcatEmptySeq
<1>9. HooksAt(hk, <<>>) = <<>>
  BY DEF HooksAt
<1> QED BY <1>1, <1>2, <1>4, <1>5, <1>8, <1>9, FlattenEmpty DEF Spread

LEMMA SpreadSplit ==
  ASSUME NEW S, NEW C, NEW hk, Lists(hk, C, S), NEW ss \in Seq(Seq(C)), NEW e \in Seq(C)
  PROVE  /\ Spread(hk, FlattenSeq(Append(ss, e))) = Spread(hk, FlattenSeq(ss)) \o Spread(hk, e)
         /\ Spread(hk, FlattenSeq(ss)) \in Seq(S) /\ Spread(hk, e) \in Seq(S)
<1>1. FlattenSeq(Append(ss, e)) = FlattenSeq(ss) \o e /\ FlattenSeq(ss) \in Seq(C)
  BY FlattenAppend, FlattenTyped
<1>2. PICK a \in Seq(C) : a = FlattenSeq(ss)
  BY <1>1
<1>3. Spread(hk, a \o e) = Spread(hk, a) \o Spread(hk, e)
  BY SpreadConcat
<1>4. Spread(hk, a) \in Seq(S) /\ Spread(hk, e) \in Seq(S)
  BY SpreadTyped
<1> QED BY <1>1, <1>2, <1>3, <1>4

\* Part by part, and the second may have more parts.
LEMMA FlattenLeads ==
  ASSUME NEW S, NEW C, NEW hk, Lists(hk, C, S), NEW kk, Lists(kk, C, S),
         NEW ss \in Seq(Seq(C)), NEW tt \in Seq(Seq(C)), Len(ss) <= Len(tt),
         \A i \in 1..Len(ss) : Leads(Spread(hk, ss[i]), Spread(kk, tt[i]))
  PROVE  Leads(Spread(hk, FlattenSeq(ss)), Spread(kk, FlattenSeq(tt)))
<1> DEFINE Goal(uu, vv) == Leads(Spread(hk, FlattenSeq(uu)), Spread(kk, FlattenSeq(vv)))
           Under(uu, vv) == Len(uu) <= Len(vv) /\ \A i \in 1..Len(uu) : Leads(Spread(hk, uu[i]), Spread(kk, vv[i]))
           Bad == {n \in Nat : \E uu, vv \in Seq(Seq(C)) : Len(vv) = n /\ Under(uu, vv) /\ ~Goal(uu, vv)}
<1>1. SUFFICES ASSUME Bad # {} PROVE FALSE
  <2>1. Len(tt) \in Nat
    OBVIOUS
  <2> QED BY <2>1
<1>2. Bad \subseteq Nat
  OBVIOUS
<1>3. PICK n \in Bad : \A m \in Bad : n <= m
  <2> HIDE DEF Bad
  <2> QED BY <1>1, <1>2, SmallestNat
<1>4. PICK uu \in Seq(Seq(C)), vv \in Seq(Seq(C)) : Len(vv) = n /\ Under(uu, vv) /\ ~Goal(uu, vv)
  OBVIOUS
<1>5. CASE Len(uu) = 0
  <2>1. uu = <<>>
    BY <1>5
  <2>2. FlattenSeq(uu) = <<>>
    BY <2>1, FlattenEmpty
  <2>3. Spread(hk, FlattenSeq(uu)) = <<>>
    <3>1. HooksAt(hk, <<>>) = <<>>
      BY DEF HooksAt
    <3> QED BY <2>2, <3>1, FlattenEmpty DEF Spread
  <2>4. Goal(uu, vv)
    BY <2>3 DEF Leads
  <2> QED BY <1>4, <2>4
<1>6. CASE Len(uu) # 0
  <2>1. PICK l \in Nat : l = Len(uu) /\ l > 0 /\ l <= n /\ n \in Nat
    BY <1>4, <1>6
  <2>2. PICK ww \in Seq(Seq(C)), e \in Seq(C) : vv = Append(ww, e) /\ Len(ww) + 1 = n /\ \A i \in 1..Len(ww) : ww[i] = vv[i]
    <3>1. Len(vv) # 0
      BY <1>4, <2>1
    <3> QED BY <1>4, <3>1, SplitLast
  <2>3. Len(ww) \in Nat /\ ~(n <= Len(ww)) /\ Len(ww) \notin Bad
    <3>1. Len(ww) \in Nat /\ ~(n <= Len(ww))
      BY <2>2
    <3> HIDE DEF Bad
    <3> QED BY <1>3, <3>1
  <2>4. \A xx \in Seq(Seq(C)) : Under(xx, ww) => Goal(xx, ww)
    BY <2>3
  <2>5. /\ Spread(kk, FlattenSeq(vv)) = Spread(kk, FlattenSeq(ww)) \o Spread(kk, e)
        /\ Spread(kk, FlattenSeq(ww)) \in Seq(S) /\ Spread(kk, e) \in Seq(S)
    <3>1. /\ Spread(kk, FlattenSeq(Append(ww, e))) = Spread(kk, FlattenSeq(ww)) \o Spread(kk, e)
          /\ Spread(kk, FlattenSeq(ww)) \in Seq(S) /\ Spread(kk, e) \in Seq(S)
      BY <2>2, SpreadSplit
    <3> QED BY <2>2, <3>1
  <2>6. CASE l < n
    <3>1. Under(uu, ww)
      <4>1. Len(uu) <= Len(ww) /\ \A i \in 1..Len(uu) : i \in 1..Len(ww)
        BY <2>1, <2>2, <2>3, <2>6
      <4> QED BY <1>4, <2>2, <4>1
    <3>2. Goal(uu, ww)
      BY <2>4, <3>1
    <3>3. Spread(hk, FlattenSeq(uu)) \in Seq(S)
      BY FlattenTyped, SpreadTyped
    <3>4. Goal(uu, vv)
      BY <2>5, <3>2, <3>3, LeadsMore
    <3> QED BY <1>4, <3>4
  <2>7. CASE l = n
    <3>1. PICK xx \in Seq(Seq(C)), f \in Seq(C) : uu = Append(xx, f) /\ Len(xx) + 1 = n /\ \A i \in 1..Len(xx) : xx[i] = uu[i]
      <4>1. Len(uu) # 0 /\ Len(uu) = n
        BY <1>6, <2>1, <2>7
      <4>2. \E xx \in Seq(Seq(C)), f \in Seq(C) : uu = Append(xx, f) /\ Len(xx) + 1 = Len(uu) /\ \A i \in 1..Len(xx) : xx[i] = uu[i]
        BY <4>1, SplitLast
      <4> QED BY <4>1, <4>2
    <3>2. Under(xx, ww)
      <4>1. Len(xx) <= Len(ww) /\ \A i \in 1..Len(xx) : i \in 1..Len(uu) /\ i \in 1..Len(ww)
        BY <2>1, <2>2, <2>3, <3>1
      <4> QED BY <1>4, <2>2, <3>1, <4>1
    <3>3. Goal(xx, ww)
      BY <2>4, <3>2
    <3>4. Leads(Spread(hk, f), Spread(kk, e))
      <4>1. n \in 1..Len(uu) /\ uu[n] = f /\ vv[n] = e
        BY <2>1, <2>2, <2>3, <2>7, <3>1
      <4> QED BY <1>4, <4>1
    <3>5. /\ Spread(hk, FlattenSeq(Append(xx, f))) = Spread(hk, FlattenSeq(xx)) \o Spread(hk, f)
          /\ Spread(hk, FlattenSeq(xx)) \in Seq(S) /\ Spread(hk, f) \in Seq(S)
      BY <3>1, SpreadSplit
    <3>6. Goal(uu, vv)
      BY <2>5, <3>1, <3>3, <3>4, <3>5, LeadsConcat
    <3> QED BY <1>4, <3>6
  <2> QED BY <2>1, <2>6, <2>7
<1> QED BY <1>5, <1>6

-----------------------------------------------------------------------------
(* The tree, and the way from the root to a context. *)

\* Contexts as a tree: who made whom, and how deep each is.
Tree(par, kids, depth, n) ==
  /\ n \in Nat /\ depth \in [Contexts -> 0..n]
  /\ par \in [Contexts -> Contexts] /\ kids \in [Contexts -> Seq(Contexts)]
  /\ \A c \in Plugins : depth[par[c]] < depth[c]
  /\ \A q \in Contexts : \A i \in DOMAIN kids[q] : kids[q][i] \in Plugins /\ par[kids[q][i]] = q

LEMMA Shallowest ==
  ASSUME NEW depth, NEW n \in Nat, depth \in [Contexts -> 0..n], NEW B, B \subseteq Contexts, B # {}
  PROVE  \E c \in B : \A x \in B : depth[c] <= depth[x]
<1> DEFINE D == {depth[c] : c \in B}
<1>1. D \subseteq Nat /\ D # {}
  OBVIOUS
<1>2. PICK m \in D : \A k \in D : m <= k
  <2> HIDE DEF D
  <2> QED BY <1>1, SmallestNat
<1> QED BY <1>2

LEMMA Deepest ==
  ASSUME NEW depth, NEW n \in Nat, depth \in [Contexts -> 0..n], NEW B, B \subseteq Contexts, B # {}
  PROVE  \E c \in B : \A x \in B : depth[x] <= depth[c]
<1> DEFINE D == {n - depth[c] : c \in B}
<1>1. D \subseteq Nat /\ D # {}
  <2>1. \A c \in B : n - depth[c] \in Nat
    OBVIOUS
  <2> QED BY <2>1
<1>2. PICK m \in D : \A k \in D : m <= k
  <2> HIDE DEF D
  <2> QED BY <1>1, SmallestNat
<1>3. PICK c \in B : m = n - depth[c]
  BY <1>2
<1>4. \A x \in B : n - depth[c] <= n - depth[x]
  BY <1>2, <1>3
<1>5. \A x \in B : depth[x] \in 0..n
  OBVIOUS
<1> QED BY <1>4, <1>5

\* Chain is the solution of its equation, there being one.
Lineage(par, ch) == ch = [c \in Contexts |-> IF c = Root THEN <<Root>> ELSE Append(ch[par[c]], c)]
ChainOf(par) == CHOOSE ch : Lineage(par, ch)

LEMMA LineageExists ==
  ASSUME NEW par, NEW kids, NEW depth, NEW n, Tree(par, kids, depth, n)
  PROVE  \E ch : Lineage(par, ch)
<1> DEFINE Above(k) == {c \in Contexts : depth[c] < k}
           Partly(k, f) == f = [c \in Above(k) |-> IF c = Root THEN <<Root>> ELSE Append(f[par[c]], c)]
           Bad == {k \in Nat : ~ \E f : Partly(k, f)}
<1>0. /\ n \in Nat /\ \A c \in Contexts : depth[c] \in 0..n /\ par[c] \in Contexts
      /\ \A c \in Contexts : c # Root => depth[par[c]] < depth[c]
  BY DEF Tree, Contexts
<1>1. SUFFICES Bad = {}
  <2>1. n + 1 \in Nat /\ Above(n + 1) = Contexts
    BY <1>0
  <2>2. PICK f : Partly(n + 1, f)
    BY <1>1, <2>1
  <2>3. Lineage(par, f)
    BY <2>1, <2>2 DEF Lineage
  <2> QED BY <2>3
<1>2. SUFFICES ASSUME Bad # {} PROVE FALSE
  OBVIOUS
<1>3. PICK k \in Bad : \A m \in Bad : k <= m
  <2>1. Bad \subseteq Nat
    OBVIOUS
  <2> HIDE DEF Bad
  <2> QED BY <1>2, <2>1, SmallestNat
<1>4. k # 0
  <2>1. Above(0) = {}
    BY <1>0
  <2>2. Partly(0, [c \in Above(0) |-> <<>>])
    BY <2>1
  <2> QED BY <2>2
<1>5. PICK f : Partly(k - 1, f)
  <2>1. k \in Nat /\ k - 1 \in Nat /\ ~(k <= k - 1)
    BY <1>4
  <2>2. k - 1 \notin Bad
    <3> HIDE DEF Bad
    <3> QED BY <1>3, <2>1
  <2> QED BY <2>1, <2>2
<1> DEFINE g == [c \in Above(k) |-> IF depth[c] < k - 1 THEN f[c] ELSE IF c = Root THEN <<Root>> ELSE Append(f[par[c]], c)]
<1>6. \A c \in Above(k) : g[c] = IF c = Root THEN <<Root>> ELSE Append(g[par[c]], c)
  <2> SUFFICES ASSUME NEW c \in Above(k) PROVE g[c] = IF c = Root THEN <<Root>> ELSE Append(g[par[c]], c)
    OBVIOUS
  <2>1. c # Root => par[c] \in Above(k) /\ depth[par[c]] < k - 1 /\ g[par[c]] = f[par[c]]
    <3>1. c # Root => par[c] \in Contexts /\ depth[par[c]] < depth[c] /\ depth[c] < k /\ depth[c] \in Nat /\ depth[par[c]] \in Nat
      BY <1>0
    <3>2. c # Root => par[c] \in Above(k) /\ depth[par[c]] < k - 1
      BY <3>1
    <3> QED BY <3>2
  <2>2. depth[c] < k - 1 => g[c] = f[c] /\ f[c] = IF c = Root THEN <<Root>> ELSE Append(f[par[c]], c)
    <3>1. CASE depth[c] < k - 1
      <4>1. c \in Above(k - 1) /\ g[c] = f[c]
        BY <3>1
      <4> QED BY <1>5, <4>1
    <3> QED BY <3>1
  <2>3. ~(depth[c] < k - 1) => g[c] = IF c = Root THEN <<Root>> ELSE Append(f[par[c]], c)
    OBVIOUS
  <2> QED BY <2>1, <2>2, <2>3
<1>7. Partly(k, g)
  BY <1>6
<1> QED BY <1>3, <1>7

\* ch[c] is the way from the root to c.
Chained(par, ch) ==
  /\ \A c \in Contexts : ch[c] \in Seq(Contexts)
  /\ ch[Root] = <<Root>> /\ \A c \in Plugins : ch[c] = Append(ch[par[c]], c)

LEMMA ChainSolved ==
  ASSUME NEW par, NEW kids, NEW depth, NEW n, Tree(par, kids, depth, n)
  PROVE  Chained(par, ChainOf(par))
<1>1. PICK ch : ch = ChainOf(par)
  OBVIOUS
<1>2. Lineage(par, ch)
  BY <1>1, LineageExists DEF ChainOf
<1>3. Root \in Contexts /\ \A c \in Plugins : c \in Contexts /\ c # Root
  BY ScopesAssumption DEF Contexts
<1>4. ch[Root] = <<Root>> /\ \A c \in Plugins : ch[c] = Append(ch[par[c]], c)
  BY <1>2, <1>3 DEF Lineage
<1> DEFINE B == {c \in Contexts : ch[c] \notin Seq(Contexts)}
<1>5. SUFFICES ASSUME B # {} PROVE FALSE
  BY <1>1, <1>4 DEF Chained
<1>6. PICK c \in B : \A x \in B : depth[c] <= depth[x]
  <2>1. B \subseteq Contexts /\ n \in Nat /\ depth \in [Contexts -> 0..n]
    BY DEF Tree
  <2> HIDE DEF B
  <2> QED BY <1>5, <2>1, Shallowest
<1>7. CASE c = Root
  <2>1. <<Root>> \in Seq(Contexts)
    BY <1>3
  <2> QED BY <1>4, <1>6, <1>7, <2>1
<1>8. CASE c # Root
  <2>1. c \in Plugins
    BY <1>6, <1>8 DEF Contexts
  <2>2. par[c] \in Contexts /\ depth[par[c]] < depth[c] /\ depth[par[c]] \in 0..n /\ depth[c] \in 0..n /\ n \in Nat
    BY <1>3, <2>1 DEF Tree
  <2>3. par[c] \notin B
    <3>1. ~(depth[c] <= depth[par[c]])
      BY <2>2
    <3> HIDE DEF B
    <3> QED BY <1>6, <3>1
  <2>4. Append(ch[par[c]], c) \in Seq(Contexts)
    BY <1>3, <2>1, <2>2, <2>3
  <2> QED BY <1>4, <1>6, <2>1, <2>4
<1> QED BY <1>7, <1>8

\* What is above c, c included.
Up(ch, c) == ToSet(ch[c])

LEMMA UpOf ==
  ASSUME NEW par \in [Contexts -> Contexts], NEW ch, Chained(par, ch)
  PROVE  /\ Up(ch, Root) = {Root}
         /\ \A c \in Plugins : Up(ch, c) = Up(ch, par[c]) \cup {c}
         /\ \A c \in Contexts : Up(ch, c) \subseteq Contexts
<1>0. Root \in Contexts /\ \A c \in Plugins : c \in Contexts /\ par[c] \in Contexts
  BY DEF Contexts
<1>1. Up(ch, Root) = {Root}
  BY DEF Up, Chained, ToSet
<1>2. ASSUME NEW c \in Plugins PROVE Up(ch, c) = Up(ch, par[c]) \cup {c}
  <2>1. ch[c] = Append(ch[par[c]], c) /\ ch[par[c]] \in Seq(Contexts) /\ c \in Contexts
    BY <1>0 DEF Chained
  <2> QED BY <2>1, AppendedSet DEF Up
<1>3. ASSUME NEW c \in Contexts PROVE Up(ch, c) \subseteq Contexts
  <2>1. ch[c] \in Seq(Contexts)
    BY DEF Chained
  <2> QED BY <2>1 DEF Up, ToSet
<1> QED BY <1>1, <1>2, <1>3

\* A tree and the chains of its contexts.
Grown(par, kids, depth, n, ch) == Tree(par, kids, depth, n) /\ Chained(par, ch)

LEMMA GrownFacts ==
  ASSUME NEW par, NEW kids, NEW depth, NEW n, NEW ch, Grown(par, kids, depth, n, ch)
  PROVE  /\ n \in Nat /\ depth \in [Contexts -> 0..n] /\ \A c \in Contexts : depth[c] \in Nat
         /\ Root \in Contexts /\ Root \notin Plugins /\ \A c \in Contexts : c = Root \/ c \in Plugins
         /\ \A c \in Plugins : c \in Contexts /\ par[c] \in Contexts /\ depth[par[c]] < depth[c]
         /\ Up(ch, Root) = {Root}
         /\ \A c \in Plugins : Up(ch, c) = Up(ch, par[c]) \cup {c}
         /\ \A c \in Contexts : Up(ch, c) \subseteq Contexts
<1>1. par \in [Contexts -> Contexts] /\ Chained(par, ch)
  BY DEF Grown, Tree
<1>2. /\ n \in Nat /\ depth \in [Contexts -> 0..n] /\ \A c \in Contexts : depth[c] \in Nat
      /\ \A c \in Plugins : depth[par[c]] < depth[c]
  BY DEF Grown, Tree
<1>3. Root \in Contexts /\ Root \notin Plugins /\ (\A c \in Contexts : c = Root \/ c \in Plugins)
      /\ \A c \in Plugins : c \in Contexts
  BY ScopesAssumption DEF Contexts
<1> QED BY <1>1, <1>2, <1>3, UpOf

LEMMA SelfUp ==
  ASSUME NEW par, NEW kids, NEW depth, NEW n, NEW ch, Grown(par, kids, depth, n, ch), NEW c \in Contexts
  PROVE  c \in Up(ch, c)
BY GrownFacts

LEMMA UpDepth ==
  ASSUME NEW par, NEW kids, NEW depth, NEW n, NEW ch, Grown(par, kids, depth, n, ch)
  PROVE  \A c \in Contexts : \A a \in Up(ch, c) : a = c \/ depth[a] < depth[c]
<1> DEFINE B == {c \in Contexts : ~ \A a \in Up(ch, c) : a = c \/ depth[a] < depth[c]}
<1>1. SUFFICES ASSUME B # {} PROVE FALSE
  OBVIOUS
<1>2. PICK c \in B : \A x \in B : depth[c] <= depth[x]
  <2>1. B \subseteq Contexts
    OBVIOUS
  <2> HIDE DEF B
  <2> QED BY <1>1, <2>1, Shallowest, GrownFacts
<1>3. c \in Plugins
  BY <1>2, GrownFacts
<1>4. par[c] \in Contexts /\ depth[par[c]] < depth[c] /\ depth[par[c]] \in Nat /\ depth[c] \in Nat
      /\ Up(ch, c) = Up(ch, par[c]) \cup {c} /\ c \in Contexts
  BY <1>3, GrownFacts
<1>5. par[c] \notin B
  <2> HIDE DEF B
  <2> QED BY <1>2, <1>4
<1>6. \A a \in Up(ch, par[c]) : depth[a] \in Nat
  BY <1>4, GrownFacts
<1>7. \A a \in Up(ch, c) : a = c \/ depth[a] < depth[c]
  BY <1>4, <1>5, <1>6
<1> QED BY <1>2, <1>7

LEMMA UpTrans ==
  ASSUME NEW par, NEW kids, NEW depth, NEW n, NEW ch, Grown(par, kids, depth, n, ch)
  PROVE  \A c \in Contexts : \A a \in Up(ch, c) : Up(ch, a) \subseteq Up(ch, c)
<1> DEFINE B == {c \in Contexts : ~ \A a \in Up(ch, c) : Up(ch, a) \subseteq Up(ch, c)}
<1>1. SUFFICES ASSUME B # {} PROVE FALSE
  OBVIOUS
<1>2. PICK c \in B : \A x \in B : depth[c] <= depth[x]
  <2>1. B \subseteq Contexts
    OBVIOUS
  <2> HIDE DEF B
  <2> QED BY <1>1, <2>1, Shallowest, GrownFacts
<1>3. c \in Plugins
  BY <1>2, GrownFacts
<1>4. par[c] \in Contexts /\ depth[par[c]] < depth[c] /\ depth[par[c]] \in Nat /\ depth[c] \in Nat
      /\ Up(ch, c) = Up(ch, par[c]) \cup {c}
  BY <1>3, GrownFacts
<1>5. par[c] \notin B
  <2> HIDE DEF B
  <2> QED BY <1>2, <1>4
<1>7. \A a \in Up(ch, c) : Up(ch, a) \subseteq Up(ch, c)
  BY <1>4, <1>5
<1> QED BY <1>2, <1>7

LEMMA UpLinear ==
  ASSUME NEW par, NEW kids, NEW depth, NEW n, NEW ch, Grown(par, kids, depth, n, ch)
  PROVE  \A c \in Contexts : \A a, b \in Up(ch, c) : a \in Up(ch, b) \/ b \in Up(ch, a)
<1> DEFINE B == {c \in Contexts : ~ \A a, b \in Up(ch, c) : a \in Up(ch, b) \/ b \in Up(ch, a)}
<1>1. SUFFICES ASSUME B # {} PROVE FALSE
  OBVIOUS
<1>2. PICK c \in B : \A x \in B : depth[c] <= depth[x]
  <2>1. B \subseteq Contexts
    OBVIOUS
  <2> HIDE DEF B
  <2> QED BY <1>1, <2>1, Shallowest, GrownFacts
<1>3. c \in Plugins
  BY <1>2, GrownFacts
<1>4. par[c] \in Contexts /\ depth[par[c]] < depth[c] /\ depth[par[c]] \in Nat /\ depth[c] \in Nat
      /\ Up(ch, c) = Up(ch, par[c]) \cup {c}
  BY <1>3, GrownFacts
<1>5. par[c] \notin B
  <2> HIDE DEF B
  <2> QED BY <1>2, <1>4
<1>7. \A a, b \in Up(ch, c) : a \in Up(ch, b) \/ b \in Up(ch, a)
  BY <1>4, <1>5
<1> QED BY <1>2, <1>7

LEMMA UpStep ==
  ASSUME NEW par, NEW kids, NEW depth, NEW n, NEW ch, Grown(par, kids, depth, n, ch)
  PROVE  \A c \in Contexts : \A a \in Up(ch, c) : a # c => \E k \in Up(ch, c) \cap Plugins : par[k] = a
<1> DEFINE B == {c \in Contexts : ~ \A a \in Up(ch, c) : a # c => \E k \in Up(ch, c) \cap Plugins : par[k] = a}
<1>1. SUFFICES ASSUME B # {} PROVE FALSE
  OBVIOUS
<1>2. PICK c \in B : \A x \in B : depth[c] <= depth[x]
  <2>1. B \subseteq Contexts
    OBVIOUS
  <2> HIDE DEF B
  <2> QED BY <1>1, <2>1, Shallowest, GrownFacts
<1>3. c \in Plugins
  BY <1>2, GrownFacts
<1>4. par[c] \in Contexts /\ depth[par[c]] < depth[c] /\ depth[par[c]] \in Nat /\ depth[c] \in Nat
      /\ Up(ch, c) = Up(ch, par[c]) \cup {c}
  BY <1>3, GrownFacts
<1>5. par[c] \notin B
  <2> HIDE DEF B
  <2> QED BY <1>2, <1>4
<1>7. \A a \in Up(ch, c) : a # c => \E k \in Up(ch, c) \cap Plugins : par[k] = a
  <2> SUFFICES ASSUME NEW a \in Up(ch, c), a # c PROVE \E k \in Up(ch, c) \cap Plugins : par[k] = a
    OBVIOUS
  <2>1. a \in Up(ch, par[c])
    BY <1>4
  <2>2. CASE a = par[c]
    BY <1>3, <1>4, <2>2
  <2>3. CASE a # par[c]
    BY <1>4, <1>5, <2>1, <2>3
  <2> QED BY <2>2, <2>3
<1> QED BY <1>2, <1>7

LEMMA RootUp ==
  ASSUME NEW par, NEW kids, NEW depth, NEW n, NEW ch, Grown(par, kids, depth, n, ch)
  PROVE  \A c \in Contexts : Root \in Up(ch, c)
<1> DEFINE B == {c \in Contexts : Root \notin Up(ch, c)}
<1>1. SUFFICES ASSUME B # {} PROVE FALSE
  OBVIOUS
<1>2. PICK c \in B : \A x \in B : depth[c] <= depth[x]
  <2>1. B \subseteq Contexts
    OBVIOUS
  <2> HIDE DEF B
  <2> QED BY <1>1, <2>1, Shallowest, GrownFacts
<1>3. c \in Plugins
  BY <1>2, GrownFacts
<1>4. par[c] \in Contexts /\ depth[par[c]] < depth[c] /\ depth[par[c]] \in Nat /\ depth[c] \in Nat
      /\ Up(ch, c) = Up(ch, par[c]) \cup {c}
  BY <1>3, GrownFacts
<1>5. par[c] \notin B
  <2> HIDE DEF B
  <2> QED BY <1>2, <1>4
<1> QED BY <1>2, <1>4, <1>5

\* Where two trees agree, so do the chains.
LEMMA ChainsAgree ==
  ASSUME NEW par, NEW kids, NEW depth, NEW n, NEW ch, Grown(par, kids, depth, n, ch),
         NEW par2, NEW ch2, Chained(par2, ch2),
         NEW D, D \subseteq Contexts, \A c \in D : c # Root => par[c] \in D /\ par2[c] = par[c]
  PROVE  \A c \in D : ch2[c] = ch[c]
<1> DEFINE B == {c \in D : ch2[c] # ch[c]}
<1>1. SUFFICES ASSUME B # {} PROVE FALSE
  OBVIOUS
<1>2. PICK c \in B : \A x \in B : depth[c] <= depth[x]
  <2>1. B \subseteq Contexts
    OBVIOUS
  <2> HIDE DEF B
  <2> QED BY <1>1, <2>1, Shallowest, GrownFacts
<1>c. Chained(par, ch)
  BY DEF Grown
<1>3. c \in Plugins
  BY <1>2, <1>c, GrownFacts DEF Chained
<1>4. /\ par[c] \in D /\ par2[c] = par[c] /\ depth[par[c]] < depth[c] /\ depth[par[c]] \in Nat /\ depth[c] \in Nat
  BY <1>2, <1>3, GrownFacts
<1>5. par[c] \notin B
  <2> HIDE DEF B
  <2> QED BY <1>2, <1>4
<1>6. ch[c] = Append(ch[par[c]], c) /\ ch2[c] = Append(ch2[par[c]], c)
  BY <1>c, <1>3, <1>4 DEF Chained
<1> QED BY <1>2, <1>4, <1>5, <1>6

-----------------------------------------------------------------------------
(* The visit of what is below a context. *)

\* Visit, of any tree.
Stop(kid, inside, listed, v) ==
  IF kid \notin inside THEN <<>> ELSE (IF kid \in listed THEN <<kid>> ELSE <<>>) \o v[kid]
Stops(kids, inside, listed, v, c) == [i \in DOMAIN kids[c] |-> Stop(kids[c][i], inside, listed, v)]
Descent(kids, inside, listed, v) == v = [c \in Contexts |-> FlattenSeq(Stops(kids, inside, listed, v, c))]
VisitOf(kids, inside, listed) == CHOOSE v : Descent(kids, inside, listed, v)

LEMMA KidsDeeper ==
  ASSUME NEW par, NEW kids, NEW depth, NEW n, Tree(par, kids, depth, n)
  PROVE  \A c \in Contexts : /\ depth[c] \in 0..n /\ n \in Nat
                             /\ kids[c] \in Seq(Contexts)
                             /\ \A i \in DOMAIN kids[c] : /\ kids[c][i] \in Plugins /\ kids[c][i] \in Contexts
                                                          /\ par[kids[c][i]] = c
                                                          /\ depth[kids[c][i]] \in 0..n /\ depth[c] < depth[kids[c][i]]
BY DEF Tree, Contexts

LEMMA DescentExists ==
  ASSUME NEW par, NEW kids, NEW depth, NEW n, Tree(par, kids, depth, n), NEW inside, NEW listed
  PROVE  \E v : Descent(kids, inside, listed, v)
<1> DEFINE Low(k) == {c \in Contexts : n - depth[c] < k}
           Partly(k, f) == f = [c \in Low(k) |-> FlattenSeq(Stops(kids, inside, listed, f, c))]
           Bad == {k \in Nat : ~ \E f : Partly(k, f)}
<1>0. n \in Nat /\ \A c \in Contexts : depth[c] \in 0..n
  BY DEF Tree
<1>1. SUFFICES Bad = {}
  <2>1. n + 1 \in Nat /\ Low(n + 1) = Contexts
    BY <1>0
  <2>2. PICK f : Partly(n + 1, f)
    BY <1>1, <2>1
  <2>3. Descent(kids, inside, listed, f)
    BY <2>1, <2>2 DEF Descent
  <2> QED BY <2>3
<1>2. SUFFICES ASSUME Bad # {} PROVE FALSE
  OBVIOUS
<1>3. PICK k \in Bad : \A m \in Bad : k <= m
  <2>1. Bad \subseteq Nat
    OBVIOUS
  <2> HIDE DEF Bad
  <2> QED BY <1>2, <2>1, SmallestNat
<1>4. k # 0
  <2>1. Low(0) = {}
    BY <1>0
  <2>2. Partly(0, [c \in Low(0) |-> <<>>])
    BY <2>1
  <2> QED BY <2>2
<1>5. PICK f : Partly(k - 1, f)
  <2>1. k \in Nat /\ k - 1 \in Nat /\ ~(k <= k - 1)
    BY <1>4
  <2>2. k - 1 \notin Bad
    <3> HIDE DEF Bad
    <3> QED BY <1>3, <2>1
  <2> QED BY <2>1, <2>2
<1> DEFINE g == [c \in Low(k) |-> FlattenSeq(Stops(kids, inside, listed, f, c))]
<1>6. \A c \in Low(k - 1) : g[c] = f[c]
  <2> SUFFICES ASSUME NEW c \in Low(k - 1) PROVE g[c] = f[c]
    OBVIOUS
  <2>1. c \in Low(k)
    BY <1>0
  <2> QED BY <1>5, <2>1
<1>7. \A c \in Low(k) : Stops(kids, inside, listed, f, c) = Stops(kids, inside, listed, g, c)
  <2> SUFFICES ASSUME NEW c \in Low(k)
               PROVE  Stops(kids, inside, listed, f, c) = Stops(kids, inside, listed, g, c)
    OBVIOUS
  <2>1. \A i \in DOMAIN kids[c] : kids[c][i] \in Low(k - 1)
    <3> SUFFICES ASSUME NEW i \in DOMAIN kids[c] PROVE kids[c][i] \in Low(k - 1)
      OBVIOUS
    <3>1. PICK x \in 0..n, y \in 0..n : x = depth[c] /\ y = depth[kids[c][i]] /\ x < y /\ kids[c][i] \in Contexts /\ n - x < k
      BY KidsDeeper
    <3>2. n - y < k - 1
      BY <1>0, <3>1
    <3> QED BY <3>1, <3>2
  <2>2. \A i \in DOMAIN kids[c] : Stop(kids[c][i], inside, listed, f) = Stop(kids[c][i], inside, listed, g)
    <3> HIDE DEF g, Low
    <3> QED BY <1>6, <2>1 DEF Stop
  <2> HIDE DEF g, Low
  <2> QED BY <2>2 DEF Stops
<1>8. Partly(k, g)
  BY <1>7
<1> QED BY <1>3, <1>8

Visited(kids, inside, listed, v) ==
  \A c \in Contexts : /\ v[c] \in Seq(Contexts)
                      /\ Stops(kids, inside, listed, v, c) \in Seq(Seq(Contexts))
                      /\ v[c] = FlattenSeq(Stops(kids, inside, listed, v, c))

LEMMA VisitSolved ==
  ASSUME NEW par, NEW kids, NEW depth, NEW n, Tree(par, kids, depth, n), NEW inside, NEW listed
  PROVE  Visited(kids, inside, listed, VisitOf(kids, inside, listed))
<1>1. PICK v : v = VisitOf(kids, inside, listed)
  OBVIOUS
<1>2. Descent(kids, inside, listed, v)
  BY <1>1, DescentExists DEF VisitOf
<1>3. \A c \in Contexts : v[c] = FlattenSeq(Stops(kids, inside, listed, v, c))
  BY <1>2 DEF Descent
<1>4. ASSUME NEW c \in Contexts, \A i \in DOMAIN kids[c] : v[kids[c][i]] \in Seq(Contexts)
      PROVE  Stops(kids, inside, listed, v, c) \in Seq(Seq(Contexts))
  <2>1. \A i \in DOMAIN kids[c] : Stop(kids[c][i], inside, listed, v) \in Seq(Contexts)
    <3> SUFFICES ASSUME NEW i \in DOMAIN kids[c] PROVE Stop(kids[c][i], inside, listed, v) \in Seq(Contexts)
      OBVIOUS
    <3>1. PICK k \in Contexts : k = kids[c][i] /\ v[k] \in Seq(Contexts)
      BY <1>4, KidsDeeper
    <3>2. <<>> \in Seq(Contexts) /\ <<k>> \in Seq(Contexts)
      OBVIOUS
    <3>3. PICK e \in Seq(Contexts) : e = IF k \in listed THEN <<k>> ELSE <<>>
      BY <3>2
    <3>4. e \o v[k] \in Seq(Contexts)
      BY <3>1, ConcatProperties
    <3> QED BY <3>1, <3>2, <3>3, <3>4 DEF Stop
  <2>2. PICK l \in Nat : DOMAIN kids[c] = 1..l
    BY KidsDeeper
  <2>3. Stops(kids, inside, listed, v, c) = [i \in 1..l |-> Stop(kids[c][i], inside, listed, v)]
    BY <2>2 DEF Stops
  <2> QED BY <2>1, <2>2, <2>3
<1> DEFINE B == {c \in Contexts : v[c] \notin Seq(Contexts)}
<1>5. SUFFICES B = {}
  <2>1. \A c \in Contexts : v[c] \in Seq(Contexts)
    BY <1>5
  <2>2. \A c \in Contexts : Stops(kids, inside, listed, v, c) \in Seq(Seq(Contexts))
    BY <1>4, <2>1, KidsDeeper
  <2> QED BY <1>1, <1>3, <2>1, <2>2 DEF Visited
<1>6. SUFFICES ASSUME B # {} PROVE FALSE
  OBVIOUS
<1>7. PICK c \in B : \A x \in B : depth[x] <= depth[c]
  <2>1. B \subseteq Contexts /\ n \in Nat /\ depth \in [Contexts -> 0..n]
    BY DEF Tree
  <2> HIDE DEF B
  <2> QED BY <1>6, <2>1, Deepest
<1>8. \A i \in DOMAIN kids[c] : v[kids[c][i]] \in Seq(Contexts)
  <2> SUFFICES ASSUME NEW i \in DOMAIN kids[c] PROVE v[kids[c][i]] \in Seq(Contexts)
    OBVIOUS
  <2>1. PICK x \in 0..n, y \in 0..n : x = depth[c] /\ y = depth[kids[c][i]] /\ x < y /\ kids[c][i] \in Contexts /\ n \in Nat
    BY KidsDeeper
  <2>2. kids[c][i] \notin B
    <3>1. ~(depth[kids[c][i]] <= depth[c])
      BY <2>1
    <3> HIDE DEF B
    <3> QED BY <1>7, <3>1
  <2> QED BY <2>1, <2>2
<1>9. v[c] \in Seq(Contexts)
  BY <1>3, <1>4, <1>8, FlattenTyped
<1> QED BY <1>7, <1>9

\* What a visit lists: the children inside, and what is listed below them.
LEMMA VisitedSet ==
  ASSUME NEW par, NEW kids, NEW depth, NEW n, Tree(par, kids, depth, n), NEW inside, NEW listed,
         NEW v, Visited(kids, inside, listed, v)
  PROVE  \A c \in Contexts : \A x : x \in ToSet(v[c]) <=>
           \E i \in DOMAIN kids[c] : kids[c][i] \in inside /\ ((x = kids[c][i] /\ x \in listed) \/ x \in ToSet(v[kids[c][i]]))
<1> SUFFICES ASSUME NEW c \in Contexts, NEW x
             PROVE  x \in ToSet(v[c]) <=>
           \E i \in DOMAIN kids[c] : kids[c][i] \in inside /\ ((x = kids[c][i] /\ x \in listed) \/ x \in ToSet(v[kids[c][i]]))
  OBVIOUS
<1>1. PICK ss \in Seq(Seq(Contexts)) : ss = Stops(kids, inside, listed, v, c) /\ v[c] = FlattenSeq(ss)
  BY DEF Visited
<1>2. x \in ToSet(v[c]) <=> \E i \in 1..Len(ss) : x \in ToSet(ss[i])
  BY <1>1, FlattenedSet
<1>3. DOMAIN ss = 1..Len(ss) /\ DOMAIN ss = DOMAIN kids[c]
  BY <1>1 DEF Stops
<1>4. ASSUME NEW i \in DOMAIN kids[c]
      PROVE  x \in ToSet(ss[i]) <=> kids[c][i] \in inside /\ ((x = kids[c][i] /\ x \in listed) \/ x \in ToSet(v[kids[c][i]]))
  <2>1. PICK k \in Contexts : k = kids[c][i] /\ v[k] \in Seq(Contexts)
    BY KidsDeeper DEF Visited
  <2>2. ss[i] = Stop(k, inside, listed, v)
    BY <1>1, <2>1 DEF Stops
  <2>3. CASE k \notin inside
    <3>1. ss[i] = <<>>
      BY <2>2, <2>3 DEF Stop
    <3>2. ToSet(ss[i]) = {}
      BY <3>1 DEF ToSet
    <3> QED BY <2>1, <2>3, <3>2
  <2>4. CASE k \in inside
    <3>1. PICK e \in Seq(Contexts) : e = IF k \in listed THEN <<k>> ELSE <<>>
      <4>1. <<>> \in Seq(Contexts) /\ <<k>> \in Seq(Contexts)
        OBVIOUS
      <4> QED BY <4>1
    <3>2. ss[i] = e \o v[k]
      BY <2>2, <2>4, <3>1 DEF Stop
    <3>3. ToSet(ss[i]) = ToSet(e) \cup ToSet(v[k])
      BY <2>1, <3>2, ConcatSet
    <3>4. x \in ToSet(e) <=> x = k /\ x \in listed
      <4>1. ToSet(<<k>>) = {k} /\ ToSet(<<>>) = {}
        BY DEF ToSet
      <4> QED BY <3>1, <4>1
    <3> QED BY <2>1, <2>4, <3>3, <3>4
  <2> QED BY <2>3, <2>4
<1> QED BY <1>2, <1>3, <1>4

\* Nothing else: what is listed is listed, below, and every step of the way is inside.
LEMMA VisitedOnly ==
  ASSUME NEW par, NEW kids, NEW depth, NEW n, NEW ch, Grown(par, kids, depth, n, ch), NEW inside, NEW listed,
         NEW v, Visited(kids, inside, listed, v)
  PROVE  \A a \in Contexts : \A c \in ToSet(v[a]) :
           /\ c \in listed /\ c \in Plugins
           /\ a \in Up(ch, c) /\ Up(ch, c) \ Up(ch, a) \subseteq inside
           /\ \E i \in DOMAIN kids[par[c]] : kids[par[c]][i] = c
<1>t. Tree(par, kids, depth, n)
  BY DEF Grown
<1> DEFINE P(a, c) == /\ c \in listed /\ c \in Plugins
                      /\ a \in Up(ch, c) /\ Up(ch, c) \ Up(ch, a) \subseteq inside
                      /\ \E i \in DOMAIN kids[par[c]] : kids[par[c]][i] = c
           B == {a \in Contexts : ~ \A c \in ToSet(v[a]) : P(a, c)}
<1>1. SUFFICES ASSUME B # {} PROVE FALSE
  OBVIOUS
<1>2. PICK a \in B : \A x \in B : depth[x] <= depth[a]
  <2>1. B \subseteq Contexts
    OBVIOUS
  <2> HIDE DEF B
  <2> QED BY <1>1, <2>1, Deepest, GrownFacts
<1>3. ASSUME NEW c \in ToSet(v[a]) PROVE P(a, c)
  <2>1. PICK i \in DOMAIN kids[a] : kids[a][i] \in inside /\ ((c = kids[a][i] /\ c \in listed) \/ c \in ToSet(v[kids[a][i]]))
    BY <1>t, VisitedSet
  <2>2. PICK k \in Plugins : /\ k = kids[a][i] /\ k \in Contexts /\ par[k] = a
                             /\ depth[a] \in Nat /\ depth[k] \in Nat /\ depth[a] < depth[k]
    BY <1>t, KidsDeeper
  <2>3. Up(ch, k) = Up(ch, a) \cup {k} /\ a \in Up(ch, a)
    BY <2>2, GrownFacts, SelfUp
  <2>4. CASE c = k /\ c \in listed
    BY <2>1, <2>2, <2>3, <2>4
  <2>5. CASE c \in ToSet(v[k])
    <3>1. k \notin B
      <4>1. ~(depth[k] <= depth[a])
        BY <2>2
      <4> HIDE DEF B
      <4> QED BY <1>2, <4>1
    <3>2. P(k, c)
      BY <2>2, <2>5, <3>1
    <3>3. a \in Up(ch, c)
      <4>1. k \in Up(ch, c) /\ c \in Contexts
        BY <3>2, GrownFacts
      <4> QED BY <2>3, <4>1, UpTrans
    <3> QED BY <2>1, <2>2, <2>3, <3>2, <3>3
  <2> QED BY <2>1, <2>2, <2>4, <2>5
<1> QED BY <1>2, <1>3

\* And nothing less, of what is in the children of its parent, as those above it are.
LEMMA VisitedAll ==
  ASSUME NEW par, NEW kids, NEW depth, NEW n, NEW ch, Grown(par, kids, depth, n, ch), NEW inside, NEW listed,
         NEW v, Visited(kids, inside, listed, v),
         NEW c \in Contexts, c \in listed,
         \A k \in Up(ch, c) \cap Plugins : \E i \in DOMAIN kids[par[k]] : kids[par[k]][i] = k
  PROVE  \A a \in Up(ch, c) : a # c /\ Up(ch, c) \ Up(ch, a) \subseteq inside => c \in ToSet(v[a])
<1>t. Tree(par, kids, depth, n)
  BY DEF Grown
<1> DEFINE B == {a \in Up(ch, c) : a # c /\ Up(ch, c) \ Up(ch, a) \subseteq inside /\ c \notin ToSet(v[a])}
<1>1. SUFFICES ASSUME B # {} PROVE FALSE
  OBVIOUS
<1>2. PICK a \in B : \A x \in B : depth[x] <= depth[a]
  <2>1. B \subseteq Contexts
    BY GrownFacts
  <2> HIDE DEF B
  <2> QED BY <1>1, <2>1, Deepest, GrownFacts
<1>3. a \in Up(ch, c) /\ a # c /\ a \in Contexts
  BY GrownFacts
<1>4. PICK k \in Up(ch, c) \cap Plugins : par[k] = a
  BY <1>3, UpStep
<1>5. PICK i \in DOMAIN kids[a] : kids[a][i] = k
  BY <1>4
<1>6. k \in Contexts /\ Up(ch, k) = Up(ch, a) \cup {k} /\ depth[a] < depth[k] /\ depth[a] \in Nat /\ depth[k] \in Nat
  BY <1>3, <1>4, GrownFacts
<1>7. k \notin Up(ch, a)
  <2>1. k = a \/ depth[k] < depth[a] => FALSE
    BY <1>6
  <2> QED BY <2>1, <1>3, UpDepth
<1>8. k \in inside
  BY <1>4, <1>7
<1>9. c # k => c \in ToSet(v[k])
  <2>1. k \notin B
    <3>1. ~(depth[k] <= depth[a])
      BY <1>6
    <3> HIDE DEF B
    <3> QED BY <1>2, <3>1
  <2>2. Up(ch, c) \ Up(ch, k) \subseteq inside
    BY <1>6
  <2> QED BY <1>4, <2>1, <2>2
<1>10. c \in ToSet(v[a])
  BY <1>t, <1>3, <1>5, <1>8, <1>9, VisitedSet
<1> QED BY <1>2, <1>10

LEMMA SpreadNone == ASSUME NEW hk PROVE Spread(hk, <<>>) = <<>>
<1>1. HooksAt(hk, <<>>) = <<>>
  BY DEF HooksAt
<1> QED BY <1>1, FlattenEmpty DEF Spread

LEMMA HeadLeads ==
  ASSUME NEW hk, NEW hk2, Lists(hk, Contexts, Nat), Lists(hk2, Contexts, Nat), NEW k \in Contexts,
         NEW s \in Seq(Contexts), NEW t \in Seq(Contexts),
         Leads(hk[k], hk2[k]), Leads(Spread(hk, s), Spread(hk2, t))
  PROVE  Leads(Spread(hk, <<k>> \o s), Spread(hk2, <<k>> \o t))
<1>0. PICK e \in Seq(Contexts) : e = <<k>>
  <2>1. <<k>> \in Seq(Contexts)
    OBVIOUS
  <2> QED BY <2>1
<1>1. Spread(hk, <<k>> \o s) = hk[k] \o Spread(hk, s)
  <2>1. Spread(hk, e \o s) = Spread(hk, e) \o Spread(hk, s)
    BY SpreadConcat
  <2>2. Spread(hk, <<k>>) = hk[k]
    BY SpreadOne
  <2> QED BY <1>0, <2>1, <2>2
<1>2. Spread(hk2, <<k>> \o t) = hk2[k] \o Spread(hk2, t)
  <2>1. Spread(hk2, e \o t) = Spread(hk2, e) \o Spread(hk2, t)
    BY SpreadConcat
  <2>2. Spread(hk2, <<k>>) = hk2[k]
    BY SpreadOne
  <2> QED BY <1>0, <2>1, <2>2
<1>3. hk[k] \in Seq(Nat) /\ hk2[k] \in Seq(Nat)
  BY DEF Lists
<1>4. Spread(hk, s) \in Seq(Nat) /\ Spread(hk2, t) \in Seq(Nat)
  BY SpreadTyped
<1> QED BY <1>1, <1>2, <1>3, <1>4, LeadsConcat

\* A tree in which contexts were added, after the others of their parents.
Extends(kids, kids2) ==
  \A c \in Contexts : Len(kids[c]) <= Len(kids2[c]) /\ \A i \in DOMAIN kids[c] : kids2[c][i] = kids[c][i]

LEMMA VisitedLeads ==
  ASSUME NEW par, NEW kids, NEW inside, NEW v, Visited(kids, inside, Contexts, v),
         NEW par2, NEW kids2, NEW depth2, NEW n2, NEW inside2, NEW v2, Visited(kids2, inside2, Contexts, v2),
         Tree(par2, kids2, depth2, n2), kids \in [Contexts -> Seq(Contexts)], Extends(kids, kids2),
         \A q \in Contexts : \A i \in DOMAIN kids[q] : kids[q][i] \in inside => kids[q][i] \in inside2,
         NEW hk, NEW hk2, Lists(hk, Contexts, Nat), Lists(hk2, Contexts, Nat),
         \A c \in Contexts : Leads(hk[c], hk2[c])
  PROVE  \A c \in Contexts : Leads(Spread(hk, v[c]), Spread(hk2, v2[c]))
<1> DEFINE B == {c \in Contexts : ~Leads(Spread(hk, v[c]), Spread(hk2, v2[c]))}
<1>1. SUFFICES ASSUME B # {} PROVE FALSE
  OBVIOUS
<1>2. PICK c \in B : \A x \in B : depth2[x] <= depth2[c]
  <2>1. B \subseteq Contexts /\ n2 \in Nat /\ depth2 \in [Contexts -> 0..n2]
    BY DEF Tree
  <2> HIDE DEF B
  <2> QED BY <1>1, <2>1, Deepest
<1>c. c \in Contexts
  OBVIOUS
<1>3. PICK ss, tt : /\ ss = Stops(kids, inside, Contexts, v, c) /\ ss \in Seq(Seq(Contexts)) /\ v[c] = FlattenSeq(ss)
                    /\ tt = Stops(kids2, inside2, Contexts, v2, c) /\ tt \in Seq(Seq(Contexts)) /\ v2[c] = FlattenSeq(tt)
  BY <1>c DEF Visited
<1>4. Len(ss) = Len(kids[c]) /\ Len(tt) = Len(kids2[c]) /\ DOMAIN kids[c] = 1..Len(kids[c]) /\ DOMAIN kids2[c] = 1..Len(kids2[c])
      /\ Len(kids[c]) \in Nat /\ Len(kids2[c]) \in Nat
  <2>1. kids[c] \in Seq(Contexts) /\ kids2[c] \in Seq(Contexts)
    BY <1>c DEF Tree
  <2>2. DOMAIN ss = DOMAIN kids[c] /\ DOMAIN tt = DOMAIN kids2[c]
    BY <1>3 DEF Stops
  <2> QED BY <1>3, <2>1, <2>2
<1>5. Len(ss) <= Len(tt)
  BY <1>4, <1>c DEF Extends
<1>6. ASSUME NEW i \in 1..Len(ss) PROVE Leads(Spread(hk, ss[i]), Spread(hk2, tt[i]))
  <2>1. i \in DOMAIN kids[c] /\ i \in DOMAIN kids2[c] /\ kids2[c][i] = kids[c][i]
    BY <1>4, <1>5, <1>c DEF Extends
  <2>2. PICK k : /\ k = kids[c][i] /\ k = kids2[c][i] /\ k \in Contexts
                 /\ depth2[c] \in Nat /\ depth2[k] \in Nat /\ depth2[c] < depth2[k]
    BY <2>1, <1>c, KidsDeeper
  <2>3. ss[i] = Stop(k, inside, Contexts, v) /\ tt[i] = Stop(k, inside2, Contexts, v2)
    BY <1>3, <2>1, <2>2 DEF Stops
  <2>4. v[k] \in Seq(Contexts) /\ v2[k] \in Seq(Contexts) /\ <<k>> \in Seq(Contexts) /\ tt[i] \in Seq(Contexts)
    <3>1. i \in 1..Len(tt)
      BY <1>4, <2>1
    <3>2. tt[i] \in Seq(Contexts)
      BY <1>3, <3>1, ElementOfSeq
    <3>3. v[k] \in Seq(Contexts) /\ v2[k] \in Seq(Contexts)
      BY <2>2 DEF Visited
    <3> QED BY <2>2, <3>2, <3>3
  <2>5. CASE k \notin inside
    <3>1. ss[i] = <<>>
      BY <2>3, <2>5 DEF Stop
    <3>2. Spread(hk, ss[i]) = <<>>
      BY <3>1, SpreadNone
    <3> QED BY <3>2 DEF Leads
  <2>6. CASE k \in inside
    <3>1. k \in inside2
      BY <2>1, <2>2, <2>6, <1>c
    <3>2. ss[i] = <<k>> \o v[k] /\ tt[i] = <<k>> \o v2[k]
      BY <2>2, <2>3, <2>6, <3>1 DEF Stop
    <3>4. k \notin B
      <4>1. ~(depth2[k] <= depth2[c])
        BY <2>2
      <4> HIDE DEF B
      <4> QED BY <1>2, <4>1
    <3>5. Leads(hk[k], hk2[k]) /\ Leads(Spread(hk, v[k]), Spread(hk2, v2[k]))
      BY <2>2, <3>4
    <3>6. Leads(Spread(hk, <<k>> \o v[k]), Spread(hk2, <<k>> \o v2[k]))
      BY <2>2, <2>4, <3>5, HeadLeads
    <3> QED BY <3>2, <3>6
  <2> QED BY <2>5, <2>6
<1>7. Leads(Spread(hk, v[c]), Spread(hk2, v2[c]))
  BY <1>3, <1>5, <1>6, FlattenLeads
<1> QED BY <1>2, <1>7

-----------------------------------------------------------------------------
(* collectScopeContexts(): the traversal finds what is promised. *)

\* CollectScopeContexts, of any tree, and what its contexts' hooks come to.
Heads(way, v) == [i \in DOMAIN way |-> <<way[i]>> \o v[way[i]]]
InsideOf(ow, ch, leaf) == {c \in Contexts : ow[c] = <<>> /\ c \notin ToSet(ch[leaf])}
CollectOf(par, ow, kids, leaf) ==
  FlattenSeq(Heads(ChainOf(par)[leaf], VisitOf(kids, InsideOf(ow, ChainOf(par), leaf), Contexts)))
ResolvedOf(par, ow, kids, hk, leaf) == Spread(hk, CollectOf(par, ow, kids, leaf))

\* InScope and PromisedIn, of any tree.
InScopeOf(par, ow, live, leaf) ==
  {c \in {Root} \cup live : \E a \in ToSet(ChainOf(par)[leaf]) :
     /\ a \in ToSet(ChainOf(par)[c])
     /\ \A d \in ToSet(ChainOf(par)[c]) \ ToSet(ChainOf(par)[a]) : ow[d] = <<>>}
PromisedOf(par, ow, hk, live, leaf) == UNION {ToSet(hk[c]) : c \in InScopeOf(par, ow, live, leaf)}

Placed(par, kids, c) == \E i \in DOMAIN kids[par[c]] : kids[par[c]][i] = c

\* What registration keeps true of the tree: a context that was never made, of a plugin
\* that is absent or has none of its own, holds nothing and is nobody's parent.
Sound(par, ow, kids, hk, live) ==
  /\ \E depth, n : Tree(par, kids, depth, n)
  /\ Lists(hk, Contexts, Nat) /\ Lists(ow, Contexts, Segments) /\ live \subseteq Plugins
  /\ \A q \in Contexts : \A i \in DOMAIN kids[q] : kids[q][i] \in live
  /\ \A c \in Plugins : Placed(par, kids, c) \/ (hk[c] = <<>> /\ ow[c] = <<>> /\ kids[c] = <<>> /\ par[c] = Root)

LEMMA SoundTree ==
  ASSUME NEW par, NEW ow, NEW kids, NEW hk, NEW live, Sound(par, ow, kids, hk, live)
  PROVE  \E depth, n : Grown(par, kids, depth, n, ChainOf(par))
BY ChainSolved DEF Sound, Grown

LEMMA HeadsTyped ==
  ASSUME NEW way \in Seq(Contexts), NEW v, \A c \in Contexts : v[c] \in Seq(Contexts)
  PROVE  Heads(way, v) \in Seq(Seq(Contexts)) /\ Len(Heads(way, v)) = Len(way)
         /\ \A i \in 1..Len(way) : Heads(way, v)[i] = <<way[i]>> \o v[way[i]] /\ way[i] \in Contexts
<1>1. PICK l \in Nat : l = Len(way) /\ DOMAIN way = 1..l
  OBVIOUS
<1>2. \A i \in 1..l : way[i] \in Contexts
  BY <1>1
<1>3. \A i \in 1..l : <<way[i]>> \o v[way[i]] \in Seq(Contexts)
  <2> SUFFICES ASSUME NEW i \in 1..l PROVE <<way[i]>> \o v[way[i]] \in Seq(Contexts)
    OBVIOUS
  <2>1. PICK k \in Contexts : k = way[i]
    BY <1>2
  <2>2. <<k>> \in Seq(Contexts) /\ v[k] \in Seq(Contexts)
    OBVIOUS
  <2>3. <<k>> \o v[k] \in Seq(Contexts)
    BY <2>2, ConcatProperties
  <2> QED BY <2>1, <2>3
<1>4. Heads(way, v) = [i \in 1..l |-> <<way[i]>> \o v[way[i]]]
  BY <1>1 DEF Heads
<1>5. Heads(way, v) \in Seq(Seq(Contexts)) /\ Len(Heads(way, v)) = l
  BY <1>3, <1>4
<1> QED BY <1>1, <1>2, <1>4, <1>5

LEMMA CollectedSet ==
  ASSUME NEW par, NEW ow, NEW kids, NEW hk, NEW live, Sound(par, ow, kids, hk, live), NEW leaf \in Contexts,
         NEW ch, ch = ChainOf(par), NEW v, v = VisitOf(kids, InsideOf(ow, ch, leaf), Contexts)
  PROVE  /\ CollectOf(par, ow, kids, leaf) \in Seq(Contexts)
         /\ \A x : x \in ToSet(CollectOf(par, ow, kids, leaf)) <=> \E a \in Up(ch, leaf) : x = a \/ x \in ToSet(v[a])
<1>1. PICK depth, n : Grown(par, kids, depth, n, ch)
  BY SoundTree
<1>2. Visited(kids, InsideOf(ow, ch, leaf), Contexts, v)
  BY <1>1, VisitSolved DEF Grown
<1>3. PICK way \in Seq(Contexts) : way = ch[leaf]
  BY <1>1 DEF Grown, Chained
<1>4. \A c \in Contexts : v[c] \in Seq(Contexts)
  BY <1>2 DEF Visited
<1>5. PICK ss \in Seq(Seq(Contexts)) : ss = Heads(way, v) /\ Len(ss) = Len(way)
                                       /\ \A i \in 1..Len(way) : ss[i] = <<way[i]>> \o v[way[i]] /\ way[i] \in Contexts
  BY <1>4, HeadsTyped
<1>6. CollectOf(par, ow, kids, leaf) = FlattenSeq(ss)
  BY <1>3, <1>5 DEF CollectOf
<1>7. \A i \in 1..Len(way) : ToSet(ss[i]) = {way[i]} \cup ToSet(v[way[i]])
  <2> SUFFICES ASSUME NEW i \in 1..Len(way) PROVE ToSet(ss[i]) = {way[i]} \cup ToSet(v[way[i]])
    OBVIOUS
  <2>1. PICK k \in Contexts : k = way[i] /\ ss[i] = <<k>> \o v[k]
    BY <1>5
  <2>2. PICK e \in Seq(Contexts) : e = <<k>>
    <3>1. <<k>> \in Seq(Contexts)
      OBVIOUS
    <3> QED BY <3>1
  <2>3. ToSet(e) = {k}
    BY <2>2 DEF ToSet
  <2>4. ToSet(e \o v[k]) = ToSet(e) \cup ToSet(v[k])
    BY <1>4, ConcatSet
  <2> QED BY <2>1, <2>2, <2>3, <2>4
<1>8. \A x : x \in ToSet(FlattenSeq(ss)) <=> \E i \in 1..Len(ss) : x \in ToSet(ss[i])
  BY FlattenedSet
<1>9. Up(ch, leaf) = {way[i] : i \in 1..Len(way)}
  <2>1. DOMAIN way = 1..Len(way)
    OBVIOUS
  <2> QED BY <1>3, <2>1 DEF Up, ToSet
<1>10. \A x : x \in ToSet(FlattenSeq(ss)) <=> \E a \in Up(ch, leaf) : x = a \/ x \in ToSet(v[a])
  <2> SUFFICES ASSUME NEW x
               PROVE  x \in ToSet(FlattenSeq(ss)) <=> \E a \in Up(ch, leaf) : x = a \/ x \in ToSet(v[a])
    OBVIOUS
  <2>1. \A i \in 1..Len(way) : x \in ToSet(ss[i]) <=> x = way[i] \/ x \in ToSet(v[way[i]])
    BY <1>7
  <2>2. x \in ToSet(FlattenSeq(ss)) <=> \E i \in 1..Len(way) : x \in ToSet(ss[i])
    BY <1>5, <1>8
  <2>3. x \in ToSet(FlattenSeq(ss)) <=> \E i \in 1..Len(way) : x = way[i] \/ x \in ToSet(v[way[i]])
    BY <2>1, <2>2
  <2> HIDE DEF ToSet
  <2> QED BY <1>9, <2>3
<1> QED BY <1>5, <1>6, <1>10, FlattenTyped

\* A context that was made has only such contexts above it.
LEMMA UpPlaced ==
  ASSUME NEW par, NEW ow, NEW kids, NEW hk, NEW live, Sound(par, ow, kids, hk, live),
         NEW c \in Contexts, c = Root \/ Placed(par, kids, c)
  PROVE  \A k \in Up(ChainOf(par), c) \cap Plugins : Placed(par, kids, k)
<1>1. PICK depth, n, ch : Grown(par, kids, depth, n, ch) /\ ch = ChainOf(par)
  BY SoundTree
<1> DEFINE B == {x \in Contexts : (x = Root \/ Placed(par, kids, x)) /\ ~ \A k \in Up(ch, x) \cap Plugins : Placed(par, kids, k)}
<1>2. SUFFICES ASSUME B # {} PROVE FALSE
  BY <1>1
<1>3. PICK b \in B : \A x \in B : depth[b] <= depth[x]
  <2>1. B \subseteq Contexts
    OBVIOUS
  <2> HIDE DEF B
  <2> QED BY <1>1, <1>2, <2>1, Shallowest, GrownFacts
<1>4. CASE b = Root
  <2>1. Up(ch, b) \cap Plugins = {}
    BY <1>1, <1>4, GrownFacts
  <2> QED BY <1>3, <2>1
<1>5. CASE b # Root
  <2>1. b \in Plugins /\ Placed(par, kids, b)
    BY <1>1, <1>3, <1>5, GrownFacts
  <2>2. par[b] \in Contexts /\ depth[par[b]] < depth[b] /\ depth[par[b]] \in Nat /\ depth[b] \in Nat
        /\ Up(ch, b) = Up(ch, par[b]) \cup {b}
    BY <1>1, <2>1, GrownFacts
  <2>3. kids[par[b]] # <<>>
    BY <2>1 DEF Placed
  <2>4. par[b] = Root \/ Placed(par, kids, par[b])
    BY <1>1, <2>2, <2>3, GrownFacts DEF Sound
  <2>5. par[b] \notin B
    <3>1. ~(depth[b] <= depth[par[b]])
      BY <2>2
    <3> HIDE DEF B
    <3> QED BY <1>3, <3>1
  <2> QED BY <1>3, <2>1, <2>2, <2>4, <2>5
<1> QED BY <1>4, <1>5

\* collectScopeContexts() finds, for any tree that createChild() can make, the hooks of
\* the contexts whose scope a route of `leaf` is in, no less and no more: what the two
\* traversals list is what the promise says with no traversal.
THEOREM CollectedIsPromised ==
  ASSUME NEW par, NEW ow, NEW kids, NEW hk, NEW live, Sound(par, ow, kids, hk, live), NEW leaf \in Contexts
  PROVE  ResolvedOf(par, ow, kids, hk, leaf) \in Seq(Nat)
         /\ ToSet(ResolvedOf(par, ow, kids, hk, leaf)) = PromisedOf(par, ow, hk, live, leaf)
<1>1. PICK depth, n, ch : Grown(par, kids, depth, n, ch) /\ ch = ChainOf(par)
  BY SoundTree
<1>2. PICK inside, v : inside = InsideOf(ow, ch, leaf) /\ v = VisitOf(kids, inside, Contexts)
                       /\ Visited(kids, inside, Contexts, v)
  BY <1>1, VisitSolved DEF Grown
<1>3. PICK all \in Seq(Contexts) : all = CollectOf(par, ow, kids, leaf)
        /\ \A x : x \in ToSet(all) <=> \E a \in Up(ch, leaf) : x = a \/ x \in ToSet(v[a])
  BY <1>1, <1>2, CollectedSet
<1>4. Lists(hk, Contexts, Nat) /\ live \subseteq Plugins
  BY DEF Sound
<1>5. ResolvedOf(par, ow, kids, hk, leaf) = Spread(hk, all)
  BY <1>3 DEF ResolvedOf
<1>6. \A x : x \in ToSet(Spread(hk, all)) <=> \E c \in ToSet(all) : x \in ToSet(hk[c])
  BY <1>4, SpreadSet
<1>7. PICK scope : scope = InScopeOf(par, ow, live, leaf)
  OBVIOUS
<1>8. \A c : c \in scope <=> c \in {Root} \cup live /\ \E a \in Up(ch, leaf) :
               a \in Up(ch, c) /\ \A d \in Up(ch, c) \ Up(ch, a) : ow[d] = <<>>
  BY <1>1, <1>7 DEF InScopeOf, Up
<1>9. \A c \in Contexts : c \in inside <=> ow[c] = <<>> /\ c \notin Up(ch, leaf)
  BY <1>2 DEF InsideOf, Up
<1>10. ASSUME NEW c \in ToSet(all), NEW x \in ToSet(hk[c])
       PROVE  c \in scope
  <2>1. PICK a \in Up(ch, leaf) : c = a \/ c \in ToSet(v[a])
    BY <1>3
  <2>2. a \in Contexts
    BY <1>1, GrownFacts
  <2>3. CASE c = a
    <3>1. a \in Up(ch, c) /\ Up(ch, c) \ Up(ch, a) = {}
      BY <1>1, <2>2, <2>3, SelfUp
    <3>2. hk[c] # <<>>
      BY DEF ToSet
    <3>3. c = Root \/ Placed(par, kids, c)
      BY <1>1, <2>2, <2>3, <3>2, GrownFacts DEF Sound
    <3>4. c = Root \/ c \in live
      <4>1. c # Root => par[c] \in Contexts
        BY <1>1, <2>2, <2>3, GrownFacts
      <4> QED BY <3>3, <4>1 DEF Sound, Placed
    <3> QED BY <1>8, <3>1, <3>4
  <2>4. CASE c \in ToSet(v[a])
    <3>1. /\ c \in Plugins /\ a \in Up(ch, c) /\ Up(ch, c) \ Up(ch, a) \subseteq inside
          /\ \E i \in DOMAIN kids[par[c]] : kids[par[c]][i] = c
      BY <1>1, <1>2, <2>2, <2>4, VisitedOnly
    <3>2. c \in live
      <4>1. par[c] \in Contexts
        BY <1>1, <3>1, GrownFacts
      <4> QED BY <3>1, <4>1 DEF Sound
    <3>3. \A d \in Up(ch, c) \ Up(ch, a) : ow[d] = <<>>
      <4>1. Up(ch, c) \subseteq Contexts
        BY <1>1, <3>1, GrownFacts
      <4> QED BY <1>9, <3>1, <4>1
    <3> QED BY <1>8, <3>1, <3>2, <3>3
  <2> QED BY <2>1, <2>3, <2>4
<1>11. ASSUME NEW c \in scope, NEW x \in ToSet(hk[c])
       PROVE  c \in ToSet(all)
  <2>1. c \in {Root} \cup live /\ c \in Contexts
    BY <1>1, <1>4, <1>8, GrownFacts
  <2>2. hk[c] # <<>>
    BY DEF ToSet
  <2>3. c = Root \/ Placed(par, kids, c)
    BY <2>1, <2>2, <1>1, GrownFacts DEF Sound
  <2> DEFINE D == {a \in Up(ch, leaf) : a \in Up(ch, c) /\ \A d \in Up(ch, c) \ Up(ch, a) : ow[d] = <<>>}
  <2>4. D # {} /\ D \subseteq Contexts
    BY <1>1, <1>8, GrownFacts
  <2>5. PICK a \in D : \A b \in D : depth[b] <= depth[a]
    <3> HIDE DEF D
    <3> QED BY <1>1, <2>4, Deepest, GrownFacts
  <2>6. a \in Contexts /\ a \in Up(ch, leaf) /\ a \in Up(ch, c) /\ \A d \in Up(ch, c) \ Up(ch, a) : ow[d] = <<>>
    BY <2>4
  <2>7. CASE a = c
    BY <1>3, <2>6, <2>7
  <2>8. CASE a # c
    <3>1. ASSUME NEW e \in Up(ch, c) \ Up(ch, a) PROVE e \notin Up(ch, leaf)
      <4>1. SUFFICES ASSUME e \in Up(ch, leaf) PROVE FALSE
        OBVIOUS
      <4>2. e \in Contexts
        BY <1>1, <2>1, GrownFacts
      <4>3. a \in Up(ch, e)
        BY <1>1, <2>1, <2>6, UpLinear
      <4>4. Up(ch, a) \subseteq Up(ch, e)
        BY <1>1, <4>2, <4>3, UpTrans
      <4>5. e \in D
        BY <2>6, <4>1, <4>4
      <4>6. a = e \/ depth[a] < depth[e]
        BY <1>1, <4>2, <4>3, UpDepth
      <4>7. a # e
        BY <1>1, <2>6, SelfUp
      <4>8. depth[e] <= depth[a] /\ depth[a] \in Nat /\ depth[e] \in Nat
        <5>1. depth[a] \in Nat /\ depth[e] \in Nat
          BY <1>1, <2>6, <4>2, GrownFacts
        <5> HIDE DEF D
        <5> QED BY <2>5, <4>5, <5>1
      <4> QED BY <4>6, <4>7, <4>8
    <3>2. Up(ch, c) \ Up(ch, a) \subseteq inside
      <4>1. Up(ch, c) \subseteq Contexts
        BY <1>1, <2>1, GrownFacts
      <4> QED BY <1>9, <2>6, <3>1, <4>1
    <3>3. \A k \in Up(ch, c) \cap Plugins : \E i \in DOMAIN kids[par[k]] : kids[par[k]][i] = k
      BY <1>1, <2>1, <2>3, UpPlaced DEF Placed
    <3>4. c \in ToSet(v[a])
      BY <1>1, <1>2, <2>1, <2>6, <2>8, <3>2, <3>3, VisitedAll
    <3> QED BY <1>3, <2>6, <3>4
  <2> QED BY <2>7, <2>8
<1>12. \A x : x \in PromisedOf(par, ow, hk, live, leaf) <=> \E c \in scope : x \in ToSet(hk[c])
  BY <1>7 DEF PromisedOf
<1>13. \A x : x \in ToSet(Spread(hk, all)) <=> x \in PromisedOf(par, ow, hk, live, leaf)
  BY <1>6, <1>10, <1>11, <1>12
<1>14. Spread(hk, all) \in Seq(Nat)
  BY <1>4, SpreadTyped
<1> QED BY <1>5, <1>13, <1>14

-----------------------------------------------------------------------------
(* What a step of registration leaves of chains, promises and prefixes. *)

LEMMA UpClosed ==
  ASSUME NEW par, NEW kids, NEW depth, NEW n, NEW ch, Grown(par, kids, depth, n, ch),
         NEW D, D \subseteq Contexts, \A c \in D : c # Root => par[c] \in D
  PROVE  \A c \in D : Up(ch, c) \subseteq D
<1> DEFINE B == {c \in D : ~(Up(ch, c) \subseteq D)}
<1>1. SUFFICES ASSUME B # {} PROVE FALSE
  OBVIOUS
<1>2. PICK c \in B : \A x \in B : depth[c] <= depth[x]
  <2>1. B \subseteq Contexts
    OBVIOUS
  <2> HIDE DEF B
  <2> QED BY <1>1, <2>1, Shallowest, GrownFacts
<1>3. c \in Plugins /\ c \in Contexts
  BY <1>2, GrownFacts
<1>4. /\ par[c] \in D /\ depth[par[c]] < depth[c] /\ depth[par[c]] \in Nat /\ depth[c] \in Nat
      /\ Up(ch, c) = Up(ch, par[c]) \cup {c}
  BY <1>2, <1>3, GrownFacts
<1>5. par[c] \notin B
  <2> HIDE DEF B
  <2> QED BY <1>2, <1>4
<1> QED BY <1>2, <1>4, <1>5

\* A step of registration: contexts are added, after the others, and hooks.
Grows(par, ow, kids, hk, par2, ow2, kids2, hk2, added) ==
  /\ added \subseteq Plugins /\ \A p \in added : ~Placed(par, kids, p)
  /\ \A c \in Contexts \ added : par2[c] = par[c] /\ ow2[c] = ow[c]
  /\ Extends(kids, kids2) /\ \A c \in Contexts : Leads(hk[c], hk2[c])

LEMMA ChainsStay ==
  ASSUME NEW par, NEW ow, NEW kids, NEW hk, NEW live, Sound(par, ow, kids, hk, live),
         NEW par2, NEW ow2, NEW kids2, NEW hk2, NEW live2, Sound(par2, ow2, kids2, hk2, live2),
         NEW added, Grows(par, ow, kids, hk, par2, ow2, kids2, hk2, added)
  PROVE  \A c \in Contexts \ added : /\ ChainOf(par2)[c] = ChainOf(par)[c]
                                     /\ Up(ChainOf(par), c) \subseteq Contexts \ added
<1>1. PICK depth, n, ch : Grown(par, kids, depth, n, ch) /\ ch = ChainOf(par)
  BY SoundTree
<1>2. PICK depth2, n2, ch2 : Grown(par2, kids2, depth2, n2, ch2) /\ ch2 = ChainOf(par2)
  BY SoundTree
<1> DEFINE D == Contexts \ added
<1>3. \A c \in D : c # Root => par[c] \in D /\ par2[c] = par[c]
  <2> SUFFICES ASSUME NEW c \in D, c # Root PROVE par[c] \in D /\ par2[c] = par[c]
    OBVIOUS
  <2>1. c \in Plugins /\ par[c] \in Contexts /\ Root \notin Plugins /\ Root \in Contexts
    BY <1>1, GrownFacts
  <2>2. Placed(par, kids, c) \/ par[c] = Root
    BY <2>1 DEF Sound
  <2>3. CASE par[c] = Root
    BY <2>1, <2>3 DEF Grows
  <2>4. CASE Placed(par, kids, c)
    <3>1. kids[par[c]] # <<>>
      BY <2>4 DEF Placed
    <3>2. par[c] \in Plugins => Placed(par, kids, par[c])
      BY <3>1 DEF Sound
    <3> QED BY <2>1, <3>2 DEF Grows
  <2> QED BY <2>2, <2>3, <2>4
<1>4. D \subseteq Contexts /\ Chained(par2, ch2)
  BY <1>2 DEF Grown
<1> HIDE DEF D
<1>5. \A c \in D : ch2[c] = ch[c]
  BY <1>1, <1>3, <1>4, ChainsAgree
<1>6. \A c \in D : Up(ch, c) \subseteq D
  BY <1>1, <1>3, <1>4, UpClosed
<1> QED BY <1>1, <1>2, <1>5, <1>6 DEF D

\* What a chain resolves to only grows, and nothing of it moves to the front.
LEMMA ResolvedGrows ==
  ASSUME NEW par, NEW ow, NEW kids, NEW hk, NEW live, Sound(par, ow, kids, hk, live),
         NEW par2, NEW ow2, NEW kids2, NEW hk2, NEW live2, Sound(par2, ow2, kids2, hk2, live2),
         NEW added, Grows(par, ow, kids, hk, par2, ow2, kids2, hk2, added),
         NEW leaf \in Contexts \ added
  PROVE  Leads(ResolvedOf(par, ow, kids, hk, leaf), ResolvedOf(par2, ow2, kids2, hk2, leaf))
<1>1. PICK depth, n, ch : Grown(par, kids, depth, n, ch) /\ ch = ChainOf(par)
  BY SoundTree
<1>2. PICK depth2, n2, ch2 : Grown(par2, kids2, depth2, n2, ch2) /\ ch2 = ChainOf(par2)
  BY SoundTree
<1>3. PICK way \in Seq(Contexts) : way = ch[leaf] /\ way = ch2[leaf]
  BY <1>1, <1>2, ChainsStay DEF Grown, Chained
<1>4. PICK inside, v : inside = InsideOf(ow, ch, leaf) /\ v = VisitOf(kids, inside, Contexts)
                       /\ Visited(kids, inside, Contexts, v)
  BY <1>1, VisitSolved DEF Grown
<1>5. PICK inside2, v2 : inside2 = InsideOf(ow2, ch2, leaf) /\ v2 = VisitOf(kids2, inside2, Contexts)
                       /\ Visited(kids2, inside2, Contexts, v2)
  BY <1>2, VisitSolved DEF Grown
<1>6. \A q \in Contexts : \A i \in DOMAIN kids[q] : kids[q][i] \in inside => kids[q][i] \in inside2
  <2> SUFFICES ASSUME NEW q \in Contexts, NEW i \in DOMAIN kids[q], kids[q][i] \in inside
               PROVE  kids[q][i] \in inside2
    OBVIOUS
  <2>1. PICK k \in Plugins : k = kids[q][i] /\ par[k] = q /\ k \in Contexts
    BY <1>1, KidsDeeper DEF Grown
  <2>2. k \notin added
    BY <2>1 DEF Grows, Placed
  <2>3. ow2[k] = ow[k]
    BY <2>1, <2>2 DEF Grows
  <2> QED BY <1>3, <1>4, <1>5, <2>1, <2>3 DEF InsideOf
<1>7. /\ Lists(hk, Contexts, Nat) /\ Lists(hk2, Contexts, Nat) /\ Extends(kids, kids2)
      /\ kids \in [Contexts -> Seq(Contexts)] /\ \A c \in Contexts : Leads(hk[c], hk2[c])
  BY <1>1 DEF Sound, Grows, Grown, Tree
<1>8. \A c \in Contexts : Leads(Spread(hk, v[c]), Spread(hk2, v2[c]))
  <2>1. Tree(par2, kids2, depth2, n2)
    BY <1>2 DEF Grown
  <2> QED BY <1>4, <1>5, <1>6, <1>7, <2>1, VisitedLeads
<1>9. \A c \in Contexts : v[c] \in Seq(Contexts) /\ v2[c] \in Seq(Contexts)
  BY <1>4, <1>5 DEF Visited
<1>10. PICK ss \in Seq(Seq(Contexts)), tt \in Seq(Seq(Contexts)) :
         /\ ss = Heads(way, v) /\ tt = Heads(way, v2) /\ Len(ss) = Len(way) /\ Len(tt) = Len(way)
         /\ \A i \in 1..Len(way) : ss[i] = <<way[i]>> \o v[way[i]] /\ tt[i] = <<way[i]>> \o v2[way[i]] /\ way[i] \in Contexts
  <2>1. /\ Heads(way, v) \in Seq(Seq(Contexts)) /\ Len(Heads(way, v)) = Len(way)
        /\ \A i \in 1..Len(way) : Heads(way, v)[i] = <<way[i]>> \o v[way[i]] /\ way[i] \in Contexts
    BY <1>9, HeadsTyped
  <2>2. /\ Heads(way, v2) \in Seq(Seq(Contexts)) /\ Len(Heads(way, v2)) = Len(way)
        /\ \A i \in 1..Len(way) : Heads(way, v2)[i] = <<way[i]>> \o v2[way[i]] /\ way[i] \in Contexts
    BY <1>9, HeadsTyped
  <2> QED BY <2>1, <2>2
<1>11. ASSUME NEW i \in 1..Len(ss) PROVE Leads(Spread(hk, ss[i]), Spread(hk2, tt[i]))
  <2>1. PICK k \in Contexts : k = way[i] /\ ss[i] = <<k>> \o v[k] /\ tt[i] = <<k>> \o v2[k]
    BY <1>10
  <2>2. v[k] \in Seq(Contexts) /\ v2[k] \in Seq(Contexts) /\ Leads(hk[k], hk2[k]) /\ Leads(Spread(hk, v[k]), Spread(hk2, v2[k]))
    BY <1>7, <1>8, <1>9
  <2>3. Leads(Spread(hk, <<k>> \o v[k]), Spread(hk2, <<k>> \o v2[k]))
    BY <1>7, <2>2, HeadLeads
  <2> QED BY <2>1, <2>3
<1>12. Len(ss) <= Len(tt)
  <2>1. Len(way) \in Nat
    OBVIOUS
  <2> QED BY <1>10, <2>1
<1>13. Leads(Spread(hk, FlattenSeq(ss)), Spread(hk2, FlattenSeq(tt)))
  BY <1>7, <1>11, <1>12, FlattenLeads
<1>14. ResolvedOf(par, ow, kids, hk, leaf) = Spread(hk, FlattenSeq(ss))
  BY <1>1, <1>3, <1>4, <1>10 DEF ResolvedOf, CollectOf
<1>15. ResolvedOf(par2, ow2, kids2, hk2, leaf) = Spread(hk2, FlattenSeq(tt))
  BY <1>2, <1>3, <1>5, <1>10 DEF ResolvedOf, CollectOf
<1> QED BY <1>13, <1>14, <1>15

\* No more is promised in a context than was, but for the hooks just added.
LEMMA PromisedGrows ==
  ASSUME NEW par, NEW ow, NEW kids, NEW hk, NEW live, Sound(par, ow, kids, hk, live),
         NEW par2, NEW ow2, NEW kids2, NEW hk2, NEW live2, Sound(par2, ow2, kids2, hk2, live2),
         NEW added, Grows(par, ow, kids, hk, par2, ow2, kids2, hk2, added),
         NEW leaf \in Contexts \ added, NEW fresh, \A c \in Contexts : ToSet(hk2[c]) \subseteq ToSet(hk[c]) \cup fresh
  PROVE  PromisedOf(par2, ow2, hk2, live2, leaf) \subseteq PromisedOf(par, ow, hk, live, leaf) \cup fresh
<1>1. PICK depth, n, ch : Grown(par, kids, depth, n, ch) /\ ch = ChainOf(par)
  BY SoundTree
<1>2. PICK ch2 : ch2 = ChainOf(par2)
  OBVIOUS
<1>3. \A c \in Contexts \ added : ch2[c] = ch[c] /\ Up(ch, c) \subseteq Contexts \ added
  BY <1>1, <1>2, ChainsStay
<1> SUFFICES ASSUME NEW c \in InScopeOf(par2, ow2, live2, leaf), NEW x \in ToSet(hk2[c]), x \notin fresh
             PROVE  x \in PromisedOf(par, ow, hk, live, leaf)
  BY DEF PromisedOf
<1>4. PICK a \in Up(ch2, leaf) : a \in Up(ch2, c) /\ \A d \in Up(ch2, c) \ Up(ch2, a) : ow2[d] = <<>>
  BY <1>2 DEF InScopeOf, Up
<1>5. c \in Contexts
  BY DEF InScopeOf, Sound, Contexts
<1>6. x \in ToSet(hk[c])
  BY <1>5
<1>7. hk[c] # <<>>
  BY <1>6 DEF ToSet
<1>8. c = Root \/ Placed(par, kids, c)
  BY <1>1, <1>5, <1>7, GrownFacts DEF Sound
<1>9. c \notin added
  <2>1. Root \notin added
    BY ScopesAssumption DEF Grows
  <2> QED BY <1>8, <2>1 DEF Grows
<1>10. c \in {Root} \cup live
  <2>1. c \in Plugins => par[c] \in Contexts
    BY <1>1, GrownFacts
  <2> QED BY <1>1, <1>5, <1>8, <2>1, GrownFacts DEF Placed, Sound
<1>11. Up(ch2, leaf) = Up(ch, leaf) /\ Up(ch2, c) = Up(ch, c)
  BY <1>3, <1>5, <1>9 DEF Up
<1>12. a \in Contexts \ added
  BY <1>3, <1>4, <1>11
<1>13. Up(ch2, a) = Up(ch, a)
  BY <1>3, <1>12 DEF Up
<1>14. \A d \in Up(ch, c) \ Up(ch, a) : ow[d] = <<>>
  <2>1. \A d \in Up(ch, c) : ow2[d] = ow[d]
    BY <1>3, <1>5, <1>9 DEF Grows
  <2> QED BY <1>4, <1>11, <1>13, <2>1
<1>15. c \in InScopeOf(par, ow, live, leaf)
  BY <1>1, <1>4, <1>10, <1>11, <1>14 DEF InScopeOf, Up
<1> QED BY <1>6, <1>15 DEF PromisedOf

\* Prefixes.
PrefixOf(par, ow, c) == Spread(ow, ChainOf(par)[c])

LEMMA Starts ==
  ASSUME NEW S, NEW s \in Seq(S), NEW t \in Seq(S)
  PROVE  IsPrefix(s, t) <=> Len(s) <= Len(t) /\ \A i \in 1..Len(s) : s[i] = t[i]
<1>1. PICK a \in Nat, b \in Nat : a = Len(s) /\ b = Len(t)
  OBVIOUS
<1>2. SubSeq(s, 1, a) = [i \in 1..a |-> s[i]]
  BY <1>1, SubSeqProperties
<1>3. a <= b => SubSeq(t, 1, a) = [i \in 1..a |-> t[i]]
  BY <1>1, SubSeqProperties
<1>4. a <= b => (SubSeq(s, 1, a) = SubSeq(t, 1, a) <=> \A i \in 1..a : s[i] = t[i])
  BY <1>2, <1>3
<1> QED BY <1>1, <1>4 DEF IsPrefix

LEMMA StartsConcat ==
  ASSUME NEW S, NEW s \in Seq(S), NEW t \in Seq(S)
  PROVE  IsPrefix(s, s \o t)
<1>1. PICK u \in Seq(S) : u = s \o t
  BY ConcatProperties
<1>2. Len(s) <= Len(u) /\ \A i \in 1..Len(s) : s[i] = u[i]
  BY <1>1, ConcatProperties
<1> QED BY <1>1, <1>2, Starts

LEMMA StartsTrans ==
  ASSUME NEW S, NEW s \in Seq(S), NEW t \in Seq(S), NEW u \in Seq(S), IsPrefix(s, t), IsPrefix(t, u)
  PROVE  IsPrefix(s, u)
<1>1. Len(s) <= Len(t) /\ \A i \in 1..Len(s) : s[i] = t[i]
  BY Starts
<1>2. Len(t) <= Len(u) /\ \A i \in 1..Len(t) : t[i] = u[i]
  BY Starts
<1>3. Len(s) \in Nat /\ Len(t) \in Nat /\ Len(u) \in Nat
  OBVIOUS
<1>4. Len(s) <= Len(u) /\ \A i \in 1..Len(s) : s[i] = u[i]
  BY <1>1, <1>2, <1>3
<1> QED BY <1>4, Starts

LEMMA PrefixesNest ==
  ASSUME NEW par, NEW ow, NEW kids, NEW hk, NEW live, Sound(par, ow, kids, hk, live)
  PROVE  \A c \in Contexts : /\ PrefixOf(par, ow, c) \in Seq(Segments)
                             /\ \A a \in Up(ChainOf(par), c) : IsPrefix(PrefixOf(par, ow, a), PrefixOf(par, ow, c))
<1>1. PICK depth, n, ch : Grown(par, kids, depth, n, ch) /\ ch = ChainOf(par)
  BY SoundTree
<1>2. Lists(ow, Contexts, Segments)
  BY DEF Sound
<1>3. ASSUME NEW c \in Contexts PROVE ch[c] \in Seq(Contexts) /\ PrefixOf(par, ow, c) \in Seq(Segments)
  <2>1. ch[c] \in Seq(Contexts)
    BY <1>1 DEF Grown, Chained
  <2> QED BY <1>1, <1>2, <2>1, SpreadTyped DEF PrefixOf
<1>4. ASSUME NEW c \in Contexts PROVE IsPrefix(PrefixOf(par, ow, c), PrefixOf(par, ow, c))
  BY <1>3, Starts
<1> DEFINE B == {c \in Contexts : ~ \A a \in Up(ch, c) : IsPrefix(PrefixOf(par, ow, a), PrefixOf(par, ow, c))}
<1>5. SUFFICES ASSUME B # {} PROVE FALSE
  BY <1>1, <1>3
<1>6. PICK c \in B : \A x \in B : depth[c] <= depth[x]
  <2>1. B \subseteq Contexts
    OBVIOUS
  <2> HIDE DEF B
  <2> QED BY <1>1, <1>5, <2>1, Shallowest, GrownFacts
<1>7. CASE c = Root
  <2>1. Up(ch, c) = {c} /\ c \in Contexts
    BY <1>1, <1>7, GrownFacts
  <2> QED BY <1>4, <1>6, <2>1
<1>8. CASE c # Root
  <2>1. c \in Plugins /\ c \in Contexts
    BY <1>1, <1>6, <1>8, GrownFacts
  <2>2. /\ par[c] \in Contexts /\ depth[par[c]] < depth[c] /\ depth[par[c]] \in Nat /\ depth[c] \in Nat
        /\ Up(ch, c) = Up(ch, par[c]) \cup {c}
    BY <1>1, <2>1, GrownFacts
  <2>3. par[c] \notin B
    <3>1. ~(depth[c] <= depth[par[c]])
      BY <2>2
    <3> HIDE DEF B
    <3> QED BY <1>6, <3>1
  <2>4. IsPrefix(PrefixOf(par, ow, par[c]), PrefixOf(par, ow, c))
    <3>1. PICK w \in Seq(Contexts) : w = ch[par[c]]
      BY <1>3, <2>2
    <3>2. PICK e \in Seq(Contexts) : e = <<c>>
      <4>1. <<c>> \in Seq(Contexts)
        BY <2>1
      <4> QED BY <4>1
    <3>3. ch[c] = w \o e
      <4>1. ch[c] = Append(w, c)
        BY <1>1, <2>1, <3>1 DEF Grown, Chained
      <4> QED BY <4>1, <3>2, <2>1, AppendIsConcat
    <3>4. Spread(ow, w \o e) = Spread(ow, w) \o Spread(ow, e)
      BY <1>2, SpreadConcat
    <3>5. Spread(ow, w) \in Seq(Segments) /\ Spread(ow, e) \in Seq(Segments)
      BY <1>2, SpreadTyped
    <3>6. IsPrefix(Spread(ow, w), Spread(ow, w) \o Spread(ow, e))
      BY <3>5, StartsConcat
    <3> QED BY <1>1, <3>1, <3>3, <3>4, <3>6 DEF PrefixOf
  <2>5. ASSUME NEW a \in Up(ch, par[c]) PROVE IsPrefix(PrefixOf(par, ow, a), PrefixOf(par, ow, c))
    <3>1. IsPrefix(PrefixOf(par, ow, a), PrefixOf(par, ow, par[c]))
      BY <2>2, <2>3
    <3>2. a \in Contexts
      BY <1>1, <2>2, GrownFacts
    <3> QED BY <1>3, <2>1, <2>2, <2>4, <3>1, <3>2, StartsTrans
  <2>6. \A a \in Up(ch, c) : IsPrefix(PrefixOf(par, ow, a), PrefixOf(par, ow, c))
    BY <1>4, <2>1, <2>2, <2>5
  <2> QED BY <1>6, <2>6
<1> QED BY <1>7, <1>8

\* Covering, of any tree: it misses no prefixed context the path is below.
CoversOf(par, ow, path) == {c \in Contexts : ow[c] = <<>> \/ IsPrefix(PrefixOf(par, ow, c), path)}
CoveringOf(par, ow, kids, path) == VisitOf(kids, CoversOf(par, ow, path), {c \in Contexts : ow[c] # <<>>})[Root]

LEMMA CoveredAll ==
  ASSUME NEW par, NEW ow, NEW kids, NEW hk, NEW live, Sound(par, ow, kids, hk, live), NEW path \in Seq(Segments)
  PROVE  /\ CoveringOf(par, ow, kids, path) \in Seq(Contexts)
         /\ \A c \in ToSet(CoveringOf(par, ow, kids, path)) : c \in live
         /\ \A d \in Plugins : ow[d] # <<>> /\ IsPrefix(PrefixOf(par, ow, d), path)
                               => d \in ToSet(CoveringOf(par, ow, kids, path))
<1>1. PICK depth, n, ch : Grown(par, kids, depth, n, ch) /\ ch = ChainOf(par)
  BY SoundTree
<1>2. PICK inside, listed, v : /\ inside = CoversOf(par, ow, path) /\ listed = {c \in Contexts : ow[c] # <<>>}
                               /\ v = VisitOf(kids, inside, listed) /\ Visited(kids, inside, listed, v)
  BY <1>1, VisitSolved DEF Grown
<1>3. v[Root] = CoveringOf(par, ow, kids, path) /\ Root \in Contexts
  BY <1>1, <1>2, GrownFacts DEF CoveringOf
<1>4. v[Root] \in Seq(Contexts)
  BY <1>2, <1>3 DEF Visited
<1>5. ASSUME NEW c \in ToSet(v[Root]) PROVE c \in live
  <2>1. c \in Plugins /\ \E i \in DOMAIN kids[par[c]] : kids[par[c]][i] = c
    BY <1>1, <1>2, <1>3, VisitedOnly
  <2>2. par[c] \in Contexts
    BY <1>1, <2>1, GrownFacts
  <2> QED BY <2>1, <2>2 DEF Sound
<1>6. ASSUME NEW d \in Plugins, ow[d] # <<>>, IsPrefix(PrefixOf(par, ow, d), path) PROVE d \in ToSet(v[Root])
  <2>1. d \in Contexts /\ d # Root /\ d \in listed
    BY <1>1, <1>2, <1>6, GrownFacts
  <2>2. Placed(par, kids, d)
    BY <1>6 DEF Sound
  <2>3. \A k \in Up(ch, d) \cap Plugins : \E i \in DOMAIN kids[par[k]] : kids[par[k]][i] = k
    BY <1>1, <2>1, <2>2, UpPlaced DEF Placed
  <2>4. ASSUME NEW k \in Up(ch, d) PROVE k \in inside
    <3>1. k \in Contexts
      BY <1>1, <2>1, GrownFacts
    <3>2. IsPrefix(PrefixOf(par, ow, k), PrefixOf(par, ow, d)) /\ PrefixOf(par, ow, k) \in Seq(Segments)
          /\ PrefixOf(par, ow, d) \in Seq(Segments)
      BY <1>1, <2>1, <3>1, PrefixesNest
    <3>3. IsPrefix(PrefixOf(par, ow, k), path)
      BY <1>6, <3>2, StartsTrans
    <3> QED BY <1>2, <3>1, <3>3 DEF CoversOf
  <2>5. Root \in Up(ch, d)
    BY <1>1, <2>1, RootUp
  <2>6. Up(ch, d) \ Up(ch, Root) \subseteq inside
    BY <2>4
  <2> QED BY <1>1, <1>2, <2>1, <2>3, <2>5, <2>6, VisitedAll
<1> QED BY <1>3, <1>4, <1>5, <1>6

\* The operators of the model are these, of its variables.
LEMMA Readings ==
  /\ Chain = ChainOf(parent)
  /\ \A leaf : CollectScopeContexts(leaf) = CollectOf(parent, own, children, leaf)
  /\ \A leaf : HooksIn(CollectScopeContexts(leaf)) = ResolvedOf(parent, own, children, hooks, leaf)
  /\ \A leaf : PromisedIn(leaf) = PromisedOf(parent, own, hooks, Registered, leaf)
  /\ \A c : Prefix(c) = PrefixOf(parent, own, c)
  /\ \A path : Covering(path) = CoveringOf(parent, own, children, path)
<1>1. Chain = ChainOf(parent)
  BY DEF Chain, ChainOf, Lineage
<1>2. \A inside, listed : Visit(inside, listed) = VisitOf(children, inside, listed)
  BY DEF Visit, VisitOf, Descent, Stops, Stop
<1>3. \A leaf : CollectScopeContexts(leaf) = CollectOf(parent, own, children, leaf)
  BY <1>1, <1>2 DEF CollectScopeContexts, CollectOf, Heads, InsideOf
<1>4. \A leaf : HooksIn(CollectScopeContexts(leaf)) = ResolvedOf(parent, own, children, hooks, leaf)
  BY <1>3 DEF HooksIn, ResolvedOf, Spread, HooksAt
<1>5. \A leaf : PromisedIn(leaf) = PromisedOf(parent, own, hooks, Registered, leaf)
  BY <1>1 DEF PromisedIn, InScope, PromisedOf, InScopeOf
<1>6. \A c : Prefix(c) = PrefixOf(parent, own, c)
  BY <1>1 DEF Prefix, PrefixOf, Spread, HooksAt
<1>7. \A path : Covering(path) = CoveringOf(parent, own, children, path)
  BY <1>2, <1>6 DEF Covering, CoveringOf, CoversOf, PrefixCoversPath
<1> QED BY <1>1, <1>3, <1>4, <1>5, <1>6, <1>7

-----------------------------------------------------------------------------
(* The scopes and the requests. *)

Bindings == [ctx : Contexts, route : BOOLEAN, path : Seq(Segments), local : Seq(Nat), chain : Seq(Nat)]
CallersAt == {"idle", "waiting", "ready", "missing", "hooks", "handled"}
CallerRecords == [at : CallersAt, path : Seq(Segments), binding : Nat, list : Seq(Nat), next : Nat,
                  owed : SUBSET Nat, ran : SUBSET Nat, before : SUBSET Plugins]

\* What a binding's chain is resolved to, and what its requests are promised.
Whole(par, ow, kids, hk, b) == ResolvedOf(par, ow, kids, hk, b.ctx) \o b.local
Owing(par, ow, hk, live, b) == PromisedOf(par, ow, hk, live, b.ctx) \cup ToSet(b.local)

LEMMA WholeIs ==
  ASSUME NEW par, NEW ow, NEW kids, NEW hk, NEW live, Sound(par, ow, kids, hk, live), NEW b \in Bindings
  PROVE  Whole(par, ow, kids, hk, b) \in Seq(Nat) /\ ToSet(Whole(par, ow, kids, hk, b)) = Owing(par, ow, hk, live, b)
<1>1. PICK leaf \in Contexts, s \in Seq(Nat) : leaf = b.ctx /\ s = b.local
  BY DEF Bindings
<1>2. PICK t \in Seq(Nat) : t = ResolvedOf(par, ow, kids, hk, leaf) /\ ToSet(t) = PromisedOf(par, ow, hk, live, leaf)
  BY CollectedIsPromised
<1>3. t \o s \in Seq(Nat) /\ ToSet(t \o s) = ToSet(t) \cup ToSet(s)
  BY ConcatSet, ConcatProperties
<1> QED BY <1>1, <1>2, <1>3 DEF Whole, Owing

\* The scopes: a chain is at most behind what it resolves to, and not that when nothing is dirty.
BindingsOk(par, ow, kids, hk, live, bs, dirt) ==
  /\ bs \in Seq(Bindings) /\ Len(bs) > 0 /\ ~bs[1].route /\ bs[1].ctx = Root
  /\ \A b \in DOMAIN bs : /\ bs[b].ctx \in {Root} \cup live
                          /\ ~bs[b].route => bs[b].local = <<>>
                          /\ Leads(bs[b].chain, Whole(par, ow, kids, hk, bs[b]))
                          /\ ~dirt => bs[b].chain = Whole(par, ow, kids, hk, bs[b])

WalkOf(bs, c) == IF c.binding = 0 THEN c.list ELSE bs[c.binding].chain
Ahead(bs, c) == {WalkOf(bs, c)[j] : j \in c.next..Len(WalkOf(bs, c))}

\* A request: what it is owed it has run or has before it; what it is owed at a miss is
\* in the chains it may be sent through.
CallerOk(par, ow, hk, live, m, bs, c) ==
  /\ c \in CallerRecords
  /\ c.at \in {"idle", "waiting", "ready", "missing"} => c.next = 1 /\ c.ran = {}
  /\ c.at = "missing" =>
       /\ c.binding \in DOMAIN bs /\ c.owed \subseteq 1..m
       /\ \A b \in DOMAIN bs : b <= c.binding \/ ~bs[b].route =>
            c.owed \cap Owing(par, ow, hk, live, bs[b]) \subseteq ToSet(bs[b].chain)
  /\ c.at \in {"hooks", "handled"} =>
       /\ c.next > 0 /\ c.binding \in {0} \cup DOMAIN bs
       /\ c.binding > 1 => c.ran \subseteq Owing(par, ow, hk, live, bs[c.binding])
  /\ c.at = "hooks" => c.owed \subseteq c.ran \cup Ahead(bs, c)
  /\ c.at = "handled" => c.owed \subseteq c.ran

LEMMA BindingFields ==
  ASSUME NEW bs \in Seq(Bindings), NEW b \in DOMAIN bs
  PROVE  /\ bs[b] \in Bindings /\ bs[b].ctx \in Contexts /\ bs[b].local \in Seq(Nat) /\ bs[b].chain \in Seq(Nat)
         /\ bs[b].route \in BOOLEAN
<1>1. bs[b] \in Bindings
  OBVIOUS
<1> QED BY <1>1 DEF Bindings

LEMMA WholeGrows ==
  ASSUME NEW par, NEW ow, NEW kids, NEW hk, NEW live, Sound(par, ow, kids, hk, live),
         NEW par2, NEW ow2, NEW kids2, NEW hk2, NEW live2, Sound(par2, ow2, kids2, hk2, live2),
         NEW added, Grows(par, ow, kids, hk, par2, ow2, kids2, hk2, added),
         NEW b \in Bindings, b.ctx \notin added
  PROVE  Leads(Whole(par, ow, kids, hk, b), Whole(par2, ow2, kids2, hk2, b))
<1>1. PICK leaf \in Contexts, s \in Seq(Nat) : leaf = b.ctx /\ s = b.local
  BY DEF Bindings
<1>2. PICK t \in Seq(Nat) : t = ResolvedOf(par, ow, kids, hk, leaf)
  BY CollectedIsPromised
<1>3. PICK u \in Seq(Nat) : u = ResolvedOf(par2, ow2, kids2, hk2, leaf)
  BY CollectedIsPromised
<1>4. Leads(t, u)
  BY <1>1, <1>2, <1>3, ResolvedGrows
<1>5. Leads(s, s)
  BY LeadsSelf
<1>6. Leads(t \o s, u \o s)
  BY <1>4, <1>5, LeadsConcat
<1> QED BY <1>1, <1>2, <1>3, <1>6 DEF Whole

LEMMA GrowthKeepsBindings ==
  ASSUME NEW par, NEW ow, NEW kids, NEW hk, NEW live, Sound(par, ow, kids, hk, live),
         NEW par2, NEW ow2, NEW kids2, NEW hk2, NEW live2, Sound(par2, ow2, kids2, hk2, live2),
         NEW added, Grows(par, ow, kids, hk, par2, ow2, kids2, hk2, added),
         added \cap live = {}, live \subseteq live2,
         NEW bs, NEW dirt, BindingsOk(par, ow, kids, hk, live, bs, dirt)
  PROVE  BindingsOk(par2, ow2, kids2, hk2, live2, bs, TRUE)
<1>1. bs \in Seq(Bindings) /\ Len(bs) > 0 /\ ~bs[1].route /\ bs[1].ctx = Root
  BY DEF BindingsOk
<1>2. ASSUME NEW b \in DOMAIN bs
      PROVE  /\ bs[b].ctx \in {Root} \cup live2
             /\ ~bs[b].route => bs[b].local = <<>>
             /\ Leads(bs[b].chain, Whole(par2, ow2, kids2, hk2, bs[b]))
  <2>1. /\ bs[b].ctx \in {Root} \cup live /\ (~bs[b].route => bs[b].local = <<>>)
        /\ Leads(bs[b].chain, Whole(par, ow, kids, hk, bs[b]))
    BY DEF BindingsOk
  <2>2. bs[b] \in Bindings /\ bs[b].chain \in Seq(Nat)
    BY <1>1, BindingFields
  <2>3. bs[b].ctx \notin added
    BY <2>1, ScopesAssumption DEF Grows
  <2>4. Leads(Whole(par, ow, kids, hk, bs[b]), Whole(par2, ow2, kids2, hk2, bs[b]))
    BY <2>2, <2>3, WholeGrows
  <2>5. Whole(par, ow, kids, hk, bs[b]) \in Seq(Nat)
    BY <2>2, WholeIs
  <2>6. Whole(par2, ow2, kids2, hk2, bs[b]) \in Seq(Nat)
    BY <2>2, WholeIs
  <2>7. Leads(bs[b].chain, Whole(par2, ow2, kids2, hk2, bs[b]))
    BY <2>1, <2>2, <2>4, <2>5, <2>6, LeadsTrans
  <2> QED BY <2>1, <2>7
<1> QED BY <1>1, <1>2 DEF BindingsOk

LEMMA GrowthKeepsCaller ==
  ASSUME NEW par, NEW ow, NEW kids, NEW hk, NEW live, Sound(par, ow, kids, hk, live),
         NEW par2, NEW ow2, NEW kids2, NEW hk2, NEW live2, Sound(par2, ow2, kids2, hk2, live2),
         NEW added, Grows(par, ow, kids, hk, par2, ow2, kids2, hk2, added),
         added \cap live = {},
         NEW bs, NEW dirt, BindingsOk(par, ow, kids, hk, live, bs, dirt),
         NEW m \in Nat, NEW m2 \in Nat, m <= m2,
         \A c \in Contexts : ToSet(hk2[c]) \subseteq ToSet(hk[c]) \cup (m + 1)..m2,
         NEW c, CallerOk(par, ow, hk, live, m, bs, c)
  PROVE  CallerOk(par2, ow2, hk2, live2, m2, bs, c)
<1>1. bs \in Seq(Bindings)
  BY DEF BindingsOk
<1>2. ASSUME NEW b \in DOMAIN bs
      PROVE  /\ Owing(par, ow, hk, live, bs[b]) \subseteq Owing(par2, ow2, hk2, live2, bs[b])
             /\ Owing(par2, ow2, hk2, live2, bs[b]) \subseteq Owing(par, ow, hk, live, bs[b]) \cup (m + 1)..m2
  <2>1. bs[b] \in Bindings /\ bs[b].ctx \in Contexts
    BY <1>1, BindingFields
  <2>2. bs[b].ctx \notin added
    BY ScopesAssumption DEF Grows, BindingsOk
  <2>3. Leads(Whole(par, ow, kids, hk, bs[b]), Whole(par2, ow2, kids2, hk2, bs[b]))
    BY <2>1, <2>2, WholeGrows
  <2>4. Whole(par, ow, kids, hk, bs[b]) \in Seq(Nat) /\ ToSet(Whole(par, ow, kids, hk, bs[b])) = Owing(par, ow, hk, live, bs[b])
    BY <2>1, WholeIs
  <2>5. Whole(par2, ow2, kids2, hk2, bs[b]) \in Seq(Nat)
        /\ ToSet(Whole(par2, ow2, kids2, hk2, bs[b])) = Owing(par2, ow2, hk2, live2, bs[b])
    BY <2>1, WholeIs
  <2>6. Owing(par, ow, hk, live, bs[b]) \subseteq Owing(par2, ow2, hk2, live2, bs[b])
    BY <2>3, <2>4, <2>5, LeadsSet
  <2>7. PICK fresh : fresh = (m + 1)..m2
    OBVIOUS
  <2>8. PICK leaf \in Contexts \ added : leaf = bs[b].ctx
    BY <2>1, <2>2
  <2>10. \A k \in Contexts : ToSet(hk2[k]) \subseteq ToSet(hk[k]) \cup fresh
    BY <2>7
  <2>9. PromisedOf(par2, ow2, hk2, live2, leaf) \subseteq PromisedOf(par, ow, hk, live, leaf) \cup fresh
    BY <2>10, PromisedGrows
  <2> QED BY <2>6, <2>7, <2>8, <2>9 DEF Owing
<1>3. c.at = "missing" =>
       /\ c.binding \in DOMAIN bs /\ c.owed \subseteq 1..m2
       /\ \A b \in DOMAIN bs : b <= c.binding \/ ~bs[b].route =>
            c.owed \cap Owing(par2, ow2, hk2, live2, bs[b]) \subseteq ToSet(bs[b].chain)
  <2> SUFFICES ASSUME c.at = "missing"
               PROVE  /\ c.binding \in DOMAIN bs /\ c.owed \subseteq 1..m2
                      /\ \A b \in DOMAIN bs : b <= c.binding \/ ~bs[b].route =>
                           c.owed \cap Owing(par2, ow2, hk2, live2, bs[b]) \subseteq ToSet(bs[b].chain)
    OBVIOUS
  <2>1. /\ c.binding \in DOMAIN bs /\ c.owed \subseteq 1..m
        /\ \A b \in DOMAIN bs : b <= c.binding \/ ~bs[b].route =>
             c.owed \cap Owing(par, ow, hk, live, bs[b]) \subseteq ToSet(bs[b].chain)
    BY DEF CallerOk
  <2>2. \A x \in c.owed : x \in 1..m2 /\ x \notin (m + 1)..m2
    BY <2>1
  <2>3. ASSUME NEW b \in DOMAIN bs, b <= c.binding \/ ~bs[b].route
        PROVE  c.owed \cap Owing(par2, ow2, hk2, live2, bs[b]) \subseteq ToSet(bs[b].chain)
    <3>1. Owing(par2, ow2, hk2, live2, bs[b]) \subseteq Owing(par, ow, hk, live, bs[b]) \cup (m + 1)..m2
      BY <1>2
    <3> QED BY <2>1, <2>2, <2>3, <3>1
  <2> QED BY <2>1, <2>2, <2>3
<1>4. c.at \in {"hooks", "handled"} =>
       /\ c.next > 0 /\ c.binding \in {0} \cup DOMAIN bs
       /\ c.binding > 1 => c.ran \subseteq Owing(par2, ow2, hk2, live2, bs[c.binding])
  <2> SUFFICES ASSUME c.at \in {"hooks", "handled"}
               PROVE  /\ c.next > 0 /\ c.binding \in {0} \cup DOMAIN bs
                      /\ c.binding > 1 => c.ran \subseteq Owing(par2, ow2, hk2, live2, bs[c.binding])
    OBVIOUS
  <2>1. /\ c.next > 0 /\ c.binding \in {0} \cup DOMAIN bs
        /\ c.binding > 1 => c.ran \subseteq Owing(par, ow, hk, live, bs[c.binding])
    BY DEF CallerOk
  <2>2. c.binding > 1 => c.binding \in DOMAIN bs
    BY <2>1
  <2> QED BY <1>2, <2>1, <2>2
<1>5. /\ c \in CallerRecords
      /\ c.at \in {"idle", "waiting", "ready", "missing"} => c.next = 1 /\ c.ran = {}
      /\ c.at = "hooks" => c.owed \subseteq c.ran \cup Ahead(bs, c)
      /\ c.at = "handled" => c.owed \subseteq c.ran
  BY DEF CallerOk
<1> QED BY <1>3, <1>4, <1>5 DEF CallerOk

\* A route is added: its chain is empty until the next flush.
LEMMA RouteKeepsBindings ==
  ASSUME NEW par, NEW ow, NEW kids, NEW hk, NEW live, Sound(par, ow, kids, hk, live),
         NEW bs, NEW dirt, BindingsOk(par, ow, kids, hk, live, bs, dirt),
         NEW nb \in Bindings, nb.route, nb.ctx \in {Root} \cup live, nb.chain = <<>>
  PROVE  BindingsOk(par, ow, kids, hk, live, Append(bs, nb), TRUE)
<1>1. bs \in Seq(Bindings) /\ Len(bs) > 0 /\ ~bs[1].route /\ bs[1].ctx = Root
  BY DEF BindingsOk
<1>2. PICK cs : cs = Append(bs, nb)
  OBVIOUS
<1>3. PICK n \in Nat : n = Len(bs) /\ n > 0
  BY <1>1
<1>4. /\ cs \in Seq(Bindings) /\ Len(cs) = n + 1 /\ DOMAIN cs = 1..n + 1 /\ DOMAIN bs = 1..n
      /\ cs[n + 1] = nb /\ \A i \in 1..n : cs[i] = bs[i]
  BY <1>1, <1>2, <1>3, AppendProperties
<1>5. cs[1] = bs[1]
  BY <1>3, <1>4
<1>6. ASSUME NEW b \in DOMAIN cs
      PROVE  /\ cs[b].ctx \in {Root} \cup live
             /\ ~cs[b].route => cs[b].local = <<>>
             /\ Leads(cs[b].chain, Whole(par, ow, kids, hk, cs[b]))
  <2>1. CASE b \in 1..n
    BY <1>4, <2>1 DEF BindingsOk
  <2>2. CASE b = n + 1
    <3>1. cs[b] = nb
      BY <1>4, <2>2
    <3>2. Leads(nb.chain, Whole(par, ow, kids, hk, nb))
      BY DEF Leads
    <3> QED BY <3>1, <3>2
  <2> QED BY <1>4, <2>1, <2>2
<1>7. BindingsOk(par, ow, kids, hk, live, cs, TRUE)
  <2>1. Len(cs) > 0
    BY <1>3, <1>4
  <2> QED BY <1>1, <1>4, <1>5, <1>6, <2>1 DEF BindingsOk
<1> QED BY <1>2, <1>7

LEMMA RouteKeepsCaller ==
  ASSUME NEW par, NEW ow, NEW hk, NEW live, NEW bs \in Seq(Bindings), NEW nb \in Bindings, nb.route,
         NEW m \in Nat, NEW m2 \in Nat, m <= m2, NEW c, CallerOk(par, ow, hk, live, m, bs, c)
  PROVE  CallerOk(par, ow, hk, live, m2, Append(bs, nb), c)
<1>2. PICK cs : cs = Append(bs, nb)
  OBVIOUS
<1>3. PICK n \in Nat : n = Len(bs)
  OBVIOUS
<1>4. /\ DOMAIN cs = 1..n + 1 /\ DOMAIN bs = 1..n
      /\ cs[n + 1] = nb /\ \A i \in 1..n : cs[i] = bs[i]
  BY <1>2, <1>3, AppendProperties
<1>5. /\ c \in CallerRecords
      /\ c.at \in {"idle", "waiting", "ready", "missing"} => c.next = 1 /\ c.ran = {}
      /\ c.at = "hooks" => c.owed \subseteq c.ran \cup Ahead(bs, c)
      /\ c.at = "handled" => c.owed \subseteq c.ran
  BY DEF CallerOk
<1>6. c.at = "missing" =>
       /\ c.binding \in DOMAIN cs /\ c.owed \subseteq 1..m2
       /\ \A b \in DOMAIN cs : b <= c.binding \/ ~cs[b].route =>
            c.owed \cap Owing(par, ow, hk, live, cs[b]) \subseteq ToSet(cs[b].chain)
  <2> SUFFICES ASSUME c.at = "missing"
               PROVE  /\ c.binding \in DOMAIN cs /\ c.owed \subseteq 1..m2
                      /\ \A b \in DOMAIN cs : b <= c.binding \/ ~cs[b].route =>
                           c.owed \cap Owing(par, ow, hk, live, cs[b]) \subseteq ToSet(cs[b].chain)
    OBVIOUS
  <2>1. /\ c.binding \in 1..n /\ c.owed \subseteq 1..m
        /\ \A b \in 1..n : b <= c.binding \/ ~bs[b].route =>
             c.owed \cap Owing(par, ow, hk, live, bs[b]) \subseteq ToSet(bs[b].chain)
    BY <1>4 DEF CallerOk
  <2>2. c.binding \in DOMAIN cs /\ c.owed \subseteq 1..m2
    BY <1>4, <2>1
  <2>3. ASSUME NEW b \in DOMAIN cs, b <= c.binding \/ ~cs[b].route
        PROVE  c.owed \cap Owing(par, ow, hk, live, cs[b]) \subseteq ToSet(cs[b].chain)
    <3>1. b # n + 1
      BY <1>4, <2>1, <2>3
    <3>2. b \in 1..n
      BY <1>4, <3>1
    <3> QED BY <1>4, <2>1, <2>3, <3>2
  <2> QED BY <2>2, <2>3
<1>7. c.at \in {"hooks", "handled"} =>
       /\ c.next > 0 /\ c.binding \in {0} \cup DOMAIN cs /\ c.binding \in {0} \cup DOMAIN bs
       /\ c.binding > 1 => c.ran \subseteq Owing(par, ow, hk, live, cs[c.binding])
  <2> SUFFICES ASSUME c.at \in {"hooks", "handled"}
               PROVE  /\ c.next > 0 /\ c.binding \in {0} \cup DOMAIN cs /\ c.binding \in {0} \cup DOMAIN bs
                      /\ c.binding > 1 => c.ran \subseteq Owing(par, ow, hk, live, cs[c.binding])
    OBVIOUS
  <2>1. /\ c.next > 0 /\ c.binding \in {0} \cup 1..n
        /\ c.binding > 1 => c.ran \subseteq Owing(par, ow, hk, live, bs[c.binding])
    BY <1>4 DEF CallerOk
  <2>2. c.binding > 1 => cs[c.binding] = bs[c.binding]
    BY <1>4, <2>1
  <2> QED BY <1>4, <2>1, <2>2
<1>8. c.at = "hooks" => Ahead(cs, c) = Ahead(bs, c)
  <2>1. c.at = "hooks" => c.binding = 0 \/ cs[c.binding] = bs[c.binding]
    BY <1>4, <1>7
  <2>2. c.at = "hooks" => WalkOf(cs, c) = WalkOf(bs, c)
    BY <2>1 DEF WalkOf
  <2> QED BY <2>2 DEF Ahead
<1>9. CallerOk(par, ow, hk, live, m2, cs, c)
  BY <1>5, <1>6, <1>7, <1>8 DEF CallerOk
<1> QED BY <1>2, <1>9

\* A flush, which may find scopes of contexts that had none.
FlushedTo(par, ow, kids, hk, live, bs, cs) ==
  /\ cs \in Seq(Bindings) /\ Len(bs) <= Len(cs)
  /\ \A b \in DOMAIN bs : cs[b].ctx = bs[b].ctx /\ cs[b].route = bs[b].route /\ cs[b].local = bs[b].local
  /\ \A b \in DOMAIN cs : /\ cs[b].chain = Whole(par, ow, kids, hk, cs[b])
                          /\ b \notin DOMAIN bs => ~cs[b].route /\ cs[b].ctx \in {Root} \cup live /\ cs[b].local = <<>>

LEMMA FlushKeepsBindings ==
  ASSUME NEW par, NEW ow, NEW kids, NEW hk, NEW live, Sound(par, ow, kids, hk, live),
         NEW bs, NEW dirt, BindingsOk(par, ow, kids, hk, live, bs, dirt),
         NEW cs, FlushedTo(par, ow, kids, hk, live, bs, cs), NEW dirt2
  PROVE  BindingsOk(par, ow, kids, hk, live, cs, dirt2)
<1>1. bs \in Seq(Bindings) /\ Len(bs) > 0 /\ ~bs[1].route /\ bs[1].ctx = Root
  BY DEF BindingsOk
<1>2. cs \in Seq(Bindings) /\ Len(bs) <= Len(cs)
  BY DEF FlushedTo
<1>3. 1 \in DOMAIN bs /\ Len(cs) > 0
  BY <1>1, <1>2
<1>4. ~cs[1].route /\ cs[1].ctx = Root
  BY <1>1, <1>3 DEF FlushedTo
<1>5. ASSUME NEW b \in DOMAIN cs
      PROVE  /\ cs[b].ctx \in {Root} \cup live
             /\ ~cs[b].route => cs[b].local = <<>>
             /\ Leads(cs[b].chain, Whole(par, ow, kids, hk, cs[b]))
             /\ cs[b].chain = Whole(par, ow, kids, hk, cs[b])
  <2>1. cs[b].chain = Whole(par, ow, kids, hk, cs[b]) /\ cs[b].chain \in Seq(Nat)
    BY <1>2, BindingFields DEF FlushedTo
  <2>2. Leads(cs[b].chain, Whole(par, ow, kids, hk, cs[b]))
    BY <2>1, LeadsSelf
  <2>3. CASE b \in DOMAIN bs
    BY <2>1, <2>2, <2>3 DEF FlushedTo, BindingsOk
  <2>4. CASE b \notin DOMAIN bs
    BY <2>1, <2>2, <2>4 DEF FlushedTo
  <2> QED BY <2>3, <2>4
<1> QED BY <1>2, <1>3, <1>4, <1>5 DEF BindingsOk

LEMMA FlushKeepsCaller ==
  ASSUME NEW par, NEW ow, NEW kids, NEW hk, NEW live, Sound(par, ow, kids, hk, live),
         NEW bs, NEW dirt, BindingsOk(par, ow, kids, hk, live, bs, dirt),
         NEW cs, FlushedTo(par, ow, kids, hk, live, bs, cs),
         NEW m, NEW c, CallerOk(par, ow, hk, live, m, bs, c)
  PROVE  CallerOk(par, ow, hk, live, m, cs, c)
<1>1. bs \in Seq(Bindings) /\ cs \in Seq(Bindings) /\ Len(bs) <= Len(cs)
  BY DEF BindingsOk, FlushedTo
<1>2. \A b \in DOMAIN bs : b \in DOMAIN cs
  BY <1>1
<1>3. ASSUME NEW b \in DOMAIN cs PROVE ToSet(cs[b].chain) = Owing(par, ow, hk, live, cs[b])
  <2>1. cs[b] \in Bindings /\ cs[b].chain = Whole(par, ow, kids, hk, cs[b])
    BY <1>1, BindingFields DEF FlushedTo
  <2> QED BY <2>1, WholeIs
<1>4. ASSUME NEW b \in DOMAIN bs
      PROVE  /\ Owing(par, ow, hk, live, cs[b]) = Owing(par, ow, hk, live, bs[b])
             /\ Leads(bs[b].chain, cs[b].chain)
  <2>1. cs[b].ctx = bs[b].ctx /\ cs[b].local = bs[b].local /\ cs[b].chain = Whole(par, ow, kids, hk, cs[b])
    BY <1>2 DEF FlushedTo
  <2>2. Whole(par, ow, kids, hk, cs[b]) = Whole(par, ow, kids, hk, bs[b])
    BY <2>1 DEF Whole
  <2> QED BY <2>1, <2>2 DEF Owing, BindingsOk
<1>5. /\ c \in CallerRecords
      /\ c.at \in {"idle", "waiting", "ready", "missing"} => c.next = 1 /\ c.ran = {}
      /\ c.at = "hooks" => c.owed \subseteq c.ran \cup Ahead(bs, c)
      /\ c.at = "handled" => c.owed \subseteq c.ran
  BY DEF CallerOk
<1>6. c.at = "missing" =>
       /\ c.binding \in DOMAIN cs /\ c.owed \subseteq 1..m
       /\ \A b \in DOMAIN cs : b <= c.binding \/ ~cs[b].route =>
            c.owed \cap Owing(par, ow, hk, live, cs[b]) \subseteq ToSet(cs[b].chain)
  BY <1>2, <1>3 DEF CallerOk
<1>7. c.at \in {"hooks", "handled"} =>
       /\ c.next > 0 /\ c.binding \in {0} \cup DOMAIN bs /\ c.binding \in {0} \cup DOMAIN cs
       /\ c.binding > 1 => c.ran \subseteq Owing(par, ow, hk, live, cs[c.binding])
  <2> SUFFICES ASSUME c.at \in {"hooks", "handled"}
               PROVE  /\ c.next > 0 /\ c.binding \in {0} \cup DOMAIN bs /\ c.binding \in {0} \cup DOMAIN cs
                      /\ c.binding > 1 => c.ran \subseteq Owing(par, ow, hk, live, cs[c.binding])
    OBVIOUS
  <2>1. /\ c.next > 0 /\ c.binding \in {0} \cup DOMAIN bs
        /\ c.binding > 1 => c.ran \subseteq Owing(par, ow, hk, live, bs[c.binding])
    BY DEF CallerOk
  <2>2. c.binding > 1 => c.binding \in DOMAIN bs
    BY <2>1
  <2> QED BY <1>2, <1>4, <2>1, <2>2
<1>8. c.at = "hooks" => Ahead(bs, c) \subseteq Ahead(cs, c)
  <2> SUFFICES ASSUME c.at = "hooks" PROVE Ahead(bs, c) \subseteq Ahead(cs, c)
    OBVIOUS
  <2>1. CASE c.binding = 0
    BY <2>1 DEF Ahead, WalkOf
  <2>2. CASE c.binding # 0
    <3>1. c.binding \in DOMAIN bs /\ c.binding \in DOMAIN cs /\ c.next \in Nat /\ c.next > 0
      BY <1>2, <1>5, <1>7, <2>2 DEF CallerRecords
    <3>2. PICK s \in Seq(Nat), t \in Seq(Nat), k \in Nat : s = bs[c.binding].chain /\ t = cs[c.binding].chain /\ k = c.next /\ k > 0
      BY <1>1, <3>1, BindingFields
    <3>3. Leads(s, t)
      BY <1>4, <3>1, <3>2
    <3>4. {s[j] : j \in k..Len(s)} \subseteq {t[j] : j \in k..Len(t)}
      <4> SUFFICES ASSUME NEW i \in k..Len(s) PROVE \E j \in k..Len(t) : t[j] = s[i]
        OBVIOUS
      <4>1. i \in 1..Len(s) /\ Len(s) \in Nat /\ Len(t) \in Nat
        BY <3>2
      <4>2. PICK j \in i..Len(t) : t[j] = s[i]
        BY <3>3, <4>1 DEF Leads
      <4> QED BY <4>1, <4>2
    <3>5. WalkOf(bs, c) = s /\ WalkOf(cs, c) = t
      BY <2>2, <3>2 DEF WalkOf
    <3> QED BY <3>2, <3>4, <3>5 DEF Ahead
  <2> QED BY <2>1, <2>2
<1> QED BY <1>5, <1>6, <1>7, <1>8 DEF CallerOk

-----------------------------------------------------------------------------
(* The tree, the scopes and the requests together: steps of plugins. *)

\* All of it: the tree, the scopes and the requests.
World(par, ow, kids, hk, live, m, bs, dirt, cl) ==
  /\ Sound(par, ow, kids, hk, live) /\ m \in Nat /\ BindingsOk(par, ow, kids, hk, live, bs, dirt)
  /\ cl \in [Callers -> CallerRecords] /\ \A r \in Callers : CallerOk(par, ow, hk, live, m, bs, cl[r])

\* A plugin gets a context of its own.
LEMMA NestSound ==
  ASSUME NEW par, NEW ow, NEW kids, NEW hk, NEW live, Sound(par, ow, kids, hk, live),
         NEW p \in Plugins, p \notin live, NEW ctx \in Contexts, ctx = Root \/ Placed(par, kids, ctx),
         NEW prefix \in Seq(Segments),
         NEW par2, par2 = [par EXCEPT ![p] = ctx], NEW ow2, ow2 = [ow EXCEPT ![p] = prefix],
         NEW kids2, kids2 = [kids EXCEPT ![ctx] = Append(@, p)]
  PROVE  Sound(par2, ow2, kids2, hk, live \cup {p}) /\ Grows(par, ow, kids, hk, par2, ow2, kids2, hk, {p})
<1>1. PICK depth, n : Tree(par, kids, depth, n)
  BY DEF Sound
<1>2. /\ n \in Nat /\ depth \in [Contexts -> 0..n]
      /\ par \in [Contexts -> Contexts] /\ kids \in [Contexts -> Seq(Contexts)]
      /\ \A c \in Plugins : depth[par[c]] < depth[c]
      /\ \A q \in Contexts : \A i \in DOMAIN kids[q] : kids[q][i] \in Plugins /\ par[kids[q][i]] = q
  BY <1>1 DEF Tree
<1>3. /\ hk \in [Contexts -> Seq(Nat)] /\ ow \in [Contexts -> Seq(Segments)] /\ live \subseteq Plugins
      /\ \A q \in Contexts : \A i \in DOMAIN kids[q] : kids[q][i] \in live
      /\ \A c \in Plugins : Placed(par, kids, c) \/ (hk[c] = <<>> /\ ow[c] = <<>> /\ kids[c] = <<>> /\ par[c] = Root)
  BY DEF Sound, Lists
<1>4. Root \notin Plugins /\ Contexts = {Root} \cup Plugins
  BY ScopesAssumption DEF Contexts
<1>5. \A c \in Plugins : Placed(par, kids, c) => c \in live
  BY <1>2, <1>3, <1>4 DEF Placed
<1>6. ~Placed(par, kids, p) /\ kids[p] = <<>> /\ ctx # p
  BY <1>3, <1>4, <1>5
<1>7. \A c \in Plugins : par[c] # p
  BY <1>3, <1>4, <1>6 DEF Placed
<1>8. /\ par2 \in [Contexts -> Contexts] /\ ow2 \in [Contexts -> Seq(Segments)]
      /\ par2[p] = ctx /\ ow2[p] = prefix /\ \A c \in Contexts \ {p} : par2[c] = par[c] /\ ow2[c] = ow[c]
  BY <1>2, <1>3, <1>4
<1>9. PICK k \in Nat : k = Len(kids[ctx])
  BY <1>2
<1>10. /\ kids2 \in [Contexts -> Seq(Contexts)] /\ \A q \in Contexts \ {ctx} : kids2[q] = kids[q]
       /\ Len(kids2[ctx]) = k + 1 /\ kids2[ctx][k + 1] = p /\ \A i \in 1..k : kids2[ctx][i] = kids[ctx][i]
       /\ DOMAIN kids2[ctx] = 1..k + 1 /\ DOMAIN kids[ctx] = 1..k
  <2>1. kids[ctx] \in Seq(Contexts) /\ p \in Contexts
    BY <1>2, <1>4
  <2>2. PICK s \in Seq(Contexts) : s = kids[ctx] /\ Len(s) = k
    BY <1>9, <2>1
  <2>3. /\ Append(s, p) \in Seq(Contexts) /\ Len(Append(s, p)) = k + 1 /\ Append(s, p)[k + 1] = p
        /\ \A i \in 1..k : Append(s, p)[i] = s[i]
    BY <2>1, <2>2, AppendProperties
  <2>4. kids2[ctx] = Append(s, p) /\ kids2 \in [Contexts -> Seq(Contexts)] /\ \A q \in Contexts \ {ctx} : kids2[q] = kids[q]
    BY <1>2, <2>2, <2>3
  <2> QED BY <2>2, <2>3, <2>4
<1>11. \A q \in Contexts : \A i \in DOMAIN kids2[q] :
         (q = ctx /\ kids2[q][i] = p) \/ (i \in DOMAIN kids[q] /\ kids2[q][i] = kids[q][i])
  BY <1>10
<1>12. \A q \in Contexts : \A i \in DOMAIN kids[q] : i \in DOMAIN kids2[q] /\ kids2[q][i] = kids[q][i]
  BY <1>9, <1>10
<1>13. \A q \in Contexts : Len(kids[q]) <= Len(kids2[q])
  <2>1. \A q \in Contexts : Len(kids[q]) \in Nat
    BY <1>2
  <2> QED BY <1>9, <1>10, <2>1
<1> DEFINE depth2 == [depth EXCEPT ![p] = depth[ctx] + 1]
<1>14. Tree(par2, kids2, depth2, n + 1)
  <2>1. n + 1 \in Nat /\ depth2 \in [Contexts -> 0..n + 1]
    <3>1. \A c \in Contexts : depth[c] \in 0..n + 1 /\ depth[c] + 1 \in 0..n + 1
      <4>1. \A c \in Contexts : depth[c] \in 0..n
        BY <1>2
      <4> QED BY <1>2, <4>1
    <3>2. \A c \in Contexts : depth2[c] \in 0..n + 1
      BY <1>2, <3>1
    <3>3. depth2 = [c \in Contexts |-> depth2[c]]
      BY <1>2
    <3> HIDE DEF depth2
    <3> QED BY <1>2, <3>2, <3>3
  <2>2. ASSUME NEW c \in Plugins PROVE depth2[par2[c]] < depth2[c]
    <3>0. c \in Contexts /\ p \in Contexts /\ par[c] \in Contexts
      BY <1>2, <1>4
    <3>1. CASE c = p
      <4>1. par2[c] = ctx /\ depth2[ctx] = depth[ctx] /\ depth2[c] = depth[ctx] + 1
        BY <1>2, <1>6, <1>8, <3>0, <3>1
      <4>2. depth[ctx] \in 0..n
        BY <1>2
      <4> QED BY <4>1, <4>2
    <3>2. CASE c # p
      <4>1. par2[c] = par[c] /\ depth2[c] = depth[c] /\ depth2[par[c]] = depth[par[c]]
        BY <1>2, <1>7, <1>8, <3>0, <3>2
      <4> QED BY <1>2, <4>1
    <3> QED BY <3>1, <3>2
  <2>3. ASSUME NEW q \in Contexts, NEW i \in DOMAIN kids2[q] PROVE kids2[q][i] \in Plugins /\ par2[kids2[q][i]] = q
    <3>1. CASE q = ctx /\ kids2[q][i] = p
      BY <1>8, <3>1
    <3>2. CASE i \in DOMAIN kids[q] /\ kids2[q][i] = kids[q][i]
      <4>1. kids[q][i] \in live /\ kids[q][i] \in Plugins /\ par[kids[q][i]] = q
        BY <1>2, <1>3, <3>2
      <4>2. par2[kids[q][i]] = par[kids[q][i]]
        BY <1>4, <1>8, <4>1
      <4> QED BY <3>2, <4>1, <4>2
    <3> QED BY <1>11, <3>1, <3>2
  <2> HIDE DEF depth2
  <2> QED BY <1>8, <1>10, <2>1, <2>2, <2>3 DEF Tree
<1>15. \A q \in Contexts : \A i \in DOMAIN kids2[q] : kids2[q][i] \in live \cup {p}
  BY <1>3, <1>11
<1>16. ASSUME NEW c \in Plugins
       PROVE  Placed(par2, kids2, c) \/ (hk[c] = <<>> /\ ow2[c] = <<>> /\ kids2[c] = <<>> /\ par2[c] = Root)
  <2>0. c \in Contexts
    BY <1>4
  <2>1. CASE c = p
    <3>1. par2[c] = ctx /\ k + 1 \in DOMAIN kids2[ctx] /\ kids2[ctx][k + 1] = c
      BY <1>8, <1>10, <2>1
    <3> QED BY <3>1 DEF Placed
  <2>2. CASE c # p /\ Placed(par, kids, c)
    <3>1. par2[c] = par[c] /\ par[c] \in Contexts
      BY <1>2, <1>8, <2>0, <2>2
    <3>2. PICK i \in DOMAIN kids[par[c]] : kids[par[c]][i] = c
      BY <2>2 DEF Placed
    <3> QED BY <1>12, <3>1, <3>2 DEF Placed
  <2>3. CASE c # p /\ ~Placed(par, kids, c)
    <3>1. c # ctx
      BY <1>4, <2>3
    <3> QED BY <1>3, <1>8, <1>10, <2>0, <2>3, <3>1
  <2> QED BY <2>1, <2>2, <2>3
<1>17. Sound(par2, ow2, kids2, hk, live \cup {p})
  <2>1. live \cup {p} \subseteq Plugins
    BY <1>3
  <2> QED BY <1>3, <1>8, <1>14, <1>15, <1>16, <2>1 DEF Sound, Lists
<1>18. \A c \in Contexts : Leads(hk[c], hk[c])
  BY <1>3, LeadsSelf
<1>19. Grows(par, ow, kids, hk, par2, ow2, kids2, hk, {p})
  BY <1>6, <1>8, <1>12, <1>13, <1>18 DEF Grows, Extends
<1> QED BY <1>17, <1>19

HookAdded(hk, ctx, k, hk2) == hk2 = [hk EXCEPT ![ctx] = Append(@, k)]

\* A hook is added in a context that was made.
LEMMA HookSound ==
  ASSUME NEW par, NEW ow, NEW kids, NEW hk, NEW live, Sound(par, ow, kids, hk, live),
         NEW ctx \in Contexts, ctx = Root \/ Placed(par, kids, ctx), NEW k \in Nat,
         NEW hk2, HookAdded(hk, ctx, k, hk2)
  PROVE  /\ Sound(par, ow, kids, hk2, live) /\ Grows(par, ow, kids, hk, par, ow, kids, hk2, {})
         /\ \A c \in Contexts : ToSet(hk2[c]) \subseteq ToSet(hk[c]) \cup {k}
<1>1. /\ hk \in [Contexts -> Seq(Nat)] /\ Root \notin Plugins
      /\ \A c \in Plugins : Placed(par, kids, c) \/ (hk[c] = <<>> /\ ow[c] = <<>> /\ kids[c] = <<>> /\ par[c] = Root)
  BY ScopesAssumption DEF Sound, Lists
<1>2. PICK s \in Seq(Nat) : s = hk[ctx]
  BY <1>1
<1>3. Append(s, k) \in Seq(Nat) /\ hk2[ctx] = Append(s, k) /\ \A c \in Contexts \ {ctx} : hk2[c] = hk[c]
  BY <1>1, <1>2, AppendProperties DEF HookAdded
<1>4. hk2 \in [Contexts -> Seq(Nat)]
  BY <1>1, <1>2, <1>3 DEF HookAdded
<1>5. \A c \in Plugins : Placed(par, kids, c) \/ (hk2[c] = <<>> /\ ow[c] = <<>> /\ kids[c] = <<>> /\ par[c] = Root)
  BY <1>1, <1>3 DEF Contexts
<1>6. Sound(par, ow, kids, hk2, live)
  BY <1>4, <1>5 DEF Sound, Lists
<1>7. Leads(s, Append(s, k))
  <2>1. PICK n \in Nat : n = Len(s)
    OBVIOUS
  <2>2. Len(Append(s, k)) = n + 1 /\ \A i \in 1..n : Append(s, k)[i] = s[i]
    BY <2>1, AppendProperties
  <2>3. \A i \in 1..n : i \in i..n + 1
    BY <2>1
  <2> QED BY <2>1, <2>2, <2>3 DEF Leads
<1>8. \A c \in Contexts : Leads(hk[c], hk2[c])
  <2>1. \A c \in Contexts : Leads(hk[c], hk[c])
    BY <1>1, LeadsSelf
  <2> QED BY <1>2, <1>3, <1>7, <2>1
<1>9. Extends(kids, kids)
  <2>1. \A c \in Contexts : Len(kids[c]) \in Nat
    BY DEF Sound, Tree
  <2> QED BY <2>1 DEF Extends
<1>10. Grows(par, ow, kids, hk, par, ow, kids, hk2, {})
  BY <1>8, <1>9 DEF Grows
<1>11. ToSet(Append(s, k)) = ToSet(s) \cup {k}
  BY AppendedSet
<1> QED BY <1>2, <1>3, <1>6, <1>10, <1>11

-----------------------------------------------------------------------------
(* Steps of requests. *)

\* Of a list, each element once: none is lost.
LEMMA OnceSet ==
  ASSUME NEW S, NEW list \in Seq(S)
  PROVE  Once(list) \in Seq(S) /\ ToSet(Once(list)) = ToSet(list)
<1>1. PICK n \in Nat : n = Len(list) /\ DOMAIN list = 1..n /\ \A i \in 1..n : list[i] \in S
  OBVIOUS
<1>2. PICK ss : ss = [i \in DOMAIN list |-> IF \E j \in 1..i-1 : list[j] = list[i] THEN <<>> ELSE <<list[i]>>]
  OBVIOUS
<1>3. \A i \in 1..n : ss[i] \in Seq(S) /\ ToSet(ss[i]) = IF \E j \in 1..i-1 : list[j] = list[i] THEN {} ELSE {list[i]}
  <2> SUFFICES ASSUME NEW i \in 1..n
               PROVE  ss[i] \in Seq(S) /\ ToSet(ss[i]) = IF \E j \in 1..i-1 : list[j] = list[i] THEN {} ELSE {list[i]}
    OBVIOUS
  <2>1. PICK x \in S : x = list[i]
    BY <1>1
  <2>2. ss[i] = IF \E j \in 1..i-1 : list[j] = list[i] THEN <<>> ELSE <<x>>
    BY <1>1, <1>2, <2>1
  <2>3. <<x>> \in Seq(S) /\ ToSet(<<x>>) = {x}
    BY DEF ToSet
  <2>4. <<>> \in Seq(S) /\ ToSet(<<>>) = {}
    BY DEF ToSet
  <2> QED BY <2>1, <2>2, <2>3, <2>4
<1>4. ss \in Seq(Seq(S)) /\ Len(ss) = n
  BY <1>1, <1>2, <1>3
<1>5. FlattenSeq(ss) \in Seq(S) /\ \A x : x \in ToSet(FlattenSeq(ss)) <=> \E i \in 1..n : x \in ToSet(ss[i])
  BY <1>4, FlattenTyped, FlattenedSet
<1>6. \A x : x \in ToSet(FlattenSeq(ss)) => x \in ToSet(list)
  <2> SUFFICES ASSUME NEW x \in ToSet(FlattenSeq(ss)) PROVE x \in ToSet(list)
    OBVIOUS
  <2>1. PICK i \in 1..n : x \in ToSet(ss[i])
    BY <1>5
  <2>2. x = list[i] /\ i \in DOMAIN list
    BY <1>1, <1>3, <2>1
  <2> QED BY <2>2 DEF ToSet
<1>7. ASSUME NEW x \in ToSet(list) PROVE x \in ToSet(FlattenSeq(ss))
  <2> DEFINE B == {i \in 1..n : list[i] = x}
  <2>1. B # {} /\ B \subseteq Nat
    BY <1>1 DEF ToSet
  <2>2. PICK i \in B : \A j \in B : i <= j
    <3> HIDE DEF B
    <3> QED BY <2>1, SmallestNat
  <2>3. i \in 1..n /\ list[i] = x
    OBVIOUS
  <2>4. ~ \E j \in 1..i-1 : list[j] = list[i]
    <3> SUFFICES ASSUME NEW j \in 1..i-1, list[j] = list[i] PROVE FALSE
      OBVIOUS
    <3>1. j \in B /\ ~(i <= j)
      BY <1>1, <2>3
    <3> QED BY <2>2, <3>1
  <2> QED BY <1>3, <1>5, <2>3, <2>4
<1> QED BY <1>2, <1>5, <1>6, <1>7 DEF Once

\* Requests that were sent nowhere yet.
LEMMA FreshCaller ==
  ASSUME NEW par, NEW ow, NEW hk, NEW live, NEW m, NEW bs, NEW c \in CallerRecords,
         c.at \in {"idle", "waiting", "ready"}, c.next = 1, c.ran = {}
  PROVE  CallerOk(par, ow, hk, live, m, bs, c)
BY DEF CallerOk

LEMMA AheadAll ==
  ASSUME NEW bs, NEW c, c.next = 1
  PROVE  Ahead(bs, c) = ToSet(WalkOf(bs, c))
BY DEF Ahead, ToSet

LEMMA SentCaller ==
  ASSUME NEW par, NEW ow, NEW hk, NEW live, NEW m, NEW bs, NEW c \in CallerRecords,
         c.at = "hooks", c.next = 1, c.ran = {}, c.binding \in {0} \cup DOMAIN bs, c.owed \subseteq ToSet(WalkOf(bs, c))
  PROVE  CallerOk(par, ow, hk, live, m, bs, c)
BY AheadAll DEF CallerOk

LEMMA MissingCaller ==
  ASSUME NEW par, NEW ow, NEW kids, NEW hk, NEW live, Sound(par, ow, kids, hk, live),
         NEW bs, NEW cs, FlushedTo(par, ow, kids, hk, live, bs, cs), NEW m, NEW c \in CallerRecords,
         c.at = "missing", c.next = 1, c.ran = {}, c.binding \in DOMAIN cs, c.owed \subseteq 1..m
  PROVE  CallerOk(par, ow, hk, live, m, cs, c)
<1>1. ASSUME NEW b \in DOMAIN cs PROVE ToSet(cs[b].chain) = Owing(par, ow, hk, live, cs[b])
  <2>1. cs \in Seq(Bindings)
    BY DEF FlushedTo
  <2>2. cs[b] \in Bindings /\ cs[b].chain = Whole(par, ow, kids, hk, cs[b])
    BY <2>1, BindingFields DEF FlushedTo
  <2> QED BY <2>2, WholeIs
<1> QED BY <1>1 DEF CallerOk

\* A hook runs.
LEMMA RunningCaller ==
  ASSUME NEW par, NEW ow, NEW kids, NEW hk, NEW live, Sound(par, ow, kids, hk, live),
         NEW bs, NEW dirt, BindingsOk(par, ow, kids, hk, live, bs, dirt),
         NEW m, NEW c, CallerOk(par, ow, hk, live, m, bs, c), c.at = "hooks", c.next <= Len(WalkOf(bs, c)),
         NEW c2, c2 = [c EXCEPT !.next = @ + 1, !.ran = @ \cup {WalkOf(bs, c)[c.next]}]
  PROVE  CallerOk(par, ow, hk, live, m, bs, c2)
<1>1. /\ c \in CallerRecords /\ c.next > 0 /\ c.binding \in {0} \cup DOMAIN bs
      /\ c.binding > 1 => c.ran \subseteq Owing(par, ow, hk, live, bs[c.binding])
      /\ c.owed \subseteq c.ran \cup Ahead(bs, c)
  BY DEF CallerOk
<1>2. bs \in Seq(Bindings)
  BY DEF BindingsOk
<1>3. PICK w \in Seq(Nat) : w = WalkOf(bs, c)
  <2>1. CASE c.binding = 0
    BY <1>1, <2>1 DEF WalkOf, CallerRecords
  <2>2. CASE c.binding # 0
    <3>1. bs[c.binding].chain \in Seq(Nat)
      BY <1>1, <1>2, <2>2, BindingFields
    <3> QED BY <2>2, <3>1 DEF WalkOf
  <2> QED BY <2>1, <2>2
<1>4. PICK n \in Nat : n = Len(w)
  OBVIOUS
<1>5. PICK k \in Nat : k = c.next /\ k \in 1..n
  BY <1>1, <1>3, <1>4 DEF CallerRecords
<1>6. PICK x \in Nat : x = w[k]
  BY <1>4, <1>5
<1>7. /\ c2.at = "hooks" /\ c2.next = k + 1 /\ c2.ran = c.ran \cup {x} /\ c2.owed = c.owed
      /\ c2.binding = c.binding /\ c2.list = c.list
  BY <1>1, <1>3, <1>5, <1>6 DEF CallerRecords
<1>8. c2 \in CallerRecords
  <2>1. PICK next, ran : next = k + 1 /\ ran = c.ran \cup {x}
    OBVIOUS
  <2>3. next \in Nat
    BY <2>1
  <2>4. ran \in SUBSET Nat
    BY <1>1, <2>1 DEF CallerRecords
  <2>2. c2 = [c EXCEPT !.next = next, !.ran = ran]
    BY <1>3, <1>5, <1>6, <2>1
  <2> QED BY <1>1, <2>2, <2>3, <2>4 DEF CallerRecords
<1>9. Ahead(bs, c) = {w[j] : j \in k..n} /\ Ahead(bs, c2) = {w[j] : j \in k + 1..n}
  BY <1>3, <1>4, <1>5, <1>7 DEF Ahead, WalkOf
<1>10. c2.owed \subseteq c2.ran \cup Ahead(bs, c2)
  <2>1. \A j \in k..n : j = k \/ j \in k + 1..n
    OBVIOUS
  <2> QED BY <1>1, <1>6, <1>7, <1>9, <2>1
<1>11. c2.binding > 1 => c2.ran \subseteq Owing(par, ow, hk, live, bs[c2.binding])
  <2> SUFFICES ASSUME c.binding > 1 PROVE x \in Owing(par, ow, hk, live, bs[c.binding])
    BY <1>1, <1>7
  <2>1. c.binding \in DOMAIN bs /\ w = bs[c.binding].chain
    BY <1>1, <1>3 DEF WalkOf
  <2>2. bs[c.binding] \in Bindings
    BY <1>2, <2>1
  <2>3. PICK t \in Seq(Nat) : /\ t = Whole(par, ow, kids, hk, bs[c.binding])
                              /\ ToSet(t) = Owing(par, ow, hk, live, bs[c.binding])
    BY <2>2, WholeIs
  <2>4. Leads(w, t)
    BY <2>1, <2>3 DEF BindingsOk
  <2>5. ToSet(w) \subseteq ToSet(t)
    BY <2>4, LeadsSet
  <2>6. x \in ToSet(w)
    BY <1>4, <1>5, <1>6 DEF ToSet
  <2> QED BY <2>3, <2>5, <2>6
<1>12. c2.next > 0
  BY <1>5, <1>7
<1> QED BY <1>1, <1>7, <1>8, <1>10, <1>11, <1>12 DEF CallerOk

LEMMA HandledCaller ==
  ASSUME NEW par, NEW ow, NEW hk, NEW live, NEW bs \in Seq(Bindings),
         NEW m, NEW c, CallerOk(par, ow, hk, live, m, bs, c), c.at = "hooks", c.next > Len(WalkOf(bs, c)),
         NEW c2, c2 = [c EXCEPT !.at = "handled", !.list = <<>>, !.next = 1]
  PROVE  CallerOk(par, ow, hk, live, m, bs, c2)
<1>1. /\ c \in CallerRecords /\ c.next > 0 /\ c.binding \in {0} \cup DOMAIN bs
      /\ c.binding > 1 => c.ran \subseteq Owing(par, ow, hk, live, bs[c.binding])
      /\ c.owed \subseteq c.ran \cup Ahead(bs, c)
  BY DEF CallerOk
<1>3. Len(WalkOf(bs, c)) \in Nat
  <2>1. CASE c.binding = 0
    BY <1>1, <2>1 DEF WalkOf, CallerRecords
  <2>2. CASE c.binding # 0
    <3>1. bs[c.binding].chain \in Seq(Nat)
      BY <1>1, <2>2, BindingFields
    <3> QED BY <2>2, <3>1 DEF WalkOf
  <2> QED BY <2>1, <2>2
<1>4. Ahead(bs, c) = {}
  <2>1. c.next \in Nat
    BY <1>1 DEF CallerRecords
  <2> QED BY <1>3, <2>1 DEF Ahead
<1>5. /\ c2.at = "handled" /\ c2.next = 1 /\ c2.ran = c.ran /\ c2.owed = c.owed /\ c2.binding = c.binding
      /\ c2 \in CallerRecords
  <2>1. "handled" \in CallersAt /\ <<>> \in Seq(Nat)
    BY DEF CallersAt
  <2> QED BY <1>1, <2>1 DEF CallerRecords
<1> QED BY <1>1, <1>4, <1>5 DEF CallerOk

\* Registration.
LEMMA WorldGrows ==
  ASSUME NEW par, NEW ow, NEW kids, NEW hk, NEW live, NEW m, NEW bs, NEW dirt, NEW cl,
         World(par, ow, kids, hk, live, m, bs, dirt, cl),
         NEW par2, NEW ow2, NEW kids2, NEW hk2, NEW live2, Sound(par2, ow2, kids2, hk2, live2),
         NEW added, Grows(par, ow, kids, hk, par2, ow2, kids2, hk2, added),
         added \cap live = {}, live \subseteq live2, NEW m2 \in Nat, m <= m2,
         \A c \in Contexts : ToSet(hk2[c]) \subseteq ToSet(hk[c]) \cup (m + 1)..m2
  PROVE  World(par2, ow2, kids2, hk2, live2, m2, bs, TRUE, cl)
<1>1. Sound(par, ow, kids, hk, live) /\ m \in Nat /\ BindingsOk(par, ow, kids, hk, live, bs, dirt)
  BY DEF World
<1>2. BindingsOk(par2, ow2, kids2, hk2, live2, bs, TRUE)
  BY <1>1, GrowthKeepsBindings
<1>3. ASSUME NEW r \in Callers PROVE CallerOk(par2, ow2, hk2, live2, m2, bs, cl[r])
  <2>1. CallerOk(par, ow, hk, live, m, bs, cl[r])
    BY DEF World
  <2> QED BY <1>1, <2>1, GrowthKeepsCaller
<1> QED BY <1>2, <1>3 DEF World

\* A plugin starts without a context of its own.
LEMMA WorldJoins ==
  ASSUME NEW par, NEW ow, NEW kids, NEW hk, NEW live, NEW m, NEW bs, NEW dirt, NEW cl,
         World(par, ow, kids, hk, live, m, bs, dirt, cl), NEW p \in Plugins
  PROVE  World(par, ow, kids, hk, live \cup {p}, m, bs, dirt, cl)
<1>1. Sound(par, ow, kids, hk, live) /\ m \in Nat /\ BindingsOk(par, ow, kids, hk, live, bs, dirt)
  BY DEF World
<1>2. PICK live2 : live2 = live \cup {p} /\ live \subseteq live2
  OBVIOUS
<1>3. Sound(par, ow, kids, hk, live2)
  BY <1>1, <1>2 DEF Sound
<1>4. Grows(par, ow, kids, hk, par, ow, kids, hk, {})
  <2>1. \A c \in Contexts : Leads(hk[c], hk[c])
    BY <1>1, LeadsSelf DEF Sound, Lists
  <2>2. \A c \in Contexts : Len(kids[c]) \in Nat
    BY <1>1 DEF Sound, Tree
  <2> QED BY <2>1, <2>2 DEF Grows, Extends
<1>5. \A c \in Contexts : ToSet(hk[c]) \subseteq ToSet(hk[c]) \cup (m + 1)..m
  OBVIOUS
<1>6. World(par, ow, kids, hk, live2, m, bs, TRUE, cl)
  <2>1. m <= m /\ {} \cap live = {}
    BY <1>1
  <2> QED BY <1>1, <1>2, <1>3, <1>4, <1>5, <2>1, WorldGrows
<1>7. BindingsOk(par, ow, kids, hk, live2, bs, dirt)
  BY <1>1, <1>6 DEF World, BindingsOk
<1> QED BY <1>2, <1>6, <1>7 DEF World

LEMMA WorldRoutes ==
  ASSUME NEW par, NEW ow, NEW kids, NEW hk, NEW live, NEW m, NEW bs, NEW dirt, NEW cl,
         World(par, ow, kids, hk, live, m, bs, dirt, cl), NEW m2 \in Nat, m <= m2,
         NEW nb \in Bindings, nb.route, nb.ctx \in {Root} \cup live, nb.chain = <<>>
  PROVE  World(par, ow, kids, hk, live, m2, Append(bs, nb), TRUE, cl)
<1>1. Sound(par, ow, kids, hk, live) /\ m \in Nat /\ BindingsOk(par, ow, kids, hk, live, bs, dirt)
  BY DEF World
<1>2. BindingsOk(par, ow, kids, hk, live, Append(bs, nb), TRUE)
  BY <1>1, RouteKeepsBindings
<1>3. ASSUME NEW r \in Callers PROVE CallerOk(par, ow, hk, live, m2, Append(bs, nb), cl[r])
  <2>1. CallerOk(par, ow, hk, live, m, bs, cl[r]) /\ bs \in Seq(Bindings)
    BY <1>1 DEF World, BindingsOk
  <2> QED BY <1>1, <2>1, RouteKeepsCaller
<1> QED BY <1>1, <1>2, <1>3 DEF World

\* Requests.
LEMMA WorldFlushes ==
  ASSUME NEW par, NEW ow, NEW kids, NEW hk, NEW live, NEW m, NEW bs, NEW dirt, NEW cl,
         World(par, ow, kids, hk, live, m, bs, dirt, cl),
         NEW cs, FlushedTo(par, ow, kids, hk, live, bs, cs), NEW dirt2
  PROVE  World(par, ow, kids, hk, live, m, cs, dirt2, cl)
<1>1. Sound(par, ow, kids, hk, live) /\ m \in Nat /\ BindingsOk(par, ow, kids, hk, live, bs, dirt)
  BY DEF World
<1>2. BindingsOk(par, ow, kids, hk, live, cs, dirt2)
  BY <1>1, FlushKeepsBindings
<1>3. ASSUME NEW r \in Callers PROVE CallerOk(par, ow, hk, live, m, cs, cl[r])
  <2>1. CallerOk(par, ow, hk, live, m, bs, cl[r])
    BY DEF World
  <2> QED BY <1>1, <2>1, FlushKeepsCaller
<1> QED BY <1>2, <1>3 DEF World

LEMMA WorldMoves ==
  ASSUME NEW par, NEW ow, NEW kids, NEW hk, NEW live, NEW m, NEW bs, NEW dirt, NEW cl,
         World(par, ow, kids, hk, live, m, bs, dirt, cl),
         NEW r \in Callers, NEW new, CallerOk(par, ow, hk, live, m, bs, new)
  PROVE  World(par, ow, kids, hk, live, m, bs, dirt, [cl EXCEPT ![r] = new])
<1>1. new \in CallerRecords /\ cl \in [Callers -> CallerRecords]
  BY DEF World, CallerOk
<1>2. PICK cl2 : cl2 = [cl EXCEPT ![r] = new]
  OBVIOUS
<1>3. cl2 \in [Callers -> CallerRecords] /\ cl2[r] = new /\ \A q \in Callers \ {r} : cl2[q] = cl[q]
  BY <1>1, <1>2
<1>4. \A q \in Callers : CallerOk(par, ow, hk, live, m, bs, cl2[q])
  BY <1>3 DEF World
<1>5. World(par, ow, kids, hk, live, m, bs, dirt, cl2)
  BY <1>3, <1>4 DEF World
<1> QED BY <1>2, <1>5

-----------------------------------------------------------------------------
(* The invariant. *)

PluginsAt == {"absent", "running", "loaded", "failed"}
PluginRecords == [at : PluginsAt, home : Contexts, late : BOOLEAN]

\* A plugin that runs acts on the root or on a context that was made.
Acts(par, kids, c) == c \in Contexts /\ (c = Root \/ Placed(par, kids, c))

PluginsOk ==
  /\ plugin \in [Plugins -> PluginRecords]
  /\ \A p \in Plugins : plugin[p].at = "running" => Acts(parent, children, plugin[p].home)
  /\ pendingPlugins \subseteq Plugins /\ batch \subseteq Plugins

ScopeInv == World(parent, own, children, hooks, Registered, made, bindings, dirty, caller) /\ PluginsOk

LEMMA Stay == ScopeInv /\ UNCHANGED scopeVars => ScopeInv'
<1> SUFFICES ASSUME ScopeInv, UNCHANGED scopeVars PROVE ScopeInv'
  OBVIOUS
<1>1. Registered' = Registered
  BY DEF scopeVars, Registered
<1>2. World(parent', own', children', hooks', Registered', made', bindings', dirty', caller')
  BY <1>1 DEF ScopeInv, scopeVars, tree
<1>3. PluginsOk'
  BY DEF ScopeInv, scopeVars, tree, PluginsOk
<1> QED BY <1>2, <1>3 DEF ScopeInv

LEMMA IdleRecord == Idle \in CallerRecords /\ Idle.at = "idle" /\ Idle.next = 1 /\ Idle.ran = {}
<1>1. /\ "idle" \in CallersAt /\ <<>> \in Seq(Segments) /\ <<>> \in Seq(Nat) /\ 0 \in Nat /\ 1 \in Nat
      /\ {} \in SUBSET Nat /\ {} \in SUBSET Plugins
  BY DEF CallersAt
<1> QED BY <1>1 DEF Idle, CallerRecords

LEMMA ScopesStart == ScopesInit => ScopeInv
<1> SUFFICES ASSUME ScopesInit PROVE ScopeInv
  OBVIOUS
<1>1. /\ plugin = [p \in Plugins |-> [at |-> "absent", home |-> Root, late |-> FALSE]]
      /\ parent = [c \in Contexts |-> Root] /\ own = [c \in Contexts |-> <<>>]
      /\ children = [c \in Contexts |-> <<>>] /\ hooks = [c \in Contexts |-> <<>>]
      /\ made = 0 /\ bindings = <<ContextScope(Root)>> /\ dirty = TRUE
      /\ pendingPlugins = {} /\ batch = {} /\ caller = [r \in Callers |-> Idle]
  BY DEF ScopesInit
<1>2. Root \in Contexts /\ Root \notin Plugins /\ Contexts = {Root} \cup Plugins
  BY ScopesAssumption DEF Contexts
<1>3. Registered = {}
  BY <1>1 DEF Registered
<1>4. Sound(parent, own, children, hooks, {})
  <2>1. PICK depth : depth = [c \in Contexts |-> IF c = Root THEN 0 ELSE 1]
    OBVIOUS
  <2>2. Tree(parent, children, depth, 1)
    <3>1. depth \in [Contexts -> 0..1] /\ 1 \in Nat
      BY <2>1
    <3>2. parent \in [Contexts -> Contexts]
      BY <1>1, <1>2
    <3>3. children \in [Contexts -> Seq(Contexts)]
      BY <1>1
    <3>4. \A c \in Plugins : depth[parent[c]] < depth[c]
      <4>1. \A c \in Plugins : depth[parent[c]] = 0 /\ depth[c] = 1
        BY <1>1, <1>2, <2>1
      <4> QED BY <4>1
    <3>5. \A q \in Contexts : DOMAIN children[q] = {}
      BY <1>1
    <3> QED BY <3>1, <3>2, <3>3, <3>4, <3>5 DEF Tree
  <2>3. \A q \in Contexts : DOMAIN children[q] = {}
    BY <1>1
  <2>4. hooks \in [Contexts -> Seq(Nat)]
    BY <1>1
  <2>5. own \in [Contexts -> Seq(Segments)]
    BY <1>1
  <2>6. \A c \in Plugins : hooks[c] = <<>> /\ own[c] = <<>> /\ children[c] = <<>> /\ parent[c] = Root
    BY <1>1, <1>2
  <2> QED BY <2>2, <2>3, <2>4, <2>5, <2>6 DEF Sound, Lists
<1>5. PICK root : root = ContextScope(Root)
  OBVIOUS
<1>6. root \in Bindings /\ ~root.route /\ root.ctx = Root /\ root.local = <<>> /\ root.chain = <<>>
  <2>1. <<>> \in Seq(Nat) /\ <<>> \in Seq(Segments) /\ FALSE \in BOOLEAN
    OBVIOUS
  <2> QED BY <1>2, <1>5, <2>1 DEF ContextScope, Bindings
<1>7. BindingsOk(parent, own, children, hooks, {}, bindings, dirty)
  <2>1. bindings \in Seq(Bindings) /\ Len(bindings) = 1 /\ bindings[1] = root /\ DOMAIN bindings = {1}
    BY <1>1, <1>5, <1>6
  <2>2. Leads(<<>>, Whole(parent, own, children, hooks, root))
    BY DEF Leads
  <2> QED BY <1>1, <1>6, <2>1, <2>2 DEF BindingsOk
<1>8. caller \in [Callers -> CallerRecords]
  BY <1>1, IdleRecord
<1>9. ASSUME NEW r \in Callers
      PROVE  CallerOk(parent, own, hooks, {}, made, bindings, caller[r])
  <2>1. caller[r] = Idle
    BY <1>1
  <2>2. caller[r] \in CallerRecords /\ caller[r].at = "idle" /\ caller[r].next = 1 /\ caller[r].ran = {}
    BY <2>1, IdleRecord
  <2> QED BY <2>2, FreshCaller
<1>10. World(parent, own, children, hooks, Registered, made, bindings, dirty, caller)
  BY <1>1, <1>3, <1>4, <1>7, <1>8, <1>9 DEF World
<1>11. PluginsOk
  <2>1. plugin \in [Plugins -> PluginRecords]
    BY <1>1, <1>2 DEF PluginRecords, PluginsAt
  <2>2. \A p \in Plugins : plugin[p].at # "running"
    BY <1>1
  <2> QED BY <1>1, <2>1, <2>2 DEF PluginsOk
<1> QED BY <1>10, <1>11 DEF ScopeInv

\* Whoever runs acts on the root or on a context that was made.
LEMMA ActorsAct ==
  ASSUME ScopeInv
  PROVE  \A c \in Actors : Acts(parent, children, c) /\ c \in {Root} \cup Registered
<1> SUFFICES ASSUME NEW c \in Actors PROVE Acts(parent, children, c) /\ c \in {Root} \cup Registered
  OBVIOUS
<1>1. Acts(parent, children, c)
  BY DEF Actors, ScopeInv, PluginsOk, Acts, Contexts
<1>2. Sound(parent, own, children, hooks, Registered)
  BY DEF ScopeInv, World
<1>3. ASSUME c # Root PROVE c \in Registered
  <2>1. parent[c] \in Contexts
    BY <1>1, <1>2 DEF Acts, Sound, Tree
  <2> QED BY <1>1, <1>2, <1>3, <2>1 DEF Acts, Placed, Sound
<1> QED BY <1>1, <1>3

Begins(p, home) ==
  /\ plugin' \in [Plugins -> [at : PluginsAt, home : {home} \cup Contexts, late : BOOLEAN]]
  /\ plugin'[p].at = "running" /\ plugin'[p].home = home /\ \A q \in Plugins \ {p} : plugin'[q] = plugin[q]

\* A plugin starts, with a context of its own or on its registrar's.
LEMMA StartKeeps ==
  ASSUME NEW p \in Plugins, NEW ctx, NEW prefix \in Mounts, ScopeInv, Acts(parent, children, ctx), plugin[p].at = "absent",
         NEW home, Begins(p, home),
         \/ /\ home = p
            /\ parent' = [parent EXCEPT ![p] = ctx] /\ own' = [own EXCEPT ![p] = prefix]
            /\ children' = [children EXCEPT ![ctx] = Append(@, p)] /\ dirty' = TRUE
         \/ home = ctx /\ UNCHANGED <<tree, dirty>>,
         UNCHANGED <<hooks, made, bindings, batch, caller>>, pendingPlugins' \subseteq Plugins
  PROVE  ScopeInv'
<1>1. /\ World(parent, own, children, hooks, Registered, made, bindings, dirty, caller)
      /\ Sound(parent, own, children, hooks, Registered) /\ made \in Nat
      /\ plugin \in [Plugins -> PluginRecords] /\ batch \subseteq Plugins
      /\ \A q \in Plugins : plugin[q].at = "running" => Acts(parent, children, plugin[q].home)
  BY DEF ScopeInv, World, PluginsOk
<1>2. p \notin Registered
  BY DEF Registered
<1>3. p \in Contexts /\ p # Root /\ ctx \in Contexts
  BY ScopesAssumption DEF Contexts, Acts
<1>5. plugin'[p].at = "running" /\ plugin'[p].home = home /\ \A q \in Plugins \ {p} : plugin'[q] = plugin[q]
  BY DEF Begins
<1>6. home \in Contexts
  BY <1>3
<1>7. plugin' \in [Plugins -> PluginRecords]
  <2>1. {home} \cup Contexts = Contexts
    BY <1>6
  <2> QED BY <2>1 DEF Begins, PluginRecords
<1>8. Registered' = Registered \cup {p}
  BY <1>5 DEF Registered
<1>9. prefix \in Seq(Segments)
  <2>1. CASE prefix = <<>>
    BY <2>1
  <2>2. CASE \E s \in Segments : prefix = <<s>>
    <3>1. PICK s \in Segments : prefix = <<s>>
      BY <2>2
    <3>2. <<s>> \in Seq(Segments)
      OBVIOUS
    <3> QED BY <3>1, <3>2
  <2> QED BY <2>1, <2>2 DEF Mounts
<1>10. CASE /\ home = p
            /\ parent' = [parent EXCEPT ![p] = ctx] /\ own' = [own EXCEPT ![p] = prefix]
            /\ children' = [children EXCEPT ![ctx] = Append(@, p)] /\ dirty' = TRUE
  <2>1. /\ Sound(parent', own', children', hooks, Registered \cup {p})
        /\ Grows(parent, own, children, hooks, parent', own', children', hooks, {p})
    <3>1. ctx = Root \/ Placed(parent, children, ctx)
      BY DEF Acts
    <3>2. PICK par2, ow2, kids2 : par2 = parent' /\ ow2 = own' /\ kids2 = children'
      OBVIOUS
    <3>3. par2 = [parent EXCEPT ![p] = ctx]
      BY <1>10, <3>2
    <3>4. ow2 = [own EXCEPT ![p] = prefix]
      BY <1>10, <3>2
    <3>5. kids2 = [children EXCEPT ![ctx] = Append(@, p)]
      BY <1>10, <3>2
    <3>6. Sound(par2, ow2, kids2, hooks, Registered \cup {p}) /\ Grows(parent, own, children, hooks, par2, ow2, kids2, hooks, {p})
      BY <1>1, <1>2, <1>3, <1>9, <3>1, <3>3, <3>4, <3>5, NestSound
    <3> QED BY <3>2, <3>6
  <2>2. \A c \in Contexts : ToSet(hooks[c]) \subseteq ToSet(hooks[c]) \cup (made + 1)..made
    OBVIOUS
  <2>3. {p} \cap Registered = {} /\ Registered \subseteq Registered \cup {p} /\ made <= made
    BY <1>1, <1>2
  <2>4. World(parent', own', children', hooks, Registered \cup {p}, made, bindings, TRUE, caller)
    BY <1>1, <2>1, <2>2, <2>3, WorldGrows
  <2>5. \A c : Placed(parent, children, c) /\ c \in Contexts => Placed(parent', children', c)
    <3> SUFFICES ASSUME NEW c \in Contexts, Placed(parent, children, c) PROVE Placed(parent', children', c)
      OBVIOUS
    <3>1. c # p /\ parent'[c] = parent[c] /\ parent[c] \in Contexts
      <4>1. c # p
        BY <2>1 DEF Grows
      <4> QED BY <1>1, <2>1, <4>1 DEF Grows, Sound, Tree
    <3>2. PICK i \in DOMAIN children[parent[c]] : children[parent[c]][i] = c
      BY DEF Placed
    <3>3. i \in DOMAIN children'[parent[c]] /\ children'[parent[c]][i] = c
      <4>1. /\ Len(children[parent[c]]) <= Len(children'[parent[c]])
            /\ children'[parent[c]][i] = children[parent[c]][i]
        BY <2>1, <3>1, <3>2 DEF Grows, Extends
      <4>2. children[parent[c]] \in Seq(Contexts) /\ children'[parent[c]] \in Seq(Contexts)
        BY <1>1, <2>1, <3>1 DEF Sound, Tree
      <4> QED BY <3>2, <4>1, <4>2
    <3> QED BY <3>1, <3>3 DEF Placed
  <2>6. Placed(parent', children', p)
    <3>1. parent'[p] = ctx
      BY <1>1, <1>3, <1>10 DEF Sound, Tree
    <3>2. children'[ctx] = Append(children[ctx], p) /\ children[ctx] \in Seq(Contexts)
      BY <1>1, <1>3, <1>10 DEF Sound, Tree
    <3>3. Len(children[ctx]) + 1 \in DOMAIN children'[ctx] /\ children'[ctx][Len(children[ctx]) + 1] = p
      BY <1>3, <3>2, AppendProperties
    <3> QED BY <3>1, <3>3 DEF Placed
  <2>7. \A q \in Plugins : plugin'[q].at = "running" => Acts(parent', children', plugin'[q].home)
    BY <1>1, <1>3, <1>5, <1>10, <2>5, <2>6 DEF Acts
  <2>8. PluginsOk'
    BY <1>1, <1>7, <2>7 DEF PluginsOk
  <2>9. World(parent', own', children', hooks', Registered', made', bindings', dirty', caller')
    BY <1>8, <1>10, <2>4
  <2> QED BY <2>8, <2>9 DEF ScopeInv
<1>11. CASE home = ctx /\ UNCHANGED <<tree, dirty>>
  <2>1. World(parent, own, children, hooks, Registered \cup {p}, made, bindings, dirty, caller)
    BY <1>1, WorldJoins
  <2>2. World(parent', own', children', hooks', Registered', made', bindings', dirty', caller')
    BY <1>8, <1>11, <2>1 DEF tree
  <2>3. \A q \in Plugins : plugin'[q].at = "running" => Acts(parent', children', plugin'[q].home)
    BY <1>1, <1>5, <1>11 DEF tree
  <2>4. PluginsOk'
    BY <1>1, <1>7, <2>3 DEF PluginsOk
  <2> QED BY <2>2, <2>4 DEF ScopeInv
<1> QED BY <1>10, <1>11

LEMMA RegisteringKeeps ==
  ASSUME NEW p \in Plugins, NEW prefix \in Mounts, ScopeInv, RegisterNested(p, prefix) \/ RegisterApp(p, prefix)
  PROVE  ScopeInv'
<1>1. plugin \in [Plugins -> PluginRecords] /\ pendingPlugins \subseteq Plugins
  BY DEF ScopeInv, PluginsOk
<1>2. plugin[p] = [at |-> plugin[p].at, home |-> plugin[p].home, late |-> plugin[p].late] /\ plugin[p].late \in BOOLEAN
  BY <1>1 DEF PluginRecords
<1>3. CASE RegisterNested(p, prefix)
  <2>1. PICK ctx \in Actors : Enter(ctx, p, prefix)
    BY <1>3 DEF RegisterNested
  <2>2. plugin[p].at = "absent" /\ UNCHANGED <<hooks, made, bindings, pendingPlugins, batch, caller>>
    BY <1>3 DEF RegisterNested, Code
  <2>3. Acts(parent, children, ctx)
    BY ActorsAct
  <2>4. PICK home : /\ plugin' = [plugin EXCEPT ![p].at = "running", ![p].home = home]
                    /\ \/ /\ home = p
                          /\ parent' = [parent EXCEPT ![p] = ctx] /\ own' = [own EXCEPT ![p] = prefix]
                          /\ children' = [children EXCEPT ![ctx] = Append(@, p)] /\ dirty' = TRUE
                       \/ home = ctx /\ UNCHANGED <<tree, dirty>>
    BY <2>1 DEF Enter
  <2>5. PICK old : old = plugin[p] /\ old \in PluginRecords
    BY <1>1
  <2>6. Begins(p, home)
    <3>1. PICK new : new = [old EXCEPT !.at = "running", !.home = home]
      OBVIOUS
    <3>2. plugin'[p] = new /\ \A q \in Plugins \ {p} : plugin'[q] = plugin[q]
      BY <1>1, <2>4, <2>5, <3>1
    <3>3. "running" \in PluginsAt
      BY DEF PluginsAt
    <3>4. new.at = "running" /\ new.home = home /\ new \in [at : PluginsAt, home : {home} \cup Contexts, late : BOOLEAN]
      BY <2>5, <3>1, <3>3 DEF PluginRecords
    <3>5. \A q \in Plugins : plugin'[q] \in [at : PluginsAt, home : {home} \cup Contexts, late : BOOLEAN]
      BY <1>1, <3>2, <3>4 DEF PluginRecords
    <3>6. plugin' = [q \in Plugins |-> plugin'[q]]
      BY <1>1, <2>4
    <3> QED BY <3>2, <3>4, <3>5, <3>6 DEF Begins
  <2>7. pendingPlugins' \subseteq Plugins
    BY <1>1, <2>2
  <2> QED BY <2>2, <2>3, <2>4, <2>6, <2>7, StartKeeps
<1>4. CASE RegisterApp(p, prefix)
  <2>1. PICK late \in BOOLEAN : late = (batch # {})
    OBVIOUS
  <2>2. PICK ctx : ctx = Root
    OBVIOUS
  <2>3. Acts(parent, children, ctx)
    BY <2>2 DEF Acts, Contexts
  <2>4. PICK home : /\ plugin' = [plugin EXCEPT ![p] = [at |-> "running", home |-> home, late |-> late]]
                    /\ \/ /\ home = p
                          /\ parent' = [parent EXCEPT ![p] = ctx] /\ own' = [own EXCEPT ![p] = prefix]
                          /\ children' = [children EXCEPT ![ctx] = Append(@, p)] /\ dirty' = TRUE
                       \/ home = ctx /\ UNCHANGED <<tree, dirty>>
    BY <1>4, <2>1, <2>2 DEF RegisterApp
  <2>5. plugin[p].at = "absent" /\ UNCHANGED <<hooks, made, bindings, batch, caller>> /\ pendingPlugins' \subseteq Plugins
    BY <1>1, <1>4 DEF RegisterApp
  <2>6. Begins(p, home)
    <3>1. PICK new : new = [at |-> "running", home |-> home, late |-> late]
      OBVIOUS
    <3>2. plugin'[p] = new /\ (\A q \in Plugins \ {p} : plugin'[q] = plugin[q]) /\ plugin' = [plugin EXCEPT ![p] = new]
      BY <1>1, <2>4, <3>1
    <3>3. "running" \in PluginsAt
      BY DEF PluginsAt
    <3>4. new.at = "running" /\ new.home = home /\ new \in [at : PluginsAt, home : {home} \cup Contexts, late : BOOLEAN]
      BY <3>1, <3>3
    <3>5. \A q \in Plugins : plugin'[q] \in [at : PluginsAt, home : {home} \cup Contexts, late : BOOLEAN]
      BY <1>1, <3>2, <3>4 DEF PluginRecords
    <3>6. plugin' = [q \in Plugins |-> plugin'[q]]
      BY <1>1, <3>2
    <3> QED BY <3>2, <3>4, <3>5, <3>6 DEF Begins
  <2> QED BY <2>3, <2>4, <2>5, <2>6, StartKeeps
<1> QED BY <1>3, <1>4

LEMMA EndingKeeps ==
  ASSUME NEW p \in Plugins, ScopeInv, EndPlugin(p)
  PROVE  ScopeInv'
<1>1. /\ plugin \in [Plugins -> PluginRecords] /\ pendingPlugins \subseteq Plugins /\ batch \subseteq Plugins
      /\ World(parent, own, children, hooks, Registered, made, bindings, dirty, caller)
      /\ \A q \in Plugins : plugin[q].at = "running" => Acts(parent, children, plugin[q].home)
  BY DEF ScopeInv, PluginsOk
<1>2. PICK end \in {"loaded", "failed"} :
        plugin' = [plugin EXCEPT ![p] = [at |-> end, home |-> Root, late |-> @.late /\ end = "failed"]]
  BY DEF EndPlugin
<1>3. plugin[p].at = "running" /\ UNCHANGED <<tree, hooks, made, bindings, dirty, pendingPlugins, batch, caller>>
  BY DEF EndPlugin, Code
<1>4. PICK new : new = [at |-> end, home |-> Root, late |-> plugin[p].late /\ end = "failed"]
  OBVIOUS
<1>5. new \in PluginRecords /\ new.at # "running" /\ new.at # "absent"
  <2>1. end \in PluginsAt /\ Root \in Contexts
    BY DEF PluginsAt, Contexts
  <2> QED BY <1>4, <2>1 DEF PluginRecords
<1>6. plugin'[p] = new /\ (\A q \in Plugins \ {p} : plugin'[q] = plugin[q]) /\ plugin' \in [Plugins -> PluginRecords]
  BY <1>1, <1>2, <1>4, <1>5
<1>7. Registered' = Registered
  BY <1>3, <1>5, <1>6 DEF Registered
<1>8. World(parent', own', children', hooks', Registered', made', bindings', dirty', caller')
  BY <1>1, <1>3, <1>7 DEF tree
<1>9. \A q \in Plugins : plugin'[q].at = "running" => Acts(parent', children', plugin'[q].home)
  BY <1>1, <1>3, <1>5, <1>6 DEF tree
<1>10. PluginsOk'
  BY <1>1, <1>3, <1>6, <1>9 DEF PluginsOk
<1> QED BY <1>8, <1>10 DEF ScopeInv

LEMMA FunSeq ==
  ASSUME NEW S, NEW n \in Nat, NEW f \in [1..n -> S]
  PROVE  f \in Seq(S) /\ Len(f) = n /\ DOMAIN f = 1..n
OBVIOUS

LEMMA AddHookKeeps ==
  ASSUME NEW ctx \in Actors, ScopeInv, AddHook(ctx)
  PROVE  ScopeInv'
<1>1. /\ World(parent, own, children, hooks, Registered, made, bindings, dirty, caller)
      /\ Sound(parent, own, children, hooks, Registered) /\ made \in Nat
  BY DEF ScopeInv, World
<1>2. ctx \in Contexts /\ (ctx = Root \/ Placed(parent, children, ctx))
  BY ActorsAct DEF Acts
<1>3. /\ made' = made + 1 /\ hooks' = [hooks EXCEPT ![ctx] = Append(@, made + 1)] /\ dirty' = TRUE
      /\ UNCHANGED <<plugin, tree, bindings, pendingPlugins, batch, caller>>
  BY DEF AddHook, Code
<1>4. PICK k \in Nat : k = made + 1
  BY <1>1
<1>14. PICK hk2 : hk2 = hooks'
  OBVIOUS
<1>5. HookAdded(hooks, ctx, k, hk2)
  BY <1>3, <1>4, <1>14 DEF HookAdded
<1>6. /\ Sound(parent, own, children, hk2, Registered) /\ Grows(parent, own, children, hooks, parent, own, children, hk2, {})
      /\ \A c \in Contexts : ToSet(hk2[c]) \subseteq ToSet(hooks[c]) \cup {k}
  <2>1. ctx \in Contexts
    BY <1>2
  <2>2. ctx = Root \/ Placed(parent, children, ctx)
    BY <1>2
  <2>3. Sound(parent, own, children, hooks, Registered)
    BY <1>1
  <2>4. Sound(parent, own, children, hk2, Registered)
    BY <1>5, <2>1, <2>2, <2>3, HookSound
  <2>5. Grows(parent, own, children, hooks, parent, own, children, hk2, {})
    BY <1>5, <2>1, <2>2, <2>3, HookSound
  <2>6. \A c \in Contexts : ToSet(hk2[c]) \subseteq ToSet(hooks[c]) \cup {k}
    BY <1>5, <2>1, <2>2, <2>3, HookSound
  <2> QED BY <2>4, <2>5, <2>6
<1>7. \A c \in Contexts : ToSet(hk2[c]) \subseteq ToSet(hooks[c]) \cup (made + 1)..k
  <2>1. k \in (made + 1)..k
    BY <1>4
  <2> QED BY <1>6, <2>1
<1>8. {} \cap Registered = {} /\ Registered \subseteq Registered /\ made <= k
  BY <1>1, <1>4
<1>9. World(parent, own, children, hk2, Registered, k, bindings, TRUE, caller)
  BY <1>1, <1>6, <1>7, <1>8, WorldGrows
<1>10. Registered' = Registered
  BY <1>3 DEF Registered
<1>11. World(parent', own', children', hooks', Registered', made', bindings', dirty', caller')
  BY <1>3, <1>4, <1>14, <1>9, <1>10 DEF tree
<1>12. PluginsOk'
  BY <1>3 DEF ScopeInv, PluginsOk, tree
<1> QED BY <1>11, <1>12 DEF ScopeInv

LEMMA AddRouteKeeps ==
  ASSUME NEW ctx \in Actors, NEW path \in Paths, NEW withHook \in BOOLEAN, ScopeInv, AddRoute(ctx, path, withHook)
  PROVE  ScopeInv'
<1>1. World(parent, own, children, hooks, Registered, made, bindings, dirty, caller) /\ made \in Nat
  BY DEF ScopeInv, World
<1>2. ctx \in Contexts /\ ctx \in {Root} \cup Registered
  BY ActorsAct DEF Acts
<1>3. PICK local : local = IF withHook THEN <<made + 1>> ELSE <<>>
  OBVIOUS
<1>4. PICK nb : nb = [ctx |-> ctx, route |-> TRUE, path |-> path, local |-> local, chain |-> <<>>]
  OBVIOUS
<1>5. /\ made' = made + (IF withHook THEN 1 ELSE 0) /\ bindings' = Append(bindings, nb) /\ dirty' = TRUE
      /\ UNCHANGED <<plugin, tree, hooks, pendingPlugins, batch, caller>>
  BY <1>3, <1>4 DEF AddRoute, Code
<1>6. local \in Seq(Nat)
  <2>1. <<>> \in Seq(Nat)
    OBVIOUS
  <2>2. PICK k \in Nat : k = made + 1
    BY <1>1
  <2>3. <<k>> \in Seq(Nat)
    OBVIOUS
  <2> QED BY <1>3, <2>1, <2>2, <2>3
<1>7. nb \in Bindings /\ nb.route /\ nb.ctx = ctx /\ nb.chain = <<>>
  <2>1. path \in Seq(Segments) /\ <<>> \in Seq(Nat)
    BY ScopesAssumption
  <2> QED BY <1>2, <1>4, <1>6, <2>1 DEF Bindings
<1>8. made' \in Nat /\ made <= made'
  BY <1>1, <1>5
<1>9. PICK m2 \in Nat : m2 = made' /\ made <= m2
  BY <1>8
<1>10. World(parent, own, children, hooks, Registered, m2, Append(bindings, nb), TRUE, caller)
  BY <1>1, <1>2, <1>7, <1>9, WorldRoutes
<1>11. Registered' = Registered
  BY <1>5 DEF Registered
<1>12. World(parent', own', children', hooks', Registered', made', bindings', dirty', caller')
  BY <1>5, <1>9, <1>10, <1>11 DEF tree
<1>13. PluginsOk'
  BY <1>5 DEF ScopeInv, PluginsOk, tree
<1> QED BY <1>12, <1>13 DEF ScopeInv

\* Every scope is resolved, and scopes of contexts may be added.
LEMMA Refilled ==
  ASSUME NEW par, NEW ow, NEW kids, NEW hk, NEW live, Sound(par, ow, kids, hk, live),
         NEW bs \in Seq(Bindings), NEW more \in Seq(Bindings), Len(bs) <= Len(more),
         \A b \in DOMAIN bs : more[b] = bs[b],
         \A b \in DOMAIN more : b \notin DOMAIN bs =>
           ~more[b].route /\ more[b].ctx \in {Root} \cup live /\ more[b].local = <<>>,
         NEW cs, cs = [i \in DOMAIN more |-> [more[i] EXCEPT !.chain = Whole(par, ow, kids, hk, more[i])]]
  PROVE  FlushedTo(par, ow, kids, hk, live, bs, cs)
<1>1. PICK n \in Nat : n = Len(more) /\ DOMAIN more = 1..n
  OBVIOUS
<1>2. ASSUME NEW b \in 1..n
      PROVE  /\ cs[b] \in Bindings /\ cs[b].ctx = more[b].ctx /\ cs[b].route = more[b].route
             /\ cs[b].local = more[b].local /\ cs[b].chain = Whole(par, ow, kids, hk, cs[b])
  <2>1. PICK old \in Bindings : old = more[b]
    BY <1>1
  <2>2. PICK chain \in Seq(Nat) : chain = Whole(par, ow, kids, hk, old)
    BY WholeIs
  <2>6. PICK new : new = [old EXCEPT !.chain = chain]
    OBVIOUS
  <2>3. cs[b] = new
    BY <1>1, <2>1, <2>2, <2>6
  <2>7. /\ new \in Bindings /\ new.ctx = old.ctx /\ new.route = old.route /\ new.local = old.local
        /\ new.chain = chain
    BY <2>6 DEF Bindings
  <2>4. /\ cs[b] \in Bindings /\ cs[b].ctx = old.ctx /\ cs[b].route = old.route /\ cs[b].local = old.local
        /\ cs[b].chain = chain
    BY <2>3, <2>7
  <2>5. Whole(par, ow, kids, hk, cs[b]) = chain
    BY <2>2, <2>4 DEF Whole
  <2> QED BY <2>1, <2>4, <2>5
<1>3. cs \in Seq(Bindings) /\ Len(cs) = n /\ DOMAIN cs = 1..n
  <2>1. cs \in [1..n -> Bindings]
    BY <1>1, <1>2
  <2> QED BY <2>1, FunSeq
<1>4. \A b \in DOMAIN bs : b \in 1..n
  BY <1>1
<1>5. \A b \in DOMAIN bs : cs[b].ctx = bs[b].ctx /\ cs[b].route = bs[b].route /\ cs[b].local = bs[b].local
  BY <1>2, <1>4
<1>6. \A b \in DOMAIN cs : b \notin DOMAIN bs => ~cs[b].route /\ cs[b].ctx \in {Root} \cup live /\ cs[b].local = <<>>
  BY <1>1, <1>2, <1>3
<1>7. \A b \in DOMAIN cs : cs[b].chain = Whole(par, ow, kids, hk, cs[b])
  BY <1>2, <1>3
<1>8. Len(bs) <= Len(cs)
  BY <1>1, <1>3
<1> QED BY <1>3, <1>5, <1>6, <1>7, <1>8 DEF FlushedTo

LEMMA ResolveReads == \A b : ResolveBinding(b) = [b EXCEPT !.chain = Whole(parent, own, children, hooks, b)]
BY Readings DEF ResolveBinding, Whole

LEMMA PromisedReads == \A b : Promised(b) = Owing(parent, own, hooks, Registered, bindings[b])
BY Readings DEF Promised, Owing

LEMMA FlushedResolves ==
  ASSUME ScopeInv
  PROVE  FlushedTo(parent, own, children, hooks, Registered, bindings, Flushed)
<1>1. /\ Sound(parent, own, children, hooks, Registered) /\ bindings \in Seq(Bindings)
      /\ BindingsOk(parent, own, children, hooks, Registered, bindings, dirty)
  BY DEF ScopeInv, World, BindingsOk
<1>2. CASE dirty
  <2>1. Flushed = [i \in DOMAIN bindings |-> [bindings[i] EXCEPT !.chain = Whole(parent, own, children, hooks, bindings[i])]]
    BY <1>2, ResolveReads DEF Flushed
  <2>2. Len(bindings) <= Len(bindings)
    BY <1>1
  <2> QED BY <1>1, <2>1, <2>2, Refilled
<1>3. CASE ~dirty
  <2>1. Flushed = bindings
    BY <1>3 DEF Flushed
  <2>2. Len(bindings) <= Len(bindings)
    BY <1>1
  <2> QED BY <1>1, <1>3, <2>1, <2>2 DEF FlushedTo, BindingsOk
<1> QED BY <1>2, <1>3

\* What a step of a request leaves alone.
OthersStay == UNCHANGED <<plugin, tree, hooks, made>>

LEMMA CallerStepKeeps ==
  ASSUME ScopeInv, OthersStay, NEW r \in Callers, NEW new, caller' = [caller EXCEPT ![r] = new],
         World(parent, own, children, hooks, Registered, made, bindings', dirty', caller),
         CallerOk(parent, own, hooks, Registered, made, bindings', new),
         pendingPlugins' \subseteq Plugins, batch' \subseteq Plugins
  PROVE  ScopeInv'
<1>1. Registered' = Registered
  BY DEF OthersStay, Registered
<1>2. PICK cs, dirt2 : cs = bindings' /\ dirt2 = dirty'
  OBVIOUS
<1>3. World(parent, own, children, hooks, Registered, made, cs, dirt2, [caller EXCEPT ![r] = new])
  BY <1>2, WorldMoves
<1>4. World(parent', own', children', hooks', Registered', made', bindings', dirty', caller')
  BY <1>1, <1>2, <1>3 DEF OthersStay, tree
<1>5. PluginsOk'
  BY DEF ScopeInv, PluginsOk, OthersStay, tree
<1> QED BY <1>4, <1>5 DEF ScopeInv

LEMMA ArrivingKeeps ==
  ASSUME NEW r \in Callers, NEW path \in Paths, ScopeInv, Arrive(r, path)
  PROVE  ScopeInv'
<1>1. OthersStay /\ UNCHANGED <<bindings, dirty>>
  BY DEF Arrive, OthersStay
<1>2. PICK at \in {"ready", "waiting"} : at = IF pendingPlugins \cup batch = {} THEN "ready" ELSE "waiting"
  OBVIOUS
<1>3. PICK before \in SUBSET Plugins : before = pendingPlugins \cup batch
  BY DEF ScopeInv, PluginsOk
<1>4. PICK new : new = [Idle EXCEPT !.at = at, !.path = path, !.before = before]
  OBVIOUS
<1>5. caller' = [caller EXCEPT ![r] = new]
  BY <1>2, <1>3, <1>4 DEF Arrive
<1>6. new \in CallerRecords /\ new.at = at /\ new.next = 1 /\ new.ran = {}
  <2>1. at \in CallersAt /\ path \in Seq(Segments)
    BY <1>2, ScopesAssumption DEF CallersAt
  <2> QED BY <1>3, <1>4, <2>1, IdleRecord DEF CallerRecords
<1>7. CallerOk(parent, own, hooks, Registered, made, bindings, new)
  BY <1>2, <1>6, FreshCaller
<1>8. World(parent, own, children, hooks, Registered, made, bindings, dirty, caller)
  BY DEF ScopeInv
<1>9. pendingPlugins' \subseteq Plugins /\ batch' \subseteq Plugins
  BY DEF ScopeInv, PluginsOk, Arrive
<1>10. /\ World(parent, own, children, hooks, Registered, made, bindings', dirty', caller)
       /\ CallerOk(parent, own, hooks, Registered, made, bindings', new)
  BY <1>1, <1>7, <1>8
<1> QED BY <1>1, <1>5, <1>9, <1>10, CallerStepKeeps

LEMMA BatchStepKeeps ==
  ASSUME ScopeInv, BatchLoads \/ BatchRejects
  PROVE  ScopeInv'
<1>1. OthersStay /\ UNCHANGED <<bindings, dirty, pendingPlugins>> /\ batch' \subseteq Plugins
  BY DEF BatchLoads, BatchRejects, OthersStay, ScopeInv, PluginsOk
<1>2. World(parent, own, children, hooks, Registered, made, bindings, dirty, caller) /\ caller \in [Callers -> CallerRecords]
  BY DEF ScopeInv, World
<1>3. caller' = [r \in Callers |-> caller'[r]]
  BY DEF BatchLoads, BatchRejects
<1>4. ASSUME NEW r \in Callers
      PROVE  caller'[r] \in CallerRecords /\ CallerOk(parent, own, hooks, Registered, made, bindings, caller'[r])
  <2>1. CallerOk(parent, own, hooks, Registered, made, bindings, caller[r]) /\ caller[r] \in CallerRecords
    BY <1>2 DEF World
  <2>2. CASE r \notin Waiting
    <3>1. caller'[r] = caller[r]
      BY <2>2 DEF BatchLoads, BatchRejects
    <3> QED BY <2>1, <3>1
  <2>3. CASE r \in Waiting /\ BatchLoads
    <3>1. PICK old, new : old = caller[r] /\ new = caller'[r]
      OBVIOUS
    <3>2. new = [old EXCEPT !.at = "ready"]
      BY <2>3, <3>1 DEF BatchLoads
    <3>3. old \in CallerRecords /\ old.at = "waiting" /\ old.next = 1 /\ old.ran = {}
      BY <2>1, <2>3, <3>1 DEF Waiting, CallerOk
    <3>4. new \in CallerRecords /\ new.at = "ready" /\ new.next = 1 /\ new.ran = {}
      <4>1. "ready" \in CallersAt
        BY DEF CallersAt
      <4> QED BY <3>2, <3>3, <4>1 DEF CallerRecords
    <3>5. CallerOk(parent, own, hooks, Registered, made, bindings, new)
      BY <3>4, FreshCaller
    <3> QED BY <3>1, <3>4, <3>5
  <2>4. CASE r \in Waiting /\ BatchRejects
    <3>1. caller'[r] = Idle
      BY <2>4 DEF BatchRejects
    <3>2. CallerOk(parent, own, hooks, Registered, made, bindings, Idle)
      BY IdleRecord, FreshCaller
    <3> QED BY <3>1, <3>2, IdleRecord
  <2> QED BY <2>2, <2>3, <2>4
<1>5. PICK cl2 : cl2 = caller'
  OBVIOUS
<1>6. World(parent, own, children, hooks, Registered, made, bindings, dirty, cl2)
  <2>1. cl2 \in [Callers -> CallerRecords]
    BY <1>3, <1>4, <1>5
  <2> QED BY <1>2, <1>4, <1>5, <2>1 DEF World
<1>7. Registered' = Registered
  BY <1>1 DEF OthersStay, Registered
<1>8. World(parent', own', children', hooks', Registered', made', bindings', dirty', caller')
  BY <1>1, <1>5, <1>6, <1>7 DEF OthersStay, tree
<1>9. PluginsOk'
  BY <1>1 DEF ScopeInv, PluginsOk, OthersStay, tree
<1> QED BY <1>8, <1>9 DEF ScopeInv

LEMMA BeginKeeps ==
  ASSUME NEW r \in Callers, ScopeInv, Begin(r)
  PROVE  ScopeInv'
<1>1. OthersStay /\ UNCHANGED <<pendingPlugins, batch>> /\ bindings' = Flushed /\ dirty' = FALSE /\ caller[r].at = "ready"
  BY DEF Begin, OthersStay
<1>2. PICK b \in DOMAIN bindings :
        caller' = [caller EXCEPT ![r].at = "hooks", ![r].path = <<>>, ![r].before = {},
                                 ![r].binding = b, ![r].owed = Promised(b)]
  BY DEF Begin
<1>3. /\ World(parent, own, children, hooks, Registered, made, bindings, dirty, caller)
      /\ Sound(parent, own, children, hooks, Registered) /\ caller \in [Callers -> CallerRecords]
      /\ CallerOk(parent, own, hooks, Registered, made, bindings, caller[r]) /\ bindings \in Seq(Bindings)
  BY DEF ScopeInv, World, BindingsOk
<1>4. PICK cs : cs = Flushed
  OBVIOUS
<1>5. FlushedTo(parent, own, children, hooks, Registered, bindings, cs)
  BY <1>4, FlushedResolves
<1>6. World(parent, own, children, hooks, Registered, made, cs, FALSE, caller)
  BY <1>3, <1>5, WorldFlushes
<1>7. PICK owed : owed = Owing(parent, own, hooks, Registered, bindings[b])
  OBVIOUS
<1>8. b \in DOMAIN cs /\ b \in Nat /\ b > 0 /\ owed \in SUBSET Nat /\ owed = ToSet(cs[b].chain)
  <2>1. b \in DOMAIN cs /\ b \in Nat /\ b > 0 /\ cs \in Seq(Bindings)
    BY <1>3, <1>5 DEF FlushedTo
  <2>2. cs[b] \in Bindings /\ cs[b].chain = Whole(parent, own, children, hooks, cs[b]) /\ cs[b].chain \in Seq(Nat)
    BY <1>5, <2>1, BindingFields DEF FlushedTo
  <2>3. ToSet(cs[b].chain) = Owing(parent, own, hooks, Registered, cs[b])
    BY <1>3, <2>2, WholeIs
  <2>4. Owing(parent, own, hooks, Registered, cs[b]) = owed
    BY <1>5, <1>7 DEF FlushedTo, Owing
  <2>5. ToSet(cs[b].chain) \subseteq Nat
    BY <2>2 DEF ToSet
  <2> QED BY <2>1, <2>3, <2>4, <2>5
<1>9. PICK old : old = caller[r]
  OBVIOUS
<1>10. old \in CallerRecords /\ old.next = 1 /\ old.ran = {}
  BY <1>1, <1>3, <1>9 DEF CallerOk
<1>11. PICK new : new = [old EXCEPT !.at = "hooks", !.path = <<>>, !.before = {}, !.binding = b, !.owed = owed]
  OBVIOUS
<1>12. caller' = [caller EXCEPT ![r] = new]
  BY <1>2, <1>3, <1>7, <1>9, <1>11, PromisedReads
<1>13. new \in CallerRecords /\ new.at = "hooks" /\ new.next = 1 /\ new.ran = {} /\ new.binding = b /\ new.owed = owed
  <2>1. "hooks" \in CallersAt /\ <<>> \in Seq(Segments) /\ {} \in SUBSET Plugins
    BY DEF CallersAt
  <2> QED BY <1>8, <1>10, <1>11, <2>1 DEF CallerRecords
<1>14. CallerOk(parent, own, hooks, Registered, made, cs, new)
  <2>1. new.binding \in {0} \cup DOMAIN cs /\ new.owed \subseteq ToSet(WalkOf(cs, new))
    BY <1>8, <1>13 DEF WalkOf
  <2> QED BY <1>13, <2>1, SentCaller
<1>15. /\ World(parent, own, children, hooks, Registered, made, bindings', dirty', caller)
       /\ CallerOk(parent, own, hooks, Registered, made, bindings', new)
  BY <1>1, <1>4, <1>6, <1>14
<1>16. pendingPlugins' \subseteq Plugins /\ batch' \subseteq Plugins
  BY <1>1 DEF ScopeInv, PluginsOk
<1> QED BY <1>1, <1>12, <1>15, <1>16, CallerStepKeeps

LEMMA BeginMissKeeps ==
  ASSUME NEW r \in Callers, ScopeInv, BeginMiss(r)
  PROVE  ScopeInv'
<1>1. /\ OthersStay /\ UNCHANGED <<pendingPlugins, batch>> /\ bindings' = Flushed /\ dirty' = FALSE /\ caller[r].at = "ready"
      /\ caller' = [caller EXCEPT ![r].at = "missing", ![r].before = {}, ![r].owed = 1..made, ![r].binding = Len(bindings)]
  BY DEF BeginMiss, OthersStay
<1>3. /\ World(parent, own, children, hooks, Registered, made, bindings, dirty, caller) /\ made \in Nat
      /\ Sound(parent, own, children, hooks, Registered) /\ caller \in [Callers -> CallerRecords]
      /\ CallerOk(parent, own, hooks, Registered, made, bindings, caller[r])
      /\ bindings \in Seq(Bindings) /\ Len(bindings) > 0
  BY DEF ScopeInv, World, BindingsOk
<1>4. PICK cs : cs = Flushed
  OBVIOUS
<1>5. FlushedTo(parent, own, children, hooks, Registered, bindings, cs)
  BY <1>4, FlushedResolves
<1>6. World(parent, own, children, hooks, Registered, made, cs, FALSE, caller)
  BY <1>3, <1>5, WorldFlushes
<1>7. PICK b \in Nat : b = Len(bindings) /\ b \in DOMAIN cs
  BY <1>3, <1>5 DEF FlushedTo
<1>8. PICK owed \in SUBSET Nat : owed = 1..made
  BY <1>3
<1>9. PICK old : old = caller[r]
  OBVIOUS
<1>10. old \in CallerRecords /\ old.next = 1 /\ old.ran = {}
  BY <1>1, <1>3, <1>9 DEF CallerOk
<1>11. PICK new : new = [old EXCEPT !.at = "missing", !.before = {}, !.owed = owed, !.binding = b]
  OBVIOUS
<1>12. caller' = [caller EXCEPT ![r] = new]
  BY <1>1, <1>3, <1>7, <1>8, <1>9, <1>11
<1>13. new \in CallerRecords /\ new.at = "missing" /\ new.next = 1 /\ new.ran = {} /\ new.binding = b /\ new.owed = owed
  <2>1. "missing" \in CallersAt /\ {} \in SUBSET Plugins
    BY DEF CallersAt
  <2> QED BY <1>10, <1>11, <2>1 DEF CallerRecords
<1>14. CallerOk(parent, own, hooks, Registered, made, cs, new)
  <2>1. new.binding \in DOMAIN cs /\ new.owed \subseteq 1..made
    BY <1>7, <1>8, <1>13
  <2> QED BY <1>3, <1>5, <1>13, <2>1, MissingCaller
<1>15. /\ World(parent, own, children, hooks, Registered, made, bindings', dirty', caller)
       /\ CallerOk(parent, own, hooks, Registered, made, bindings', new)
  BY <1>1, <1>4, <1>6, <1>14
<1>16. pendingPlugins' \subseteq Plugins /\ batch' \subseteq Plugins
  BY <1>1 DEF ScopeInv, PluginsOk
<1> QED BY <1>1, <1>12, <1>15, <1>16, CallerStepKeeps

LEMMA WalkedIs == \A r : Walked(r) = WalkOf(bindings, caller[r])
BY DEF Walked, WalkOf

LEMMA WalkingKeeps ==
  ASSUME NEW r \in Callers, ScopeInv, RunHook(r) \/ Handler(r)
  PROVE  ScopeInv'
<1>1. OthersStay /\ UNCHANGED <<bindings, dirty, pendingPlugins, batch>> /\ caller[r].at = "hooks"
  BY DEF RunHook, Handler, OthersStay
<1>2. /\ World(parent, own, children, hooks, Registered, made, bindings, dirty, caller)
      /\ Sound(parent, own, children, hooks, Registered) /\ caller \in [Callers -> CallerRecords]
      /\ BindingsOk(parent, own, children, hooks, Registered, bindings, dirty)
      /\ CallerOk(parent, own, hooks, Registered, made, bindings, caller[r]) /\ bindings \in Seq(Bindings)
  BY DEF ScopeInv, World, BindingsOk
<1>3. PICK old : old = caller[r]
  OBVIOUS
<1>4. PICK w : w = WalkOf(bindings, old) /\ w = Walked(r)
  BY <1>3, WalkedIs
<1>5. old \in CallerRecords /\ old.at = "hooks" /\ CallerOk(parent, own, hooks, Registered, made, bindings, old)
  BY <1>1, <1>2, <1>3
<1>6. ASSUME NEW new, CallerOk(parent, own, hooks, Registered, made, bindings, new), caller' = [caller EXCEPT ![r] = new]
      PROVE  ScopeInv'
  <2>1. /\ World(parent, own, children, hooks, Registered, made, bindings', dirty', caller)
        /\ CallerOk(parent, own, hooks, Registered, made, bindings', new)
    BY <1>1, <1>2, <1>6
  <2>2. pendingPlugins' \subseteq Plugins /\ batch' \subseteq Plugins
    BY <1>1 DEF ScopeInv, PluginsOk
  <2> QED BY <1>1, <1>6, <2>1, <2>2, CallerStepKeeps
<1>7. CASE caller' = [caller EXCEPT ![r] = Idle]
  <2>1. CallerOk(parent, own, hooks, Registered, made, bindings, Idle)
    BY IdleRecord, FreshCaller
  <2> QED BY <1>6, <1>7, <2>1
<1>8. CASE /\ old.next <= Len(w)
           /\ caller' = [caller EXCEPT ![r].next = @ + 1, ![r].ran = @ \cup {Walked(r)[caller[r].next]}]
  <2>1. PICK new : new = [old EXCEPT !.next = @ + 1, !.ran = @ \cup {WalkOf(bindings, old)[old.next]}]
    OBVIOUS
  <2>2. CallerOk(parent, own, hooks, Registered, made, bindings, new)
    <3>1. old.next <= Len(WalkOf(bindings, old))
      BY <1>4, <1>8
    <3> QED BY <1>2, <1>5, <2>1, <3>1, RunningCaller
  <2>3. caller' = [caller EXCEPT ![r] = new]
    <3>1. PICK next, ran : next = old.next + 1 /\ ran = old.ran \cup {w[old.next]}
      OBVIOUS
    <3>2. new = [old EXCEPT !.next = next, !.ran = ran]
      BY <1>4, <1>5, <2>1, <3>1
    <3>3. caller' = [caller EXCEPT ![r].next = next, ![r].ran = ran]
      BY <1>2, <1>3, <1>4, <1>8, <3>1
    <3> QED BY <1>2, <1>3, <3>2, <3>3
  <2> QED BY <1>6, <2>2, <2>3
<1>9. CASE Handler(r)
  <2>1. PICK new : new = [old EXCEPT !.at = "handled", !.list = <<>>, !.next = 1]
    OBVIOUS
  <2>2. CallerOk(parent, own, hooks, Registered, made, bindings, new)
    <3>1. old.next > Len(WalkOf(bindings, old))
      BY <1>3, <1>4, <1>9 DEF Handler
    <3> QED BY <1>2, <1>5, <2>1, <3>1, HandledCaller
  <2>3. caller' = [caller EXCEPT ![r] = new]
    BY <1>2, <1>3, <1>9, <2>1 DEF Handler
  <2> QED BY <1>6, <2>2, <2>3
<1> QED BY <1>3, <1>4, <1>7, <1>8, <1>9 DEF RunHook

\* What a request at a miss is owed is in every chain it may be sent through.
LEMMA MissOwed ==
  ASSUME ScopeInv, NEW r \in Callers, caller[r].at = "missing"
  PROVE  /\ caller[r] \in CallerRecords /\ caller[r].next = 1 /\ caller[r].ran = {}
         /\ \A b \in DOMAIN bindings : b <= caller[r].binding \/ ~bindings[b].route =>
              caller[r].owed \cap Promised(b) \subseteq ToSet(bindings[b].chain)
         /\ \A b \in DOMAIN bindings : ~bindings[b].route =>
              caller[r].owed \cap PromisedIn(bindings[b].ctx) \subseteq ToSet(bindings[b].chain)
<1>1. CallerOk(parent, own, hooks, Registered, made, bindings, caller[r])
  BY DEF ScopeInv, World
<1>2. BindingsOk(parent, own, children, hooks, Registered, bindings, dirty)
  BY DEF ScopeInv, World
<1>3. \A b \in DOMAIN bindings : b <= caller[r].binding \/ ~bindings[b].route =>
         caller[r].owed \cap Promised(b) \subseteq ToSet(bindings[b].chain)
  BY <1>1, PromisedReads DEF CallerOk
<1>4. \A b : PromisedIn(bindings[b].ctx) \subseteq Promised(b)
  BY DEF Promised
<1>5. caller[r] \in CallerRecords /\ caller[r].next = 1 /\ caller[r].ran = {}
  BY <1>1 DEF CallerOk
<1> QED BY <1>3, <1>4, <1>5

\* 405: the request goes through a list made of the chains of the path's routes.
LEMMA CollectRoutesKeeps ==
  ASSUME NEW r \in Callers, ScopeInv, CollectRoutes(r)
  PROVE  ScopeInv'
<1>1. OthersStay /\ UNCHANGED <<bindings, dirty, pendingPlugins, batch>> /\ caller[r].at = "missing"
  BY DEF CollectRoutes, OthersStay
<1>2. /\ World(parent, own, children, hooks, Registered, made, bindings, dirty, caller)
      /\ caller \in [Callers -> CallerRecords] /\ bindings \in Seq(Bindings) /\ Len(bindings) > 0
  BY DEF ScopeInv, World, BindingsOk
<1>3. PICK old, routes : old = caller[r] /\ routes = RoutesAt(caller[r].path)
  OBVIOUS
<1>4. /\ old \in CallerRecords /\ old.next = 1 /\ old.ran = {}
      /\ \A b \in DOMAIN bindings : b <= old.binding => old.owed \cap Promised(b) \subseteq ToSet(bindings[b].chain)
  BY <1>1, <1>3, MissOwed
<1>5. PICK ss : ss = [b \in DOMAIN bindings |-> IF b \in routes THEN bindings[b].chain ELSE <<>>]
  OBVIOUS
<1>6. PICK n \in Nat : n = Len(bindings) /\ DOMAIN bindings = 1..n /\ n > 0
  BY <1>2
<1>7. ss \in Seq(Seq(Nat)) /\ Len(ss) = n /\ \A b \in 1..n : ss[b] = IF b \in routes THEN bindings[b].chain ELSE <<>>
  <2>1. \A b \in 1..n : ss[b] \in Seq(Nat)
    <3>1. \A b \in 1..n : bindings[b].chain \in Seq(Nat)
      BY <1>2, <1>6, BindingFields
    <3> QED BY <1>5, <1>6, <3>1
  <2>2. ss \in [1..n -> Seq(Nat)]
    BY <1>5, <1>6, <2>1
  <2> QED BY <1>5, <1>6, <2>2, FunSeq
<1>8. PICK list : list = Once(FlattenSeq(ss))
  OBVIOUS
<1>9. list \in Seq(Nat) /\ \A x : x \in ToSet(list) <=> \E b \in 1..n : x \in ToSet(ss[b])
  <2>1. FlattenSeq(ss) \in Seq(Nat) /\ \A x : x \in ToSet(FlattenSeq(ss)) <=> \E b \in 1..n : x \in ToSet(ss[b])
    BY <1>7, FlattenTyped, FlattenedSet
  <2> QED BY <1>8, <2>1, OnceSet
<1>10. PICK owed : owed = old.owed \cap UNION {Promised(b) : b \in {c \in routes : c <= old.binding}}
  OBVIOUS
<1>11. owed \subseteq ToSet(list)
  <2> SUFFICES ASSUME NEW x \in owed PROVE x \in ToSet(list)
    OBVIOUS
  <2>1. PICK b \in routes : b <= old.binding /\ x \in Promised(b) /\ x \in old.owed
    BY <1>10
  <2>2. b \in DOMAIN bindings
    BY <1>3 DEF RoutesAt
  <2>3. x \in ToSet(bindings[b].chain)
    BY <1>4, <2>1, <2>2
  <2>4. ss[b] = bindings[b].chain
    BY <1>6, <1>7, <2>2
  <2> QED BY <1>6, <1>9, <2>2, <2>3, <2>4
<1>12. owed \in SUBSET Nat
  BY <1>4, <1>10 DEF CallerRecords
<1>13. PICK binding \in {0, 1} : binding = IF list = <<>> THEN 1 ELSE 0
  OBVIOUS
<1>14. PICK new : new = [old EXCEPT !.at = "hooks", !.path = <<>>, !.binding = binding, !.list = list, !.owed = owed]
  OBVIOUS
<1>15. caller' = [caller EXCEPT ![r] = new]
  <2>1. caller' = [caller EXCEPT ![r].at = "hooks", ![r].path = <<>>, ![r].binding = binding, ![r].list = list, ![r].owed = owed]
    BY <1>3, <1>5, <1>8, <1>10, <1>13 DEF CollectRoutes
  <2> QED BY <1>2, <1>3, <1>14, <2>1
<1>16. /\ new \in CallerRecords /\ new.at = "hooks" /\ new.next = 1 /\ new.ran = {}
       /\ new.binding = binding /\ new.owed = owed /\ new.list = list
  <2>1. "hooks" \in CallersAt /\ <<>> \in Seq(Segments) /\ binding \in Nat
    BY DEF CallersAt
  <2> QED BY <1>4, <1>9, <1>12, <1>14, <2>1 DEF CallerRecords
<1>17. new.owed \subseteq ToSet(WalkOf(bindings, new))
  <2>1. CASE list = <<>>
    <3>1. ToSet(list) = {}
      BY <2>1 DEF ToSet
    <3> QED BY <1>11, <1>16, <3>1
  <2>2. CASE list # <<>>
    BY <1>11, <1>13, <1>16, <2>2 DEF WalkOf
  <2> QED BY <2>1, <2>2
<1>18. CallerOk(parent, own, hooks, Registered, made, bindings, new)
  <2>1. new.binding \in {0} \cup DOMAIN bindings
    BY <1>6, <1>16
  <2> QED BY <1>16, <1>17, <2>1, SentCaller
<1>19. /\ World(parent, own, children, hooks, Registered, made, bindings', dirty', caller)
       /\ CallerOk(parent, own, hooks, Registered, made, bindings', new)
  BY <1>1, <1>2, <1>18
<1>20. pendingPlugins' \subseteq Plugins /\ batch' \subseteq Plugins
  BY <1>1 DEF ScopeInv, PluginsOk
<1> QED BY <1>1, <1>15, <1>19, <1>20, CallerStepKeeps

\* Scopes of the covering contexts: there, or made and flushed with all the others.
LEMMA ScopesMade ==
  ASSUME ScopeInv, NEW contexts \in Seq(Contexts), \A c \in ToSet(contexts) : c \in Registered,
         NEW known, known = WithScopes(contexts)
  PROVE  IF \A i \in DOMAIN contexts : HasScope(contexts[i])
         THEN known = bindings
         ELSE /\ FlushedTo(parent, own, children, hooks, Registered, bindings, known)
              /\ \A c \in ToSet(contexts) : \E i \in DOMAIN known : ~known[i].route /\ known[i].ctx = c
<1>1. /\ Sound(parent, own, children, hooks, Registered) /\ bindings \in Seq(Bindings)
  BY DEF ScopeInv, World, BindingsOk
<1>2. PICK n \in Nat : n = Len(contexts) /\ DOMAIN contexts = 1..n /\ \A i \in 1..n : contexts[i] \in Contexts
  OBVIOUS
<1>3. PICK ss : ss = [i \in DOMAIN contexts |-> IF HasScope(contexts[i]) THEN <<>> ELSE <<contexts[i]>>]
  OBVIOUS
<1>4. \A i \in 1..n : ss[i] \in Seq(Contexts) /\ ToSet(ss[i]) = IF HasScope(contexts[i]) THEN {} ELSE {contexts[i]}
  <2> SUFFICES ASSUME NEW i \in 1..n
               PROVE  ss[i] \in Seq(Contexts) /\ ToSet(ss[i]) = IF HasScope(contexts[i]) THEN {} ELSE {contexts[i]}
    OBVIOUS
  <2>1. PICK x \in Contexts : x = contexts[i]
    BY <1>2
  <2>2. ss[i] = IF HasScope(x) THEN <<>> ELSE <<x>>
    BY <1>2, <1>3, <2>1
  <2>3. <<x>> \in Seq(Contexts) /\ ToSet(<<x>>) = {x}
    BY DEF ToSet
  <2>4. <<>> \in Seq(Contexts) /\ ToSet(<<>>) = {}
    BY DEF ToSet
  <2> QED BY <2>1, <2>2, <2>3, <2>4
<1>5. ss \in Seq(Seq(Contexts)) /\ Len(ss) = n
  <2>1. ss \in [1..n -> Seq(Contexts)]
    BY <1>2, <1>3, <1>4
  <2> QED BY <2>1, FunSeq
<1>6. PICK missing : missing = FlattenSeq(ss)
  OBVIOUS
<1>7. missing \in Seq(Contexts) /\ \A x : x \in ToSet(missing) <=> \E i \in 1..n : x \in ToSet(ss[i])
  BY <1>5, <1>6, FlattenTyped, FlattenedSet
<1>8. \A x : x \in ToSet(missing) <=> \E i \in 1..n : ~HasScope(contexts[i]) /\ x = contexts[i]
  <2> SUFFICES ASSUME NEW x
               PROVE  x \in ToSet(missing) <=> \E i \in 1..n : ~HasScope(contexts[i]) /\ x = contexts[i]
    OBVIOUS
  <2>1. ASSUME NEW i \in 1..n PROVE x \in ToSet(ss[i]) <=> ~HasScope(contexts[i]) /\ x = contexts[i]
    BY <1>4
  <2>2. x \in ToSet(missing) <=> \E i \in 1..n : x \in ToSet(ss[i])
    BY <1>7
  <2> QED BY <2>1, <2>2
<1>9. PICK m \in Nat : m = Len(missing) /\ DOMAIN missing = 1..m
  BY <1>7
<1>10. \A k \in 1..m : missing[k] \in Contexts /\ missing[k] \in Registered
  <2>1. \A k \in 1..m : missing[k] \in ToSet(missing)
    BY <1>9 DEF ToSet
  <2>2. \A i \in 1..n : contexts[i] \in ToSet(contexts)
    BY <1>2 DEF ToSet
  <2> QED BY <1>2, <1>8, <2>1, <2>2
<1>11. PICK scopes : scopes = [i \in DOMAIN missing |-> ContextScope(missing[i])]
  OBVIOUS
<1>12. \A k \in 1..m : /\ scopes[k] \in Bindings /\ ~scopes[k].route /\ scopes[k].ctx = missing[k]
                       /\ scopes[k].local = <<>>
  <2> SUFFICES ASSUME NEW k \in 1..m
               PROVE  /\ scopes[k] \in Bindings /\ ~scopes[k].route /\ scopes[k].ctx = missing[k]
                      /\ scopes[k].local = <<>>
    OBVIOUS
  <2>1. <<>> \in Seq(Nat) /\ <<>> \in Seq(Segments) /\ FALSE \in BOOLEAN
    OBVIOUS
  <2>2. PICK c \in Contexts : c = missing[k]
    BY <1>10
  <2>3. PICK scope : scope = [ctx |-> c, route |-> FALSE, path |-> <<>>, local |-> <<>>, chain |-> <<>>]
    OBVIOUS
  <2>4. scopes[k] = scope
    BY <1>9, <1>11, <2>2, <2>3 DEF ContextScope
  <2>5. scope \in Bindings /\ ~scope.route /\ scope.ctx = c /\ scope.local = <<>>
    BY <2>1, <2>3 DEF Bindings
  <2> QED BY <2>2, <2>4, <2>5
<1>13. scopes \in Seq(Bindings) /\ Len(scopes) = m
  <2>1. scopes \in [1..m -> Bindings]
    BY <1>9, <1>11, <1>12
  <2> QED BY <2>1, FunSeq
<1>14. PICK more : more = bindings \o scopes
  OBVIOUS
<1>15. PICK l \in Nat : l = Len(bindings) /\ DOMAIN bindings = 1..l
  BY <1>1
<1>16. /\ more \in Seq(Bindings) /\ Len(more) = l + m /\ DOMAIN more = 1..l + m
       /\ (\A b \in 1..l : more[b] = bindings[b]) /\ \A k \in 1..m : more[l + k] = scopes[k]
  <2>1. /\ more \in Seq(Bindings) /\ Len(more) = Len(bindings) + Len(scopes)
        /\ \A i \in 1..Len(more) : more[i] = IF i <= Len(bindings) THEN bindings[i] ELSE scopes[i - Len(bindings)]
    BY <1>1, <1>13, <1>14, ConcatProperties
  <2>2. Len(more) = l + m
    BY <1>13, <1>15, <2>1
  <2>3. \A k \in 1..m : l + k \in 1..l + m /\ ~(l + k <= l) /\ l + k - l = k
    OBVIOUS
  <2>4. \A b \in 1..l : b \in 1..l + m /\ b <= l
    OBVIOUS
  <2>5. DOMAIN more = 1..l + m
    BY <2>1, <2>2
  <2>6. ASSUME NEW b \in 1..l PROVE more[b] = bindings[b]
    BY <1>15, <2>1, <2>2, <2>4
  <2>7. ASSUME NEW k \in 1..m PROVE more[l + k] = scopes[k]
    BY <1>15, <2>1, <2>2, <2>3
  <2> QED BY <2>1, <2>2, <2>5, <2>6, <2>7
<1>17. \A b \in 1..l + m : b \notin 1..l => b - l \in 1..m /\ l + (b - l) = b
  OBVIOUS
<1>18. known = IF missing = <<>> THEN bindings
               ELSE [i \in DOMAIN more |-> [more[i] EXCEPT !.chain = Whole(parent, own, children, hooks, more[i])]]
  BY <1>3, <1>6, <1>11, <1>14, ResolveReads DEF WithScopes
<1>19. CASE \A i \in DOMAIN contexts : HasScope(contexts[i])
  <2>1. ToSet(missing) = {}
    BY <1>2, <1>8, <1>19
  <2>2. missing = <<>>
    BY <1>7, <2>1 DEF ToSet
  <2> QED BY <1>18, <1>19, <2>2
<1>20. CASE ~ \A i \in DOMAIN contexts : HasScope(contexts[i])
  <2>1. ToSet(missing) # {}
    BY <1>2, <1>8, <1>20
  <2>2. missing # <<>>
    BY <2>1 DEF ToSet
  <2>3. FlushedTo(parent, own, children, hooks, Registered, bindings, known)
    <3>1. \A b \in DOMAIN more : b \notin DOMAIN bindings =>
            ~more[b].route /\ more[b].ctx \in {Root} \cup Registered /\ more[b].local = <<>>
      <4> SUFFICES ASSUME NEW b \in 1..l + m, b \notin 1..l
                   PROVE  ~more[b].route /\ more[b].ctx \in {Root} \cup Registered /\ more[b].local = <<>>
        BY <1>15, <1>16
      <4>1. b - l \in 1..m /\ more[b] = scopes[b - l]
        BY <1>16, <1>17
      <4> QED BY <1>10, <1>12, <4>1
    <3>2. Len(bindings) <= Len(more)
      BY <1>15, <1>16
    <3>3. known = [i \in DOMAIN more |-> [more[i] EXCEPT !.chain = Whole(parent, own, children, hooks, more[i])]]
      BY <1>18, <2>2
    <3>4. \A b \in DOMAIN bindings : more[b] = bindings[b]
      BY <1>15, <1>16
    <3>5. more \in Seq(Bindings)
      BY <1>16
    <3> QED BY <1>1, <3>1, <3>2, <3>3, <3>4, <3>5, Refilled
  <2>4. DOMAIN known = 1..l + m
    BY <1>16, <1>18, <2>2
  <2>5. \A i \in 1..l + m : known[i].route = more[i].route /\ known[i].ctx = more[i].ctx
    <3>1. \A i \in 1..l + m : known[i] = [more[i] EXCEPT !.chain = Whole(parent, own, children, hooks, more[i])]
      BY <1>16, <1>18, <2>2
    <3>2. \A i \in 1..l + m : more[i] \in Bindings
      BY <1>16
    <3> QED BY <3>1, <3>2 DEF Bindings
  <2>6. ASSUME NEW c \in ToSet(contexts) PROVE \E i \in DOMAIN known : ~known[i].route /\ known[i].ctx = c
    <3>1. PICK j \in 1..n : c = contexts[j]
      BY <1>2 DEF ToSet
    <3>2. CASE HasScope(c)
      <4>1. PICK b \in 1..l : ~bindings[b].route /\ bindings[b].ctx = c
        BY <1>15, <3>2 DEF HasScope
      <4>2. b \in 1..l + m
        OBVIOUS
      <4> QED BY <1>16, <2>4, <2>5, <4>1, <4>2
    <3>3. CASE ~HasScope(c)
      <4>1. c \in ToSet(missing)
        BY <1>8, <3>1, <3>3
      <4>2. PICK k \in 1..m : missing[k] = c
        BY <1>9, <4>1 DEF ToSet
      <4>3. l + k \in 1..l + m
        OBVIOUS
      <4>4. more[l + k] = scopes[k] /\ ~scopes[k].route /\ scopes[k].ctx = c
        BY <1>12, <1>16, <4>2
      <4> QED BY <2>4, <2>5, <4>3, <4>4
    <3> QED BY <3>2, <3>3
  <2> QED BY <1>20, <2>3, <2>6
<1> QED BY <1>19, <1>20

LEMMA ScopeFound ==
  ASSUME NEW c, NEW known, \E i \in DOMAIN known : ~known[i].route /\ known[i].ctx = c
  PROVE  LET s == ScopeOf(c, known) IN s \in DOMAIN known /\ ~known[s].route /\ known[s].ctx = c
BY DEF ScopeOf

\* The chain a covering context's scope is read from holds what a request at a miss is owed there.
LEMMA ReadChain ==
  ASSUME ScopeInv, NEW r \in Callers, caller[r].at = "missing",
         NEW contexts \in Seq(Contexts), \A c \in ToSet(contexts) : c \in Registered,
         NEW known, known = WithScopes(contexts), NEW i \in DOMAIN contexts,
         NEW current, current = IF \A j \in 1..i : HasScope(contexts[j]) THEN bindings ELSE known
  PROVE  /\ current[ScopeOf(contexts[i], current)].chain \in Seq(Nat)
         /\ caller[r].owed \cap PromisedIn(contexts[i]) \subseteq ToSet(current[ScopeOf(contexts[i], current)].chain)
<1>1. /\ Sound(parent, own, children, hooks, Registered) /\ bindings \in Seq(Bindings)
  BY DEF ScopeInv, World, BindingsOk
<1>2. PICK s : s = ScopeOf(contexts[i], current)
  OBVIOUS
<1>3. DOMAIN contexts = 1..Len(contexts) /\ Len(contexts) \in Nat
  OBVIOUS
<1>4. CASE \A j \in 1..i : HasScope(contexts[j])
  <2>1. HasScope(contexts[i]) /\ current = bindings
    BY <1>3, <1>4
  <2>2. s \in DOMAIN bindings /\ ~bindings[s].route /\ bindings[s].ctx = contexts[i]
    <3>1. \E b \in DOMAIN bindings : ~bindings[b].route /\ bindings[b].ctx = contexts[i]
      BY <2>1 DEF HasScope
    <3> QED BY <1>2, <2>1, <3>1, ScopeFound
  <2>3. bindings[s].chain \in Seq(Nat)
    BY <1>1, <2>2, BindingFields
  <2>4. caller[r].owed \cap PromisedIn(contexts[i]) \subseteq ToSet(bindings[s].chain)
    BY <2>2, MissOwed
  <2> QED BY <1>2, <2>1, <2>3, <2>4
<1>5. CASE ~ \A j \in 1..i : HasScope(contexts[j])
  <2>1. current = known
    BY <1>5
  <2>2. ~ \A j \in DOMAIN contexts : HasScope(contexts[j])
    <3>1. \A j \in 1..i : j \in DOMAIN contexts
      BY <1>3
    <3> QED BY <1>5, <3>1
  <2>3. /\ FlushedTo(parent, own, children, hooks, Registered, bindings, known)
        /\ \A c \in ToSet(contexts) : \E k \in DOMAIN known : ~known[k].route /\ known[k].ctx = c
    BY <2>2, ScopesMade
  <2>4. contexts[i] \in ToSet(contexts)
    BY DEF ToSet
  <2>5. s \in DOMAIN known /\ ~known[s].route /\ known[s].ctx = contexts[i]
    <3>1. \E k \in DOMAIN known : ~known[k].route /\ known[k].ctx = contexts[i]
      BY <2>3, <2>4
    <3> QED BY <1>2, <2>1, <3>1, ScopeFound
  <2>6. known \in Seq(Bindings) /\ known[s].chain = Whole(parent, own, children, hooks, known[s])
    BY <2>3, <2>5 DEF FlushedTo
  <2>7. known[s] \in Bindings /\ known[s].chain \in Seq(Nat)
    BY <2>5, <2>6, BindingFields
  <2>8. ToSet(known[s].chain) = Owing(parent, own, hooks, Registered, known[s])
    BY <1>1, <2>6, <2>7, WholeIs
  <2>9. PromisedIn(contexts[i]) \subseteq Owing(parent, own, hooks, Registered, known[s])
    BY <2>5, Readings DEF Owing
  <2> QED BY <1>2, <2>1, <2>7, <2>8, <2>9
<1> QED BY <1>4, <1>5

\* So the list of onRequestHooksForPath() holds what it is owed in the root and in each of them.
LEMMA ListHolds ==
  ASSUME ScopeInv, NEW r \in Callers, caller[r].at = "missing",
         NEW contexts \in Seq(Contexts), \A c \in ToSet(contexts) : c \in Registered,
         NEW known, known = WithScopes(contexts)
  PROVE  /\ HooksOf(contexts, known) \in Seq(Nat)
         /\ \A c \in {Root} \cup ToSet(contexts) :
              caller[r].owed \cap PromisedIn(c) \subseteq ToSet(HooksOf(contexts, known))
<1>1. bindings \in Seq(Bindings) /\ Len(bindings) > 0 /\ ~bindings[1].route /\ bindings[1].ctx = Root
  BY DEF ScopeInv, World, BindingsOk
<1>2. PICK n \in Nat : n = Len(contexts) /\ DOMAIN contexts = 1..n
  OBVIOUS
<1> DEFINE Current(i) == IF \A j \in 1..i : HasScope(contexts[j]) THEN bindings ELSE known
<1>3. PICK ss : ss = [i \in DOMAIN contexts |-> Current(i)[ScopeOf(contexts[i], Current(i))].chain]
  OBVIOUS
<1>4. ASSUME NEW i \in 1..n
      PROVE  ss[i] \in Seq(Nat) /\ caller[r].owed \cap PromisedIn(contexts[i]) \subseteq ToSet(ss[i])
  <2>1. PICK current : current = Current(i)
    OBVIOUS
  <2>2. ss[i] = current[ScopeOf(contexts[i], current)].chain
    BY <1>2, <1>3, <2>1
  <2>3. current = IF \A j \in 1..i : HasScope(contexts[j]) THEN bindings ELSE known
    BY <2>1
  <2> QED BY <1>2, <2>2, <2>3, ReadChain
<1>5. ss \in Seq(Seq(Nat)) /\ Len(ss) = n
  <2>1. ss \in [1..n -> Seq(Nat)]
    BY <1>2, <1>3, <1>4
  <2> QED BY <2>1, FunSeq
<1>6. PICK rest : rest = FlattenSeq(ss)
  OBVIOUS
<1>7. rest \in Seq(Nat) /\ \A x : x \in ToSet(rest) <=> \E i \in 1..n : x \in ToSet(ss[i])
  BY <1>5, <1>6, FlattenTyped, FlattenedSet
<1>8. PICK first : first = bindings[1].chain
  OBVIOUS
<1>9. 1 \in DOMAIN bindings /\ first \in Seq(Nat)
  <2>1. 1 \in DOMAIN bindings
    BY <1>1
  <2> QED BY <1>1, <1>8, <2>1, BindingFields
<1>10. PICK all : all = first \o rest
  OBVIOUS
<1>11. all \in Seq(Nat) /\ ToSet(all) = ToSet(first) \cup ToSet(rest)
  BY <1>7, <1>9, <1>10, ConcatSet, ConcatProperties
<1>12. HooksOf(contexts, known) = Once(all)
  BY <1>3, <1>6, <1>8, <1>10 DEF HooksOf
<1>13. Once(all) \in Seq(Nat) /\ ToSet(Once(all)) = ToSet(all)
  BY <1>11, OnceSet
<1>14. caller[r].owed \cap PromisedIn(Root) \subseteq ToSet(first)
  BY <1>1, <1>8, <1>9, MissOwed
<1>15. ASSUME NEW c \in ToSet(contexts) PROVE caller[r].owed \cap PromisedIn(c) \subseteq ToSet(rest)
  <2>1. PICK i \in 1..n : c = contexts[i]
    BY <1>2 DEF ToSet
  <2> QED BY <1>4, <1>7, <2>1
<1> QED BY <1>11, <1>12, <1>13, <1>14, <1>15

\* 404 and upgrades: the request goes through a list of the hooks of the prefixes above it.
LEMMA CollectCoveringKeeps ==
  ASSUME NEW r \in Callers, ScopeInv, CollectCovering(r)
  PROVE  ScopeInv'
<1>1. PICK old, contexts : old = caller[r] /\ contexts = Covering(caller[r].path)
  OBVIOUS
<1>2. PICK known : known = WithScopes(contexts)
  OBVIOUS
<1>3. PICK list : list = IF contexts = <<>> THEN <<>> ELSE HooksOf(contexts, known)
  OBVIOUS
<1>4. PICK covering : covering = {d \in Registered : own[d] # <<>> /\ IsPrefix(Prefix(d), old.path)}
  OBVIOUS
<1>5. PICK owed : owed = old.owed \cap (PromisedIn(Root) \cup UNION {PromisedIn(c) : c \in covering})
  OBVIOUS
<1>6. PICK binding \in {0, 1} : binding = IF contexts = <<>> THEN 1 ELSE 0
  OBVIOUS
<1>7. /\ OthersStay /\ UNCHANGED <<pendingPlugins, batch>> /\ caller[r].at = "missing"
      /\ bindings' = known /\ dirty' = (dirty /\ known = bindings)
      /\ caller' = [caller EXCEPT ![r].at = "hooks", ![r].path = <<>>, ![r].binding = binding, ![r].list = list, ![r].owed = owed]
  BY <1>1, <1>2, <1>3, <1>4, <1>5, <1>6 DEF CollectCovering, OthersStay
<1>8. /\ World(parent, own, children, hooks, Registered, made, bindings, dirty, caller)
      /\ Sound(parent, own, children, hooks, Registered)
      /\ caller \in [Callers -> CallerRecords] /\ bindings \in Seq(Bindings) /\ Len(bindings) > 0
      /\ ~bindings[1].route /\ bindings[1].ctx = Root
  BY DEF ScopeInv, World, BindingsOk
<1>9. old \in CallerRecords /\ old.next = 1 /\ old.ran = {} /\ old.path \in Seq(Segments)
  BY <1>1, <1>7, MissOwed DEF CallerRecords
<1>10. /\ contexts \in Seq(Contexts) /\ \A c \in ToSet(contexts) : c \in Registered
       /\ \A d \in covering : d \in ToSet(contexts)
  <2>1. PICK path \in Seq(Segments) : path = old.path
    BY <1>9
  <2>2. contexts = CoveringOf(parent, own, children, path)
    BY <1>1, <2>1, Readings
  <2>3. \A d \in covering : d \in Plugins /\ own[d] # <<>> /\ IsPrefix(PrefixOf(parent, own, d), path)
    BY <1>4, <2>1, Readings DEF Registered
  <2>4. contexts \in Seq(Contexts)
    BY <1>8, <2>2, CoveredAll
  <2>5. \A c \in ToSet(contexts) : c \in Registered
    BY <1>8, <2>2, CoveredAll
  <2>6. \A d \in Plugins : own[d] # <<>> /\ IsPrefix(PrefixOf(parent, own, d), path) => d \in ToSet(contexts)
    BY <1>8, <2>2, CoveredAll
  <2> QED BY <2>3, <2>4, <2>5, <2>6
<1>11. IF \A i \in DOMAIN contexts : HasScope(contexts[i])
       THEN known = bindings
       ELSE FlushedTo(parent, own, children, hooks, Registered, bindings, known)
  BY <1>2, <1>10, ScopesMade
<1>12. World(parent, own, children, hooks, Registered, made, bindings', dirty', caller) /\ bindings' = known
  <2>1. CASE known = bindings
    <3>1. bindings' = bindings /\ dirty' = (dirty /\ TRUE)
      BY <1>7, <2>1
    <3>2. World(parent, own, children, hooks, Registered, made, bindings, dirty /\ TRUE, caller)
      BY <1>8 DEF World, BindingsOk
    <3> QED BY <1>7, <3>1, <3>2
  <2>2. CASE FlushedTo(parent, own, children, hooks, Registered, bindings, known)
    <3>1. PICK dirt2 : dirt2 = dirty'
      OBVIOUS
    <3>2. World(parent, own, children, hooks, Registered, made, known, dirt2, caller)
      BY <1>8, <2>2, WorldFlushes
    <3> QED BY <1>7, <3>1, <3>2
  <2> QED BY <1>11, <2>1, <2>2
<1>13. list \in Seq(Nat) /\ (contexts # <<>> => owed \subseteq ToSet(list))
  <2>1. /\ HooksOf(contexts, known) \in Seq(Nat)
        /\ \A c \in {Root} \cup ToSet(contexts) : old.owed \cap PromisedIn(c) \subseteq ToSet(HooksOf(contexts, known))
    BY <1>1, <1>2, <1>7, <1>10, ListHolds
  <2>2. owed \subseteq ToSet(HooksOf(contexts, known))
    BY <1>5, <1>10, <2>1
  <2>3. <<>> \in Seq(Nat)
    OBVIOUS
  <2> QED BY <1>3, <2>1, <2>2, <2>3
<1>14. contexts = <<>> => known = bindings /\ owed \subseteq ToSet(bindings[1].chain)
  <2> SUFFICES ASSUME contexts = <<>> PROVE known = bindings /\ owed \subseteq ToSet(bindings[1].chain)
    OBVIOUS
  <2>1. DOMAIN contexts = {} /\ ToSet(contexts) = {}
    BY DEF ToSet
  <2>2. known = bindings
    BY <1>11, <2>1
  <2>3. covering = {}
    BY <1>10, <2>1
  <2>4. owed = old.owed \cap PromisedIn(Root)
    BY <1>5, <2>3
  <2>5. 1 \in DOMAIN bindings
    BY <1>8
  <2>6. caller[r].owed \cap PromisedIn(bindings[1].ctx) \subseteq ToSet(bindings[1].chain)
    BY <1>7, <1>8, <2>5, MissOwed
  <2> QED BY <1>1, <1>8, <2>2, <2>4, <2>6
<1>15. owed \in SUBSET Nat
  BY <1>5, <1>9 DEF CallerRecords
<1>16. PICK new : new = [old EXCEPT !.at = "hooks", !.path = <<>>, !.binding = binding, !.list = list, !.owed = owed]
  OBVIOUS
<1>17. caller' = [caller EXCEPT ![r] = new]
  BY <1>1, <1>7, <1>8, <1>16
<1>18. /\ new \in CallerRecords /\ new.at = "hooks" /\ new.next = 1 /\ new.ran = {}
       /\ new.binding = binding /\ new.owed = owed /\ new.list = list
  <2>1. "hooks" \in CallersAt /\ <<>> \in Seq(Segments) /\ binding \in Nat
    BY DEF CallersAt
  <2> QED BY <1>9, <1>13, <1>15, <1>16, <2>1 DEF CallerRecords
<1>19. new.binding \in {0} \cup DOMAIN known /\ new.owed \subseteq ToSet(WalkOf(known, new))
  <2>1. CASE contexts = <<>>
    <3>1. 1 \in DOMAIN known
      BY <1>8, <1>14, <2>1
    <3> QED BY <1>6, <1>14, <1>18, <2>1, <3>1 DEF WalkOf
  <2>2. CASE contexts # <<>>
    BY <1>6, <1>13, <1>18, <2>2 DEF WalkOf
  <2> QED BY <2>1, <2>2
<1>20. CallerOk(parent, own, hooks, Registered, made, known, new)
  BY <1>18, <1>19, SentCaller
<1>21. CallerOk(parent, own, hooks, Registered, made, bindings', new)
  BY <1>12, <1>20
<1>22. pendingPlugins' \subseteq Plugins /\ batch' \subseteq Plugins
  BY <1>7 DEF ScopeInv, PluginsOk
<1> QED BY <1>7, <1>12, <1>17, <1>21, <1>22, CallerStepKeeps

LEMMA ScopeSteps == ScopeInv /\ [ScopesNext]_scopeVars => ScopeInv'
<1> SUFFICES ASSUME ScopeInv, [ScopesNext]_scopeVars PROVE ScopeInv'
  OBVIOUS
<1>1. CASE UNCHANGED scopeVars
  BY <1>1, Stay
<1>2. ASSUME NEW p \in Plugins, NEW prefix \in Mounts, RegisterNested(p, prefix) \/ RegisterApp(p, prefix)
      PROVE  ScopeInv'
  BY <1>2, RegisteringKeeps
<1>3. ASSUME NEW c \in Actors, AddHook(c) \/ \E path \in Paths, local \in BOOLEAN : AddRoute(c, path, local)
      PROVE  ScopeInv'
  BY <1>3, AddHookKeeps, AddRouteKeeps
<1>4. ASSUME NEW p \in Plugins, EndPlugin(p) PROVE ScopeInv'
  BY <1>4, EndingKeeps
<1>5. ASSUME NEW r \in Callers, \E path \in Paths : Arrive(r, path) PROVE ScopeInv'
  BY <1>5, ArrivingKeeps
<1>6. ASSUME NEW r \in Callers, Begin(r) \/ BeginMiss(r) \/ CollectRoutes(r) \/ CollectCovering(r)
      PROVE  ScopeInv'
  BY <1>6, BeginKeeps, BeginMissKeeps, CollectRoutesKeeps, CollectCoveringKeeps
<1>7. ASSUME NEW r \in Callers, RunHook(r) \/ Handler(r) PROVE ScopeInv'
  BY <1>7, WalkingKeeps
<1>8. ASSUME BatchLoads \/ BatchRejects PROVE ScopeInv'
  BY <1>8, BatchStepKeeps
<1> QED BY <1>1, <1>2, <1>3, <1>4, <1>5, <1>6, <1>7, <1>8 DEF ScopesNext

\* What the invariant says of a request that reached its handler.
LEMMA GuardsHold == ScopeInv => GuardsRun
<1> SUFFICES ASSUME ScopeInv, NEW r \in Callers, caller[r].at = "handled"
             PROVE  /\ caller[r].owed \subseteq caller[r].ran
                    /\ caller[r].binding > 1 => caller[r].ran \subseteq Promised(caller[r].binding)
  BY DEF GuardsRun
<1>1. CallerOk(parent, own, hooks, Registered, made, bindings, caller[r])
  BY DEF ScopeInv, World
<1> QED BY <1>1, PromisedReads DEF CallerOk

\* However many hooks, routes and prefixes plugins register while a request walks its chain
\* (addHook() on a context, the flush() that refills the array in place, the 404, 405 and
\* upgrade walks of app.ts), it reaches its handler with every hook it was promised run.
THEOREM GuardsAlwaysRun == ScopesSpec => []GuardsRun
<1> QED BY ScopesStart, ScopeSteps, GuardsHold, PTL DEF ScopesSpec
-----------------------------------------------------------------------------
(* Scopes: what ready() promises a request, for any plugins, requests and hooks. *)

\* What the steps of the others leave of the records.
Shapes ==
  /\ DOMAIN plugin = Plugins /\ \A p \in Plugins : DOMAIN plugin[p] = {"at", "home", "late"}
  /\ DOMAIN caller = Callers
  /\ \A r \in Callers : DOMAIN caller[r] = {"at", "path", "binding", "list", "next", "owed", "ran", "before"}

\* A plugin that a request need not wait for, or was not asked to.
Excused(p) == plugin[p].late \/ plugin[p].at = "loaded"

\* readyPromise waits for what was registered when it was made, and what was registered
\* since is late; a request that waits, waits for that promise.
WaitSound(r) ==
  /\ \A p \in caller[r].before : p \in Plugins /\ plugin[p].at # "absent"
  /\ caller[r].at = "waiting" => batch # {} /\ \A p \in caller[r].before : p \in batch \/ Excused(p)
  /\ caller[r].at = "ready" => \A p \in caller[r].before : Excused(p)

PromiseSound ==
  /\ \A p \in pendingPlugins \cup batch : p \in Plugins /\ plugin[p].at # "absent"
  /\ \A p \in Plugins : plugin[p].at = "absent" => plugin[p].late = FALSE
  /\ batch # {} => \A p \in pendingPlugins : Excused(p)

LoadInv == Shapes /\ PromiseSound /\ \A r \in Callers : WaitSound(r)

LEMMA LoadStarts == ScopesInit => LoadInv
<1> SUFFICES ASSUME ScopesInit PROVE LoadInv
  OBVIOUS
<1>1. /\ plugin = [p \in Plugins |-> [at |-> "absent", home |-> Root, late |-> FALSE]]
      /\ pendingPlugins = {} /\ batch = {} /\ caller = [r \in Callers |-> Idle]
  BY DEF ScopesInit
<1>2. Shapes
  BY <1>1 DEF Shapes, Idle
<1>3. PromiseSound
  BY <1>1 DEF PromiseSound
<1>4. \A r \in Callers : WaitSound(r)
  BY <1>1 DEF WaitSound, Idle
<1> QED BY <1>2, <1>3, <1>4 DEF LoadInv

\* A request goes on, or is over: it waits for nothing more.
GoesOn(r) ==
  /\ caller'[r].before \subseteq caller[r].before
  /\ caller'[r].at = caller[r].at \/ caller'[r].at \notin {"waiting", "ready"}

LEMMA GoingOnKeeps ==
  ASSUME LoadInv, Shapes', UNCHANGED <<plugin, pendingPlugins, batch>>, \A r \in Callers : GoesOn(r)
  PROVE  LoadInv'
<1>1. PromiseSound'
  BY DEF LoadInv, PromiseSound, Excused
<1>2. \A r \in Callers : WaitSound(r)'
  BY DEF LoadInv, GoesOn, WaitSound, Excused
<1> QED BY <1>1, <1>2 DEF LoadInv

LEMMA CallerKeeps ==
  ASSUME NEW r \in Callers, LoadInv,
         Begin(r) \/ BeginMiss(r) \/ CollectRoutes(r) \/ CollectCovering(r) \/ RunHook(r) \/ Handler(r)
  PROVE  LoadInv'
<1>1. UNCHANGED <<plugin, pendingPlugins, batch>>
  BY DEF Begin, BeginMiss, CollectRoutes, CollectCovering, RunHook, Handler
<1>2. Shapes' /\ \A q \in Callers : GoesOn(q)
  <2>1. CASE Begin(r)
    <3>1. PICK b \in DOMAIN bindings :
            caller' = [caller EXCEPT ![r].at = "hooks", ![r].path = <<>>, ![r].before = {},
                                     ![r].binding = b, ![r].owed = Promised(b)]
      BY <2>1 DEF Begin
    <3> QED BY <1>1, <3>1 DEF LoadInv, Shapes, GoesOn
  <2>2. CASE BeginMiss(r)
    BY <1>1, <2>2 DEF BeginMiss, LoadInv, Shapes, GoesOn
  <2>3. CASE CollectRoutes(r)
    <3>1. PICK binding, list, owed :
            caller' = [caller EXCEPT ![r].at = "hooks", ![r].path = <<>>, ![r].binding = binding,
                                     ![r].list = list, ![r].owed = owed]
      BY <2>3 DEF CollectRoutes
    <3> QED BY <1>1, <3>1 DEF LoadInv, Shapes, GoesOn
  <2>4. CASE CollectCovering(r)
    <3>1. PICK binding, list, owed :
            caller' = [caller EXCEPT ![r].at = "hooks", ![r].path = <<>>, ![r].binding = binding,
                                     ![r].list = list, ![r].owed = owed]
      BY <2>4 DEF CollectCovering
    <3> QED BY <1>1, <3>1 DEF LoadInv, Shapes, GoesOn
  <2>5. CASE RunHook(r)
    <3>1. CASE caller' = [caller EXCEPT ![r] = Idle]
      BY <1>1, <3>1 DEF LoadInv, Shapes, GoesOn, Idle
    <3>2. CASE \E ran : caller' = [caller EXCEPT ![r].next = @ + 1, ![r].ran = ran]
      <4>1. PICK next, ran : caller' = [caller EXCEPT ![r].next = next, ![r].ran = ran]
        BY <3>2
      <4> QED BY <1>1, <4>1 DEF LoadInv, Shapes, GoesOn
    <3> QED BY <2>5, <3>1, <3>2 DEF RunHook
  <2>6. CASE Handler(r)
    BY <1>1, <2>6 DEF Handler, LoadInv, Shapes, GoesOn
  <2> QED BY <2>1, <2>2, <2>3, <2>4, <2>5, <2>6
<1> QED BY <1>1, <1>2, GoingOnKeeps

LEMMA ArriveKeeps ==
  ASSUME NEW r \in Callers, NEW path, LoadInv, Arrive(r, path)
  PROVE  LoadInv'
<1>1. /\ plugin' = plugin
      /\ \/ batch = {} /\ pendingPlugins # {} /\ batch' = pendingPlugins /\ pendingPlugins' = {}
         \/ ~(batch = {} /\ pendingPlugins # {}) /\ batch' = batch /\ pendingPlugins' = pendingPlugins
  BY DEF Arrive
<1>2. PICK new : /\ caller' = [caller EXCEPT ![r] = new]
                 /\ new = [Idle EXCEPT !.at = IF pendingPlugins \cup batch = {} THEN "ready" ELSE "waiting",
                                       !.path = path, !.before = pendingPlugins \cup batch]
  BY DEF Arrive
<1>3. /\ new.at = IF pendingPlugins \cup batch = {} THEN "ready" ELSE "waiting"
      /\ new.before = pendingPlugins \cup batch
      /\ DOMAIN new = {"at", "path", "binding", "list", "next", "owed", "ran", "before"}
  BY <1>2 DEF Idle
<1>4. caller'[r] = new /\ \A q \in Callers \ {r} : caller'[q] = caller[q]
  BY <1>2 DEF LoadInv, Shapes
<1>5. Shapes'
  BY <1>1, <1>2, <1>3 DEF LoadInv, Shapes
<1>6. PromiseSound'
  BY <1>1 DEF LoadInv, PromiseSound, Excused
<1>7. WaitSound(r)'
  BY <1>1, <1>3, <1>4 DEF LoadInv, PromiseSound, WaitSound, Excused
<1>8. ASSUME NEW q \in Callers \ {r} PROVE WaitSound(q)'
  <2>1. caller[q].at = "waiting" => batch' = batch
    BY <1>1 DEF LoadInv, WaitSound
  <2> QED BY <1>1, <1>4, <2>1 DEF LoadInv, WaitSound, Excused
<1> QED BY <1>5, <1>6, <1>7, <1>8 DEF LoadInv

LEMMA BatchKeeps == LoadInv /\ (BatchLoads \/ BatchRejects) => LoadInv'
<1> SUFFICES ASSUME LoadInv, BatchLoads \/ BatchRejects PROVE LoadInv'
  OBVIOUS
<1>1. CASE BatchLoads
  <2>1. /\ plugin' = plugin /\ pendingPlugins' = pendingPlugins /\ batch' = {}
        /\ \A p \in batch : plugin[p].at = "loaded"
        /\ caller' = [r \in Callers |-> IF r \in Waiting THEN [caller[r] EXCEPT !.at = "ready"] ELSE caller[r]]
    BY <1>1 DEF BatchLoads
  <2>2. PromiseSound'
    BY <2>1 DEF LoadInv, PromiseSound, Excused
  <2>3. ASSUME NEW r \in Callers
        PROVE  WaitSound(r)' /\ DOMAIN caller'[r] = {"at", "path", "binding", "list", "next", "owed", "ran", "before"}
    <3>1. CASE r \in Waiting
      <4>1. /\ caller'[r].at = "ready" /\ caller'[r].before = caller[r].before
            /\ DOMAIN caller'[r] = DOMAIN caller[r]
        BY <2>1, <3>1 DEF LoadInv, Shapes
      <4>2. caller[r].at = "waiting"
        BY <3>1 DEF Waiting
      <4> QED BY <2>1, <4>1, <4>2 DEF LoadInv, Shapes, WaitSound, Excused
    <3>2. CASE r \notin Waiting
      <4>1. caller'[r] = caller[r] /\ caller[r].at # "waiting"
        BY <2>1, <3>2 DEF Waiting
      <4> QED BY <2>1, <4>1 DEF LoadInv, Shapes, WaitSound, Excused
    <3> QED BY <3>1, <3>2
  <2>4. Shapes'
    BY <2>1, <2>3 DEF LoadInv, Shapes
  <2> QED BY <2>2, <2>3, <2>4 DEF LoadInv
<1>2. CASE BatchRejects
  <2>1. /\ UNCHANGED <<plugin, pendingPlugins, batch>>
        /\ caller' = [r \in Callers |-> IF r \in Waiting THEN Idle ELSE caller[r]]
    BY <1>2 DEF BatchRejects
  <2>2. Shapes'
    BY <2>1 DEF LoadInv, Shapes, Idle
  <2>3. \A r \in Callers : GoesOn(r)
    BY <2>1 DEF GoesOn, Idle
  <2> QED BY <2>1, <2>2, <2>3, GoingOnKeeps
<1> QED BY <1>1, <1>2

\* A plugin moves, and stays excused if it was: no request waits for one that is absent.
Moves(p) ==
  /\ DOMAIN plugin' = Plugins /\ DOMAIN plugin'[p] = {"at", "home", "late"}
  /\ \A q \in Plugins \ {p} : plugin'[q] = plugin[q]
  /\ plugin'[p].at # "absent" /\ (plugin[p].at = "absent" \/ (Excused(p) => Excused(p)'))

LEMMA MovingKeeps ==
  ASSUME NEW p \in Plugins, LoadInv, Moves(p), UNCHANGED <<batch, caller>>,
         \/ pendingPlugins' = pendingPlugins
         \/ pendingPlugins' = pendingPlugins \cup {p} /\ (batch # {} => Excused(p)')
  PROVE  LoadInv'
<1>1. \A q \in Plugins : plugin[q].at # "absent" /\ Excused(q) => Excused(q)'
  BY DEF Moves, Excused
<1>2. \A q \in Plugins : plugin[q].at # "absent" => plugin'[q].at # "absent"
  BY DEF Moves
<1>3. Shapes'
  BY DEF LoadInv, Shapes, Moves
<1>4. PromiseSound'
  <2>1. \A q \in pendingPlugins' \cup batch' : q \in Plugins /\ plugin'[q].at # "absent"
    BY <1>2 DEF LoadInv, PromiseSound, Moves
  <2>2. \A q \in Plugins : plugin'[q].at = "absent" => plugin'[q].late = FALSE
    BY DEF LoadInv, PromiseSound, Moves
  <2>3. batch # {} => \A q \in pendingPlugins' : Excused(q)'
    BY <1>1 DEF LoadInv, PromiseSound
  <2> QED BY <2>1, <2>2, <2>3 DEF PromiseSound
<1>5. \A r \in Callers : WaitSound(r)'
  BY <1>1, <1>2 DEF LoadInv, WaitSound
<1> QED BY <1>3, <1>4, <1>5 DEF LoadInv

LEMMA RegisterKeeps ==
  ASSUME NEW p \in Plugins, NEW prefix, LoadInv, RegisterNested(p, prefix) \/ RegisterApp(p, prefix) \/ EndPlugin(p)
  PROVE  LoadInv'
<1> USE DEF LoadInv, Shapes
<1>1. CASE RegisterNested(p, prefix)
  <2>1. PICK home : plugin' = [plugin EXCEPT ![p].at = "running", ![p].home = home]
    BY <1>1 DEF RegisterNested, Enter
  <2>2. plugin[p].at = "absent" /\ UNCHANGED <<batch, caller, pendingPlugins>>
    BY <1>1 DEF RegisterNested, Code
  <2>3. Moves(p)
    BY <2>1, <2>2 DEF Moves
  <2> HIDE DEF LoadInv, Shapes
  <2> QED BY <2>2, <2>3, MovingKeeps
<1>2. CASE RegisterApp(p, prefix)
  <2>1. PICK home, late : /\ plugin' = [plugin EXCEPT ![p] = [at |-> "running", home |-> home, late |-> late]]
                          /\ batch # {} => late
    BY <1>2 DEF RegisterApp
  <2>2. /\ plugin[p].at = "absent" /\ UNCHANGED <<batch, caller>>
        /\ pendingPlugins' = pendingPlugins \cup {p}
    BY <1>2 DEF RegisterApp
  <2>3. Moves(p) /\ (batch # {} => Excused(p)')
    BY <2>1, <2>2 DEF Moves, Excused
  <2> HIDE DEF LoadInv, Shapes
  <2> QED BY <2>2, <2>3, MovingKeeps
<1>3. CASE EndPlugin(p)
  <2>1. PICK end \in {"loaded", "failed"} :
          plugin' = [plugin EXCEPT ![p] = [at |-> end, home |-> Root, late |-> @.late /\ end = "failed"]]
    BY <1>3 DEF EndPlugin
  <2>2. plugin[p].at = "running" /\ UNCHANGED <<batch, caller, pendingPlugins>>
    BY <1>3 DEF EndPlugin, Code
  <2>3. Moves(p)
    BY <2>1, <2>2 DEF Moves, Excused
  <2> HIDE DEF LoadInv, Shapes
  <2> QED BY <2>2, <2>3, MovingKeeps
<1> QED BY <1>1, <1>2, <1>3

\* Whatever plugins register while others load, a request gets past ready() only when
\* every plugin registered before it arrived has loaded, but for the late ones.
THEOREM RequestsWaitForPlugins == ScopesSpec => []LoadedFirst
<1>1. LoadInv /\ [ScopesNext]_scopeVars => LoadInv'
  <2> SUFFICES ASSUME LoadInv, [ScopesNext]_scopeVars PROVE LoadInv'
    OBVIOUS
  <2>1. ASSUME UNCHANGED <<plugin, pendingPlugins, batch, caller>> PROVE LoadInv'
    BY <2>1 DEF LoadInv, Shapes, PromiseSound, WaitSound, Excused
  <2>2. CASE UNCHANGED scopeVars
    BY <2>1, <2>2 DEF scopeVars
  <2>3. ASSUME NEW c \in Actors, AddHook(c) \/ \E path \in Paths, local \in BOOLEAN : AddRoute(c, path, local)
        PROVE  LoadInv'
    BY <2>1, <2>3 DEF AddHook, AddRoute, Code
  <2> QED BY <2>2, <2>3, RegisterKeeps, ArriveKeeps, CallerKeeps, BatchKeeps DEF ScopesNext
<1>2. LoadInv => LoadedFirst
  BY DEF LoadInv, WaitSound, Excused, LoadedFirst
<1> QED BY <1>1, <1>2, LoadStarts, PTL DEF ScopesSpec

\* No request runs before what guards it has loaded (ready()), and none gets past a hook
\* of what it was promised (resolveBinding(), onRequestHooksForPath(), routeScopeHooks()).
THEOREM HooksAreComplete == ScopesSpec => []HooksComplete
<1>1. GuardsRun /\ LoadedFirst => HooksComplete
  BY DEF HooksComplete
<1> QED BY <1>1, GuardsAlwaysRun, RequestsWaitForPlugins, PTL
=============================================================================
