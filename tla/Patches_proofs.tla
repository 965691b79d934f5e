--------------------------- MODULE Patches_proofs ---------------------------
(***************************************************************************)
(* Proofs about Patches: on every diff git can write, of any length and    *)
(* with any number of hunks, a selection does just what was chosen, an     *)
(* ordinal means one line, and a comment is found under the number shown.  *)
(*                                                                         *)
(* The lines of a patch are the lines of a hunk at some of its places, in  *)
(* their order, so what has to be known of both is the k-th of a finite    *)
(* set of numbers.  The first section proves that from the well-ordering   *)
(* of the natural numbers; nothing in the module is recursive.             *)
(***************************************************************************)
EXTENDS Patches, FiniteSetTheorems, FunctionTheorems, SequenceTheorems, TLAPS

------------------------------------------------------------------------------
(* Places: the k-th of a set of numbers, without recursion.                *)

Rank(K, i) == Cardinality({j \in K : j <= i})

\* The natural numbers are well ordered.
LEMMA Least ==
    ASSUME NEW T \in SUBSET Nat, T # {}
    PROVE  \E n \in T : \A m \in T : n <= m
<1> DEFINE Upto(n) == 1..n
           I == {Upto(n) : n \in T}
<1>1. I \subseteq FiniteSubsetsOf(Nat) /\ I # {}
  <2>1. \A n \in T : Upto(n) \subseteq Nat /\ IsFiniteSet(Upto(n))
    BY FS_Interval
  <2> QED
    BY <2>1 DEF FiniteSubsetsOf
<1>2. PICK i \in I : \A j \in I : <<j, i>> \notin StrictSubsetOrdering(Nat)
  BY <1>1, WFMin, FS_StrictSubsetOrderingWellFounded
<1>3. PICK n \in T : i = Upto(n)
  BY <1>2
<1>4. ASSUME NEW m \in T, m < n PROVE FALSE
  <2>1. Upto(m) \in I /\ Upto(m) \subseteq Upto(n) /\ n \in Upto(n) /\ n \notin Upto(m)
    BY <1>4
  <2>2. Upto(m) \in SUBSET Nat /\ Upto(n) \in SUBSET Nat
    BY <1>1, <1>4
  <2> QED
    BY <2>1, <2>2, <1>2, <1>3 DEF StrictSubsetOrdering
<1> QED
  BY <1>4

\* What Rank counts is finite.
LEMMA RankType ==
    ASSUME NEW N \in Nat, NEW K \in SUBSET Nat, \A p \in K : 1 <= p /\ p <= N,
           NEW i \in Nat
    PROVE  /\ IsFiniteSet(K) /\ Cardinality(K) \in Nat
           /\ IsFiniteSet({j \in K : j <= i})
           /\ Rank(K, i) \in Nat /\ Rank(K, i) <= Cardinality(K)
<1>1. IsFiniteSet(1..N)
  BY FS_Interval
<1>2. IsFiniteSet(K)
  <2>1. K \in SUBSET (1..N)
    OBVIOUS
  <2> QED
    BY <1>1, <2>1, FS_Subset
<1>3. {j \in K : j <= i} \in SUBSET K
  OBVIOUS
<1> QED
  BY <1>2, <1>3, FS_Subset, FS_CardinalityType DEF Rank

\* A place of K ranks higher than every number before it.
LEMMA RankStrict ==
    ASSUME NEW N \in Nat, NEW K \in SUBSET Nat, \A p \in K : 1 <= p /\ p <= N,
           NEW i \in Nat, NEW j \in K, i < j
    PROVE  Rank(K, i) < Rank(K, j)
<1> DEFINE S == {m \in K : m <= i}  T == {m \in K : m <= j}
<1>1. \A m \in K : m <= i => m <= j
  OBVIOUS
<1>2. S \in SUBSET T
  BY <1>1, Zenon
<1>3. j \in T /\ j \notin S
  OBVIOUS
<1>4. /\ IsFiniteSet(S) /\ IsFiniteSet(T)
      /\ Rank(K, i) \in Nat /\ Rank(K, j) \in Nat
  BY RankType
<1>5. Cardinality(S) <= Cardinality(T) /\ Cardinality(S) # Cardinality(T)
  BY <1>2, <1>3, <1>4, FS_Subset
<1> QED
  BY <1>4, <1>5 DEF Rank

\* A place ranks just after the number before it.
LEMMA RankNext ==
    ASSUME NEW N \in Nat, NEW K \in SUBSET Nat, \A p \in K : 1 <= p /\ p <= N,
           NEW i \in Nat, i \in K
    PROVE  i - 1 \in Nat /\ Rank(K, i) = Rank(K, i - 1) + 1
<1>1. i - 1 \in Nat
  OBVIOUS
<1>2. \A j \in K : j <= i <=> (j <= i - 1 \/ j = i)
  OBVIOUS
<1>3. {j \in K : j <= i} = {j \in K : j <= i - 1} \cup {i}
  BY <1>2, Zenon
<1>4. i \notin {j \in K : j <= i - 1}
  OBVIOUS
<1>5. IsFiniteSet({j \in K : j <= i - 1})
  BY <1>1, RankType
<1> QED
  BY <1>1, <1>3, <1>4, <1>5, FS_AddElement DEF Rank

\* Every rank up to the number of places is taken.
LEMMA NthExists ==
    ASSUME NEW N \in Nat, NEW K \in SUBSET Nat, \A p \in K : 1 <= p /\ p <= N,
           NEW k \in 1..Cardinality(K)
    PROVE  \E i \in K : Rank(K, i) = k
<1> DEFINE T == {i \in Nat : 1 <= i /\ i <= N /\ Rank(K, i) >= k}
<1>1. Cardinality(K) \in Nat /\ IsFiniteSet(K)
  BY RankType
<1>2. N \in T
  <2>1. {j \in K : j <= N} = K
    OBVIOUS
  <2>2. Rank(K, N) = Cardinality(K)
    BY <2>1 DEF Rank
  <2>3. K # {}
    BY <1>1, FS_EmptySet
  <2>4. PICK p \in Nat : p \in K
    BY <2>3
  <2>5. 1 <= N
    BY <2>4
  <2> QED
    BY <1>1, <2>2, <2>5
<1>3. PICK i \in T : \A m \in T : i <= m
  <2>1. T \in SUBSET Nat /\ T # {}
    BY <1>2
  <2> QED
    BY <2>1, Least
<1>4. /\ i \in Nat /\ i - 1 \in Nat /\ i <= N /\ Rank(K, i) >= k
      /\ Rank(K, i) \in Nat /\ Rank(K, i - 1) \in Nat
  <2>1. i \in Nat /\ i - 1 \in Nat /\ i <= N /\ Rank(K, i) >= k
    BY <1>3
  <2> QED
    BY <2>1, RankType
<1>5. Rank(K, i - 1) < k
  <2>1. CASE i = 1
    <3>1. \A j \in K : ~ (j <= i - 1)
      BY <2>1
    <3>2. {j \in K : j <= i - 1} = {}
      BY <3>1, Zenon
    <3>3. Rank(K, i - 1) = 0
      BY <3>2, FS_EmptySet DEF Rank
    <3> QED
      BY <3>3, <1>1
  <2>2. CASE i # 1
    <3>1. i - 1 \notin T
      BY <1>3, <1>4
    <3>2. 1 <= i - 1 /\ i - 1 <= N
      BY <2>2, <1>3, <1>4
    <3> QED
      BY <3>1, <3>2, <1>1, <1>4
  <2> QED
    BY <2>1, <2>2
<1>6. i \in K
  <2> SUFFICES ASSUME i \notin K PROVE FALSE
    OBVIOUS
  <2>1. \A j \in K : j <= i <=> j <= i - 1
    BY <1>4
  <2>2. {j \in K : j <= i} = {j \in K : j <= i - 1}
    BY <2>1, Zenon
  <2>3. Rank(K, i) = Rank(K, i - 1)
    BY <2>2 DEF Rank
  <2> QED
    BY <2>3, <1>1, <1>4, <1>5
<1>7. Rank(K, i) = Rank(K, i - 1) + 1
  BY <1>4, <1>6, RankNext
<1> QED
  BY <1>1, <1>4, <1>5, <1>6, <1>7

\* What Nth returns.
LEMMA NthPlace ==
    ASSUME NEW N \in Nat, NEW K \in SUBSET Nat, \A p \in K : 1 <= p /\ p <= N,
           NEW k \in 1..Cardinality(K)
    PROVE  Nth(K, k) \in K /\ Rank(K, Nth(K, k)) = k
BY NthExists DEF Nth, Rank

\* Every place is returned for its rank.
LEMMA NthRank ==
    ASSUME NEW N \in Nat, NEW K \in SUBSET Nat, \A p \in K : 1 <= p /\ p <= N,
           NEW i \in Nat, i \in K
    PROVE  Rank(K, i) \in 1..Cardinality(K) /\ Nth(K, Rank(K, i)) = i
<1>1. Rank(K, i) \in Nat /\ Cardinality(K) \in Nat /\ Rank(K, i) <= Cardinality(K)
  BY RankType
<1>2. Rank(K, i) # 0
  <2>1. IsFiniteSet({j \in K : j <= i})
    BY RankType
  <2>2. i \in {j \in K : j <= i}
    OBVIOUS
  <2> QED
    BY <2>1, <2>2, FS_EmptySet DEF Rank
<1>3. Rank(K, i) \in 1..Cardinality(K)
  BY <1>1, <1>2
<1>4. Nth(K, Rank(K, i)) \in K /\ Rank(K, Nth(K, Rank(K, i))) = Rank(K, i)
  BY <1>3, NthPlace
<1> DEFINE m == Nth(K, Rank(K, i))
<1>5. m \in Nat /\ m \in K /\ Rank(K, m) = Rank(K, i)
  BY <1>4
<1> HIDE DEF m
<1>6. ~ (m < i)
  BY <1>1, <1>5, RankStrict
<1>7. ~ (i < m)
  BY <1>1, <1>5, RankStrict
<1>8. m = i
  BY <1>5, <1>6, <1>7
<1> QED
  BY <1>3, <1>8 DEF m

\* Places are returned in their order.
LEMMA NthOrder ==
    ASSUME NEW N \in Nat, NEW K \in SUBSET Nat, \A p \in K : 1 <= p /\ p <= N,
           NEW k \in 1..Cardinality(K), NEW l \in 1..Cardinality(K)
    PROVE  k < l <=> Nth(K, k) < Nth(K, l)
<1>1. /\ Nth(K, k) \in K /\ Rank(K, Nth(K, k)) = k
      /\ Nth(K, l) \in K /\ Rank(K, Nth(K, l)) = l
  BY NthPlace
<1> DEFINE p == Nth(K, k)
           q == Nth(K, l)
<1>2. p \in Nat /\ q \in Nat /\ p \in K /\ q \in K
  BY <1>1
<1>3. p < q => k < l
  BY <1>1, <1>2, RankStrict
<1>4. q < p => l < k
  BY <1>1, <1>2, RankStrict
<1>5. k \in Nat /\ l \in Nat /\ (p = q => k = l)
  <2>1. Cardinality(K) \in Nat
    BY RankType
  <2> QED
    BY <1>1, <2>1
<1> HIDE DEF p, q
<1>6. k < l <=> p < q
  BY <1>2, <1>3, <1>4, <1>5
<1> QED
  BY <1>6 DEF p, q

\* Of all the numbers up to N, the k-th is k.
LEMMA NthWhole ==
    ASSUME NEW N \in Nat
    PROVE  Cardinality(1..N) = N /\ \A k \in 1..N : Nth(1..N, k) = k
<1>1. Cardinality(1..N) = N
  BY FS_Interval
<1>2. ASSUME NEW k \in 1..N PROVE Nth(1..N, k) = k
  <2>1. \A j : j \in 1..N /\ j <= k <=> j \in 1..k
    OBVIOUS
  <2>2. {j \in 1..N : j <= k} = 1..k
    BY <2>1, Zenon
  <2>3. Rank(1..N, k) = k
    <3>1. k \in Nat /\ k >= 1
      OBVIOUS
    <3>2. Cardinality(1..k) = k
      BY <3>1, FS_Interval
    <3> QED
      BY <2>2, <3>2 DEF Rank
  <2>4. /\ 1..N \in SUBSET Nat /\ (\A p \in 1..N : 1 <= p /\ p <= N)
        /\ k \in Nat /\ k \in 1..N
    OBVIOUS
  <2>5. Nth(1..N, Rank(1..N, k)) = k
    BY <2>4, NthRank
  <2> QED
    BY <2>3, <2>5
<1> QED
  BY <1>1, <1>2

\* Places of places: the k-th of those places of K that P picks.
Places(K, N) == K \in SUBSET Nat /\ \A i \in K : 1 <= i /\ i <= N
PlacesOf(Q, K, P) == \A q : q \in Q <=> \E k \in P : q = Nth(K, k)

LEMMA NthNth ==
    ASSUME NEW N \in Nat, NEW K, Places(K, N), NEW P, Places(P, Cardinality(K)),
           NEW Q, PlacesOf(Q, K, P)
    PROVE  /\ Cardinality(Q) = Cardinality(P)
           /\ \A k \in 1..Cardinality(P) :
                 Nth(P, k) \in P /\ Nth(K, Nth(P, k)) = Nth(Q, k)
<1>0. /\ K \in SUBSET Nat /\ \A p \in K : 1 <= p /\ p <= N
      /\ P \in SUBSET Nat /\ \A p \in P : 1 <= p /\ p <= Cardinality(K)
      /\ \A q : q \in Q <=> \E k \in P : q = Nth(K, k)
  BY DEF Places, PlacesOf
<1>1. Cardinality(K) \in Nat
  BY <1>0, RankType
<1>2. ASSUME NEW k \in Nat, k \in P
      PROVE  k \in 1..Cardinality(K) /\ Nth(K, k) \in K /\ Nth(K, k) \in Nat
  <2>1. k \in 1..Cardinality(K)
    BY <1>0, <1>1, <1>2
  <2>2. Nth(K, k) \in K
    BY <1>0, <2>1, NthPlace
  <2> QED
    BY <1>0, <2>1, <2>2
<1>3. ASSUME NEW k \in Nat, k \in P, NEW l \in Nat, l \in P
      PROVE  /\ k <= l <=> Nth(K, k) <= Nth(K, l)
             /\ Nth(K, k) = Nth(K, l) => k = l
  <2>1. /\ k < l <=> Nth(K, k) < Nth(K, l)
        /\ l < k <=> Nth(K, l) < Nth(K, k)
    BY <1>0, <1>2, <1>3, NthOrder
  <2>2. Nth(K, k) \in Nat /\ Nth(K, l) \in Nat
    BY <1>2, <1>3
  <2> DEFINE p == Nth(K, k)
             q == Nth(K, l)
  <2>3. (k < l <=> p < q) /\ (l < k <=> q < p) /\ p \in Nat /\ q \in Nat
    BY <2>1, <2>2
  <2> HIDE DEF p, q
  <2>4. (k <= l <=> p <= q) /\ (p = q => k = l)
    BY <2>3
  <2> QED
    BY <2>4 DEF p, q
<1>4. Q \in SUBSET K
  BY <1>0, <1>2
<1>5. IsFiniteSet(P) /\ Cardinality(P) \in Nat
  BY <1>0, <1>1, RankType
<1>6. \A k, l \in P : Nth(K, k) = Nth(K, l) => k = l
  BY <1>0, <1>3
<1>7. Cardinality(Q) = Cardinality(P)
  <2> DEFINE f == [k \in P |-> Nth(K, k)]
  <2>1. f \in Bijection(P, Q)
    BY <1>0, <1>6 DEF Bijection, Injection, Surjection, IsInjective
  <2> QED
    BY <2>1, <1>5, FS_Bijection DEF ExistsBijection
<1>8. ASSUME NEW i \in Nat, i \in P PROVE Rank(Q, Nth(K, i)) = Rank(P, i)
  <2> DEFINE A == {k \in P : k <= i}
             B == {q \in Q : q <= Nth(K, i)}
             f == [k \in A |-> Nth(K, k)]
  <2>1. \A k \in P : k <= i <=> Nth(K, k) <= Nth(K, i)
    BY <1>0, <1>3, <1>8
  <2>2. f \in Bijection(A, B)
    <3>1. \A k \in A : Nth(K, k) \in B
      BY <1>0, <2>1
    <3>2. \A q \in B : \E k \in A : Nth(K, k) = q
      BY <1>0, <2>1
    <3>3. \A k, l \in A : Nth(K, k) = Nth(K, l) => k = l
      BY <1>6
    <3> HIDE DEF A, B
    <3> QED
      BY <3>1, <3>2, <3>3 DEF Bijection, Injection, Surjection, IsInjective
  <2>3. IsFiniteSet(A)
    BY <1>0, <1>1, RankType
  <2> QED
    BY <2>2, <2>3, FS_Bijection DEF ExistsBijection, Rank
<1>9. ASSUME NEW k \in 1..Cardinality(P)
      PROVE  Nth(P, k) \in P /\ Nth(K, Nth(P, k)) = Nth(Q, k)
  <2>1. Nth(P, k) \in Nat /\ Nth(P, k) \in P /\ Rank(P, Nth(P, k)) = k
    BY <1>0, <1>1, NthPlace
  <2>2. /\ Nth(K, Nth(P, k)) \in Nat /\ Nth(K, Nth(P, k)) \in Q
        /\ Rank(Q, Nth(K, Nth(P, k))) = k
    BY <1>0, <2>1, <1>2, <1>8
  <2>3. Q \in SUBSET Nat /\ \A p \in Q : 1 <= p /\ p <= N
    BY <1>0, <1>4
  <2>4. Nth(Q, Rank(Q, Nth(K, Nth(P, k)))) = Nth(K, Nth(P, k))
    BY <2>2, <2>3, NthRank
  <2> QED
    BY <2>1, <2>2, <2>4
<1> QED
  BY <1>7, <1>9

------------------------------------------------------------------------------
(* The shape of a diff: what git writes, as far as the readings rely on it. *)

Mark == {" ", "+", "-", "\\"}
Lines == [mark : Mark, text : Texts \cup {""}]
Hunks == [old : Nat, new : Nat, lines : Seq(Lines)]

\* A line that no newline ends is the last of its version, and one that both
\* versions have, or the new one, is the last of all.
Terminated(ls) ==
    \A i \in 1..Len(ls) :
        /\ ls[i].mark = "\\" => ls[i] = NoNewline
        /\ ls[i] = NoNewline =>
              /\ i > 1
              /\ ls[i - 1].mark # "\\"
              /\ ls[i - 1].mark \in {" ", "+"} => i = Len(ls)
              /\ ls[i - 1].mark = "-" => \A j \in (i + 1)..Len(ls) : ls[j].mark \in {"+", "\\"}

Shape ==
    /\ diff \in Seq(Hunks)
    /\ \A n \in 1..Len(diff) : Terminated(diff[n].lines)

\* A line alone.
LEMMA Singleton ==
    ASSUME NEW S, NEW e \in S
    PROVE  <<e>> \in Seq(S)
OBVIOUS

\* What Before counts is finite.
LEMMA BeforeType ==
    ASSUME NEW ls, NEW i \in Nat, NEW M
    PROVE  Before(ls, i, M) \in Nat
<1>1. i - 1 \in Int /\ IsFiniteSet(1..(i - 1))
  BY FS_Interval
<1>2. {j \in 1..(i - 1) : ls[j].mark \in M} \in SUBSET (1..(i - 1))
  OBVIOUS
<1> QED
  BY <1>1, <1>2, FS_Subset, FS_CardinalityType DEF Before

\* A line at the end of the last hunk.
LEMMA AddShape ==
    ASSUME Shape, Len(diff) > 0, NEW l \in Lines,
           Add(<<l>>), Terminated(Append(Last, l))
    PROVE  Shape'
<1> DEFINE d == Len(diff)
           h == [diff[d] EXCEPT !.lines = Append(diff[d].lines, l)]
<1>1. diff \in Seq(Hunks) /\ d \in Nat /\ d \in 1..d
  BY LenProperties DEF Shape
<1>2. diff[d] \in Hunks /\ diff[d].lines \in Seq(Lines)
  <2>1. diff[d] \in Hunks
    BY <1>1, ElementOfSeq
  <2> QED
    BY <2>1 DEF Hunks
<1>3. Append(diff[d].lines, l) = diff[d].lines \o <<l>>
  BY <1>2, AppendIsConcat
<1>4. diff' = [diff EXCEPT ![d] = h]
  BY <1>3 DEF Add
<1>5. h \in Hunks /\ h.lines = Append(diff[d].lines, l)
  <2>1. Append(diff[d].lines, l) \in Seq(Lines)
    BY <1>2, AppendProperties
  <2> QED
    BY <2>1, <1>2 DEF Hunks
<1> HIDE DEF h
<1>6. /\ diff' \in Seq(Hunks) /\ Len(diff') = d
      /\ \A n \in 1..d : diff'[n] = IF n = d THEN h ELSE diff[n]
  BY <1>1, <1>4, <1>5, ExceptSeq
<1>7. ASSUME NEW n \in 1..d PROVE Terminated(diff'[n].lines)
  <2>1. CASE n = d
    BY <2>1, <1>5, <1>6 DEF Last
  <2>2. CASE n # d
    BY <2>2, <1>6 DEF Shape
  <2> QED
    BY <2>1, <2>2
<1> QED
  BY <1>6, <1>7 DEF Shape

\* One more line leaves a region terminated.
LEMMA AppendTerminated ==
    ASSUME NEW ls \in Seq(Lines), Terminated(ls), NEW l \in Lines,
           l.mark = "\\" => l = NoNewline /\ Len(ls) > 0 /\ ls[Len(ls)].mark # "\\",
           \A i \in 1..Len(ls) :
              ls[i] = NoNewline => ls[i - 1].mark = "-" /\ l.mark \in {"+", "\\"}
    PROVE  Terminated(Append(ls, l))
<1> DEFINE p == Append(ls, l)
           d == Len(ls)
<1>1. /\ d \in Nat /\ Len(p) = d + 1 /\ p[d + 1] = l
      /\ \A i \in 1..d : p[i] = ls[i]
  BY AppendProperties, LenProperties
<1> HIDE DEF p, d
<1>2. ASSUME NEW i \in 1..(d + 1)
      PROVE  /\ p[i].mark = "\\" => p[i] = NoNewline
             /\ p[i] = NoNewline =>
                   /\ i > 1
                   /\ p[i - 1].mark # "\\"
                   /\ p[i - 1].mark \in {" ", "+"} => i = d + 1
                   /\ p[i - 1].mark = "-" => \A j \in (i + 1)..(d + 1) : p[j].mark \in {"+", "\\"}
  <2>1. CASE i = d + 1
    <3>0. NoNewline.mark = "\\"
      BY DEF NoNewline, Line
    <3>1. p[i] = NoNewline => d > 0 /\ p[d].mark # "\\"
      <4> SUFFICES ASSUME l = NoNewline PROVE d > 0 /\ p[d].mark # "\\"
        BY <2>1, <1>1
      <4>1. d > 0 /\ ls[d].mark # "\\"
        BY <3>0 DEF d
      <4>2. p[d] = ls[d]
        BY <4>1, <1>1
      <4> QED
        BY <4>1, <4>2
    <3>2. \A j \in (i + 1)..(d + 1) : FALSE
      BY <2>1, <1>1
    <3>3. p[i].mark = "\\" => p[i] = NoNewline
      BY <2>1, <1>1
    <3>4. i - 1 = d
      BY <2>1, <1>1
    <3> QED
      BY <2>1, <3>1, <3>2, <3>3, <3>4, <1>1
  <2>2. CASE i \in 1..d
    <3>1. /\ ls[i].mark = "\\" => ls[i] = NoNewline
          /\ ls[i] = NoNewline =>
                /\ i > 1
                /\ ls[i - 1].mark = "-" /\ l.mark \in {"+", "\\"}
                /\ \A j \in (i + 1)..d : ls[j].mark \in {"+", "\\"}
      BY <2>2 DEF Terminated, d
    <3>2. p[i] = ls[i] /\ (i > 1 => p[i - 1] = ls[i - 1])
      BY <2>2, <1>1
    <3>3. ASSUME NEW j \in (i + 1)..(d + 1), p[i] = NoNewline PROVE p[j].mark \in {"+", "\\"}
      <4>1. CASE j = d + 1
        BY <4>1, <3>1, <3>2, <3>3, <1>1
      <4>2. CASE j # d + 1
        <5>1. j \in (i + 1)..d /\ j \in 1..d
          BY <4>2, <2>2, <1>1
        <5> QED
          BY <5>1, <3>1, <3>2, <3>3, <1>1
      <4> QED
        BY <4>1, <4>2
    <3> QED
      BY <3>1, <3>2, <3>3
  <2>3. i = d + 1 \/ i \in 1..d
    BY <1>1
  <2> QED
    BY <2>1, <2>2, <2>3
<1> QED
  BY <1>1, <1>2 DEF Terminated, p

\* The last hunk of a diff.
LEMMA LastLines ==
    ASSUME Shape, Len(diff) > 0
    PROVE  /\ Len(diff) \in Nat /\ Len(diff) \in 1..Len(diff)
           /\ diff[Len(diff)] \in Hunks /\ Last \in Seq(Lines) /\ Len(Last) \in Nat
           /\ Terminated(Last)
<1>1. Len(diff) \in Nat /\ Len(diff) \in 1..Len(diff) /\ diff \in Seq(Hunks)
  BY LenProperties DEF Shape
<1>2. diff[Len(diff)] \in Hunks
  BY <1>1, ElementOfSeq
<1>3. Last \in Seq(Lines)
  BY <1>2 DEF Last, Hunks
<1> QED
  BY <1>1, <1>2, <1>3, LenProperties DEF Last, Shape

\* A version that goes on has not been ended by an unterminated line.
LEMMA OpenLines ==
    ASSUME Shape, Len(diff) > 0, NEW i \in 1..Len(Last), Last[i] = NoNewline
    PROVE  /\ ~Open({"old", "new"})
           /\ Open({"new"}) => Last[i - 1].mark = "-"
<1>0. Len(Last) \in Nat /\ Terminated(Last)
  BY LastLines
<1>1. i \in 2..Len(Last) /\ Last[i - 1].mark # "\\"
  <2>1. i > 1 /\ Last[i - 1].mark # "\\"
    BY <1>0 DEF Terminated
  <2> QED
    BY <1>0, <2>1
<1>2. i - 1 \in 1..Len(Last)
  BY <1>1, LastLines
<1>3. Last[i - 1] \in Lines
  BY <1>2, LastLines, ElementOfSeq
<1>4. Last[i - 1].mark \in {" ", "+", "-"}
  BY <1>1, <1>3 DEF Lines, Mark
<1>5. Last[i - 1].mark # "-" => Over("new")
  BY <1>1, <1>4 DEF Over, Marks
<1>6. Last[i - 1].mark = "-" => Over("old")
  BY <1>1 DEF Over, Marks
<1> QED
  BY <1>5, <1>6 DEF Open

\* The empty diff has the shape.
LEMMA InitShape == Init => Shape
BY EmptySeq DEF Init, Shape

\* Every line git writes keeps the shape.
LEMMA NextShape == Shape /\ [Next]_diff => Shape'
<1> SUFFICES ASSUME Shape, [Next]_diff PROVE Shape'
  OBVIOUS
<1>1. \A t \in Texts, m \in {" ", "+", "-"} : Line(m, t) \in Lines
  BY DEF Line, Lines, Mark
<1>2. NoNewline \in Lines /\ NoNewline.mark = "\\"
  BY DEF NoNewline, Line, Lines, Mark
<1>3. ASSUME NEW t \in Texts
      PROVE  <<Line(" ", t)>> \in Seq(Lines) /\ Terminated(<<Line(" ", t)>>)
  <2> DEFINE l == Line(" ", t)
  <2>1. l \in Lines /\ l.mark = " "
    BY <1>1 DEF Line
  <2>2. l # NoNewline
    BY <1>2, <2>1
  <2> HIDE DEF l
  <2>3. <<l>> \in Seq(Lines)
    BY <2>1, Singleton
  <2>4. Len(<<l>>) = 1
    OBVIOUS
  <2>6. \A i \in 1..1 : <<l>>[i] = l
    OBVIOUS
  <2>7. \A i \in 1..Len(<<l>>) : <<l>>[i].mark = " " /\ <<l>>[i] # NoNewline
    BY <2>1, <2>2, <2>4, <2>6
  <2>5. Terminated(<<l>>)
    BY <2>7 DEF Terminated
  <2> QED
    BY <2>3, <2>5 DEF l
<1>4. CASE FirstHunk
  <2>1. PICK h : /\ diff' = <<h>> /\ h \in Hunks
                 /\ Terminated(h.lines)
    <3>1. CASE diff' = <<[old |-> 1, new |-> 1, lines |-> <<>>]>>
      <4> DEFINE h == [old |-> 1, new |-> 1, lines |-> <<>>]
      <4>1. h \in Hunks
        BY EmptySeq DEF Hunks
      <4>2. Terminated(h.lines)
        <5>1. \A i \in 1..Len(<<>>) : FALSE
          BY EmptySeq
        <5> QED
          BY <5>1 DEF Terminated
      <4> QED
        BY <3>1, <4>1, <4>2
    <3>2. ASSUME NEW t \in Texts, diff' = <<[old |-> 2, new |-> 2, lines |-> <<Line(" ", t)>>]>>
          PROVE  \E h : diff' = <<h>> /\ h \in Hunks /\ Terminated(h.lines)
      <4> DEFINE h == [old |-> 2, new |-> 2, lines |-> <<Line(" ", t)>>]
      <4>1. h \in Hunks
        BY <1>3 DEF Hunks
      <4>2. Terminated(h.lines)
        BY <1>3
      <4> QED
        BY <3>2, <4>1, <4>2
    <3> QED
      BY <1>4, <3>1, <3>2 DEF FirstHunk
  <2> QED
    BY <2>1 DEF Shape
<1>5. CASE NextHunk
  <2> DEFINE next(side) == diff[Len(diff)][side] + All(Last, Marks(side)) + 1
  <2>1. Len(diff) > 0
    BY <1>5 DEF NextHunk, Open
  <2>2. PICK t \in Texts : diff' = Append(diff, [old |-> next("old"), new |-> next("new"),
                                                 lines |-> <<Line(" ", t)>>])
    BY <1>5 DEF NextHunk
  <2>3. next("old") \in Nat /\ next("new") \in Nat
    <3>1. \A M : All(Last, M) \in Nat
      BY <2>1, LastLines, BeforeType DEF All
    <3>2. diff[Len(diff)].old \in Nat /\ diff[Len(diff)].new \in Nat
      BY <2>1, LastLines DEF Hunks
    <3> QED
      BY <3>1, <3>2
  <2> DEFINE h == [old |-> next("old"), new |-> next("new"), lines |-> <<Line(" ", t)>>]
  <2>4. h \in Hunks /\ h.lines = <<Line(" ", t)>>
    BY <1>3, <2>3 DEF Hunks
  <2>5. Terminated(h.lines)
    BY <1>3, <2>4
  <2> HIDE DEF h, next
  <2>6. diff \in Seq(Hunks) /\ diff' = Append(diff, h)
    BY <2>2 DEF Shape, h
  <2>7. /\ diff' \in Seq(Hunks) /\ Len(diff') = Len(diff) + 1 /\ diff'[Len(diff) + 1] = h
        /\ \A n \in 1..Len(diff) : diff'[n] = diff[n]
    <3>1. h \in Hunks /\ diff \in Seq(Hunks)
      BY <2>4, <2>6
    <3> QED
      BY <3>1, <2>6, AppendProperties
  <2>8. \A n \in 1..Len(diff') : n = Len(diff) + 1 \/ n \in 1..Len(diff)
    BY <2>1, <2>7, LastLines
  <2> QED
    BY <2>5, <2>7, <2>8 DEF Shape
<1>6. CASE Unterminated
  <2>1. Len(diff) > 0 /\ Add(<<NoNewline>>)
    BY <1>6 DEF Unterminated, Open
  <2>2. Last \in Seq(Lines) /\ Terminated(Last) /\ Len(Last) > 0
    <3>1. Last # <<>>
      BY <1>6 DEF Unterminated
    <3> QED
      BY <2>1, <3>1, LastLines, EmptySeq
  <2>3. Last[Len(Last)].mark # "\\"
    <3>1. Len(Last) \in 1..Len(Last)
      BY <2>1, <2>2, LastLines
    <3>2. SUFFICES ASSUME Last[Len(Last)].mark = "\\" PROVE FALSE
      OBVIOUS
    <3>3. Last[Len(Last)] = NoNewline
      BY <2>2, <3>1, <3>2 DEF Terminated
    <3>4. ~Open({"old", "new"})
      BY <2>1, <3>1, <3>3, OpenLines
    <3>5. ~AfterAddition
      BY <3>2 DEF AfterAddition
    <3> QED
      BY <1>6, <3>4, <3>5 DEF Unterminated
  <2>4. \A i \in 1..Len(Last) : Last[i] = NoNewline => Last[i - 1].mark = "-"
    BY <1>6, <2>1, OpenLines DEF Unterminated
  <2>5. Terminated(Append(Last, NoNewline))
    BY <1>2, <2>2, <2>3, <2>4, AppendTerminated
  <2> QED
    BY <1>2, <2>1, <2>5, AddShape
<1>7. ASSUME NEW t \in Texts, NEW m \in {" ", "+", "-"}, Add(<<Line(m, t)>>),
             Open({"old", "new"}) \/ (m = "+" /\ Open({"new"}))
      PROVE  Shape'
  <2>1. Len(diff) > 0
    BY <1>7 DEF Open
  <2>2. Last \in Seq(Lines) /\ Terminated(Last)
    BY <2>1, LastLines
  <2>3. \A i \in 1..Len(Last) : Last[i] = NoNewline => Last[i - 1].mark = "-" /\ m = "+"
    BY <1>7, <2>1, OpenLines
  <2>4. Line(m, t) \in Lines /\ Line(m, t).mark = m
    BY <1>1 DEF Line
  <2>5. Terminated(Append(Last, Line(m, t)))
    BY <2>2, <2>3, <2>4, AppendTerminated
  <2> QED
    BY <1>7, <2>1, <2>4, <2>5, AddShape
<1>8. ASSUME NEW t \in Texts, Context(t) PROVE Shape'
  BY <1>7, <1>8 DEF Context
<1>9. ASSUME NEW t \in Texts, Deletion(t) PROVE Shape'
  BY <1>7, <1>9 DEF Deletion
<1>10. ASSUME NEW t \in Texts, Addition(t) PROVE Shape'
  BY <1>7, <1>10 DEF Addition
<1>11. CASE UNCHANGED diff
  BY <1>11 DEF Shape
<1> QED
  BY <1>4, <1>5, <1>6, <1>8, <1>9, <1>10, <1>11 DEF Next

\* Every diff has the shape.
LEMMA DiffShape == Spec => []Shape
<1>1. Init => Shape
  BY InitShape
<1>2. Shape /\ [Next]_diff => Shape'
  BY NextShape
<1> QED
  BY <1>1, <1>2, PTL DEF Spec

------------------------------------------------------------------------------
(* Comments.                                                               *)

\* A diff has finitely many lines.
LEMMA PositionsFinite ==
    ASSUME Shape, NEW M \in SUBSET Positions
    PROVE  IsFiniteSet(M)
<1>1. Len(diff) \in Nat
  BY LenProperties DEF Shape
<1>2. IsFiniteSet((1..Len(diff)) \X (1..MaxLines))
  <2>1. IsFiniteSet(1..Len(diff)) /\ IsFiniteSet(1..MaxLines)
    BY <1>1, FS_Interval, PatchesAssumption
  <2> QED
    BY <2>1, FS_Product
<1>3. M \in SUBSET ((1..Len(diff)) \X (1..MaxLines))
  BY DEF Positions
<1> QED
  BY <1>2, <1>3, FS_Subset

\* On a diff of that shape the watcher finds a comment's line, if it is unique.
LEMMA ShapeLocates == Shape => CommentsLocated
<1> SUFFICES ASSUME Shape, NEW pos \in Positions, NEW side \in {"old", "new"},
                    NEW h, h = diff[pos[1]], NEW l, l = h.lines[pos[2]],
                    l.mark \in Marks(side),
                    ~ \E j \in 1..(pos[2] - 1) :
                          h.lines[j].mark \in Marks(side) /\ Misread(h.lines[j])
             PROVE  locateComment(side, l) =
                       IF (\A q \in Positions : diff[q[1]].lines[q[2]] = l => q = pos)
                          /\ ~Misread(l)
                       THEN Number(h, side, pos[2]) ELSE Outdated
  BY DEF CommentsLocated
<1> DEFINE M == Matches(side, l)
<1>1. M \in SUBSET Positions /\ IsFiniteSet(M)
  BY PositionsFinite DEF Matches
<1>2. ~Misread(l) => \A p : p \in M <=> p \in Positions /\ diff[p[1]].lines[p[2]] = l
  BY DEF Matches
<1>3. Misread(l) => M = {}
  BY DEF Matches
<1>4. Candidate(h, side, pos[2]) = Number(h, side, pos[2])
  <2>1. {j \in 1..(pos[2] - 1) : h.lines[j].mark \in Marks(side) /\ ~Misread(h.lines[j])}
        = {j \in 1..(pos[2] - 1) : h.lines[j].mark \in Marks(side)}
    OBVIOUS
  <2> QED
    BY <2>1 DEF Candidate, Number, Before
<1>5. CASE Misread(l)
  <2>1. Cardinality(M) # 1
    BY <1>3, <1>5, FS_EmptySet
  <2> QED
    BY <1>5, <2>1 DEF locateComment
<1>6. CASE ~Misread(l) /\ \A q \in Positions : diff[q[1]].lines[q[2]] = l => q = pos
  <2>1. M = {pos}
    BY <1>2, <1>6
  <2>2. Cardinality(M) = 1 /\ (CHOOSE p \in M : TRUE) = pos
    BY <2>1, FS_Singleton
  <2> QED
    BY <1>4, <1>6, <2>2 DEF locateComment
<1>7. CASE ~Misread(l) /\ \E q \in Positions : diff[q[1]].lines[q[2]] = l /\ q # pos
  <2>1. PICK q \in Positions : diff[q[1]].lines[q[2]] = l /\ q # pos
    BY <1>7
  <2>2. q \in M /\ pos \in M
    BY <1>2, <1>7, <2>1
  <2>3. Cardinality(M) # 1
    BY <1>1, <2>1, <2>2, FS_Singleton
  <2> QED
    BY <1>7, <2>3 DEF locateComment
<1> QED
  BY <1>5, <1>6, <1>7

\* A comment stays on its line: while the diff does not change, the number under
\* which locateComment finds a line is the one ParseDiff shows the browser, and a
\* line that is not unique, or that it misreads, is taken for outdated.
THEOREM CommentsStayLocated == Spec => []CommentsLocated
BY DiffShape, ShapeLocates, PTL

------------------------------------------------------------------------------
(* The lines of a patch.                                                   *)

\* What SelectPatch keeps of a hunk, in its order.
LEMMA KeptPlaces ==
    ASSUME NEW ls \in Seq(Lines), NEW sel
    PROVE  /\ Len(ls) \in Nat
           /\ Kept(ls, sel) \in SUBSET Nat
           /\ \A i \in Kept(ls, sel) : 1 <= i /\ i <= Len(ls)
           /\ Cardinality(Kept(ls, sel)) \in Nat
           /\ Len(SelectPatch(ls, sel)) = Cardinality(Kept(ls, sel))
           /\ \A k \in 1..Cardinality(Kept(ls, sel)) :
                 SelectPatch(ls, sel)[k] = Cut(ls, Nth(Kept(ls, sel), k), sel)
<1>1. Len(ls) \in Nat
  BY LenProperties
<1>2. Kept(ls, sel) \in SUBSET Nat /\ \A i \in Kept(ls, sel) : 1 <= i /\ i <= Len(ls)
  BY <1>1 DEF Kept
<1>3. Cardinality(Kept(ls, sel)) \in Nat
  BY <1>1, <1>2, RankType
<1> QED
  BY <1>1, <1>2, <1>3 DEF SelectPatch

\* A line of the patch and the line of the hunk it comes from.
LEMMA KeptLine ==
    ASSUME NEW ls \in Seq(Lines), NEW sel, NEW i \in Kept(ls, sel)
    PROVE  LET k == Rank(Kept(ls, sel), i)
           IN /\ k \in 1..Len(SelectPatch(ls, sel))
              /\ Nth(Kept(ls, sel), k) = i
              /\ SelectPatch(ls, sel)[k] = Cut(ls, i, sel)
<1>1. i \in Nat
  BY KeptPlaces
<1>2. /\ Rank(Kept(ls, sel), i) \in 1..Cardinality(Kept(ls, sel))
      /\ Nth(Kept(ls, sel), Rank(Kept(ls, sel), i)) = i
  BY <1>1, KeptPlaces, NthRank
<1> QED
  BY <1>2, KeptPlaces

\* The ordinals of changed lines are different, and each is below their number.
LEMMA OrdinalsDiffer ==
    ASSUME NEW ls \in Seq(Lines),
           NEW i \in 1..Len(ls), ls[i].mark \in Changed
    PROVE  /\ Before(ls, i, Changed) \in Nat /\ All(ls, Changed) \in Nat
           /\ Before(ls, i, Changed) < All(ls, Changed)
           /\ \A j \in 1..Len(ls) :
                 ls[j].mark \in Changed /\ Before(ls, j, Changed) = Before(ls, i, Changed) => j = i
<1> DEFINE C == {j \in 1..Len(ls) : ls[j].mark \in Changed}
<1>1. Len(ls) \in Nat
  BY LenProperties
<1>2. C \in SUBSET Nat /\ \A p \in C : 1 <= p /\ p <= Len(ls)
  BY <1>1
<1>3. ASSUME NEW j \in Nat, j <= Len(ls) + 1, j >= 1
      PROVE  Before(ls, j, Changed) = Rank(C, j - 1)
  <2>1. \A m : m \in 1..(j - 1) <=> m \in 1..Len(ls) /\ m <= j - 1
    BY <1>1, <1>3
  <2>2. {m \in 1..(j - 1) : ls[m].mark \in Changed} = {m \in C : m <= j - 1}
    BY <2>1, Zenon
  <2> QED
    BY <2>2 DEF Before, Rank
<1> HIDE DEF C
<1>4. ASSUME NEW j \in 1..Len(ls), ls[j].mark \in Changed
      PROVE  /\ j \in Nat /\ j \in C
             /\ Rank(C, j) \in Nat
             /\ Before(ls, j, Changed) \in Nat
             /\ Rank(C, j) = Before(ls, j, Changed) + 1
  <2>1. j \in Nat /\ 1 <= j /\ j <= Len(ls) + 1 /\ j - 1 \in Nat
    BY <1>1
  <2>2. j \in C
    BY <1>4 DEF C
  <2>3. Rank(C, j - 1) \in Nat /\ Rank(C, j) = Rank(C, j - 1) + 1
    BY <1>1, <1>2, <2>1, <2>2, RankType, RankNext
  <2> QED
    BY <1>3, <2>1, <2>2, <2>3
<1>5. All(ls, Changed) = Cardinality(C) /\ Cardinality(C) \in Nat
  <2>1. All(ls, Changed) = Rank(C, Len(ls))
    BY <1>1, <1>3 DEF All
  <2>2. {m \in C : m <= Len(ls)} = C
    BY <1>1, <1>2
  <2> QED
    BY <1>1, <1>2, <2>1, <2>2, RankType DEF Rank
<1>6. Before(ls, i, Changed) < All(ls, Changed)
  <2>1. Rank(C, i) <= Cardinality(C)
    BY <1>1, <1>2, <1>4, RankType
  <2> QED
    BY <1>4, <1>5, <2>1
<1>7. ASSUME NEW j \in 1..Len(ls), ls[j].mark \in Changed,
             Before(ls, j, Changed) = Before(ls, i, Changed)
      PROVE  j = i
  <2>1. /\ j \in Nat /\ j \in C /\ Rank(C, j) \in Nat
        /\ i \in Nat /\ i \in C /\ Rank(C, j) = Rank(C, i)
    BY <1>4, <1>7
  <2>2. i < j => Rank(C, i) < Rank(C, j)
    BY <1>1, <1>2, <2>1, RankStrict
  <2>3. j < i => Rank(C, j) < Rank(C, i)
    BY <1>1, <1>2, <2>1, RankStrict
  <2> QED
    BY <2>1, <2>2, <2>3
<1> QED
  BY <1>4, <1>5, <1>6, <1>7

\* On a diff of that shape an ordinal selects its line alone.
LEMMA ShapeOrdinals == Shape => OrdinalsAgree
<1> SUFFICES ASSUME Shape, NEW n \in 1..Len(diff), NEW i \in 1..Len(diff[n].lines),
                    diff[n].lines[i].mark \in Changed
             PROVE  LET ls == diff[n].lines
                        sel == {Ordinal(n, i)}
                        p == SelectPatch(ls, sel)
                    IN /\ ~Refused(ls, sel)
                       /\ \E k \in 1..Len(p) :
                             p[k] = ls[i] /\ \A m \in 1..Len(p) : p[m].mark \in Changed => m = k
  BY DEF OrdinalsAgree
<1> DEFINE ls == diff[n].lines
           sel == {Ordinal(n, i)}
           p == SelectPatch(ls, sel)
<1>1. ls \in Seq(Lines)
  <2>1. diff[n] \in Hunks
    BY ElementOfSeq DEF Shape
  <2> QED
    BY <2>1 DEF Hunks
<1>2. Ordinal(n, i) = Before(ls, i, Changed)
  BY DEF Ordinal
<1>3. ~Refused(ls, sel)
  BY <1>1, <1>2, OrdinalsDiffer DEF Refused
<1>4. \A j \in 1..Len(ls) : ls[j].mark \in Changed /\ Chosen(ls, j, sel) => j = i
  BY <1>1, <1>2, OrdinalsDiffer DEF Chosen
<1>5. Chosen(ls, i, sel)
  BY <1>2 DEF Chosen
<1> DEFINE K == Kept(ls, sel)
           k == Rank(K, i)
<1>6. i \in K /\ Cut(ls, i, sel) = ls[i]
  BY <1>5 DEF Kept, Cut
<1>7. k \in 1..Len(p) /\ p[k] = ls[i]
  BY <1>1, <1>6, KeptLine
<1>8. ASSUME NEW m \in 1..Len(p), p[m].mark \in Changed PROVE m = k
  <2> DEFINE j == Nth(K, m)
  <2>1. /\ m \in 1..Cardinality(K) /\ p[m] = Cut(ls, j, sel)
    BY <1>1, KeptPlaces
  <2>2. j \in K /\ Rank(K, j) = m
    BY <1>1, <2>1, KeptPlaces, NthPlace
  <2>3. ls[j].mark \in Changed /\ Chosen(ls, j, sel)
    <3>1. p[m] # Line(" ", ls[j].text)
      <4>1. Line(" ", ls[j].text).mark \notin Changed
        BY DEF Line, Changed
      <4> QED
        BY <4>1, <1>8
    <3>2. p[m] = ls[j] /\ ~ (ls[j].mark = "-" /\ ~Chosen(ls, j, sel))
      BY <2>1, <3>1 DEF Cut
    <3>3. ls[j].mark = "+" => Chosen(ls, j, sel)
      BY <2>2 DEF Kept
    <3> QED
      BY <1>8, <3>2, <3>3 DEF Changed
  <2>4. j = i
    BY <1>4, <2>2, <2>3 DEF Kept
  <2> QED
    BY <2>2, <2>4
<1> QED
  BY <1>3, <1>7, <1>8

\* The ordinal that ParseDiff gives a changed line is one that SelectPatch accepts,
\* and selects that line and no other.
THEOREM OrdinalsAlwaysAgree == Spec => []OrdinalsAgree
BY DiffShape, ShapeOrdinals, PTL

------------------------------------------------------------------------------
(* Patches applied.                                                        *)

\* The lines of a version are a sequence, in the order of their places.
LEMMA PickedLines ==
    ASSUME NEW N \in Nat, NEW K \in SUBSET Nat, \A p \in K : 1 <= p /\ p <= N,
           NEW ls
    PROVE  /\ Len(Picked(ls, K)) = Cardinality(K) /\ Cardinality(K) \in Nat
           /\ \E S : Picked(ls, K) \in Seq(S)
           /\ \A k \in 1..Cardinality(K) :
                 Picked(ls, K)[k] = [text |-> ls[Nth(K, k)].text, ended |-> Ended(ls, Nth(K, k))]
<1> DEFINE s == Picked(ls, K)
           n == Cardinality(K)
           S == {[text |-> ls[Nth(K, k)].text, ended |-> Ended(ls, Nth(K, k))] : k \in 1..n}
<1>1. n \in Nat
  BY RankType
<1>2. s = [k \in 1..n |-> [text |-> ls[Nth(K, k)].text, ended |-> Ended(ls, Nth(K, k))]]
  BY DEF Picked
<1>3. s \in [1..n -> S]
  BY <1>2
<1>4. s \in Seq(S) /\ Len(s) = n
  <2> HIDE DEF s, S, n
  <2>1. s \in Seq(S)
    BY <1>1, <1>3, SeqDef
  <2>2. DOMAIN s = 1..n
    BY <1>3
  <2> QED
    BY <1>1, <2>1, <2>2, LenProperties
<1> QED
  BY <1>1, <1>2, <1>4

\* Unless a change that was not chosen has no newline, a line is ended in the
\* patch as it is in the hunk.
LEMMA KeptEnds ==
    ASSUME NEW ls \in Seq(Lines), Terminated(ls), NEW sel, ~EndUnchosen(ls, sel),
           NEW k \in 1..Cardinality(Kept(ls, sel))
    PROVE  Ended(SelectPatch(ls, sel), k) <=> Ended(ls, Nth(Kept(ls, sel), k))
<1> DEFINE K == Kept(ls, sel)
           n == Cardinality(K)
           p == SelectPatch(ls, sel)
           i == Nth(K, k)
<1>1. /\ Len(ls) \in Nat /\ n \in Nat /\ Len(p) = n
      /\ K \in SUBSET Nat /\ \A q \in K : 1 <= q /\ q <= Len(ls)
  BY KeptPlaces
<1>2. i \in K /\ i \in Nat /\ Rank(K, i) = k
  BY <1>1, NthPlace
<1>3. ASSUME ~Ended(ls, i) PROVE ~Ended(p, k)
  <2>1. i + 1 \in 1..Len(ls) /\ ls[i + 1] = NoNewline
    BY <1>1, <1>2, <1>3 DEF Ended
  <2>2. NoNewline.mark = "\\"
    BY DEF NoNewline, Line
  <2>3. i + 1 \in K /\ Cut(ls, i + 1, sel) = NoNewline
    BY <2>1, <2>2 DEF Kept, Cut
  <2>4. Rank(K, i + 1) = Rank(K, i) + 1
    <3>1. i + 1 \in Nat /\ (i + 1) - 1 = i
      BY <1>2
    <3>2. Rank(K, i + 1) = Rank(K, (i + 1) - 1) + 1
      BY <1>1, <2>3, <3>1, RankNext
    <3> QED
      BY <3>1, <3>2
  <2>5. k + 1 \in 1..Len(p) /\ p[k + 1] = NoNewline
    BY <1>2, <2>3, <2>4, KeptLine
  <2> QED
    BY <1>1, <2>5 DEF Ended
<1>4. ASSUME ~Ended(p, k) PROVE ~Ended(ls, i)
  <2> DEFINE j == Nth(K, k + 1)
  <2>1. k + 1 \in 1..n /\ k \in 1..n /\ p[k + 1] = NoNewline
    BY <1>1, <1>4 DEF Ended
  <2>2. j \in K /\ j \in Nat /\ Rank(K, j) = k + 1 /\ p[k + 1] = Cut(ls, j, sel)
    BY <1>1, <2>1, NthPlace, KeptPlaces
  <2>3. i < j
    <3>1. k < k + 1
      BY <1>1
    <3>2. k < k + 1 <=> Nth(K, k) < Nth(K, k + 1)
      BY <1>1, <2>1, NthOrder
    <3> QED
      BY <3>1, <3>2
  <2>4. ls[j] = NoNewline
    <3>1. NoNewline # Line(" ", ls[j].text)
      <4>1. NoNewline.mark # Line(" ", ls[j].text).mark
        BY DEF NoNewline, Line
      <4> QED
        BY <4>1
    <3> QED
      BY <2>1, <2>2, <3>1 DEF Cut
  <2>5. j = i + 1
    <3> SUFFICES ASSUME j # i + 1 PROVE FALSE
      OBVIOUS
    <3>1. j - 1 \in Nat /\ i < j - 1 /\ j - 1 < j /\ j \in 2..Len(ls) /\ j - 1 \in 1..Len(ls)
      BY <1>1, <1>2, <2>2, <2>3
    <3>2. j - 1 \notin K
      <4> SUFFICES ASSUME j - 1 \in K PROVE FALSE
        OBVIOUS
      <4>1. Rank(K, i) < Rank(K, j - 1)
        BY <1>1, <1>2, <3>1, RankStrict
      <4>2. Rank(K, j - 1) < Rank(K, j)
        BY <1>1, <2>2, <3>1, RankStrict
      <4>3. Rank(K, j - 1) \in Nat
        BY <1>1, <3>1, RankType
      <4> QED
        BY <1>1, <1>2, <2>2, <4>1, <4>2, <4>3
    <3>3. ls[j - 1].mark = "+" /\ ~Chosen(ls, j - 1, sel)
      BY <3>1, <3>2 DEF Kept
    <3>4. EndUnchosen(ls, sel)
      BY <2>4, <3>1, <3>3 DEF EndUnchosen, Changed
    <3> QED
      BY <3>4
  <2> QED
    BY <1>1, <1>2, <2>2, <2>4, <2>5 DEF Ended
<1> QED
  BY <1>3, <1>4

\* A version of the patch, in terms of the lines of the hunk.
LEMMA PatchSide ==
    ASSUME NEW ls \in Seq(Lines), Terminated(ls), NEW sel, ~EndUnchosen(ls, sel), NEW side,
           NEW Q, \A i \in Q : i \in Kept(ls, sel),
           \A i \in Kept(ls, sel) : i \in Q <=> Cut(ls, i, sel).mark \in Marks(side)
    PROVE  Side(SelectPatch(ls, sel), side) = Picked(ls, Q)
<1> DEFINE K == Kept(ls, sel)
           p == SelectPatch(ls, sel)
           P == On(p, side)
<1>1. /\ Len(ls) \in Nat /\ Cardinality(K) \in Nat /\ Len(p) = Cardinality(K)
      /\ K \in SUBSET Nat /\ \A q \in K : 1 <= q /\ q <= Len(ls)
      /\ \A k \in 1..Cardinality(K) : p[k] = Cut(ls, Nth(K, k), sel)
  BY KeptPlaces
<1>2. P \in SUBSET Nat /\ \A q \in P : 1 <= q /\ q <= Cardinality(K)
  BY <1>1 DEF On
<1>3. \A q : q \in Q <=> \E k \in P : q = Nth(K, k)
  <2>1. ASSUME NEW i \in Q PROVE \E k \in P : i = Nth(K, k)
    <3> DEFINE k == Rank(K, i)
    <3>1. i \in K /\ k \in 1..Len(p) /\ Nth(K, k) = i /\ p[k] = Cut(ls, i, sel)
      BY KeptLine
    <3>2. k \in P
      BY <3>1 DEF On
    <3> QED
      BY <3>1, <3>2
  <2>2. ASSUME NEW k \in P PROVE Nth(K, k) \in Q
    <3>1. k \in 1..Cardinality(K) /\ p[k].mark \in Marks(side)
      BY <1>1 DEF On
    <3>2. Nth(K, k) \in K /\ p[k] = Cut(ls, Nth(K, k), sel)
      BY <1>1, <3>1, NthPlace
    <3> QED
      BY <3>1, <3>2
  <2> QED
    BY <2>1, <2>2
<1>4. /\ Cardinality(Q) = Cardinality(P)
      /\ \A k \in 1..Cardinality(P) : Nth(P, k) \in P /\ Nth(K, Nth(P, k)) = Nth(Q, k)
  <2>1. Places(K, Len(ls)) /\ Places(P, Cardinality(K)) /\ PlacesOf(Q, K, P)
    BY <1>1, <1>2, <1>3 DEF Places, PlacesOf
  <2> QED
    BY <1>1, <2>1, NthNth
<1>5. ASSUME NEW k \in 1..Cardinality(P)
      PROVE  /\ p[Nth(P, k)].text = ls[Nth(Q, k)].text
             /\ Ended(p, Nth(P, k)) = Ended(ls, Nth(Q, k))
  <2> DEFINE m == Nth(P, k)
  <2>1. m \in 1..Cardinality(K) /\ Nth(K, m) = Nth(Q, k)
    BY <1>1, <1>2, <1>4
  <2>2. p[m] = Cut(ls, Nth(Q, k), sel)
    BY <1>1, <2>1
  <2>3. p[m].text = ls[Nth(Q, k)].text
    <3> DEFINE l == ls[Nth(Q, k)]
    <3>1. Line(" ", l.text).text = l.text
      BY DEF Line
    <3>2. Cut(ls, Nth(Q, k), sel) \in {l, Line(" ", l.text)}
      BY DEF Cut
    <3> QED
      BY <2>2, <3>1, <3>2
  <2>4. Ended(p, m) <=> Ended(ls, Nth(Q, k))
    BY <2>1, KeptEnds
  <2>5. Ended(p, m) \in BOOLEAN /\ Ended(ls, Nth(Q, k)) \in BOOLEAN
    BY DEF Ended
  <2> QED
    BY <2>3, <2>4, <2>5
<1> QED
  BY <1>4, <1>5 DEF Side, Picked

\* git apply takes a patch that names the version it is applied to, and what is
\* left is the other side.
LEMMA FitsItself ==
    ASSUME NEW p, NEW S, NEW from \in Seq(S), NEW T, NEW to \in Seq(T)
    PROVE  /\ Fits(p, from, from)
           /\ to \o SubSeq(from, Len(from) + 1, Len(from)) = to
<1>1. Len(from) \in Nat
  BY LenProperties
<1>2. SubSeq(from, Len(from) + 1, Len(from)) = <<>>
  BY <1>1, SubSeqEmpty
<1>3. to \o <<>> = to
  BY ConcatEmptySeq
<1> QED
  BY <1>1, <1>2, <1>3 DEF Fits

\* What stays are lines of the hunk.
LEMMA StaysPlaces ==
    ASSUME NEW ls, Len(ls) \in Nat, NEW sel, NEW reverse
    PROVE  /\ Stays(ls, sel, reverse) \in SUBSET Nat
           /\ \A q \in Stays(ls, sel, reverse) : 1 <= q /\ q <= Len(ls)
<1>1. \A q \in Stays(ls, sel, reverse) : q \in 1..Len(ls)
  BY DEF Stays
<1>2. \A q \in 1..Len(ls) : q \in Nat /\ 1 <= q /\ q <= Len(ls)
  OBVIOUS
<1> QED
  BY <1>1, <1>2

\* What stays is a file: only its last line can be without a newline.
LEMMA StaysFile ==
    ASSUME NEW ls \in Seq(Lines), Terminated(ls), NEW sel, ~EndUnchosen(ls, sel),
           NEW reverse \in BOOLEAN, reverse => sel = {}
    PROVE  IsFile(Picked(ls, Stays(ls, sel, reverse)))
<1> DEFINE K == Stays(ls, sel, reverse)
           n == Cardinality(K)
           s == Picked(ls, K)
<1>1. Len(ls) \in Nat
  BY LenProperties
<1>2. K \in SUBSET Nat /\ \A q \in K : 1 <= q /\ q <= Len(ls)
  BY <1>1, StaysPlaces
<1>3. /\ Len(s) = n /\ n \in Nat
      /\ \A k \in 1..n : s[k] = [text |-> ls[Nth(K, k)].text, ended |-> Ended(ls, Nth(K, k))]
  <2> HIDE DEF K
  <2> QED
    BY <1>1, <1>2, PickedLines
<1>4. ASSUME NEW k \in 1..(n - 1) PROVE s[k].ended
  <2> DEFINE i == Nth(K, k)
             j == Nth(K, k + 1)
  <2>1. k \in 1..n /\ k + 1 \in 1..n /\ k < k + 1
    BY <1>3
  <2>2. i \in K /\ j \in K /\ i < j
    <3> HIDE DEF K
    <3>1. i \in K /\ j \in K
      BY <1>1, <1>2, <2>1, NthPlace
    <3>2. k < k + 1 <=> Nth(K, k) < Nth(K, k + 1)
      BY <1>1, <1>2, <2>1, NthOrder
    <3> QED
      BY <2>1, <3>1, <3>2
  <2>3. i \in Nat /\ j \in Nat /\ i \in 1..Len(ls) /\ j \in 1..Len(ls)
    BY <1>1, <1>2, <2>2
  <2> HIDE DEF i, j
  <2>4. ls[i].mark \in {" ", "+", "-"} /\ ls[j].mark # "\\"
    BY <2>2, <2>3 DEF Stays
  <2>5. Ended(ls, i)
    <3> SUFFICES ASSUME i # Len(ls), ls[i + 1] = NoNewline PROVE FALSE
      BY DEF Ended
    <3>1. i + 1 \in 1..Len(ls) /\ i + 1 > 1 /\ (i + 1) - 1 = i /\ i + 1 \in 2..Len(ls)
      BY <1>1, <2>3
    <3>2. /\ ls[i].mark \in {" ", "+"} => i + 1 = Len(ls)
          /\ ls[i].mark = "-" => \A m \in (i + 2)..Len(ls) : ls[m].mark \in {"+", "\\"}
      <4>1. /\ ls[(i + 1) - 1].mark \in {" ", "+"} => i + 1 = Len(ls)
            /\ ls[(i + 1) - 1].mark = "-" =>
                  \A m \in ((i + 1) + 1)..Len(ls) : ls[m].mark \in {"+", "\\"}
        BY <3>1 DEF Terminated
      <4>2. (i + 1) + 1 = i + 2
        BY <2>3
      <4> QED
        BY <3>1, <4>1, <4>2
    <3>3. ls[i].mark \in Changed => Chosen(ls, i, sel)
      BY <3>1 DEF EndUnchosen
    <3>4. NoNewline.mark = "\\"
      BY DEF NoNewline, Line
    <3>5. j # i + 1
      BY <2>4, <3>4
    <3>6. i + 1 < Len(ls) /\ j \in (i + 2)..Len(ls)
      BY <1>1, <2>2, <2>3, <3>5
    <3>7. ls[i].mark = "-" /\ ls[j].mark = "+"
      <4>1. ls[i].mark = "-"
        <5>1. i + 1 # Len(ls)
          BY <1>1, <2>3, <3>6
        <5> QED
          BY <2>4, <3>2, <5>1
      <4> QED
        BY <2>4, <3>2, <3>6, <4>1
    <3>8. Chosen(ls, i, sel) /\ (reverse => Chosen(ls, j, sel))
      BY <3>3, <3>7 DEF Changed, Chosen
    <3> QED
      BY <2>2, <3>7, <3>8 DEF Stays
  <2> QED
    BY <1>3, <2>1, <2>5 DEF i
<1> QED
  BY <1>3, <1>4 DEF IsFile

\* Staging: the patch names the index's version, and makes the chosen changes.
LEMMA StagesExactly ==
    ASSUME NEW ls \in Seq(Lines), Terminated(ls), NEW sel, ~EndUnchosen(ls, sel)
    PROVE  /\ Side(SelectPatch(ls, sel), "old") = Side(ls, "old")
           /\ Side(SelectPatch(ls, sel), "new") = Picked(ls, Stays(ls, sel, FALSE))
<1>1. Side(SelectPatch(ls, sel), "old") = Picked(ls, On(ls, "old"))
  <2>1. \A i \in On(ls, "old") : i \in Kept(ls, sel)
    BY DEF On, Marks, Kept
  <2>2. \A i \in Kept(ls, sel) : i \in On(ls, "old") <=> Cut(ls, i, sel).mark \in Marks("old")
    BY DEF On, Marks, Kept, Cut, Line
  <2> QED
    BY <2>1, <2>2, PatchSide
<1>2. Side(SelectPatch(ls, sel), "new") = Picked(ls, Stays(ls, sel, FALSE))
  <2>1. \A i \in Stays(ls, sel, FALSE) : i \in Kept(ls, sel)
    BY DEF Stays, Kept
  <2>2. \A i \in Kept(ls, sel) :
           i \in Stays(ls, sel, FALSE) <=> Cut(ls, i, sel).mark \in Marks("new")
    BY DEF Stays, Marks, Kept, Cut, Line
  <2> QED
    BY <2>1, <2>2, PatchSide
<1> QED
  BY <1>1, <1>2 DEF Side

\* A whole hunk is its own patch.
LEMMA WholeHunk ==
    ASSUME NEW ls \in Seq(Lines)
    PROVE  /\ SelectPatch(ls, {}) = ls
           /\ On(ls, "old") = Stays(ls, {}, TRUE)
<1>1. Len(ls) \in Nat
  BY LenProperties
<1>2. Kept(ls, {}) = 1..Len(ls)
  BY DEF Kept, Chosen
<1>3. /\ Cardinality(Kept(ls, {})) = Len(ls)
      /\ \A k \in 1..Len(ls) : Nth(Kept(ls, {}), k) = k
  BY <1>1, <1>2, NthWhole
<1>4. \A k \in 1..Len(ls) : Cut(ls, k, {}) = ls[k]
  BY DEF Cut, Chosen
<1>5. SelectPatch(ls, {}) = [k \in 1..Len(ls) |-> ls[k]]
  BY <1>3, <1>4 DEF SelectPatch
<1>6. ls = [k \in 1..Len(ls) |-> ls[k]]
  BY LenProperties
<1>7. On(ls, "old") = Stays(ls, {}, TRUE)
  BY DEF On, Stays, Marks, Chosen
<1> QED
  BY <1>5, <1>6, <1>7

\* A selection of ApplyPatch's clients is one SelectPatch accepts.
LEMMA SelectionsTaken ==
    ASSUME NEW ls, Len(ls) \in Nat, NEW sel \in Selections(ls)
    PROVE  ~Refused(ls, sel)
<1>1. All(ls, Changed) \in Nat
  BY BeforeType DEF All
<1>2. CASE sel = {}
  BY <1>2 DEF Refused
<1>3. ASSUME NEW lo \in 0..(All(ls, Changed) - 1), NEW hi \in 0..(All(ls, Changed) - 1),
             sel = lo..hi
      PROVE  ~Refused(ls, sel)
  <2>1. \A s \in sel : ~ (s >= All(ls, Changed))
    BY <1>1, <1>3
  <2> QED
    BY <2>1 DEF Refused
<1> QED
  BY <1>2, <1>3 DEF Selections

\* On a diff of that shape a patch action does just what was chosen.
LEMMA ShapeExact == Shape => ActionsExact
<1> SUFFICES ASSUME Shape, NEW n \in 1..Len(diff), NEW reverse \in BOOLEAN,
                    NEW sel \in IF reverse THEN {{}} ELSE Selections(diff[n].lines),
                    ~EndUnchosen(diff[n].lines, sel)
             PROVE  /\ Applies(diff[n].lines, sel, reverse)
                    /\ DoesJust(diff[n].lines, sel, reverse)
  BY DEF ActionsExact
<1> DEFINE ls == diff[n].lines
           p == SelectPatch(ls, sel)
           from == Side(ls, From(reverse))
           to == Picked(ls, Stays(ls, sel, reverse))
<1>1. ls \in Seq(Lines) /\ Terminated(ls) /\ Len(ls) \in Nat
  <2>1. diff[n] \in Hunks
    BY ElementOfSeq DEF Shape
  <2>2. ls \in Seq(Lines)
    BY <2>1 DEF Hunks
  <2> QED
    BY <2>2, LenProperties DEF Shape
<1> HIDE DEF ls
<1>2. ~EndUnchosen(ls, sel) /\ (reverse => sel = {})
  BY DEF ls
<1>3. ~Refused(ls, sel)
  <2>1. sel \in Selections(ls)
    BY DEF ls, Selections
  <2> QED
    BY <1>1, <2>1, SelectionsTaken
<1>4. Side(p, From(reverse)) = from /\ Side(p, To(reverse)) = to
  <2>1. CASE reverse
    BY <1>1, <1>2, <2>1, WholeHunk DEF To, Side
  <2>2. CASE ~reverse
    BY <1>1, <1>2, <2>2, StagesExactly DEF From, To
  <2> QED
    BY <2>1, <2>2
<1>5. (\E S : from \in Seq(S)) /\ (\E T : to \in Seq(T))
  <2>1. \A K \in SUBSET Nat :
           (\A q \in K : 1 <= q /\ q <= Len(ls)) => \E S : Picked(ls, K) \in Seq(S)
    BY <1>1, PickedLines
  <2>2. /\ On(ls, From(reverse)) \in SUBSET Nat
        /\ \A q \in On(ls, From(reverse)) : 1 <= q /\ q <= Len(ls)
    BY <1>1 DEF On
  <2>3. /\ Stays(ls, sel, reverse) \in SUBSET Nat
        /\ \A q \in Stays(ls, sel, reverse) : 1 <= q /\ q <= Len(ls)
    BY <1>1, StaysPlaces
  <2> QED
    BY <2>1, <2>2, <2>3 DEF Side
<1>6. Fits(p, from, from) /\ to \o SubSeq(from, Len(from) + 1, Len(from)) = to
  BY <1>5, FitsItself
<1>7. Applies(ls, sel, reverse)
  BY <1>3, <1>4, <1>6 DEF Applies
<1>8. Result(ls, sel, reverse) = to
  BY <1>4, <1>6 DEF Result
<1>9. DoesJust(ls, sel, reverse)
  BY <1>1, <1>2, <1>8, StaysFile DEF DoesJust
<1> QED
  BY <1>7, <1>9 DEF ls

\* A patch action on a diff that is not stale is taken by git apply and does just
\* what was chosen, be it staging contiguous lines, or unstaging or discarding a
\* hunk; the one case left out is the unterminated line of ActionsExact.
THEOREM ActionsAlwaysExact == Spec => []ActionsExact
BY DiffShape, ShapeExact, PTL
==============================================================================
