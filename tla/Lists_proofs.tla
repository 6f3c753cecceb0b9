---------------------------- MODULE Lists_proofs ----------------------------
(***************************************************************************)
(* What the operators on lists return, for lists of any values: the lemmas  *)
(* Queue_proofs and Vessels_proofs cite.                                    *)
(***************************************************************************)
EXTENDS Lists, SequenceTheorems, FiniteSetTheorems, WellFoundedInduction, TLAPS

(* How many members of K are not above i. *)
Rank(K, i) == Cardinality({j \in K : j =< i})

(* A member's rank is one of 1..Cardinality(K) and grows with the member. *)
LEMMA RankFacts ==
  ASSUME NEW K \in SUBSET Nat, IsFiniteSet(K)
  PROVE  /\ \A i \in K : Rank(K, i) \in 1..Cardinality(K)
         /\ \A i, j \in K : i < j => Rank(K, i) < Rank(K, j)
<1> DEFINE Upto(i) == {j \in K : j =< i}
<1>1. \A i \in K : IsFiniteSet(Upto(i)) /\ Cardinality(Upto(i)) =< Cardinality(K)
  <2> TAKE i \in K
  <2>1. Upto(i) \in SUBSET K  OBVIOUS
  <2> QED BY <2>1, FS_Subset
<1>2. \A i \in K : Cardinality(Upto(i)) \in Nat /\ Cardinality(K) \in Nat
  BY <1>1, FS_CardinalityType
<1>3. \A i \in K : Cardinality(Upto(i)) # 0
  BY <1>1, FS_EmptySet
<1>4. ASSUME NEW i \in K, NEW j \in K, i < j
      PROVE  Cardinality(Upto(i)) < Cardinality(Upto(j))
  <2>1. Upto(i) \in SUBSET (Upto(j) \ {j})
    <3>1. \A m \in K : m \in Nat  OBVIOUS
    <3>2. \A m \in K : m =< i => m =< j /\ m # j  BY <3>1, <1>4
    <3> QED BY <3>2
  <2>2. IsFiniteSet(Upto(j) \ {j}) /\ Cardinality(Upto(j) \ {j}) = Cardinality(Upto(j)) - 1
    BY <1>1, FS_RemoveElement
  <2>3. Cardinality(Upto(i)) =< Cardinality(Upto(j)) - 1
    BY <2>1, <2>2, FS_Subset
  <2> QED BY <2>3, <1>2
<1> QED BY <1>1, <1>2, <1>3, <1>4 DEF Rank

(* Every finite set of numbers has an enumeration in increasing order. *)
LEMMA AscendingExists ==
  ASSUME NEW K \in SUBSET Nat, IsFiniteSet(K)
  PROVE  \E p \in [1..Cardinality(K) -> K] :
           \A i, j \in 1..Cardinality(K) : i < j => p[i] < p[j]
<1> DEFINE n == Cardinality(K)
           r == [i \in K |-> Rank(K, i)]
           p == [k \in 1..n |-> CHOOSE i \in K : r[i] = k]
<1>1. n \in Nat /\ IsFiniteSet(1..n) /\ Cardinality(1..n) = n
  BY FS_CardinalityType, FS_Interval
<1>2. r \in [K -> 1..n]
  BY RankFacts
<1>3. \A i, j \in K : r[i] = r[j] => i = j
  BY RankFacts, <1>1
<1>4. r \in Injection(K, 1..n)
  BY <1>2, <1>3 DEF Injection, IsInjective
<1>5. r \in Surjection(K, 1..n)
  BY <1>4, <1>1, FS_Injection
<1>6. \A k \in 1..n : \E i \in K : r[i] = k
  BY <1>5 DEF Surjection
<1>7. \A k \in 1..n : p[k] \in K /\ r[p[k]] = k
  BY <1>6
<1>8. p \in [1..n -> K]
  BY <1>7
<1>9. \A k, l \in 1..n : k < l => p[k] < p[l]
  <2> SUFFICES ASSUME NEW k \in 1..n, NEW l \in 1..n, k < l, ~(p[k] < p[l])
               PROVE  FALSE
    OBVIOUS
  <2> HIDE DEF p, r
  <2>1. p[k] \in K /\ p[l] \in K /\ r[p[k]] = k /\ r[p[l]] = l
    BY <1>7
  <2>2. p[k] # p[l]
    BY <2>1
  <2>3. p[l] < p[k]
    <3>1. p[k] \in Nat /\ p[l] \in Nat  BY <2>1
    <3> QED BY <3>1, <2>2
  <2>4. Rank(K, p[l]) < Rank(K, p[k])
    BY <2>1, <2>3, RankFacts
  <2>5. r[p[l]] < r[p[k]]
    BY <2>4, <2>1 DEF r
  <2> QED BY <2>5, <2>1
<1> QED BY <1>8, <1>9

(* Ascending(K) lists K without repetition, in increasing order. *)
LEMMA AscendingFacts ==
  ASSUME NEW K \in SUBSET Nat, IsFiniteSet(K)
  PROVE  /\ Cardinality(K) \in Nat
         /\ \A i \in 1..Cardinality(K) : Ascending(K)[i] \in K
         /\ \A i, j \in 1..Cardinality(K) : i < j => Ascending(K)[i] < Ascending(K)[j]
<1>1. /\ Ascending(K) \in [1..Cardinality(K) -> K]
      /\ \A i, j \in 1..Cardinality(K) : i < j => Ascending(K)[i] < Ascending(K)[j]
  BY AscendingExists DEF Ascending
<1> QED BY <1>1, FS_CardinalityType

-----------------------------------------------------------------------------
(***************************************************************************)
(* Lists, whatever their elements: what the operators make of them.         *)
(***************************************************************************)
IsList(s) == Len(s) \in Nat /\ s = [i \in 1..Len(s) |-> s[i]]

Distinct(s) == \A i, j \in DOMAIN s : i # j => s[i] # s[j]

(* A list is a sequence of its members. *)
LEMMA ListIsSeq ==
  ASSUME NEW s, IsList(s), NEW S, \A i \in 1..Len(s) : s[i] \in S
  PROVE  s \in Seq(S)
BY SeqDef DEF IsList

(* Every sequence is a list. *)
LEMMA SeqIsList ==
  ASSUME NEW S, NEW s \in Seq(S)
  PROVE  IsList(s)
BY LenProperties DEF IsList

(* A function on 1..n is a list of length n. *)
LEMMA FunctionIsList ==
  ASSUME NEW n \in Nat, NEW s, s = [i \in 1..n |-> s[i]]
  PROVE  IsList(s) /\ Len(s) = n
<1> DEFINE S == {s[i] : i \in 1..n}
<1>1. s \in [1..n -> S]  OBVIOUS
<1>2. s \in Seq(S)  BY <1>1, SeqDef
<1>3. DOMAIN s = 1..n /\ DOMAIN s = 1..Len(s) /\ Len(s) \in Nat  BY <1>1, <1>2, LenProperties
<1>4. Len(s) = n  BY <1>3
<1> QED BY <1>4, <1>3, <1>2, SeqIsList

(* push_back() of MMSI_List, MMSI_ListNames and the dialog's rows. *)
LEMMA AppendList ==
  ASSUME NEW s, IsList(s), NEW e
  PROVE  LET t == Append(s, e)
         IN /\ IsList(t) /\ Len(t) = Len(s) + 1
            /\ \A i \in 1..Len(s) : t[i] = s[i]
            /\ t[Len(s) + 1] = e
<1> DEFINE S == {s[i] : i \in 1..Len(s)} \union {e}
<1>1. s \in Seq(S) /\ e \in S  BY ListIsSeq
<1> HIDE DEF S
<1>2. /\ Append(s, e) \in Seq(S)
      /\ Len(Append(s, e)) = Len(s) + 1
      /\ \A i \in 1..Len(s) : Append(s, e)[i] = s[i]
      /\ Append(s, e)[Len(s) + 1] = e
  BY <1>1, AppendProperties
<1>3. IsList(Append(s, e))  BY <1>2, SeqIsList
<1> QED BY <1>2, <1>3

(* erase() at a row: the rows below it move up by one. *)
LEMMA RemoveAtList ==
  ASSUME NEW s, IsList(s), NEW r \in 1..Len(s)
  PROVE  LET t == RemoveAt(s, r)
         IN /\ IsList(t) /\ Len(t) = Len(s) - 1
            /\ \A i \in 1..Len(t) : t[i] = IF i < r THEN s[i] ELSE s[i + 1]
<1> DEFINE S == {s[i] : i \in 1..Len(s)}
           a == SubSeq(s, 1, r - 1)
           b == SubSeq(s, r + 1, Len(s))
<1>1. r \in Nat /\ Len(s) \in Nat /\ 1 =< r /\ r =< Len(s)
  BY DEF IsList
<1>2. a \in Seq(S) /\ Len(a) = r - 1 /\ \A i \in 1..r - 1 : a[i] = s[i]
  <2>1. \A i \in 1..r - 1 : s[i] \in S  BY <1>1
  <2> HIDE DEF S
  <2> QED BY <1>1, <2>1, SubSeqProperties
<1>3. b \in Seq(S) /\ Len(b) = Len(s) - r /\ \A i \in 1..Len(s) - r : b[i] = s[r + i]
  <2>1. \A i \in r + 1..Len(s) : s[i] \in S  BY <1>1
  <2> HIDE DEF S
  <2> QED BY <1>1, <2>1, SubSeqProperties
<1> HIDE DEF a, b, S
<1>4. /\ a \o b \in Seq(S)
      /\ Len(a \o b) = Len(s) - 1
      /\ \A i \in 1..Len(s) - 1 : (a \o b)[i] = IF i =< r - 1 THEN a[i] ELSE b[i - (r - 1)]
  <2>1. Len(a) + Len(b) = Len(s) - 1  BY <1>1, <1>2, <1>3
  <2>2. /\ a \o b \in Seq(S)
        /\ Len(a \o b) = Len(a) + Len(b)
        /\ \A i \in 1..Len(a) + Len(b) :
             (a \o b)[i] = IF i =< Len(a) THEN a[i] ELSE b[i - Len(a)]
    BY <1>2, <1>3, ConcatProperties
  <2> QED BY <2>1, <2>2, <1>2
<1>5. RemoveAt(s, r) = a \o b
  BY DEF RemoveAt, a, b
<1>6. \A i \in 1..Len(s) - 1 : (a \o b)[i] = IF i < r THEN s[i] ELSE s[i + 1]
  BY <1>1, <1>2, <1>3, <1>4
<1> QED BY <1>4, <1>5, <1>6, SeqIsList

(* An edit of one row changes this row alone. *)
LEMMA ReplaceAtList ==
  ASSUME NEW s, IsList(s), NEW r \in 1..Len(s), NEW e
  PROVE  LET t == ReplaceAt(s, r, e)
         IN /\ IsList(t) /\ Len(t) = Len(s)
            /\ \A i \in 1..Len(s) : t[i] = IF i = r THEN e ELSE s[i]
<1> DEFINE S == {s[i] : i \in 1..Len(s)} \union {e}
<1>1. s \in Seq(S) /\ e \in S  BY ListIsSeq
<1> HIDE DEF S
<1>2. /\ ReplaceAt(s, r, e) \in Seq(S)
      /\ Len(ReplaceAt(s, r, e)) = Len(s)
      /\ \A i \in 1..Len(s) : ReplaceAt(s, r, e)[i] = IF i = r THEN e ELSE s[i]
  BY <1>1, ExceptSeq DEF ReplaceAt
<1>3. IsList(ReplaceAt(s, r, e))  BY <1>2, SeqIsList
<1> QED BY <1>2, <1>3

(* Two lists with the same elements at the same places are the same. *)
LEMMA ListEqual ==
  ASSUME NEW s, IsList(s), NEW t, IsList(t), Len(s) = Len(t),
         \A i \in 1..Len(s) : s[i] = t[i]
  PROVE  s = t
BY DEF IsList

(* A new member leaves a list without duplicates. *)
LEMMA DistinctAppend ==
  ASSUME NEW s, IsList(s), Distinct(s), NEW e, ~Contains(s, e)
  PROVE  Distinct(Append(s, e))
BY AppendList DEF IsList, Distinct, Contains

(* So does a removal. *)
LEMMA DistinctRemoveAt ==
  ASSUME NEW s, IsList(s), Distinct(s), NEW r \in 1..Len(s)
  PROVE  Distinct(RemoveAt(s, r))
<1> DEFINE t == RemoveAt(s, r)
<1>1. Len(s) \in Nat /\ DOMAIN s = 1..Len(s)
  BY DEF IsList
<1>2. /\ IsList(t) /\ Len(t) = Len(s) - 1
      /\ \A i \in 1..Len(t) : t[i] = IF i < r THEN s[i] ELSE s[i + 1]
  BY RemoveAtList
<1> HIDE DEF t
<1>3. DOMAIN t = 1..Len(s) - 1
  BY <1>2 DEF IsList
<1>4. r \in Nat
  BY <1>1
<1>5. ASSUME NEW i \in 1..Len(s) - 1, NEW j \in 1..Len(s) - 1, i # j
      PROVE  t[i] # t[j]
  BY <1>1, <1>2, <1>4, <1>5 DEF Distinct
<1>6. Distinct(t)  BY <1>3, <1>5 DEF Distinct
<1> QED BY <1>6 DEF t

(* So does the replacement of a row by what no other row has. *)
LEMMA DistinctReplaceAt ==
  ASSUME NEW s, IsList(s), Distinct(s), NEW r \in 1..Len(s), NEW e,
         \A i \in DOMAIN s \ {r} : s[i] # e
  PROVE  Distinct(ReplaceAt(s, r, e))
BY ReplaceAtList DEF IsList, Distinct

(* A filter keeps elements of the list, each of them once. *)
LEMMA KeptList ==
  ASSUME NEW s, IsList(s), NEW K \in SUBSET (1..Len(s))
  PROVE  /\ IsFiniteSet(K) /\ Cardinality(K) \in Nat
         /\ IsList(Kept(s, K)) /\ Len(Kept(s, K)) = Cardinality(K)
         /\ \A i \in 1..Cardinality(K) :
              Ascending(K)[i] \in K /\ Kept(s, K)[i] = s[Ascending(K)[i]]
<1>1. IsFiniteSet(K) /\ K \in SUBSET Nat
  BY FS_Interval, FS_Subset DEF IsList
<1>2. Cardinality(K) \in Nat /\ \A i \in 1..Cardinality(K) : Ascending(K)[i] \in K
  BY <1>1, AscendingFacts
<1>3. IsList(Kept(s, K)) /\ Len(Kept(s, K)) = Cardinality(K)
  BY <1>2, FunctionIsList DEF Kept
<1> QED BY <1>1, <1>2, <1>3 DEF Kept

(* What is kept of a list without duplicates has none. *)
LEMMA DistinctKept ==
  ASSUME NEW s, IsList(s), Distinct(s), NEW K \in SUBSET (1..Len(s))
  PROVE  Distinct(Kept(s, K))
<1>1. IsFiniteSet(K) /\ K \in SUBSET Nat
  BY KeptList DEF IsList
<1>2. \A i, j \in 1..Cardinality(K) : i # j => Ascending(K)[i] # Ascending(K)[j]
  <2> SUFFICES ASSUME NEW i \in 1..Cardinality(K), NEW j \in 1..Cardinality(K), i < j
               PROVE  Ascending(K)[i] # Ascending(K)[j]
    BY <1>1, FS_CardinalityType
  <2>1. Ascending(K)[i] < Ascending(K)[j] /\ Ascending(K)[i] \in Nat
    BY <1>1, AscendingFacts
  <2> QED BY <2>1
<1> QED BY <1>2, KeptList DEF Distinct, IsList

-----------------------------------------------------------------------------
(***************************************************************************)
(* Induction, by the least number for which a claim fails.                  *)
(***************************************************************************)

(* A set of numbers has a least one. *)
LEMMA LeastNumber ==
  ASSUME NEW K \in SUBSET Nat, K # {}
  PROVE  \E i \in K : \A j \in K : i =< j
<1>1. PICK i \in K : \A j \in K : ~(<<j, i>> \in OpToRel(<, Nat))
  BY NatLessThanWellFounded, WFMin
<1>2. \A j \in K : ~(j < i)
  BY <1>1 DEF OpToRel
<1>3. \A j \in K : j \in Nat
  OBVIOUS
<1> QED BY <1>2, <1>3

(* The numbers from 1 to n, in increasing order. *)
LEMMA AscendingAll ==
  ASSUME NEW n \in Nat
  PROVE  /\ Cardinality(1..n) = n
         /\ \A i \in 1..n : Ascending(1..n)[i] = i
<1> DEFINE p == Ascending(1..n)
<1>1. IsFiniteSet(1..n) /\ Cardinality(1..n) = n /\ (1..n) \in SUBSET Nat
  BY FS_Interval
<1>2. /\ \A i \in 1..n : p[i] \in 1..n
      /\ \A i, j \in 1..n : i < j => p[i] < p[j]
  BY <1>1, AscendingFacts
<1> HIDE DEF p
<1>3. \A i \in 1..n : ~(p[i] < i)
  <2> DEFINE K == {i \in 1..n : p[i] < i}
  <2> SUFFICES ASSUME K # {} PROVE FALSE
    OBVIOUS
  <2>1. PICK i \in K : \A j \in K : i =< j
    <3>1. K \in SUBSET Nat  OBVIOUS
    <3> HIDE DEF K
    <3> QED BY <3>1, LeastNumber
  <2>2. i \in 1..n /\ p[i] < i /\ p[i] \in 1..n
    BY <1>2
  <2>3. i - 1 \in 1..n /\ ~(i - 1 \in K)
    BY <2>1, <2>2
  <2>4. ~(p[i - 1] < i - 1) /\ p[i - 1] < p[i] /\ p[i - 1] \in 1..n
    BY <1>2, <2>2, <2>3
  <2> QED BY <2>2, <2>4
<1>4. \A i \in 1..n : ~(p[i] > i)
  <2> DEFINE K == {k \in 1..n : p[n + 1 - k] > n + 1 - k}
  <2> SUFFICES ASSUME K # {} PROVE FALSE
    <3> SUFFICES ASSUME NEW i \in 1..n, p[i] > i PROVE K # {}
      OBVIOUS
    <3>1. n + 1 - i \in 1..n /\ n + 1 - (n + 1 - i) = i
      OBVIOUS
    <3>2. n + 1 - i \in K
      BY <3>1
    <3> QED BY <3>2
  <2>1. PICK k \in K : \A j \in K : k =< j
    <3>1. K \in SUBSET Nat  OBVIOUS
    <3> HIDE DEF K
    <3> QED BY <3>1, LeastNumber
  <2> DEFINE i == n + 1 - k
  <2>2. k \in 1..n /\ i \in 1..n /\ p[i] > i /\ p[i] \in 1..n
    BY <1>2
  <2>3. k - 1 \in 1..n /\ ~(k - 1 \in K) /\ n + 1 - (k - 1) = i + 1
    BY <2>1, <2>2
  <2>4. i + 1 \in 1..n /\ ~(p[i + 1] > i + 1)
    BY <2>2, <2>3
  <2>5. p[i] < p[i + 1] /\ p[i + 1] \in 1..n
    BY <1>2, <2>2, <2>4
  <2> QED BY <2>2, <2>4, <2>5
<1>5. \A i \in 1..n : p[i] = i
  BY <1>2, <1>3, <1>4
<1> QED BY <1>1, <1>5 DEF p

(* A filter that drops nothing leaves the list as it is. *)
LEMMA KeptAll ==
  ASSUME NEW s, IsList(s)
  PROVE  Kept(s, 1..Len(s)) = s
<1>1. Len(s) \in Nat
  BY DEF IsList
<1>2. Kept(s, 1..Len(s)) = [i \in 1..Len(s) |-> s[i]]
  BY <1>1, AscendingAll DEF Kept
<1> QED BY <1>2 DEF IsList

(* A sequence of one element. *)
Single(e) == e = <<e[1]>>

(* Sequences of one element each, joined, are the list of the elements. *)
LEMMA FlattenSingles ==
  ASSUME NEW s, IsList(s), \A i \in 1..Len(s) : Single(s[i])
  PROVE  FlattenSeq(s) = [i \in 1..Len(s) |-> s[i][1]]
<1> DEFINE n == Len(s)
           g == [i \in 1..n |-> [k \in 1..i |-> s[k][1]]]
           Flat(f) == f = [i \in 1..n |-> IF i = 1 THEN s[i] ELSE f[i - 1] \o s[i]]
<1>1. n \in Nat /\ s = [i \in 1..n |-> s[i]]
  BY DEF IsList
<1>2. CASE n = 0
  <2>1. s = [i \in 1..n |-> s[i][1]]
    BY <1>1, <1>2
  <2> QED BY <1>2, <2>1 DEF FlattenSeq
<1>3. CASE n # 0
  <2>1. FlattenSeq(s) = (CHOOSE f : Flat(f))[n]
    BY <1>3 DEF FlattenSeq
  <2>2. ASSUME NEW i \in 1..n
        PROVE  g[i] = IF i = 1 THEN s[i] ELSE g[i - 1] \o s[i]
    <3>1. s[i] = <<s[i][1]>>
      BY DEF Single
    <3>2. CASE i = 1
      <4>1. [k \in 1..1 |-> s[k][1]] = <<s[1][1]>>
        OBVIOUS
      <4> QED BY <3>1, <3>2, <4>1
    <3>3. CASE i # 1
      <4>1. i - 1 \in 1..n /\ g[i - 1] = [k \in 1..i - 1 |-> s[k][1]]
        BY <1>1, <3>3
      <4>2. [k \in 1..i - 1 |-> s[k][1]] \o <<s[i][1]>> = [k \in 1..i |-> s[k][1]]
        <5> DEFINE a == [k \in 1..i - 1 |-> s[k][1]]
                   t == Append(a, s[i][1])
        <5>1. i - 1 \in Nat /\ a = [k \in 1..i - 1 |-> a[k]]
          BY <4>1
        <5>2. IsList(a) /\ Len(a) = i - 1
          BY <5>1, FunctionIsList
        <5>3. /\ IsList(t) /\ Len(t) = i
              /\ \A k \in 1..i - 1 : t[k] = a[k]
              /\ t[i] = s[i][1]
          <6> HIDE DEF a
          <6> QED BY <5>1, <5>2, AppendList
        <5>4. t = [k \in 1..i |-> s[k][1]]
          <6>1. \A k \in 1..i : k \in 1..i - 1 \/ k = i
            OBVIOUS
          <6>2. \A k \in 1..i - 1 : a[k] = s[k][1]
            OBVIOUS
          <6> HIDE DEF a, t
          <6>3. \A k \in 1..i : t[k] = s[k][1]
            BY <5>3, <6>1, <6>2
          <6> QED BY <5>3, <6>3 DEF IsList
        <5>5. a \o <<s[i][1]>> = t
          <6> DEFINE S == {a[k] : k \in 1..i - 1} \union {s[i][1]}
          <6>1. a \in Seq(S) /\ s[i][1] \in S
            BY <5>2, ListIsSeq
          <6> HIDE DEF a, S
          <6> QED BY <6>1, AppendIsConcat
        <5> QED BY <5>4, <5>5
      <4> QED BY <3>1, <3>3, <4>1, <4>2
    <3> QED BY <3>2, <3>3
  <2>3. Flat(g)
    BY <2>2
  <2> DEFINE f == CHOOSE h : Flat(h)
  <2>4. Flat(f)
    BY <2>3
  <2> HIDE DEF f, g
  <2>5. \A i \in 1..n : f[i] = g[i]
    <3> DEFINE K == {i \in 1..n : f[i] # g[i]}
    <3> SUFFICES ASSUME K # {} PROVE FALSE
      OBVIOUS
    <3>1. PICK i \in K : \A j \in K : i =< j
      <4>1. K \in SUBSET Nat  OBVIOUS
      <4> HIDE DEF K
      <4> QED BY <4>1, LeastNumber
    <3>2. f[i] = IF i = 1 THEN s[i] ELSE f[i - 1] \o s[i]
      BY <2>4
    <3>3. g[i] = IF i = 1 THEN s[i] ELSE g[i - 1] \o s[i]
      BY <2>2
    <3>4. i # 1 => f[i - 1] = g[i - 1]
      <4> HAVE i # 1
      <4>1. i - 1 \in 1..n /\ ~(i - 1 \in K)
        BY <1>1, <3>1
      <4> QED BY <4>1
    <3> QED BY <3>2, <3>3, <3>4
  <2>6. f[n] = g[n]
    BY <1>1, <1>3, <2>5
  <2>7. g[n] = [k \in 1..n |-> s[k][1]]
    BY <1>1, <1>3 DEF g
  <2> QED BY <2>1, <2>6, <2>7 DEF f
<1> QED BY <1>2, <1>3
=============================================================================
