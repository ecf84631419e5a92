--------------------------- MODULE SequenceLemmas ---------------------------
(***************************************************************************)
(* Lists that change at their ends, and what is in them.                   *)
(***************************************************************************)
EXTENDS Integers, FiniteSets, Sequences, SequencesExt, SequenceTheorems, FunctionTheorems, FiniteSetTheorems,
        WellFoundedInduction, TLAPS

\* A set of naturals that is not empty has a minimum.
LEMMA MinOfNaturals ==
    ASSUME NEW S \in SUBSET Nat, S # {}
    PROVE  Min(S) \in S /\ \A y \in S : Min(S) <= y
<1> DEFINE R == OpToRel(<, Nat)
<1>1. PICK least \in S : \A y \in S : ~ (<<y, least>> \in R)
  BY NatLessThanWellFounded, WFMin
<1>2. \A y \in S : least <= y
  <2> SUFFICES ASSUME NEW y \in S PROVE least <= y
    OBVIOUS
  <2>1. least \in Nat /\ y \in Nat
    OBVIOUS
  <2>2. ~ (y < least)
    BY <1>1, <2>1 DEF OpToRel
  <2> QED BY ONLY <2>1, <2>2
<1> QED BY <1>2 DEF Min

\* Its maximum, when it is bounded, is what is left below the bound least.
LEMMA MaxOfBounded ==
    ASSUME NEW S \in SUBSET Nat, S # {}, NEW n \in Nat, \A x \in S : x <= n
    PROVE  Max(S) \in S /\ \A y \in S : Max(S) >= y
<1> DEFINE Gaps == {n - x : x \in S}
<1>1. Gaps \in SUBSET Nat /\ Gaps # {}
  BY \A x \in S : x \in Nat /\ n - x \in Nat
<1>2. PICK x \in S : Min(Gaps) = n - x
  BY <1>1, MinOfNaturals
<1>3. ASSUME NEW y \in S PROVE x >= y
  <2>1. n - y \in Gaps
    OBVIOUS
  <2> HIDE DEF Gaps
  <2>2. n - x <= n - y
    BY <1>1, <1>2, <2>1, MinOfNaturals
  <2>3. x \in Nat /\ y \in Nat /\ n \in Nat
    OBVIOUS
  <2> QED BY ONLY <2>2, <2>3
<1> QED BY <1>3 DEF Max

\* The list that grew by one entry.
LEMMA RangeOfAppend ==
    ASSUME NEW S, NEW q \in Seq(S), NEW b
    PROVE  Range(Append(q, b)) = Range(q) \cup {b}
<1>1. /\ DOMAIN q = 1..Len(q) /\ DOMAIN Append(q, b) = 1..Len(q) + 1 /\ Len(q) \in Nat
      /\ \A i \in 1..Len(q) : Append(q, b)[i] = q[i]
      /\ Append(q, b)[Len(q) + 1] = b
  OBVIOUS
<1>2. ASSUME NEW x \in Range(Append(q, b)) PROVE x \in Range(q) \cup {b}
  BY <1>1, <1>2 DEF Range
<1>3. ASSUME NEW x \in Range(q) \cup {b} PROVE x \in Range(Append(q, b))
  <2>1. CASE x = b
    BY <1>1, <2>1, Len(q) + 1 \in 1..Len(q) + 1 DEF Range
  <2>2. CASE x \in Range(q)
    <3>1. PICK i \in 1..Len(q) : q[i] = x
      BY <1>1, <2>2 DEF Range
    <3>2. i \in 1..Len(q) + 1 /\ Append(q, b)[i] = x
      BY <1>1, <3>1
    <3> QED BY <1>1, <3>2 DEF Range
  <2> QED BY <1>3, <2>1, <2>2
<1> QED BY <1>2, <1>3

\* The list that lost its first entry.
LEMMA RangeOfTail ==
    ASSUME NEW S, NEW q \in Seq(S), q # <<>>, \A i, j \in 1..Len(q) : q[i] = q[j] => i = j
    PROVE  Range(Tail(q)) = Range(q) \ {Head(q)} /\ Head(q) \in Range(q)
<1>1. Len(Tail(q)) = Len(q) - 1 /\ \A i \in 1..Len(q) - 1 : Tail(q)[i] = q[i + 1]
  OBVIOUS
<1>2. \A i \in 1..Len(q) : i # 1 => i - 1 \in 1..Len(q) - 1 /\ Tail(q)[i - 1] = q[i]
  BY <1>1
<1>3. \A i \in 1..Len(q) - 1 : i + 1 \in 1..Len(q) /\ q[i + 1] # q[1]
  OBVIOUS
<1>4. Range(q) = {q[i] : i \in 1..Len(q)} /\ Range(Tail(q)) = {Tail(q)[i] : i \in 1..Len(q) - 1}
  <2>1. DOMAIN q = 1..Len(q) /\ DOMAIN Tail(q) = 1..Len(q) - 1
    OBVIOUS
  <2> QED BY <2>1, Zenon DEF Range
<1>5. Head(q) = q[1] /\ 1 \in 1..Len(q)
  OBVIOUS
<1>6. Range(Tail(q)) \subseteq Range(q) \ {Head(q)}
  BY <1>1, <1>3, <1>4, <1>5
<1>7. Range(q) \ {Head(q)} \subseteq Range(Tail(q))
  <2>1. ASSUME NEW i \in 1..Len(q), q[i] # q[1] PROVE q[i] \in {Tail(q)[j] : j \in 1..Len(q) - 1}
    <3>1. i - 1 \in 1..Len(q) - 1 /\ Tail(q)[i - 1] = q[i]
      BY <1>2, <2>1
    <3> QED BY <3>1
  <2> QED BY <1>4, <1>5, <2>1
<1> QED BY <1>4, <1>5, <1>6, <1>7

\* What RemoveAt leaves at which place.
LEMMA RemoveAtEffect ==
    ASSUME NEW S, NEW q \in Seq(S), NEW i \in 1..Len(q)
    PROVE  /\ RemoveAt(q, i) \in Seq(S) /\ Len(RemoveAt(q, i)) = Len(q) - 1
           /\ \A j \in 1..Len(q) - 1 : RemoveAt(q, i)[j] = IF j < i THEN q[j] ELSE q[j + 1]
<1> DEFINE a == SubSeq(q, 1, i - 1)
           b == SubSeq(q, i + 1, Len(q))
<1>1. Len(q) \in Nat /\ i \in Nat /\ i >= 1 /\ i <= Len(q) /\ \A j \in 1..Len(q) : q[j] \in S
  OBVIOUS
<1>2. a \in Seq(S) /\ Len(a) = i - 1 /\ \A j \in 1..i - 1 : a[j] = q[j]
  <2>1. \A j \in 1..i - 1 : q[j] \in S
    BY <1>1
  <2>2. /\ a \in Seq(S) /\ Len(a) = IF 1 <= i - 1 THEN i - 1 - 1 + 1 ELSE 0
        /\ \A j \in 1..i - 1 - 1 + 1 : a[j] = q[1 + j - 1]
    BY <1>1, <2>1, SubSeqProperties
  <2> HIDE DEF a
  <2> QED BY <1>1, <2>2
<1>3. b \in Seq(S) /\ Len(b) = Len(q) - i /\ \A j \in 1..Len(q) - i : b[j] = q[i + j]
  <2>1. \A j \in i + 1..Len(q) : q[j] \in S
    BY <1>1
  <2>2. /\ b \in Seq(S) /\ Len(b) = IF i + 1 <= Len(q) THEN Len(q) - (i + 1) + 1 ELSE 0
        /\ \A j \in 1..Len(q) - (i + 1) + 1 : b[j] = q[i + 1 + j - 1]
    BY <1>1, <2>1, SubSeqProperties
  <2> HIDE DEF b
  <2> QED BY <1>1, <2>2
<1>4. RemoveAt(q, i) = a \o b
  BY DEF RemoveAt
<1> HIDE DEF a, b
<1>5. /\ a \o b \in Seq(S) /\ Len(a \o b) = Len(q) - 1
      /\ \A j \in 1..Len(q) - 1 : (a \o b)[j] = IF j <= i - 1 THEN a[j] ELSE b[j - (i - 1)]
  BY <1>1, <1>2, <1>3, ConcatProperties
<1>6. ASSUME NEW j \in 1..Len(q) - 1 PROVE (a \o b)[j] = IF j < i THEN q[j] ELSE q[j + 1]
  <2>1. CASE j < i
    BY <1>1, <1>2, <1>5, <2>1
  <2>2. CASE ~(j < i)
    <3>1. j - (i - 1) \in 1..Len(q) - i /\ i + (j - (i - 1)) = j + 1
      BY <1>1, <2>2
    <3> QED BY <1>1, <1>3, <1>5, <2>2, <3>1
  <2> QED BY <2>1, <2>2
<1> QED BY <1>4, <1>5, <1>6

\* RemoveFirst takes one entry away, if there is one.
LEMMA RemoveFirstPlace ==
    ASSUME NEW S, NEW q \in Seq(S), NEW e
    PROVE  \/ e \notin Range(q) /\ RemoveFirst(q, e) = q
           \/ \E i \in 1..Len(q) : q[i] = e /\ RemoveFirst(q, e) = RemoveAt(q, i)
<1> DEFINE I == {i \in 1..Len(q) : q[i] = e}
<1>1. Range(q) = {q[i] : i \in 1..Len(q)}
  BY RangeEquality
<1>2. CASE I = {}
  BY <1>1, <1>2 DEF RemoveFirst
<1>3. CASE I # {}
  <2>1. Min(I) \in I
    BY <1>3, MinOfNaturals, I \in SUBSET Nat
  <2>2. RemoveFirst(q, e) = RemoveAt(q, Min(I))
    BY <1>3 DEF RemoveFirst, SelectInSeq
  <2> QED BY <2>1, <2>2
<1> QED BY <1>2, <1>3

LEMMA RemoveFirstEffect ==
    ASSUME NEW S, NEW q \in Seq(S), NEW e
    PROVE  /\ RemoveFirst(q, e) \in Seq(S)
           /\ e \notin Range(q) => RemoveFirst(q, e) = q
           /\ e \in Range(q) => Len(RemoveFirst(q, e)) = Len(q) - 1
           /\ Range(RemoveFirst(q, e)) \subseteq Range(q)
           /\ IsInjective(q) => /\ Range(RemoveFirst(q, e)) = Range(q) \ {e}
                                /\ IsInjective(RemoveFirst(q, e))
           /\ Last(q) # e /\ q # <<>> => Last(RemoveFirst(q, e)) = Last(q)
<1> DEFINE r == RemoveFirst(q, e)
<1>1. Range(q) = {q[i] : i \in 1..Len(q)} /\ DOMAIN q = 1..Len(q) /\ Len(q) \in Nat
  BY RangeEquality
<1>2. CASE e \notin Range(q) /\ r = q
  BY <1>2
<1>3. ASSUME NEW i \in 1..Len(q), q[i] = e, r = RemoveAt(q, i) PROVE
           /\ r \in Seq(S) /\ e \in Range(q) /\ Len(r) = Len(q) - 1 /\ Range(r) \subseteq Range(q)
           /\ IsInjective(q) => Range(r) = Range(q) \ {e} /\ IsInjective(r)
           /\ Last(q) # e /\ q # <<>> => Last(r) = Last(q)
  <2> HIDE DEF r
  <2>1. /\ r \in Seq(S) /\ Len(r) = Len(q) - 1
        /\ \A j \in 1..Len(q) - 1 : r[j] = IF j < i THEN q[j] ELSE q[j + 1]
    BY <1>3, RemoveAtEffect
  <2>2. e \in Range(q)
    BY <1>1, <1>3
  <2>3. Range(r) = {r[j] : j \in 1..Len(q) - 1} /\ DOMAIN r = 1..Len(q) - 1
    BY <2>1, RangeEquality
  <2>4. Range(r) \subseteq Range(q)
    BY <1>1, <2>1, <2>3, \A j \in 1..Len(q) - 1 : j \in 1..Len(q) /\ j + 1 \in 1..Len(q)
  <2>5. ASSUME IsInjective(q) PROVE Range(r) = Range(q) \ {e} /\ IsInjective(r)
    <3>1. \A j, k \in 1..Len(q) : q[j] = q[k] => j = k
      BY <1>1, <2>5 DEF IsInjective
    <3>2. \A j \in 1..Len(q) - 1 : r[j] # e
      BY <1>1, <1>3, <2>1, <3>1
    <3>3. ASSUME NEW k \in 1..Len(q), q[k] # e PROVE q[k] \in Range(r)
      <4>1. CASE k < i
        BY <1>1, <2>1, <2>3, <4>1, k \in 1..Len(q) - 1
      <4>2. CASE k > i
        <5>1. k - 1 \in 1..Len(q) - 1 /\ ~(k - 1 < i) /\ (k - 1) + 1 = k
          BY <1>1, <4>2
        <5>2. r[k - 1] = q[k]
          BY <2>1, <5>1
        <5> QED BY <2>3, <5>1, <5>2
      <4> QED BY <1>3, <3>3, <4>1, <4>2
    <3>4. ASSUME NEW j \in 1..Len(q) - 1, NEW k \in 1..Len(q) - 1, r[j] = r[k] PROVE j = k
      <4>1. PICK jj \in 1..Len(q) : r[j] = q[jj] /\ jj = IF j < i THEN j ELSE j + 1
        BY <1>1, <2>1, j \in 1..Len(q) /\ j + 1 \in 1..Len(q)
      <4>2. PICK kk \in 1..Len(q) : r[k] = q[kk] /\ kk = IF k < i THEN k ELSE k + 1
        BY <1>1, <2>1, k \in 1..Len(q) /\ k + 1 \in 1..Len(q)
      <4>3. jj = kk
        BY <3>1, <3>4, <4>1, <4>2
      <4> QED BY <4>1, <4>2, <4>3
    <3>5. Range(r) \subseteq Range(q) \ {e}
      BY <2>3, <2>4, <3>2
    <3>6. Range(q) \ {e} \subseteq Range(r)
      BY <1>1, <3>3
    <3>7. IsInjective(r)
      BY <2>3, <3>4 DEF IsInjective
    <3> QED BY <3>5, <3>6, <3>7
  <2>6. ASSUME Last(q) # e, q # <<>> PROVE Last(r) = Last(q)
    <3>1. i < Len(q) /\ Len(q) - 1 \in 1..Len(q) - 1 /\ ~(Len(q) - 1 < i)
      BY <1>1, <1>3, <2>6 DEF Last
    <3>2. r[Len(q) - 1] = q[(Len(q) - 1) + 1]
      BY <2>1, <3>1
    <3> QED BY <1>1, <2>1, <3>2 DEF Last
  <2> QED BY <2>1, <2>2, <2>4, <2>5, <2>6
<1> QED BY <1>2, <1>3, RemoveFirstPlace

\* A list without repeats is as long as what it lists.
LEMMA InjectiveCounts ==
    ASSUME NEW S, NEW q \in Seq(S), IsInjective(q)
    PROVE  Cardinality(Range(q)) = Len(q)
<1>1. q \in [1..Len(q) -> Range(q)] /\ Len(q) \in Nat /\ DOMAIN q = 1..Len(q)
  BY SeqOfRange, LenProperties
<1>2. q \in Bijection(1..Len(q), Range(q))
  BY <1>1, Fun_IsBij DEF IsInjective, Range
<1> QED BY <1>1, <1>2, FS_CountingElements DEF ExistsBijection


\* It stays without repeats when what it did not list is put at its end.
LEMMA InjectiveAppend ==
    ASSUME NEW S, NEW q \in Seq(S), IsInjective(q), NEW b, b \notin Range(q)
    PROVE  IsInjective(Append(q, b))
<1>1. /\ DOMAIN q = 1..Len(q) /\ DOMAIN Append(q, b) = 1..Len(q) + 1 /\ Len(q) \in Nat
      /\ \A i \in 1..Len(q) : Append(q, b)[i] = q[i]
      /\ Append(q, b)[Len(q) + 1] = b
  OBVIOUS
<1>2. /\ \A i, j \in 1..Len(q) : q[i] = q[j] => i = j
      /\ \A i \in 1..Len(q) : q[i] # b
  BY <1>1 DEF IsInjective, Range
<1>3. ASSUME NEW i \in 1..Len(q) + 1, NEW j \in 1..Len(q) + 1, Append(q, b)[i] = Append(q, b)[j]
      PROVE  i = j
  <2>1. (i \in 1..Len(q) \/ i = Len(q) + 1) /\ (j \in 1..Len(q) \/ j = Len(q) + 1)
    BY <1>1
  <2> QED BY <1>1, <1>2, <1>3, <2>1
<1> QED BY <1>1, <1>3 DEF IsInjective
=============================================================================
