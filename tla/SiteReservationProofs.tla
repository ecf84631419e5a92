----------------------- MODULE SiteReservationProofs -----------------------
(* Proofs about SiteReservation. *)
EXTENDS SiteReservation, FiniteSetTheorems, TLAPS

\* Every variable keeps its type.
THEOREM TypeCorrect == Spec => []TypeOK
<1>1. Init => TypeOK
  BY DEF Init, TypeOK
<1>2. TypeOK /\ [Next]_vars => TypeOK'
  <2> SUFFICES ASSUME TypeOK, [Next]_vars PROVE TypeOK'
    OBVIOUS
  <2>1. ASSUME NEW s \in Sites, NEW n \in Names, Reserve(s, n) PROVE TypeOK'
    BY <2>1 DEF TypeOK, Reserve
  <2>2. ASSUME NEW S \in SUBSET Sites, NEW F \in SUBSET Sites, Release(S, F) PROVE TypeOK'
    BY <2>2 DEF TypeOK, Release
  <2>3. CASE UNCHANGED vars
    BY <2>3 DEF TypeOK, vars
  <2> QED BY <2>1, <2>2, <2>3 DEF Next
<1> QED BY <1>1, <1>2, PTL DEF Spec

\* One more row in a set raises what it has in common with another by at most one.
LEMMA RoomForOne ==
    ASSUME NEW A, IsFiniteSet(A), NEW B, NEW x, NEW k \in Nat,
           Cardinality(A \cap B) < k
    PROVE  Cardinality((A \cup {x}) \cap B) <= k
<1>1. IsFiniteSet(A \cap B)
  BY FS_Intersection
<1>2. Cardinality(A \cap B) \in Nat
  BY <1>1, FS_CardinalityType
<1>3. CASE x \in B /\ x \notin A
  <2>1. (A \cup {x}) \cap B = (A \cap B) \cup {x} /\ x \notin A \cap B
    BY <1>3
  <2>2. Cardinality((A \cap B) \cup {x}) = Cardinality(A \cap B) + 1
    BY <1>1, <2>1, FS_AddElement
  <2> QED BY <1>2, <2>1, <2>2
<1>4. CASE x \notin B \/ x \in A
  <2>1. (A \cup {x}) \cap B = A \cap B
    BY <1>4
  <2> QED BY <1>2, <2>1
<1> QED BY <1>3, <1>4

\* No user, server or blueprint limit is exceeded by the rows that count.
THEOREM CapsHold == ASSUME SitesFinite, CapsProper PROVE Spec => []WithinCaps
<1>1. Init => WithinCaps
  <2> SUFFICES ASSUME Init, NEW cap \in Caps PROVE Cardinality(reserved \cap cap[1]) <= cap[2]
    BY DEF WithinCaps
  <2>1. reserved \cap cap[1] = {}
    BY DEF Init
  <2>2. cap[2] \in Nat
    BY DEF CapsProper
  <2> QED BY <2>1, <2>2, FS_EmptySet
<1>2. TypeOK /\ WithinCaps /\ [Next]_vars => WithinCaps'
  <2> SUFFICES ASSUME TypeOK, WithinCaps, [Next]_vars, NEW cap \in Caps
               PROVE  Cardinality(reserved' \cap cap[1]) <= cap[2]
    BY DEF WithinCaps
  <2>1. IsFiniteSet(reserved) /\ cap[2] \in Nat
    BY FS_Subset DEF TypeOK, SitesFinite, CapsProper
  <2>2. Cardinality(reserved \cap cap[1]) <= cap[2]
    BY DEF WithinCaps
  <2>3. ASSUME NEW s \in Sites, NEW n \in Names, Reserve(s, n)
        PROVE  Cardinality(reserved' \cap cap[1]) <= cap[2]
    <3>1. CASE s \in cap[1]
      BY <2>1, <2>3, <3>1, RoomForOne DEF Reserve, RoomFor
    <3>2. CASE s \notin cap[1]
      <4>1. reserved' \cap cap[1] = reserved \cap cap[1]
        BY <2>3, <3>2 DEF Reserve
      <4> QED BY <2>2, <4>1
    <3> QED BY <3>1, <3>2
  <2>4. ASSUME NEW S \in SUBSET Sites, NEW F \in SUBSET Sites, Release(S, F)
        PROVE  Cardinality(reserved' \cap cap[1]) <= cap[2]
    <3>1. reserved' \cap cap[1] \subseteq reserved \cap cap[1]
      BY <2>4 DEF Release
    <3>2. IsFiniteSet(reserved \cap cap[1])
      BY <2>1, FS_Intersection
    <3>3. /\ Cardinality(reserved' \cap cap[1]) <= Cardinality(reserved \cap cap[1])
          /\ Cardinality(reserved' \cap cap[1]) \in Nat
          /\ Cardinality(reserved \cap cap[1]) \in Nat
      BY <3>1, <3>2, FS_Subset, FS_CardinalityType
    <3> QED BY <2>1, <2>2, <3>3
  <2>5. CASE UNCHANGED vars
    BY <2>2, <2>5 DEF vars
  <2> QED BY <2>3, <2>4, <2>5 DEF Next
<1> QED BY <1>1, <1>2, TypeCorrect, PTL DEF Spec

\* A row with a slot holds a subdomain, and no two rows hold the same one.
THEOREM NamesHold == ASSUME NamesProper PROVE Spec => []NamesExclusive
<1>1. Init => NamesExclusive
  BY DEF Init, NamesExclusive
<1>2. TypeOK /\ NamesExclusive /\ [Next]_vars => NamesExclusive'
  <2> SUFFICES ASSUME TypeOK, NamesExclusive, [Next]_vars PROVE NamesExclusive'
    OBVIOUS
  <2>1. ASSUME NEW s \in Sites, NEW n \in Names, Reserve(s, n) PROVE NamesExclusive'
    BY <2>1 DEF TypeOK, NamesExclusive, Reserve, NamesProper
  <2>2. ASSUME NEW S \in SUBSET Sites, NEW F \in SUBSET Sites, Release(S, F)
        PROVE  NamesExclusive'
    BY <2>2 DEF TypeOK, NamesExclusive, Release
  <2>3. CASE UNCHANGED vars
    BY <2>3 DEF NamesExclusive, vars
  <2> QED BY <2>1, <2>2, <2>3 DEF Next
<1> QED BY <1>1, <1>2, TypeCorrect, PTL DEF Spec

\* A slot that was given back is never taken again by the same row.
THEOREM SlotsHold == Spec => []SlotsEndOnce
<1>1. Init => SlotsEndOnce
  BY DEF Init, SlotsEndOnce
<1>2. SlotsEndOnce /\ [Next]_vars => SlotsEndOnce'
  BY DEF SlotsEndOnce, Next, vars, Reserve, Release
<1> QED BY <1>1, <1>2, PTL DEF Spec
=============================================================================
