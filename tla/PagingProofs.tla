---------------------------- MODULE PagingProofs ----------------------------
(***************************************************************************)
(* The loss bound of Paging for every listing, page size and number of     *)
(* changes.  The bound alone is not inductive: while the walk goes on it   *)
(* is the items already passed over (Lost) that are counted, and that a    *)
(* finished walk has passed every place needs the places to be numbered    *)
(* without a gap, for an empty page to mean the end.                       *)
(***************************************************************************)
EXTENDS Paging, FiniteSetTheorems, TLAPS

\* Items listed from the start and not deleted have a place.
StillListed == \A i \in Initial \ gone : rank[i] > 0

\* A walk that ended without a gap of its own has passed every place.
DonePassedAll == status = "done" /\ gaps = {} => count <= upto

IInv ==
    /\ TypeOK
    /\ Numbered(rank, count)
    /\ StillListed
    /\ DonePassedAll
    /\ Cardinality(Lost) <= removed \/ gaps # {}

-----------------------------------------------------------------------------
\* The items lost are finitely many, so their number is a natural one.
LEMMA LostFinite ==
    ASSUME NEW S \in SUBSET Items
    PROVE  IsFiniteSet(S) /\ Cardinality(S) \in Nat
  BY PagingAssumption, FS_Subset, FS_CardinalityType

\* A set of lost items that has not grown is still within the bound.
LEMMA Shrinks ==
    ASSUME NEW S \in SUBSET Items, NEW U \in SUBSET S, NEW n \in Nat,
           Cardinality(S) <= n
    PROVE  Cardinality(U) <= n
  <1>1. IsFiniteSet(S) /\ Cardinality(S) \in Nat /\ Cardinality(U) \in Nat
    BY LostFinite
  <1>2. Cardinality(U) <= Cardinality(S)
    BY <1>1, FS_Subset
  <1> QED  BY <1>1, <1>2

\* Adding one item raises the number lost by at most one.
LEMMA GrowsByOne ==
    ASSUME NEW S \in SUBSET Items, NEW U \in SUBSET Items, NEW x \in Items,
           U \subseteq S \cup {x}, NEW n \in Nat, Cardinality(S) <= n
    PROVE  Cardinality(U) <= n + 1
  <1>1. IsFiniteSet(S) /\ Cardinality(S) \in Nat
    BY LostFinite
  <1>2. Cardinality(S \cup {x}) <= Cardinality(S) + 1
    BY <1>1, FS_AddElement
  <1>3. S \cup {x} \in SUBSET Items
    OBVIOUS
  <1>4. Cardinality(S \cup {x}) \in Nat
    BY <1>3, LostFinite
  <1>5. Cardinality(S \cup {x}) <= n + 1
    BY <1>1, <1>2, <1>4
  <1> QED  BY <1>3, <1>5, Shrinks

\* An empty page means that the listing has no place left to ask for.
LEMMA EmptyPageIsTheEnd ==
    ASSUME TypeOK, Numbered(rank, count), Page = {}
    PROVE  count <= upto
  <1>1. SUFFICES ASSUME count > upto PROVE FALSE
    BY DEF TypeOK
  <1>2. upto + 1 \in 1..count
    BY <1>1 DEF TypeOK
  <1>3. PICK i \in Items : rank[i] = upto + 1
    BY <1>2 DEF Numbered
  <1>4. i \in Page
    BY <1>3, PagingAssumption DEF Page, TypeOK
  <1> QED  BY <1>4

-----------------------------------------------------------------------------
\* The initial states satisfy the inductive invariant.
LEMMA InitInv == Init => IInv
  <1> SUFFICES ASSUME Init PROVE IInv
    OBVIOUS
  <1>1. Cardinality(Initial) \in Nat
    BY PagingAssumption, LostFinite
  <1>2. TypeOK
    <2>1. count \in Nat /\ rank \in [Items -> 0..count]
      BY <1>1 DEF Init
    <2>2. rank \in [Items -> Nat]
      BY <2>1
    <2> QED  BY <2>1, <2>2 DEF Init, TypeOK
  <1>3. StillListed /\ DonePassedAll
    BY PagingAssumption DEF Init, StillListed, DonePassedAll
  <1>4. Lost = {}
    <2>1. \A i \in Initial : rank[i] > 0
      BY <1>3 DEF Init, StillListed
    <2>2. \A i \in Initial : rank[i] \in Nat
      BY <1>2, PagingAssumption DEF TypeOK
    <2>3. upto = 0
      BY DEF Init
    <2> QED  BY <2>1, <2>2, <2>3 DEF Lost
  <1>5. Cardinality(Lost) <= removed
    BY <1>4, FS_EmptySet DEF Init
  <1> QED  BY <1>2, <1>3, <1>5 DEF Init, IInv

\* A page read leaves no item behind: what lies before the next place and
\* was not handed over was behind already.
LEMMA ReadInv ==
    ASSUME IInv, UNCHANGED listing, upto' \in Nat,
           sent' = sent \cup Page, upto' <= upto + PageSize,
           gaps' = {} => gaps = {}
    PROVE  Cardinality(Lost') <= removed' \/ gaps' # {}
  <1>1. Lost' \subseteq Lost
    BY PagingAssumption DEF IInv, TypeOK, Lost, Page, listing
  <1>2. Lost \in SUBSET Items
    BY PagingAssumption DEF Lost
  <1>3. removed' = removed /\ removed \in Nat
    BY DEF IInv, TypeOK, listing
  <1> QED  BY <1>1, <1>2, <1>3, Shrinks DEF IInv

\* Every step preserves the inductive invariant.
LEMMA NextInv == IInv /\ [Next]_vars => IInv'
  <1> SUFFICES ASSUME IInv, [Next]_vars PROVE IInv'
    OBVIOUS
  <1> USE PagingAssumption
  <1>0. TypeOK /\ Numbered(rank, count) /\ StillListed /\ DonePassedAll
    BY DEF IInv
  <1>1. CASE NextLinked
    <2>1. TypeOK'
      BY <1>0, <1>1 DEF NextLinked, TypeOK, Page, listing
    <2>2. Numbered(rank, count)' /\ StillListed'
      BY <1>0, <1>1 DEF NextLinked, listing, Numbered, StillListed
    <2>3. DonePassedAll'
      <3>1. CASE Page = {}
        BY <1>0, <1>1, <3>1, EmptyPageIsTheEnd
           DEF NextLinked, listing, TypeOK, DonePassedAll
      <3>2. CASE Page # {}
        BY <1>0, <1>1, <3>2
           DEF NextLinked, listing, TypeOK, DonePassedAll, LastPage
      <3> QED  BY <3>1, <3>2
    <2>4. Cardinality(Lost') <= removed' \/ gaps' # {}
      BY <1>0, <1>1, <2>1, ReadInv DEF NextLinked, TypeOK
    <2> QED  BY <2>1, <2>2, <2>3, <2>4 DEF IInv
  <1>2. CASE NextTotal
    <2>1. TypeOK'
      BY <1>0, <1>2 DEF NextTotal, TypeOK, Page, listing
    <2>2. Numbered(rank, count)' /\ StillListed'
      BY <1>0, <1>2 DEF NextTotal, listing, Numbered, StillListed
    <2>3. DonePassedAll'
      <3>1. CASE Page = {}
        BY <1>0, <1>2, <3>1, EmptyPageIsTheEnd
           DEF NextTotal, listing, TypeOK, DonePassedAll
      <3>2. CASE Page # {}
        BY <1>0, <1>2, <3>2 DEF NextTotal, listing, TypeOK, DonePassedAll
      <3> QED  BY <3>1, <3>2
    <2>4. Cardinality(Lost') <= removed' \/ gaps' # {}
      BY <1>0, <1>2, <2>1, ReadInv DEF NextTotal, TypeOK
    <2> QED  BY <2>1, <2>2, <2>3, <2>4 DEF IInv
  <1>3. CASE Refused
    <2>1. TypeOK'
      BY <1>0, <1>3 DEF Refused, TypeOK, listing
    <2>2. Numbered(rank, count)' /\ StillListed'
      BY <1>0, <1>3 DEF Refused, listing, Numbered, StillListed
    <2>3. gaps' # {}
      BY <1>3 DEF Refused
    <2> QED  BY <2>1, <2>2, <2>3 DEF IInv, DonePassedAll
  <1>4. CASE NextWindow
    <2>1. Fetched \in 0..PageSize
      BY <1>0 DEF Fetched, TypeOK
    <2>2. TypeOK'
      BY <1>0, <1>4, <2>1 DEF NextWindow, TypeOK, Page, listing
    <2>3. Numbered(rank, count)' /\ StillListed'
      BY <1>0, <1>4 DEF NextWindow, listing, Numbered, StillListed
    <2>4. DonePassedAll'
      BY <1>0, <1>4 DEF NextWindow, listing, TypeOK, DonePassedAll, Fetched
    <2>5. CASE Fetched = 0
      <3>1. Lost' = Lost /\ removed' = removed /\ gaps' = gaps
        BY <1>4, <2>5 DEF NextWindow, listing, Lost
      <3> QED  BY <3>1, <2>2, <2>3, <2>4 DEF IInv
    <2>6. CASE Fetched # 0
      <3>1. Cardinality(Lost') <= removed' \/ gaps' # {}
        BY <1>0, <1>4, <2>1, <2>2, <2>6, ReadInv DEF NextWindow, TypeOK
      <3> QED  BY <3>1, <2>2, <2>3, <2>4 DEF IInv
    <2> QED  BY <2>5, <2>6
  <1>5. CASE FailPage
    <2>1. TypeOK' /\ DonePassedAll'
      BY <1>0, <1>5 DEF FailPage, TypeOK, listing, DonePassedAll
    <2>2. Numbered(rank, count)' /\ StillListed'
      BY <1>0, <1>5 DEF FailPage, listing, Numbered, StillListed
    <2>3. Lost' = Lost /\ removed' = removed /\ gaps' = gaps
      BY <1>5 DEF FailPage, listing, Lost
    <2> QED  BY <2>1, <2>2, <2>3 DEF IInv
  <1>6. ASSUME NEW i \in Items, NEW at \in 1..count + 1, Insert(i, at)
        PROVE  IInv'
    <2>1. TypeOK'
      BY <1>0, <1>6 DEF Insert, TypeOK
    <2>2. Numbered(rank, count)'
      <3>1. \A j \in Items : rank'[j] <= count'
        BY <1>0, <1>6 DEF Insert, TypeOK, Numbered
      <3>2. \A j, k \in Items : rank'[j] = rank'[k] /\ rank'[j] > 0 => j = k
        BY <1>0, <1>6 DEF Insert, TypeOK, Numbered
      <3>3. ASSUME NEW k \in 1..count' PROVE \E j \in Items : rank'[j] = k
        <4>1. CASE k = at
          BY <1>0, <1>6, <4>1 DEF Insert, TypeOK
        <4>2. CASE k < at
          <5>1. k \in 1..count
            BY <1>0, <1>6, <4>2 DEF Insert, TypeOK
          <5>2. PICK j \in Items : rank[j] = k
            BY <1>0, <5>1 DEF Numbered
          <5> QED  BY <1>0, <1>6, <4>2, <5>2 DEF Insert, TypeOK
        <4>3. CASE k > at
          <5>1. k - 1 \in 1..count
            BY <1>0, <1>6, <4>3 DEF Insert, TypeOK
          <5>2. PICK j \in Items : rank[j] = k - 1
            BY <1>0, <5>1 DEF Numbered
          <5> QED  BY <1>0, <1>6, <4>3, <5>2 DEF Insert, TypeOK
        <4> QED  BY <1>0, <1>6, <4>1, <4>2, <4>3 DEF Insert, TypeOK
      <3> QED  BY <3>1, <3>2, <3>3 DEF Numbered
    <2>3. StillListed'
      BY <1>0, <1>6 DEF Insert, TypeOK, StillListed
    <2>4. DonePassedAll'
      BY <1>6 DEF Insert, DonePassedAll
    <2>5. Lost' \subseteq Lost
      BY <1>0, <1>6 DEF Insert, TypeOK, Lost, StillListed
    <2>6. Lost \in SUBSET Items /\ removed' = removed /\ gaps' = gaps
          /\ removed \in Nat
      BY <1>0, <1>6 DEF Insert, Lost, TypeOK
    <2>7. Cardinality(Lost') <= removed' \/ gaps' # {}
      BY <2>5, <2>6, Shrinks DEF IInv
    <2> QED  BY <2>1, <2>2, <2>3, <2>4, <2>7 DEF IInv
  <1>7. ASSUME NEW i \in Items, Remove(i) PROVE IInv'
    <2>1. TypeOK'
      BY <1>0, <1>7 DEF Remove, TypeOK, Numbered
    <2>2. Numbered(rank, count)'
      <3>1. \A j \in Items : rank'[j] <= count'
        BY <1>0, <1>7 DEF Remove, TypeOK, Numbered
      <3>2. \A j, k \in Items : rank'[j] = rank'[k] /\ rank'[j] > 0 => j = k
        BY <1>0, <1>7 DEF Remove, TypeOK, Numbered
      <3>3. ASSUME NEW k \in 1..count' PROVE \E j \in Items : rank'[j] = k
        <4>1. CASE k < rank[i]
          <5>1. k \in 1..count
            BY <1>0, <1>7, <4>1 DEF Remove, TypeOK
          <5>2. PICK j \in Items : rank[j] = k
            BY <1>0, <5>1 DEF Numbered
          <5> QED  BY <1>0, <1>7, <4>1, <5>2 DEF Remove, TypeOK
        <4>2. CASE k >= rank[i]
          <5>1. k + 1 \in 1..count
            BY <1>0, <1>7, <4>2 DEF Remove, TypeOK
          <5>2. PICK j \in Items : rank[j] = k + 1
            BY <1>0, <5>1 DEF Numbered
          <5> QED  BY <1>0, <1>7, <4>2, <5>2 DEF Remove, TypeOK
        <4> QED  BY <1>0, <1>7, <4>1, <4>2 DEF Remove, TypeOK
      <3> QED  BY <3>1, <3>2, <3>3 DEF Numbered
    <2>3. StillListed'
      BY <1>0, <1>7 DEF Remove, TypeOK, StillListed, Numbered
    <2>4. DonePassedAll'
      BY <1>7 DEF Remove, DonePassedAll
    <2>5. Lost \in SUBSET Items /\ Lost' \in SUBSET Items /\ removed \in Nat
          /\ removed' = removed + 1 /\ gaps' = gaps
      BY <1>0, <1>7 DEF Remove, Lost, TypeOK
    <2>6. \E x \in Items : Lost' \subseteq Lost \cup {x}
      <3>1. CASE \E x \in Items : rank[x] = upto + 1
        <4>1. PICK x \in Items : rank[x] = upto + 1
          BY <3>1
        <4>2. \A j \in Items : rank[j] = upto + 1 => j = x
          BY <1>0, <4>1 DEF Numbered, TypeOK
        <4>3. Lost' \subseteq Lost \cup {x}
          BY <1>0, <1>7, <4>2 DEF Remove, Lost, TypeOK
        <4> QED  BY <4>3
      <3>2. CASE ~\E x \in Items : rank[x] = upto + 1
        <4>1. Lost' \subseteq Lost \cup {i}
          BY <1>0, <1>7, <3>2 DEF Remove, Lost, TypeOK
        <4> QED  BY <4>1
      <3> QED  BY <3>1, <3>2
    <2>7. Cardinality(Lost') <= removed' \/ gaps' # {}
      BY <2>5, <2>6, GrowsByOne DEF IInv
    <2> QED  BY <2>1, <2>2, <2>3, <2>4, <2>7 DEF IInv
  <1>8. CASE UNCHANGED vars
    BY <1>8 DEF IInv, vars, TypeOK, Numbered, StillListed, DonePassedAll, Lost
  <1> QED
    BY <1>1, <1>2, <1>3, <1>4, <1>5, <1>6, <1>7, <1>8 DEF Next

-----------------------------------------------------------------------------
\* The strengthened invariant holds in every reachable state.
THEOREM PagingInvariant == Spec => []IInv
  BY InitInv, NextInv, PTL DEF Spec

\* The variables keep their types.
THEOREM TypeCorrect == Spec => []TypeOK
  <1>1. IInv => TypeOK
    BY DEF IInv
  <1> QED  BY PagingInvariant, <1>1, PTL

\* For every listing, page size and number of changes, a walk that ends
\* without an error misses at most one item for each deletion made while it
\* ran, whichever of the four clients reads.
THEOREM LossIsBounded == Spec => []AtMostOneLossPerRemoval
  <1>1. IInv => AtMostOneLossPerRemoval
    <2> SUFFICES ASSUME IInv, status = "done", gaps = {}
                 PROVE  Cardinality({i \in Initial \ gone : i \notin sent})
                            <= removed
      BY DEF AtMostOneLossPerRemoval
    <2>1. \A i \in Items : rank[i] <= upto
      BY DEF IInv, DonePassedAll, Numbered, TypeOK
    <2>2. {i \in Initial \ gone : i \notin sent} = Lost
      BY <2>1, PagingAssumption DEF Lost
    <2> QED  BY <2>2 DEF IInv
  <1> QED  BY PagingInvariant, <1>1, PTL
=============================================================================
