--------------------------- MODULE ContainerProofs ---------------------------
(* The properties of ContainerStore, for every set of keys and values.        *)
EXTENDS ContainerStore, ContainerLemmas

\* In every state of every execution the list and the map of both containers
\* agree.
THEOREM ContainersConsistent == Spec => []TypeOK
<1>1. Init => TypeOK
  BY EmptyConsistent DEF Init, TypeOK
<1>2. TypeOK /\ [Next]_vars => TypeOK'
  <2> SUFFICES ASSUME TypeOK, [Next]_vars
               PROVE  TypeOK'
    OBVIOUS
  <2> USE DEF TypeOK
  <2>1. ASSUME NEW e \in Element, InsertUnit(e) PROVE TypeOK'
    BY <2>1, InsertConsistent DEF InsertUnit
  <2>2. ASSUME NEW e \in Element, InsertFresh(e) PROVE TypeOK'
    BY <2>2, InsertConsistent DEF InsertFresh
  <2>3. ASSUME NEW k \in Keys, EraseUnit(k) PROVE TypeOK'
    BY <2>3, EraseConsistent DEF EraseUnit
  <2>4. CASE ClearUnit
    BY <2>4, EmptyConsistent DEF ClearUnit
  <2>5. CASE SwapContainers
    BY <2>5 DEF SwapContainers
  <2>6. CASE DropFresh
    BY <2>6, EmptyConsistent DEF DropFresh
  <2>7. CASE UNCHANGED vars
    BY <2>7 DEF vars
  <2> QED
    BY <2>1, <2>2, <2>3, <2>4, <2>5, <2>6, <2>7 DEF Next
<1> QED
  BY <1>1, <1>2, PTL DEF Spec

-----------------------------------------------------------------------------

\* Each mutator is one step of the pair of partial functions.
THEOREM ContainersAreFunctions == Spec => ImplementsKeyedStores
<1> DEFINE u == Content(unit)
           f == Content(fresh)
<1>1. Init => KS!Init
  BY EmptyConsistent DEF Init, KS!Init, KS!Nothing
<1>2. TypeOK /\ [Next]_vars => [KS!Next]_(KS!vars)
  <2> SUFFICES ASSUME TypeOK, [Next]_vars
               PROVE  KS!Next \/ UNCHANGED KS!vars
    OBVIOUS
  <2> USE DEF TypeOK
  <2>1. ASSUME NEW e \in Element, InsertUnit(e) PROVE KS!Next
    <3>1. e.key \in Keys /\ e.val \in Values
      BY DEF Element
    <3>2. KS!SetUnit(e.key, e.val)
      BY <2>1, InsertContent DEF InsertUnit, KS!SetUnit
    <3> QED
      BY <3>1, <3>2 DEF KS!Next
  <2>2. ASSUME NEW e \in Element, InsertFresh(e) PROVE KS!Next
    <3>1. e.key \in Keys /\ e.val \in Values
      BY DEF Element
    <3>2. KS!SetFresh(e.key, e.val)
      BY <2>2, InsertContent DEF InsertFresh, KS!SetFresh
    <3> QED
      BY <3>1, <3>2 DEF KS!Next
  <2>3. ASSUME NEW k \in Keys, EraseUnit(k) PROVE KS!Next
    <3>1. KS!Unset(k)
      BY <2>3, EraseContent DEF EraseUnit, KS!Unset
    <3> QED
      BY <3>1 DEF KS!Next
  <2>4. CASE ClearUnit
    BY <2>4, EmptyConsistent DEF ClearUnit, KS!Next, KS!Clear, KS!Nothing
  <2>5. CASE SwapContainers
    <3>1. KS!Swap
      BY <2>5 DEF SwapContainers, KS!Swap
    <3> QED
      BY <3>1 DEF KS!Next
  <2>6. CASE DropFresh
    BY <2>6, EmptyConsistent DEF DropFresh, KS!Next, KS!Drop, KS!Nothing
  <2>7. CASE UNCHANGED vars
    BY <2>7 DEF vars, KS!vars
  <2> QED
    BY <2>1, <2>2, <2>3, <2>4, <2>5, <2>6, <2>7 DEF Next
<1> QED
  BY <1>1, <1>2, ContainersConsistent, PTL DEF Spec, ImplementsKeyedStores, KS!Spec

\* A paging client misses at most the element that erase moves, and that one was
\* the last.
THEOREM PositionsAreStable == Spec => OnlyTheLastMoves
<1>1. TypeOK /\ [Next]_vars => [PositionsKept]_vars
  <2> SUFFICES ASSUME TypeOK, Next, ~SwapContainers,
                      NEW k \in Stored(unit) \cap Stored(unit')
               PROVE  Stays(k) \/ Fills(k)
    BY DEF PositionsKept, vars
  <2> USE DEF Stays, Fills
  <2>1. ASSUME NEW e \in Element, InsertUnit(e) PROVE Stays(k)
    <3>1. CASE Has(unit, e.key)
      BY <2>1, <3>1 DEF InsertUnit, Insert
    <3>2. CASE ~Has(unit, e.key)
      <4>1. k # e.key
        BY <3>2 DEF Stored, Has
      <4> QED
        BY <2>1, <3>2, <4>1 DEF InsertUnit, Insert, Stored
    <3> QED
      BY <3>1, <3>2
  <2>2. ASSUME NEW k1 \in Keys, EraseUnit(k1) PROVE Stays(k) \/ Fills(k)
    <3>1. Consistent(unit) /\ unit' = Erase(unit, k1)
      BY <2>2 DEF EraseUnit, TypeOK
    <3>2. k \in DOMAIN unit.map /\ k \in DOMAIN Erase(unit, k1).map
      BY <3>1 DEF Stored
    <3> QED
      BY <3>1, <3>2, EraseMoves DEF Size
  <2>3. CASE ClearUnit
    BY <2>3 DEF ClearUnit, Empty, Stored
  <2>4. (\E e \in Element : InsertFresh(e)) \/ DropFresh => Stays(k)
    BY DEF InsertFresh, DropFresh
  <2> QED
    BY <2>1, <2>2, <2>3, <2>4 DEF Next
<1> QED
  BY <1>1, ContainersConsistent, PTL DEF Spec, OnlyTheLastMoves

=============================================================================
