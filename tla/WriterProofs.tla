---------------------------- MODULE WriterProofs ----------------------------
(***************************************************************************)
(* The Writer, for any number of handler threads, any keys and values, lists  *)
(* of any length and any number of failing calls: its variables keep their    *)
(* types, its mutex excludes, and without collection PUTs it protects what    *)
(* the comment on it says.                                                   *)
(***************************************************************************)
EXTENDS WriterProperties, ContainerLemmas, FiniteSetTheorems, WellFoundedInduction,
        NaturalsInduction

\* The requests of the model are requests.
LEMMA RequestsAreTyped == Requests \subseteq Request
  BY DEF Requests, Request, Bodies

Merge == [old : SUBSET Keys, new : SUBSET Keys]

\* A handler that ends leaves its locals typed.
LEMMA ForgetTypes ==
  ASSUME TypeOK, NEW w \in Workers, Forget(w)
  PROVE  /\ req' \in [Workers -> Request \cup {NoRequest}]
         /\ new' = [v \in Workers |-> new'[v]] /\ \A v \in Workers : Consistent(new'[v])
         /\ todo' \in [Workers -> Seq(Element)]
         /\ left' \in [Workers -> Merge]
         /\ reg' \in [Workers -> Nat]
         /\ before' \in [Workers -> [Keys -> Values \cup {None}]]
<1>1. Consistent(Empty) /\ Content(Empty) \in [Keys -> Values \cup {None}]
  BY EmptyConsistent, ContainerTypes
<1>2. /\ req' \in [Workers -> Request \cup {NoRequest}]
      /\ todo' \in [Workers -> Seq(Element)]
      /\ left' \in [Workers -> Merge]
      /\ reg' \in [Workers -> Nat]
  BY DEF TypeOK, Forget, Merge, NoMerge
<1>3. before' \in [Workers -> [Keys -> Values \cup {None}]]
  BY <1>1 DEF TypeOK, Forget
<1>4. new' = [v \in Workers |-> new'[v]] /\ \A v \in Workers : Consistent(new'[v])
  BY <1>1 DEF TypeOK, Forget
<1> QED
  BY <1>2, <1>3, <1>4

\* So does the whole of a return.
LEMMA ReturnTypes ==
  ASSUME TypeOK, NEW w \in Workers, Return(w), Consistent(unit'),
         instance' \in [Keys -> Values \cup {None}], transaction' \in Nat, faults' \in Nat,
         seen'.transaction \in Nat \cup {-1}, seen'.content \subseteq Element,
         UNCHANGED createWriters
  PROVE  TypeOK'
<1>1. Forget(w) /\ Goto(w, "idle") /\ mutex' \in {mutex, Free}
  BY DEF Return
<1>2. pc' \in [Workers -> Labels] /\ mutex' \in Workers \cup {Free}
  BY <1>1 DEF TypeOK, Goto, Labels
<1> QED
  BY <1>1, <1>2, ForgetTypes DEF TypeOK, Merge

\* A DDS call leaves the topic typed.
LEMMA DdsTypes ==
  ASSUME TypeOK
  PROVE  /\ \A e \in Element : Written(e) =>
               instance' \in [Keys -> Values \cup {None}] /\ faults' \in Nat
         /\ \A k \in Keys : Unregistered(k) \/ UnregisterFails(k) =>
               instance' \in [Keys -> Values \cup {None}] /\ faults' \in Nat
         /\ DdsFault => instance' \in [Keys -> Values \cup {None}] /\ faults' \in Nat
<1> USE DEF TypeOK
<1>1. ASSUME NEW e \in Element, Written(e)
      PROVE  instance' \in [Keys -> Values \cup {None}] /\ faults' \in Nat
  BY <1>1 DEF Written, Element
<1>2. ASSUME NEW k \in Keys, Unregistered(k)
      PROVE  instance' \in [Keys -> Values \cup {None}] /\ faults' \in Nat
  BY <1>2 DEF Unregistered
<1>3. DdsFault => instance' \in [Keys -> Values \cup {None}] /\ faults' \in Nat
  BY DEF DdsFault
<1> QED
  BY <1>1, <1>2, <1>3 DEF UnregisterFails

\* What a handler is about to visit are elements and keys.
LEMMA ToVisitTypes ==
  ASSUME TypeOK, NEW w \in Workers
  PROVE  ToVisit(w) \in Seq(Element) /\ KeysToMerge(w) \in Merge
<1>1. req[w].op # "none" => req[w].body \in Seq(Element)
  BY DEF TypeOK, Request, NoRequest
<1>2. unit.list \in Seq(Element) /\ Stored(unit) \subseteq Keys /\ Stored(new[w]) \subseteq Keys
  BY ContainerTypes DEF TypeOK
<1> QED
  BY <1>1, <1>2 DEF ToVisit, KeysToMerge, NoMerge, Merge

-----------------------------------------------------------------------------
(* The iterators of a merge                                                  *)

\* A container stores finitely many keys.
LEMMA StoredIsFinite ==
  ASSUME NEW c, Consistent(c)
  PROVE  IsFiniteSet(Stored(c))
<1> DEFINE T == 1..Len(c.list)
           f == [k \in Stored(c) |-> c.map[k]]
<1>1. Len(c.list) \in Nat /\ f \in [Stored(c) -> T]
  BY DEF Consistent, IsContainer, Stored
<1>2. \A k, l \in Stored(c) : f[k] = f[l] => k = l
  BY DEF Consistent, Stored
<1>3. f \in Injection(Stored(c), T)
  BY <1>1, <1>2 DEF Injection, IsInjective
<1>4. IsFiniteSet(T)
  <2>1. 1 \in Int /\ Len(c.list) \in Int
    BY <1>1
  <2> QED
    BY ONLY <2>1, FS_Interval
<1> QED
  BY <1>3, <1>4, FS_Injection

\* Among finitely many keys there is a least.
LEMMA LeastExists ==
  ASSUME NEW S, S \subseteq Int, IsFiniteSet(S), S # {}
  PROVE  \E k \in S : \A l \in S : k <= l
<1> DEFINE Below(x) == {y \in S : y < x}
           T == {Cardinality(Below(x)) : x \in S}
<1>1. \A x \in S : IsFiniteSet(Below(x)) /\ Cardinality(Below(x)) \in Nat
  BY FS_Subset, FS_CardinalityType
<1>2. T \subseteq Nat /\ T # {}
  BY <1>1
<1> HIDE DEF T
<1>3. PICK n \in T : \A m \in T : ~(<<m, n>> \in OpToRel(<, Nat))
  BY <1>2, NatLessThanWellFounded, WFMin
<1>4. PICK k \in S : n = Cardinality(Below(k))
  BY DEF T
<1>5. ASSUME NEW l \in S, l < k PROVE FALSE
  <2>1. Below(l) \in SUBSET Below(k) /\ l \in Below(k) /\ l \notin Below(l)
    <3>1. k \in Int /\ l \in Int /\ \A y \in S : y \in Int
      OBVIOUS
    <3>2. \A y \in S : y < l => y < k
      BY <1>5, <3>1
    <3>3. ~(l < l)
      BY <3>1
    <3> QED
      BY <1>5, <3>2, <3>3
  <2>2. Cardinality(Below(l)) <= Cardinality(Below(k)) /\ Cardinality(Below(k)) # Cardinality(Below(l))
    BY <1>1, <2>1, FS_Subset
  <2>3. Cardinality(Below(l)) \in T /\ Cardinality(Below(l)) < n
    <3>1. Cardinality(Below(l)) \in T
      BY DEF T
    <3>2. Cardinality(Below(l)) \in Nat /\ Cardinality(Below(k)) \in Nat
      BY <1>1
    <3> QED
      BY <1>4, <2>2, <3>1, <3>2
  <2> QED
    BY <1>1, <1>3, <1>4, <2>3 DEF OpToRel
<1> QED
  BY <1>5

\* So the items of a container have a first one.
LEMMA FirstIsLeast ==
  ASSUME NEW c, Consistent(c), NEW S, S \subseteq Stored(c), S # {}
  PROVE  First(S) \in S /\ \A k \in S : First(S) <= k
<1>1. IsFiniteSet(S) /\ S \subseteq Int
  BY StoredIsFinite, ContainerTypes, FS_Subset, KeysAssumption
<1>2. \E k \in S : \A l \in S : k <= l
  BY <1>1, LeastExists
<1> QED
  BY <1>2 DEF First

\* pos_new stays in new_container, and only a collection PUT under the lock has one.
Iterating(w) ==
  /\ left[w].new \subseteq Stored(new[w])
  /\ ~Merging(w) => left[w] = NoMerge
Iterators == \A w \in Workers : Iterating(w)

\* An iterator only leaves behind what it has visited.
LEMMA VisitedTypes ==
  ASSUME TypeOK, NEW w \in Workers, Visited(w)
  PROVE  /\ left' \in [Workers -> Merge]
         /\ left'[w].old = (IF AtOld(w) THEN left[w].old \ {NextKey(w)} ELSE left[w].old)
         /\ left'[w].new = (IF AtNew(w) THEN left[w].new \ {NextKey(w)} ELSE left[w].new)
         /\ \A v \in Workers \ {w} : left'[v] = left[v]
  BY DEF TypeOK, Visited, Merge

\* No step of a handler takes an iterator out of its container.
LEMMA IteratorsStay ==
  ASSUME TypeOK, Iterators, [Next]_vars
  PROVE  Iterators'
<1> USE DEF Iterators, Iterating
<1>1. ASSUME NEW w \in Workers, Return(w) PROVE Iterators'
  BY <1>1 DEF TypeOK, Return, Forget, Goto, NoMerge, Merging
<1>2. ASSUME NEW w \in Workers,
             \/ Receive(w) \/ Checked(w) \/ SkipUnchanged(w) \/ InsertAndWrite(w)
             \/ UpsertDone(w) \/ UnregisterAndErase(w) \/ UnregisterNext(w) \/ Clear(w) \/ Load(w)
      PROVE  Iterators'
  <2>1. /\ UNCHANGED <<left, new>> /\ ~Merging(w)
        /\ \A v \in Workers \ {w} : pc'[v] = pc[v] /\ req'[v] = req[v]
    BY <1>2 DEF TypeOK, Receive, Checked, SkipUnchanged, InsertAndWrite, UpsertDone,
                UnregisterAndErase, UnregisterNext, Clear, Load, Goto, local, Merging, Upserting,
                Deleting, Clearing
  <2> QED
    BY <2>1 DEF Merging
<1>3. ASSUME NEW w \in Workers, AcceptElement(w) PROVE Iterators'
  <2>1. /\ UNCHANGED <<left, pc, req>> /\ left[w] = NoMerge
        /\ \A v \in Workers \ {w} : new'[v] = new[v]
    BY <1>3 DEF TypeOK, AcceptElement, Merging
  <2> QED
    BY <2>1 DEF Merging, NoMerge
<1>4. ASSUME NEW w \in Workers, Acquire(w) PROVE Iterators'
  <2>1. /\ UNCHANGED <<new, req>> /\ left'[w] = KeysToMerge(w) /\ pc'[w] = "body"
        /\ \A v \in Workers \ {w} : left'[v] = left[v] /\ pc'[v] = pc[v]
    BY <1>4 DEF TypeOK, Acquire, Goto
  <2> QED
    BY <2>1 DEF Merging, NoMerge, KeysToMerge
<1>5. ASSUME NEW w \in Workers, MergeSame(w) \/ MergeWrite(w) \/ MergeUnregister(w)
      PROVE  Iterators'
  <2>1. Visited(w) /\ UNCHANGED <<new, pc, req>> /\ Merging(w)
    BY <1>5 DEF MergeSame, MergeWrite, MergeUnregister
  <2> QED
    BY <2>1, VisitedTypes DEF Merging
<1>6. ASSUME NEW w \in Workers, MergeDone(w) PROVE Iterators'
  BY <1>6 DEF TypeOK, MergeDone, Goto, local, Merging
<1>7. ASSUME NEW w \in Workers, SwapUnit(w) PROVE Iterators'
  <2>1. /\ UNCHANGED <<left, req>> /\ left[w] = NoMerge /\ ~(Merging(w)')
        /\ \A v \in Workers \ {w} : new'[v] = new[v] /\ pc'[v] = pc[v]
    BY <1>7 DEF TypeOK, SwapUnit, Goto, Merging
  <2> QED
    BY <2>1 DEF Merging, NoMerge
<1>8. CASE UNCHANGED vars
  BY <1>8 DEF vars, local, Merging
<1> HIDE DEF Iterators
<1> QED
  BY <1>1, <1>2, <1>3, <1>4, <1>5, <1>6, <1>7, <1>8
  DEF Next, Step, Refuse, RefuseElement, InsertAndFailToWrite, DeleteMissing,
      EraseButFailToUnregister, ClearFails, MergeFails, Store, Get, GetAll

-----------------------------------------------------------------------------

\* In every state of every execution the variables have their types and the
\* lists and maps of the containers agree.
THEOREM WriterTypes == Spec => []TypeOK
<1>1. Init => TypeOK /\ Iterators
  BY EmptyConsistent, ContainerTypes
  DEF Init, TypeOK, Labels, NoRequest, NoMerge, Iterators, Iterating
<1>2. TypeOK /\ Iterators /\ [Next]_vars => TypeOK'
  <2> SUFFICES ASSUME TypeOK, Iterators, [Next]_vars
               PROVE  TypeOK'
    OBVIOUS
  <2> USE DEF TypeOK, shared, local, Goto, Labels
  <2>1. ASSUME NEW w \in Workers, Receive(w) PROVE TypeOK'
    <3>1. PICK r \in Requests : req' = [req EXCEPT ![w] = r] /\ todo' = [todo EXCEPT ![w] = r.body]
      BY <2>1 DEF Receive
    <3>2. r \in Request /\ r.body \in Seq(Element)
      BY RequestsAreTyped DEF Request
    <3> QED
      BY <2>1, <3>1, <3>2 DEF Receive
  <2>2. ASSUME NEW w \in Workers,
               Refuse(w) \/ RefuseElement(w) \/ DeleteMissing(w) \/ Get(w)
        PROVE  TypeOK'
    <3>1. Return(w) /\ UNCHANGED <<createWriters, shared, seen>>
      BY <2>2 DEF Refuse, RefuseElement, DeleteMissing, Get
    <3> QED
      BY <3>1, ReturnTypes
  <2>3. ASSUME NEW w \in Workers, AcceptElement(w) PROVE TypeOK'
    <3>1. Head(todo[w]) \in Element /\ Tail(todo[w]) \in Seq(Element)
      BY <2>3 DEF AcceptElement
    <3>2. Consistent(Insert(new[w], Head(todo[w])))
      BY <3>1, InsertConsistent
    <3>3. new' = [v \in Workers |-> new'[v]] /\ \A v \in Workers : Consistent(new'[v])
      BY <2>3, <3>2 DEF AcceptElement
    <3> QED
      BY <2>3, <3>1, <3>3 DEF AcceptElement
  <2>4. ASSUME NEW w \in Workers, Checked(w) PROVE TypeOK'
    <3>1. Size(unit) \in Nat /\ Content(unit) \in [Keys -> Values \cup {None}]
      BY ContainerTypes
    <3>2. reg' \in [Workers -> Nat]
      BY <2>4, <3>1 DEF Checked
    <3>3. before' \in [Workers -> [Keys -> Values \cup {None}]]
      BY <2>4, <3>1 DEF Checked
    <3>4. pc' \in [Workers -> Labels]
      BY <2>4 DEF Checked
    <3> QED
      BY <2>4, <3>2, <3>3, <3>4 DEF Checked
  <2>5. ASSUME NEW w \in Workers, Acquire(w) PROVE TypeOK'
    BY <2>5, ContainerTypes, ToVisitTypes DEF Acquire, Merge
  <2>6. ASSUME NEW w \in Workers, SkipUnchanged(w) PROVE TypeOK'
    BY <2>6 DEF SkipUnchanged
  <2>7. ASSUME NEW w \in Workers, InsertAndWrite(w) PROVE TypeOK'
    <3>1. Head(todo[w]) \in Element /\ Tail(todo[w]) \in Seq(Element)
      BY <2>7 DEF InsertAndWrite
    <3>2. Consistent(unit')
      BY <2>7, <3>1, InsertConsistent DEF InsertAndWrite
    <3>3. instance' \in [Keys -> Values \cup {None}] /\ faults' \in Nat
      BY <2>7, <3>1, DdsTypes DEF InsertAndWrite
    <3> QED
      BY <2>7, <3>1, <3>2, <3>3 DEF InsertAndWrite
  <2>8. ASSUME NEW w \in Workers, InsertAndFailToWrite(w) PROVE TypeOK'
    <3>1. Head(todo[w]) \in Element
      BY <2>8 DEF InsertAndFailToWrite
    <3>2. Consistent(unit')
      BY <2>8, <3>1, InsertConsistent DEF InsertAndFailToWrite
    <3>3. instance' \in [Keys -> Values \cup {None}] /\ faults' \in Nat
      BY <2>8, DdsTypes DEF InsertAndFailToWrite
    <3> QED
      BY <2>8, <3>2, <3>3, ReturnTypes DEF InsertAndFailToWrite
  <2>9. ASSUME NEW w \in Workers, UpsertDone(w) PROVE TypeOK'
    BY <2>9 DEF UpsertDone
  <2>10. ASSUME NEW w \in Workers, UnregisterAndErase(w) \/ EraseButFailToUnregister(w)
         PROVE  TypeOK'
    <3>1. req[w].key \in Keys
      BY <2>10 DEF UnregisterAndErase, EraseButFailToUnregister, Deleting, Request, NoRequest
    <3>2. Consistent(unit')
      BY <2>10, EraseConsistent DEF UnregisterAndErase, EraseButFailToUnregister
    <3>3. instance' \in [Keys -> Values \cup {None}] /\ faults' \in Nat
      BY <2>10, <3>1, DdsTypes DEF UnregisterAndErase, EraseButFailToUnregister
    <3>4. CASE UnregisterAndErase(w)
      BY <3>2, <3>3, <3>4 DEF UnregisterAndErase
    <3>5. CASE EraseButFailToUnregister(w)
      BY <3>2, <3>3, <3>5, ReturnTypes DEF EraseButFailToUnregister
    <3> QED
      BY <2>10, <3>4, <3>5
  <2>11. ASSUME NEW w \in Workers, UnregisterNext(w) \/ ClearFails(w) PROVE TypeOK'
    <3>1. Head(todo[w]) \in Element /\ Head(todo[w]).key \in Keys
      <4>1. Head(todo[w]) \in Element
        BY <2>11 DEF UnregisterNext, ClearFails
      <4> QED
        BY <4>1 DEF Element
    <3>2. instance' \in [Keys -> Values \cup {None}] /\ faults' \in Nat
      BY <2>11, <3>1, DdsTypes DEF UnregisterNext, ClearFails
    <3>3. CASE UnregisterNext(w)
      BY <3>2, <3>3 DEF UnregisterNext, Unregistered
    <3>4. CASE ClearFails(w)
      BY <3>2, <3>4, ReturnTypes DEF ClearFails
    <3> QED
      BY <2>11, <3>3, <3>4
  <2>12. ASSUME NEW w \in Workers, Clear(w) PROVE TypeOK'
    BY <2>12, EmptyConsistent DEF Clear
  <2>13. ASSUME NEW w \in Workers, MergeSame(w) PROVE TypeOK'
    BY <2>13, VisitedTypes DEF MergeSame, Merge
  <2>14. ASSUME NEW w \in Workers, MergeWrite(w) PROVE TypeOK'
    <3>1. Find(new[w], NextKey(w)) \in Element
      <4>1. left[w].new \subseteq Stored(new[w]) /\ left[w].new # {} /\ NextKey(w) = First(left[w].new)
        BY <2>14 DEF MergeWrite, ToWrite, AtNew, NextKey, Iterators, Iterating
      <4>2. Consistent(new[w])
        OBVIOUS
      <4>3. First(left[w].new) \in left[w].new
        BY ONLY <4>1, <4>2, FirstIsLeast
      <4>4. Has(new[w], NextKey(w))
        BY ONLY <4>1, <4>3 DEF Has, Stored
      <4> QED
        BY ONLY <4>2, <4>4, FindTypes
    <3>2. instance' \in [Keys -> Values \cup {None}] /\ faults' \in Nat
      BY <2>14, <3>1, DdsTypes DEF MergeWrite
    <3> QED
      BY <2>14, <3>2, VisitedTypes DEF MergeWrite, Merge
  <2>15. ASSUME NEW w \in Workers, MergeUnregister(w) PROVE TypeOK'
    <3>1. instance' \in [Keys -> Values \cup {None}] /\ faults' \in Nat
      BY <2>15 DEF MergeUnregister, Unregistered
    <3> QED
      BY <2>15, <3>1, VisitedTypes DEF MergeUnregister, Merge
  <2>16. ASSUME NEW w \in Workers, MergeFails(w) PROVE TypeOK'
    <3>1. instance' \in [Keys -> Values \cup {None}] /\ faults' \in Nat
      BY <2>16 DEF MergeFails, DdsFault, UnregisterFails
    <3> QED
      BY <2>16, <3>1, ReturnTypes DEF MergeFails
  <2>17. ASSUME NEW w \in Workers, MergeDone(w) PROVE TypeOK'
    BY <2>17 DEF MergeDone
  <2>18. ASSUME NEW w \in Workers, SwapUnit(w) PROVE TypeOK'
    BY <2>18 DEF SwapUnit
  <2>19. ASSUME NEW w \in Workers, Load(w) PROVE TypeOK'
    BY <2>19 DEF Load
  <2>20. ASSUME NEW w \in Workers, Store(w) PROVE TypeOK'
    <3>1. transaction' \in Nat
      BY <2>20 DEF Store
    <3> QED
      BY <2>20, <3>1, ReturnTypes DEF Store
  <2>21. ASSUME NEW w \in Workers, GetAll(w) PROVE TypeOK'
    <3>1. seen'.transaction \in Nat /\ seen'.content \subseteq Element
      BY <2>21, ContainerTypes DEF GetAll, Page, Size
    <3> QED
      BY <2>21, <3>1, ReturnTypes DEF GetAll
  <2>22. CASE UNCHANGED vars
    BY <2>22 DEF vars
  <2> HIDE DEF TypeOK
  <2> QED
    BY <2>1, <2>2, <2>3, <2>4, <2>5, <2>6, <2>7, <2>8, <2>9, <2>10, <2>11, <2>12, <2>13,
       <2>14, <2>15, <2>16, <2>17, <2>18, <2>19, <2>20, <2>21, <2>22 DEF Next, Step
<1>3. TypeOK /\ Iterators /\ [Next]_vars => Iterators'
  BY IteratorsStay
<1> QED
  BY <1>1, <1>2, <1>3, PTL DEF Spec

-----------------------------------------------------------------------------
(* The mutex                                                                 *)

\* Only a collection PUT comes to the swap, which is why a handler that counts
\* without the mutex is known by its request.
OnlyPutSwaps == \A w \in Workers : pc[w] = "swap" => req[w].op = "PUTALL"

\* A return releases the mutex and leaves the other handlers where they are.
LEMMA ReturnExcludes ==
  ASSUME TypeOK, MutualExclusion, OnlyPutSwaps, NEW w \in Workers, Return(w)
  PROVE  MutualExclusion' /\ OnlyPutSwaps'
  BY WorkersAssumption
  DEF TypeOK, MutualExclusion, OnlyPutSwaps, Return, Goto, Forget, Guarded

\* The two together are inductive.
LEMMA WriterExcludesInductively == Spec => [](MutualExclusion /\ OnlyPutSwaps)
<1> DEFINE Inv == MutualExclusion /\ OnlyPutSwaps
<1>1. Init => Inv
  BY WorkersAssumption DEF Init, MutualExclusion, OnlyPutSwaps, Guarded
<1>2. TypeOK /\ Inv /\ [Next]_vars => Inv'
  <2> SUFFICES ASSUME TypeOK, MutualExclusion, OnlyPutSwaps, [Next]_vars
               PROVE  MutualExclusion' /\ OnlyPutSwaps'
    OBVIOUS
  <2>1. ASSUME NEW w \in Workers, Return(w) PROVE MutualExclusion' /\ OnlyPutSwaps'
    BY <2>1, ReturnExcludes
  <2> USE WorkersAssumption
      DEF TypeOK, MutualExclusion, OnlyPutSwaps, Guarded, Goto, local
  <2>2. ASSUME NEW w \in Workers, Receive(w) PROVE MutualExclusion' /\ OnlyPutSwaps'
    BY <2>2 DEF Receive
  <2>3. ASSUME NEW w \in Workers, Checked(w) PROVE MutualExclusion' /\ OnlyPutSwaps'
    BY <2>3 DEF Checked
  <2>4. ASSUME NEW w \in Workers, Acquire(w) PROVE MutualExclusion' /\ OnlyPutSwaps'
    BY <2>4 DEF Acquire
  <2>5. ASSUME NEW w \in Workers,
               AcceptElement(w) \/ SkipUnchanged(w) \/ InsertAndWrite(w) \/ UnregisterNext(w)
                 \/ MergeSame(w) \/ MergeWrite(w) \/ MergeUnregister(w)
        PROVE  MutualExclusion' /\ OnlyPutSwaps'
    <3>1. UNCHANGED <<pc, req, mutex>>
      BY <2>5 DEF AcceptElement, SkipUnchanged, InsertAndWrite, UnregisterNext, MergeSame,
                  MergeWrite, MergeUnregister
    <3> QED
      BY <3>1
  <2>6. ASSUME NEW w \in Workers, UpsertDone(w) \/ UnregisterAndErase(w) \/ Clear(w)
        PROVE  MutualExclusion' /\ OnlyPutSwaps'
    <3>1. /\ pc[w] = "body" /\ req[w].op # "PUTALL"
          /\ pc' = [pc EXCEPT ![w] = "load"] /\ UNCHANGED <<req, mutex>>
      BY <2>6 DEF UpsertDone, UnregisterAndErase, Clear, Upserting, Deleting, Clearing
    <3> QED
      BY <3>1
  <2>7. ASSUME NEW w \in Workers, MergeDone(w) PROVE MutualExclusion' /\ OnlyPutSwaps'
    BY <2>7 DEF MergeDone, Merging
  <2>8. ASSUME NEW w \in Workers, SwapUnit(w) PROVE MutualExclusion' /\ OnlyPutSwaps'
    BY <2>8 DEF SwapUnit
  <2>9. ASSUME NEW w \in Workers, Load(w) PROVE MutualExclusion' /\ OnlyPutSwaps'
    BY <2>9 DEF Load
  <2>10. CASE UNCHANGED vars
    BY <2>10 DEF vars
  <2> HIDE DEF MutualExclusion, OnlyPutSwaps
  <2> QED
    BY <2>1, <2>2, <2>3, <2>4, <2>5, <2>6, <2>7, <2>8, <2>9, <2>10
    DEF Next, Step, Refuse, RefuseElement, InsertAndFailToWrite, DeleteMissing,
        EraseButFailToUnregister, ClearFails, MergeFails, Store, Get, GetAll
<1> QED
  BY <1>1, <1>2, WriterTypes, PTL DEF Spec

\* At most one handler is in its guarded part; no early return keeps the mutex.
THEOREM WriterExcludes == Spec => []MutualExclusion
  BY WriterExcludesInductively, PTL

\* The comment on mutex_ (Application.h:485) holds of every request but the PUT
\* of a collection, whatever calls fail.
THEOREM MutexProtects ==
  ASSUME "PUTALL" \notin Ops
  PROVE  Spec => MutexProtectsUnit
<1>1. TypeOK /\ MutualExclusion /\ OnlyPutSwaps /\ [Next]_vars => [mutex # Free]_<<unit, transaction>>
  <2> SUFFICES ASSUME TypeOK, MutualExclusion, OnlyPutSwaps, Next, mutex = Free
               PROVE  UNCHANGED <<unit, transaction>>
    BY DEF vars, shared
  <2>1. \A w \in Workers : pc[w] \notin {"body", "load", "store"}
    <3>1. \A w \in Workers : req[w].op # "PUTALL"
      BY DEF TypeOK, Request, NoRequest
    <3> QED
      BY <3>1, WorkersAssumption DEF MutualExclusion, Guarded
  <2>2. ASSUME NEW w \in Workers, SwapUnit(w) PROVE FALSE
    <3>1. pc[w] = "swap" /\ req[w].op # "PUTALL"
      BY <2>2 DEF SwapUnit, TypeOK, Request, NoRequest
    <3> QED
      BY <3>1 DEF OnlyPutSwaps
  <2> QED
    BY <2>1, <2>2
    DEF Next, Step, shared, Receive, Refuse, RefuseElement, AcceptElement, Checked, Acquire,
        SkipUnchanged, InsertAndWrite, InsertAndFailToWrite, UpsertDone, Upserting,
        DeleteMissing, UnregisterAndErase, EraseButFailToUnregister, Deleting,
        UnregisterNext, ClearFails, Clear, Clearing,
        MergeSame, MergeWrite, MergeUnregister, MergeFails, MergeDone, Merging,
        Load, Store, Get, GetAll
<1> QED
  BY <1>1, WriterTypes, WriterExcludesInductively, PTL DEF Spec, MutexProtectsUnit

=============================================================================
