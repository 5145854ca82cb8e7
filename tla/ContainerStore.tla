--------------------------- MODULE ContainerStore ---------------------------
(***************************************************************************)
(* The life of the two Containers a collection resource works on: the one   *)
(* of the Unit, which lives as long as the program, and the new_container   *)
(* that HsdsCollectionResource::render_PUT fills, swaps in and drops.  Every *)
(* mutator of Container.h is an action.                                     *)
(***************************************************************************)
EXTENDS Container

VARIABLES unit,   \* Unit<T>::container
          fresh   \* new_container of render_PUT

vars == <<unit, fresh>>

Init == unit = Empty /\ fresh = Empty

InsertUnit(e) == unit' = Insert(unit, e) /\ UNCHANGED fresh

InsertFresh(e) == fresh' = Insert(fresh, e) /\ UNCHANGED unit

\* erase is also called for keys that are absent (Reader.cpp:152).
EraseUnit(k) == unit' = Erase(unit, k) /\ UNCHANGED fresh

ClearUnit == unit' = Empty /\ UNCHANGED fresh

SwapContainers == unit' = fresh /\ fresh' = unit

\* new_container goes out of scope; the next request starts with an empty one.
DropFresh == fresh' = Empty /\ UNCHANGED unit

Next ==
  \/ \E e \in Element : InsertUnit(e) \/ InsertFresh(e)
  \/ \E k \in Keys : EraseUnit(k)
  \/ ClearUnit
  \/ SwapContainers
  \/ DropFresh

Spec == Init /\ [][Next]_vars

-----------------------------------------------------------------------------

\* list_ and map_ agree in both containers: each key is indexed at the position
\* of its element and each position is indexed once.  erase's swap-with-last is
\* where this breaks first, when the erased element is the last, or is not
\* (Container.h:65-83).
TypeOK == Consistent(unit) /\ Consistent(fresh)

Stays(k) == unit'.map[k] = unit.map[k]

\* k was the last element and has moved towards the front as one was erased.
Fills(k) ==
  /\ unit.map[k] = Size(unit)
  /\ Size(unit') = Size(unit) - 1
  /\ unit'.map[k] <= Size(unit')

PositionsKept ==
  ~SwapContainers => \A k \in Stored(unit) \cap Stored(unit') : Stays(k) \/ Fills(k)

\* A client pages through begin()..end() by position (offset, count).  A step
\* of insert or erase moves no surviving element except the last one, which
\* only erase moves, into the hole (Container.h:47-57, 76-82).
OnlyTheLastMoves == [][PositionsKept]_vars

\* The pair of containers behaves as two partial functions from keys to values:
\* no mutator loses, revives or alters the element of another key.
KS == INSTANCE KeyedStores WITH unit <- Content(unit), fresh <- Content(fresh)
ImplementsKeyedStores == KS!Spec

=============================================================================
