------------------------------ MODULE Container ------------------------------
(***************************************************************************)
(* HSDS/Common/Container.h as pure operators: the vector list_ and the map  *)
(* map_ from a key (dpmgid, id) to the position of its element in list_.    *)
(* A key is a number so that the order of std::map is the order of Int; an  *)
(* element is its key and the rest of its fields, "val".  Positions count   *)
(* from 1 here and from 0 in the code.                                      *)
(***************************************************************************)
EXTENDS Integers, Sequences

CONSTANTS Keys,    \* the keys elements may have
          Values,  \* what an element holds beside its key
          None     \* "no value", returned for an absent key

ASSUME KeysAssumption == Keys \subseteq Int
ASSUME NoneAssumption == None \notin Values

Element == [key : Keys, val : Values]

\* The shape of a container: a list of elements and a map from keys.  Whether the
\* two agree is the rest of Consistent.
IsContainer(c) ==
  /\ c = [list |-> c.list, map |-> c.map]
  /\ c.list \in Seq(Element)
  /\ c.map = [k \in DOMAIN c.map |-> c.map[k]]
  /\ DOMAIN c.map \subseteq Keys

Empty == [list |-> << >>, map |-> [k \in {} |-> 1]]

Size(c) == Len(c.list)

Stored(c) == DOMAIN c.map

\* find(key) != end()
Has(c, k) == k \in DOMAIN c.map

\* *find(key)
Find(c, k) == c.list[c.map[k]]

ValueOf(c, k) == IF Has(c, k) THEN Find(c, k).val ELSE None

\* The abstract content: what each key maps to, None when it is absent.
Content(c) == [k \in Keys |-> ValueOf(c, k)]

\* insert(value): overwrite in place, or append and remember the position.
Insert(c, e) ==
  IF Has(c, e.key)
  THEN [list |-> [c.list EXCEPT ![c.map[e.key]] = e], map |-> c.map]
  ELSE [list |-> Append(c.list, e),
        map  |-> [k \in DOMAIN c.map \cup {e.key} |->
                    IF k = e.key THEN Len(c.list) + 1 ELSE c.map[k]]]

\* Mutant of Erase: the last element moves into the hole, its index does not.
EraseForgettingIndex(c, k1) ==
  IF ~Has(c, k1) THEN c
  ELSE LET n == Len(c.list)
       IN  [list |-> SubSeq([c.list EXCEPT ![c.map[k1]] = c.list[n]], 1, n - 1),
            map  |-> [k \in DOMAIN c.map \ {k1} |-> c.map[k]]]

\* Mutant of Erase: vector::erase, which shifts what follows the hole.
EraseShifting(c, k1) ==
  IF ~Has(c, k1) THEN c
  ELSE LET hole == c.map[k1]
       IN  [list |-> SubSeq(c.list, 1, hole - 1) \o SubSeq(c.list, hole + 1, Len(c.list)),
            map  |-> [k \in DOMAIN c.map \ {k1} |->
                        IF c.map[k] > hole THEN c.map[k] - 1 ELSE c.map[k]]]

\* Mutant of Erase: the index of the last element moves, the element does not.
EraseSwappingMapOnly(c, k1) ==
  IF ~Has(c, k1) THEN c
  ELSE LET n  == Len(c.list)
           k2 == c.list[n].key
       IN  [list |-> SubSeq(c.list, 1, n - 1),
            map  |-> [k \in DOMAIN c.map \ {k1} |->
                        IF k = k2 THEN c.map[k1] ELSE c.map[k]]]

\* erase(key): swap the element with the last one, in both list and map, then
\* drop the map entry and the last position.
Erase(c, k1) ==
  IF ~Has(c, k1) THEN c
  ELSE LET n      == Len(c.list)
           k2     == c.list[n].key
           pos1   == c.map[k1]
           pos2   == c.map[k2]
           list   == [c.list EXCEPT ![pos1] = c.list[pos2], ![pos2] = c.list[pos1]]
           map    == [c.map EXCEPT ![k1] = pos2, ![k2] = pos1]
       IN  [list |-> SubSeq(list, 1, n - 1),
            map  |-> [k \in DOMAIN c.map \ {k1} |-> map[k]]]

\* The structural invariant of the class: the map sends every stored key to the
\* position of its element, and every position belongs to one stored key.
Consistent(c) ==
  /\ IsContainer(c)
  /\ \A k \in DOMAIN c.map :
        c.map[k] \in 1..Len(c.list) /\ c.list[c.map[k]].key = k
  /\ \A i \in 1..Len(c.list) :
        c.list[i].key \in DOMAIN c.map /\ c.map[c.list[i].key] = i

=============================================================================
