-------------------------- MODULE ContainerLemmas --------------------------
(***************************************************************************)
(* What the operators of Container do for every set of keys and values:      *)
(* every mutator keeps list and map in agreement, and changes the content of  *)
(* its own key alone.                                                        *)
(***************************************************************************)
EXTENDS Container, TLAPS

\* The empty container is consistent and holds nothing.
LEMMA EmptyConsistent ==
  Consistent(Empty) /\ Content(Empty) = [k \in Keys |-> None]
  BY DEF Consistent, IsContainer, Empty, Element, Content, ValueOf, Has

\* The types of what the operators read from a consistent container.
LEMMA ContainerTypes ==
  ASSUME NEW c, Consistent(c)
  PROVE  /\ c.list \in Seq(Element)
         /\ Size(c) \in Nat
         /\ Stored(c) \subseteq Keys
         /\ Content(c) \in [Keys -> Values \cup {None}]
<1> USE DEF Consistent, IsContainer
<1>1. c.list \in Seq(Element) /\ Size(c) \in Nat /\ Stored(c) \subseteq Keys
  BY DEF Size, Stored
<1>2. ASSUME NEW k \in Keys PROVE ValueOf(c, k) \in Values \cup {None}
  <2>1. CASE k \in DOMAIN c.map
    <3>1. c.list[c.map[k]] \in Element
      BY <2>1
    <3> QED
      BY <2>1, <3>1 DEF ValueOf, Has, Find, Element
  <2> QED
    BY <2>1 DEF ValueOf, Has
<1> QED
  BY <1>1, <1>2 DEF Content

\* What find leads to is an element with the key that was looked for.
LEMMA FindTypes ==
  ASSUME NEW c, Consistent(c), NEW k, Has(c, k)
  PROVE  Find(c, k) \in Element /\ Find(c, k).key = k
<1>1. c.map[k] \in 1..Len(c.list) /\ c.list[c.map[k]].key = k /\ c.list \in Seq(Element)
  BY DEF Consistent, IsContainer, Has
<1> QED
  BY <1>1 DEF Find

\* insert keeps list and map in agreement.
LEMMA InsertConsistent ==
  ASSUME NEW c, Consistent(c), NEW e \in Element
  PROVE  Consistent(Insert(c, e))
<1> DEFINE d == Insert(c, e)
<1> USE DEF Consistent, IsContainer, Has, Element
<1>1. CASE e.key \in DOMAIN c.map
  <2>1. d = [list |-> [c.list EXCEPT ![c.map[e.key]] = e], map |-> c.map]
    BY <1>1 DEF Insert
  <2>2. d.list \in Seq(Element) /\ Len(d.list) = Len(c.list)
    BY <1>1, <2>1
  <2> QED
    BY <1>1, <2>1, <2>2
<1>2. CASE e.key \notin DOMAIN c.map
  <2>1. d = [list |-> Append(c.list, e),
             map  |-> [k \in DOMAIN c.map \cup {e.key} |->
                         IF k = e.key THEN Len(c.list) + 1 ELSE c.map[k]]]
    BY <1>2 DEF Insert
  <2>2. /\ d.list \in Seq(Element) /\ Len(d.list) = Len(c.list) + 1
        /\ \A i \in 1..Len(c.list) : d.list[i] = c.list[i]
        /\ d.list[Len(c.list) + 1] = e
    BY <2>1
  <2>3. \A k \in DOMAIN d.map : d.map[k] \in 1..Len(d.list) /\ d.list[d.map[k]].key = k
    BY <1>2, <2>1, <2>2
  <2>4. \A i \in 1..Len(d.list) : d.list[i].key \in DOMAIN d.map /\ d.map[d.list[i].key] = i
    BY <1>2, <2>1, <2>2
  <2>5. IsContainer(d)
    BY <2>1, <2>2
  <2> QED
    BY <2>3, <2>4, <2>5
<1> QED
  BY <1>1, <1>2

\* insert sets its own key and leaves the others.
LEMMA InsertContent ==
  ASSUME NEW c, Consistent(c), NEW e \in Element
  PROVE  Content(Insert(c, e)) = [Content(c) EXCEPT ![e.key] = e.val]
<1> DEFINE d == Insert(c, e)
<1> SUFFICES ASSUME NEW k \in Keys
             PROVE  ValueOf(d, k) = IF k = e.key THEN e.val ELSE ValueOf(c, k)
  BY DEF Content, Element
<1> USE DEF Consistent, IsContainer, Has, Element, ValueOf, Find
<1>1. CASE e.key \in DOMAIN c.map
  <2>1. d = [list |-> [c.list EXCEPT ![c.map[e.key]] = e], map |-> c.map]
    BY <1>1 DEF Insert
  <2>2. \A l \in DOMAIN c.map : c.map[l] = c.map[e.key] => l = e.key
    BY <1>1
  <2> QED
    BY <1>1, <2>1, <2>2
<1>2. CASE e.key \notin DOMAIN c.map
  <2>1. d = [list |-> Append(c.list, e),
             map  |-> [l \in DOMAIN c.map \cup {e.key} |->
                         IF l = e.key THEN Len(c.list) + 1 ELSE c.map[l]]]
    BY <1>2 DEF Insert
  <2>2. /\ \A i \in 1..Len(c.list) : d.list[i] = c.list[i]
        /\ d.list[Len(c.list) + 1] = e
    BY <2>1
  <2> QED
    BY <1>2, <2>1, <2>2
<1> QED
  BY <1>1, <1>2

\* What erase does, spelled out: the last element fills the hole, its index
\* follows, and nothing else moves.
ErasedTo(c, k1, d) ==
  LET n    == Len(c.list)
      k2   == c.list[n].key
      hole == c.map[k1]
  IN  /\ n \in Nat \ {0} /\ hole \in 1..n /\ k2 \in DOMAIN c.map /\ c.map[k2] = n
      /\ d = [list |-> d.list, map |-> d.map]
      /\ d.list \in Seq(Element) /\ Len(d.list) = n - 1
      /\ \A i \in 1..(n - 1) : d.list[i] = IF i = hole THEN c.list[n] ELSE c.list[i]
      /\ d.map = [k \in DOMAIN c.map \ {k1} |-> IF k = k2 THEN hole ELSE c.map[k]]

LEMMA EraseShape ==
  ASSUME NEW c, Consistent(c), NEW k1 \in DOMAIN c.map
  PROVE  ErasedTo(c, k1, Erase(c, k1))
<1> DEFINE n == Len(c.list)
           k2 == c.list[n].key
           hole == c.map[k1]
           list == [c.list EXCEPT ![hole] = c.list[n], ![n] = c.list[hole]]
           map == [c.map EXCEPT ![k1] = n, ![k2] = hole]
           d == Erase(c, k1)
<1> USE DEF Consistent, IsContainer, Has
<1>1. n \in Nat \ {0} /\ hole \in 1..n
  OBVIOUS
<1>2. k2 \in DOMAIN c.map /\ c.map[k2] = n
  BY <1>1
<1>3. d = [list |-> SubSeq(list, 1, n - 1), map |-> [k \in DOMAIN c.map \ {k1} |-> map[k]]]
  BY <1>2 DEF Erase
<1>4. list \in Seq(Element) /\ Len(list) = n
  BY <1>1
<1>5. \A i \in 1..(n - 1) : list[i] = IF i = hole THEN c.list[n] ELSE c.list[i]
  BY <1>1, <1>4
<1>6. /\ d.list \in Seq(Element) /\ Len(d.list) = n - 1
      /\ \A i \in 1..(n - 1) : d.list[i] = list[i]
  <2>1. d.list = SubSeq(list, 1, n - 1)
    BY <1>3
  <2> HIDE DEF list, d
  <2>2. n - 1 \in 0..Len(list)
    BY <1>1, <1>4
  <2> HIDE DEF n
  <2> QED
    BY <1>4, <2>1, <2>2
<1>7. \A k \in DOMAIN c.map \ {k1} : map[k] = IF k = k2 THEN hole ELSE c.map[k]
  BY <1>1, <1>2
<1>8. d.map = [k \in DOMAIN c.map \ {k1} |-> IF k = k2 THEN hole ELSE c.map[k]]
  <2> HIDE DEF map
  <2> QED
    BY <1>3, <1>7
<1> QED
  <2> HIDE DEF list, map, d
  <2>1. d = [list |-> d.list, map |-> d.map]
    BY <1>3
  <2> QED
    BY <1>1, <1>2, <1>5, <1>6, <1>8, <2>1 DEF ErasedTo, d

\* erase keeps list and map in agreement, whichever element it is.
LEMMA EraseConsistent ==
  ASSUME NEW c, Consistent(c), NEW k1
  PROVE  Consistent(Erase(c, k1))
<1> DEFINE n == Len(c.list)
           k2 == c.list[n].key
           hole == c.map[k1]
           d == Erase(c, k1)
<1>1. CASE k1 \notin DOMAIN c.map
  BY <1>1 DEF Erase, Has
<1>2. CASE k1 \in DOMAIN c.map
  <2>0. ErasedTo(c, k1, d)
    BY <1>2, EraseShape
  <2>1. /\ n \in Nat \ {0} /\ hole \in 1..n /\ k2 \in DOMAIN c.map /\ c.map[k2] = n
        /\ d = [list |-> d.list, map |-> d.map]
        /\ d.list \in Seq(Element) /\ Len(d.list) = n - 1
        /\ \A i \in 1..(n - 1) : d.list[i] = IF i = hole THEN c.list[n] ELSE c.list[i]
        /\ d.map = [k \in DOMAIN c.map \ {k1} |-> IF k = k2 THEN hole ELSE c.map[k]]
    BY <2>0 DEF ErasedTo
  <2> HIDE DEF d
  <2> USE DEF Consistent, IsContainer
  <2>2. IsContainer(d)
    BY <2>1
  <2>3. \A k \in DOMAIN d.map : d.map[k] \in 1..Len(d.list) /\ d.list[d.map[k]].key = k
    <3> SUFFICES ASSUME NEW k \in DOMAIN d.map
                 PROVE  d.map[k] \in 1..(n - 1) /\ d.list[d.map[k]].key = k
      BY <2>1
    <3>1. k \in DOMAIN c.map /\ k # k1 /\ c.map[k] \in 1..n /\ c.list[c.map[k]].key = k
      BY <2>1
    <3>2. c.map[k] # hole /\ (k # k2 => c.map[k] # n)
      BY <3>1, <1>2, <2>1
    <3>3. k = k2 => hole # n
      BY <3>1, <1>2, <2>1
    <3>4. CASE k = k2
      <4>1. d.map[k] = hole /\ hole \in 1..(n - 1) /\ d.list[hole] = c.list[n]
        BY <2>1, <3>3, <3>4
      <4> QED
        BY <3>4, <4>1
    <3>5. CASE k # k2
      <4>1. d.map[k] = c.map[k] /\ c.map[k] \in 1..(n - 1)
        BY <2>1, <3>1, <3>2, <3>5
      <4>2. d.list[c.map[k]] = c.list[c.map[k]]
        BY <2>1, <3>2, <4>1
      <4> QED
        BY <3>1, <4>1, <4>2
    <3> QED
      BY <3>4, <3>5
  <2>4. \A i \in 1..Len(d.list) : d.list[i].key \in DOMAIN d.map /\ d.map[d.list[i].key] = i
    <3> SUFFICES ASSUME NEW i \in 1..(n - 1)
                 PROVE  d.list[i].key \in DOMAIN d.map /\ d.map[d.list[i].key] = i
      BY <2>1
    <3>1. c.list[i].key \in DOMAIN c.map /\ c.map[c.list[i].key] = i
      BY <2>1
    <3>2. CASE i = hole
      <4>1. d.list[i] = c.list[n] /\ hole # n
        BY <2>1, <3>2
      <4>2. k2 \in DOMAIN c.map \ {k1}
        BY <2>1, <4>1
      <4>3. d.list[i].key = k2 /\ d.map[k2] = hole
        BY <2>1, <4>1, <4>2
      <4> QED
        BY <2>1, <3>2, <4>2, <4>3
    <3>3. CASE i # hole
      <4>1. d.list[i] = c.list[i] /\ i # n
        BY <2>1, <3>3
      <4>2. c.list[i].key # k1 /\ c.list[i].key # k2
        BY <2>1, <3>1, <3>3, <4>1
      <4>3. d.map[c.list[i].key] = c.map[c.list[i].key] /\ c.list[i].key \in DOMAIN d.map
        BY <2>1, <3>1, <4>2
      <4> QED
        BY <3>1, <4>1, <4>3
    <3> QED
      BY <3>2, <3>3
  <2> QED
    BY <2>2, <2>3, <2>4 DEF d
<1> QED
  BY <1>1, <1>2

\* The only element erase moves is the last one, to the hole.
LEMMA EraseMoves ==
  ASSUME NEW c, Consistent(c), NEW k1
  PROVE  LET d == Erase(c, k1)
         IN  \A k \in DOMAIN c.map \cap DOMAIN d.map :
               \/ d.map[k] = c.map[k]
               \/ /\ c.map[k] = Len(c.list)
                  /\ Len(d.list) = Len(c.list) - 1
                  /\ d.map[k] <= Len(d.list)
<1> DEFINE n == Len(c.list)
           k2 == c.list[n].key
           hole == c.map[k1]
           d == Erase(c, k1)
<1>1. CASE k1 \notin DOMAIN c.map
  BY <1>1 DEF Erase, Has
<1>2. CASE k1 \in DOMAIN c.map
  <2>0. ErasedTo(c, k1, d)
    BY <1>2, EraseShape
  <2>1. /\ n \in Nat \ {0} /\ hole \in 1..n /\ k2 \in DOMAIN c.map /\ c.map[k2] = n
        /\ d = [list |-> d.list, map |-> d.map]
        /\ d.list \in Seq(Element) /\ Len(d.list) = n - 1
        /\ \A i \in 1..(n - 1) : d.list[i] = IF i = hole THEN c.list[n] ELSE c.list[i]
        /\ d.map = [k \in DOMAIN c.map \ {k1} |-> IF k = k2 THEN hole ELSE c.map[k]]
    BY <2>0 DEF ErasedTo
  <2>2. c.list[hole].key = k1
    BY <1>2 DEF Consistent
  <2> HIDE DEF d
  <2> SUFFICES ASSUME NEW k \in DOMAIN c.map \cap DOMAIN d.map
               PROVE  \/ d.map[k] = c.map[k]
                      \/ c.map[k] = n /\ Len(d.list) = n - 1 /\ d.map[k] <= Len(d.list)
    BY DEF d
  <2>3. k # k1 /\ (k = k2 => hole # n)
    BY <2>1, <2>2
  <2> QED
    BY <2>1, <2>3
<1> QED
  BY <1>1, <1>2

\* erase removes its own key and leaves the others.
LEMMA EraseContent ==
  ASSUME NEW c, Consistent(c), NEW k1 \in Keys
  PROVE  Content(Erase(c, k1)) = [Content(c) EXCEPT ![k1] = None]
<1> DEFINE n == Len(c.list)
           k2 == c.list[n].key
           hole == c.map[k1]
           d == Erase(c, k1)
<1>1. CASE k1 \notin DOMAIN c.map
  BY <1>1 DEF Erase, Has, Content, ValueOf
<1>2. CASE k1 \in DOMAIN c.map
  <2>0. ErasedTo(c, k1, d)
    BY <1>2, EraseShape
  <2>1. /\ n \in Nat \ {0} /\ hole \in 1..n /\ k2 \in DOMAIN c.map /\ c.map[k2] = n
        /\ d = [list |-> d.list, map |-> d.map]
        /\ \A i \in 1..(n - 1) : d.list[i] = IF i = hole THEN c.list[n] ELSE c.list[i]
        /\ d.map = [k \in DOMAIN c.map \ {k1} |-> IF k = k2 THEN hole ELSE c.map[k]]
    BY <2>0 DEF ErasedTo
  <2> HIDE DEF d
  <2> SUFFICES ASSUME NEW k \in Keys
               PROVE  ValueOf(d, k) = IF k = k1 THEN None ELSE ValueOf(c, k)
    BY DEF Content, d
  <2>2. CASE k = k1 \/ k \notin DOMAIN c.map
    BY <2>1, <2>2 DEF ValueOf, Has
  <2>3. CASE k # k1 /\ k \in DOMAIN c.map
    <3>0. /\ c.map[k] \in 1..n /\ c.list[c.map[k]].key = k
          /\ c.list[hole].key = k1
      BY <1>2, <2>3 DEF Consistent
    <3>1. /\ c.map[k] # hole /\ (k # k2 => c.map[k] # n) /\ (k = k2 => hole # n)
      BY <2>1, <2>3, <3>0
    <3>2. k \in DOMAIN d.map /\ d.list[d.map[k]] = c.list[c.map[k]]
      BY <2>1, <2>3, <3>0, <3>1
    <3> QED
      BY <2>3, <3>2 DEF ValueOf, Has, Find
  <2> QED
    BY <2>2, <2>3
<1> QED
  BY <1>1, <1>2

=============================================================================
