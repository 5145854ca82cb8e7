----------------------------- MODULE KeyedStores -----------------------------
(***************************************************************************)
(* What Container.h promises its users: a container is a partial function  *)
(* from keys to values.  Two of them, because swap exchanges two.          *)
(***************************************************************************)
CONSTANTS Keys, Values, None

VARIABLES unit,   \* the content of a Unit's container
          fresh   \* the content of the container a collection PUT builds

vars == <<unit, fresh>>

Nothing == [k \in Keys |-> None]

Init == unit = Nothing /\ fresh = Nothing

SetUnit(k, v)  == unit'  = [unit EXCEPT ![k] = v]   /\ UNCHANGED fresh
SetFresh(k, v) == fresh' = [fresh EXCEPT ![k] = v]  /\ UNCHANGED unit
Unset(k)       == unit'  = [unit EXCEPT ![k] = None] /\ UNCHANGED fresh
Clear          == unit'  = Nothing /\ UNCHANGED fresh
Swap           == unit'  = fresh /\ fresh' = unit
Drop           == fresh' = Nothing /\ UNCHANGED unit

Next ==
  \/ \E k \in Keys, v \in Values : SetUnit(k, v) \/ SetFresh(k, v)
  \/ \E k \in Keys : Unset(k)
  \/ Clear
  \/ Swap
  \/ Drop

Spec == Init /\ [][Next]_vars

=============================================================================
