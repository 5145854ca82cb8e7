------------------------------- MODULE HsdsApi -------------------------------
(***************************************************************************)
(* What the HTTP API of the Writer promises about one endpoint, without     *)
(* threads, containers or DDS: a map of elements and a counter.  Each       *)
(* successful modifying request is one step that has the request's whole    *)
(* effect and counts one; a request that fails may leave each key it names   *)
(* at its old value or at one it asked for, touches no other key and is not  *)
(* counted.  Whatever enters has passed the checks of the API (Elements).    *)
(***************************************************************************)
EXTENDS Integers, Sequences, FiniteSetsExt

CONSTANTS Keys, None,
          Elements,   \* the elements the checks admit
          MaxBody     \* the longest list a request carries

VARIABLES store,        \* key -> value or None
          transaction   \* modifying operations completed

vars == <<store, transaction>>

Bodies == UNION {[1..n -> Elements] : n \in 0..MaxBody}

Named(body) == {body[i].key : i \in DOMAIN body}

Asked(body, k) == {body[i].val : i \in {j \in DOMAIN body : body[j].key = k}}

\* A key listed twice ends with its last element.
LastOf(body, k) == body[Max({i \in DOMAIN body : body[i].key = k})].val

Init == store = [k \in Keys |-> None] /\ transaction = 0

Count == transaction' = transaction + 1

\* PUT of an element, POST of a list
Merge(body) ==
  /\ store' = [k \in Keys |-> IF k \in Named(body) THEN LastOf(body, k) ELSE store[k]]
  /\ Count

\* PUT of a collection
Replace(body) ==
  /\ store' = [k \in Keys |-> IF k \in Named(body) THEN LastOf(body, k) ELSE None]
  /\ Count

\* DELETE of an element, which must exist
Remove(k) ==
  /\ store[k] # None
  /\ store' = [store EXCEPT ![k] = None]
  /\ Count

\* DELETE of a collection
RemoveAll == store' = [k \in Keys |-> None] /\ Count

FailMerge(body) ==
  /\ store' \in [Keys -> {None} \cup {e.val : e \in Elements}]
  /\ \A k \in Keys : store'[k] \in {store[k]} \cup Asked(body, k)
  /\ UNCHANGED transaction

FailRemove(k) ==
  /\ store' = [store EXCEPT ![k] = None]
  /\ UNCHANGED transaction

Next ==
  \/ \E body \in Bodies : Merge(body) \/ Replace(body) \/ FailMerge(body)
  \/ \E k \in Keys : Remove(k) \/ FailRemove(k)
  \/ RemoveAll

Spec == Init /\ [][Next]_vars

=============================================================================
