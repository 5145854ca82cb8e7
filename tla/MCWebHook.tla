----------------------------- MODULE MCWebHook -----------------------------
(* TLC instance of WebHook: two collections, one with two elements, so that   *)
(* an element can be lost with, or blocked by, another of its collection.     *)
EXTENDS WebHook

MCKeys == 1..3
MCCollections == <<"service", "organization">>
MCCollectionOf == [k \in MCKeys |-> IF k = 3 THEN "organization" ELSE "service"]

=============================================================================
