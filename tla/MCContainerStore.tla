-------------------------- MODULE MCContainerStore --------------------------
(* TLC instance of ContainerStore: three keys, so that an erased element can  *)
(* be first, middle or last, and two values, so that overwriting shows.       *)
EXTENDS ContainerStore

MCKeys == 1..3

=============================================================================
