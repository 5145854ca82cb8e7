------------------------------ MODULE MCWriter ------------------------------
(* TLC instances of the Writer.  Key 3 belongs to another dpmgid and "bad"    *)
(* lacks a mandatory field; keys 1 and 2 are what a request may change.       *)
EXTENDS WriterProperties

MCKeys == 1..3
MCOwn == 1..2
GuardedOps == AllOps \ {"PUTALL", "GETALL"}

=============================================================================
