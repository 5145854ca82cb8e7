----------------------------- MODULE MCLifecycle -----------------------------
(* TLC instance of Lifecycle: every program, two units, any one environment   *)
(* variable missing or none.                                                 *)
EXTENDS Lifecycle

MCPrograms == Hsds \cup TimeWriters \cup TimeReaders

=============================================================================
