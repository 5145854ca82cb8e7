------------------------------ MODULE MCSystem ------------------------------
(* TLC instance of System: a Writer and a JsonWriter of the same DPM, which     *)
(* share a certificate, and a process with the DPM_GID of that DPM but the       *)
(* certificate of another, with or without the plugin.                         *)
EXTENDS System

CONSTANTS w, j, m, A, B

MCProgram == (w :> "Writer") @@ (j :> "JsonWriter") @@ (m :> "Writer")
MCGid == [p \in {w, j, m} |-> A]
MCSubject == (w :> A) @@ (j :> A) @@ (m :> B)
MCTopicType == [known |-> TRUE, dpmgid |-> "key", text |-> TRUE]

Full == {"name", "description"}
Partial == {"name"}
MCValues == {Full, Full \cup {"url"}, Partial}
Entry(i, v) == [id |-> i, val |-> v]
MCFiles ==
  {<<Entry("1", Full), Entry("1", Partial)>>,
   <<Entry("", Full), Unreadable, Entry("1", Full)>>}

=============================================================================
