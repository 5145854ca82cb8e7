---------------------------- MODULE AccessControl ----------------------------
(***************************************************************************)
(* The Community security plugin: beside what the built-in access control     *)
(* decides, a writer may register or dispose an instance only if the dpmgid in *)
(* its key is the SN of the subject in the writer's certificate.  The local    *)
(* check runs in the writing process, the remote one in every reader.  An       *)
(* unregistration is not overridden, but DDS disposes what it unregisters.      *)
(***************************************************************************)
CONSTANTS Subject,     \* participant -> the SN of its certificate, or NoSN
          NoSN,
          TopicType    \* what the type support tells of the member dpmgid

\* The topic's type: known at all, with a member dpmgid that is a key and text.
TypeInfo == [known : BOOLEAN, dpmgid : {"absent", "field", "key"}, text : BOOLEAN]

ASSUME TypeAssumption == TopicType \in TypeInfo

\* Mutant of CommonCheck: a certificate with some SN will do.
CommonCheckOfAnySubject(p, dpmgid) ==
  /\ TopicType.known /\ TopicType.dpmgid = "key" /\ TopicType.text
  /\ Subject[p] # NoSN

\* common_check
CommonCheck(p, dpmgid) ==
  /\ TopicType.known /\ TopicType.dpmgid = "key" /\ TopicType.text
  /\ Subject[p] # NoSN
  /\ Subject[p] = dpmgid

\* The built-in checks are external and taken to agree: what is asked here is
\* what the plugin adds, in a process that has installed it as the default.
LocallyAllowed(installed, p, dpmgid) == installed => CommonCheck(p, dpmgid)

\* In a Reader, which installs it.
RemotelyAllowed(p, dpmgid) == CommonCheck(p, dpmgid)

=============================================================================
