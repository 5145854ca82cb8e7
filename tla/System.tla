------------------------------- MODULE System -------------------------------
(***************************************************************************)
(* The programs together, on one topic: Writers and JsonWriters publish        *)
(* elements, the Community access control decides on both ends of DDS, and a    *)
(* Reader keeps what reaches it.  Processes crash, stop and start again.        *)
(*                                                                          *)
(* Handlers and callbacks are whole actions here: WriterService, ReaderService  *)
(* and Lifecycle have their steps.  CREATE_WRITERS is not 0.  DDS is external:   *)
(* RELIABLE, TRANSIENT_LOCAL, SHARED ownership, the last sample of each         *)
(* instance kept on both ends; what is unregistered is disposed too; the        *)
(* instances of a process that is gone lose its writer when its lease expires.  *)
(***************************************************************************)
EXTENDS Integers, Sequences, Schema, AccessControl

CONSTANTS Publishers,
          Program,      \* publisher -> "Writer" or "JsonWriter"
          Gid,          \* publisher -> its DPM_GID
          Foreign,      \* publishers that may run without the plugin
          Type,         \* of the topic
          Gids, Ids,    \* of elements; NoId is the empty one
          NoId, NoGid,
          Values,       \* sets of the fields that are not empty
          None,
          Files,        \* what JsonWriters may find: sequences of entries
          Unreadable,   \* an entry that is not an element
          MaxChanges,   \* bound: requests, starts and ends of processes
          MaxFaults,    \* bound: calls of DDS that fail
          MaxRestarts   \* bound: restarts of the Reader

Keys == Gids \X Ids

ASSUME ProcessAssumption ==
  /\ Program \in [Publishers -> {"Writer", "JsonWriter"}]
  /\ Gid \in [Publishers -> Gids \ {NoGid}]
  /\ Foreign \subseteq Publishers
ASSUME EntriesAssumption ==
  \A f \in Files :
    /\ f \in Seq({f[i] : i \in DOMAIN f})
    /\ \A i \in DOMAIN f : f[i] = Unreadable \/ (f[i].id \in Ids /\ f[i].val \in Values)

VARIABLES installed,   \* has the plugin
          alive,       \* is running
          unit,        \* its container
          registered,  \* its instances on the topic, with their last samples
          missed,      \* history: where a failing call left unit and topic apart
          sent,        \* the instances with something under way to the Reader
          file, next,  \* of a JsonWriter: its file, and the entry it reads next
          writersOf,   \* at the Reader: the writers of each instance
          cache,       \* at the Reader: the last sample, None when not alive
          arrived,     \* the instances with a sample not yet taken
          container,   \* the Reader's
          changes, faults, restarts,  \* what the bounds count
          disowned     \* history: disposed by one process while another has it

process == <<alive, unit, registered, missed, file, next>>
reader == <<writersOf, cache, arrived, container, disowned>>
vars == <<installed, process, sent, reader, changes, faults, restarts>>

Nothing == [k \in Keys |-> None]
Incarnations == {"now", "before"}  \* since the last start, or earlier

Init ==
  /\ installed \in {f \in [Publishers -> BOOLEAN] : \A p \in Publishers \ Foreign : f[p]}
  /\ alive = [p \in Publishers |-> FALSE]
  /\ unit = [p \in Publishers |-> Nothing]
  /\ registered = [p \in Publishers |-> Nothing]
  /\ sent = [p \in Publishers |-> {}] /\ missed = [p \in Publishers |-> {}]
  /\ file = [p \in Publishers |-> << >>] /\ next = [p \in Publishers |-> 1]
  /\ writersOf = [k \in Keys |-> {}] /\ cache = Nothing
  /\ arrived = {} /\ container = Nothing /\ disowned = {}
  /\ changes = 0 /\ faults = 0 /\ restarts = 0

Change == changes < MaxChanges /\ changes' = changes + 1
Fault == faults < MaxFaults /\ faults' = faults + 1

-----------------------------------------------------------------------------
(* Publishers                                                                *)

\* main got through its startup: all is empty, the files are still to be read.
Start(p) ==
  /\ Change
  /\ ~alive[p]
  /\ alive' = [alive EXCEPT ![p] = TRUE]
  /\ IF Program[p] = "JsonWriter"
     THEN \E f \in Files : file' = [file EXCEPT ![p] = f]
     ELSE UNCHANGED file
  /\ next' = [next EXCEPT ![p] = 1]
  /\ UNCHANGED <<installed, unit, registered, missed, sent, reader, faults, restarts>>

\* A crash, or the end of main: nothing was kept, what is under way is lost.
End(p) ==
  /\ Change
  /\ alive[p]
  /\ alive' = [alive EXCEPT ![p] = FALSE]
  /\ unit' = [unit EXCEPT ![p] = Nothing]
  /\ registered' = [registered EXCEPT ![p] = Nothing]
  /\ sent' = [sent EXCEPT ![p] = {}] /\ missed' = [missed EXCEPT ![p] = {}]
  /\ writersOf' = [k \in Keys |-> {IF o = <<p, "now">> THEN <<p, "before">> ELSE o : o \in writersOf[k]}]
  /\ UNCHANGED <<installed, file, next, cache, arrived, container, disowned, faults, restarts>>

\* The topic has v of p now, or with None no instance any more.
Publish(p, k, v) ==
  /\ registered' = [registered EXCEPT ![p][k] = v]
  /\ sent' = [sent EXCEPT ![p] = @ \cup {k}]

\* DataWriter::write, of what the container has got.
Write(p, k, v) ==
  /\ IF LocallyAllowed(installed[p], p, k[1])
     THEN Publish(p, k, v)
     ELSE UNCHANGED <<registered, sent>>
  /\ missed' = [missed EXCEPT ![p] = @ \ {k}]
  /\ UNCHANGED faults

\* DataWriter::unregister_instance, of what the container has lost.
Unregister(p, k) ==
  /\ IF registered[p][k] # None
     THEN Publish(p, k, None)
     ELSE UNCHANGED <<registered, sent>>
  /\ missed' = [missed EXCEPT ![p] = @ \ {k}]
  /\ UNCHANGED faults

\* Either of them returns an error though the process may: the topic stays.
CallFails(p, k) ==
  /\ Fault
  /\ LocallyAllowed(installed[p], p, k[1])
  /\ missed' = [missed EXCEPT ![p] = @ \cup {k}]
  /\ UNCHANGED <<registered, sent>>

\* Mutant of InsertAndWrite: an element of a known key is taken for unchanged.
InsertUnlessKnown(p, k, v) ==
  IF unit[p][k] # None
  THEN UNCHANGED <<unit, registered, missed, sent, faults>>
  ELSE /\ unit' = [unit EXCEPT ![p][k] = v]
       /\ Write(p, k, v) \/ CallFails(p, k)

\* insert_and_write: the element is kept even when the write is refused or fails.
InsertAndWrite(p, k, v) ==
  IF unit[p][k] = v
  THEN UNCHANGED <<unit, registered, missed, sent, faults>>
  ELSE /\ unit' = [unit EXCEPT ![p][k] = v]
       /\ Write(p, k, v) \/ CallFails(p, k)

\* Mutant of UnregisterAndErase: the instance stays.
EraseOnly(p, k) ==
  /\ unit' = [unit EXCEPT ![p][k] = None]
  /\ missed' = [missed EXCEPT ![p] = @ \ {k}]
  /\ UNCHANGED <<registered, sent, faults>>

\* unregister_and_erase: erased even if it was not registered, or stays so.
UnregisterAndErase(p, k) ==
  /\ unit' = [unit EXCEPT ![p][k] = None]
  /\ Unregister(p, k) \/ (registered[p][k] # None /\ CallFails(p, k))

Complete(k, v) == k[2] # NoId /\ ApiFields[Type] \subseteq v

\* Mutant of CheckInput: check_common is all.
CheckInputCommonOnly(p, k, v) == k[1] # NoGid /\ k[1] = Gid[p]

\* check_input of the HTTP API, 400 if it fails
CheckInput(p, k, v) == k[1] # NoGid /\ k[1] = Gid[p] /\ Complete(k, v)

\* An element arrives by PUT or POST, alone or in a list.
Put(p, k, v) ==
  /\ Change
  /\ alive[p] /\ Program[p] = "Writer"
  /\ CheckInput(p, k, v)
  /\ InsertAndWrite(p, k, v)
  /\ UNCHANGED <<installed, alive, file, next, reader, restarts>>

\* DELETE of an element, or of all; or it is missing in the list of a PUT.
Delete(p, k) ==
  /\ Change
  /\ alive[p] /\ Program[p] = "Writer"
  /\ unit[p][k] # None
  /\ UnregisterAndErase(p, k)
  /\ UNCHANGED <<installed, alive, file, next, reader, restarts>>

\* PUT or DELETE of the collection, when DDS fails one of its calls: what came before
\* that is done on the topic, the container is kept.  The element whose call fails
\* is another one, which need not be of Keys.
StopHalfWay(p, k) ==
  /\ Change /\ Fault
  /\ alive[p] /\ Program[p] = "Writer"
  /\ \/ \E v \in Values : /\ CheckInput(p, k, v) /\ v # unit[p][k]
                          /\ LocallyAllowed(installed[p], p, k[1])
                          /\ Publish(p, k, v)
     \/ /\ unit[p][k] # None /\ registered[p][k] # None
        /\ Publish(p, k, None)
  /\ missed' = [missed EXCEPT ![p] = @ \cup {k}]
  /\ UNCHANGED <<installed, alive, unit, file, next, reader, restarts>>

\* load_and_write, one turn of its loop: the dpmgid of the file is overwritten,
\* the result of check_element and that of the write are not looked at, and an
\* entry that cannot be read ends the file.
LoadNext(p) ==
  LET entry == file[p][next[p]]
  IN  /\ alive[p] /\ Program[p] = "JsonWriter"
      /\ next[p] <= Len(file[p])
      /\ IF entry = Unreadable
         THEN /\ next' = [next EXCEPT ![p] = Len(file[p]) + 1]
              /\ UNCHANGED <<unit, registered, missed, sent, faults>>
         ELSE /\ next' = [next EXCEPT ![p] = @ + 1]
              /\ InsertAndWrite(p, <<Gid[p], entry.id>>, entry.val)
      /\ UNCHANGED <<installed, alive, file, reader, changes, restarts>>

-----------------------------------------------------------------------------
(* DDS and the Reader                                                        *)

\* A sample reaches the Reader's DDS, which asks the access control first.
DeliverSample(p, k) ==
  /\ k \in sent[p] /\ registered[p][k] # None
  /\ sent' = [sent EXCEPT ![p] = @ \ {k}]
  /\ IF RemotelyAllowed(p, k[1])
     THEN /\ writersOf' = [writersOf EXCEPT ![k] = @ \cup {<<p, "now">>}]
          /\ cache' = [cache EXCEPT ![k] = [val |-> registered[p][k], by |-> p]]
          /\ arrived' = arrived \cup {k}
          /\ disowned' = disowned \ {k}
     ELSE UNCHANGED <<writersOf, cache, arrived, disowned>>
  /\ UNCHANGED <<installed, process, container, changes, faults, restarts>>

\* A disposal likewise; it ends the instance for every writer.
DeliverDisposal(p, k) ==
  /\ k \in sent[p] /\ registered[p][k] = None
  /\ sent' = [sent EXCEPT ![p] = @ \ {k}]
  /\ IF RemotelyAllowed(p, k[1])
     THEN /\ writersOf' = [writersOf EXCEPT ![k] = @ \ {<<p, "now">>}]
          /\ cache' = [cache EXCEPT ![k] = None]
          /\ arrived' = arrived \cup {k}
          /\ disowned' = IF \E q \in Publishers \ {p} : <<q, "now">> \in writersOf[k]
                         THEN disowned \cup {k} ELSE disowned
     ELSE UNCHANGED <<writersOf, cache, arrived, disowned>>
  /\ UNCHANGED <<installed, process, container, changes, faults, restarts>>

\* The lease of a process that ended: instances without a writer are not alive.
Expire(p) ==
  LET left  == [k \in Keys |-> writersOf[k] \ {<<p, "before">>}]
      ended == {k \in Keys : writersOf[k] # {} /\ left[k] = {}}
  IN  /\ left # writersOf
      /\ writersOf' = left
      /\ cache' = [k \in Keys |-> IF k \in ended THEN None ELSE cache[k]]
      /\ arrived' = arrived \cup ended
      /\ UNCHANGED <<installed, process, sent, container, disowned, changes, faults, restarts>>

\* on_data_available
Take ==
  /\ arrived # {}
  /\ container' = [k \in Keys |-> IF k \in arrived THEN cache[k] ELSE container[k]]
  /\ arrived' = {}
  /\ UNCHANGED <<installed, process, sent, writersOf, cache, disowned, changes, faults, restarts>>

\* The Reader starts again; the writers send it what they have.
ReaderRestart ==
  /\ restarts < MaxRestarts
  /\ restarts' = restarts + 1
  /\ writersOf' = [k \in Keys |-> {}] /\ cache' = Nothing
  /\ arrived' = {} /\ container' = Nothing /\ disowned' = {}
  /\ sent' = [p \in Publishers |-> {k \in Keys : registered[p][k] # None}]
  /\ UNCHANGED <<installed, process, changes, faults>>

-----------------------------------------------------------------------------

Deliver == \E p \in Publishers, k \in Keys : DeliverSample(p, k) \/ DeliverDisposal(p, k)

Next ==
  \/ \E p \in Publishers :
       \/ Start(p) \/ End(p) \/ LoadNext(p) \/ Expire(p)
       \/ \E k \in Keys : Delete(p, k) \/ StopHalfWay(p, k) \/ \E v \in Values : Put(p, k, v)
  \/ Deliver
  \/ Take
  \/ ReaderRestart

\* A JsonWriter reads on, DDS is reliable, leases expire, the Reader takes.
Spec ==
  /\ Init /\ [][Next]_vars
  /\ \A p \in Publishers :
       /\ WF_vars(LoadNext(p)) /\ WF_vars(Expire(p))
       /\ \A k \in Keys : WF_vars(DeliverSample(p, k)) /\ WF_vars(DeliverDisposal(p, k))
  /\ WF_vars(Take)

-----------------------------------------------------------------------------
(* What makes it correct                                                     *)

Shown == {None} \cup [val : Values, by : Publishers]

\* insert_and_write and unregister_and_erase (Application.h:172-218) keep container and
\* topic together: unless the last call for a key failed, its instance is on the topic
\* with the element that is stored, and not at all where the process may not write.
TopicFollows ==
  \A p \in Publishers, k \in Keys :
    k \notin missed[p] =>
      registered[p][k] = IF LocallyAllowed(installed[p], p, k[1]) THEN unit[p][k] ELSE None

\* Types, and that the topic follows.
TypeOK ==
  /\ installed \in [Publishers -> BOOLEAN] /\ alive \in [Publishers -> BOOLEAN]
  /\ unit \in [Publishers -> [Keys -> Values \cup {None}]]
  /\ registered \in [Publishers -> [Keys -> Values \cup {None}]]
  /\ TopicFollows
  /\ sent \in [Publishers -> SUBSET Keys] /\ missed \in [Publishers -> SUBSET Keys]
  /\ file \in [Publishers -> Files \cup {<< >>}]
  /\ \A p \in Publishers : next[p] \in 1..Len(file[p]) + 1
  /\ writersOf \in [Keys -> SUBSET (Publishers \X Incarnations)]
  /\ cache \in [Keys -> Shown] /\ container \in [Keys -> Shown]
  /\ arrived \subseteq Keys /\ disowned \subseteq Keys

\* CommunitySecurityPlugin.cpp:90: "dpmgid from sample does not match SN from
\* subject name".  Whatever processes without the plugin, or with another's
\* DPM_GID, publish, an element the Reader shows was published by the holder of a
\* certificate for its dpmgid.
OnlyCertified ==
  \A k \in Keys : container[k] # None => Subject[container[k].by] = k[1]

\* The HTTP API lets nothing incomplete onto the topic (check_input,
\* ResourceBase.h:97-405): an element the Reader shows without its id or a required
\* field can only have come from a JsonWriter's file, whose check has no effect
\* (JsonWriter.cpp:329), even where the two publish the same key.
IncompleteOnlyFromFiles ==
  \A k \in Keys :
    container[k] # None /\ ~Complete(k, container[k].val) => Program[container[k].by] = "JsonWriter"

\* The entries of a file that count: those before the first unreadable one that
\* have been read.
ReadOf(p) == {i \in 1..next[p] - 1 : \A j \in 1..i : file[p][j] # Unreadable}

\* README.md:3 of HSDS/JsonWriter: a dataset is published as it is in the file.
\* At every moment the topic has, for each id, the last entry read so far.  The
\* exception is an id whose last write failed: that is logged (JsonWriter.cpp:331) and
\* an equal entry later on is no change (Application.h:179), so nothing repairs it.
FileIsPublished ==
  \A p \in Publishers :
    alive[p] /\ Program[p] = "JsonWriter" /\ Subject[p] = Gid[p] =>
      \A id \in Ids :
        LET read == {i \in ReadOf(p) : file[p][i].id = id}
        IN  \/ <<Gid[p], id>> \in missed[p]
            \/ registered[p][<<Gid[p], id>>] =
                 IF read = {} THEN None
                 ELSE file[p][CHOOSE i \in read : \A j \in read : j <= i].val

\* The processes that have an element on the topic and may.
Owners(k) == {p \in Publishers : registered[p][k] # None /\ Subject[p] = k[1]}

\* The Reader has a sample of a process that is gone since, and another keeps the
\* instance alive: its own sample came earlier and does not come again.
Outlived(k) ==
  /\ cache[k] # None /\ writersOf[k] # {}
  /\ \A i \in Incarnations : <<cache[k].by, i>> \notin writersOf[k]

Settled(k) ==
  IF Owners(k) = {}
  THEN container[k] = None
  ELSE \/ k \in disowned
       \/ /\ container[k] # None
          /\ \/ /\ container[k].by \in Owners(k)
                /\ container[k].val = registered[container[k].by][k]
             \/ Outlived(k)

\* Once nothing changes any more, the Reader shows the elements that the running
\* processes have on the topic and may, none else, and each with the value that one
\* of them has there: through failing calls, crashes of publishers, restarts of
\* either side and a stranger's disposals (Reader.cpp:151-155 and the DDS setup of
\* Application.cpp:602-716).  The exceptions need two processes with one element: one
\* has deleted it, or one has ended after it was the last to write it.
Converges == <>[](\A k \in Keys : Settled(k))

=============================================================================
