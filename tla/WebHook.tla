------------------------------- MODULE WebHook -------------------------------
(***************************************************************************)
(* The web hook of the Reader (Reader.cpp): every sample the Reader takes   *)
(* from DDS goes into its container and, as a PUT or a DELETE, to the server *)
(* at SERVER_URL, whose API is that of the Writer.  The Reader counts its    *)
(* own requests, compares its count with the Transaction header of each      *)
(* answer and of a periodic GET, and on a difference sends every collection. *)
(*                                                                          *)
(* on_data_available, and the poll of main, hold Application::mutex_ from    *)
(* the first read to the last HTTP answer, so at most one of them is under    *)
(* way: it is what batch, resync and method describe.                        *)
(*                                                                          *)
(* DDS and the server are external.  The DDS reader keeps the last sample of *)
(* each instance; the server runs the handlers of HsdsResource.h, each as a   *)
(* whole and without writers, and may ask for a token as they do.            *)
(***************************************************************************)
EXTENDS Integers, Sequences

CONSTANTS Keys, Values, None,
          Refused,          \* the values the server's check_input refuses
          Collections,      \* the endpoints, in the order synchronize sends them
          CollectionOf,     \* the endpoint of each key
          MaxSamples,       \* bound: changes of the topic
          MaxLost,          \* bound: HTTP calls that fail
          MaxRestarts,      \* bound: restarts of the server or the Reader
          TokenRequired,    \* the server asks for a token
          MaxTransaction    \* bound: the Reader's counter when it polls

ASSUME NoneAssumption == None \notin Values
ASSUME RefusedAssumption == Refused \subseteq Values
ASSUME CollectionsAssumption ==
  LET endpoints == {Collections[i] : i \in DOMAIN Collections}
  IN  Collections \in Seq(endpoints) /\ CollectionOf \in [Keys -> endpoints]

VARIABLES topic,        \* instance -> its value, None when no writer has it
          arrived,      \* the instances with a sample not yet taken
          container,    \* the Reader's containers, of all collections
          transaction,  \* the Reader's Application::transaction_
          batch,        \* taken samples still to be handled: key -> value or None
          resync,       \* collections synchronize has still to send
          method,       \* the HTTP method the curl handle it uses will send
          server,       \* the server's containers
          serverTransaction,
          samples, lost, restarts,  \* what the bounds count
          lastSync,     \* history: the method of the last resynchronization
          adopted       \* history: the Reader's count is the server's since its start

resyncing == <<resync, method, lastSync, adopted>>
reader == <<container, transaction, batch, resyncing>>
serverVars == <<server, serverTransaction>>
vars == <<topic, arrived, reader, serverVars, samples, lost, restarts>>

Nothing == [k \in Keys |-> None]

Init ==
  /\ topic = Nothing /\ arrived = {}
  /\ container = Nothing /\ transaction = 0
  /\ batch = [k \in {} |-> None] /\ resync = << >> /\ method = "none"
  /\ server = Nothing /\ serverTransaction = 0
  /\ samples = 0 /\ lost = 0 /\ restarts = 0
  /\ lastSync = "none" /\ adopted = TRUE

-----------------------------------------------------------------------------
(* The environment: writers of the topic, and the server's process           *)

Publish(k) ==
  /\ samples < MaxSamples
  /\ samples' = samples + 1
  /\ \E v \in Values : topic' = [topic EXCEPT ![k] = v]
  /\ arrived' = arrived \cup {k}
  /\ UNCHANGED <<reader, serverVars, lost, restarts>>

Unregister(k) ==
  /\ samples < MaxSamples
  /\ topic[k] # None
  /\ samples' = samples + 1
  /\ topic' = [topic EXCEPT ![k] = None]
  /\ arrived' = arrived \cup {k}
  /\ UNCHANGED <<reader, serverVars, lost, restarts>>

\* The server starts again: its containers are empty and its count is 0.
ServerRestart ==
  /\ restarts < MaxRestarts
  /\ restarts' = restarts + 1
  /\ server' = Nothing /\ serverTransaction' = 0
  /\ UNCHANGED <<topic, arrived, reader, samples, lost>>

\* The Reader starts again, and DDS sends it all the instances that have a writer.
ReaderRestart ==
  /\ restarts < MaxRestarts
  /\ restarts' = restarts + 1
  /\ container' = Nothing /\ transaction' = 0
  /\ batch' = [k \in {} |-> None] /\ resync' = << >> /\ method' = "none"
  /\ arrived' = {k \in Keys : topic[k] # None}
  /\ lastSync' = "none" /\ adopted' = FALSE
  /\ UNCHANGED <<topic, serverVars, samples, lost>>

-----------------------------------------------------------------------------
(* The server's handlers.  A refused or impossible request is not counted.   *)

\* is_authorized: the Reader sends no Authorization header.
Authorized(effect) == IF TokenRequired THEN UNCHANGED serverVars ELSE effect

In(c) == {k \in Keys : CollectionOf[k] = c}

Count == serverTransaction' = serverTransaction + 1

PutElement(k, v) ==
  IF v \in Refused
  THEN UNCHANGED serverVars
  ELSE server' = [server EXCEPT ![k] = v] /\ Count

DeleteElement(k) ==
  IF server[k] = None
  THEN UNCHANGED serverVars
  ELSE server' = [server EXCEPT ![k] = None] /\ Count

PutCollection(c, content) ==
  IF \E k \in In(c) : content[k] \in Refused
  THEN UNCHANGED serverVars
  ELSE server' = [k \in Keys |-> IF k \in In(c) THEN content[k] ELSE server[k]] /\ Count

DeleteCollection(c) ==
  server' = [k \in Keys |-> IF k \in In(c) THEN None ELSE server[k]] /\ Count

-----------------------------------------------------------------------------
(* The Reader                                                                *)

Idle == DOMAIN batch = {} /\ resync = << >>

\* Mutant of Take: ALIVE_INSTANCE_STATE in place of ANY_INSTANCE_STATE.
TakeAlive ==
  /\ Idle
  /\ arrived # {}
  /\ batch' = [k \in {l \in arrived : topic[l] # None} |-> topic[k]]
  /\ arrived' = {}
  /\ UNCHANGED <<topic, container, transaction, resyncing, serverVars,
                 samples, lost, restarts>>

\* on_data_available: take, under the lock.
Take ==
  /\ Idle
  /\ arrived # {}
  /\ batch' = [k \in arrived |-> topic[k]]
  /\ arrived' = {}
  /\ UNCHANGED <<topic, container, transaction, resyncing, serverVars,
                 samples, lost, restarts>>

\* An HTTP call throws: the request never reached the server, or it did and
\* the answer was lost.
CallFails(request) ==
  /\ lost < MaxLost
  /\ lost' = lost + 1
  /\ UNCHANGED serverVars \/ request

Resynchronize(count, handle) ==
  /\ transaction' = count
  /\ resync' = Collections
  /\ method' = handle
  /\ lastSync' = handle
  /\ adopted' = TRUE

\* Mutants of Synchronize: the adopted count anticipates one request; the count
\* is adopted and nothing is sent; only a server that is ahead is out of date.
SynchronizeEarly(count, handle) ==
  IF serverTransaction' = count
  THEN transaction' = count /\ UNCHANGED resyncing
  ELSE Resynchronize(serverTransaction' - 1, handle)
AdoptOnly(count, handle) ==
  transaction' = serverTransaction' /\ UNCHANGED resyncing
SynchronizeIfAhead(count, handle) ==
  IF serverTransaction' <= count
  THEN transaction' = count /\ UNCHANGED resyncing
  ELSE Resynchronize(serverTransaction', handle)

\* synchronize, given the Reader's count and the answer's Transaction: equal
\* counts end it, otherwise the server's count is adopted and every collection
\* is sent with the same curl handle.
Synchronize(count, handle) ==
  IF serverTransaction' = count
  THEN transaction' = count /\ UNCHANGED resyncing
  ELSE Resynchronize(serverTransaction', handle)

\* One turn of the loop over the samples: into the container, then to the
\* server.  CURLOPT_CUSTOMREQUEST makes the handle of a gone instance a
\* "DELETE" handle for every later request on it.
Handle(k) ==
  LET gone    == batch[k] = None
      request == Authorized(IF gone THEN DeleteElement(k) ELSE PutElement(k, batch[k]))
  IN  /\ resync = << >>
      /\ container' = [container EXCEPT ![k] = batch[k]]
      /\ batch' = [l \in DOMAIN batch \ {k} |-> batch[l]]
      /\ \/ /\ CallFails(request)
            /\ transaction' = transaction + 1
            /\ UNCHANGED resyncing
         \/ /\ request
            /\ Synchronize(transaction + 1, IF gone THEN "DELETE" ELSE "PUT")
            /\ UNCHANGED lost
      /\ UNCHANGED <<topic, arrived, samples, restarts>>

\* Mutant of SyncCollection: the request is not counted.
SyncUncounted ==
  LET c       == Head(resync)
      request == Authorized(IF method = "DELETE" THEN DeleteCollection(c)
                               ELSE PutCollection(c, container))
  IN  /\ resync # << >>
      /\ resync' = Tail(resync)
      /\ \/ CallFails(request)
         \/ request /\ UNCHANGED lost
      /\ UNCHANGED <<topic, arrived, container, transaction, batch, method, lastSync, adopted, samples,
                     restarts>>

\* sync<T>: one collection, counted before the call and whatever it answers.
SyncCollection ==
  LET c       == Head(resync)
      request == Authorized(IF method = "DELETE" THEN DeleteCollection(c)
                               ELSE PutCollection(c, container))
  IN  /\ resync # << >>
      /\ transaction' = transaction + 1
      /\ resync' = Tail(resync)
      /\ \/ CallFails(request)
         \/ request /\ UNCHANGED lost
      /\ UNCHANGED <<topic, arrived, container, batch, method, lastSync, adopted, samples, restarts>>

\* The wait of main timed out: GET organization?offset=0&count=0.
Poll ==
  /\ Idle
  /\ transaction < MaxTransaction
  /\ UNCHANGED serverVars
  /\ \/ CallFails(UNCHANGED serverVars) /\ UNCHANGED <<transaction, resyncing>>
     \/ Synchronize(transaction, "PUT") /\ UNCHANGED lost
  /\ UNCHANGED <<topic, arrived, container, batch, samples, restarts>>

\* The model's bound, not a step of the Reader: the counter may grow no more.
Capped == Idle /\ transaction >= MaxTransaction /\ UNCHANGED vars

HandleNext == \E k \in DOMAIN batch : Handle(k)

Next ==
  \/ \E k \in Keys : Publish(k) \/ Unregister(k)
  \/ ServerRestart \/ ReaderRestart
  \/ Take
  \/ HandleNext
  \/ SyncCollection
  \/ Poll
  \/ Capped

\* A thread that holds the mutex keeps running and the timer of main keeps
\* firing.  main waits its poll period without the mutex, so a listener that
\* waits for it gets it: hence strong fairness of Take.
Spec ==
  /\ Init /\ [][Next]_vars
  /\ SF_vars(Take) /\ WF_vars(HandleNext) /\ WF_vars(SyncCollection) /\ WF_vars(Poll)

-----------------------------------------------------------------------------

Content == [Keys -> Values \cup {None}]
Methods == {"none", "PUT", "DELETE"}

TypeOK ==
  /\ topic \in Content /\ arrived \subseteq Keys
  /\ container \in Content /\ server \in Content
  /\ transaction \in Nat /\ serverTransaction \in Nat
  /\ batch \in UNION {[K -> Values \cup {None}] : K \in SUBSET Keys}
  /\ \E i \in 0..Len(Collections) : resync = SubSeq(Collections, i + 1, Len(Collections))
  /\ method \in Methods /\ lastSync \in Methods /\ adopted \in BOOLEAN

Synced == server = container

Agree == Idle /\ transaction = serverTransaction

\* README.md:11 of HSDS/Reader: "tracks the state of the web hook server using
\* the Transaction header": when the counts agree the server has what the
\* Reader has.
AgreeMeansSynced == Agree => Synced

\* The same, as long as the last resynchronization, if there was one, did not
\* run on the handle of a DELETE, and unless the Reader has started again and
\* its count met the server's by accident.
AgreeMeansSyncedUnlessDeleted == Agree /\ lastSync # "DELETE" /\ adopted => Synced

\* The Reader never lags behind the server's count (only it sends requests), so
\* a lost call or a restart of the server always shows as a difference.  A Reader
\* that starts again is behind until it has adopted the count.
ReaderCountsAhead == resync = << >> /\ adopted => transaction >= serverTransaction

\* One refused element blocks every later resynchronization of its collection.
Blocked(c) == \E k \in In(c) : container[k] \in Refused

SyncedCollection(c) == \A k \in In(c) : server[k] = container[k]

\* Once the topic is quiet, calls get through and both sides stay up, the poll
\* brings every collection without a refused element to the Reader's content,
\* unless a resynchronization ran on a DELETE handle or a new Reader's count met
\* the server's by accident (or the model's bound on the counter stops the poll).
EventuallySynced ==
  <>[](\/ \A i \in DOMAIN Collections :
            Blocked(Collections[i]) \/ SyncedCollection(Collections[i])
       \/ lastSync = "DELETE"
       \/ ~adopted /\ Agree
       \/ transaction >= MaxTransaction)

\* README.md:18 of HSDS/Writer: "Using CREATE_WRITERS=0 is useful for standing up
\* an API to test the web hook capabilities of the Reader."  Such a server accepts
\* something from a Reader that has something.
WebHookCanBeTested == container # Nothing ~> serverTransaction > 0 \/ container = Nothing

\* What the Reader holds catches up with the topic (samples are applied in the
\* order they are taken, under one lock).
EventuallyCurrent == <>[](container = topic)

=============================================================================
