---------------------------- MODULE WebHookProofs ----------------------------
(* Proofs about the web hook: the counts of Reader and server never mislead    *)
(* the Reader, for any elements, collections, losses and restarts.            *)
EXTENDS WebHook, TLAPS

\* The conjuncts of TypeOK that later steps use.
Types ==
  /\ topic \in Content /\ container \in Content /\ server \in Content
  /\ arrived \subseteq Keys
  /\ transaction \in Nat /\ serverTransaction \in Nat
  /\ DOMAIN batch \subseteq Keys /\ \A k \in DOMAIN batch : batch[k] \in Values \cup {None}
  /\ resync \in Seq({Collections[i] : i \in DOMAIN Collections})
  /\ adopted \in BOOLEAN

\* The Reader's count, once adopted, is ahead or equal also during a
\* resynchronization.
Ahead == adopted => transaction >= serverTransaction

Sending(c) == \E i \in DOMAIN resync : resync[i] = c

\* A count of 0 is that of a Reader with nothing to send, or about to send all.
ZeroMeansNothing ==
  adopted /\ transaction = 0 => container = Nothing \/ resync = Collections

\* While the counts are equal, every element is on the server or still to be sent.
SyncedSoFar ==
  adopted /\ lastSync # "DELETE" /\ transaction = serverTransaction
    => \A k \in Keys : server[k] = container[k] \/ Sending(CollectionOf[k])

MethodKept == resync # << >> => method = lastSync

CountsTell == Types /\ Ahead /\ ZeroMeansNothing /\ SyncedSoFar /\ MethodKept

-----------------------------------------------------------------------------
(* What a request does at the server                                         *)

HandleRequest(k) ==
  Authorized(IF batch[k] = None THEN DeleteElement(k) ELSE PutElement(k, batch[k]))

SendRequest ==
  Authorized(IF method = "DELETE" THEN DeleteCollection(Head(resync))
             ELSE PutCollection(Head(resync), container))

Unserved == server' = server /\ serverTransaction' = serverTransaction
Counted == serverTransaction' = serverTransaction + 1

\* A request about one sample is counted exactly when it takes effect.
LEMMA HandleEffect ==
  ASSUME Types, NEW k \in DOMAIN batch, HandleRequest(k)
  PROVE  \/ Unserved
         \/ Counted /\ server' = [server EXCEPT ![k] = batch[k]] /\ server' \in Content
  BY DEF Types, HandleRequest, Authorized, DeleteElement, PutElement, Count, Unserved, Counted,
         serverVars, Content

\* So is the request that replaces a collection.
LEMMA SendEffect ==
  ASSUME Types, SendRequest
  PROVE  \/ Unserved
         \/ /\ Counted /\ server' \in Content
            /\ method # "DELETE" =>
                 server' = [k \in Keys |-> IF k \in In(Head(resync)) THEN container[k] ELSE server[k]]
  BY DEF Types, SendRequest, Authorized, DeleteCollection, PutCollection, Count, Unserved, Counted,
         serverVars, Content

-----------------------------------------------------------------------------

LEMMA InitCounts == Init => CountsTell
  BY CollectionsAssumption
     DEF Init, CountsTell, Types, Ahead, ZeroMeansNothing, SyncedSoFar, MethodKept, Nothing, Content

\* All collections are still to be sent: nothing else is asked of the server.
LEMMA SendingAll ==
  ASSUME resync' = Collections
  PROVE  \A k \in Keys : Sending(CollectionOf[k])'
  BY CollectionsAssumption DEF Sending

LEMMA HandleCounts ==
  ASSUME CountsTell, NEW k \in DOMAIN batch, Handle(k)
  PROVE  CountsTell'
<1> DEFINE gone == batch[k] = None
<1> USE DEF CountsTell
<1>1. container' = [container EXCEPT ![k] = batch[k]] /\ container' \in Content
  BY DEF Handle, Types, Content
<1>2. /\ batch' = [l \in DOMAIN batch \ {k} |-> batch[l]] /\ resync = << >>
      /\ topic' = topic /\ arrived' = arrived
  BY DEF Handle
<1>3. /\ DOMAIN batch' \subseteq Keys
      /\ \A l \in DOMAIN batch' : batch'[l] \in Values \cup {None}
  BY <1>2 DEF Types
<1>4. k \in Keys /\ transaction + 1 \in Nat
  BY DEF Types
<1>5. CASE /\ CallFails(HandleRequest(k)) /\ transaction' = transaction + 1
           /\ UNCHANGED resyncing
  <2>1. \/ Unserved
        \/ Counted /\ server' = [server EXCEPT ![k] = batch[k]] /\ server' \in Content
    BY <1>5, HandleEffect DEF CallFails, Unserved, serverVars
  <2>2. Types'
    BY <1>1, <1>2, <1>3, <1>5, <2>1 DEF Types, Unserved, Counted, resyncing
  <2>3. Ahead' /\ ZeroMeansNothing' /\ MethodKept'
    BY <1>5, <2>1 DEF Types, Ahead, ZeroMeansNothing, MethodKept, Unserved, Counted, resyncing
  <2>4. SyncedSoFar'
    <3>1. CASE Unserved
      BY <1>5, <3>1 DEF Types, Ahead, SyncedSoFar, Unserved, resyncing
    <3>2. CASE Counted /\ server' = [server EXCEPT ![k] = batch[k]]
      BY <1>1, <1>2, <1>4, <1>5, <3>2 DEF Types, SyncedSoFar, Counted, resyncing, Content, Sending
    <3>3. QED
      BY <2>1, <3>1, <3>2
  <2>5. QED
    BY <2>2, <2>3, <2>4
<1>6. CASE HandleRequest(k) /\ Synchronize(transaction + 1, IF gone THEN "DELETE" ELSE "PUT")
  <2>1. \/ Unserved
        \/ Counted /\ server' = [server EXCEPT ![k] = batch[k]] /\ server' \in Content
    BY <1>6, HandleEffect
  <2>2. serverTransaction' \in Nat /\ server' \in Content
    BY <2>1 DEF Types, Unserved, Counted
  <2>3. \/ /\ serverTransaction' = transaction + 1 /\ transaction' = transaction + 1
           /\ UNCHANGED resyncing
        \/ /\ transaction' = serverTransaction' /\ resync' = Collections
           /\ method' = lastSync' /\ adopted' = TRUE
    BY <1>6 DEF Synchronize, Resynchronize, resyncing
  <2>4. Types'
    BY <1>1, <1>2, <1>3, <1>4, <2>2, <2>3, CollectionsAssumption DEF Types, resyncing
  <2>5. Ahead' /\ ZeroMeansNothing' /\ MethodKept'
    BY <2>2, <2>3 DEF Types, Ahead, ZeroMeansNothing, MethodKept, resyncing
  <2>6. SyncedSoFar'
    <3>1. CASE resync' = Collections
      BY <3>1, SendingAll DEF SyncedSoFar
    <3>2. CASE serverTransaction' = transaction + 1 /\ UNCHANGED resyncing
      <4>1. CASE Unserved
        BY <3>2, <4>1 DEF Types, Ahead, SyncedSoFar, Unserved, resyncing
      <4>2. CASE Counted /\ server' = [server EXCEPT ![k] = batch[k]]
        BY <1>1, <1>2, <1>4, <3>2, <4>2 DEF Types, SyncedSoFar, Counted, resyncing, Content, Sending
      <4>3. QED
        BY <2>1, <4>1, <4>2
    <3>3. QED
      BY <2>3, <3>1, <3>2
  <2>7. QED
    BY <2>4, <2>5, <2>6
<1>7. QED
  BY <1>5, <1>6 DEF Handle, HandleRequest

LEMMA SendCounts ==
  ASSUME CountsTell, SyncCollection
  PROVE  CountsTell'
<1> USE DEF CountsTell
<1>1. /\ resync # << >> /\ resync' = Tail(resync) /\ transaction' = transaction + 1
      /\ UNCHANGED <<topic, arrived, container, batch, method, lastSync, adopted>>
  BY DEF SyncCollection
<1>2. \/ Unserved
      \/ /\ Counted /\ server' \in Content
         /\ method # "DELETE" =>
              server' = [k \in Keys |-> IF k \in In(Head(resync)) THEN container[k] ELSE server[k]]
  BY SendEffect DEF SyncCollection, SendRequest, CallFails, Unserved, serverVars
<1>3. Types'
  BY <1>1, <1>2 DEF Types, Unserved, Counted
<1>4. Ahead' /\ ZeroMeansNothing' /\ MethodKept'
  BY <1>1, <1>2 DEF Types, Ahead, ZeroMeansNothing, MethodKept, Unserved, Counted
<1>5. SyncedSoFar'
  <2>1. SUFFICES ASSUME adopted', lastSync' # "DELETE", transaction' = serverTransaction',
                        NEW k \in Keys, ~ Sending(CollectionOf[k])'
                 PROVE  server'[k] = container'[k]
    BY DEF SyncedSoFar
  <2>2. Counted /\ transaction = serverTransaction
    BY <1>1, <1>2, <2>1 DEF Types, Ahead, Unserved, Counted
  <2>3. method # "DELETE"
    BY <1>1, <2>1 DEF MethodKept
  <2>4. server' = [l \in Keys |-> IF l \in In(Head(resync)) THEN container[l] ELSE server[l]]
    BY <1>2, <2>2, <2>3 DEF Types, Unserved, Counted
  <2>5. CASE k \in In(Head(resync))
    BY <1>1, <2>4, <2>5
  <2>6. CASE k \notin In(Head(resync))
    <3>1. ~ Sending(CollectionOf[k])
      <4>1. SUFFICES ASSUME NEW i \in DOMAIN resync, resync[i] = CollectionOf[k]
                     PROVE  FALSE
        BY DEF Sending
      <4>2. i # 1
        BY <1>1, <2>6, <4>1 DEF In, Types
      <4>3. i - 1 \in DOMAIN resync' /\ resync'[i - 1] = CollectionOf[k]
        BY <1>1, <4>1, <4>2 DEF Types
      <4>4. QED
        BY <2>1, <4>3 DEF Sending
    <3>2. server[k] = container[k]
      BY <1>1, <2>1, <2>2, <3>1 DEF SyncedSoFar
    <3>3. QED
      BY <1>1, <2>4, <2>6, <3>2
  <2>7. QED
    BY <2>5, <2>6
<1>6. QED
  BY <1>3, <1>4, <1>5

LEMMA PollCounts ==
  ASSUME CountsTell, Poll
  PROVE  CountsTell'
<1> USE DEF CountsTell
<1>1. /\ resync = << >>
      /\ UNCHANGED <<server, serverTransaction, topic, arrived, container, batch>>
  BY DEF Poll, Idle, serverVars
<1>2. CASE UNCHANGED <<transaction, resyncing>>
  BY <1>1, <1>2
     DEF Types, Ahead, ZeroMeansNothing, SyncedSoFar, MethodKept, resyncing, Sending
<1>3. CASE Synchronize(transaction, "PUT")
  <2>1. \/ /\ serverTransaction' = transaction /\ transaction' = transaction
           /\ UNCHANGED resyncing
        \/ /\ transaction' = serverTransaction' /\ resync' = Collections
           /\ method' = lastSync' /\ adopted' = TRUE
    BY <1>1, <1>3 DEF Synchronize, Resynchronize, resyncing
  <2>2. CASE UNCHANGED <<transaction, resyncing>>
    BY <1>2, <2>2
  <2>3. CASE /\ transaction' = serverTransaction' /\ resync' = Collections
             /\ method' = lastSync' /\ adopted' = TRUE
    <3>1. Types' /\ Ahead' /\ ZeroMeansNothing' /\ MethodKept'
      BY <1>1, <2>3, CollectionsAssumption DEF Types, Ahead, ZeroMeansNothing, MethodKept
    <3>2. SyncedSoFar'
      BY <2>3, SendingAll DEF SyncedSoFar
    <3>3. QED
      BY <3>1, <3>2
  <2>4. QED
    BY <2>1, <2>2, <2>3
<1>4. QED
  BY <1>2, <1>3 DEF Poll

LEMMA CountsAlwaysTell == Spec => []CountsTell
<1>1. Init => CountsTell
  BY InitCounts
<1>2. CountsTell /\ [Next]_vars => CountsTell'
  <2> SUFFICES ASSUME CountsTell, [Next]_vars PROVE CountsTell'
    OBVIOUS
  <2>1. ASSUME NEW k \in Keys, Publish(k) \/ Unregister(k) PROVE CountsTell'
    BY <2>1 DEF Publish, Unregister, reader, serverVars, resyncing, CountsTell, Types, Ahead,
                ZeroMeansNothing, SyncedSoFar, MethodKept, Sending, Content
  <2>2. CASE ServerRestart
    <3>1. UNCHANGED <<topic, arrived, container, transaction, batch, resync, method, lastSync, adopted>>
      BY <2>2 DEF ServerRestart, reader, resyncing
    <3>2. server' = Nothing /\ serverTransaction' = 0
      BY <2>2 DEF ServerRestart
    <3>3. Types' /\ Ahead' /\ ZeroMeansNothing' /\ MethodKept'
      BY <3>1, <3>2 DEF CountsTell, Types, Ahead, ZeroMeansNothing, MethodKept, Nothing, Content
    <3>4. SyncedSoFar'
      <4>1. CASE container = Nothing
        BY <3>1, <3>2, <4>1 DEF SyncedSoFar
      <4>2. CASE resync = Collections
        BY <3>1, <4>2, SendingAll DEF SyncedSoFar
      <4>3. QED
        BY <3>1, <3>2, <4>1, <4>2 DEF CountsTell, ZeroMeansNothing, SyncedSoFar
    <3>5. QED
      BY <3>3, <3>4 DEF CountsTell
  <2>3. CASE ReaderRestart
    <3>1. /\ UNCHANGED <<topic, server, serverTransaction>>
          /\ container' = Nothing /\ transaction' = 0 /\ resync' = << >> /\ adopted' = FALSE
          /\ batch' = [k \in {} |-> None] /\ arrived' = {k \in Keys : topic[k] # None}
      BY <2>3 DEF ReaderRestart, serverVars
    <3>2. Ahead' /\ ZeroMeansNothing' /\ SyncedSoFar' /\ MethodKept'
      BY <3>1 DEF Ahead, ZeroMeansNothing, SyncedSoFar, MethodKept
    <3>3. DOMAIN batch' = {}
      BY <3>1
    <3>4. Types'
      <4>1. resync' \in Seq({Collections[i] : i \in DOMAIN Collections})
        BY <3>1
      <4>2. Nothing \in Content
        BY DEF Nothing, Content
      <4>3. QED
        BY <3>1, <3>3, <4>1, <4>2 DEF CountsTell, Types
    <3>5. QED
      BY <3>2, <3>4 DEF CountsTell
  <2>4. CASE Take
    BY <2>4 DEF Take, serverVars, resyncing, CountsTell, Types, Ahead, ZeroMeansNothing,
                SyncedSoFar, MethodKept, Sending, Content
  <2>5. CASE HandleNext
    BY <2>5, HandleCounts DEF HandleNext
  <2>6. CASE SyncCollection
    BY <2>6, SendCounts
  <2>7. CASE Poll
    BY <2>7, PollCounts
  <2>8. CASE UNCHANGED vars
    BY <2>8 DEF vars, reader, serverVars, resyncing, CountsTell, Types, Ahead, ZeroMeansNothing,
                SyncedSoFar, MethodKept, Sending
  <2>9. QED
    BY <2>1, <2>2, <2>3, <2>4, <2>5, <2>6, <2>7, <2>8 DEF Next, Capped
<1>3. QED
  BY <1>1, <1>2, PTL DEF Spec

\* The Reader is never behind the server: a lost call, or a restart of the server,
\* shows as a difference of the counts (Reader.cpp:62-78).
THEOREM ReaderNeverLags == Spec => []ReaderCountsAhead
<1>1. CountsTell => ReaderCountsAhead
  BY DEF CountsTell, Ahead, ReaderCountsAhead
<1>2. QED
  BY <1>1, CountsAlwaysTell, PTL

\* Equal counts mean equal content, unless the resynchronization ran on the handle
\* of a DELETE (Reader.cpp:169) or the Reader is new and has not compared counts.
THEOREM EqualCountsMeanSynced == Spec => []AgreeMeansSyncedUnlessDeleted
<1>1. CountsTell => AgreeMeansSyncedUnlessDeleted
  <2>1. SUFFICES ASSUME CountsTell, Agree, lastSync # "DELETE", adopted
                 PROVE  server = container
    BY DEF AgreeMeansSyncedUnlessDeleted, Synced
  <2>2. \A k \in Keys : server[k] = container[k]
    <3>1. resync = << >> /\ transaction = serverTransaction
      BY <2>1 DEF Agree, Idle
    <3>2. \A c : ~Sending(c)
      BY <3>1 DEF Sending
    <3>3. QED
      BY <2>1, <3>1, <3>2 DEF CountsTell, SyncedSoFar
  <2>3. QED
    BY <2>1, <2>2 DEF CountsTell, Types, Content
<1>2. QED
  BY <1>1, CountsAlwaysTell, PTL

-----------------------------------------------------------------------------

Batches == UNION {[K -> Values \cup {None}] : K \in SUBSET Keys}

\* What synchronize has still to send is an end of the list of collections.
Rest == \E i \in 0..Len(Collections) : resync = SubSeq(Collections, i + 1, Len(Collections))

LEMMA RestOfAll ==
  /\ resync' = Collections => Rest'
  /\ resync' = << >> => Rest'
<1> DEFINE endpoints == {Collections[i] : i \in DOMAIN Collections}
<1>1. Collections \in Seq(endpoints) /\ Len(Collections) \in Nat
  BY CollectionsAssumption
<1>2. Collections = SubSeq(Collections, 0 + 1, Len(Collections))
  BY <1>1
<1>3. << >> = SubSeq(Collections, Len(Collections) + 1, Len(Collections))
  BY <1>1
<1>4. 0 \in 0..Len(Collections) /\ Len(Collections) \in 0..Len(Collections)
  BY <1>1
<1>5. QED
  BY <1>2, <1>3, <1>4 DEF Rest

LEMMA RestOfTail ==
  ASSUME Rest, resync # << >>, resync' = Tail(resync)
  PROVE  Rest'
<1> DEFINE endpoints == {Collections[i] : i \in DOMAIN Collections}
           n == Len(Collections)
<1>1. Collections \in Seq(endpoints) /\ n \in Nat
  BY CollectionsAssumption
<1>2. PICK i \in 0..n : resync = SubSeq(Collections, i + 1, n)
  BY DEF Rest
<1>3. i < n
  BY <1>1, <1>2
<1>4. Tail(resync) = SubSeq(Collections, (i + 1) + 1, n)
  BY <1>1, <1>2, <1>3
<1>5. i + 1 \in 0..n
  BY <1>1, <1>2, <1>3
<1>6. QED
  BY <1>4, <1>5 DEF Rest

\* Every variable keeps its type, for any collections, elements and bounds.
THEOREM WebHookTypes == Spec => []TypeOK
<1> DEFINE Inv == batch \in Batches /\ Rest /\ method \in Methods /\ lastSync \in Methods
<1>1. Init => Inv
  <2>1. ASSUME Init PROVE Rest
    <3>1. Collections \in Seq({Collections[i] : i \in DOMAIN Collections})
      BY CollectionsAssumption
    <3>2. resync = SubSeq(Collections, Len(Collections) + 1, Len(Collections))
      BY <2>1, <3>1 DEF Init
    <3>3. QED
      BY <3>1, <3>2 DEF Rest
  <2>2. ASSUME Init PROVE batch \in [{} -> Values \cup {None}]
    BY <2>2 DEF Init
  <2>3. QED
    BY <2>1, <2>2 DEF Init, Batches, Methods
<1>2. CountsTell /\ Inv /\ [Next]_vars => Inv'
  <2> SUFFICES ASSUME CountsTell, Inv, [Next]_vars PROVE Inv'
    OBVIOUS
  <2>1. ASSUME UNCHANGED <<batch, resync, method, lastSync>> PROVE Inv'
    BY <2>1 DEF Rest
  <2>2. ASSUME UNCHANGED resyncing \/ (/\ resync' = Collections
                                      /\ method' \in Methods /\ lastSync' \in Methods)
        PROVE  Rest' /\ method' \in Methods /\ lastSync' \in Methods
    BY <2>2, RestOfAll DEF resyncing, Rest
  <2>3. CASE \E k \in Keys : Publish(k) \/ Unregister(k)
    BY <2>1, <2>3 DEF Publish, Unregister, reader, resyncing
  <2>4. CASE ServerRestart
    BY <2>1, <2>4 DEF ServerRestart, reader, resyncing
  <2>5. CASE ReaderRestart
    <3>1. batch' \in [{} -> Values \cup {None}]
      BY <2>5 DEF ReaderRestart
    <3>2. QED
      BY <2>5, <3>1, RestOfAll DEF ReaderRestart, Batches, Methods
  <2>6. CASE Take
    <3>1. batch' \in [arrived -> Values \cup {None}] /\ arrived \in SUBSET Keys
      BY <2>6 DEF Take, CountsTell, Types, Content
    <3>2. QED
      BY <2>2, <2>6, <3>1 DEF Take, Batches, resyncing
  <2>7. ASSUME NEW k \in DOMAIN batch, Handle(k) PROVE Inv'
    <3>1. batch' \in [DOMAIN batch \ {k} -> Values \cup {None}]
      BY <2>7 DEF Handle, CountsTell, Types
    <3>2. DOMAIN batch \ {k} \in SUBSET Keys
      BY DEF CountsTell, Types
    <3>3. batch' \in Batches
      BY <3>1, <3>2 DEF Batches
    <3>4. QED
      BY <2>2, <2>7, <3>3 DEF Handle, Synchronize, Resynchronize, resyncing, Methods
  <2>8. CASE SyncCollection
    BY <2>8, RestOfTail DEF SyncCollection
  <2>9. CASE Poll
    BY <2>2, <2>9 DEF Poll, Synchronize, Resynchronize, resyncing, Methods
  <2>10. CASE UNCHANGED vars
    BY <2>1, <2>10 DEF vars, reader, resyncing
  <2>11. QED
    BY <2>3, <2>4, <2>5, <2>6, <2>7, <2>8, <2>9, <2>10 DEF Next, Capped, HandleNext
<1>3. CountsTell /\ Inv => TypeOK
  BY DEF CountsTell, Types, TypeOK, Batches, Rest
<1>4. QED
  BY <1>1, <1>2, <1>3, CountsAlwaysTell, PTL DEF Spec

=============================================================================
