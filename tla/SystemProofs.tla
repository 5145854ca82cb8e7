----------------------------- MODULE SystemProofs -----------------------------
(* Proofs about the programs together: what can reach the Reader, for any      *)
(* processes, with the plugin or without it, certificates, elements and files. *)
EXTENDS System, TLAPS

Contents == [Publishers -> [Keys -> Values \cup {None}]]

\* What the topic has of a key is what is stored, unless a call failed, and what was
\* ever let onto it may be there: a write that is refused leaves nothing older.
Follows(p, k) ==
  /\ k \notin missed[p] =>
       registered[p][k] = IF LocallyAllowed(installed[p], p, k[1]) THEN unit[p][k] ELSE None
  /\ registered[p][k] # None => LocallyAllowed(installed[p], p, k[1])

\* TypeOK's conjuncts about what processes store and publish.
Stores ==
  /\ unit \in Contents /\ registered \in Contents
  /\ sent \in [Publishers -> SUBSET Keys] /\ missed \in [Publishers -> SUBSET Keys]
  /\ \A p \in Publishers, k \in Keys : Follows(p, k)

\* A step about one key of one process keeps all that, if it does for that key.
LEMMA OneKeyStores ==
  ASSUME Stores, UNCHANGED installed, NEW p \in Publishers, NEW k \in Keys,
         NEW u \in Values \cup {None}, NEW r \in Values \cup {None}, NEW fails \in BOOLEAN,
         unit' = [unit EXCEPT ![p][k] = u], registered' = [registered EXCEPT ![p][k] = r],
         sent' = [sent EXCEPT ![p] = @ \cup {k}] \/ UNCHANGED sent,
         missed' = [missed EXCEPT ![p] = IF fails THEN @ \cup {k} ELSE @ \ {k}],
         r # None => LocallyAllowed(installed[p], p, k[1]),
         fails \/ r = IF LocallyAllowed(installed[p], p, k[1]) THEN u ELSE None
  PROVE  Stores'
<1>1. unit' \in Contents /\ registered' \in Contents
  BY DEF Stores, Contents
<1>2. sent' \in [Publishers -> SUBSET Keys] /\ missed' \in [Publishers -> SUBSET Keys]
  BY DEF Stores
<1>3. ASSUME NEW q \in Publishers, NEW l \in Keys PROVE Follows(q, l)'
  <2>1. CASE q = p /\ l = k
    <3>1. unit'[q][l] = u /\ registered'[q][l] = r /\ (l \notin missed'[q] => ~fails)
      BY <2>1 DEF Stores, Contents
    <3>2. QED
      BY <2>1, <3>1 DEF Follows, LocallyAllowed, CommonCheck
  <2>2. CASE ~(q = p /\ l = k)
    <3>1. unit'[q][l] = unit[q][l] /\ registered'[q][l] = registered[q][l]
      BY <2>2 DEF Stores, Contents
    <3>2. l \in missed[q] <=> l \in missed'[q]
      BY <2>2 DEF Stores
    <3>3. QED
      BY <3>1, <3>2 DEF Stores, Follows, LocallyAllowed, CommonCheck
  <2>3. QED
    BY <2>1, <2>2
<1>4. QED
  BY <1>1, <1>2, <1>3 DEF Stores

\* What insert_and_write does to them: the value on the topic, if it goes there.
LEMMA InsertAndWriteStores ==
  ASSUME Stores, UNCHANGED installed,
         NEW p \in Publishers, NEW k \in Keys, NEW v \in Values, InsertAndWrite(p, k, v)
  PROVE  Stores'
<1>1. CASE UNCHANGED <<unit, registered, missed, sent>>
  BY <1>1 DEF Stores, Follows, LocallyAllowed, CommonCheck
<1>2. CASE unit' = [unit EXCEPT ![p][k] = v] /\ Write(p, k, v)
  <2>1. CASE LocallyAllowed(installed[p], p, k[1])
    BY <1>2, <2>1, OneKeyStores DEF Write, Publish
  <2>2. CASE ~LocallyAllowed(installed[p], p, k[1])
    <3>1. registered' = [registered EXCEPT ![p][k] = None]
      BY <1>2, <2>2 DEF Write, Stores, Contents, Follows
    <3>2. QED
      BY <1>2, <2>2, <3>1, OneKeyStores DEF Write
  <2>3. QED
    BY <2>1, <2>2
<1>3. CASE unit' = [unit EXCEPT ![p][k] = v] /\ CallFails(p, k)
  <2>1. registered' = [registered EXCEPT ![p][k] = registered[p][k]]
    BY <1>3 DEF CallFails, Stores, Contents
  <2>2. registered[p][k] \in Values \cup {None}
    BY DEF Stores, Contents
  <2>3. QED
    BY <1>3, <2>1, <2>2, OneKeyStores DEF CallFails
<1>4. QED
  BY <1>1, <1>2, <1>3 DEF InsertAndWrite

\* And unregister_and_erase.
LEMMA UnregisterAndEraseStores ==
  ASSUME Stores, UNCHANGED installed,
         NEW p \in Publishers, NEW k \in Keys, UnregisterAndErase(p, k)
  PROVE  Stores'
<1>1. unit' = [unit EXCEPT ![p][k] = None]
  BY DEF UnregisterAndErase
<1>2. CASE Unregister(p, k)
  <2>1. registered' = [registered EXCEPT ![p][k] = None]
    BY <1>2 DEF Unregister, Publish, Stores, Contents
  <2>2. QED
    BY <1>1, <1>2, <2>1, OneKeyStores DEF Unregister, Publish
<1>3. CASE CallFails(p, k)
  <2>1. registered' = [registered EXCEPT ![p][k] = registered[p][k]]
    BY <1>3 DEF CallFails, Stores, Contents
  <2>2. registered[p][k] \in Values \cup {None}
    BY DEF Stores, Contents
  <2>3. QED
    BY <1>1, <1>3, <2>1, <2>2, OneKeyStores DEF CallFails
<1>4. QED
  BY <1>2, <1>3 DEF UnregisterAndErase

\* Whatever leaves a process and its container alone.
LEMMA StoresStay ==
  ASSUME Stores, UNCHANGED <<installed, unit, registered, missed>>,
         sent' \in [Publishers -> SUBSET Keys]
  PROVE  Stores'
  BY DEF Stores, Follows, LocallyAllowed, CommonCheck

\* And a request that stops half way.
LEMMA StopHalfWayStores ==
  ASSUME Stores, NEW p \in Publishers, NEW k \in Keys, StopHalfWay(p, k)
  PROVE  Stores'
<1>1. unit' = [unit EXCEPT ![p][k] = unit[p][k]] /\ unit[p][k] \in Values \cup {None}
  BY DEF StopHalfWay, Stores, Contents
<1>2. PICK r \in Values \cup {None} :
        /\ Publish(p, k, r)
        /\ r # None => LocallyAllowed(installed[p], p, k[1])
  BY DEF StopHalfWay
<1>3. QED
  BY <1>1, <1>2, OneKeyStores DEF StopHalfWay, Publish

-----------------------------------------------------------------------------

Running == installed \in [Publishers -> BOOLEAN] /\ alive \in [Publishers -> BOOLEAN]

Reading ==
  /\ file \in [Publishers -> Files \cup {<< >>}]
  /\ next \in [Publishers -> Nat]
  /\ \A p \in Publishers : next[p] \in 1..Len(file[p]) + 1

Reader ==
  /\ writersOf \in [Keys -> SUBSET (Publishers \X Incarnations)]
  /\ cache \in [Keys -> Shown] /\ container \in [Keys -> Shown]
  /\ arrived \subseteq Keys /\ disowned \subseteq Keys

TInv == Stores /\ Running /\ Reading /\ Reader

LEMMA FilesAreSequences ==
  \A f \in Files \cup {<< >>} : Len(f) \in Nat
<1>1. \A f \in Files : Len(f) \in Nat
  <2>1. TAKE f \in Files
  <2>2. f \in Seq({f[i] : i \in DOMAIN f})
    BY EntriesAssumption
  <2>3. QED
    BY <2>2
<1>2. QED
  BY <1>1

\* The next entry of a file, if it can be read, is an element.
LEMMA EntriesAreElements ==
  ASSUME Reading, NEW p \in Publishers, next[p] <= Len(file[p]),
         file[p][next[p]] # Unreadable
  PROVE  <<Gid[p], file[p][next[p]].id>> \in Keys /\ file[p][next[p]].val \in Values
<1>1. file[p] \in Files
  <2>1. file[p] # << >>
    BY DEF Reading
  <2>2. QED
    BY <2>1 DEF Reading
<1>2. file[p] \in Seq({file[p][i] : i \in DOMAIN file[p]})
  BY <1>1, EntriesAssumption
<1>3. next[p] \in DOMAIN file[p]
  BY <1>2 DEF Reading
<1>4. QED
  BY <1>1, <1>3, EntriesAssumption, ProcessAssumption DEF Keys

LEMMA StartTypes ==
  ASSUME TInv, NEW p \in Publishers, Start(p)
  PROVE  TInv'
<1>1. Stores'
  BY DEF Start, TInv, Stores, Follows, LocallyAllowed, CommonCheck
<1>2. Running'
  BY DEF Start, TInv, Running
<1>3. Reader'
  BY DEF Start, TInv, Reader, reader
<1>4. file' \in [Publishers -> Files \cup {<< >>}] /\ next' \in [Publishers -> Nat]
  BY DEF Start, TInv, Reading
<1>5. ASSUME NEW q \in Publishers PROVE next'[q] \in 1..Len(file'[q]) + 1
  <2>1. CASE q = p
    <3>1. next'[q] = 1
      BY <2>1 DEF Start, TInv, Reading
    <3>2. Len(file'[q]) \in Nat
      BY <1>4, FilesAreSequences
    <3>3. QED
      BY <3>1, <3>2
  <2>2. CASE q # p
    BY <2>2 DEF Start, TInv, Reading
  <2>3. QED
    BY <2>1, <2>2
<1>6. QED
  BY <1>1, <1>2, <1>3, <1>4, <1>5 DEF TInv, Reading

LEMMA EndTypes ==
  ASSUME TInv, NEW p \in Publishers, End(p)
  PROVE  TInv'
<1>1. unit' \in Contents /\ registered' \in Contents
  BY DEF End, TInv, Stores, Contents, Nothing
<1>2. sent' \in [Publishers -> SUBSET Keys] /\ missed' \in [Publishers -> SUBSET Keys]
  BY DEF End, TInv, Stores
<1>3. ASSUME NEW q \in Publishers, NEW l \in Keys PROVE Follows(q, l)'
  <2>1. CASE q = p
    <3>1. unit'[q][l] = None /\ registered'[q][l] = None
      BY <2>1 DEF End, TInv, Stores, Contents, Nothing
    <3>2. QED
      BY <3>1 DEF Follows
  <2>2. CASE q # p
    <3>1. /\ unit'[q] = unit[q] /\ registered'[q] = registered[q]
          /\ missed'[q] = missed[q] /\ installed' = installed
      BY <2>2 DEF End, TInv, Stores, Contents
    <3>2. QED
      BY <3>1 DEF TInv, Stores, Follows, LocallyAllowed, CommonCheck
  <2>3. QED
    BY <2>1, <2>2
<1>4. Stores'
  BY <1>1, <1>2, <1>3 DEF Stores
<1>5. Running' /\ Reading'
  BY DEF End, TInv, Running, Reading
<1>6. writersOf' \in [Keys -> SUBSET (Publishers \X Incarnations)]
  <2>1. ASSUME NEW k \in Keys, NEW o \in writersOf[k]
        PROVE  (IF o = <<p, "now">> THEN <<p, "before">> ELSE o) \in Publishers \X Incarnations
    BY DEF TInv, Reader, Incarnations
  <2>2. QED
    BY <2>1 DEF End
<1>7. Reader'
  BY <1>6 DEF End, TInv, Reader
<1>8. QED
  BY <1>4, <1>5, <1>7 DEF TInv

LEMMA RequestTypes ==
  ASSUME TInv, NEW p \in Publishers, NEW k \in Keys,
         Delete(p, k) \/ StopHalfWay(p, k) \/ \E v \in Values : Put(p, k, v)
  PROVE  TInv'
<1>1. Stores'
  BY InsertAndWriteStores, UnregisterAndEraseStores, StopHalfWayStores DEF Delete, Put, TInv
<1>2. Running' /\ Reading' /\ Reader'
  BY DEF Delete, StopHalfWay, Put, TInv, Running, Reading, Reader, reader
<1>3. QED
  BY <1>1, <1>2 DEF TInv

\* A JsonWriter reads on within its file.
LEMMA ReadsOn ==
  ASSUME Reading, NEW p \in Publishers, UNCHANGED file,
         next[p] <= Len(file[p]), NEW n \in {next[p] + 1, Len(file[p]) + 1},
         next' = [next EXCEPT ![p] = n]
  PROVE  Reading'
<1>1. Len(file[p]) \in Nat
  BY FilesAreSequences DEF Reading
<1>2. n \in Nat /\ n \in 1..Len(file[p]) + 1
  BY <1>1 DEF Reading
<1>3. next' \in [Publishers -> Nat]
  BY <1>2 DEF Reading
<1>4. ASSUME NEW q \in Publishers PROVE next'[q] \in 1..Len(file'[q]) + 1
  <2>1. CASE q = p
    BY <1>2, <2>1 DEF Reading
  <2>2. CASE q # p
    BY <2>2 DEF Reading
  <2>3. QED
    BY <2>1, <2>2
<1>5. QED
  BY <1>3, <1>4 DEF Reading

LEMMA LoadTypes ==
  ASSUME TInv, NEW p \in Publishers, LoadNext(p)
  PROVE  TInv'
<1>1. CASE file[p][next[p]] = Unreadable
  <2>1. Stores'
    BY <1>1, StoresStay DEF LoadNext, TInv, Stores
  <2>2. Reading'
    BY <1>1, ReadsOn DEF LoadNext, TInv
  <2>3. QED
    BY <2>1, <2>2 DEF LoadNext, TInv, Running, Reader, reader
<1>2. CASE file[p][next[p]] # Unreadable
  <2>1. Stores'
    BY <1>2, EntriesAreElements, InsertAndWriteStores DEF LoadNext, TInv
  <2>2. Reading'
    <3>1. next' = [next EXCEPT ![p] = next[p] + 1]
      BY <1>2 DEF LoadNext
    <3>2. QED
      BY <3>1, ReadsOn DEF LoadNext, TInv
  <2>3. QED
    BY <2>1, <2>2 DEF LoadNext, TInv, Running, Reader, reader
<1>3. QED
  BY <1>1, <1>2

\* Steps of DDS and the Reader: nothing of the publishers changes but sent.
LEMMA ReaderTypes ==
  ASSUME TInv, Deliver \/ (\E p \in Publishers : Expire(p)) \/ Take \/ ReaderRestart
  PROVE  TInv'
<1>1. ASSUME NEW p \in Publishers, NEW k \in Keys, DeliverSample(p, k) PROVE TInv'
  <2>1. Stores' /\ Running' /\ Reading'
    <3>1. sent' \in [Publishers -> SUBSET Keys]
      BY <1>1 DEF DeliverSample, TInv, Stores
    <3>2. QED
      BY <1>1, <3>1, StoresStay DEF DeliverSample, process, TInv, Running, Reading
  <2>2. registered[p][k] \in Values
    BY <1>1 DEF DeliverSample, TInv, Stores, Contents
  <2>3. [val |-> registered[p][k], by |-> p] \in Shown
    BY <2>2 DEF Shown
  <2>4. Reader'
    BY <1>1, <2>3 DEF DeliverSample, TInv, Reader, Incarnations
  <2>5. QED
    BY <2>1, <2>4 DEF TInv
<1>2. ASSUME NEW p \in Publishers, NEW k \in Keys, DeliverDisposal(p, k) PROVE TInv'
  <2>1. Stores' /\ Running' /\ Reading'
    <3>1. sent' \in [Publishers -> SUBSET Keys]
      BY <1>2 DEF DeliverDisposal, TInv, Stores
    <3>2. QED
      BY <1>2, <3>1, StoresStay DEF DeliverDisposal, process, TInv, Running, Reading
  <2>2. writersOf' \in [Keys -> SUBSET (Publishers \X Incarnations)]
    BY <1>2 DEF DeliverDisposal, TInv, Reader
  <2>3. cache' \in [Keys -> Shown]
    BY <1>2 DEF DeliverDisposal, TInv, Reader, Shown
  <2>4. arrived' \subseteq Keys /\ disowned' \subseteq Keys
    BY <1>2 DEF DeliverDisposal, TInv, Reader
  <2>5. container' \in [Keys -> Shown]
    BY <1>2 DEF DeliverDisposal, TInv, Reader
  <2>6. QED
    BY <2>1, <2>2, <2>3, <2>4, <2>5 DEF TInv, Reader
<1>3. ASSUME NEW p \in Publishers, Expire(p) PROVE TInv'
  <2>1. Stores' /\ Running' /\ Reading'
    BY <1>3, StoresStay DEF Expire, process, TInv, Stores, Running, Reading
  <2>2. Reader'
    BY <1>3 DEF Expire, TInv, Reader, Shown
  <2>3. QED
    BY <2>1, <2>2 DEF TInv
<1>4. CASE Take
  <2>1. Stores' /\ Running' /\ Reading'
    BY <1>4, StoresStay DEF Take, process, TInv, Stores, Running, Reading
  <2>2. Reader'
    BY <1>4 DEF Take, TInv, Reader
  <2>3. QED
    BY <2>1, <2>2 DEF TInv
<1>5. CASE ReaderRestart
  <2>1. Running' /\ Reading'
    BY <1>5 DEF ReaderRestart, process, TInv, Running, Reading
  <2>2. Stores'
    <3>1. sent' \in [Publishers -> SUBSET Keys]
      BY <1>5 DEF ReaderRestart
    <3>2. QED
      BY <1>5, <3>1, StoresStay DEF ReaderRestart, process, TInv
  <2>3. Reader'
    BY <1>5 DEF ReaderRestart, Reader, Nothing, Shown
  <2>4. QED
    BY <2>1, <2>2, <2>3 DEF TInv
<1>6. QED
  BY <1>1, <1>2, <1>3, <1>4, <1>5 DEF Deliver

LEMMA TInvAlways == Spec => []TInv
<1>1. Init => TInv
  <2> SUFFICES ASSUME Init PROVE TInv
    OBVIOUS
  <2>1. Stores
    BY DEF Init, Stores, Contents, Nothing, Follows
  <2>2. Reading
    BY DEF Init, Reading
  <2>3. Running /\ Reader
    BY DEF Init, Running, Reader, Nothing, Shown
  <2>4. QED
    BY <2>1, <2>2, <2>3 DEF TInv
<1>2. TInv /\ [Next]_vars => TInv'
  <2> SUFFICES ASSUME TInv, [Next]_vars PROVE TInv'
    OBVIOUS
  <2>1. CASE UNCHANGED vars
    BY <2>1, StoresStay DEF vars, process, reader, TInv, Stores, Running, Reading, Reader
  <2>2. CASE Next
    BY <2>2, StartTypes, EndTypes, RequestTypes, LoadTypes, ReaderTypes DEF Next
  <2>3. QED
    BY <2>1, <2>2
<1>3. QED
  BY <1>1, <1>2, PTL DEF Spec

\* Types, and that container and topic differ only where the last call for a key failed
\* (Application.h:172-218, HsdsResource.h:220-281 and 401-409), however many calls fail.
THEOREM SystemTypes == Spec => []TypeOK
<1>1. TInv => TypeOK
  BY DEF TInv, Stores, Follows, Running, Reading, Reader, TypeOK, TopicFollows, Contents
<1>2. QED
  BY <1>1, TInvAlways, PTL

-----------------------------------------------------------------------------
(* What the Reader shows                                                     *)

\* What check_input and the remote access control together say of an element.
Checked(p, k, v) == Complete(k, v) \/ Program[p] = "JsonWriter"
Vouched(k, shown) == Subject[shown.by] = k[1] /\ Checked(shown.by, k, shown.val)

\* The inductive invariant: it holds on the topic, under way and at the Reader.
\* What the Reader shows was in its cache, and that was on the topic when it came.
PublishedChecked ==
  \A p \in Publishers, k \in Keys : registered[p][k] # None => Checked(p, k, registered[p][k])
CacheVouched == \A k \in Keys : cache[k] # None => Vouched(k, cache[k])
ContainerVouched == \A k \in Keys : container[k] # None => Vouched(k, container[k])
VInv == PublishedChecked /\ CacheVouched /\ ContainerVouched

\* A publisher's step changes nothing at the Reader, and one instance at most.
LEMMA PublisherVouches ==
  ASSUME TInv, VInv, NEW p \in Publishers,
         \/ Start(p) \/ End(p) \/ LoadNext(p)
         \/ \E k \in Keys : Delete(p, k) \/ StopHalfWay(p, k) \/ \E v \in Values : Put(p, k, v)
  PROVE  VInv'
<1>1. UNCHANGED <<cache, container>>
  BY DEF Start, End, LoadNext, Delete, StopHalfWay, Put, reader
<1>2. CacheVouched' /\ ContainerVouched'
  BY <1>1 DEF VInv, CacheVouched, ContainerVouched
<1>3. ASSUME NEW k \in Keys, NEW v \in Values, Checked(p, k, v), InsertAndWrite(p, k, v)
      PROVE  PublishedChecked'
  <2>1. CASE UNCHANGED registered
    BY <2>1 DEF VInv, PublishedChecked
  <2>2. CASE registered' = [registered EXCEPT ![p][k] = v]
    BY <1>3, <2>2 DEF VInv, PublishedChecked, TInv, Stores, Contents
  <2>3. QED
    BY <1>3, <2>1, <2>2 DEF InsertAndWrite, Write, Publish, CallFails
<1>4. ASSUME Start(p) PROVE PublishedChecked'
  BY <1>4 DEF Start, VInv, PublishedChecked
<1>5. ASSUME End(p) PROVE PublishedChecked'
  <2>1. ASSUME NEW q \in Publishers, NEW k \in Keys
        PROVE  registered'[q][k] \in {None, registered[q][k]}
    BY <1>5 DEF End, Nothing, TInv, Stores, Contents
  <2>2. QED
    BY <2>1 DEF VInv, PublishedChecked
<1>6. ASSUME LoadNext(p) PROVE PublishedChecked'
  <2>1. CASE UNCHANGED registered
    BY <2>1 DEF VInv, PublishedChecked
  <2>2. CASE /\ file[p][next[p]] # Unreadable
             /\ InsertAndWrite(p, <<Gid[p], file[p][next[p]].id>>, file[p][next[p]].val)
    <3>1. /\ <<Gid[p], file[p][next[p]].id>> \in Keys
          /\ file[p][next[p]].val \in Values
      BY <1>6, <2>2, EntriesAreElements DEF LoadNext, TInv
    <3>2. Checked(p, <<Gid[p], file[p][next[p]].id>>, file[p][next[p]].val)
      BY <1>6 DEF LoadNext, Checked
    <3>3. QED
      BY <1>3, <2>2, <3>1, <3>2
  <2>3. QED
    BY <1>6, <2>1, <2>2 DEF LoadNext
<1>7. ASSUME NEW k \in Keys, NEW v, registered' = [registered EXCEPT ![p][k] = v],
             v # None => Checked(p, k, v)
      PROVE  PublishedChecked'
  BY <1>7 DEF VInv, PublishedChecked, TInv, Stores, Contents
<1>8. ASSUME NEW k \in Keys, Delete(p, k) PROVE PublishedChecked'
  <2>1. CASE UNCHANGED registered
    BY <2>1 DEF VInv, PublishedChecked
  <2>2. CASE registered' = [registered EXCEPT ![p][k] = None]
    BY <1>7, <2>2
  <2>3. QED
    BY <1>8, <2>1, <2>2 DEF Delete, UnregisterAndErase, Unregister, Publish, CallFails
<1>9. ASSUME NEW k \in Keys, StopHalfWay(p, k) PROVE PublishedChecked'
  <2>1. PICK v \in Values \cup {None} : Publish(p, k, v) /\ (v # None => Checked(p, k, v))
    BY <1>9 DEF StopHalfWay, CheckInput, Checked
  <2>2. QED
    BY <1>7, <2>1 DEF Publish
<1>10. ASSUME NEW k \in Keys, NEW v \in Values, Put(p, k, v) PROVE PublishedChecked'
  BY <1>3, <1>10 DEF Put, CheckInput, Checked
<1>11. QED
  BY <1>2, <1>4, <1>5, <1>6, <1>8, <1>9, <1>10 DEF VInv

\* DDS and the Reader: what comes in was published, by a process that may.
LEMMA ReaderVouches ==
  ASSUME TInv, VInv, Deliver \/ (\E p \in Publishers : Expire(p)) \/ Take \/ ReaderRestart
  PROVE  VInv'
<1>1. PublishedChecked'
  <2>1. UNCHANGED registered
    BY DEF Deliver, DeliverSample, DeliverDisposal, Expire, Take, ReaderRestart, process
  <2>2. QED
    BY <2>1 DEF VInv, PublishedChecked
<1>2. ASSUME NEW p \in Publishers, NEW k \in Keys, DeliverSample(p, k)
      PROVE  CacheVouched' /\ ContainerVouched'
  <2>1. ContainerVouched'
    BY <1>2 DEF DeliverSample, VInv, ContainerVouched
  <2>2. CASE UNCHANGED cache
    BY <2>2, <2>1 DEF VInv, CacheVouched
  <2>3. CASE /\ RemotelyAllowed(p, k[1])
             /\ cache' = [cache EXCEPT ![k] = [val |-> registered[p][k], by |-> p]]
    <3>1. Vouched(k, [val |-> registered[p][k], by |-> p])
      BY <1>2, <2>3 DEF DeliverSample, VInv, PublishedChecked, Vouched, RemotelyAllowed, CommonCheck
    <3>2. ASSUME NEW l \in Keys, cache'[l] # None PROVE Vouched(l, cache'[l])
      BY <2>3, <3>1, <3>2 DEF TInv, Reader, VInv, CacheVouched
    <3>3. QED
      BY <2>1, <3>2 DEF CacheVouched
  <2>4. QED
    BY <1>2, <2>1, <2>2, <2>3 DEF DeliverSample
<1>3. ASSUME UNCHANGED container, \A k \in Keys : cache'[k] \in {None, cache[k]}
      PROVE  CacheVouched' /\ ContainerVouched'
  BY <1>3 DEF VInv, CacheVouched, ContainerVouched
<1>4. ASSUME NEW p \in Publishers, NEW k \in Keys, DeliverDisposal(p, k)
      PROVE  CacheVouched' /\ ContainerVouched'
  <2>1. \A l \in Keys : cache'[l] \in {None, cache[l]}
    BY <1>4 DEF DeliverDisposal, TInv, Reader
  <2>2. QED
    BY <1>3, <1>4, <2>1 DEF DeliverDisposal
<1>5. ASSUME NEW p \in Publishers, Expire(p) PROVE CacheVouched' /\ ContainerVouched'
  <2>1. \A l \in Keys : cache'[l] \in {None, cache[l]}
    BY <1>5 DEF Expire
  <2>2. QED
    BY <1>3, <1>5, <2>1 DEF Expire
<1>6. ASSUME Take PROVE CacheVouched' /\ ContainerVouched'
  BY <1>6 DEF Take, VInv, CacheVouched, ContainerVouched
<1>7. ASSUME ReaderRestart PROVE CacheVouched' /\ ContainerVouched'
  BY <1>7 DEF ReaderRestart, Nothing, CacheVouched, ContainerVouched
<1>8. QED
  BY <1>1, <1>2, <1>4, <1>5, <1>6, <1>7 DEF Deliver, VInv

LEMMA VInvAlways == Spec => []VInv
<1>1. Init => VInv
  BY DEF Init, Nothing, VInv, PublishedChecked, CacheVouched, ContainerVouched
<1>2. TInv /\ VInv /\ [Next]_vars => VInv'
  <2> SUFFICES ASSUME TInv, VInv, [Next]_vars PROVE VInv'
    OBVIOUS
  <2>1. CASE UNCHANGED vars
    BY <2>1 DEF vars, process, reader, VInv, PublishedChecked, CacheVouched, ContainerVouched
  <2>2. CASE Next
    BY <2>2, PublisherVouches, ReaderVouches DEF Next
  <2>3. QED
    BY <2>1, <2>2
<1>3. QED
  BY <1>1, <1>2, TInvAlways, PTL DEF Spec

\* CommunitySecurityPlugin.cpp:54-98 for any processes: whoever runs without the
\* plugin, or with another's DPM_GID, an element the Reader shows is published by
\* the holder of a certificate for its dpmgid.
THEOREM ReaderShowsCertified == Spec => []OnlyCertified
<1>1. VInv => OnlyCertified
  BY DEF VInv, ContainerVouched, Vouched, OnlyCertified
<1>2. QED
  BY <1>1, VInvAlways, PTL

\* ResourceBase.h:97-405 and JsonWriter.cpp:329 for any type and any files: an
\* incomplete element can only have come from a file.
THEOREM IncompleteComesFromFiles == Spec => []IncompleteOnlyFromFiles
<1>1. VInv => IncompleteOnlyFromFiles
  BY DEF VInv, ContainerVouched, Vouched, Checked, IncompleteOnlyFromFiles
<1>2. QED
  BY <1>1, VInvAlways, PTL

-----------------------------------------------------------------------------
(* What a JsonWriter publishes                                               *)

\* The entries of a file before the n-th that count, and the last of an id.
Before(f, n) == {i \in 1..n - 1 : \A j \in 1..i : f[j] # Unreadable}
LastBefore(f, n, id) ==
  LET read == {i \in Before(f, n) : f[i].id = id}
  IN  IF read = {} THEN None ELSE f[CHOOSE i \in read : \A j \in read : j <= i].val

\* One more entry.
LEMMA ReadMore ==
  ASSUME NEW f, NEW n \in Nat \ {0}, \A j \in 1..n : f[j] # Unreadable, NEW id
  PROVE  LastBefore(f, n + 1, id) = IF f[n].id = id THEN f[n].val ELSE LastBefore(f, n, id)
<1> DEFINE read == {i \in Before(f, n) : f[i].id = id}
           more == {i \in Before(f, n + 1) : f[i].id = id}
<1>1. Before(f, n) = 1..n - 1 /\ Before(f, n + 1) = 1..n
  BY DEF Before
<1>2. CASE f[n].id = id
  <2>1. n \in more /\ more \subseteq Int /\ \A j \in more : j <= n
    BY <1>1, <1>2
  <2> HIDE DEF more
  <2>2. (CHOOSE i \in more : \A j \in more : j <= i) = n
    <3>1. \A i \in more : (\A j \in more : j <= i) => i = n
      BY <2>1
    <3>2. QED
      BY <2>1, <3>1
  <2>3. QED
    BY <1>2, <2>1, <2>2 DEF LastBefore, more
<1>3. CASE f[n].id # id
  <2> DEFINE last(S) == IF S = {} THEN None ELSE f[CHOOSE i \in S : \A j \in S : j <= i].val
  <2>1. more = read
    BY <1>1, <1>3
  <2>2. LastBefore(f, n, id) = last(read) /\ LastBefore(f, n + 1, id) = last(more)
    BY DEF LastBefore
  <2> HIDE DEF last, more, read
  <2>3. QED
    BY <1>3, <2>1, <2>2
<1>4. QED
  BY <1>2, <1>3

\* An entry that cannot be read: nothing after it counts.
LEMMA ReadStops ==
  ASSUME NEW f, NEW n \in Nat \ {0}, f[n] = Unreadable, NEW m \in Nat, n <= m, NEW id
  PROVE  LastBefore(f, m + 1, id) = LastBefore(f, n, id)
<1> DEFINE last(S) == LET read == {i \in S : f[i].id = id}
                     IN  IF read = {} THEN None
                         ELSE f[CHOOSE i \in read : \A j \in read : j <= i].val
<1>1. Before(f, m + 1) = Before(f, n)
  BY DEF Before
<1>2. \A l : LastBefore(f, l, id) = last(Before(f, l))
  BY DEF LastBefore
<1> HIDE DEF last
<1>3. QED
  BY <1>1, <1>2

\* The inductive invariant: a JsonWriter has stored the last entry of each id, and one
\* that met an entry it cannot read is at the end of its file.  That the topic follows
\* is TInv's.
Loaded(p) ==
  IF alive[p]
  THEN /\ next[p] <= Len(file[p]) => \A j \in 1..next[p] - 1 : file[p][j] # Unreadable
       /\ \A id \in Ids : unit[p][<<Gid[p], id>>] = LastBefore(file[p], next[p], id)
  ELSE unit[p] = Nothing
FInv == \A p \in Publishers : Program[p] = "JsonWriter" => Loaded(p)

\* Whatever leaves a JsonWriter alone leaves it loaded.
LEMMA LoadedStays ==
  ASSUME NEW p \in Publishers, Loaded(p), alive'[p] = alive[p],
         unit'[p] = unit[p], file'[p] = file[p], next'[p] = next[p]
  PROVE  Loaded(p)'
  BY DEF Loaded

\* A step of another publisher does.
LEMMA OthersLoad ==
  ASSUME TInv, NEW q \in Publishers, NEW p \in Publishers, p # q, Loaded(p),
         \/ Start(q) \/ End(q) \/ LoadNext(q)
         \/ \E k \in Keys : Delete(q, k) \/ StopHalfWay(q, k) \/ \E v \in Values : Put(q, k, v)
  PROVE  Loaded(p)'
<1>1. ASSUME NEW k \in Keys, NEW v, InsertAndWrite(q, k, v)
      PROVE  unit'[p] = unit[p]
  BY <1>1 DEF TInv, Stores, Contents, InsertAndWrite
<1>2. CASE Start(q) \/ End(q)
  BY <1>2, LoadedStays DEF Start, End, TInv, Stores, Contents, Running, Reading
<1>3. CASE LoadNext(q)
  <2>1. unit'[p] = unit[p]
    BY <1>1, <1>3, EntriesAreElements DEF LoadNext, TInv
  <2>2. alive' = alive /\ file' = file /\ next'[p] = next[p]
    BY <1>3 DEF LoadNext, TInv, Reading
  <2>3. QED
    BY <2>1, <2>2, LoadedStays
<1>4. CASE \E k \in Keys : Delete(q, k) \/ StopHalfWay(q, k) \/ \E v \in Values : Put(q, k, v)
  <2>1. unit'[p] = unit[p]
    BY <1>1, <1>4 DEF Delete, StopHalfWay, Put, UnregisterAndErase, TInv, Stores, Contents
  <2>2. UNCHANGED <<alive, file, next>>
    BY <1>4 DEF Delete, StopHalfWay, Put
  <2>3. QED
    BY <2>1, <2>2, LoadedStays
<1>5. QED
  BY <1>2, <1>3, <1>4

\* So do its own.
LEMMA StartLoads ==
  ASSUME TInv, NEW p \in Publishers, Program[p] = "JsonWriter", Loaded(p), Start(p) \/ End(p)
  PROVE  Loaded(p)'
<1>1. CASE Start(p)
  <2>1. alive'[p] /\ next'[p] = 1 /\ unit'[p] = Nothing
    BY <1>1 DEF Start, TInv, Running, Reading, Loaded
  <2>2. \A id : LastBefore(file'[p], 1, id) = None
    BY DEF LastBefore, Before
  <2>3. \A id \in Ids : <<Gid[p], id>> \in Keys
    BY ProcessAssumption DEF Keys
  <2>4. \A id \in Ids : Nothing[<<Gid[p], id>>] = None
    BY <2>3 DEF Nothing
  <2>5. QED
    BY <2>1, <2>2, <2>4 DEF Loaded
<1>2. CASE End(p)
  BY <1>2 DEF End, TInv, Stores, Contents, Running, Loaded
<1>3. QED
  BY <1>1, <1>2

LEMMA NextLoads ==
  ASSUME TInv, NEW p \in Publishers, Loaded(p), LoadNext(p)
  PROVE  Loaded(p)'
<1> DEFINE f == file[p]
           n == next[p]
           entry == f[n]
<1>1. /\ alive[p] /\ alive' = alive /\ file' = file
      /\ n \in Nat \ {0} /\ n <= Len(f) /\ Len(f) \in Nat
      /\ \A j \in 1..n - 1 : f[j] # Unreadable
  BY FilesAreSequences DEF LoadNext, TInv, Reading, Loaded
<1>2. \A id \in Ids : unit[p][<<Gid[p], id>>] = LastBefore(f, n, id)
  BY <1>1 DEF Loaded
<1>3. CASE entry = Unreadable
  <2>1. next'[p] = Len(f) + 1 /\ UNCHANGED unit
    BY <1>3 DEF LoadNext, TInv, Reading
  <2>2. \A id : LastBefore(f, Len(f) + 1, id) = LastBefore(f, n, id)
    BY <1>1, <1>3, ReadStops
  <2>3. QED
    BY <1>1, <1>2, <2>1, <2>2 DEF Loaded
<1>4. CASE entry # Unreadable
  <2> DEFINE k == <<Gid[p], entry.id>>
             v == entry.val
  <2>1. next'[p] = n + 1 /\ InsertAndWrite(p, k, v) /\ k \in Keys /\ v \in Values
    BY <1>1, <1>4, EntriesAreElements DEF LoadNext, TInv, Reading
  <2>2. \A j \in 1..n : f[j] # Unreadable
    BY <1>1, <1>4
  <2>3. \A id : LastBefore(f, n + 1, id) = IF entry.id = id THEN v ELSE LastBefore(f, n, id)
    BY <1>1, <2>2, ReadMore
  <2>4. \A id \in Ids : <<Gid[p], id>> \in Keys /\ (<<Gid[p], id>> = k <=> id = entry.id)
    BY ProcessAssumption DEF Keys
  <2> HIDE DEF k, v, entry
  <2>5. \A l \in Keys : unit'[p][l] = IF l = k THEN v ELSE unit[p][l]
    BY <2>1 DEF InsertAndWrite, TInv, Stores, Contents
  <2>6. \A id \in Ids : unit'[p][<<Gid[p], id>>] = LastBefore(f, n + 1, id)
    BY <1>2, <2>3, <2>4, <2>5
  <2>7. \A j \in 1..(n + 1) - 1 : f[j] # Unreadable
    BY <1>1, <2>2
  <2>8. QED
    BY <1>1, <2>1, <2>6, <2>7 DEF Loaded
<1>5. QED
  BY <1>3, <1>4

LEMMA FInvAlways == Spec => []FInv
<1>1. Init => FInv
  BY DEF Init, FInv, Loaded
<1>2. TInv /\ FInv /\ [Next]_vars => FInv'
  <2> SUFFICES ASSUME TInv, FInv, [Next]_vars,
                      NEW p \in Publishers, Program[p] = "JsonWriter"
               PROVE  Loaded(p)'
    BY DEF FInv
  <2>1. Loaded(p)
    BY DEF FInv
  <2>2. ASSUME UNCHANGED process PROVE Loaded(p)'
    BY <2>1, <2>2, LoadedStays DEF process
  <2>3. ASSUME NEW q \in Publishers,
               \/ Start(q) \/ End(q) \/ LoadNext(q)
               \/ \E k \in Keys : Delete(q, k) \/ StopHalfWay(q, k) \/ \E v \in Values : Put(q, k, v)
        PROVE  Loaded(p)'
    <3>1. CASE q # p
      BY <2>1, <2>3, <3>1, OthersLoad
    <3>2. CASE q = p
      BY <2>1, <2>3, <3>2, StartLoads, NextLoads DEF Delete, StopHalfWay, Put
    <3>3. QED
      BY <3>1, <3>2
  <2>4. QED
    BY <2>2, <2>3
    DEF Next, Deliver, DeliverSample, DeliverDisposal, Expire, Take, ReaderRestart, vars, process
<1>3. QED
  BY <1>1, <1>2, TInvAlways, PTL DEF Spec

\* README.md:3 of HSDS/JsonWriter for any files, however many writes fail: for each id
\* whose last write did not, the topic has the last entry read so far, where the access
\* control can tell who may write (the IDL types have a dpmgid that is a key, and no
\* DPM_GID is the missing SN).
THEOREM FilesArePublished ==
  ASSUME TopicType.known, TopicType.dpmgid = "key", TopicType.text, NoSN \notin Gids
  PROVE  Spec => []FileIsPublished
<1>1. TInv /\ FInv => FileIsPublished
  <2> SUFFICES ASSUME TInv, FInv, NEW p \in Publishers, alive[p], Program[p] = "JsonWriter",
                      Subject[p] = Gid[p], NEW id \in Ids
               PROVE  \/ <<Gid[p], id>> \in missed[p]
                      \/ registered[p][<<Gid[p], id>>] = LastBefore(file[p], next[p], id)
    BY DEF FileIsPublished, ReadOf, LastBefore, Before
  <2>1. LocallyAllowed(installed[p], p, Gid[p])
    BY ProcessAssumption DEF LocallyAllowed, CommonCheck
  <2>2. Loaded(p)
    BY DEF FInv
  <2>3. unit[p][<<Gid[p], id>>] = LastBefore(file[p], next[p], id)
    BY <2>2 DEF Loaded
  <2>4. <<Gid[p], id>> \in Keys /\ <<Gid[p], id>>[1] = Gid[p]
    BY ProcessAssumption DEF Keys
  <2>5. QED
    BY <2>1, <2>3, <2>4 DEF TInv, Stores, Follows
<1>2. QED
  BY <1>1, TInvAlways, FInvAlways, PTL

=============================================================================
