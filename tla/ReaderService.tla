---------------------------- MODULE ReaderService ----------------------------
(***************************************************************************)
(* The Reader as an HTTP server: one endpoint, read by clients page by page  *)
(* (the GET handlers of HsdsResource.h) while the listener of its topic       *)
(* changes the container (Listener::on_data_available of Reader.cpp).         *)
(*                                                                          *)
(* Two threads run on_data_available: main, which calls it when it sets the   *)
(* listener (the webserver is up by then), and DDS.  mutex is                *)
(* Application::mutex_.  What the listener sends to a web hook is WebHook.tla. *)
(* DDS, libhttpserver and the clients are external.                          *)
(***************************************************************************)
EXTENDS Container, Token, FiniteSetsExt

CONSTANTS Workers,       \* handler threads of the webserver (1 as built)
          Listeners,     \* threads that run on_data_available
          Free,          \* the mutex is not held
          NoArg,         \* the argument is not in the URL
          Args,          \* the numbers clients give as offset and count
          Authorizations,\* the Authorization headers clients send
          SizeModulus,   \* 2^64, the number of values of size_t
          PageSize,      \* the count of a client that reads page by page
          Early,         \* the instances that writers have when the Reader starts
          MaxSamples     \* bound: changes of the topic after that

ASSUME ThreadsAssumption == Free \notin Workers \cup Listeners /\ Workers \cap Listeners = {}
ASSUME ArgsAssumption == Args \subseteq Int /\ NoArg \notin Int /\ PageSize \in Nat \ {0}
ASSUME TokensAssumption ==
  \A a \in Authorizations : a.scheme = "Bearer" /\ Decodes(a.token) => Dated(a.token[2].holds)
ASSUME SizeAssumption ==
  IsFiniteSet(Keys) /\ SizeModulus \in Nat /\ SizeModulus > Cardinality(Keys) + 1

VARIABLES topic,    \* instance -> its value, None when no writer has it
          arrived,  \* the instances with a sample not yet taken
          samples,  \* changes of the topic since the start
          unit,     \* Unit<T>::container
          mutex,    \* the thread that holds Application::mutex_, or Free
          pc,       \* where each thread is
          batch,    \* listener: taken samples still to be handled
          req,      \* worker: the request it handles
          offset, count,   \* worker: the arguments, as size_t
          page,     \* worker: the elements written so far
          calm,     \* history: no listener was at work since count was read
          scan      \* history: what a client that pages has seen

dds == <<topic, arrived, samples>>
handler == <<req, offset, count, page>>
vars == <<dds, unit, mutex, pc, batch, handler, calm, scan>>

Threads == Workers \cup Listeners

NoRequest == [op |-> "none"]

\* The client that reads the whole collection page by page: next is the offset
\* it asks for (0: it has not begun), start what was stored when its first page
\* was taken and is not erased since, got what it was sent.
NoScan == [next |-> 0, start |-> {}, got |-> {}, erases |-> 0]

ArgTexts == Args \cup {NoArg}

\* A modifying method stands for PUT, POST and DELETE.
Requests ==
  [op : {"GET"}, auth : Authorizations, key : {CHOOSE k \in Keys : TRUE}]
  \cup [op : {"GETALL"}, auth : Authorizations, offset : ArgTexts, count : ArgTexts, scan : {FALSE}]
  \cup [op : {"modify"}, auth : Authorizations]
  \cup [op : {"GETALL"}, auth : Authorizations, offset : {scan.next}, count : {PageSize}, scan : {TRUE}]

\* Writers may have been there first: DDS sends a Reader that comes what they have.
Init ==
  /\ topic \in [Keys -> Values \cup {None}] /\ samples = 0
  /\ arrived = {k \in Keys : topic[k] # None} /\ arrived = Early
  /\ unit = Empty
  /\ mutex = Free
  /\ pc = [t \in Threads |-> "idle"]
  /\ batch = [l \in Listeners |-> [k \in {} |-> None]]
  /\ req = [w \in Workers |-> NoRequest]
  /\ offset = [w \in Workers |-> 0] /\ count = [w \in Workers |-> 0]
  /\ page = [w \in Workers |-> << >>]
  /\ calm = [w \in Workers |-> FALSE]
  /\ scan = NoScan

Goto(t, l) == pc' = [pc EXCEPT ![t] = l]

-----------------------------------------------------------------------------
(* DDS                                                                       *)

Publish(k) ==
  /\ samples < MaxSamples
  /\ samples' = samples + 1
  /\ \E v \in Values : topic' = [topic EXCEPT ![k] = v]
  /\ arrived' = arrived \cup {k}
  /\ UNCHANGED <<unit, mutex, pc, batch, handler, calm, scan>>

Unregister(k) ==
  /\ samples < MaxSamples
  /\ topic[k] # None
  /\ samples' = samples + 1
  /\ topic' = [topic EXCEPT ![k] = None]
  /\ arrived' = arrived \cup {k}
  /\ UNCHANGED <<unit, mutex, pc, batch, handler, calm, scan>>

-----------------------------------------------------------------------------
(* on_data_available                                                         *)

Samples == [k \in arrived |-> topic[k]]

\* Mutant of Take: the guard does not wait.
TakeAnyway(l) ==
  /\ pc[l] = "idle"
  /\ mutex' = l
  /\ batch' = [batch EXCEPT ![l] = Samples]
  /\ arrived' = {}
  /\ Goto(l, "loop")
  /\ calm' = [w \in Workers |-> FALSE]
  /\ UNCHANGED <<topic, samples, unit, handler, scan>>

\* A callback of DDS, or main's own call: ACE_GUARD, then take, which finds nothing
\* (RETCODE_NO_DATA) where the other thread has taken everything while this one waited.
\* There is no bound on such calls: they also stand for samples that change nothing.
Take(l) ==
  /\ pc[l] = "idle"
  /\ mutex = Free
  /\ mutex' = l
  /\ batch' = [batch EXCEPT ![l] = Samples]
  /\ arrived' = {}
  /\ Goto(l, "loop")
  /\ calm' = [w \in Workers |-> FALSE]
  /\ UNCHANGED <<topic, samples, unit, handler, scan>>

\* Mutant of Handle: what has no valid data is skipped, a disposal too.
HandleValidOnly(l, k) ==
  LET v == batch[l][k]
  IN  /\ pc[l] = "loop"
      /\ k \in DOMAIN batch[l]
      /\ unit' = IF v = None THEN unit ELSE Insert(unit, [key |-> k, val |-> v])
      /\ batch' = [batch EXCEPT ![l] = [j \in DOMAIN @ \ {k} |-> @[j]]]
      /\ Goto(l, "loop") \/ Goto(l, "hung")
      /\ UNCHANGED <<dds, mutex, handler, calm, scan>>

\* One turn of the loop: an instance that is not alive is erased.  Then the web hook,
\* if there is one, is called under the lock and without a timeout, so that the call
\* may never return (Reader.cpp:157-202).
Handle(l, k) ==
  LET v == batch[l][k]
  IN  /\ pc[l] = "loop"
      /\ k \in DOMAIN batch[l]
      /\ unit' = IF v = None THEN Erase(unit, k) ELSE Insert(unit, [key |-> k, val |-> v])
      /\ batch' = [batch EXCEPT ![l] = [j \in DOMAIN @ \ {k} |-> @[j]]]
      /\ scan' = IF v = None /\ Has(unit, k) /\ scan.next > 0
                 THEN [scan EXCEPT !.erases = @ + 1, !.start = @ \ {k}, !.got = @ \ {k}]
                 ELSE scan
      /\ Goto(l, "loop") \/ Goto(l, "hung")
      /\ UNCHANGED <<dds, mutex, handler, calm>>

\* Mutant of Unlock: the guard is not released.
UnlockNever(l) ==
  /\ pc[l] = "loop"
  /\ DOMAIN batch[l] = {}
  /\ Goto(l, "idle")
  /\ UNCHANGED <<dds, unit, mutex, batch, handler, calm, scan>>

Unlock(l) ==
  /\ pc[l] = "loop"
  /\ DOMAIN batch[l] = {}
  /\ mutex' = Free
  /\ Goto(l, "idle")
  /\ UNCHANGED <<dds, unit, batch, handler, calm, scan>>

-----------------------------------------------------------------------------
(* The handlers                                                              *)

Forget(w) ==
  /\ req' = [req EXCEPT ![w] = NoRequest]
  /\ offset' = [offset EXCEPT ![w] = 0] /\ count' = [count EXCEPT ![w] = 0]
  /\ page' = [page EXCEPT ![w] = << >>]
  /\ calm' = [calm EXCEPT ![w] = FALSE]

Return(w) ==
  /\ Goto(w, "idle")
  /\ mutex' = IF mutex = w THEN Free ELSE mutex
  /\ Forget(w)

\* 405 (the Reader's resources allow no modifying method), 401, or libhttpserver's
\* own 500 for an exception that leaves the handler: nothing is touched.
Refuse(w) ==
  /\ pc[w] = "idle"
  /\ \E r \in Requests : r.op = "modify" \/ Authorization(r.auth) # {"granted"}
  /\ UNCHANGED vars

\* atoi gives an int, which becomes a size_t.
SizeT(i) == i % SizeModulus

\* container.size() without the lock: in a race with a listener's insert or
\* erase it is undefined what it yields.
SizesRead == IF mutex \in Listeners THEN 0..SizeModulus - 1 ELSE {Size(unit)}

\* A request arrives, is authorized, and reads its arguments and the size.  What
\* is kept of its token is whether it is genuine, which only OnlyGenuineTokens reads.
Admit(w) ==
  /\ pc[w] = "idle"
  /\ \E r \in Requests :
       /\ r.op # "modify"
       /\ Authorization(r.auth) = {"granted"}
       /\ req' = [req EXCEPT ![w] = [r EXCEPT !.auth = Genuine(@)]]
       /\ IF r.op = "GET"
          THEN UNCHANGED <<offset, count, calm>>
          ELSE /\ offset' = [offset EXCEPT ![w] = IF r.offset = NoArg THEN 0 ELSE SizeT(r.offset)]
               /\ \E n \in IF r.count = NoArg THEN SizesRead ELSE {SizeT(r.count)} :
                    count' = [count EXCEPT ![w] = n]
               /\ calm' = [calm EXCEPT ![w] = mutex \notin Listeners]
  /\ Goto(w, "lock")
  /\ UNCHANGED <<dds, unit, mutex, batch, page, scan>>

\* ACE_GUARD_RETURN
Acquire(w) ==
  /\ pc[w] = "lock"
  /\ mutex = Free
  /\ mutex' = w
  /\ Goto(w, "body")
  /\ UNCHANGED <<dds, unit, batch, handler, calm, scan>>

\* 200 or 404
Get(w) ==
  /\ pc[w] = "body"
  /\ req[w].op = "GET"
  /\ Return(w)
  /\ UNCHANGED <<dds, unit, batch, scan>>

\* Mutant of Position: offset counts from 1.
PositionFrom1(w) == offset[w] + Len(page[w]) + 2

\* The iterator, advanced by offset and once for each element written.
Position(w) == offset[w] + Len(page[w]) + 1

\* Mutant of More: the loop ends one element early.
MoreButOne(w) == Position(w) < Size(unit) /\ Len(page[w]) # count[w]

\* The loop's condition: neither the end of the container nor count elements.
More(w) == Position(w) <= Size(unit) /\ Len(page[w]) # count[w]

AddElement(w) ==
  /\ pc[w] = "body"
  /\ req[w].op = "GETALL"
  /\ More(w)
  /\ page' = [page EXCEPT ![w] = Append(@, unit.list[Position(w)])]
  /\ UNCHANGED <<dds, unit, mutex, pc, batch, req, offset, count, calm, scan>>

EndPage(w) ==
  /\ pc[w] = "body"
  /\ req[w].op = "GETALL"
  /\ ~More(w)
  /\ Goto(w, "respond")
  /\ UNCHANGED <<dds, unit, mutex, batch, handler, calm, scan>>

KeysOf(list) == {list[i].key : i \in DOMAIN list}

\* 200 with the page and the headers Offset, Count (of the page) and Total (the
\* size); a client that pages goes on where the page ended and is done when it
\* comes back empty.
Respond(w) ==
  /\ pc[w] = "respond"
  /\ scan' = IF ~req[w].scan \/ req[w].offset # scan.next THEN scan
             ELSE IF page[w] = << >> THEN NoScan
             ELSE [next   |-> scan.next + Len(page[w]),
                   start  |-> IF scan.next = 0 THEN KeysOf(unit.list) ELSE scan.start,
                   got    |-> scan.got \cup KeysOf(page[w]),
                   erases |-> scan.erases]
  /\ Return(w)
  /\ UNCHANGED <<dds, unit, batch>>

-----------------------------------------------------------------------------

Listen(l) ==
  \/ Take(l) \/ Unlock(l)
  \/ \E k \in Keys : Handle(l, k)

Step(w) == Acquire(w) \/ Get(w) \/ AddElement(w) \/ EndPage(w) \/ Respond(w)

Next ==
  \/ \E k \in Keys : Publish(k) \/ Unregister(k)
  \/ \E l \in Listeners : Listen(l)
  \/ \E w \in Workers : Refuse(w) \/ Admit(w) \/ Step(w)

\* Threads that can run do.  Clients may ask again and again and callbacks may
\* keep coming, so that a thread finds the mutex free only now and then: strong fairness,
\* which takes a mutex of the operating system that gets to each thread that waits.
Spec ==
  /\ Init /\ [][Next]_vars
  /\ \A l \in Listeners : SF_vars(Listen(l))
  /\ \A w \in Workers : SF_vars(Step(w))

-----------------------------------------------------------------------------
(* What makes it correct                                                     *)

Batches == UNION {[K -> Values \cup {None}] : K \in SUBSET Keys}

TypeOK ==
  /\ topic \in [Keys -> Values \cup {None}] /\ arrived \subseteq Keys /\ samples \in Nat
  /\ Consistent(unit)
  /\ mutex \in Threads \cup {Free}
  /\ pc \in [Threads -> {"idle", "lock", "body", "respond", "loop", "hung"}]
  /\ batch \in [Listeners -> Batches]
  /\ offset \in [Workers -> 0..SizeModulus - 1] /\ count \in [Workers -> 0..SizeModulus - 1]
  /\ page \in [Workers -> Seq(Element)]
  /\ calm \in [Workers -> BOOLEAN]
  /\ scan.next \in Nat /\ scan.erases \in Nat
  /\ scan.start \subseteq Keys /\ scan.got \subseteq Keys

\* README.md:12 of HSDS/Writer ("The HTTP API is secured via a token generated by
\* the DPM"): whoever gets past is_authorized (ResourceBase.h:69) has a token that
\* the issuer signed for this application and that is valid now.
OnlyGenuineTokens ==
  \A w \in Workers : pc[w] # "idle" => req[w].auth

\* The answer to a collection GET shows one moment of the container: the elements
\* from offset on, without a gap, at most count and fewer only where the container
\* ends, whatever int the client gave for either (HsdsResource.h:353-390).
PageIsSlice ==
  \A w \in Workers : pc[w] = "respond" =>
    LET last == Min({Size(unit), offset[w] + count[w]})
    IN  page[w] = SubSeq(unit.list, offset[w] + 1, last)

\* README.md:34 of HSDS/Writer: without arguments a collection GET gives every
\* element.  So it does when no listener was at work between the read of the size
\* (HsdsResource.h:353) and the lock.
CalmDefaultIsWhole ==
  \A w \in Workers :
    pc[w] = "respond" /\ calm[w] /\ req[w].offset = NoArg /\ req[w].count = NoArg
      => page[w] = unit.list

\* The page that ends the scan is being written.
Ending(w) ==
  /\ pc[w] = "respond" /\ req[w].scan /\ req[w].offset = scan.next
  /\ scan.next > 0 /\ page[w] = << >>

\* A client that pages through the collection while listeners change it misses at
\* most one of the elements that stayed all the time for each one erased meanwhile
\* (erase moves only the last element, Container.h:59), and none if none was.
ScanMissesOnlyMoved ==
  \A w \in Workers : Ending(w) => Cardinality(scan.start \ scan.got) <= scan.erases

\* A call of the web hook does not return.
Hung == \E l \in Listeners : pc[l] = "hung"

\* Every request is answered, however often listeners take the mutex and for as long
\* as callbacks come; except that nobody is once a call of the web hook, which is made
\* under the lock, does not return (Reader.cpp:135-202).
EveryRequestAnswered == \A w \in Workers : pc[w] # "idle" ~> (pc[w] = "idle" \/ Hung)

\* Two threads run on_data_available, and still the container catches up with the
\* topic: no older batch is applied after a newer one (Reader.cpp:135-140).  It stays
\* behind where a call of the web hook does not return.
EventuallyCurrent == <>[](Hung \/ Content(unit) = topic)

=============================================================================
