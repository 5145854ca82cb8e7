-------------------------- MODULE WriterProperties --------------------------
(* What makes the Writer correct, stated of WriterService.                   *)
EXTENDS WriterService

Labels == {"idle", "check", "lock", "body", "swap", "load", "store"}

\* The type of every variable, and for both kinds of container that their list
\* and map agree.
TypeOK ==
  /\ createWriters \in BOOLEAN
  /\ Consistent(unit)
  /\ instance \in [Keys -> Values \cup {None}]
  /\ transaction \in Nat
  /\ mutex \in Workers \cup {Free}
  /\ pc \in [Workers -> Labels]
  /\ req \in [Workers -> Request \cup {NoRequest}]
  /\ new = [w \in Workers |-> new[w]] /\ \A w \in Workers : Consistent(new[w])
  /\ todo \in [Workers -> Seq(Element)]
  /\ left \in [Workers -> [old : SUBSET Keys, new : SUBSET Keys]]
  /\ reg \in [Workers -> Nat]
  /\ faults \in Nat
  /\ before \in [Workers -> [Keys -> Values \cup {None}]]
  /\ seen.transaction \in Nat \cup {-1} /\ seen.content \subseteq Element

\* The handlers that hold the mutex are the ones between their ACE_GUARD_RETURN
\* and their return, except a collection PUT once its guarded block has ended.
Guarded(w) ==
  \/ pc[w] = "body"
  \/ pc[w] \in {"load", "store"} /\ req[w].op # "PUTALL"

\* No two handlers are in their guarded part at once, every early return
\* (400, 404, 500) has released the mutex, and none is left holding it.
MutualExclusion == \A w \in Workers : Guarded(w) <=> mutex = w

Published == \A k \in Keys : instance[k] = ValueOf(unit, k)

\* Some handler has begun to change the unit or the topic and has not finished.
Busy(w) == pc[w] \in {"body", "swap", "load", "store"}

\* While no handler is at work and no call of DDS has failed, the topic shows
\* exactly what the API shows: the diff of a collection PUT, the per-element loops and erase's reordering miss
\* nothing and publish nothing twice over (README.md:3 of HSDS/Writer).
PublishedMatchesContainer ==
  createWriters /\ faults = 0 /\ (\A w \in Workers : ~Busy(w)) => Published

\* The value a list gives key k: that of the last element with that key.
LastOf(body, k) ==
  LET hits == {i \in DOMAIN body : body[i].key = k}
  IN  IF hits = {} THEN None ELSE body[CHOOSE i \in hits : \A j \in hits : j <= i].val

\* What a successful answer to r tells the client: container and topic both
\* have the value r asked for.
Done(r, k) ==
  LET holds(v) == ValueOf(unit', k) = v /\ (createWriters => instance'[k] = v)
  IN  CASE r.op \in {"PUT", "POSTALL"} -> LastOf(r.body, k) # None => holds(LastOf(r.body, k))
        [] r.op = "PUTALL" -> holds(LastOf(r.body, k))
        [] r.op = "DELETE" -> k = r.key => holds(None)
        [] r.op = "DELETEALL" -> holds(None)

Succeeds(w) == pc[w] = "store" /\ pc'[w] = "idle"

\* An answer of success was earned: see SuccessMeansPublished.
SuccessIsTrue == \A w \in Workers : Succeeds(w) => \A k \in Keys : Done(req[w], k)

\* README.md:3 of HSDS/Writer, "writes the received data to the configured
\* topics", of every request answered with success, a retry after a 500 included.
SuccessAlwaysMeansPublished == [][SuccessIsTrue]_vars

\* A request answered with success has taken effect, in the container and on
\* the topic (HsdsResource.h:76-78, 145-147, 287-289, 342-344, 414-416), as long
\* as no call of DDS has failed.
SuccessMeansPublished == [][faults = 0 => SuccessIsTrue]_vars

SameContent == seen'.transaction = seen.transaction => seen'.content = seen.content

\* README.md:106 of HSDS/Writer: the Transaction header "allows a client to
\* determine if the Writer requires resynchronization".  Two collection GETs that
\* carry the same Transaction carry the same elements.
SameTransactionAlwaysSameContent == [][SameContent]_seen

\* The same, as long as no call of DDS has failed.
SameTransactionSameContent == [][faults = 0 => SameContent]_seen

\* 500: the handler ends in its guarded part, and not because it has no such element.
Fails(w) ==
  /\ pc[w] = "body" /\ pc'[w] = "idle"
  /\ req[w].op \in Modifying
  /\ req[w].op = "DELETE" => Has(unit, req[w].key)

\* A 500 is an Internal Server Error: no sequence of requests leads to one unless a
\* call of DDS failed on its own, in this request or an earlier one (then every
\* retry of a collection DELETE may fail, HsdsResource.h:402).  So each handler
\* unregisters only what it or another has written and not unregistered since.
FailuresHaveCause == [][\A w \in Workers : Fails(w) => faults' > 0]_vars

\* The comment on mutex_ (Application.h:485): transaction_ and the Units change
\* only while the mutex is held.
MutexProtectsUnit == [][mutex # Free]_<<unit, transaction>>

\* A handler that got the mutex gives it back.
MutexReleased == \A w \in Workers : mutex = w ~> mutex # w

\* Every request is answered, with other handlers competing for the lock and clients
\* that never stop asking (ACE_GUARD_RETURN in each of them, HsdsResource.h:334), if
\* the mutex gets to each thread that waits for it.
EveryRequestAnswered ==
  (\A w \in Workers : SF_vars(Acquire(w))) => \A w \in Workers : pc[w] # "idle" ~> pc[w] = "idle"

-----------------------------------------------------------------------------
(* The Writer implements HsdsApi.  While a handler is at work the API's store *)
(* is still what the handler found; its effect and its count appear together, *)
(* when it returns.                                                          *)

ApiStore ==
  IF \E w \in Workers : Busy(w)
  THEN before[CHOOSE w \in Workers : Busy(w)]
  ELSE Content(unit)

Api == INSTANCE HsdsApi WITH
  store <- ApiStore,
  Elements <- {e \in Element : e.key \in Own /\ e.val \notin Incomplete}

\* Every successful request is one atomic step of the API and is counted once;
\* a failed one touches no key it did not name and is not counted; nothing
\* unchecked enters.
ImplementsApi == Api!Init /\ [][Api!Next]_(Api!vars)

=============================================================================
