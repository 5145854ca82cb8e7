---------------------------- MODULE WriterService ----------------------------
(***************************************************************************)
(* The Writer: one endpoint of its HTTP API (HsdsResource.h, ResourceBase.h) *)
(* over the Unit and the transaction counter of the Application             *)
(* (Application.h), publishing to one DDS topic.                             *)
(*                                                                          *)
(* A handler thread takes a request and runs the handler of its method step  *)
(* by step.  mutex is Application::mutex_; the handler of a collection PUT   *)
(* releases it before it swaps and counts, as the code does.  libhttpserver  *)
(* and DDS are external: a request reaches any idle thread; write and         *)
(* unregister_instance may fail at most MaxFaults times, and unregistering an *)
(* instance that is not registered always fails.                             *)
(***************************************************************************)
EXTENDS Container

CONSTANTS Workers,         \* handler threads of the webserver (1 as built)
          Ops,             \* the kinds of request clients send
          Free,            \* the mutex is not held
          Own,             \* the keys whose dpmgid is DPM_GID
          Incomplete,      \* the values check_input refuses
          MaxBody,         \* bound: elements in a list
          MaxTransaction,  \* bound: modifying requests start below it
          MaxFaults        \* bound: DDS calls that fail

AllOps == {"GET", "PUT", "DELETE", "GETALL", "PUTALL", "POSTALL", "DELETEALL"}
Modifying == AllOps \ {"GET", "GETALL"}

ASSUME WorkersAssumption == Free \notin Workers
ASSUME OpsAssumption == Ops \subseteq AllOps
ASSUME OwnAssumption == Own \subseteq Keys /\ Incomplete \subseteq Values
ASSUME BoundsAssumption ==
  MaxBody \in Nat /\ MaxTransaction \in Nat /\ MaxFaults \in Nat

VARIABLES createWriters,  \* CREATE_WRITERS of the environment
          unit,           \* Unit<T>::container
          instance,       \* the topic: key -> last value written, None if unregistered
          transaction,    \* Application::transaction_
          mutex,          \* the thread that holds Application::mutex_, or Free
          pc,             \* where each thread's handler is
          req,            \* the request it handles
          new,            \* render_PUT's new_container
          todo,           \* elements its loop has still to visit
          left,           \* keys pos_old and pos_new of a merge have still ahead
          reg,            \* count of a collection GET; transaction_ as ++ loaded it
          faults,         \* DDS calls that failed so far
          before,         \* history: the content when the thread began to work on it
          seen            \* history: the last collection GET's Transaction and elements

local == <<req, new, todo, left, reg, before>>
shared == <<unit, instance, transaction, faults>>
vars == <<createWriters, shared, mutex, pc, local, seen>>

Bodies == UNION {[1..n -> Element] : n \in 0..MaxBody}

\* token: the Authorization header carries a JWT the issuer signed.
Request == [op : Ops, token : BOOLEAN, key : Keys, body : Seq(Element)]

\* The requests clients send: an element request names a key, a list request
\* does not; PUT of an element has one element in its body.
Requests ==
  {r \in [op : Ops, token : BOOLEAN, key : Keys, body : Bodies] :
     /\ r.op \in {"GET", "DELETE", "GETALL", "DELETEALL"} => r.body = << >>
     /\ r.op = "PUT" => Len(r.body) = 1
     /\ r.op \in {"GETALL", "PUTALL", "POSTALL", "DELETEALL"} =>
           r.key = CHOOSE k \in Keys : TRUE
     /\ ~r.token => r.body = << >> \/ r.op = "PUT"}

NoRequest == [op |-> "none"]
NoMerge == [old |-> {}, new |-> {}]

Init ==
  /\ createWriters \in BOOLEAN
  /\ unit = Empty
  /\ instance = [k \in Keys |-> None]
  /\ transaction = 0
  /\ mutex = Free
  /\ pc = [w \in Workers |-> "idle"]
  /\ req = [w \in Workers |-> NoRequest]
  /\ new = [w \in Workers |-> Empty]
  /\ todo = [w \in Workers |-> << >>]
  /\ left = [w \in Workers |-> NoMerge]
  /\ reg = [w \in Workers |-> 0]
  /\ faults = 0
  /\ before = [w \in Workers |-> Content(Empty)]
  /\ seen = [transaction |-> -1, content |-> {}]

-----------------------------------------------------------------------------
(* The checks before the lock                                                *)

\* The verifier knows the issuer's key only once the security documents are
\* downloaded, which main does only when it creates writers.
Authorized(r) == r.token /\ createWriters

\* Mutant of CheckCommon: the dpmgid is not compared.
CheckCommonOfAnyOwner(e) == TRUE

\* A writer accepts the elements of its own dpmgid only.
CheckCommon(e) == createWriters => e.key \in Own

\* check_input: check_common, then the mandatory fields of the type.
CheckInput(e) == CheckCommon(e) /\ e.val \notin Incomplete

Goto(w, l) == pc' = [pc EXCEPT ![w] = l]

\* The handler's locals die.
Forget(w) ==
  /\ req' = [req EXCEPT ![w] = NoRequest]
  /\ new' = [new EXCEPT ![w] = Empty]
  /\ todo' = [todo EXCEPT ![w] = << >>]
  /\ left' = [left EXCEPT ![w] = NoMerge]
  /\ reg' = [reg EXCEPT ![w] = 0]
  /\ before' = [before EXCEPT ![w] = Content(Empty)]

\* Mutant of Return: nothing releases the mutex.
ReturnHolding(w) == Goto(w, "idle") /\ UNCHANGED mutex /\ Forget(w)

\* Return from the handler, from wherever: the guard, if held, releases the mutex.
Return(w) ==
  /\ Goto(w, "idle")
  /\ mutex' = IF mutex = w THEN Free ELSE mutex
  /\ Forget(w)

\* A request arrives at an idle thread.  MaxTransaction bounds the counter.
Receive(w) ==
  /\ pc[w] = "idle"
  /\ \E r \in Requests :
       /\ r.op \in Modifying => transaction < MaxTransaction
       /\ req' = [req EXCEPT ![w] = r]
       /\ todo' = [todo EXCEPT ![w] = r.body]
  /\ Goto(w, "check")
  /\ UNCHANGED <<createWriters, shared, mutex, new, left, reg, before, seen>>

\* 401
Refuse(w) ==
  /\ pc[w] = "check"
  /\ ~Authorized(req[w])
  /\ Return(w)
  /\ UNCHANGED <<createWriters, shared, seen>>

\* An element that check_input refuses, or whose key is not the one in the
\* URL, ends the request with 400.
RefuseElement(w) ==
  /\ pc[w] = "check"
  /\ Authorized(req[w])
  /\ todo[w] # << >>
  /\ \/ ~CheckInput(Head(todo[w]))
     \/ req[w].op = "PUT" /\ Head(todo[w]).key # req[w].key
  /\ Return(w)
  /\ UNCHANGED <<createWriters, shared, seen>>

\* A collection PUT gathers its elements in new_container, where a key listed
\* twice keeps its last element; the other handlers keep the list.
AcceptElement(w) ==
  /\ pc[w] = "check"
  /\ Authorized(req[w])
  /\ todo[w] # << >>
  /\ CheckInput(Head(todo[w]))
  /\ req[w].op = "PUT" => Head(todo[w]).key = req[w].key
  /\ new' = IF req[w].op = "PUTALL" THEN [new EXCEPT ![w] = Insert(@, Head(todo[w]))]
            ELSE new
  /\ todo' = [todo EXCEPT ![w] = Tail(@)]
  /\ UNCHANGED <<createWriters, shared, mutex, pc, req, left, reg, before, seen>>

\* All of the input is accepted.  A collection GET reads the default of its
\* count here, before it has the lock.
Checked(w) ==
  /\ pc[w] = "check"
  /\ Authorized(req[w])
  /\ todo[w] = << >>
  /\ reg' = [reg EXCEPT ![w] = IF req[w].op = "GETALL" THEN Size(unit) ELSE 0]
  /\ IF req[w].op = "PUTALL" /\ ~createWriters
     THEN Goto(w, "swap") /\ before' = [before EXCEPT ![w] = Content(unit)]
     ELSE Goto(w, "lock") /\ UNCHANGED before
  /\ UNCHANGED <<createWriters, shared, mutex, req, new, todo, left, seen>>

\* What the handler's loop is about to visit.
ToVisit(w) ==
  CASE req[w].op \in {"PUT", "POSTALL"} -> req[w].body
    [] req[w].op = "DELETEALL" /\ createWriters -> unit.list
    [] OTHER -> << >>

\* The ordered iterators of a collection PUT's merge, at their beginnings.
KeysToMerge(w) ==
  IF req[w].op = "PUTALL" THEN [old |-> Stored(unit), new |-> Stored(new[w])] ELSE NoMerge

\* Mutant of Acquire: a failure to get the mutex goes unnoticed.
AcquireAnyway(w) ==
  /\ pc[w] = "lock"
  /\ mutex' = w
  /\ before' = [before EXCEPT ![w] = Content(unit)]
  /\ todo' = [todo EXCEPT ![w] = ToVisit(w)]
  /\ left' = [left EXCEPT ![w] = KeysToMerge(w)]
  /\ Goto(w, "body")
  /\ UNCHANGED <<createWriters, shared, req, new, reg, seen>>

\* ACE_GUARD_RETURN
Acquire(w) ==
  /\ pc[w] = "lock"
  /\ mutex = Free
  /\ mutex' = w
  /\ before' = [before EXCEPT ![w] = Content(unit)]
  /\ todo' = [todo EXCEPT ![w] = ToVisit(w)]
  /\ left' = [left EXCEPT ![w] = KeysToMerge(w)]
  /\ Goto(w, "body")
  /\ UNCHANGED <<createWriters, shared, req, new, reg, seen>>

-----------------------------------------------------------------------------
(* DDS, as the handlers use it                                               *)

Written(e) == instance' = [instance EXCEPT ![e.key] = e.val] /\ UNCHANGED faults

Unregistered(k) ==
  /\ instance[k] # None
  /\ instance' = [instance EXCEPT ![k] = None]
  /\ UNCHANGED faults

DdsFault == faults < MaxFaults /\ faults' = faults + 1 /\ UNCHANGED instance

UnregisterFails(k) ==
  \/ instance[k] = None /\ UNCHANGED <<instance, faults>>
  \/ instance[k] # None /\ DdsFault

-----------------------------------------------------------------------------
(* Under the lock: PUT of an element and POST of a list, one                  *)
(* insert_and_write for each element                                         *)

Upserting(w) == pc[w] = "body" /\ req[w].op \in {"PUT", "POSTALL"}

\* Mutant of Unchanged: any element with the key will do.
UnchangedByKey(c, e) == Has(c, e.key)

\* *pos == element
Unchanged(c, e) == Has(c, e.key) /\ Find(c, e.key) = e

SkipUnchanged(w) ==
  /\ Upserting(w)
  /\ todo[w] # << >>
  /\ Unchanged(unit, Head(todo[w]))
  /\ todo' = [todo EXCEPT ![w] = Tail(@)]
  /\ UNCHANGED <<createWriters, shared, mutex, pc, req, new, left, reg, before, seen>>

\* Mutant of InsertAndWrite: nothing is published.
InsertOnly(w) ==
  /\ Upserting(w)
  /\ todo[w] # << >>
  /\ ~Unchanged(unit, Head(todo[w]))
  /\ unit' = Insert(unit, Head(todo[w]))
  /\ todo' = [todo EXCEPT ![w] = Tail(@)]
  /\ UNCHANGED <<createWriters, instance, transaction, faults, mutex, pc, req, new, left, reg,
                 before, seen>>

InsertAndWrite(w) ==
  /\ Upserting(w)
  /\ todo[w] # << >>
  /\ ~Unchanged(unit, Head(todo[w]))
  /\ unit' = Insert(unit, Head(todo[w]))
  /\ IF createWriters THEN Written(Head(todo[w])) ELSE UNCHANGED <<instance, faults>>
  /\ todo' = [todo EXCEPT ![w] = Tail(@)]
  /\ UNCHANGED <<createWriters, transaction, mutex, pc, req, new, left, reg, before, seen>>

\* 500; the element stays in the container.
InsertAndFailToWrite(w) ==
  /\ Upserting(w)
  /\ todo[w] # << >>
  /\ ~Unchanged(unit, Head(todo[w]))
  /\ createWriters
  /\ DdsFault
  /\ unit' = Insert(unit, Head(todo[w]))
  /\ Return(w)
  /\ UNCHANGED <<createWriters, transaction, seen>>

\* Mutant of UpsertDone: the guard's block ends with the loop.
UpsertDoneUnlocking(w) ==
  /\ Upserting(w)
  /\ todo[w] = << >>
  /\ mutex' = Free
  /\ Goto(w, "load")
  /\ UNCHANGED <<createWriters, shared, local, seen>>

UpsertDone(w) ==
  /\ Upserting(w)
  /\ todo[w] = << >>
  /\ Goto(w, "load")
  /\ UNCHANGED <<createWriters, shared, mutex, local, seen>>

-----------------------------------------------------------------------------
(* DELETE of an element: unregister_and_erase                                *)

Deleting(w) == pc[w] = "body" /\ req[w].op = "DELETE"

\* 404
DeleteMissing(w) ==
  /\ Deleting(w)
  /\ ~Has(unit, req[w].key)
  /\ Return(w)
  /\ UNCHANGED <<createWriters, shared, seen>>

UnregisterAndErase(w) ==
  /\ Deleting(w)
  /\ Has(unit, req[w].key)
  /\ IF createWriters THEN Unregistered(req[w].key) ELSE UNCHANGED <<instance, faults>>
  /\ unit' = Erase(unit, req[w].key)
  /\ Goto(w, "load")
  /\ UNCHANGED <<createWriters, transaction, mutex, local, seen>>

\* 500; the element is erased all the same.
EraseButFailToUnregister(w) ==
  /\ Deleting(w)
  /\ Has(unit, req[w].key)
  /\ createWriters
  /\ UnregisterFails(req[w].key)
  /\ unit' = Erase(unit, req[w].key)
  /\ Return(w)
  /\ UNCHANGED <<createWriters, transaction, seen>>

-----------------------------------------------------------------------------
(* DELETE of the collection: unregister every element, then clear            *)

Clearing(w) == pc[w] = "body" /\ req[w].op = "DELETEALL"

UnregisterNext(w) ==
  /\ Clearing(w)
  /\ todo[w] # << >>
  /\ Unregistered(Head(todo[w]).key)
  /\ todo' = [todo EXCEPT ![w] = Tail(@)]
  /\ UNCHANGED <<createWriters, unit, transaction, mutex, pc, req, new, left, reg, before, seen>>

\* 500; what was unregistered stays in the container.
ClearFails(w) ==
  /\ Clearing(w)
  /\ todo[w] # << >>
  /\ UnregisterFails(Head(todo[w]).key)
  /\ Return(w)
  /\ UNCHANGED <<createWriters, unit, transaction, seen>>

Clear(w) ==
  /\ Clearing(w)
  /\ todo[w] = << >>
  /\ unit' = Empty
  /\ Goto(w, "load")
  /\ UNCHANGED <<createWriters, instance, transaction, faults, mutex, local, seen>>

-----------------------------------------------------------------------------
(* PUT of the collection: merge the ordered maps of the new and the old       *)
(* container, publishing the differences; then, without the lock, swap        *)

Merging(w) == pc[w] = "body" /\ req[w].op = "PUTALL"

\* Where an iterator stands: the map is ordered by key.
First(S) == CHOOSE k \in S : \A l \in S : k <= l

\* The loop takes pos_new's item, pos_old's, or both when their keys are equal.
AtNew(w) ==
  /\ left[w].new # {}
  /\ left[w].old # {} => First(left[w].new) <= First(left[w].old)

\* Mutant of AtOld: an item with the key of a new one is taken for a deleted one.
AtOldStrictly(w) ==
  /\ left[w].old # {}
  /\ left[w].new # {} => First(left[w].old) < First(left[w].new)

AtOld(w) ==
  /\ left[w].old # {}
  /\ left[w].new # {} => First(left[w].old) <= First(left[w].new)

NextKey(w) == First(IF AtNew(w) THEN left[w].new ELSE left[w].old)

\* ++pos_old, ++pos_new
Visited(w) ==
  left' = [left EXCEPT ![w] = [old |-> IF AtOld(w) THEN @.old \ {NextKey(w)} ELSE @.old,
                               new |-> IF AtNew(w) THEN @.new \ {NextKey(w)} ELSE @.new]]

SameItem(w) == AtOld(w) /\ Find(unit, NextKey(w)) = Find(new[w], NextKey(w))

MergeSame(w) ==
  /\ Merging(w)
  /\ AtNew(w) /\ SameItem(w)
  /\ Visited(w)
  /\ UNCHANGED <<createWriters, shared, mutex, pc, req, new, todo, reg, before, seen>>

\* New item, changed item.
ToWrite(w) == AtNew(w) /\ ~SameItem(w)

\* Deleted item.
ToUnregister(w) == AtOld(w) /\ ~AtNew(w)

MergeWrite(w) ==
  /\ Merging(w)
  /\ ToWrite(w)
  /\ Written(Find(new[w], NextKey(w)))
  /\ Visited(w)
  /\ UNCHANGED <<createWriters, unit, transaction, mutex, pc, req, new, todo, reg, before, seen>>

MergeUnregister(w) ==
  /\ Merging(w)
  /\ ToUnregister(w)
  /\ Unregistered(NextKey(w))
  /\ Visited(w)
  /\ UNCHANGED <<createWriters, unit, transaction, mutex, pc, req, new, todo, reg, before, seen>>

\* 500; what was published stays published, the container is not swapped.
MergeFails(w) ==
  /\ Merging(w)
  /\ \/ ToWrite(w) /\ DdsFault
     \/ ToUnregister(w) /\ UnregisterFails(NextKey(w))
  /\ Return(w)
  /\ UNCHANGED <<createWriters, unit, transaction, seen>>

\* The block that holds the guard ends.
MergeDone(w) ==
  /\ Merging(w)
  /\ left[w] = NoMerge
  /\ mutex' = Free
  /\ Goto(w, "swap")
  /\ UNCHANGED <<createWriters, shared, local, seen>>

SwapUnit(w) ==
  /\ pc[w] = "swap"
  /\ unit' = new[w]
  /\ new' = [new EXCEPT ![w] = unit]
  /\ Goto(w, "load")
  /\ UNCHANGED <<createWriters, instance, transaction, faults, mutex, req, todo, left, reg,
                 before, seen>>

-----------------------------------------------------------------------------
(* ++transaction_, which is a load and a store, and the answer               *)

Load(w) ==
  /\ pc[w] = "load"
  /\ reg' = [reg EXCEPT ![w] = transaction]
  /\ Goto(w, "store")
  /\ UNCHANGED <<createWriters, shared, mutex, req, new, todo, left, before, seen>>

\* Mutant of Store: DELETE of an element does not count.
StoreUnlessDelete(w) ==
  /\ pc[w] = "store"
  /\ transaction' = IF req[w].op = "DELETE" THEN transaction ELSE reg[w] + 1
  /\ Return(w)
  /\ UNCHANGED <<createWriters, unit, instance, faults, seen>>

\* 200 or 204
Store(w) ==
  /\ pc[w] = "store"
  /\ transaction' = reg[w] + 1
  /\ Return(w)
  /\ UNCHANGED <<createWriters, unit, instance, faults, seen>>

-----------------------------------------------------------------------------
(* GET                                                                       *)

\* 200 or 404
Get(w) ==
  /\ pc[w] = "body"
  /\ req[w].op = "GET"
  /\ Return(w)
  /\ UNCHANGED <<createWriters, shared, seen>>

\* The first reg[w] elements, and the transaction as it is now.
Page(w) == {unit.list[i] : i \in {j \in 1..Size(unit) : j <= reg[w]}}

GetAll(w) ==
  /\ pc[w] = "body"
  /\ req[w].op = "GETALL"
  /\ seen' = [transaction |-> transaction, content |-> Page(w)]
  /\ Return(w)
  /\ UNCHANGED <<createWriters, shared>>

-----------------------------------------------------------------------------

Step(w) ==
  \/ Refuse(w) \/ RefuseElement(w) \/ AcceptElement(w) \/ Checked(w) \/ Acquire(w)
  \/ SkipUnchanged(w) \/ InsertAndWrite(w) \/ InsertAndFailToWrite(w) \/ UpsertDone(w)
  \/ DeleteMissing(w) \/ UnregisterAndErase(w) \/ EraseButFailToUnregister(w)
  \/ UnregisterNext(w) \/ ClearFails(w) \/ Clear(w)
  \/ MergeSame(w) \/ MergeWrite(w) \/ MergeUnregister(w) \/ MergeFails(w)
  \/ MergeDone(w) \/ SwapUnit(w)
  \/ Load(w) \/ Store(w)
  \/ Get(w) \/ GetAll(w)

Next == \E w \in Workers : Receive(w) \/ Step(w)

\* A handler that has begun keeps running and DDS calls return; nothing makes
\* clients send requests.
Spec == Init /\ [][Next]_vars /\ \A w \in Workers : WF_vars(Step(w))

=============================================================================
