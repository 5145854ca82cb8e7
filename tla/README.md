# A TLA+ verification of CommunityUtils

CommunityUtils moves Humanitarian Services Data (HSDS) between communities
over DDS.  A **Writer** takes elements over an HTTP API and writes them to DDS
topics; a **Reader** takes samples from the topics, serves them over the same
API (GET only) and forwards each of them to a *web hook* server.  This
directory holds TLA+ modules of its core, the TLC configurations that check
them on small instances, and TLAPS proofs of what holds for every value of the
constants.  Every invariant and every action property that a passing run checks
is also a theorem; what TLC alone shows is liveness.

Paths are those of the repository; `H` below is
`HSDS/Common/HsdsResource.h`, `A` is `HSDS/Common/Application.h`, `R` is
`HSDS/Reader/Reader.cpp`, `C` is `HSDS/Common/Container.h`.

## 1. The system

| Component | State | Operations | Interacts with |
|---|---|---|---|
| Container (`C`) | `list_` (vector), `map_` (ordered map, key to position) | find, insert, erase, clear, swap, two iteration orders | owned by each Unit; a temporary one in every collection PUT |
| Application (`A`, `Application.cpp`) | 21 Units (container, DDS writer, DDS reader), `transaction_`, `mutex_`, environment | insert_and_write, unregister_and_erase, increment_transaction, DDS setup and shutdown | everything below |
| HTTP API (`H`, `ResourceBase.h`) | locals of a handler | element GET, PUT, DELETE; collection GET, PUT, POST, DELETE; checks and responses | libhttpserver's thread, Application, DDS writers |
| Authorization (`ResourceBase.h`, jwt-cpp) | the verifier with the issuer's keys | decode and verify the JWT of a request | the documents downloaded at startup |
| Writer main (`HSDS/Writer/Writer.cpp`) | - | startup, webserver, wait for a signal, shutdown | Application |
| Reader listeners (`R`) | the curl handle of a callback | on_data_available: take, update the container, call the web hook | DDS threads, Application, web hook |
| Resynchronization (`R`) | `transaction_` as the Reader's idea of the server's count | synchronize, sync, the poll of main | web hook server |
| JsonWriter, PumpCLI | - | write, or POST, the elements of files | DDS, the Writer's API |
| Community security plugin | maps of handles | access control for the demo community | DDS Security |
| Time demo, DDS security demo, build files | - | - | - |

What is hard here:

- **One lock, several kinds of thread.**  `mutex_` protects the Units and the
  counter; it is taken by HTTP handlers, by DDS callbacks and by the poll of
  the Reader's main.  It is not recursive, handlers return from many places
  under it, and a collection PUT gives it up before it is finished.
- **Two copies that must agree with no transaction around them.**  A handler
  changes the container and the topic one after the other, per element, and
  either half can fail in between.
- **A counter used as a version.**  Clients, and the Reader, compare the
  `Transaction` header to decide whether they are out of date.  It is only right
  if it moves exactly when the content does.
- **Calls over a network** that fail before or after they took effect, and a
  server that restarts at any point, in the middle of a resynchronization too.
- **Threads that main starts and outlives.**  The webserver runs before the
  listeners are set, callbacks run while main still calls their function
  itself, a signal may arrive at any stage, and HTTP calls have no timeout.
- **Several publishers of one instance**, some of which should not be, that
  crash and come back, and a Reader that does.
- **An index kept by hand.**  erase swaps with the last element and has to fix
  two entries of the map, one of which may be the one it removes.

What makes each component correct: a *container* is a partial function from
keys to elements whose positions are stable; a *request* of the API is atomic,
has the effect it was answered with, on container and topic, and is counted
once; the *mutex* is held exactly by the handler in its guarded part; the *web
hook server* ends up with the Reader's content, and equal counts mean equal
content.

The hazards of the code, each at its line and with the properties that cover
it, are in `PROJECT.json`.

## 2. The modules

| Module | What it is | Code |
|---|---|---|
| `Container` | the class as pure operators on a record of a list and a map | `C` |
| `KeyedStores` | abstract: two partial functions from keys to values | - |
| `ContainerStore` | state machine: a Unit's container and the new one of a collection PUT | `C` and its callers |
| `HsdsApi` | abstract: one endpoint as a map and a counter | - |
| `WriterService` | the Writer's seven handlers, step by step | `H`, `ResourceBase.h`, `A` |
| `WriterProperties` | what makes it correct; its refinement of `HsdsApi` | |
| `Token` | what is_authorized answers to a header: decoding, keys, claims | `ResourceBase.h`, `jwt.h`, `base.h`, `Application.cpp` |
| `ReaderService` | GETs of the Reader, page by page, against its listeners | `H`, `R`, `Token` |
| `WebHook` | Reader, DDS samples, web hook server and resynchronization | `R`, `H` for the server |
| `Schema` | which fields of each HSDS type must not be empty, for API and files | `ResourceBase.h`, `JsonWriter.cpp` |
| `AccessControl` | the checks of the Community security plugin | `CommunitySecurityPlugin/` |
| `System` | Writers, JsonWriters and a Reader on one topic, with crashes | `A`, `R`, `JsonWriter.cpp`, DDS |
| `Lifecycle` | one process of each program, from main to its end | the mains, `Application.cpp`, `SignalWrapper`, `Time/` |
| `ContainerLemmas`, `ContainerProofs`, `WriterProofs`, `WriterApiProofs`, `ReaderProofs`, `WebHookProofs`, `SystemProofs`, `LifecycleProofs` | TLAPS proofs | |
| `MCContainerStore`, `MCWriter`, `MCReaderService`, `MCWebHook`, `MCSystem`, `MCLifecycle` | constants for TLC | |

`WriterService`, `ReaderService` and `ContainerStore` build on `Container`;
`ReaderService` on `Token`; `System` composes `Schema`, `AccessControl` and
what the handlers and callbacks amount to.

**Container.**  A key is an integer, because the merge of a collection PUT
depends on the order of `std::map`.  An element is its key and a value that
stands for all other fields.  Positions count from 1.  `Insert` overwrites in
place or appends; `Erase` is the code's swap of both list entries and both map
entries followed by the removal, in that order.

**WriterService.**  One endpoint (the 21 are one template) with one Unit.
`pc[w]` is where the handler of thread `w` is:

| `pc` | the code | actions |
|---|---|---|
| `idle` | no request | `Receive` |
| `check` | authorization, parsing, `check_input` per element | `Refuse`, `RefuseElement`, `AcceptElement`, `Checked` |
| `lock` | `ACE_GUARD_RETURN` | `Acquire` |
| `body` | what the handler does under the guard, one action per element and DDS call | `InsertAndWrite` ... `MergeDone`, `Get`, `GetAll` |
| `swap` | `container.swap` of a collection PUT, after its guard has ended | `SwapUnit` |
| `load`, `store` | `++transaction_`, which is not atomic, and the answer | `Load`, `Store` |

A DDS call is part of the action that makes it, with its failure as an action
of its own, because what the code has already done to the container differs.
The merge of a collection PUT is the code's loop: `left` is what its two ordered
iterators have ahead, `AtNew` and `AtOld` say which of them the loop takes and
advances, and that every key of both containers is visited once follows, from
nothing but those comparisons.
`createWriters` is CREATE_WRITERS: without it there are no data writers, and
`Authorized` refuses every request, because the key that verifies tokens is
downloaded only when writers are created.  (So the branches of the handlers
that run without writers are modelled and not reached in the Writer.)

**Token.**  A token is its dot-separated segments; a segment is what decides
its fate: how long it is (padding is arithmetic on that), whether its
characters and its JSON are right, and what it holds.  `Authorization` is the
set of answers is_authorized may give: granted, refused, or an exception that
only libhttpserver catches.  It is a set because the verifier runs its claim
checks in the order of an `unordered_map`.  `Genuine` says, apart from the
code, what a client must hold.

**ReaderService.**  A handler is `idle`; `Refuse` or `Admit` authorize its
request, and the latter reads the arguments and, for the default of `count`,
the size, outside the lock; then it waits (`lock`), writes its page one element
at a time (`body`) and answers (`respond`).  A listener is `idle` or, with the
lock, in its `loop`.  `offset` and `count` are what `atoi` returns, taken modulo
`SizeModulus` as the assignment to `size_t` does; a size read while a listener
changes the container is any `size_t`.  Two threads run on_data_available: main,
which calls it when it sets a listener, and DDS, any number of times, whether
or not there is something to take.  The loop makes the calls of the web hook,
under the lock: `Handle` goes on to the next sample, or to `hung`, a call that does
not return.  `Early` is what the publishers have when the Reader starts.  `scan` and `calm` are history: what a client that asks for
one page after the other has got, and whether a listener was at work.

**WebHook.**  Every callback and the poll hold the lock from their first read
to their last HTTP answer, so one of them at a time is under way; `batch` is
what it has taken and not handled, `resync` the collections synchronize has
not sent yet.  The steps between two HTTP calls are one action; DDS, and the
server's process, act between them.  The server runs the handlers of `H`, each
as one step: the Writer's theorem and refinement are what justify that.
`method` is what the curl handle will send: the option CURLOPT_CUSTOMREQUEST
stays on the handle, which decides what a resynchronization after a DELETE does.
The server and the Reader both restart: each loses its count and its
content, and the Reader is told the topic's last samples again.
`TokenRequired` is a server that checks tokens as the Writer does.

**Schema.**  The two tables of mandatory fields (`check_input` of the API,
`check_element` of the JsonWriter) are transcribed separately; that they
cover every type and agree is an assumption TLC evaluates.

**System.**  Handlers and callbacks are single actions here.  A publisher has a
container (`unit`) and instances on the topic (`registered`).  Each of its calls
of DDS may return an error (`CallFails`): insert_and_write has stored the
element by then and unregister_and_erase goes on to erase it (`A:184-196`,
`A:207-215`), so container and topic are apart for that key; a collection
PUT or DELETE that fails after it has published something keeps the container
(`StopHalfWay`, one key at a time).  `missed` is history: the keys for which
that is so and no later call put right.  `sent` is what DDS has still to
deliver, in any order between instances.  At the Reader DDS
keeps the last sample of each instance and who writes it (`cache`,
`writersOf`; a process that came back is another writer than before).  The
plugin decides at both ends.  A JsonWriter writes the entries of its file one by
one, without regard to its own check, up to the first it cannot read.

**Lifecycle.**  `Stages` is the chain of calls of each main; a stage may need
environment variables, use earlier stages, visit every unit, fail, or hang with
its peer.  `have` is what exists; using what is not in it is `crashed`.
A stage may also throw what no main catches (a public key the verifier cannot
load, a port that is taken): `status` is then `terminated`.
Handlers and callbacks appear as soon as the webserver and the listeners do and
take the one mutex; `guard` is the trigger of the condition the signal
handler sets, and before it is registered a signal kills the process.

**External code**, modelled from how the sources use it: libhttpserver (any
idle thread takes a request; as built there is one; `stop` waits for the
handler under way), DDS (write and unregister_instance return or fail;
unregistering an instance that is not registered fails; samples are delivered;
the reader keeps the last one per instance; deleting entities waits for the
callback under way; the lease of a process that is gone expires), libcurl (a
perform throws, with the request lost or only its answer, or never returns),
the web hook server's process.

**Abstractions.**  `transaction_` is a natural number, the code's is
`uint64_t`; JSON, the fields of an element and the wording of answers are left
out, except which mandatory fields are empty (`Schema`).  In `WriterService`
the elements `check_input` refuses are a set of keys (`Own`) and a set of values
(`Incomplete`), and a collection GET has no arguments: its two arguments matter
where somebody else changes the container, which is `ReaderService`.

## 3. The runs

| Run | Instance | Question |
|---|---|---|
| `container` | 3 keys, 2 values | does the class behave as a partial function with stable positions? |
| `writer` | 1 thread, 3 keys of which 1 is foreign, 3 values of which 1 is refused, lists of up to 2, all requests, counter to 2, 1 failing call | does a request do what it is answered with? |
| `writer_threads` | 2 threads, 2 keys, 1 value, lists of up to 2, no failing call, all requests but collection PUT and GET | are handlers atomic, counted once each, and is the lock always given back?  (The collection PUT, which is not, is finding 3.) |
| `reader_api` | 1 handler thread, 2 listener threads, 3 keys, 1 value, arguments -1, 1 and none, `size_t` of 6 values, pages of 1, 2 instances at the start, 2 changes after it, any number of callbacks, 2 headers that are accepted and 15 that are not | what does a GET show while listeners work? |
| `web_hook` | 3 keys in 2 collections, 2 values of which 1 is refused, 4 samples, 1 lost call, 1 restart of the server or the Reader, counter to 7 | does the server end up with the Reader's content? |
| `system` | a Writer and a JsonWriter of one DPM, a process with its DPM_GID and another's certificate, with or without the plugin; 2 ids of which 1 is empty, 3 values of which 1 is incomplete, 2 files; 6 requests, starts and ends, 1 failing call, 1 restart of the Reader | who can make the Reader show what, and does it converge? |
| `lifecycle` | 7 programs, 2 units, no or any one variable missing, 2 samples | does every process start, serve, and end in order? |
| `retry_is_not_published`, `failure_is_not_counted`, `swap_without_lock`, `delete_resync_empties`, `web_hook_token` | the smallest that shows it | findings, below |

What they show:

- `container`: list and map agree (`TypeOK`), the only element whose position
  changes is the last one, when erase moves it into a hole
  (`OnlyTheLastMoves`), and the pair of containers implements `KeyedStores`.
- `writer`: while nothing has failed and no handler is at work the topic shows
  what the API shows (`PublishedMatchesContainer`) and every success was earned
  on container and topic (`SuccessMeansPublished`); two GETs with the same
  Transaction carry the same elements (`SameTransactionSameContent`); a 500 is
  caused by a call of DDS that failed then or earlier (`FailuresHaveCause`: a
  retry of a collection DELETE that failed half way fails again, without DDS
  failing).  With failures as well, the Writer implements `HsdsApi`: a success
  is one atomic step, counted once; a failed request leaves each key it names
  at its old value or one it asked for, touches nothing else and is not
  counted; nothing unchecked enters.
- `writer_threads`: the mutex excludes and is released on every path, and the
  container and the counter change only under it; handlers are atomic; if the
  mutex gets to each thread that waits for it, every request is answered
  (`EveryRequestAnswered`, which names that premise).  The collection PUT is left
  out, so that nothing here speaks of what it does after its guard.
- `reader_api`: only a genuine token passes, whatever the order of the claim
  checks (`OnlyGenuineTokens`); a page is a gapless part of the container at
  one moment, for negative arguments too (`PageIsSlice`); a GET without
  arguments answers everything if no listener worked between the size and the
  lock (`CalmDefaultIsWhole`); a client that pages to the end misses no more of
  what stayed than there were erasures (`ScanMissesOnlyMoved`); requests are
  answered (`EveryRequestAnswered`), and the container catches up with the topic
  with two threads taking batches (`EventuallyCurrent`), however many callbacks
  there are; both except where a call of the web hook does not return (`Hung`):
  it is made under the lock, and then nobody gets an answer any more.
- `web_hook`: the Reader never lags behind the server's count, so every loss
  shows (`ReaderCountsAhead`); equal counts mean equal content, and the poll
  repairs every difference (`EventuallySynced`), except where a
  resynchronization ran on a DELETE handle, the server refuses an element of the
  collection, or the counts of a restarted Reader and its server meet by
  accident; what the Reader holds follows the topic (`EventuallyCurrent`).
  Batches follow one another here by construction; that two threads do not mix
  them up is the property of the same name of `reader_api`.
- `system`: what the Reader shows under a dpmgid was published by a holder of
  its certificate, although the stranger writes and disposes the same instances
  (`OnlyCertified`); an incomplete element comes from a file
  (`IncompleteOnlyFromFiles`); a process has on the topic what
  its container has, except where its last call for a key failed
  (`TopicFollows`, in `TypeOK`); with that exception the topic has the last
  entry read of each id (`FileIsPublished`).  Once nothing changes the Reader
  shows the elements the running processes have on the topic, each with the
  value one of them has there, and none else (`Converges`).  The two exceptions
  need two processes with one element: an instance that one of them has deleted
  (`disowned`), and a value that the other wrote last before it ended
  (`Outlived`): the instance stays alive, and nothing sends the value of the
  process that is left.
- `lifecycle`: nothing is used before it exists or after it was deleted, with
  one exception, below (`CrashOnlyWithoutWriters`); a failing startup has not
  served anything (`FailsBeforeServing`; it does leave its entities of DDS to
  the end of the process); a successful end leaves nothing
  (`SuccessLeavesNothing`); a signal ends the process unless a web hook hangs
  under the lock (`SignalEnds`); startup ends (`StartupEnds`).

**Why the bounds are enough.**  Three keys make erase meet the first, a middle
and the last element, and let a merge meet a key in either or both containers
before and after another.  Two elements in a list make it fail after the first,
name one key twice, or hold one refused element.  A counter to 2 lets a
request follow another one and be followed by a GET; with one failure, every
place of every handler fails in some execution, as each call of `System` does.  The second thread adds every
interleaving with the first; a third would only wait for the same lock.  Four samples
of `WebHook` cover register, change, unregister and another instance; one lost
call and one restart can fall between any two calls.  `ReaderService` starts
with two instances on the topic, so that two changes register, change or
unregister with others around; callbacks have no bound.  `MaxTransaction` of `WebHook`
bounds how often the poll finds a difference, and `EventuallySynced` exempts
states beyond it.  `Capped` is not a step of the program: it keeps states beyond
the bound from counting as deadlocks.  A `size_t` of six values
holds every size of a container with three elements and makes -1 larger than
any of them.  Each wrong header is wrong in one way, or in two that compete for
the answer.  Six changes of `System` start both publishers of a key, let one
publish and end and the other go on; one restart of the Reader can fall
anywhere.  Two units let a stage fail between units; the 21 are alike.

`system`, `lifecycle` and `reader_api` do not check for deadlock: publishers may
stop changing, a process ends, and a call of the web hook that hangs under the
lock does stop the Reader, once its one handler waits for the lock.

**Fairness.**  `WriterService`: weak fairness of each thread's steps: a handler
that has begun runs on and its DDS calls return.  Nothing makes clients send
requests.  No strong fairness of the lock is needed for `MutexReleased`.  That
requests are answered does need it, since the other thread may take the lock
again and again: it is the premise of `EveryRequestAnswered`, and TLC finds the
property violated without it.
`ReaderService`: strong fairness of the handlers and of the listeners, since
callbacks may come, and clients may ask, without end, so that a thread that
waits finds the lock free only now and then.  This is an assumption about the
operating system's mutex, which has to get to each thread that waits: with
weak fairness of the handlers TLC finds a GET that listeners keep from the
lock for ever.  It says nothing of a call of the web hook: a listener may hang in
any of them.
`WebHook`: weak fairness of the steps under the lock and of the poll, since the
timer of main fires again and again; strong fairness of `Take`, because main
waits for its poll period without the lock, so a callback that waits for it
gets it.  Calls fail finitely often: that is the bound `MaxLost`.
`System`: RELIABLE DDS delivers what is sent, leases expire, the Reader takes
what has arrived and a JsonWriter reads on; nobody has to publish or restart.
`Lifecycle`: main and the threads go on while they can, strong fairness for
whoever waits for the mutex and for the deletion that waits for callbacks;
none for a peer's answer, once it hangs, nor for signals.

Every property of a passing run has a *mutant* next to the definition it
changes (`EraseShifting`, `ReturnHolding`, `SynchronizeEarly`, ...): a plausible
bug under which TLC finds the property violated in the same instance.

## 4. Findings

Each is the violation of one property by what the code does.

1. `retry_is_not_published`: insert_and_write (`A:179`) stores the element before
   it writes it and leaves it there when the write fails.  The client is told
   500; when it sends the same PUT again the element is "unchanged", nothing is
   written and the answer is 200.
2. `failure_is_not_counted`: a POST that ends in 500 (`H:337`) has changed the
   collection and has not moved the counter, so the Transaction header does not
   let a client see it (`HSDS/Writer/README.md:106`).
3. `swap_without_lock`: the guard of a collection PUT is in a block that ends
   before `container.swap` and the increment (`H:285`), against the comment on
   `mutex_` (`A:485`).  As built the Writer has one HTTP thread and no
   listeners, so nothing races with it today.
4. `delete_resync_empties`: a resynchronization started by the DELETE of a
   sample uses the handle that still sends DELETE (`R:169`): it deletes every
   collection of the server, both sides count those requests, the counts agree
   and no poll repairs it.  An instance that is registered and unregistered
   before the Reader takes it is enough.
5. `web_hook_token`: the Reader sends no Authorization header (`R:163`), and
   is_authorized (`ResourceBase.h:69`) answers each of its requests 401.  A Writer
   with CREATE_WRITERS=0, which `HSDS/Writer/README.md:18` offers for testing the
   web hook, therefore never receives anything; its answers carry Transaction
   0, and the Reader resynchronizes at every poll for ever.

The passing runs state the corresponding properties with the failing case
exempted (`faults = 0`, `lastSync # "DELETE"`, no `PUTALL`, `adopted`,
`disowned`), so that everything around it is still checked.

Met while modelling, and visible in the models, but not stated as runs of
their own.  Documents speak of two of them, the others are against none:

- The Reader's GET without arguments can be shorter than the collection was at
  any moment of the request, if a listener inserts between `H:353` and the lock;
  `CalmDefaultIsWhole` needs its premise.  `HSDS/Writer/README.md:34` and `:38`,
  to which the Reader's README refers, describe such a GET as one of all
  elements.
- Without SERVER_URL the Reader's Transaction header stays 0, so that its
  clients cannot tell whether its collections have changed, for which
  `HSDS/Writer/README.md:40` (through `HSDS/Reader/README.md:13`) has the header.
- A Writer with CREATE_WRITERS=0 dereferences a nil participant when it shuts
  down (`Writer.cpp:566`, `Application.cpp:718`): the one exception of
  `CrashOnlyWithoutWriters`.
- Of the issuer's public keys only the last is kept, since the verifier stores
  them by algorithm name (`jwt.h:3256`, `Application.cpp:374`).
- An element published by two processes disappears at the Reader when one of
  them deletes it, although the other still has it (`disowned`); and when the
  one that wrote it last ends, the Reader keeps that value, although the other
  has a different one (`Outlived`).
- An entry of a JsonWriter's file whose write fails is logged and stays in the
  container (`JsonWriter.cpp:331`), so that an equal entry later on is taken for
  no change; it is finding 1 without a client.
- A web hook server that does not answer stops the Reader: its calls have no
  timeout and are made under the lock (`R:135`).
- After a restart the Reader's count can meet its server's by accident, and the
  difference then stays (`adopted`).
- A public key that the verifier cannot load, or a port that is taken, ends the
  Writer by an exception that main does not catch (`terminated`), after a
  participant may have been created; nobody has been served by then
  (`FailsBeforeServing`).
- The result of the JsonWriter's check is not used (`JsonWriter.cpp:329`).

## 5. The proofs

All are checked by TLAPS; the assumptions are the named ASSUMEs of the
modules: keys are integers (in `ReaderService` finitely many, fewer than
`size_t` has values), `None` is not a value, `Free` is not a thread,
`Own` and `Incomplete` are subsets of keys and values, the bounds are naturals,
a page of the paging client is at least 1 element, the arguments of a GET are
integers or the missing one, the issuer's keys are a sequence and a token's
dates numbers, each publisher is a Writer or a JsonWriter with a DPM_GID.
No theorem depends on the size of a set or on a bound.  Six theorems about the
Writer and one about the JsonWriter have a hypothesis of their own, below.

**Container.**

- `ContainersConsistent`, `Spec => []TypeOK` of `ContainerStore`.  The invariant
  is `Consistent`: the map sends each stored key to the position of its
  element **and** each position belongs to the key of its element.  The first
  half alone is not inductive: were the last element not the one its key is
  indexed at, erase would swap with one position and drop another.
  `InsertConsistent` and `EraseConsistent` are the two cases with content; the
  latter rests on `EraseShape`, which says in one formula (`ErasedTo`) what the
  code's two swaps and two removals amount to.
- `ContainersAreFunctions`, `Spec => ImplementsKeyedStores`: from
  `InsertContent` and `EraseContent` (a mutator changes the content of its own
  key alone), each step maps to one of the abstract module.
- `PositionsAreStable`, `Spec => OnlyTheLastMoves`, from `EraseMoves`.

**Writer.**

- `WriterTypes`, `Spec => []TypeOK` of `WriterService`, by one step per action;
  the containers' half is the lemmas above.  That what a merge writes is an
  element needs `Iterators` (`pos_new` stays in the new container) and that
  the items of a container have a first one (`FirstIsLeast`, from
  `LeastExists`).
- `WriterExcludes`, `Spec => []MutualExclusion`.  `Guarded(w) <=> mutex = w` is
  not inductive: a handler that has released the mutex before it counts (a
  collection PUT) is told from the others by its request, so one must also know
  that only such a handler comes to the swap (`OnlyPutSwaps`).
- `MutexProtects`: if clients send no collection PUT, `Spec =>
  MutexProtectsUnit`.  Its hypothesis is needed: see finding 3.
- `TopicShowsContainer`, `SuccessIsEarned`, `FailuresAreCaused` and
  `WriterImplementsApi`: `[]PublishedMatchesContainer`, `SuccessMeansPublished`,
  `FailuresHaveCause` and the refinement `ImplementsApi`.  Their hypothesis
  `NoRace` is that the Writer has one handler thread, as built, or that no
  client sends a collection PUT, which finishes without the lock (finding 3);
  with two threads and such a PUT TLC finds each of the four violated.
  None of the properties is inductive, because in the middle of a
  handler container and topic differ.  The invariant `InStep` says by how much:
  for each request and each point of its loop, what container
  (`ContainerSoFar`) and topic (`TopicSoFar`) have of the list's first
  elements and what they keep of `before`, the content at the time of the lock;
  what is left to visit (`VisitsRest`: nothing twice, for erase reorders what
  a DELETE goes through, and a key of both containers is ahead of both
  iterators of a merge or of neither, whence `NextItem`: a key that only one of
  them has reached is in only one container); and, between two handlers, that the
  topic is `Published`.  It is carried from one handler to the next by
  `OneBusy`, which is where `NoRace` enters.  `TopicSoFar` is claimed while no
  call of DDS has failed, `ContainerSoFar` always: the refinement holds with
  failures too.  For it one also needs that the API's store only ever holds
  what passed the checks (`Admitted`).
- `TransactionTellsContent`, `SameTransactionSameContent` for one thread
  (`Alone`): a GET reads the size before it has the lock, so with two threads
  its page can be shorter than the collection whose Transaction it carries.
  `SeenInStep` relates the last answer to the store: no later Transaction than
  the counter's, and if it is the counter's, the content is the store's.

**Reader.**

- `ReaderTypes`, `OnlyTheGenuineEnter`, `PagesAreSlices` and
  `CalmDefaultsAreWhole`.  That a granted token is genuine is a lemma about
  `Token` alone (`GrantedIsGenuine`).  A page is a slice only because nobody
  changes the container inside the loop: `Locking` (the holder of the mutex is
  the thread in its loop) carries `Slicing` over the listeners' steps.
  `CalmSize`: while no listener has worked, the count read before the lock is
  still the size.
- `ScansMissOnlyTheMoved`, `[]ScanMissesOnlyMoved`.  The invariant `Scanning`
  counts the elements that the client has not been sent although it is past
  their position (`Behind`): no more than the erasures.  An insertion moves
  nothing and an erasure at most one element (`PositionsStay`), and a page
  that is a slice from the client's offset (`Paging`, `Slicing`) passes only
  what it contains.

**Web hook.**

- `WebHookTypes`, `ReaderNeverLags` and `EqualCountsMeanSynced`: `[]TypeOK`,
  `[]ReaderCountsAhead` and `[]AgreeMeansSyncedUnlessDeleted` of `WebHook`.  The
  inductive invariant `CountsTell` adds to the two properties what holds in the
  middle of a resynchronization (while the counts are equal, an element is on
  the server or in a collection still to be sent: `SyncedSoFar`), that a Reader
  whose count is 0 has nothing to send or is about to send everything
  (`ZeroMeansNothing`; so that a server that restarts with an empty collection
  and count 0 never agrees wrongly), and that `method` during a
  resynchronization is what `lastSync` says (`MethodKept`).

**System.**

- `SystemTypes`, `ReaderShowsCertified` and `IncompleteComesFromFiles`.  What
  the Reader shows depends on what DDS has cached, and that on
  what a process had on the topic at some time, so the invariant vouches for
  each of the three in turn: `PublishedChecked`, `CacheVouched`,
  `ContainerVouched`.  `SystemTypes` contains `TopicFollows`: for any number
  of failing calls, topic and container of a process differ only at a key
  whose last call failed.
- `FilesArePublished`, `[]FileIsPublished`, for a topic whose type has a
  `dpmgid` that is a key and text, as the IDL types have, and DPM_GIDs that are
  not the missing serial number (the plugin refuses a certificate without one
  whatever the DPM_GID).  The property speaks of processes whose
  certificate is their own; `Loaded` adds that what a JsonWriter has stored is
  what it has read whether or not it may publish it, and that the entries below
  `next` are readable unless it has stopped reading.  What a failed write leaves
  out is the exception `missed` of the property, and the theorem has no bound on
  such failures.

**Lifecycle.**

- `LifecycleTypes`, `OnlyWithoutWriters`, `FailuresComeFirst` and
  `SuccessIsClean`.  Two facts carry them.  The chain of every program is in
  order (`InOrder`: each stage's uses come before it, none that can fail or
  throw comes after something that serves); chains are concatenations, and
  `ChainsFollow` says when the order survives that.  And `InPlace`: `have` is
  the completed stages less what shutdown has deleted, a thread exists only
  between the stage that starts it and its end, and the mutex is with the thread
  that is at work under it.

Only model-checked: the liveness properties `EveryRequestAnswered`,
`MutexReleased`, `EventuallySynced`, `EventuallyCurrent`, `Converges`,
`SignalEnds` and `StartupEnds` (liveness under fairness and ENABLED are beyond the
installed provers), the five findings, and the refinement and the
exclusion of `writer_threads` where they are instances of the theorems above.

## 6. Not modelled, and the plan

Not modelled, and staying so:

- the Observer, which only writes to the log;
- PumpCLI, a sequential client that posts files: it sends no Authorization
  header, so that the Writer answers each of its requests 401 and it changes
  nothing;
- the DDS security demo (scripts), the build files, and the IDL types beyond
  their names, keys and mandatory fields;
- of the vendored libraries, picojson, and of jwt-cpp what the Application
  does not call: creating tokens, other algorithms, key sets.  Decoding and
  verification are `Token`;
- of responses, JSON text, CORS headers and the access log; of the DDS setup,
  the values of the settings beyond what DDS does with them in `System`.

What is left to prove are the liveness properties, should the provers come to
reach them.  For `EveryRequestAnswered` of `WriterService` the measure would be
the length of `todo`, for `EventuallySynced` of `WebHook` the collections still to be
sent, for `StartupEnds` of `Lifecycle` the stages still to come.
