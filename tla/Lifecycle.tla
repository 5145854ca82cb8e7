------------------------------ MODULE Lifecycle ------------------------------
(***************************************************************************)
(* One process of each program, from main to its end: Writer, Reader and     *)
(* JsonWriter of HSDS, TimeWriter and TimeReader of Time, in C++ and in Java.  *)
(* main runs a chain of stages, each of which may fail and end it, then waits   *)
(* for a signal, and takes down what it has set up.  Handlers of the webserver  *)
(* and callbacks of DDS run on threads of their own as soon as they can.       *)
(*                                                                          *)
(* The libraries are external: an HTTP call has no timeout and a peer may      *)
(* hang; stopping the webserver waits for the handler under way, deleting the   *)
(* entities of a participant for the callback under way.                     *)
(***************************************************************************)
EXTENDS Integers, Sequences

CONSTANTS Programs,    \* the programs to run
          Units,       \* the units of an Application (21)
          MaxSamples   \* bound: unread samples of a TimeReader, written ones of a TimeWriter

Hsds == {"Writer", "Reader", "JsonWriter"}
TimeWriters == {"TimeWriter", "JavaTimeWriter"}
TimeReaders == {"TimeReader", "JavaTimeReader"}
Java == {"JavaTimeWriter", "JavaTimeReader"}
ASSUME ProgramsAssumption == Programs \subseteq Hsds \cup TimeWriters \cup TimeReaders
ASSUME BoundsAssumption == Units \in Nat \ {0} /\ MaxSamples \in Nat

VARIABLES program,
          env,       \* the environment variables that decide anything
          stage,     \* the stages main has completed
          unitsDone, \* of a stage that visits every unit, the units visited
          have,      \* what exists: the names of the completed stages, less what is deleted
          pc,        \* where main is
          mutex,     \* who holds Application::mutex_
          handler,   \* the webserver's thread
          callback,  \* the thread DDS calls on_data_available on
          samples,   \* TimeReaders: samples not taken; TimeWriters: samples written
          signaled,  \* SIGTERM or SIGINT was sent
          guard,     \* the trigger value of the guard condition
          hung,      \* the peer of HTTP calls does not answer any more
          status

threads == <<mutex, handler, callback>>
vars == <<program, env, stage, unitsDone, have, pc, threads, samples, signaled, guard, hung, status>>

-----------------------------------------------------------------------------
(* The chain of stages                                                       *)

Documents == <<"login", "identity_ca", "permissions_ca", "governance", "permissions",
               "key_pair", "public_keys">>

Participant == <<"discovery", "transport", "plugin", "participant">>
ObserverAndTopics(observer) == (IF observer THEN <<"observer">> ELSE << >>) \o <<"topics">>

WriterSetup(e) ==
  IF e.createWriters
  THEN <<"DPM_GID", "relay">> \o Documents \o Participant \o ObserverAndTopics(e.observer)
       \o <<"writers">>
  ELSE << >>

\* Mutant of WriterStages: the webserver is started before the writers exist.
WriterStagesServingEarly(e) == <<"webserver">> \o WriterSetup(e) \o <<"guard">>

\* What main does, in its order, for each program.
WriterStages(e) == WriterSetup(e) \o <<"webserver", "guard">>

ReaderStages(e) ==
  Documents \o <<"relay">> \o Participant \o ObserverAndTopics(e.observer)
  \o <<"readers", "webserver", "listeners", "guard">>

JsonWriterStages ==
  <<"DATA_PATH", "DPM_GID", "relay">> \o Documents \o Participant \o ObserverAndTopics(TRUE)
  \o <<"writers", "files", "guard">>

TimeWriterStages == <<"TOPIC", "DPMGID", "plugin", "participant", "topics", "writers", "guard">>

TimeReaderStages == <<"TOPIC", "plugin", "participant", "topics", "readers", "guard">>

\* In Java neither TOPIC nor DPMGID is looked at, and no signal is handled.
TimeParticipant == <<"plugin", "participant">>
JavaTimeWriterStages == TimeParticipant \o <<"topics", "writers">>
JavaTimeReaderStages == TimeParticipant \o <<"topics", "readers">>

Stages(p, e) ==
  CASE p = "Writer"     -> WriterStages(e)
    [] p = "Reader"     -> ReaderStages(e)
    [] p = "JsonWriter" -> JsonWriterStages
    [] p = "TimeWriter" -> TimeWriterStages
    [] p = "TimeReader" -> TimeReaderStages
    [] p = "JavaTimeWriter" -> JavaTimeWriterStages
    [] p = "JavaTimeReader" -> JavaTimeReaderStages

\* The environment variables without which a stage fails.
Variables(s) ==
  CASE s = "login" -> {"DPM_URL", "DPM_APPLICATION_ID", "DPM_PASSWORD", "DPM_NONCE"}
    [] s = "relay" -> {"RELAY_CONFIG_URL"}
    [] s = "topics" /\ program \in Hsds -> {"topic names"}
    [] s \in {"DPM_GID", "DATA_PATH", "TOPIC", "DPMGID"} -> {s}
    [] OTHER -> {}

AllVariables ==
  {"DPM_URL", "DPM_APPLICATION_ID", "DPM_PASSWORD", "DPM_NONCE", "RELAY_CONFIG_URL",
   "topic names", "DPM_GID", "DATA_PATH", "TOPIC", "DPMGID"}

\* What a stage uses of the earlier ones.
Uses(s) ==
  CASE s \in {"identity_ca", "permissions_ca", "governance", "permissions", "key_pair",
              "public_keys"} -> {"login"}
    [] s \in {"discovery", "transport"} -> {"relay"}
    [] s = "participant" /\ program \in Hsds ->
         {Documents[i] : i \in DOMAIN Documents} \cup {"discovery", "transport", "plugin"}
    [] s = "participant" /\ program \notin Hsds -> {"plugin"}
    [] s \in {"observer", "topics"} -> {"participant"}
    [] s \in {"writers", "readers"} -> {"participant", "topics"}
    [] s = "listeners" -> {"readers"}
    [] s = "files" -> {"writers"}
    [] OTHER -> {}

\* Downloads, documents that may lack a member, addresses that may be empty,
\* calls of DDS that return nil or an error.
MayFail(s) == s \notin {"plugin", "observer", "webserver", "listeners", "files", "guard"}

\* rs256 throws where a public key is no text in PEM, and libhttpserver where it
\* cannot listen on the port; main catches neither.
Throws(s) == s \in {"public_keys", "webserver"}

Http(s) == s = "relay" \/ \E i \in DOMAIN Documents : s = Documents[i]

\* for_each, and the lists of main that name every unit
PerUnit(s) ==
  program \in Hsds /\ s \in {"topics", "writers", "readers", "listeners", "files"}

Init ==
  /\ program \in Programs
  /\ env \in [createWriters : BOOLEAN, observer : BOOLEAN, serverUrl : BOOLEAN,
              missing : {{}} \cup {{v} : v \in AllVariables}]
  /\ stage = 0 /\ unitsDone = 0 /\ have = {}
  /\ pc = "startup"
  /\ mutex = "free" /\ handler = "off" /\ callback = "off"
  /\ samples = 0
  /\ signaled = FALSE /\ guard = FALSE /\ hung = FALSE
  /\ status = "running"

Running == status = "running"

Current == Stages(program, env)[stage + 1]

AtStage == Running /\ pc = "startup" /\ stage < Len(Stages(program, env))

\* return EXIT_FAILURE; nothing is taken down.  In Java the participant throws, and
\* from then on main returns.
FailStage ==
  /\ AtStage
  /\ MayFail(Current) \/ Variables(Current) \cap env.missing # {}
  /\ ~(Http(Current) /\ hung)
  /\ status' = IF program \in Java /\ "participant" \in have THEN "returned" ELSE "failure"
  /\ UNCHANGED <<program, env, stage, unitsDone, have, pc, threads, samples, signaled, guard, hung>>

\* std::terminate; nothing is taken down either.
ThrowFromStage ==
  /\ AtStage
  /\ Throws(Current)
  /\ ~(Http(Current) /\ hung)
  /\ status' = "terminated"
  /\ UNCHANGED <<program, env, stage, unitsDone, have, pc, threads, samples, signaled, guard, hung>>

\* One unit of a stage that visits them all.  Setting a listener is followed by
\* a call of on_data_available from main itself.
VisitUnit ==
  /\ AtStage
  /\ PerUnit(Current) /\ unitsDone < Units
  /\ Variables(Current) \cap env.missing = {}
  /\ unitsDone' = unitsDone + 1
  /\ pc' = IF Current = "listeners" THEN "lock" ELSE pc
  /\ callback' = IF Current = "listeners" THEN (IF callback = "off" THEN "idle" ELSE callback)
                 ELSE callback
  /\ status' = IF Uses(Current) \subseteq have THEN status ELSE "crashed"
  /\ UNCHANGED <<program, env, stage, have, mutex, handler, samples, signaled, guard, hung>>

CompleteStage ==
  /\ AtStage
  /\ PerUnit(Current) => unitsDone = Units
  /\ Variables(Current) \cap env.missing = {}
  /\ ~(Http(Current) /\ hung)
  /\ have' = have \cup {Current}
  /\ stage' = stage + 1
  /\ unitsDone' = 0
  /\ pc' = IF stage + 1 = Len(Stages(program, env)) THEN "wait" ELSE pc
  /\ handler' = IF Current = "webserver" THEN "idle" ELSE handler
  /\ status' = IF Uses(Current) \subseteq have THEN status ELSE "crashed"
  /\ UNCHANGED <<program, env, mutex, callback, samples, signaled, guard, hung>>

-----------------------------------------------------------------------------
(* The threads beside main                                                   *)

\* What a request needs: the issuer's key, and the writers if there are to be any.
HandlerUses ==
  CASE program = "Writer" /\ ~env.createWriters -> {}
    [] program = "Writer" /\ env.createWriters -> {"public_keys", "writers"}
    [] OTHER -> {"public_keys"}

Serve ==
  /\ Running /\ handler = "idle" /\ pc # "stop"
  /\ handler' = "lock"
  /\ UNCHANGED <<program, env, stage, unitsDone, have, pc, mutex, callback, samples, signaled, guard,
                 hung, status>>

HandlerLock ==
  /\ Running /\ handler = "lock" /\ mutex = "free"
  /\ mutex' = "handler" /\ handler' = "busy"
  /\ UNCHANGED <<program, env, stage, unitsDone, have, pc, callback, samples, signaled, guard, hung,
                 status>>

HandlerReturn ==
  /\ Running /\ handler = "busy"
  /\ mutex' = "free" /\ handler' = "idle"
  /\ status' = IF HandlerUses \subseteq have THEN status ELSE "crashed"
  /\ UNCHANGED <<program, env, stage, unitsDone, have, pc, callback, samples, signaled, guard, hung>>

\* on_data_available on a thread of DDS: the lock, the take, and with SERVER_URL
\* an HTTP call under the lock.
CallbackLock ==
  /\ Running /\ callback = "idle" /\ mutex = "free"
  /\ mutex' = "callback" /\ callback' = "busy"
  /\ UNCHANGED <<program, env, stage, unitsDone, have, pc, handler, samples, signaled, guard, hung,
                 status>>

CallbackReturn ==
  /\ Running /\ callback = "busy"
  /\ ~(env.serverUrl /\ hung)
  /\ mutex' = "free" /\ callback' = "idle"
  /\ status' = IF "readers" \in have THEN status ELSE "crashed"
  /\ UNCHANGED <<program, env, stage, unitsDone, have, pc, handler, samples, signaled, guard, hung>>

-----------------------------------------------------------------------------
(* Signals and the peers of HTTP calls                                       *)

\* handle_signal triggers the guard; without it the signal kills the process.
Signal ==
  /\ Running /\ ~signaled
  /\ signaled' = TRUE
  /\ IF "guard" \in have
     THEN guard' = TRUE /\ UNCHANGED status
     ELSE status' = "killed" /\ UNCHANGED guard
  /\ UNCHANGED <<program, env, stage, unitsDone, have, pc, threads, samples, hung>>

Hang ==
  /\ Running /\ ~hung
  /\ hung' = TRUE
  /\ UNCHANGED <<program, env, stage, unitsDone, have, pc, threads, samples, signaled, guard, status>>

-----------------------------------------------------------------------------
(* main's wait, and its end                                                  *)

\* wait returns with the guard among the active conditions; detach_condition.
Wake ==
  /\ Running /\ pc = "wait" /\ guard
  /\ pc' = "stop"
  /\ UNCHANGED <<program, env, stage, unitsDone, have, threads, samples, signaled, guard, hung, status>>

\* The Reader's wait times out only with SERVER_URL; the poll is under the lock.
Timeout ==
  /\ Running /\ pc = "wait" /\ ~guard
  /\ program = "Reader" /\ env.serverUrl
  /\ pc' = "lock"
  /\ UNCHANGED <<program, env, stage, unitsDone, have, threads, samples, signaled, guard, hung, status>>

MainLock ==
  /\ Running /\ pc = "lock" /\ mutex = "free"
  /\ mutex' = "main" /\ pc' = "locked"
  /\ UNCHANGED <<program, env, stage, unitsDone, have, handler, callback, samples, signaled, guard,
                 hung, status>>

AfterLock == IF stage = Len(Stages(program, env)) THEN "wait" ELSE "startup"

\* Mutants of MainUnlock: the guard of the lock outlives its block, everywhere or
\* in the poll.
MainUnlockNot ==
  /\ Running /\ pc = "locked"
  /\ ~(env.serverUrl /\ hung)
  /\ pc' = AfterLock
  /\ UNCHANGED <<program, env, stage, unitsDone, have, threads, samples, signaled, guard, hung, status>>
PollUnlockNot ==
  /\ Running /\ pc = "locked"
  /\ ~(env.serverUrl /\ hung)
  /\ mutex' = IF AfterLock = "wait" THEN mutex ELSE "free"
  /\ pc' = AfterLock
  /\ UNCHANGED <<program, env, stage, unitsDone, have, handler, callback, samples, signaled, guard,
                 hung, status>>

\* The HTTP call, or main's own on_data_available, is over.
MainUnlock ==
  /\ Running /\ pc = "locked"
  /\ ~(env.serverUrl /\ hung)
  /\ mutex' = "free"
  /\ pc' = AfterLock
  /\ UNCHANGED <<program, env, stage, unitsDone, have, handler, callback, samples, signaled, guard,
                 hung, status>>

\* A TimeWriter writes once a second; an error of the C++ program is logged and the
\* next second tries again, the Java program returns.
WriteTime ==
  /\ Running /\ pc = "wait" /\ ~guard /\ program \in TimeWriters
  /\ samples < MaxSamples
  /\ samples' = samples + 1
  /\ UNCHANGED <<program, env, stage, unitsDone, have, pc, threads, signaled, guard, hung, status>>

ReturnFromWriting ==
  /\ Running /\ pc = "wait" /\ program = "JavaTimeWriter"
  /\ status' = "returned"
  /\ UNCHANGED <<program, env, stage, unitsDone, have, pc, threads, samples, signaled, guard, hung>>

\* A TimeReader: a sample arrives; the read condition wakes main, which takes one.  An
\* error is logged, or the Java program returns.
Arrive ==
  /\ Running /\ program \in TimeReaders /\ "readers" \in have
  /\ samples < MaxSamples
  /\ samples' = samples + 1
  /\ UNCHANGED <<program, env, stage, unitsDone, have, pc, threads, signaled, guard, hung, status>>

\* Mutant of TakeNextSample: it takes without having been woken by a sample.
TakeRegardless ==
  /\ Running /\ pc = "wait" /\ program \in TimeReaders
  /\ samples' = samples - 1
  /\ UNCHANGED <<program, env, stage, unitsDone, have, pc, threads, signaled, guard, hung, status>>

TakeNextSample ==
  /\ Running /\ pc = "wait" /\ program \in TimeReaders
  /\ samples > 0
  /\ samples' = samples - 1
  /\ UNCHANGED <<program, env, stage, unitsDone, have, pc, threads, signaled, guard, hung, status>>

ReturnFromReading ==
  /\ Running /\ pc = "wait" /\ program = "JavaTimeReader"
  /\ status' = "returned"
  /\ UNCHANGED <<program, env, stage, unitsDone, have, pc, threads, samples, signaled, guard, hung>>

StopWebserver ==
  /\ Running /\ pc = "stop"
  /\ handler \in {"off", "idle"}
  /\ handler' = "off"
  /\ have' = have \ {"webserver"}
  /\ pc' = "delete"
  /\ UNCHANGED <<program, env, stage, unitsDone, mutex, callback, samples, signaled, guard, hung,
                 status>>

\* Mutant of DeleteEntities: nothing waits for the threads.
DeleteAtOnce ==
  /\ Running /\ pc \in {"stop", "delete"}
  /\ have' = have \ {"participant", "topics", "writers", "readers", "listeners", "observer"}
  /\ pc' = "end"
  /\ UNCHANGED <<program, env, stage, unitsDone, threads, samples, signaled, guard, hung, status>>

\* shutdown: delete_contained_entities, delete_participant.  participant_ is nil
\* in a Writer that creates no writers.
DeleteEntities ==
  /\ Running /\ pc = "delete"
  /\ IF "participant" \in have
     THEN /\ callback \in {"off", "idle"}
          /\ callback' = "off"
          /\ have' = have \ {"participant", "topics", "writers", "readers", "listeners", "observer"}
          /\ pc' = "end"
          /\ UNCHANGED status
     ELSE status' = "crashed" /\ UNCHANGED <<callback, have, pc>>
  /\ UNCHANGED <<program, env, stage, unitsDone, mutex, handler, samples, signaled, guard, hung>>

\* TheServiceParticipant->shutdown(), return EXIT_SUCCESS
Exit ==
  /\ Running /\ pc = "end"
  /\ status' = "success"
  /\ UNCHANGED <<program, env, stage, unitsDone, have, pc, threads, samples, signaled, guard, hung>>

-----------------------------------------------------------------------------

Startup == FailStage \/ ThrowFromStage \/ VisitUnit \/ CompleteStage

Main ==
  \/ Startup
  \/ Wake \/ Timeout \/ MainLock \/ MainUnlock
  \/ WriteTime \/ ReturnFromWriting \/ TakeNextSample \/ ReturnFromReading
  \/ StopWebserver \/ DeleteEntities \/ Exit

Threads == Serve \/ HandlerLock \/ HandlerReturn \/ CallbackLock \/ CallbackReturn

Next == Main \/ Threads \/ Arrive \/ Signal \/ Hang

\* main goes on while it can, handlers and callbacks return.  The mutex is freed
\* again and again between network round trips, and whoever waits for it gets it
\* at last (SF); so does a deletion that waits for callbacks.
Spec ==
  /\ Init /\ [][Next]_vars
  /\ WF_vars(Startup) /\ WF_vars(Wake) /\ WF_vars(StopWebserver) /\ WF_vars(Exit)
  /\ WF_vars(MainUnlock) /\ WF_vars(HandlerReturn) /\ WF_vars(CallbackReturn)
  /\ SF_vars(MainLock) /\ SF_vars(HandlerLock) /\ SF_vars(DeleteEntities)

-----------------------------------------------------------------------------
(* What makes it correct                                                     *)

Entities == {"participant", "observer", "topics", "writers", "readers", "listeners"}

TypeOK ==
  /\ program \in Programs
  /\ stage \in 0..Len(Stages(program, env)) /\ unitsDone \in 0..Units
  /\ have \subseteq {Stages(program, env)[i] : i \in 1..stage}
  /\ pc \in {"startup", "lock", "locked", "wait", "stop", "delete", "end"}
  /\ mutex \in {"free", "main", "handler", "callback"}
  /\ handler \in {"off", "idle", "lock", "busy"} /\ callback \in {"off", "idle", "busy"}
  /\ samples \in 0..MaxSamples
  /\ signaled \in BOOLEAN /\ guard \in BOOLEAN /\ hung \in BOOLEAN
  /\ status \in {"running", "failure", "success", "returned", "killed", "crashed",
                "terminated"}

\* No stage, handler or callback uses what does not exist yet or no longer - with
\* one exception: the shutdown of a Writer that was to create no writers
\* (Writer.cpp:566, Application.cpp:718).
CrashOnlyWithoutWriters ==
  status = "crashed" => program = "Writer" /\ ~env.createWriters /\ pc = "delete"

\* A startup that fails (Writer.cpp:479-510, Reader.cpp:225-255, JsonWriter.cpp:361-400)
\* or ends in an exception does so before a request was served, a file read or a
\* sample taken.
FailsBeforeServing ==
  status \in {"failure", "terminated"} =>
    /\ handler = "off" /\ callback = "off" /\ mutex = "free"
    /\ have \cap {"webserver", "listeners", "files"} = {}

\* A process that ends with EXIT_SUCCESS has deleted all entities of DDS, stopped
\* its webserver and left no thread at work and no lock held.
SuccessLeavesNothing ==
  status = "success" =>
    /\ have \cap (Entities \cup {"webserver"}) = {}
    /\ mutex = "free" /\ handler = "off" /\ callback = "off"

\* A signal that arrives once it can be handled, in a poll or before the first wait
\* too, ends the process; only a web hook that hangs, in a call made under the lock,
\* can keep it (Reader.cpp:135, 314).
SignalEnds ==
  guard ~> ~Running \/ (program = "Reader" /\ env.serverUrl /\ hung)

\* main gets through its stages, or fails, unless a peer hangs.
StartupEnds == <>(stage = Len(Stages(program, env)) \/ ~Running \/ hung)

=============================================================================
