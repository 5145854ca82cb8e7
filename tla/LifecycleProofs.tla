--------------------------- MODULE LifecycleProofs ---------------------------
(***************************************************************************)
(* One process, for any of the programs, any number of units and samples: its  *)
(* stages come in an order in which each finds what it uses and none fails    *)
(* after something is served; its threads exist only with the stage that       *)
(* starts them; the mutex has the holder it says.  From these: nothing is used   *)
(* that is not there, a startup that fails has served nothing, and a successful  *)
(* end leaves nothing.                                                       *)
(***************************************************************************)
EXTENDS Lifecycle, SequenceTheorems, TLAPS

Names ==
  {"DPM_GID", "relay", "login", "identity_ca", "permissions_ca", "governance", "permissions",
   "key_pair", "public_keys", "discovery", "transport", "plugin", "participant", "observer",
   "topics", "writers", "readers", "webserver", "listeners", "files", "guard", "DATA_PATH",
   "TOPIC", "DPMGID"}

\* The stages after which somebody may be served, and what can keep a stage from
\* completing.
Serving == {"webserver", "listeners", "files"}
Endangered(s) == MayFail(s) \/ Throws(s) \/ Variables(s) # {}

\* Stage s is in its place after the stages prior.
Fits(s, prior) ==
  /\ Uses(s) \subseteq prior
  /\ Endangered(s) => prior \cap Serving = {}
  /\ s = "webserver" => HandlerUses \subseteq prior

Members(s) == {s[i] : i \in 1..Len(s)}
Before(s, i) == {s[j] : j \in 1..(i - 1)}

\* So is each stage of the chain s.
InOrder(s, prior) == \A i \in 1..Len(s) : Fits(s[i], prior \cup Before(s, i))

Environments == [createWriters : BOOLEAN, observer : BOOLEAN, serverUrl : BOOLEAN,
                 missing : {{}} \cup {{v} : v \in AllVariables}]

-----------------------------------------------------------------------------
(* The chain of stages                                                       *)

\* Two chains, one after the other.
LEMMA ChainsFollow ==
  ASSUME NEW s \in Seq(Names), NEW t \in Seq(Names), NEW prior,
         InOrder(s, prior), InOrder(t, prior \cup Members(s))
  PROVE  /\ s \o t \in Seq(Names)
         /\ Len(s \o t) = Len(s) + Len(t)
         /\ Members(s \o t) = Members(s) \cup Members(t)
         /\ InOrder(s \o t, prior)
<1> DEFINE u == s \o t
<1>1. /\ u \in Seq(Names) /\ Len(u) = Len(s) + Len(t)
      /\ Len(s) \in Nat /\ Len(t) \in Nat
      /\ \A i \in 1..(Len(s) + Len(t)) : u[i] = IF i <= Len(s) THEN s[i] ELSE t[i - Len(s)]
  BY ConcatProperties
<1> HIDE DEF u
<1>2. \A i \in 1..Len(s) : u[i] = s[i]
  BY <1>1
<1>3. \A i \in 1..Len(t) : Len(s) + i \in 1..Len(u) /\ u[Len(s) + i] = t[i]
  <2> SUFFICES ASSUME NEW i \in 1..Len(t)
               PROVE  Len(s) + i \in 1..Len(u) /\ u[Len(s) + i] = t[i]
    OBVIOUS
  <2>1. /\ Len(s) + i \in 1..(Len(s) + Len(t))
        /\ ~(Len(s) + i <= Len(s)) /\ (Len(s) + i) - Len(s) = i
    BY <1>1
  <2> QED
    BY <1>1, <2>1
<1>4. \A i \in (Len(s) + 1)..Len(u) : i - Len(s) \in 1..Len(t) /\ u[i] = t[i - Len(s)]
  BY <1>1
<1>5. Members(u) = Members(s) \cup Members(t)
  <2>1. Members(u) \subseteq Members(s) \cup Members(t)
    BY <1>1 DEF Members
  <2>2. Members(s) \subseteq Members(u) /\ Members(t) \subseteq Members(u)
    <3>1. \A i \in 1..Len(s) : i \in 1..Len(u)
      BY <1>1
    <3> QED
      BY <3>1, <1>2, <1>3 DEF Members
  <2> QED
    BY <2>1, <2>2
<1>6. InOrder(u, prior)
  <2> SUFFICES ASSUME NEW i \in 1..Len(u)
               PROVE  Fits(u[i], prior \cup Before(u, i))
    BY DEF InOrder
  <2>1. CASE i <= Len(s)
    <3>1. i \in 1..Len(s) /\ u[i] = s[i]
      BY <1>1, <2>1
    <3>2. Before(u, i) = Before(s, i)
      <4>1. \A k \in 1..(i - 1) : k \in 1..Len(s)
        BY <1>1, <2>1
      <4> QED
        BY <4>1, <1>2 DEF Before
    <3> QED
      BY <3>1, <3>2 DEF InOrder
  <2>2. CASE i > Len(s)
    <3> DEFINE j == i - Len(s)
    <3>1. j \in 1..Len(t) /\ u[i] = t[j]
      BY <1>1, <2>2
    <3>2. Before(u, i) \subseteq Members(s) \cup Before(t, j)
      <4> SUFFICES ASSUME NEW k \in 1..(i - 1) PROVE u[k] \in Members(s) \cup Before(t, j)
        BY DEF Before
      <4>1. CASE k <= Len(s)
        BY <1>1, <4>1 DEF Members
      <4>2. CASE k > Len(s)
        <5>1. k - Len(s) \in 1..(j - 1) /\ u[k] = t[k - Len(s)]
          BY <1>1, <4>2, <2>2
        <5> QED
          BY <5>1 DEF Before
      <4> QED
        BY <4>1, <4>2, <1>1
    <3>3. Members(s) \subseteq Before(u, i)
      <4> SUFFICES ASSUME NEW k \in 1..Len(s) PROVE s[k] \in Before(u, i)
        BY DEF Members
      <4>1. k \in 1..(i - 1) /\ u[k] = s[k]
        BY <1>1, <2>2
      <4> QED
        BY <4>1 DEF Before
    <3>4. Before(t, j) \subseteq Before(u, i)
      <4> SUFFICES ASSUME NEW k \in 1..(j - 1) PROVE t[k] \in Before(u, i)
        BY DEF Before
      <4>1. Len(s) + k \in 1..(i - 1) /\ u[Len(s) + k] = t[k]
        BY <1>1, <2>2, <3>1, <1>3
      <4> QED
        BY <4>1 DEF Before
    <3>5. prior \cup Before(u, i) = (prior \cup Members(s)) \cup Before(t, j)
      BY <3>2, <3>3, <3>4
    <3> QED
      BY <3>1, <3>5 DEF InOrder
  <2> QED
    BY <2>1, <2>2, <1>1
<1> QED
  BY <1>1, <1>5, <1>6 DEF u

\* What the documents come to, wherever they are downloaded, and the pieces that
\* several programs share.
DocumentNames == {"login", "identity_ca", "permissions_ca", "governance", "permissions",
                  "key_pair", "public_keys"}

LEMMA DocumentsFollow ==
  ASSUME NEW prior, prior \cap Serving = {}
  PROVE  Documents \in Seq(Names) /\ Members(Documents) = DocumentNames /\ InOrder(Documents, prior)
<1>1. Documents \in Seq(Names) /\ Len(Documents) = 7
  BY DEF Documents, Names
<1>2. Members(Documents) = DocumentNames
  BY <1>1 DEF Members, Documents, DocumentNames
<1>3. \A i \in 1..7 : Before(Documents, i) \subseteq DocumentNames
  BY <1>1, <1>2 DEF Members, Before
<1>4. \A i \in 1..7 : Uses(Documents[i]) \subseteq Before(Documents, i)
  <2> SUFFICES ASSUME NEW i \in 1..7 PROVE Uses(Documents[i]) \subseteq Before(Documents, i)
    OBVIOUS
  <2>1. Uses(Documents[1]) = {} /\ \A j \in 2..7 : Uses(Documents[j]) = {"login"}
    BY DEF Uses, Documents
  <2>2. i # 1 => "login" \in Before(Documents, i)
    BY DEF Before, Documents
  <2> QED
    BY <2>1, <2>2
<1>5. \A i \in 1..7 : Documents[i] # "webserver"
  BY DEF Documents
<1> QED
  BY <1>1, <1>2, <1>3, <1>4, <1>5 DEF InOrder, Fits, Serving, DocumentNames

ParticipantNames == {"discovery", "transport", "plugin", "participant"}

LEMMA ParticipantFollows ==
  ASSUME NEW prior, prior \cap Serving = {}, DocumentNames \cup {"relay"} \subseteq prior
  PROVE  /\ Participant \in Seq(Names) /\ Members(Participant) = ParticipantNames
         /\ InOrder(Participant, prior)
<1>1. Participant \in Seq(Names) /\ Len(Participant) = 4
  BY DEF Participant, Names
<1>2. Members(Participant) = ParticipantNames
  BY <1>1 DEF Members, Participant, ParticipantNames
<1>3. \A i \in 1..4 : Before(Participant, i) \subseteq ParticipantNames
  BY <1>1, <1>2 DEF Members, Before
<1>4. \A i \in 1..4 : Uses(Participant[i]) \subseteq prior \cup Before(Participant, i)
  <2>1. Uses("discovery") \subseteq prior /\ Uses("transport") \subseteq prior /\ Uses("plugin") = {}
    BY DEF Uses
  <2>2. Uses("participant") \subseteq DocumentNames \cup {"discovery", "transport", "plugin"}
    <3>1. {Documents[i] : i \in DOMAIN Documents} = DocumentNames
      BY DEF Documents, DocumentNames
    <3> QED
      BY <3>1 DEF Uses
  <2>3. {"discovery", "transport", "plugin"} \subseteq Before(Participant, 4)
    BY DEF Before, Participant
  <2> QED
    BY <2>1, <2>2, <2>3 DEF Participant
<1>5. \A i \in 1..4 : Participant[i] # "webserver"
  BY DEF Participant
<1> QED
  BY <1>1, <1>2, <1>3, <1>4, <1>5 DEF InOrder, Fits, Serving, ParticipantNames

LEMMA TopicsFollow ==
  ASSUME NEW prior, prior \cap Serving = {}, "participant" \in prior, NEW observer
  PROVE  LET s == ObserverAndTopics(observer)
         IN  /\ s \in Seq(Names) /\ "topics" \in Members(s) /\ Members(s) \subseteq {"observer", "topics"}
             /\ InOrder(s, prior)
<1>1. CASE observer
  <2>1. ObserverAndTopics(observer) = <<"observer", "topics">>
    <3> DEFINE s == <<"observer">> \o <<"topics">>
    <3>1. <<"observer">> \in Seq(Names) /\ <<"topics">> \in Seq(Names)
      BY DEF Names
    <3>2. s \in Seq(Names) /\ Len(s) = 2 /\ s[1] = "observer" /\ s[2] = "topics"
      BY <3>1, ConcatProperties
    <3>3. ObserverAndTopics(observer) = s
      BY <1>1 DEF ObserverAndTopics
    <3> HIDE DEF s
    <3> QED
      BY <3>2, <3>3
  <2> QED
    BY <2>1 DEF Names, Members, InOrder, Fits, Before, Serving, Uses
<1>2. CASE ~observer
  <2>1. ObserverAndTopics(observer) = <<"topics">>
    BY <1>2 DEF ObserverAndTopics
  <2> QED
    BY <2>1 DEF Names, Members, InOrder, Fits, Before, Serving, Uses
<1> QED
  BY <1>1, <1>2

\* A chain of one stage.
LEMMA StageFollows ==
  ASSUME NEW s \in Names, NEW prior, Fits(s, prior)
  PROVE  <<s>> \in Seq(Names) /\ Members(<<s>>) = {s} /\ InOrder(<<s>>, prior)
  BY DEF Members, InOrder, Before

\* The stages of each program, in the order of its main, fit: a stage finds what it
\* uses, the webserver what its handlers use, and after the first stage that lets
\* anybody be served none can fail.
LEMMA StagesFit ==
  ASSUME program \in Programs
  PROVE  /\ Stages(program, env) \in Seq(Names)
         /\ InOrder(Stages(program, env), {})
         /\ "participant" \in Members(Stages(program, env)) \/ (program = "Writer" /\ ~env.createWriters)
<1> DEFINE Right(s) == s \in Seq(Names) /\ InOrder(s, {}) /\ "participant" \in Members(s)
           T == ObserverAndTopics(env.observer)
<1> USE DEF Serving
<1>1. CASE program = "Writer" /\ env.createWriters
  <2> DEFINE s1 == <<"DPM_GID", "relay">>
             s2 == s1 \o Documents
             s3 == s2 \o Participant
             s4 == s3 \o T
             s5 == s4 \o <<"writers">>
             s6 == s5 \o <<"webserver", "guard">>
             m3 == {"DPM_GID", "relay"} \cup DocumentNames \cup ParticipantNames
  <2>1. Stages(program, env) = s6
    BY <1>1 DEF Stages, WriterStages, WriterSetup
  <2>2. s1 \in Seq(Names) /\ Members(s1) = {"DPM_GID", "relay"} /\ InOrder(s1, {})
    BY DEF Names, Members, InOrder, Fits, Before, Uses
  <2> HIDE DEF s1
  <2>3. s2 \in Seq(Names) /\ Members(s2) = Members(s1) \cup DocumentNames /\ InOrder(s2, {})
    BY <2>2, DocumentsFollow, ChainsFollow
  <2> HIDE DEF s2
  <2>4. s3 \in Seq(Names) /\ Members(s3) = m3 /\ InOrder(s3, {})
    <3>1. Members(s2) \cap Serving = {} /\ DocumentNames \cup {"relay"} \subseteq Members(s2)
      BY <2>2, <2>3 DEF DocumentNames
    <3> QED
      BY <2>2, <2>3, <3>1, ParticipantFollows, ChainsFollow
  <2> HIDE DEF s3
  <2>5. s4 \in Seq(Names) /\ Members(s4) = m3 \cup Members(T) /\ InOrder(s4, {})
    <3>1. m3 \cap Serving = {} /\ "participant" \in m3
      BY DEF DocumentNames, ParticipantNames
    <3> QED
      BY <2>4, <3>1, TopicsFollow, ChainsFollow
  <2>6. "topics" \in Members(T) /\ Members(T) \subseteq {"observer", "topics"}
    BY TopicsFollow
  <2> HIDE DEF s4, T
  <2>7. s5 \in Seq(Names) /\ Members(s5) = m3 \cup Members(T) \cup {"writers"} /\ InOrder(s5, {})
    <3>1. Fits("writers", {} \cup Members(s4))
      BY <2>5, <2>6 DEF Fits, Uses, DocumentNames, ParticipantNames
    <3>2. "writers" \in Names
      BY DEF Names
    <3> QED
      BY <2>5, <3>1, <3>2, StageFollows, ChainsFollow
  <2> HIDE DEF s5
  <2>8. /\ <<"webserver", "guard">> \in Seq(Names)
        /\ InOrder(<<"webserver", "guard">>, {} \cup Members(s5))
    <3>1. Fits("webserver", Members(s5))
      BY <1>1, <2>6, <2>7 DEF Fits, Uses, HandlerUses, DocumentNames, ParticipantNames
    <3>2. Fits("guard", Members(s5) \cup {"webserver"})
      BY DEF Fits, Uses, Endangered, MayFail, Throws, Variables
    <3> QED
      BY <3>1, <3>2 DEF InOrder, Before, Names
  <2>9. Right(s6)
    BY <2>7, <2>8, ChainsFollow DEF ParticipantNames
  <2> HIDE DEF s6
  <2> QED
    BY <2>1, <2>9
<1>2. CASE program = "Writer" /\ ~env.createWriters
  <2>1. Stages(program, env) = <<"webserver", "guard">>
    BY <1>2 DEF Stages, WriterStages, WriterSetup
  <2>2. Fits("webserver", {})
    BY <1>2 DEF Fits, Uses, HandlerUses
  <2>3. Fits("guard", {"webserver"})
    BY DEF Fits, Uses, Endangered, MayFail, Throws, Variables
  <2> DEFINE s == <<"webserver", "guard">>
  <2>4. s \in Seq(Names) /\ Len(s) = 2 /\ s[1] = "webserver" /\ s[2] = "guard"
    BY DEF Names
  <2>5. Before(s, 1) = {} /\ Before(s, 2) = {"webserver"}
    BY DEF Before
  <2>6. InOrder(s, {})
    <3>1. \A i \in 1..2 : Fits(s[i], {} \cup Before(s, i))
      BY <2>2, <2>3, <2>4, <2>5
    <3> QED
      BY <2>4, <3>1 DEF InOrder
  <2> QED
    BY <1>2, <2>1, <2>4, <2>6
<1>3. CASE program = "Reader"
  <2> DEFINE s2 == Documents \o <<"relay">>
             s3 == s2 \o Participant
             s4 == s3 \o T
             end == <<"readers", "webserver", "listeners", "guard">>
             s5 == s4 \o end
             m3 == DocumentNames \cup {"relay"} \cup ParticipantNames
  <2>1. Stages(program, env) = s5
    BY <1>3 DEF Stages, ReaderStages
  <2>2. Documents \in Seq(Names) /\ Members(Documents) = DocumentNames /\ InOrder(Documents, {})
    BY DocumentsFollow
  <2>3. s2 \in Seq(Names) /\ Members(s2) = DocumentNames \cup {"relay"} /\ InOrder(s2, {})
    <3>1. Fits("relay", {} \cup DocumentNames) /\ "relay" \in Names
      BY DEF Fits, Uses, Names, DocumentNames
    <3> QED
      BY <2>2, <3>1, StageFollows, ChainsFollow
  <2> HIDE DEF s2
  <2>4. s3 \in Seq(Names) /\ Members(s3) = m3 /\ InOrder(s3, {})
    <3>1. Members(s2) \cap Serving = {} /\ DocumentNames \cup {"relay"} \subseteq Members(s2)
      BY <2>3 DEF DocumentNames
    <3> QED
      BY <2>3, <3>1, ParticipantFollows, ChainsFollow
  <2> HIDE DEF s3
  <2>5. s4 \in Seq(Names) /\ Members(s4) = m3 \cup Members(T) /\ InOrder(s4, {})
    <3>1. m3 \cap Serving = {} /\ "participant" \in m3
      BY DEF DocumentNames, ParticipantNames
    <3> QED
      BY <2>4, <3>1, TopicsFollow, ChainsFollow
  <2>6. "topics" \in Members(T) /\ Members(T) \subseteq {"observer", "topics"}
    BY TopicsFollow
  <2> HIDE DEF s4, T
  <2>7. end \in Seq(Names) /\ InOrder(end, {} \cup Members(s4))
    <3>1. Fits("readers", Members(s4))
      BY <2>5, <2>6 DEF Fits, Uses, DocumentNames, ParticipantNames
    <3>2. Fits("webserver", Members(s4) \cup {"readers"})
      BY <1>3, <2>5, <2>6 DEF Fits, Uses, HandlerUses, DocumentNames, ParticipantNames
    <3>3. /\ Fits("listeners", Members(s4) \cup {"readers", "webserver"})
          /\ Fits("guard", Members(s4) \cup {"readers", "webserver", "listeners"})
      BY DEF Fits, Uses, Endangered, MayFail, Throws, Variables
    <3>4. end \in Seq(Names) /\ Len(end) = 4
      BY DEF Names
    <3>5. /\ Before(end, 1) = {} /\ Before(end, 2) = {"readers"}
          /\ Before(end, 3) = {"readers", "webserver"}
          /\ Before(end, 4) = {"readers", "webserver", "listeners"}
      BY DEF Before
    <3> QED
      BY <3>1, <3>2, <3>3, <3>4, <3>5 DEF InOrder
  <2> HIDE DEF end
  <2>8. Right(s5)
    BY <2>5, <2>7, ChainsFollow DEF ParticipantNames
  <2> HIDE DEF s5
  <2> QED
    BY <2>1, <2>8
<1>4. CASE program = "JsonWriter"
  <2> DEFINE s1 == <<"DATA_PATH", "DPM_GID", "relay">>
             s2 == s1 \o Documents
             s3 == s2 \o Participant
             t == ObserverAndTopics(TRUE)
             s4 == s3 \o t
             end == <<"writers", "files", "guard">>
             s5 == s4 \o end
             m3 == {"DATA_PATH", "DPM_GID", "relay"} \cup DocumentNames \cup ParticipantNames
  <2>1. Stages(program, env) = s5
    BY <1>4 DEF Stages, JsonWriterStages
  <2>2. s1 \in Seq(Names) /\ Members(s1) = {"DATA_PATH", "DPM_GID", "relay"} /\ InOrder(s1, {})
    BY DEF Names, Members, InOrder, Fits, Before, Uses
  <2> HIDE DEF s1
  <2>3. s2 \in Seq(Names) /\ Members(s2) = Members(s1) \cup DocumentNames /\ InOrder(s2, {})
    BY <2>2, DocumentsFollow, ChainsFollow
  <2> HIDE DEF s2
  <2>4. s3 \in Seq(Names) /\ Members(s3) = m3 /\ InOrder(s3, {})
    <3>1. Members(s2) \cap Serving = {} /\ DocumentNames \cup {"relay"} \subseteq Members(s2)
      BY <2>2, <2>3 DEF DocumentNames
    <3> QED
      BY <2>2, <2>3, <3>1, ParticipantFollows, ChainsFollow
  <2> HIDE DEF s3
  <2>5. s4 \in Seq(Names) /\ Members(s4) = m3 \cup Members(t) /\ InOrder(s4, {})
    <3>1. m3 \cap Serving = {} /\ "participant" \in m3
      BY DEF DocumentNames, ParticipantNames
    <3> QED
      BY <2>4, <3>1, TopicsFollow, ChainsFollow
  <2>6. "topics" \in Members(t) /\ Members(t) \subseteq {"observer", "topics"}
    BY TopicsFollow
  <2> HIDE DEF s4, t
  <2>7. end \in Seq(Names) /\ InOrder(end, {} \cup Members(s4))
    <3>1. Fits("writers", Members(s4))
      BY <2>5, <2>6 DEF Fits, Uses, DocumentNames, ParticipantNames
    <3>2. /\ Fits("files", Members(s4) \cup {"writers"})
          /\ Fits("guard", Members(s4) \cup {"writers", "files"})
      BY DEF Fits, Uses, Endangered, MayFail, Throws, Variables
    <3>3. end \in Seq(Names) /\ Len(end) = 3
      BY DEF Names
    <3>4. /\ Before(end, 1) = {} /\ Before(end, 2) = {"writers"}
          /\ Before(end, 3) = {"writers", "files"}
      BY DEF Before
    <3> QED
      BY <3>1, <3>2, <3>3, <3>4 DEF InOrder
  <2> HIDE DEF end
  <2>8. Right(s5)
    BY <2>5, <2>7, ChainsFollow DEF ParticipantNames
  <2> HIDE DEF s5
  <2> QED
    BY <2>1, <2>8
<1>5. CASE program \in TimeWriters \cup TimeReaders
  <2>1. /\ Uses("participant") = {"plugin"} /\ Uses("topics") = {"participant"}
        /\ \A s \in {"writers", "readers"} : Uses(s) = {"participant", "topics"}
        /\ \A s \in {"TOPIC", "DPMGID", "plugin", "guard"} : Uses(s) = {}
    BY <1>5 DEF Uses, Hsds, TimeWriters, TimeReaders
  <2>2. CASE program = "TimeWriter"
    <3>1. Stages(program, env) = TimeWriterStages
      BY <2>2 DEF Stages
    <3> DEFINE s == TimeWriterStages
    <3>2. s \in Seq(Names) /\ Len(s) = 7 /\ \A i \in 1..7 : s[i] \notin Serving
      BY DEF TimeWriterStages, Names
    <3>3. \A i \in 1..7 : Uses(s[i]) \subseteq Before(s, i)
      BY <2>1 DEF TimeWriterStages, Before
    <3>4. "participant" \in Members(s)
      BY <3>2 DEF TimeWriterStages, Members
    <3>5. \A i \in 1..7 : Before(s, i) \cap Serving = {}
      BY <3>2 DEF Before
    <3> QED
      BY <3>1, <3>2, <3>3, <3>4, <3>5 DEF InOrder, Fits
  <2>3. CASE program = "TimeReader"
    <3>1. Stages(program, env) = TimeReaderStages
      BY <2>3 DEF Stages
    <3> DEFINE s == TimeReaderStages
    <3>2. s \in Seq(Names) /\ Len(s) = 6 /\ \A i \in 1..6 : s[i] \notin Serving
      BY DEF TimeReaderStages, Names
    <3>3. \A i \in 1..6 : Uses(s[i]) \subseteq Before(s, i)
      BY <2>1 DEF TimeReaderStages, Before
    <3>4. "participant" \in Members(s)
      BY <3>2 DEF TimeReaderStages, Members
    <3>5. \A i \in 1..6 : Before(s, i) \cap Serving = {}
      BY <3>2 DEF Before
    <3> QED
      BY <3>1, <3>2, <3>3, <3>4, <3>5 DEF InOrder, Fits
  <2>4. CASE program \in {"JavaTimeWriter", "JavaTimeReader"}
    <3> DEFINE s == Stages(program, env)
    <3>1. TimeParticipant \in Seq(Names) /\ Len(TimeParticipant) = 2
      BY DEF TimeParticipant, Names
    <3>2. PICK last \in {"writers", "readers"} : s = TimeParticipant \o <<"topics", last>>
      BY <2>4 DEF Stages, JavaTimeWriterStages, JavaTimeReaderStages
    <3>3. <<"topics", last>> \in Seq(Names) /\ Len(<<"topics", last>>) = 2
      BY DEF Names
    <3>4. /\ s \in Seq(Names) /\ Len(s) = 4
          /\ s[1] = "plugin" /\ s[2] = "participant" /\ s[3] = "topics" /\ s[4] = last
      BY <3>1, <3>2, <3>3, ConcatProperties DEF TimeParticipant
    <3> HIDE DEF s
    <3>5. \A i \in 1..4 : Uses(s[i]) \subseteq Before(s, i)
      BY <2>1, <3>4 DEF Before
    <3>6. \A i \in 1..4 : s[i] \notin Serving
      BY <3>4
    <3>7. "participant" \in Members(s)
      BY <3>4 DEF Members
    <3>8. \A i \in 1..4 : Before(s, i) \cap Serving = {}
      BY <3>6 DEF Before
    <3>9. Right(s)
      BY <3>4, <3>5, <3>6, <3>7, <3>8 DEF InOrder, Fits
    <3> QED
      BY <3>9 DEF s
  <2> QED
    BY <1>5, <2>2, <2>3, <2>4 DEF TimeWriters, TimeReaders
<1> QED
  BY <1>1, <1>2, <1>3, <1>4, <1>5, ProgramsAssumption DEF Hsds

-----------------------------------------------------------------------------
(* The inductive invariant                                                   *)

Chain == Stages(program, env)
Completed == {Chain[i] : i \in 1..stage}

\* What exists is what was set up, less what main has taken down since.
HaveIsSetUp ==
  /\ pc \notin {"delete", "end"} => have = Completed
  /\ pc = "delete" => have = Completed \ {"webserver"}
  /\ pc = "end" => have = Completed \ ({"webserver"} \cup Entities)

\* main waits, and ends, with its startup behind it; it takes the lock to poll, or
\* in the middle of setting its listeners.
MainInPlace ==
  /\ pc \in {"wait", "stop", "delete", "end"} => stage = Len(Chain)
  /\ pc \in {"lock", "locked"} /\ stage < Len(Chain) => Current = "listeners"

\* A thread exists only after the stage that starts it and before its end.
ThreadsInPlace ==
  /\ handler # "off" => "webserver" \in Completed /\ pc \notin {"delete", "end"}
  /\ callback # "off" =>
       /\ "readers" \in Completed /\ pc # "end"
       /\ "listeners" \in Completed \/ (stage < Len(Chain) /\ Current = "listeners")

\* The mutex is held by the thread that is at work under it.
HolderAtWork ==
  /\ mutex = "main" <=> pc = "locked"
  /\ mutex = "handler" <=> handler = "busy"
  /\ mutex = "callback" <=> callback = "busy"

InPlace ==
  /\ TypeOK /\ env \in Environments
  /\ HaveIsSetUp /\ MainInPlace /\ ThreadsInPlace /\ HolderAtWork
  /\ FailsBeforeServing /\ CrashOnlyWithoutWriters
  /\ status = "success" => pc = "end"

\* What the chain of stages says of the moment: the next stage fits what is
\* completed, and completed are the uses of whoever is served.
LEMMA StagesNow ==
  ASSUME TypeOK
  PROVE  /\ Len(Chain) \in Nat
         /\ stage < Len(Chain) => Current \in Names /\ Fits(Current, Completed)
         /\ "webserver" \in Completed => HandlerUses \subseteq Completed
         /\ stage = Len(Chain) =>
               "participant" \in Completed \/ (program = "Writer" /\ ~env.createWriters)
<1>1. /\ Chain \in Seq(Names) /\ InOrder(Chain, {}) /\ stage \in 0..Len(Chain)
      /\ "participant" \in Members(Chain) \/ (program = "Writer" /\ ~env.createWriters)
  BY StagesFit DEF Chain, TypeOK
<1> HIDE DEF Chain
<1>2. Len(Chain) \in Nat
  BY <1>1
<1>3. ASSUME stage < Len(Chain) PROVE Current \in Names /\ Fits(Current, Completed)
  <2>1. stage + 1 \in 1..Len(Chain) /\ Current = Chain[stage + 1]
    BY <1>1, <1>2, <1>3 DEF Current, Chain
  <2>2. Before(Chain, stage + 1) = Completed
    BY <1>1 DEF Before, Completed
  <2> QED
    BY <1>1, <2>1, <2>2 DEF InOrder
<1>4. ASSUME "webserver" \in Completed PROVE HandlerUses \subseteq Completed
  <2>1. PICK i \in 1..stage : Chain[i] = "webserver"
    BY <1>4 DEF Completed
  <2>2. i \in 1..Len(Chain) /\ HandlerUses \subseteq Before(Chain, i)
    BY <1>1, <1>2, <2>1 DEF InOrder, Fits
  <2>3. Before(Chain, i) \subseteq Completed
    <3>1. \A j \in 1..(i - 1) : j \in 1..stage
      BY <1>1
    <3> QED
      BY <3>1 DEF Before, Completed
  <2> QED
    BY <2>2, <2>3
<1> QED
  BY <1>1, <1>2, <1>3, <1>4 DEF Members, Completed

\* Each step leaves everything in its place.
LEMMA StepsKeepPlaces ==
  ASSUME InPlace, Next
  PROVE  InPlace'
<1>1. /\ Len(Chain) \in Nat /\ (stage < Len(Chain) => Fits(Current, Completed))
      /\ ("webserver" \in Completed => HandlerUses \subseteq Completed)
      /\ (stage = Len(Chain) =>
            "participant" \in Completed \/ (program = "Writer" /\ ~env.createWriters))
  BY StagesNow DEF InPlace
<1> USE DEF InPlace, HaveIsSetUp, MainInPlace, ThreadsInPlace, HolderAtWork, TypeOK, Running, threads,
            FailsBeforeServing, CrashOnlyWithoutWriters, Chain, Completed, Current
<1>2. CASE Serve
  BY <1>2 DEF Serve
<1>3. CASE HandlerLock
  BY <1>3 DEF HandlerLock
<1>4. CASE HandlerReturn
  BY <1>1, <1>4 DEF HandlerReturn
<1>5. CASE CallbackLock
  BY <1>5 DEF CallbackLock
<1>6. CASE CallbackReturn
  BY <1>6 DEF CallbackReturn, Entities
<1>7. CASE Signal \/ Hang \/ Arrive \/ WriteTime \/ TakeNextSample
  <2>1. samples' \in 0..MaxSamples
    BY <1>7, BoundsAssumption DEF Signal, Hang, Arrive, WriteTime, TakeNextSample
  <2>2. UNCHANGED <<program, env, stage, unitsDone, have, pc, threads>>
    BY <1>7 DEF Signal, Hang, Arrive, WriteTime, TakeNextSample
  <2>3. status' \in {status, "killed"} /\ signaled' \in BOOLEAN /\ guard' \in BOOLEAN /\ hung' \in BOOLEAN
    BY <1>7 DEF Signal, Hang, Arrive, WriteTime, TakeNextSample
  <2> QED
    BY <2>1, <2>2, <2>3
<1>8. CASE ReturnFromWriting \/ ReturnFromReading
  BY <1>8 DEF ReturnFromWriting, ReturnFromReading
<1>9. CASE Wake \/ Timeout \/ MainLock
  BY <1>9 DEF Wake, Timeout, MainLock
<1>10. CASE MainUnlock
  BY <1>10 DEF MainUnlock, AfterLock
<1>11. CASE StopWebserver
  BY <1>11 DEF StopWebserver
<1>12. CASE DeleteEntities
  BY <1>1, <1>12 DEF DeleteEntities, Entities
<1>13. CASE Exit
  BY <1>13 DEF Exit
<1>14. CASE FailStage \/ ThrowFromStage
  <2>1. pc = "startup" /\ stage < Len(Chain) /\ Endangered(Current)
    BY <1>14 DEF FailStage, ThrowFromStage, AtStage, Endangered
  <2>2. Current # "listeners"
    BY <2>1 DEF Endangered, MayFail, Throws, Variables
  <2>3. Completed \cap Serving = {}
    BY <1>1, <2>1 DEF Fits
  <2> HIDE DEF Chain, Completed, Current
  <2>4. have = Completed /\ handler = "off" /\ callback = "off"
    BY <2>1, <2>2, <2>3 DEF Serving
  <2>5. mutex = "free"
    BY <2>1, <2>4
  <2>6. /\ UNCHANGED <<program, env, stage, unitsDone, have, pc, threads, samples, signaled, guard, hung>>
        /\ status' \in {"returned", "failure", "terminated"}
    BY <1>14 DEF FailStage, ThrowFromStage
  <2>7. UNCHANGED <<Chain, Completed, Current>>
    BY <2>6 DEF Chain, Completed, Current
  <2> QED
    BY <2>1, <2>3, <2>4, <2>5, <2>6, <2>7 DEF Serving
<1>15. CASE VisitUnit
  <2>1. /\ pc = "startup" /\ stage < Len(Chain) /\ status = "running" /\ unitsDone < Units
        /\ unitsDone' = unitsDone + 1
        /\ UNCHANGED <<program, env, stage, have, mutex, handler, samples, signaled, guard, hung>>
    BY <1>15 DEF VisitUnit, AtStage
  <2>2. unitsDone' \in 0..Units
    BY <2>1, BoundsAssumption
  <2> HIDE DEF Chain, Completed, Current
  <2>3. UNCHANGED <<Chain, Completed, Current>>
    BY <2>1 DEF Chain, Completed, Current
  <2>4. Uses(Current) \subseteq have
    BY <1>1, <2>1 DEF Fits
  <2>5. status' = "running"
    BY <1>15, <2>1, <2>4 DEF VisitUnit
  <2>6. CASE Current = "listeners"
    <3>1. pc' = "lock" /\ callback' \in {"idle", callback} /\ (callback' = "busy" <=> callback = "busy")
      BY <1>15, <2>6 DEF VisitUnit
    <3>2. "readers" \in Completed
      BY <2>1, <2>4, <2>6 DEF Uses
    <3>3. TypeOK'
      BY <2>1, <2>2, <2>3, <2>5, <3>1 DEF Chain, Completed
    <3> QED
      BY <2>1, <2>3, <2>5, <2>6, <3>1, <3>2, <3>3
  <2>7. CASE Current # "listeners"
    <3>1. UNCHANGED <<pc, callback>>
      BY <1>15, <2>7 DEF VisitUnit
    <3>2. TypeOK'
      BY <2>1, <2>2, <2>3, <2>5, <3>1 DEF Chain, Completed
    <3> QED
      BY <2>1, <2>3, <2>5, <2>7, <3>1, <3>2
  <2> QED
    BY <2>6, <2>7
<1>16. CASE CompleteStage
  <2>1. /\ pc = "startup" /\ stage < Len(Chain) /\ status = "running"
        /\ have' = have \cup {Current} /\ stage' = stage + 1 /\ unitsDone' = 0
        /\ pc' = IF stage + 1 = Len(Chain) THEN "wait" ELSE pc
        /\ handler' = IF Current = "webserver" THEN "idle" ELSE handler
        /\ UNCHANGED <<program, env, mutex, callback, samples, signaled, guard, hung>>
    BY <1>16 DEF CompleteStage, AtStage
  <2>2. stage' \in 0..Len(Chain) /\ unitsDone' \in 0..Units
    BY <1>1, <2>1, BoundsAssumption
  <2>3. Chain' = Chain /\ Completed' = Completed \cup {Current}
    <3>1. 1..(stage + 1) = (1..stage) \cup {stage + 1}
      BY <1>1
    <3> QED
      BY <2>1, <3>1
  <2> HIDE DEF Chain, Completed, Current
  <2>4. Uses(Current) \subseteq have /\ have = Completed
    BY <1>1, <2>1 DEF Fits
  <2>5. status' = "running"
    BY <1>16, <2>1, <2>4 DEF CompleteStage
  <2>6. pc' = "startup" \/ (pc' = "wait" /\ stage' = Len(Chain'))
    BY <2>1, <2>3
  <2>7. have' = Completed'
    BY <2>1, <2>3, <2>4
  <2>8. TypeOK'
    BY <2>1, <2>2, <2>3, <2>5, <2>6, <2>7 DEF Chain, Completed
  <2>9. ThreadsInPlace' /\ HolderAtWork'
    <3>1. Current = "webserver" => handler = "off"
      BY <1>1, <2>1 DEF Fits, Endangered, Throws, Serving
    <3> QED
      BY <2>1, <2>3, <2>6, <3>1
  <2> QED
    BY <2>1, <2>3, <2>5, <2>6, <2>7, <2>8, <2>9
<1> QED
  BY <1>2, <1>3, <1>4, <1>5, <1>6, <1>7, <1>8, <1>9, <1>10, <1>11, <1>12, <1>13, <1>14, <1>15, <1>16
  DEF Next, Main, Startup, Threads

\* In every state of every execution everything is in its place.
LEMMA EverythingInPlace == Spec => []InPlace
<1>1. Init => InPlace
  <2> SUFFICES ASSUME Init PROVE InPlace
    OBVIOUS
  <2>1. Chain \in Seq(Names)
    BY StagesFit DEF Init, Chain
  <2>2. stage \in 0..Len(Chain) /\ Completed = {}
    BY <2>1 DEF Init, Completed
  <2> HIDE DEF Chain
  <2>3. TypeOK /\ env \in Environments
    <3>1. 0 \in 0..Units /\ 0 \in 0..MaxSamples
      BY BoundsAssumption
    <3>2. env \in Environments
      BY DEF Init, Environments
    <3>3. TypeOK
      BY <2>2, <3>1 DEF Init, TypeOK, Chain
    <3> QED
      BY <3>2, <3>3
  <2> QED
    BY <2>2, <2>3
    DEF Init, InPlace, HaveIsSetUp, MainInPlace, ThreadsInPlace, HolderAtWork, FailsBeforeServing,
        CrashOnlyWithoutWriters
<1>2. InPlace /\ [Next]_vars => InPlace'
  <2> SUFFICES ASSUME InPlace, UNCHANGED vars PROVE InPlace'
    BY StepsKeepPlaces
  <2> QED
    BY DEF InPlace, HaveIsSetUp, MainInPlace, ThreadsInPlace, HolderAtWork, FailsBeforeServing,
           CrashOnlyWithoutWriters, TypeOK, Chain, Completed, Current, vars, threads
<1> QED
  BY <1>1, <1>2, PTL DEF Spec

\* Types, and: a process has nothing it has not set up.
THEOREM LifecycleTypes == Spec => []TypeOK
<1>1. InPlace => TypeOK
  BY DEF InPlace
<1> QED
  BY <1>1, EverythingInPlace, PTL

\* No stage, handler or callback uses what does not exist, except in the shutdown of
\* a Writer that was to create no writers (Writer.cpp:566, Application.cpp:718).
THEOREM OnlyWithoutWriters == Spec => []CrashOnlyWithoutWriters
<1>1. InPlace => CrashOnlyWithoutWriters
  BY DEF InPlace
<1> QED
  BY <1>1, EverythingInPlace, PTL

\* A startup that fails, or throws, has served nobody (Writer.cpp:479-510,
\* Reader.cpp:225-255, JsonWriter.cpp:361-400).
THEOREM FailuresComeFirst == Spec => []FailsBeforeServing
<1>1. InPlace => FailsBeforeServing
  BY DEF InPlace
<1> QED
  BY <1>1, EverythingInPlace, PTL

\* A process that returns EXIT_SUCCESS leaves no entity of DDS, no webserver, no
\* thread at work and no lock (Application.cpp:718-724).
THEOREM SuccessIsClean == Spec => []SuccessLeavesNothing
<1>1. InPlace => SuccessLeavesNothing
  BY DEF InPlace, HaveIsSetUp, ThreadsInPlace, HolderAtWork, SuccessLeavesNothing, TypeOK
<1> QED
  BY <1>1, EverythingInPlace, PTL

=============================================================================
