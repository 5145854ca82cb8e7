---------------------------- MODULE ReaderProofs ----------------------------
(***************************************************************************)
(* The Reader's HTTP API, for any number of handlers and listeners, any keys,  *)
(* values, tokens and arguments: handlers and listeners exclude each other,     *)
(* a page is a slice of one moment of the container, and nobody gets past the    *)
(* authorization without a token that is genuine.                              *)
(***************************************************************************)
EXTENDS ReaderService, ContainerLemmas, FiniteSetTheorems

\* What is_authorized grants is genuine, whatever the order of the checks.
LEMMA GrantedIsGenuine ==
  ASSUME NEW auth \in Authorizations, Authorization(auth) = {"granted"}
  PROVE  Genuine(auth)
<1> DEFINE token == auth.token
           alg == token[1].holds
           claims == token[2].holds
<1>1. auth.scheme = "Bearer" /\ Decodes(token) /\ Verify(alg, claims, token[3].holds) = {"granted"}
  BY DEF Authorization
<1>2. Len(token) = 3 /\ Dated(claims)
  BY <1>1, TokensAssumption DEF Decodes
<1>3. /\ alg \notin {Absent, NotText}
      /\ alg = "RS256" /\ Signed(token[3].holds)
      /\ ClaimFaults(claims) = {}
  BY <1>1 DEF Verify, ClaimFaults, NamesAlgorithm
<1>4. token[3].holds \in {PublishedKeys[i] : i \in DOMAIN PublishedKeys}
  BY <1>3, KeysAreListed DEF Signed, AllowedKeys
<1>5. ~WrongOwner(claims) /\ ~WrongTime(claims) /\ ~ThrowsOnDate(claims)
  BY <1>3 DEF ClaimFaults
<1>6. claims.exp = NoDate \/ claims.exp >= Now
  BY <1>2, <1>5, NowAssumption DEF Dated, WrongTime, ThrowsOnDate, NoDate, NotADate
<1>7. \A d \in {claims.iat, claims.nbf} : d = NoDate \/ (d >= 0 /\ d <= Now)
  BY <1>2, <1>5, NowAssumption DEF Dated, WrongTime, ThrowsOnDate, NoDate, NotADate
<1> QED
  BY <1>1, <1>2, <1>3, <1>4, <1>5, <1>6, <1>7 DEF Genuine, WrongOwner

-----------------------------------------------------------------------------
(* Types                                                                     *)

\* A container never holds as many elements as size_t has values.
LEMMA SizeFits ==
  ASSUME NEW c, Consistent(c)
  PROVE  Size(c) \in 0..SizeModulus - 1
<1> DEFINE n == Len(c.list)
           key == [i \in 1..n |-> c.list[i].key]
<1>1. n \in Nat /\ \A i \in 1..n : c.list[i].key \in DOMAIN c.map /\ c.map[c.list[i].key] = i
  BY DEF Consistent, IsContainer
<1>2. key \in [1..n -> Keys]
  BY <1>1 DEF Consistent, IsContainer
<1>3. \A i, j \in 1..n : key[i] = key[j] => i = j
  BY <1>1
<1>4. key \in Injection(1..n, Keys)
  BY <1>2, <1>3 DEF Injection, IsInjective
<1> HIDE DEF key
<1>5. Cardinality(1..n) <= Cardinality(Keys)
  BY <1>4, SizeAssumption, FS_Injection
<1>6. Cardinality(1..n) = n
  BY <1>1, FS_Interval
<1>7. Cardinality(Keys) \in Nat
  BY SizeAssumption, FS_CardinalityType
<1> QED
  BY <1>1, <1>5, <1>6, <1>7, SizeAssumption DEF Size

\* atoi's int becomes a size_t.
LEMMA SizeTFits == \A i \in Int : SizeT(i) \in 0..SizeModulus - 1
<1>1. SizeModulus \in Nat \ {0}
  <2>1. Cardinality(Keys) \in Nat
    BY SizeAssumption, FS_CardinalityType
  <2> QED
    BY <2>1, SizeAssumption
<1> QED
  BY <1>1 DEF SizeT

\* What the runs check of the variables, and the shape of a scan.
Scans == [next : Nat, start : SUBSET Keys, got : SUBSET Keys, erases : Nat]
Types == TypeOK /\ scan \in Scans /\ req = [w \in Workers |-> req[w]]

\* The requests of the model: a GET, a page, or a modifying method.
LEMMA RequestsAreTyped ==
  ASSUME Types, NEW r \in Requests
  PROVE  /\ r.auth \in Authorizations
         /\ \/ r.op \in {"GET", "modify"}
            \/ r.op = "GETALL" /\ r.offset \in Int \cup {NoArg} /\ r.count \in Int \cup {NoArg}
         /\ \A g : LET a == [r EXCEPT !.auth = g]
                  IN  /\ a.auth = g /\ a.op = r.op
                      /\ r.op = "GETALL" => a.offset = r.offset /\ a.count = r.count
<1>1. CASE \E k : r \in [op : {"GET"}, auth : Authorizations, key : {k}]
  BY <1>1
<1>2. CASE r \in [op : {"GETALL"}, auth : Authorizations, offset : ArgTexts, count : ArgTexts,
                  scan : {FALSE}]
  BY <1>2, ArgsAssumption DEF ArgTexts
<1>3. CASE r \in [op : {"modify"}, auth : Authorizations]
  BY <1>3
<1>4. CASE r \in [op : {"GETALL"}, auth : Authorizations, offset : {scan.next}, count : {PageSize},
                  scan : {TRUE}]
  BY <1>4, ArgsAssumption DEF Types, Scans
<1> QED
  BY <1>1, <1>2, <1>3, <1>4 DEF Requests

\* What a request brings, as size_t.
LEMMA ArgumentsFit ==
  ASSUME Types, NEW w \in Workers, Admit(w)
  PROVE  /\ offset' \in [Workers -> 0..SizeModulus - 1]
         /\ count' \in [Workers -> 0..SizeModulus - 1]
<1> USE DEF Types, TypeOK
<1>1. 0 \in 0..SizeModulus - 1 /\ SizesRead \subseteq 0..SizeModulus - 1
  <2>1. Size(unit) \in 0..SizeModulus - 1
    BY SizeFits
  <2> QED
    BY <2>1, SizeAssumption DEF SizesRead
<1>2. PICK r \in Requests :
        /\ r.op # "modify"
        /\ IF r.op = "GET"
           THEN UNCHANGED <<offset, count, calm>>
           ELSE /\ offset' = [offset EXCEPT ![w] = IF r.offset = NoArg THEN 0 ELSE SizeT(r.offset)]
                /\ \E n \in IF r.count = NoArg THEN SizesRead ELSE {SizeT(r.count)} :
                     count' = [count EXCEPT ![w] = n]
  BY DEF Admit
<1>3. r.op = "GET" \/ (r.op = "GETALL" /\ r.offset \in Int \cup {NoArg} /\ r.count \in Int \cup {NoArg})
  BY <1>2, RequestsAreTyped
<1>4. CASE r.op = "GET"
  BY <1>2, <1>4
<1>5. CASE r.op = "GETALL"
  <2> DEFINE o == IF r.offset = NoArg THEN 0 ELSE SizeT(r.offset)
  <2>1. o \in 0..SizeModulus - 1
    BY <1>1, <1>3, <1>5, SizeTFits
  <2>2. PICK n \in IF r.count = NoArg THEN SizesRead ELSE {SizeT(r.count)} :
          count' = [count EXCEPT ![w] = n]
    BY <1>2, <1>5
  <2>3. n \in 0..SizeModulus - 1
    BY <1>1, <1>3, <1>5, <2>2, SizeTFits
  <2>4. offset' = [offset EXCEPT ![w] = o]
    BY <1>2, <1>5
  <2> QED
    BY <2>1, <2>2, <2>3, <2>4
<1> QED
  BY <1>3, <1>4, <1>5

\* A handler that ends leaves its locals typed.
LEMMA ReturnTypes ==
  ASSUME Types, NEW w \in Workers, Return(w), scan' \in Scans, UNCHANGED <<dds, unit, batch>>
  PROVE  Types'
<1>1. pc' \in [Threads -> {"idle", "lock", "body", "respond", "loop", "hung"}]
  BY DEF Types, TypeOK, Return, Goto
<1>2. 0 \in 0..SizeModulus - 1
  BY SizeAssumption, FS_CardinalityType
<1>3. << >> \in Seq(Element)
  OBVIOUS
<1> QED
  BY <1>1, <1>2, <1>3 DEF Types, TypeOK, Return, Forget, dds, Scans

\* In every state of every execution the variables have their types and the
\* container its agreement.
LEMMA TypesAlways == Spec => []Types
<1>1. Init => Types
  <2> SUFFICES ASSUME Init PROVE Types
    OBVIOUS
  <2>1. scan \in Scans
    BY DEF Init, NoScan, Scans
  <2>2. Consistent(unit)
    BY EmptyConsistent DEF Init
  <2>3. 0 \in 0..SizeModulus - 1
    BY SizeAssumption, FS_CardinalityType
  <2>4. [k \in {} |-> None] \in Batches
    <3>1. [k \in {} |-> None] \in [{} -> Values \cup {None}]
      OBVIOUS
    <3> QED
      BY <3>1 DEF Batches
  <2>5. << >> \in Seq(Element)
    OBVIOUS
  <2> QED
    BY <2>1, <2>2, <2>3, <2>4, <2>5 DEF Init, Types, TypeOK, NoScan, Threads
<1>2. Types /\ [Next]_vars => Types'
  <2> SUFFICES ASSUME Types, [Next]_vars
               PROVE  Types'
    OBVIOUS
  <2> USE DEF Types, TypeOK, dds, handler, Goto
  <2>1. ASSUME NEW k \in Keys, Publish(k) \/ Unregister(k) PROVE Types'
    <3>1. /\ topic' \in [Keys -> Values \cup {None}] /\ arrived' \subseteq Keys
          /\ samples' \in Nat
      <4>1. CASE Publish(k)
        BY <4>1 DEF Publish
      <4>2. CASE Unregister(k)
        BY <4>2 DEF Unregister
      <4> QED
        BY <2>1, <4>1, <4>2
    <3>2. UNCHANGED <<unit, mutex, pc, batch, req, offset, count, page, calm, scan>>
      BY <2>1 DEF Publish, Unregister
    <3> QED
      BY <3>1, <3>2
  <2>2. ASSUME NEW l \in Listeners, Take(l) PROVE Types'
    <3>1. Samples \in Batches
      <4>1. Samples \in [arrived -> Values \cup {None}]
        BY DEF Samples
      <4> QED
        BY <4>1 DEF Batches
    <3>2. batch' \in [Listeners -> Batches]
      BY <2>2, <3>1 DEF Take
    <3> QED
      BY <2>2, <3>2 DEF Take, Threads
  <2>3. ASSUME NEW l \in Listeners, NEW k \in Keys, Handle(l, k) PROVE Types'
    <3> DEFINE b == [j \in DOMAIN batch[l] \ {k} |-> batch[l][j]]
    <3>1. PICK K \in SUBSET Keys : batch[l] \in [K -> Values \cup {None}]
      BY DEF Batches
    <3>2. b \in [K \ {k} -> Values \cup {None}]
      BY <3>1
    <3>3. b \in Batches
      BY <3>2 DEF Batches
    <3>4. batch' \in [Listeners -> Batches]
      BY <2>3, <3>3 DEF Handle
    <3>5. k \in K
      BY <2>3, <3>1 DEF Handle
    <3>6. batch[l][k] = None \/ [key |-> k, val |-> batch[l][k]] \in Element
      BY <3>1, <3>5 DEF Element
    <3>7. Consistent(unit')
      BY <2>3, <3>6, InsertConsistent, EraseConsistent DEF Handle
    <3>8. scan' \in Scans
      <4>1. scan' = scan \/ scan' = [next |-> scan.next, start |-> scan.start \ {k},
                                     got |-> scan.got \ {k}, erases |-> scan.erases + 1]
        BY <2>3 DEF Handle, Scans
      <4> QED
        BY <4>1 DEF Scans
    <3> QED
      BY <2>3, <3>4, <3>7, <3>8 DEF Handle, Scans
  <2>4. ASSUME NEW l \in Listeners, Unlock(l) PROVE Types'
    BY <2>4 DEF Unlock
  <2>5. ASSUME NEW w \in Workers, Admit(w) PROVE Types'
    <3>1. calm' \in [Workers -> BOOLEAN]
      BY <2>5 DEF Admit
    <3>2. UNCHANGED <<topic, arrived, samples, unit, mutex, batch, page, scan>>
      BY <2>5 DEF Admit
    <3>3. /\ pc' \in [Threads -> {"idle", "lock", "body", "respond", "loop", "hung"}]
          /\ req' = [v \in Workers |-> req'[v]]
      BY <2>5 DEF Admit
    <3> QED
      BY <2>5, <3>1, <3>2, <3>3, ArgumentsFit
  <2>6. ASSUME NEW w \in Workers, Acquire(w) PROVE Types'
    BY <2>6 DEF Acquire, Threads
  <2>7. ASSUME NEW w \in Workers, Get(w) PROVE Types'
    BY <2>7, ReturnTypes DEF Get
  <2>8. ASSUME NEW w \in Workers, AddElement(w) PROVE Types'
    <3>1. unit.list \in Seq(Element)
      BY DEF Consistent, IsContainer
    <3>2. Position(w) \in 1..Len(unit.list)
      BY <2>8, <3>1 DEF AddElement, More, Position, Size
    <3>3. unit.list[Position(w)] \in Element
      BY <3>1, <3>2
    <3>4. page' \in [Workers -> Seq(Element)]
      BY <2>8, <3>3 DEF AddElement
    <3> QED
      BY <2>8, <3>4 DEF AddElement
  <2>9. ASSUME NEW w \in Workers, EndPage(w) PROVE Types'
    BY <2>9 DEF EndPage
  <2>10. ASSUME NEW w \in Workers, Respond(w) PROVE Types'
    <3>1. /\ KeysOf(unit.list) \subseteq Keys /\ KeysOf(page[w]) \subseteq Keys
          /\ Len(page[w]) \in Nat
      <4>1. unit.list \in Seq(Element) /\ page[w] \in Seq(Element)
        BY DEF Consistent, IsContainer
      <4>2. \A s \in Seq(Element) : KeysOf(s) \subseteq Keys /\ Len(s) \in Nat
        <5>1. ASSUME NEW s \in Seq(Element)
              PROVE  Len(s) \in Nat /\ \A i \in DOMAIN s : s[i].key \in Keys
          <6>1. Len(s) \in Nat /\ \A i \in DOMAIN s : s[i] \in Element
            BY <5>1
          <6> QED
            BY <6>1 DEF Element
        <5> QED
          BY <5>1 DEF KeysOf
      <4> QED
        BY <4>1, <4>2
    <3>2. scan' \in Scans
      BY <2>10, <3>1 DEF Respond, Scans, NoScan
    <3> QED
      BY <2>10, <3>2, ReturnTypes DEF Respond
  <2>11. CASE UNCHANGED vars
    BY <2>11 DEF vars
  <2> HIDE DEF Types
  <2> QED
    BY <2>1, <2>2, <2>3, <2>4, <2>5, <2>6, <2>7, <2>8, <2>9, <2>10, <2>11
    DEF Next, Listen, Step, Refuse
<1> QED
  BY <1>1, <1>2, PTL DEF Spec

\* The types that the run checks.
THEOREM ReaderTypes == Spec => []TypeOK
<1>1. Types => TypeOK
  BY DEF Types
<1> QED
  BY <1>1, TypesAlways, PTL

-----------------------------------------------------------------------------
(* The lock                                                                  *)

\* A handler under the lock, and a listener in its loop, are the one thread that
\* holds the mutex.
Locking ==
  /\ \A w \in Workers :
       /\ pc[w] \in {"idle", "lock", "body", "respond"}
       /\ pc[w] \in {"body", "respond"} <=> mutex = w
  /\ \A l \in Listeners :
       /\ pc[l] \in {"idle", "loop", "hung"}
       /\ pc[l] # "idle" <=> mutex = l

\* A handler that returns had the mutex and gives it back.
LEMMA ReturnUnlocks ==
  ASSUME Types, Locking, NEW w \in Workers, Return(w), mutex = w
  PROVE  Locking' /\ mutex' = Free
<1>1. pc' = [pc EXCEPT ![w] = "idle"] /\ mutex' = Free /\ pc \in [Threads -> {"idle", "lock", "body", "respond", "loop", "hung"}]
  BY DEF Return, Goto, Types, TypeOK
<1> QED
  BY <1>1, ThreadsAssumption DEF Locking, Threads

LEMMA LockingAlways == Spec => []Locking
<1>1. Init => Locking
  BY ThreadsAssumption DEF Init, Locking, Threads
<1>2. Types /\ Locking /\ [Next]_vars => Locking'
  <2> SUFFICES ASSUME Types, Locking, [Next]_vars
               PROVE  Locking'
    OBVIOUS
  <2>1. pc \in [Threads -> {"idle", "lock", "body", "respond", "loop", "hung"}]
    BY DEF Types, TypeOK
  <2> USE <2>1, ThreadsAssumption DEF Locking, Threads, Goto
  <2>2. ASSUME UNCHANGED <<pc, mutex>> PROVE Locking'
    BY <2>2
  <2>3. ASSUME NEW l \in Listeners, Take(l) PROVE Locking'
    BY <2>3 DEF Take
  <2>4. ASSUME NEW l \in Listeners, Unlock(l) PROVE Locking'
    BY <2>4 DEF Unlock
  <2>5. ASSUME NEW w \in Workers, Admit(w) PROVE Locking'
    BY <2>5 DEF Admit
  <2>6. ASSUME NEW w \in Workers, Acquire(w) PROVE Locking'
    BY <2>6 DEF Acquire
  <2>7. ASSUME NEW w \in Workers, Get(w) \/ Respond(w) PROVE Locking'
    BY <2>7, ReturnUnlocks DEF Get, Respond
  <2>8. ASSUME NEW w \in Workers, EndPage(w) PROVE Locking'
    BY <2>8 DEF EndPage
  <2>9. ASSUME NEW l \in Listeners, NEW k \in Keys, Handle(l, k) PROVE Locking'
    BY <2>9 DEF Handle
  <2> HIDE DEF Locking
  <2> QED
    BY <2>2, <2>3, <2>4, <2>5, <2>6, <2>7, <2>8, <2>9
    DEF Next, Listen, Step, Refuse, Publish, Unregister, AddElement, vars
<1> QED
  BY <1>1, <1>2, TypesAlways, PTL DEF Spec

-----------------------------------------------------------------------------
(* Authorization                                                             *)

\* Whoever gets past is_authorized has a genuine token: the verdict that Admit
\* keeps is that of GrantedIsGenuine, and only a return forgets it.
THEOREM OnlyTheGenuineEnter == Spec => []OnlyGenuineTokens
<1>1. Init => OnlyGenuineTokens
  BY DEF Init, OnlyGenuineTokens, Threads
<1>2. Types /\ OnlyGenuineTokens /\ [Next]_vars => OnlyGenuineTokens'
  <2> SUFFICES ASSUME Types, OnlyGenuineTokens, [Next]_vars
               PROVE  OnlyGenuineTokens'
    OBVIOUS
  <2>1. pc \in [Threads -> {"idle", "lock", "body", "respond", "loop", "hung"}]
    BY DEF Types, TypeOK
  <2> USE <2>1, ThreadsAssumption DEF OnlyGenuineTokens, Threads, Goto
  <2>2. ASSUME UNCHANGED <<pc, req>> PROVE OnlyGenuineTokens'
    BY <2>2
  <2>3. ASSUME NEW l \in Listeners, Take(l) \/ Unlock(l) \/ \E k \in Keys : Handle(l, k)
        PROVE  OnlyGenuineTokens'
    BY <2>3 DEF Take, Unlock, Handle, handler
  <2>4. ASSUME NEW w \in Workers, Admit(w) PROVE OnlyGenuineTokens'
    <3>1. PICK r \in Requests :
            /\ r.op # "modify" /\ Authorization(r.auth) = {"granted"}
            /\ req' = [req EXCEPT ![w] = [r EXCEPT !.auth = Genuine(r.auth)]]
      BY <2>4 DEF Admit
    <3>2. Genuine(r.auth)
      BY <3>1, RequestsAreTyped, GrantedIsGenuine
    <3>3. req'[w].auth = Genuine(r.auth)
      BY <3>1, RequestsAreTyped DEF Types
    <3>4. \A v \in Workers \ {w} : req'[v] = req[v]
      BY <3>1 DEF Types
    <3> QED
      BY <2>4, <3>2, <3>3, <3>4 DEF Admit
  <2>5. ASSUME NEW w \in Workers, Acquire(w) \/ EndPage(w) PROVE OnlyGenuineTokens'
    BY <2>5 DEF Acquire, EndPage, handler
  <2>6. ASSUME NEW w \in Workers, Return(w) PROVE OnlyGenuineTokens'
    BY <2>6 DEF Return, Forget
  <2> HIDE DEF OnlyGenuineTokens
  <2> QED
    BY <2>2, <2>3, <2>4, <2>5, <2>6
    DEF Next, Listen, Step, Refuse, Publish, Unregister, AddElement, Get, Respond, vars,
        handler
<1> QED
  BY <1>1, <1>2, TypesAlways, PTL DEF Spec

-----------------------------------------------------------------------------
(* Pages                                                                     *)

\* What a handler has written is a gapless part of the list as it is now.
Sliced(w) ==
  /\ Len(page[w]) <= count[w]
  /\ page[w] # << >> => offset[w] + Len(page[w]) <= Size(unit)
  /\ \A i \in 1..Len(page[w]) : page[w][i] = unit.list[offset[w] + i]

Slicing ==
  \A w \in Workers :
    /\ pc[w] \in {"idle", "lock"} => page[w] = << >>
    /\ pc[w] \in {"body", "respond"} => Sliced(w)
    /\ pc[w] = "respond" => req[w].op = "GETALL" /\ ~More(w)

\* An empty page is a part of every list.
LEMMA EmptySliced ==
  ASSUME Types, NEW w \in Workers, page[w] = << >>
  PROVE  Sliced(w)
  BY DEF Sliced, Types, TypeOK

LEMMA SlicingAlways == Spec => []Slicing
<1>1. Init => Slicing
  BY DEF Init, Slicing, Threads
<1>2. Types /\ Types' /\ Locking /\ Slicing /\ [Next]_vars => Slicing'
  <2> SUFFICES ASSUME Types, Types', Locking, Slicing, [Next]_vars
               PROVE  Slicing'
    OBVIOUS
  <2>0. /\ pc \in [Threads -> {"idle", "lock", "body", "respond", "loop", "hung"}]
        /\ page \in [Workers -> Seq(Element)] /\ count \in [Workers -> Nat] /\ offset \in [Workers -> Nat]
        /\ unit.list \in Seq(Element)
    BY DEF Types, TypeOK, Consistent, IsContainer
  <2> USE <2>0, ThreadsAssumption DEF Slicing, Threads, Goto
  <2>1. ASSUME UNCHANGED <<unit, req, offset, count, page>>,
               \A w \in Workers : pc'[w] = pc[w]
        PROVE  Slicing'
    BY <2>1 DEF Sliced, More, Position
  <2>2. ASSUME NEW l \in Listeners, Take(l) \/ Unlock(l) PROVE Slicing'
    BY <2>1, <2>2 DEF Take, Unlock, handler
  <2>3. ASSUME NEW l \in Listeners, NEW k \in Keys, Handle(l, k) PROVE Slicing'
    <3>1. \A w \in Workers : pc[w] \in {"idle", "lock"}
      BY <2>3 DEF Handle, Locking
    <3> QED
      BY <2>3, <3>1 DEF Handle, handler
  <2>4. ASSUME NEW w \in Workers, Admit(w) PROVE Slicing'
    <3>1. /\ pc[w] = "idle" /\ pc' = [pc EXCEPT ![w] = "lock"]
          /\ UNCHANGED <<unit, page>>
          /\ \A v \in Workers \ {w} : /\ req'[v] = req[v] /\ offset'[v] = offset[v]
                                      /\ count'[v] = count[v]
      BY <2>4 DEF Admit, Types
    <3>2. ASSUME NEW v \in Workers, v # w
          PROVE  /\ pc'[v] = pc[v] /\ page'[v] = page[v] /\ req'[v] = req[v]
                 /\ Sliced(v) => Sliced(v)'
                 /\ More(v)' => More(v)
      BY <3>1, <3>2 DEF Sliced, More, Position
    <3>3. pc'[w] = "lock" /\ page'[w] = << >>
      BY <3>1
    <3> QED
      BY <3>2, <3>3
  <2>5. ASSUME NEW w \in Workers, Acquire(w) PROVE Slicing'
    <3>1. Sliced(w)
      BY <2>5, EmptySliced DEF Acquire
    <3> QED
      BY <2>5, <3>1 DEF Acquire, Sliced, More, Position, handler
  <2>6. ASSUME NEW w \in Workers, Get(w) \/ Respond(w) PROVE Slicing'
    <3>1. /\ UNCHANGED unit /\ pc' = [pc EXCEPT ![w] = "idle"] /\ page'[w] = << >>
          /\ \A v \in Workers \ {w} : /\ req'[v] = req[v] /\ offset'[v] = offset[v]
                                      /\ count'[v] = count[v] /\ page'[v] = page[v]
      BY <2>6 DEF Get, Respond, Return, Forget, Types
    <3>2. ASSUME NEW v \in Workers, v # w
          PROVE  pc'[v] = pc[v] /\ (Sliced(v) => Sliced(v)') /\ (More(v)' => More(v))
      BY <3>1, <3>2 DEF Sliced, More, Position
    <3> QED
      BY <3>1, <3>2
  <2>7. ASSUME NEW w \in Workers, AddElement(w) PROVE Slicing'
    <3> DEFINE p == page[w]
               n == offset[w] + Len(p) + 1
    <3>1. /\ UNCHANGED <<unit, pc, req, offset, count>> /\ pc[w] = "body"
          /\ page' = [page EXCEPT ![w] = Append(p, unit.list[n])]
          /\ n <= Size(unit) /\ Len(p) # count[w]
      BY <2>7 DEF AddElement, More, Position
    <3>2. unit.list[n] \in Element
      BY <3>1 DEF Size
    <3>3. Len(page'[w]) = Len(p) + 1 /\ page'[w][Len(p) + 1] = unit.list[n]
          /\ \A i \in 1..Len(p) : page'[w][i] = p[i]
      BY <3>1, <3>2
    <3>4. Sliced(w)'
      <4>1. Sliced(w) /\ Len(p) \in Nat /\ count[w] \in Nat /\ offset[w] \in Nat
        BY <3>1
      <4>2. ASSUME NEW i \in 1..Len(p) + 1 PROVE page'[w][i] = unit.list[offset[w] + i]
        <5>1. CASE i \in 1..Len(p)
          BY <3>3, <4>1, <5>1 DEF Sliced
        <5>2. CASE i = Len(p) + 1
          <6>1. offset[w] + i = n
            BY <4>1, <5>2
          <6> QED
            BY <3>3, <5>2, <6>1
        <5> QED
          BY <4>1, <5>1, <5>2
      <4>3. Len(p) + 1 <= count[w] /\ offset[w] + (Len(p) + 1) <= Size(unit)
        <5>1. Size(unit) \in Nat
          BY DEF Size
        <5> QED
          BY <3>1, <4>1, <5>1 DEF Sliced
      <4> QED
        BY <3>1, <3>3, <4>2, <4>3 DEF Sliced, Size
    <3>5. ASSUME NEW v \in Workers, v # w
          PROVE  pc'[v] = pc[v] /\ (Sliced(v) => Sliced(v)') /\ (More(v)' => More(v))
      BY <3>1, <3>5 DEF Sliced, More, Position
    <3> QED
      BY <3>1, <3>4, <3>5
  <2>8. ASSUME NEW w \in Workers, EndPage(w) PROVE Slicing'
    BY <2>8 DEF EndPage, Sliced, More, Position, handler
  <2> HIDE DEF Slicing
  <2> QED
    BY <2>1, <2>2, <2>3, <2>4, <2>5, <2>6, <2>7, <2>8
    DEF Next, Listen, Step, Refuse, Publish, Unregister, vars, handler
<1> QED
  BY <1>1, <1>2, TypesAlways, LockingAlways, PTL DEF Spec

\* The lesser of two numbers.
LEMMA MinOfTwo ==
  ASSUME NEW a \in Nat, NEW b \in Nat
  PROVE  Min({a, b}) = IF a <= b THEN a ELSE b
<1> DEFINE least == IF a <= b THEN a ELSE b
<1>1. least \in {a, b} /\ \A y \in {a, b} : least <= y
  OBVIOUS
<1>2. \A x \in {a, b} : (\A y \in {a, b} : x <= y) => x = least
  OBVIOUS
<1> HIDE DEF least
<1>3. Min({a, b}) = least
  BY <1>1, <1>2 DEF Min
<1> QED
  BY <1>3 DEF least

\* A sequence that agrees with a part of another is that part.
LEMMA PartOf ==
  ASSUME NEW S, NEW list \in Seq(S), NEW p \in Seq(S), NEW o \in Nat, NEW last \in Nat,
         last <= Len(list),
         Len(p) = IF o <= last THEN last - o ELSE 0,
         \A i \in 1..Len(p) : p[i] = list[o + i]
  PROVE  p = SubSeq(list, o + 1, last)
<1>1. CASE o <= last
  BY <1>1
<1>2. CASE o > last
  BY <1>2
<1> QED
  BY <1>1, <1>2

\* A page shows one moment of the container, whatever the arguments.
THEOREM PagesAreSlices == Spec => []PageIsSlice
<1>1. Types /\ Slicing => PageIsSlice
  <2> SUFFICES ASSUME Types, Slicing, NEW w \in Workers, pc[w] = "respond"
               PROVE  page[w] = SubSeq(unit.list, offset[w] + 1, Min({Size(unit), offset[w] + count[w]}))
    BY DEF PageIsSlice
  <2> DEFINE last == Min({Size(unit), offset[w] + count[w]})
  <2>1. /\ page[w] \in Seq(Element) /\ count[w] \in Nat /\ offset[w] \in Nat
        /\ unit.list \in Seq(Element) /\ Size(unit) = Len(unit.list) /\ Size(unit) \in Nat
    BY DEF Types, TypeOK, Consistent, IsContainer, Size
  <2>2. last = IF Size(unit) <= offset[w] + count[w] THEN Size(unit) ELSE offset[w] + count[w]
    BY <2>1, MinOfTwo
  <2> HIDE DEF last
  <2>3. Sliced(w) /\ ~More(w)
    BY DEF Slicing
  <2>4. last \in Nat /\ last <= Len(unit.list)
    BY <2>1, <2>2
  <2>5. Len(page[w]) = IF offset[w] <= last THEN last - offset[w] ELSE 0
    <3>1. Len(page[w]) \in Nat /\ (page[w] # << >> => Len(page[w]) > 0)
      BY <2>1
    <3>2. /\ Len(page[w]) <= count[w]
          /\ page[w] # << >> => offset[w] + Len(page[w]) <= Size(unit)
          /\ offset[w] + Len(page[w]) + 1 > Size(unit) \/ Len(page[w]) = count[w]
      BY <2>1, <2>3, <3>1 DEF Sliced, More, Position
    <3>3. page[w] = << >> => Len(page[w]) = 0
      OBVIOUS
    <3> DEFINE n == Len(page[w])
               o == offset[w]
               c == count[w]
               size == Size(unit)
    <3>4. /\ n \in Nat /\ o \in Nat /\ c \in Nat /\ size \in Nat
          /\ n <= c /\ (n > 0 => o + n <= size) /\ (o + n + 1 > size \/ n = c)
      BY <2>1, <3>1, <3>2, <3>3
    <3> HIDE DEF n, o, c, size
    <3>5. n = IF o <= (IF size <= o + c THEN size ELSE o + c)
              THEN (IF size <= o + c THEN size ELSE o + c) - o ELSE 0
      BY <3>4
    <3> QED
      BY <2>2, <3>5 DEF n, o, c, size
  <2>6. page[w] = SubSeq(unit.list, offset[w] + 1, last)
    <3>1. \A i \in 1..Len(page[w]) : page[w][i] = unit.list[offset[w] + i]
      BY <2>3 DEF Sliced
    <3> QED
      BY <2>1, <2>3, <2>4, <2>5, <3>1, PartOf
  <2> QED
    BY <2>6 DEF last
<1> QED
  BY <1>1, TypesAlways, SlicingAlways, PTL

\* While no listener has been at work since a handler read the size, the size is
\* what it read.
CalmSize ==
  \A w \in Workers : pc[w] # "idle" /\ req[w].op = "GETALL" =>
    /\ req[w].offset = NoArg => offset[w] = 0
    /\ calm[w] => /\ mutex \notin Listeners
                  /\ req[w].count = NoArg => count[w] = Size(unit)

LEMMA CalmSizeAlways == Spec => []CalmSize
<1>1. Init => CalmSize
  BY DEF Init, CalmSize, Threads
<1>2. Types /\ Locking /\ CalmSize /\ [Next]_vars => CalmSize'
  <2> SUFFICES ASSUME Types, Locking, CalmSize, [Next]_vars
               PROVE  CalmSize'
    OBVIOUS
  <2>0. /\ pc \in [Threads -> {"idle", "lock", "body", "respond", "loop", "hung"}]
        /\ calm \in [Workers -> BOOLEAN] /\ req = [w \in Workers |-> req[w]]
        /\ offset = [w \in Workers |-> offset[w]] /\ count = [w \in Workers |-> count[w]]
    BY DEF Types, TypeOK
  <2> USE <2>0, ThreadsAssumption DEF CalmSize, Threads, Goto
  <2>1. ASSUME UNCHANGED <<unit, mutex, req, offset, count, calm>>,
               \A w \in Workers : pc'[w] = "idle" <=> pc[w] = "idle"
        PROVE  CalmSize'
    BY <2>1
  <2>2. ASSUME NEW l \in Listeners, Take(l) PROVE CalmSize'
    <3>1. \A w \in Workers : calm'[w] = FALSE /\ pc'[w] = pc[w]
      BY <2>2 DEF Take
    <3> QED
      BY <2>2, <3>1 DEF Take, handler
  <2>3. ASSUME NEW l \in Listeners, NEW k \in Keys, Handle(l, k) PROVE CalmSize'
    BY <2>3 DEF Handle, Locking, handler
  <2>4. ASSUME NEW l \in Listeners, Unlock(l) PROVE CalmSize'
    BY <2>4 DEF Unlock, Locking, handler
  <2>5. ASSUME NEW w \in Workers, Admit(w) PROVE CalmSize'
    <3>1. PICK r \in Requests :
            /\ r.op # "modify"
            /\ req' = [req EXCEPT ![w] = [r EXCEPT !.auth = Genuine(r.auth)]]
            /\ IF r.op = "GET"
               THEN UNCHANGED <<offset, count, calm>>
               ELSE /\ offset' = [offset EXCEPT ![w] = IF r.offset = NoArg THEN 0 ELSE SizeT(r.offset)]
                    /\ \E n \in IF r.count = NoArg THEN SizesRead ELSE {SizeT(r.count)} :
                         count' = [count EXCEPT ![w] = n]
                    /\ calm' = [calm EXCEPT ![w] = mutex \notin Listeners]
      BY <2>5 DEF Admit
    <3>2. /\ req'[w].op = r.op
          /\ r.op = "GETALL" => req'[w].offset = r.offset /\ req'[w].count = r.count
      <4> DEFINE a == [r EXCEPT !.auth = Genuine(r.auth)]
      <4>1. a.op = r.op /\ (r.op = "GETALL" => a.offset = r.offset /\ a.count = r.count)
        BY RequestsAreTyped
      <4>2. req'[w] = a
        BY <3>1
      <4> QED
        BY <4>1, <4>2
    <3>3. \A v \in Workers \ {w} : /\ req'[v] = req[v] /\ offset'[v] = offset[v]
                                  /\ count'[v] = count[v] /\ calm'[v] = calm[v] /\ pc'[v] = pc[v]
      BY <2>5, <3>1 DEF Admit
    <3>4. UNCHANGED <<unit, mutex>>
      BY <2>5 DEF Admit
    <3>5. CASE r.op = "GET"
      BY <3>2, <3>3, <3>4, <3>5
    <3>6. CASE r.op = "GETALL"
      <4>1. r.offset = NoArg => offset'[w] = 0
        BY <3>1, <3>6
      <4>2. calm'[w] => mutex \notin Listeners
        BY <3>1, <3>6
      <4>3. mutex \notin Listeners /\ r.count = NoArg => count'[w] = Size(unit)
        BY <3>1, <3>6 DEF SizesRead
      <4> QED
        BY <3>2, <3>3, <3>4, <4>1, <4>2, <4>3 DEF Size
    <3> QED
      BY <3>1, <3>5, <3>6, RequestsAreTyped
  <2>6. ASSUME NEW w \in Workers, Acquire(w) PROVE CalmSize'
    BY <2>6 DEF Acquire, handler
  <2>7. ASSUME NEW w \in Workers, Get(w) \/ Respond(w) PROVE CalmSize'
    <3>1. /\ UNCHANGED unit /\ pc'[w] = "idle" /\ mutex' \in {mutex, Free}
          /\ \A v \in Workers \ {w} : /\ req'[v] = req[v] /\ offset'[v] = offset[v]
                                      /\ count'[v] = count[v] /\ calm'[v] = calm[v] /\ pc'[v] = pc[v]
      BY <2>7 DEF Get, Respond, Return, Forget
    <3> QED
      BY <3>1
  <2>8. ASSUME NEW w \in Workers, EndPage(w) PROVE CalmSize'
    BY <2>8 DEF EndPage, handler
  <2> HIDE DEF CalmSize
  <2> QED
    BY <2>1, <2>2, <2>3, <2>4, <2>5, <2>6, <2>7, <2>8
    DEF Next, Listen, Step, Refuse, Publish, Unregister, AddElement, vars, handler
<1> QED
  BY <1>1, <1>2, TypesAlways, LockingAlways, PTL DEF Spec

\* Without arguments a page is the whole collection, if no listener came between
\* the size and the lock.
THEOREM CalmDefaultsAreWhole == Spec => []CalmDefaultIsWhole
<1>1. Types /\ Slicing /\ CalmSize /\ PageIsSlice => CalmDefaultIsWhole
  <2> SUFFICES ASSUME Types, Slicing, CalmSize, PageIsSlice, NEW w \in Workers, pc[w] = "respond",
                      calm[w], req[w].offset = NoArg, req[w].count = NoArg
               PROVE  page[w] = unit.list
    BY DEF CalmDefaultIsWhole
  <2>1. offset[w] = 0 /\ count[w] = Size(unit)
    BY DEF Slicing, CalmSize
  <2>2. unit.list \in Seq(Element) /\ Size(unit) = Len(unit.list) /\ Size(unit) \in Nat
    BY DEF Types, TypeOK, Consistent, IsContainer, Size
  <2>3. Min({Size(unit), offset[w] + count[w]}) = Len(unit.list)
    BY <2>1, <2>2, MinOfTwo
  <2>4. page[w] = SubSeq(unit.list, offset[w] + 1, Min({Size(unit), offset[w] + count[w]}))
    BY DEF PageIsSlice
  <2>5. page[w] = SubSeq(unit.list, 1, Len(unit.list))
    <3>1. offset[w] + 1 = 1
      BY <2>1
    <3> QED
      BY <2>3, <2>4, <3>1
  <2> QED
    BY <2>2, <2>5
<1> QED
  BY <1>1, TypesAlways, SlicingAlways, CalmSizeAlways, PagesAreSlices, PTL

-----------------------------------------------------------------------------
(* Paging                                                                    *)

\* The request of a client that reads page by page, and what became of its arguments.
Paging ==
  \A w \in Workers : pc[w] # "idle" /\ req[w].op = "GETALL" /\ req[w].scan =>
    /\ req[w].offset \in Nat
    /\ offset[w] = SizeT(req[w].offset) /\ count[w] = SizeT(PageSize)

\* The elements that stayed and were missed, though the client is past where they are now.
Behind == {k \in scan.start \ scan.got : unit.map[k] <= scan.next}

\* The inductive invariant: each erased element lets one more get behind the client, for
\* it moves one element only.
Scanning ==
  /\ scan.next = 0 => scan = NoScan
  /\ scan.next \in 0..SizeModulus - 1
  /\ scan.next > 0 => SizeT(PageSize) # 0
  /\ scan.start \subseteq Stored(unit)
  /\ Cardinality(Behind) <= scan.erases

LEMMA PagingAlways == Spec => []Paging
<1>1. Init => Paging
  BY DEF Init, Paging, Threads
<1>2. Types /\ Paging /\ [Next]_vars => Paging'
  <2> SUFFICES ASSUME Types, Paging, [Next]_vars PROVE Paging'
    OBVIOUS
  <2>0. /\ pc \in [Threads -> {"idle", "lock", "body", "respond", "loop", "hung"}]
        /\ req = [w \in Workers |-> req[w]]
        /\ offset = [w \in Workers |-> offset[w]] /\ count = [w \in Workers |-> count[w]]
    BY DEF Types, TypeOK
  <2> USE <2>0, ThreadsAssumption DEF Paging, Threads, Goto
  <2>1. ASSUME UNCHANGED <<req, offset, count>>, \A w \in Workers : pc'[w] = "idle" <=> pc[w] = "idle"
        PROVE  Paging'
    BY <2>1 DEF SizeT
  <2>2. ASSUME NEW l \in Listeners, Take(l) \/ Unlock(l) PROVE Paging'
    BY <2>1, <2>2 DEF Take, Unlock, handler
  <2>3. ASSUME NEW w \in Workers, Admit(w) PROVE Paging'
    <3>1. PICK r \in Requests :
            /\ r.op # "modify"
            /\ req' = [req EXCEPT ![w] = [r EXCEPT !.auth = Genuine(r.auth)]]
            /\ r.op # "GET" =>
                 /\ offset' = [offset EXCEPT ![w] = IF r.offset = NoArg THEN 0 ELSE SizeT(r.offset)]
                 /\ \E n \in IF r.count = NoArg THEN SizesRead ELSE {SizeT(r.count)} :
                      count' = [count EXCEPT ![w] = n]
      BY <2>3 DEF Admit
    <3>2. ASSUME r.op = "GETALL", r.scan
          PROVE  r.offset = scan.next /\ scan.next \in Nat /\ r.count = PageSize /\ r.offset # NoArg
                 /\ r.count # NoArg
      <4>1. r.offset = scan.next /\ r.count = PageSize
        BY <3>2 DEF Requests
      <4>2. scan.next \in Nat /\ PageSize \in Nat /\ NoArg \notin Int
        BY ArgsAssumption DEF Types, TypeOK
      <4> QED
        BY <4>1, <4>2
    <3>3. LET a == [r EXCEPT !.auth = Genuine(r.auth)]
          IN  /\ a.op = r.op
              /\ r.op = "GETALL" => a.offset = r.offset /\ a.scan = r.scan
      BY DEF Requests
    <3>4. \A v \in Workers \ {w} : /\ req'[v] = req[v] /\ pc'[v] = pc[v]
                                  /\ offset'[v] = offset[v] /\ count'[v] = count[v]
      BY <2>3 DEF Admit
    <3>5. r.op \in {"GET", "GETALL"}
      BY <3>1, RequestsAreTyped
    <3>6. req'[w].op = "GETALL" /\ req'[w].scan =>
            /\ req'[w].offset \in Nat
            /\ offset'[w] = SizeT(req'[w].offset) /\ count'[w] = SizeT(PageSize)
      BY <3>1, <3>2, <3>3, <3>5
    <3> QED
      BY <3>4, <3>6 DEF SizeT
  <2>4. ASSUME NEW w \in Workers, Acquire(w) \/ EndPage(w) PROVE Paging'
    BY <2>1, <2>4 DEF Acquire, EndPage, handler
  <2>5. ASSUME NEW w \in Workers, Return(w) PROVE Paging'
    BY <2>5 DEF Return, Forget, SizeT
  <2> HIDE DEF Paging
  <2> QED
    BY <2>1, <2>2, <2>3, <2>4, <2>5
    DEF Next, Listen, Step, Refuse, Publish, Unregister, Handle, AddElement, Get, Respond, vars,
        handler
<1> QED
  BY <1>1, <1>2, TypesAlways, PTL DEF Spec

\* insert moves nothing; erase moves one element at most.
LEMMA PositionsStay ==
  ASSUME NEW c, Consistent(c)
  PROVE  /\ \A e \in Element : LET d == Insert(c, e)
                               IN  /\ Stored(c) \subseteq Stored(d)
                                   /\ \A k \in Stored(c) : d.map[k] = c.map[k]
         /\ \A k \in Stored(c) : LET d == Erase(c, k)
                                 IN  /\ Stored(d) = Stored(c) \ {k}
                                     /\ \E l : \A j \in Stored(d) \ {l} : d.map[j] = c.map[j]
<1>1. ASSUME NEW e \in Element
      PROVE  LET d == Insert(c, e)
             IN  /\ Stored(c) \subseteq Stored(d)
                 /\ \A k \in Stored(c) : d.map[k] = c.map[k]
  BY DEF Insert, Stored, Has
<1>2. ASSUME NEW k \in Stored(c)
      PROVE  LET d == Erase(c, k)
             IN  /\ Stored(d) = Stored(c) \ {k}
                 /\ \E l : \A j \in Stored(d) \ {l} : d.map[j] = c.map[j]
  <2> DEFINE d == Erase(c, k)
             l == c.list[Len(c.list)].key
             hole == c.map[k]
  <2>1. k \in DOMAIN c.map
    BY DEF Stored
  <2>2. d.map = [j \in DOMAIN c.map \ {k} |-> IF j = l THEN hole ELSE c.map[j]]
    <3>1. ErasedTo(c, k, d)
      BY <2>1, EraseShape
    <3> QED
      BY <3>1 DEF ErasedTo
  <2> HIDE DEF d, l, hole
  <2>3. Stored(d) = Stored(c) \ {k} /\ \A j \in Stored(d) \ {l} : d.map[j] = c.map[j]
    BY <2>2 DEF Stored
  <2> QED
    BY <2>3 DEF d
<1> QED
  BY <1>1, <1>2

\* Behind is finite.
LEMMA BehindIsFinite ==
  ASSUME Types
  PROVE  IsFiniteSet(Behind) /\ Cardinality(Behind) \in Nat
<1>1. Behind \in SUBSET Keys
  BY DEF Behind, Types, Scans
<1> QED
  BY <1>1, SizeAssumption, FS_Subset, FS_CardinalityType

\* A turn of a listener's loop.
LEMMA HandleScans ==
  ASSUME Types, Scanning, NEW l \in Listeners, NEW k \in Keys, Handle(l, k)
  PROVE  Scanning'
<1> DEFINE v == batch[l][k]
<1>1. Consistent(unit) /\ scan \in Scans /\ IsFiniteSet(Behind) /\ Cardinality(Behind) \in Nat
  BY BehindIsFinite DEF Types, TypeOK
<1>2. CASE v = None /\ Has(unit, k)
  <2>1. unit' = Erase(unit, k) /\ k \in Stored(unit)
    BY <1>2 DEF Handle, Has, Stored
  <2>2. PICK m : \A j \in Stored(unit') \ {m} : unit'.map[j] = unit.map[j]
    BY <1>1, <2>1, PositionsStay
  <2>3. Stored(unit') = Stored(unit) \ {k}
    BY <1>1, <2>1, PositionsStay
  <2>4. CASE scan.next > 0
    <3>1. scan' = [next |-> scan.next, start |-> scan.start \ {k}, got |-> scan.got \ {k},
                   erases |-> scan.erases + 1]
      BY <1>1, <1>2, <2>4 DEF Handle, Scans
    <3>2. Behind' \subseteq Behind \cup {m} /\ scan'.start \subseteq Stored(unit')
      BY <2>2, <2>3, <3>1 DEF Behind, Scanning
    <3>3. IsFiniteSet(Behind \cup {m}) /\ Cardinality(Behind \cup {m}) \in Nat
          /\ Cardinality(Behind \cup {m}) <= Cardinality(Behind) + 1
      <4>1. /\ IsFiniteSet(Behind \cup {m})
            /\ Cardinality(Behind \cup {m}) = IF m \in Behind THEN Cardinality(Behind)
                                              ELSE Cardinality(Behind) + 1
        BY <1>1, FS_AddElement
      <4> QED
        BY <1>1, <4>1
    <3>4. Behind' \in SUBSET (Behind \cup {m})
      BY <3>2
    <3>5. Cardinality(Behind') <= Cardinality(Behind \cup {m}) /\ Cardinality(Behind') \in Nat
      BY <3>3, <3>4, FS_Subset, FS_CardinalityType
    <3>6. Cardinality(Behind') <= scan'.erases
      BY <1>1, <3>1, <3>3, <3>5 DEF Scanning, Scans
    <3> QED
      BY <2>4, <3>1, <3>2, <3>6 DEF Scanning, SizeT
  <2>5. CASE scan.next = 0
    <3>1. scan' = NoScan /\ scan = NoScan
      BY <2>5 DEF Handle, Scanning
    <3>2. Behind' = {}
      BY <3>1 DEF Behind, NoScan
    <3> QED
      BY <3>1, <3>2, FS_EmptySet DEF Scanning, NoScan, SizeT
  <2> QED
    BY <1>1, <2>4, <2>5 DEF Scans
<1>3. CASE ~(v = None /\ Has(unit, k))
  <2>1. scan' = scan
    BY <1>3 DEF Handle
  <2>2. CASE v = None
    <3>1. unit' = unit
      BY <1>3, <2>2 DEF Handle, Erase
    <3> QED
      BY <2>1, <3>1 DEF Scanning, Behind, NoScan, SizeT, Stored
  <2>3. CASE v # None
    <3> DEFINE e == [key |-> k, val |-> v]
    <3>1. PICK K \in SUBSET Keys : batch[l] \in [K -> Values \cup {None}]
      BY DEF Types, TypeOK, Batches
    <3>2. k \in K
      BY <3>1 DEF Handle
    <3>3. e \in Element /\ unit' = Insert(unit, e)
      BY <2>3, <3>1, <3>2 DEF Handle, Element
    <3> HIDE DEF e
    <3>4. Stored(unit) \subseteq Stored(unit') /\ \A j \in Stored(unit) : unit'.map[j] = unit.map[j]
      BY <1>1, <3>3, PositionsStay
    <3>5. Behind' = Behind
      BY <2>1, <3>4 DEF Behind, Scanning
    <3> QED
      BY <2>1, <3>4, <3>5 DEF Scanning, NoScan, SizeT
  <2> QED
    BY <2>2, <2>3
<1> QED
  BY <1>2, <1>3

\* A page of the client: it goes on right behind what it was sent.
LEMMA RespondScans ==
  ASSUME Types, Slicing, Paging, Scanning, NEW w \in Workers, Respond(w)
  PROVE  Scanning'
<1> DEFINE n == scan.next
           p == page[w]
<1>1. /\ Consistent(unit) /\ scan \in Scans /\ p \in Seq(Element) /\ unit' = unit
      /\ IsFiniteSet(Behind) /\ Cardinality(Behind) \in Nat
  BY BehindIsFinite DEF Types, TypeOK, Respond
<1>2. CASE scan' = scan
  BY <1>1, <1>2 DEF Scanning, Behind, NoScan, SizeT, Stored
<1>3. CASE scan' = NoScan
  <2>1. Behind' = {}
    BY <1>3 DEF Behind, NoScan
  <2>2. 0 \in 0..SizeModulus - 1
    BY SizeAssumption, FS_CardinalityType
  <2> QED
    BY <1>3, <2>1, <2>2, FS_EmptySet DEF Scanning, NoScan, SizeT
<1>4. CASE scan' # scan /\ scan' # NoScan
  <2>1. /\ pc[w] = "respond" /\ req[w].scan /\ req[w].offset = n /\ p # << >>
        /\ scan' = [next |-> n + Len(p), start |-> IF n = 0 THEN KeysOf(unit.list) ELSE scan.start,
                    got |-> scan.got \cup KeysOf(p), erases |-> scan.erases]
    BY <1>4 DEF Respond
  <2>2. /\ Len(p) \in Nat \ {0} /\ n \in Nat /\ n < SizeModulus /\ SizeModulus \in Nat
        /\ Size(unit) \in 0..SizeModulus - 1
    <3>1. Size(unit) \in 0..SizeModulus - 1
      BY <1>1, SizeFits
    <3> QED
      BY <1>1, <2>1, <3>1, SizeAssumption DEF Scans, Scanning
  <2>3. offset[w] = n /\ count[w] = SizeT(PageSize)
    <3>1. req[w].op = "GETALL"
      BY <2>1 DEF Slicing
    <3>2. offset[w] = SizeT(n) /\ count[w] = SizeT(PageSize)
      BY <2>1, <3>1 DEF Paging
    <3>3. n % SizeModulus = n
      BY <2>2
    <3> QED
      BY <3>2, <3>3 DEF SizeT
  <2>4. /\ Len(p) <= SizeT(PageSize) /\ n + Len(p) <= Size(unit)
        /\ \A i \in 1..Len(p) : p[i] = unit.list[n + i]
    BY <2>1, <2>3 DEF Slicing, Sliced
  <2>5. n + Len(p) \in 0..SizeModulus - 1 /\ SizeT(PageSize) # 0
    <3>1. SizeT(PageSize) \in Nat
      BY SizeTFits, ArgsAssumption
    <3> QED
      BY <2>2, <2>4, <3>1
  <2>6. /\ KeysOf(unit.list) \subseteq Stored(unit)
        /\ \A k \in Stored(unit) : unit.map[k] \in 1..Size(unit) /\ unit.list[unit.map[k]].key = k
    <3>1. /\ \A k \in DOMAIN unit.map :
               unit.map[k] \in 1..Len(unit.list) /\ unit.list[unit.map[k]].key = k
          /\ \A i \in DOMAIN unit.list : unit.list[i].key \in DOMAIN unit.map
      BY <1>1 DEF Consistent, IsContainer
    <3>2. KeysOf(unit.list) \subseteq Stored(unit)
      BY <3>1 DEF KeysOf, Stored
    <3> QED
      BY <3>1, <3>2 DEF Stored, Size
  <2>7. scan'.start \subseteq Stored(unit)
    BY <2>1, <2>6 DEF Scanning
  <2>8. ASSUME NEW k \in Behind' PROVE n # 0 /\ k \in Behind
    <3>1. /\ k \in scan'.start /\ k \notin scan.got /\ k \notin KeysOf(p)
          /\ unit.map[k] <= n + Len(p)
      BY <1>1, <2>1 DEF Behind
    <3>2. unit.map[k] \in Int /\ unit.map[k] >= 1 /\ unit.list[unit.map[k]].key = k
      BY <2>2, <2>6, <2>7, <3>1
    <3>3. ~(unit.map[k] > n)
      <4> SUFFICES ASSUME unit.map[k] > n PROVE FALSE
        OBVIOUS
      <4> DEFINE i == unit.map[k] - n
      <4>1. i \in 1..Len(p) /\ n + i = unit.map[k]
        BY <2>2, <3>1, <3>2
      <4>2. p[i].key = k
        BY <2>4, <3>2, <4>1
      <4>3. i \in DOMAIN p
        BY <1>1, <4>1
      <4> QED
        BY <3>1, <4>2, <4>3 DEF KeysOf
    <3> QED
      BY <2>1, <2>2, <3>1, <3>2, <3>3 DEF Behind
  <2>9. Cardinality(Behind') <= scan.erases
    <3>1. CASE n = 0
      <4>1. Behind' = {} /\ scan.erases = 0
        BY <2>8, <3>1 DEF Scanning, NoScan
      <4> QED
        BY <4>1, FS_EmptySet
    <3>2. CASE n # 0
      <4>1. Behind' \in SUBSET Behind
        BY <2>8
      <4>2. Cardinality(Behind') <= Cardinality(Behind) /\ Cardinality(Behind') \in Nat
        BY <1>1, <4>1, FS_Subset, FS_CardinalityType
      <4> QED
        BY <1>1, <4>2 DEF Scanning, Scans
    <3> QED
      BY <3>1, <3>2
  <2> QED
    BY <1>1, <2>1, <2>2, <2>5, <2>7, <2>9 DEF Scanning, SizeT
<1> QED
  BY <1>2, <1>3, <1>4

LEMMA ScanningAlways == Spec => []Scanning
<1>1. Init => Scanning
  <2> SUFFICES ASSUME Init PROVE Scanning
    OBVIOUS
  <2>1. Behind = {}
    BY DEF Init, Behind, NoScan
  <2>2. 0 \in 0..SizeModulus - 1
    BY SizeAssumption, FS_CardinalityType
  <2> QED
    BY <2>1, <2>2, FS_EmptySet DEF Init, Scanning, NoScan
<1>2. Types /\ Slicing /\ Paging /\ Scanning /\ [Next]_vars => Scanning'
  <2> SUFFICES ASSUME Types, Slicing, Paging, Scanning, [Next]_vars PROVE Scanning'
    OBVIOUS
  <2>1. ASSUME UNCHANGED <<unit, scan>> PROVE Scanning'
    BY <2>1 DEF Scanning, Behind, NoScan, SizeT, Stored
  <2> QED
    BY <2>1, HandleScans, RespondScans
    DEF Next, Listen, Step, Refuse, Publish, Unregister, Take, Unlock, Admit, Acquire, Get,
        AddElement, EndPage, vars
<1> QED
  BY <1>1, <1>2, TypesAlways, SlicingAlways, PagingAlways, PTL DEF Spec

\* A client that pages through the collection while listeners change it misses at most one
\* of the elements that stayed for each one erased meanwhile, and none if none was
\* (Container.h:59, HsdsResource.h:353-390).
THEOREM ScansMissOnlyTheMoved == Spec => []ScanMissesOnlyMoved
<1>1. Types /\ Slicing /\ Paging /\ Scanning => ScanMissesOnlyMoved
  <2> SUFFICES ASSUME Types, Slicing, Paging, Scanning, NEW w \in Workers, Ending(w)
               PROVE  Cardinality(scan.start \ scan.got) <= scan.erases
    BY DEF ScanMissesOnlyMoved
  <2>1. /\ pc[w] = "respond" /\ req[w].scan /\ req[w].offset = scan.next
        /\ scan.next > 0 /\ page[w] = << >> /\ req[w].op = "GETALL" /\ ~More(w)
    BY DEF Ending, Slicing
  <2>2. /\ scan.next \in Nat /\ scan.next < SizeModulus /\ SizeModulus \in Nat
        /\ Size(unit) \in Nat /\ Consistent(unit)
    BY SizeAssumption, ContainerTypes DEF Scanning, Types, TypeOK
  <2>3. offset[w] = scan.next /\ count[w] # 0
    <3>1. offset[w] = SizeT(scan.next) /\ count[w] = SizeT(PageSize)
      BY <2>1 DEF Paging
    <3>2. scan.next % SizeModulus = scan.next
      BY <2>2
    <3> QED
      BY <2>1, <3>1, <3>2 DEF SizeT, Scanning
  <2>4. Size(unit) <= scan.next
    <3>1. ~(scan.next + 0 + 1 <= Size(unit) /\ 0 # count[w])
      BY <2>1, <2>3 DEF More, Position
    <3> QED
      BY <2>2, <2>3, <3>1
  <2>5. \A k \in scan.start : unit.map[k] \in 1..Size(unit)
    BY <2>2 DEF Scanning, Stored, Consistent, Size
  <2>6. scan.start \ scan.got = Behind
    BY <2>2, <2>4, <2>5 DEF Behind
  <2> QED
    BY <2>6 DEF Scanning
<1> QED
  BY <1>1, TypesAlways, SlicingAlways, PagingAlways, ScanningAlways, PTL

=============================================================================
