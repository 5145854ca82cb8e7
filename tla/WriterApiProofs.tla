--------------------------- MODULE WriterApiProofs ---------------------------
(***************************************************************************)
(* What an answer of the Writer says, for any keys and values, lists of any    *)
(* length and any number of failing calls: the topic shows what the container  *)
(* shows, a success was earned, a 500 has a cause, and the handlers implement  *)
(* the atomic API.  All of it holds of a Writer as it is built, with one        *)
(* handler thread, and of several threads as long as no client sends a          *)
(* collection PUT, which goes on without the lock.                            *)
(***************************************************************************)
EXTENDS WriterProofs

Alone == \A v, w \in Workers : v = w
NoRace == Alone \/ "PUTALL" \notin Ops

-----------------------------------------------------------------------------
(* The inductive invariant                                                   *)

\* v is what key k has after the first n elements of a list, if it had old before.
Gives(body, n, k, old, v) ==
  \/ v = old /\ \A i \in 1..n : body[i].key # k
  \/ \E i \in 1..n : /\ body[i].key = k /\ body[i].val = v
                     /\ \A j \in (i + 1)..n : body[j].key # k

\* The elements of its list a handler's loop has visited.
Read(w) == Len(req[w].body) - Len(todo[w])

\* What is still to visit is the rest of the list.
IsRest(rest, list) ==
  /\ Len(rest) <= Len(list)
  /\ \A i \in 1..Len(rest) : rest[i] = list[Len(list) - Len(rest) + i]

\* The first n elements have passed the checks; a collection PUT has gathered them.
Accepted(w, n) == \A i \in 1..n : createWriters /\ CheckInput(req[w].body[i])
Gathered(w, n) ==
  req[w].op = "PUTALL" =>
    \A k \in Keys : Gives(req[w].body, n, k, None, ValueOf(new[w], k))

\* What a handler knows of its request and its own variables.
Informed(w) ==
  /\ pc[w] = "idle" => new[w] = Empty
  /\ pc[w] # "idle" => req[w] \in Requests
  /\ pc[w] = "check" =>
       IsRest(todo[w], req[w].body) /\ Accepted(w, Read(w)) /\ Gathered(w, Read(w))
  /\ pc[w] \notin {"idle", "check"} => createWriters /\ Accepted(w, Len(req[w].body))
  /\ pc[w] \in {"lock", "body", "swap"} => Gathered(w, Len(req[w].body))
  /\ pc[w] \in {"load", "store"} => req[w].op \in Modifying

\* Where a handler under the lock stands with the container, against what it found.
ContainerSoFar(w) ==
  LET r == req[w]
      changing == r.op \in {"PUT", "POSTALL"}
      gives(n) == \A k \in Keys : Gives(r.body, n, k, before[w][k], ValueOf(unit, k))
  IN  /\ pc[w] = "body" /\ changing => IsRest(todo[w], r.body) /\ gives(Read(w))
      /\ (pc[w] = "body" /\ ~changing) \/ pc[w] = "swap" => before[w] = Content(unit)
      /\ pc[w] \in {"load", "store"} =>
           /\ changing => gives(Len(r.body))
           /\ r.op = "PUTALL" =>
                \A k \in Keys : Gives(r.body, Len(r.body), k, None, ValueOf(unit, k))
           /\ r.op = "DELETE" =>
                before[w][r.key] # None /\ Content(unit) = [before[w] EXCEPT ![r.key] = None]
           /\ r.op = "DELETEALL" => \A k \in Keys : ValueOf(unit, k) = None

\* The keys its merge has still to visit.
Ahead(w) == left[w].old \cup left[w].new

\* Where it stands with the topic, if no call of DDS has failed.
TopicSoFar(w) ==
  CASE pc[w] = "body" /\ req[w].op = "PUTALL" ->
         \A k \in Keys : instance[k] = IF k \in Ahead(w) THEN ValueOf(unit, k) ELSE ValueOf(new[w], k)
    [] pc[w] = "body" /\ req[w].op = "DELETEALL" ->
         \A k \in Keys : instance[k] =
           IF Has(unit, k) /\ unit.map[k] > Size(unit) - Len(todo[w]) THEN ValueOf(unit, k) ELSE None
    [] pc[w] = "swap" -> \A k \in Keys : instance[k] = ValueOf(new[w], k)
    [] OTHER -> Published

\* What its loop has still to visit under the lock.
VisitsRest(w) ==
  pc[w] = "body" =>
    /\ req[w].op = "PUTALL" =>
         /\ left[w].old \subseteq Stored(unit) /\ left[w].new \subseteq Stored(new[w])
         /\ \A k \in Stored(unit) \cap Stored(new[w]) : k \in left[w].old <=> k \in left[w].new
    /\ req[w].op = "DELETEALL" => IsRest(todo[w], unit.list)

Working(w) ==
  /\ ContainerSoFar(w) /\ VisitsRest(w)
  /\ faults = 0 => TopicSoFar(w)
  /\ pc[w] = "store" => reg[w] = transaction

OneBusy == \A v, w \in Workers : Busy(v) /\ Busy(w) => v = w

InStep ==
  /\ \A w \in Workers : Informed(w) /\ (Busy(w) => Working(w))
  /\ faults = 0 /\ (\A w \in Workers : ~Busy(w)) => Published

\* With one thread: how many elements a collection GET takes, and what the last one
\* has shown.
Shown(store) == {e \in Element : store[e.key] = e.val}
SeenInStep ==
  /\ \A w \in Workers : pc[w] \in {"lock", "body"} /\ req[w].op = "GETALL" => reg[w] = Size(unit)
  /\ seen.transaction <= transaction
  /\ seen.transaction = transaction /\ faults = 0 => seen.content = Shown(ApiStore)

-----------------------------------------------------------------------------
(* Lists, and what they leave behind                                         *)

\* A loop that takes the head of what is left goes through the list in order.
LEMMA RestGoesOn ==
  ASSUME NEW list \in Seq(Element), NEW rest \in Seq(Element), IsRest(rest, list), rest # << >>
  PROVE  LET n == Len(list) - Len(rest)
         IN  /\ n \in Nat /\ n < Len(list) /\ Head(rest) = list[n + 1] /\ Head(rest) \in Element
             /\ Tail(rest) \in Seq(Element) /\ Len(list) - Len(Tail(rest)) = n + 1
             /\ IsRest(Tail(rest), list)
<1> DEFINE n == Len(list) - Len(rest)
<1>1. /\ Len(list) \in Nat /\ Len(rest) \in Nat \ {0} /\ Len(rest) <= Len(list)
      /\ Head(rest) = rest[1] /\ rest[1] \in Element
      /\ Tail(rest) \in Seq(Element) /\ Len(Tail(rest)) = Len(rest) - 1
      /\ \A i \in 1..(Len(rest) - 1) : Tail(rest)[i] = rest[i + 1]
  BY DEF IsRest
<1>2. n \in Nat /\ n < Len(list) /\ Len(list) - Len(Tail(rest)) = n + 1
  BY <1>1
<1>3. Head(rest) = list[n + 1]
  BY <1>1 DEF IsRest
<1>4. ASSUME NEW i \in 1..Len(Tail(rest)) PROVE Tail(rest)[i] = list[Len(list) - Len(Tail(rest)) + i]
  <2>1. /\ i + 1 \in 1..Len(rest) /\ i \in 1..(Len(rest) - 1)
        /\ Len(list) - Len(Tail(rest)) + i = Len(list) - Len(rest) + (i + 1)
    BY <1>1
  <2> QED
    BY <2>1, <1>1 DEF IsRest
<1>5. IsRest(Tail(rest), list)
  BY <1>1, <1>4 DEF IsRest
<1> QED
  BY <1>1, <1>2, <1>3, <1>5

\* It begins with all of the list.
LEMMA RestBegins ==
  ASSUME NEW list \in Seq(Element)
  PROVE  IsRest(list, list) /\ Len(list) - Len(list) = 0
<1>1. Len(list) \in Nat
  OBVIOUS
<1>2. Len(list) - Len(list) = 0
  BY <1>1
<1>3. \A i \in 1..Len(list) : Len(list) - Len(list) + i = i
  BY <1>1
<1> QED
  BY <1>1, <1>2, <1>3 DEF IsRest

\* One more element of a list.
LEMMA GivesNext ==
  ASSUME NEW body \in Seq(Element), NEW n \in Nat, n < Len(body), NEW k, NEW old, NEW v,
         Gives(body, n, k, old, v)
  PROVE  Gives(body, n + 1, k, old, IF k = body[n + 1].key THEN body[n + 1].val ELSE v)
<1>1. CASE k = body[n + 1].key
  <2>1. n + 1 \in 1..(n + 1) /\ ((n + 1) + 1)..(n + 1) = {}
    OBVIOUS
  <2> QED
    BY <1>1, <2>1 DEF Gives
<1>2. CASE k # body[n + 1].key
  <2>1. \A i \in 1..(n + 1) : i \in 1..n \/ i = n + 1
    OBVIOUS
  <2>2. CASE v = old /\ \A i \in 1..n : body[i].key # k
    BY <1>2, <2>1, <2>2 DEF Gives
  <2>3. CASE \E i \in 1..n : /\ body[i].key = k /\ body[i].val = v
                            /\ \A j \in (i + 1)..n : body[j].key # k
    <3>1. PICK i \in 1..n : /\ body[i].key = k /\ body[i].val = v
                           /\ \A j \in (i + 1)..n : body[j].key # k
      BY <2>3
    <3>2. i \in 1..(n + 1) /\ \A j \in (i + 1)..(n + 1) : j \in (i + 1)..n \/ j = n + 1
      OBVIOUS
    <3>3. \A j \in (i + 1)..(n + 1) : body[j].key # k
      BY <1>2, <3>1, <3>2
    <3> QED
      BY <1>2, <3>1, <3>2, <3>3 DEF Gives
  <2> QED
    BY <2>2, <2>3 DEF Gives
<1> QED
  BY <1>1, <1>2

\* What the whole list gives is the value of the last element with the key; the
\* property and the API say it in the same way.
LEMMA GivesLast ==
  ASSUME NEW body \in Seq(Element), NEW k, NEW old, NEW v, Gives(body, Len(body), k, old, v)
  PROVE  \/ LastOf(body, k) = None /\ v = old /\ k \notin Api!Named(body)
         \/ /\ LastOf(body, k) = v /\ v \in Values
            /\ k \in Api!Named(body) /\ Api!LastOf(body, k) = v
<1> DEFINE n == Len(body)
           hits == {i \in DOMAIN body : body[i].key = k}
<1>1. n \in Nat /\ DOMAIN body = 1..n /\ \A i \in 1..n : body[i] \in Element
  OBVIOUS
<1>2. CASE v = old /\ \A i \in 1..n : body[i].key # k
  <2>1. hits = {}
    BY <1>1, <1>2
  <2> QED
    BY <1>1, <1>2, <2>1 DEF LastOf, Api!Named
<1>3. CASE \E i \in 1..n : /\ body[i].key = k /\ body[i].val = v
                          /\ \A j \in (i + 1)..n : body[j].key # k
  <2>1. PICK i \in 1..n : /\ body[i].key = k /\ body[i].val = v
                         /\ \A j \in (i + 1)..n : body[j].key # k
    BY <1>3
  <2>2. i \in hits /\ i \in Int /\ hits \subseteq Int
    BY <1>1, <2>1
  <2>3. \A j \in hits : j <= i
    BY <1>1, <2>1
  <2> HIDE DEF hits
  <2>4. (CHOOSE m \in hits : \A j \in hits : j <= m) = i
    <3>1. \A m \in hits : (\A j \in hits : j <= m) => m = i
      BY <2>2, <2>3
    <3> QED
      BY <2>2, <2>3, <3>1
  <2>5. (CHOOSE m \in hits : \A j \in hits : m >= j) = i
    <3>1. \A m \in hits : (\A j \in hits : m >= j) => m = i
      BY <2>2, <2>3
    <3>2. \A j \in hits : i >= j
      BY <2>2, <2>3
    <3> QED
      BY <2>2, <3>1, <3>2
  <2>6. LastOf(body, k) = v
    BY <2>1, <2>2, <2>4 DEF LastOf, hits
  <2>7. Api!LastOf(body, k) = v
    BY <2>1, <2>5 DEF Api!LastOf, Api!Max, hits
  <2>8. v \in Values
    BY <1>1, <2>1 DEF Element
  <2> QED
    BY <1>1, <2>1, <2>6, <2>7, <2>8 DEF Api!Named
<1> QED
  BY <1>2, <1>3 DEF Gives

\* What a part of the list gives is the old value or one the list asked for.
LEMMA GivesAsked ==
  ASSUME NEW body \in Seq(Element), NEW n \in 0..Len(body), NEW k, NEW old, NEW v,
         Gives(body, n, k, old, v)
  PROVE  v \in {old} \cup Api!Asked(body, k)
<1>1. \A i \in 1..n : i \in DOMAIN body
  OBVIOUS
<1> QED
  BY <1>1 DEF Gives, Api!Asked

-----------------------------------------------------------------------------
(* Containers                                                                *)

\* insert, erase and find, key by key.
LEMMA ContainerValues ==
  ASSUME NEW c, Consistent(c)
  PROVE  /\ \A k \in Keys : ValueOf(c, k) \in Values \cup {None}
         /\ \A k \in Keys : Has(c, k) <=> ValueOf(c, k) # None
         /\ \A e \in Element, k \in Keys :
               ValueOf(Insert(c, e), k) = IF k = e.key THEN e.val ELSE ValueOf(c, k)
         /\ \A e \in Element : Unchanged(c, e) => ValueOf(c, e.key) = e.val
<1>1. \A k \in Keys : Has(c, k) => ValueOf(c, k) \in Values
  BY FindTypes DEF ValueOf, Element
<1>2. \A e \in Element, k \in Keys :
        ValueOf(Insert(c, e), k) = IF k = e.key THEN e.val ELSE ValueOf(c, k)
  <2> SUFFICES ASSUME NEW e \in Element, NEW k \in Keys
               PROVE  ValueOf(Insert(c, e), k) = IF k = e.key THEN e.val ELSE ValueOf(c, k)
    OBVIOUS
  <2>1. Content(Insert(c, e))[k] = [Content(c) EXCEPT ![e.key] = e.val][k]
    BY InsertContent
  <2> QED
    BY <2>1 DEF Content
<1>3. \A e \in Element : Unchanged(c, e) => ValueOf(c, e.key) = e.val
  BY DEF Unchanged, ValueOf
<1> QED
  BY <1>1, <1>2, <1>3, NoneAssumption DEF ValueOf

\* The elements in the list are the content.
LEMMA ListIsContent ==
  ASSUME NEW c, Consistent(c)
  PROVE  {c.list[i] : i \in 1..Size(c)} = Shown(Content(c))
<1>1. ASSUME NEW i \in 1..Size(c) PROVE c.list[i] \in Shown(Content(c))
  <2>1. c.list[i] \in Element /\ c.list[i].key \in DOMAIN c.map /\ c.map[c.list[i].key] = i
    BY DEF Consistent, IsContainer, Size
  <2> QED
    BY <2>1 DEF Shown, Content, ValueOf, Has, Find, Element
<1>2. ASSUME NEW e \in Shown(Content(c)) PROVE \E i \in 1..Size(c) : c.list[i] = e
  <2>1. e \in Element /\ e.key \in Keys /\ ValueOf(c, e.key) = e.val /\ e.val # None
    BY NoneAssumption DEF Shown, Content, Element
  <2>2. Has(c, e.key)
    BY <2>1 DEF ValueOf
  <2>3. Find(c, e.key) \in Element /\ Find(c, e.key).key = e.key /\ Find(c, e.key).val = e.val
    BY <2>1, <2>2, FindTypes DEF ValueOf
  <2>4. Find(c, e.key) = e
    BY <2>1, <2>3 DEF Element
  <2>5. c.map[e.key] \in 1..Size(c)
    BY <2>2 DEF Consistent, Has, Size
  <2> QED
    BY <2>4, <2>5 DEF Find
<1> QED
  BY <1>1, <1>2

-----------------------------------------------------------------------------
(* Steps                                                                     *)

\* What is known of a handler that has a request.
LEMMA RequestFacts ==
  ASSUME TypeOK, InStep, NEW w \in Workers, pc[w] # "idle"
  PROVE  /\ req[w] \in Requests /\ req[w].op \in AllOps /\ req[w].key \in Keys
         /\ req[w].body \in Seq(Element)
  BY OpsAssumption, RequestsAreTyped DEF InStep, Informed, Request

\* At most one handler is at work.
LEMMA OneIsBusy ==
  ASSUME NoRace, TypeOK, MutualExclusion, OnlyPutSwaps
  PROVE  OneBusy
<1>1. CASE Alone
  BY <1>1 DEF Alone, OneBusy
<1>2. CASE "PUTALL" \notin Ops
  <2>1. \A w \in Workers : req[w].op # "PUTALL"
    BY <1>2 DEF TypeOK, Request, NoRequest
  <2>2. \A w \in Workers : Busy(w) => mutex = w
    BY <2>1 DEF OnlyPutSwaps, MutualExclusion, Guarded, Busy
  <2> QED
    BY <2>2 DEF OneBusy
<1> QED
  BY <1>1, <1>2 DEF NoRace

OthersStay(w) ==
  \A v \in Workers \ {w} :
    /\ pc'[v] = pc[v] /\ req'[v] = req[v] /\ new'[v] = new[v] /\ todo'[v] = todo[v]
    /\ left'[v] = left[v] /\ reg'[v] = reg[v] /\ before'[v] = before[v]

\* A step of one handler: what is to be shown of it, and of nobody else.
LEMMA OneSteps ==
  ASSUME InStep, NEW w \in Workers, OthersStay(w), UNCHANGED createWriters,
         (\A v \in Workers \ {w} : ~Busy(v)) \/ UNCHANGED shared,
         Informed(w)', Busy(w)' => Working(w)',
         faults' = 0 /\ (\A v \in Workers : ~Busy(v)') => Published'
  PROVE  InStep'
<1>1. ASSUME NEW v \in Workers \ {w} PROVE Informed(v)'
  <2>1. /\ pc'[v] = pc[v] /\ req'[v] = req[v] /\ new'[v] = new[v] /\ todo'[v] = todo[v]
        /\ UNCHANGED createWriters /\ Informed(v)
    BY DEF InStep, OthersStay
  <2>2. \A n : Accepted(v, n)' = Accepted(v, n) /\ Gathered(v, n)' = Gathered(v, n)
    BY <2>1 DEF Accepted, Gathered, CheckInput, CheckCommon
  <2>3. Read(v)' = Read(v)
    BY <2>1 DEF Read
  <2> QED
    BY <2>1, <2>2, <2>3 DEF Informed
<1>2. ASSUME NEW v \in Workers \ {w}, Busy(v)' PROVE Working(v)'
  <2>1. Busy(v)
    BY <1>2 DEF Busy, OthersStay
  <2>2. UNCHANGED <<unit, instance, transaction, faults>> /\ Working(v)
    BY <2>1 DEF InStep, shared
  <2>3. /\ pc'[v] = pc[v] /\ req'[v] = req[v] /\ new'[v] = new[v] /\ todo'[v] = todo[v]
        /\ left'[v] = left[v] /\ reg'[v] = reg[v] /\ before'[v] = before[v]
    BY DEF OthersStay
  <2>4. ContainerSoFar(v)' /\ VisitsRest(v)'
    BY <2>2, <2>3 DEF Working, ContainerSoFar, VisitsRest, Read
  <2>5. TopicSoFar(v) = TopicSoFar(v)'
    BY <2>2, <2>3 DEF TopicSoFar, Published, Ahead
  <2> QED
    BY <2>2, <2>3, <2>4, <2>5 DEF Working
<1> QED
  BY <1>1, <1>2 DEF InStep

\* A handler that returns.
LEMMA ReturnsInStep ==
  ASSUME TypeOK, InStep, NEW w \in Workers, Return(w), UNCHANGED createWriters,
         (\A v \in Workers \ {w} : ~Busy(v)) \/ UNCHANGED shared,
         faults' = 0 => Published'
  PROVE  InStep'
<1>1. OthersStay(w) /\ pc'[w] = "idle" /\ new'[w] = Empty
  BY DEF TypeOK, OthersStay, Return, Forget, Goto
<1>2. Informed(w)' /\ ~Busy(w)'
  BY <1>1 DEF Informed, Busy
<1> QED
  BY <1>1, <1>2, OneSteps

\* A handler that has not come to its work leaves everything as it is.
LEMMA QuietInStep ==
  ASSUME TypeOK, InStep, NEW w \in Workers, ~Busy(w), UNCHANGED <<createWriters, shared>>,
         OthersStay(w), ~Busy(w)', Informed(w)'
  PROVE  InStep'
<1>1. ASSUME faults' = 0, \A v \in Workers : ~Busy(v)' PROVE Published'
  <2>1. \A v \in Workers : ~Busy(v)
    BY <1>1 DEF Busy, OthersStay
  <2> QED
    BY <1>1, <2>1 DEF InStep, Published, shared
<1> QED
  BY <1>1, OneSteps

LEMMA ChecksInStep ==
  ASSUME TypeOK, InStep, NEW w \in Workers,
         Receive(w) \/ Refuse(w) \/ RefuseElement(w) \/ AcceptElement(w) \/ Checked(w)
  PROVE  InStep'
<1> USE DEF TypeOK, Goto, local
<1>1. CASE Receive(w)
  <2>1. PICK r \in Requests : req' = [req EXCEPT ![w] = r] /\ todo' = [todo EXCEPT ![w] = r.body]
    BY <1>1 DEF Receive
  <2>2. r.body \in Seq(Element) /\ IsRest(r.body, r.body) /\ Len(r.body) - Len(r.body) = 0
    BY RequestsAreTyped, RestBegins DEF Request
  <2>3. /\ pc[w] = "idle" /\ new[w] = Empty /\ pc'[w] = "check" /\ new' = new
        /\ req'[w] = r /\ todo'[w] = r.body
    BY <1>1, <2>1 DEF Receive, InStep, Informed
  <2>4. Accepted(w, 0)' /\ Gathered(w, 0)'
    <3>1. \A k \in Keys : ValueOf(new'[w], k) = None
      BY <2>3 DEF ValueOf, Has, Empty
    <3> QED
      BY <3>1 DEF Accepted, Gathered, Gives
  <2>5. Informed(w)'
    BY <2>2, <2>3, <2>4 DEF Informed, Read
  <2>6. OthersStay(w) /\ UNCHANGED <<createWriters, shared>>
    BY <1>1, <2>1 DEF Receive, OthersStay
  <2> HIDE DEF TypeOK
  <2> QED
    BY <2>3, <2>5, <2>6, QuietInStep DEF Busy
<1>2. CASE Refuse(w) \/ RefuseElement(w)
  <2>1. Return(w) /\ UNCHANGED <<createWriters, shared>> /\ pc[w] = "check"
    BY <1>2 DEF Refuse, RefuseElement
  <2>2. OthersStay(w) /\ pc'[w] = "idle" /\ new'[w] = Empty
    BY <2>1 DEF OthersStay, Return, Forget
  <2>3. Informed(w)'
    BY <2>2 DEF Informed
  <2> HIDE DEF TypeOK
  <2> QED
    BY <2>1, <2>2, <2>3, QuietInStep DEF Busy
<1>3. CASE AcceptElement(w)
  <2> DEFINE body == req[w].body
             n == Read(w)
             e == Head(todo[w])
  <2>1. /\ pc[w] = "check" /\ pc' = pc /\ req' = req /\ todo'[w] = Tail(todo[w])
        /\ todo[w] # << >> /\ createWriters /\ CheckInput(e)
        /\ UNCHANGED <<createWriters, shared>> /\ OthersStay(w)
        /\ new'[w] = IF req[w].op = "PUTALL" THEN Insert(new[w], e) ELSE new[w]
    BY <1>3 DEF AcceptElement, Authorized, OthersStay
  <2>2. /\ req[w] \in Requests /\ body \in Seq(Element)
        /\ IsRest(todo[w], body) /\ Accepted(w, n) /\ Gathered(w, n)
    BY <2>1, RequestFacts DEF InStep, Informed
  <2>3. /\ n \in Nat /\ n < Len(body) /\ e = body[n + 1] /\ e \in Element
        /\ IsRest(Tail(todo[w]), body) /\ Len(body) - Len(Tail(todo[w])) = n + 1
    BY <2>1, <2>2, RestGoesOn DEF Read
  <2>4. Read(w)' = n + 1 /\ IsRest(todo'[w], req'[w].body)
    BY <2>1, <2>3 DEF Read
  <2> HIDE DEF n, e
  <2>5. Accepted(w, Read(w))'
    <3>1. \A i \in 1..(n + 1) : i \in 1..n \/ i = n + 1
      BY <2>3
    <3>2. \A i \in 1..(n + 1) : CheckInput(body[i])
      BY <2>1, <2>2, <2>3, <3>1 DEF Accepted
    <3> QED
      BY <2>1, <2>4, <3>2 DEF Accepted, CheckInput, CheckCommon
  <2>6. Gathered(w, Read(w))'
    <3> SUFFICES ASSUME req[w].op = "PUTALL", NEW k \in Keys
                 PROVE  Gives(body, n + 1, k, None, ValueOf(new'[w], k))
      BY <2>1, <2>4 DEF Gathered
    <3>1. Gives(body, n, k, None, ValueOf(new[w], k))
      BY <2>2 DEF Gathered
    <3>2. ValueOf(new'[w], k) = IF k = e.key THEN e.val ELSE ValueOf(new[w], k)
      BY <2>1, <2>3, ContainerValues
    <3> QED
      BY <2>2, <2>3, <3>1, <3>2, GivesNext
  <2>7. Informed(w)'
    BY <2>1, <2>2, <2>4, <2>5, <2>6 DEF Informed
  <2> HIDE DEF TypeOK
  <2> QED
    BY <2>1, <2>7, QuietInStep DEF Busy
<1>4. CASE Checked(w)
  <2>1. /\ pc[w] = "check" /\ todo[w] = << >> /\ createWriters /\ pc'[w] = "lock"
        /\ UNCHANGED <<createWriters, shared, req, new, todo>> /\ OthersStay(w)
    BY <1>4 DEF Checked, Authorized, OthersStay
  <2>2. req[w] \in Requests /\ Accepted(w, Read(w)) /\ Gathered(w, Read(w))
    BY <2>1 DEF InStep, Informed
  <2>3. Read(w) = Len(req[w].body)
    BY <2>1, RequestFacts DEF Read
  <2>4. Accepted(w, Len(req[w].body))' /\ Gathered(w, Len(req[w].body))'
    BY <2>1, <2>2, <2>3 DEF Accepted, Gathered, CheckInput, CheckCommon
  <2>5. Informed(w)'
    BY <2>1, <2>2, <2>4 DEF Informed
  <2> HIDE DEF TypeOK
  <2> QED
    BY <2>1, <2>5, QuietInStep DEF Busy
<1> QED
  BY <1>1, <1>2, <1>3, <1>4

\* A handler that has been checked goes on knowing its request.
LEMMA StaysInformed ==
  ASSUME InStep, NEW w \in Workers, pc[w] \notin {"idle", "check"}, Busy(w)',
         UNCHANGED <<createWriters, req>>,
         pc'[w] \in {"body", "swap"} => pc[w] \in {"lock", "body", "swap"} /\ new'[w] = new[w],
         pc'[w] \in {"load", "store"} => req[w].op \in Modifying
  PROVE  Informed(w)'
<1>1. /\ req[w] \in Requests /\ createWriters /\ Accepted(w, Len(req[w].body))
      /\ pc'[w] \in {"body", "swap"} => Gathered(w, Len(req[w].body))
  BY DEF InStep, Informed
<1>2. Accepted(w, Len(req[w].body))'
  BY <1>1 DEF Accepted, CheckInput, CheckCommon
<1>3. pc'[w] \in {"body", "swap"} => Gathered(w, Len(req[w].body))'
  BY <1>1 DEF Gathered
<1> QED
  BY <1>1, <1>2, <1>3 DEF Informed, Busy

LEMMA AcquireInStep ==
  ASSUME TypeOK, InStep, OneBusy', NEW w \in Workers, Acquire(w)
  PROVE  InStep'
<1> DEFINE r == req[w]
<1>1. /\ pc[w] = "lock" /\ pc'[w] = "body" /\ OthersStay(w)
      /\ UNCHANGED <<createWriters, shared, req, new>>
      /\ before'[w] = Content(unit) /\ todo'[w] = ToVisit(w) /\ left'[w] = KeysToMerge(w)
  BY DEF TypeOK, Acquire, Goto, OthersStay
<1>2. \A v \in Workers : ~Busy(v)
  BY <1>1 DEF OneBusy, Busy, OthersStay
<1>3. Informed(w)' /\ Busy(w)'
  BY <1>1, StaysInformed DEF Busy
<1>4. createWriters /\ r.body \in Seq(Element) /\ faults = 0 => createWriters /\ Published
  BY <1>1, <1>2 DEF InStep, Informed
<1>5. createWriters /\ r.body \in Seq(Element)
  BY <1>1, RequestFacts DEF InStep, Informed
<1>6. Consistent(unit) /\ IsRest(unit.list, unit.list) /\ Len(unit.list) - Len(unit.list) = 0
      /\ IsRest(r.body, r.body) /\ Len(r.body) - Len(r.body) = 0
  BY <1>5, RestBegins, ContainerTypes DEF TypeOK
<1>7. ContainerSoFar(w)'
  <2>1. CASE r.op \in {"PUT", "POSTALL"}
    <3>1. todo'[w] = r.body
      BY <1>1, <2>1 DEF ToVisit
    <3>2. \A k \in Keys : before'[w][k] = ValueOf(unit', k)
      BY <1>1 DEF Content, shared
    <3>3. Read(w)' = 0 /\ 1..0 = {}
      BY <1>1, <1>6, <3>1 DEF Read
    <3>4. \A k \in Keys : Gives(r.body, 0, k, before'[w][k], ValueOf(unit', k))
      BY <3>2, <3>3 DEF Gives
    <3> QED
      BY <1>1, <1>6, <2>1, <3>1, <3>3, <3>4 DEF ContainerSoFar
  <2>2. CASE r.op \notin {"PUT", "POSTALL"}
    BY <1>1, <2>2 DEF ContainerSoFar, shared
  <2> QED
    BY <2>1, <2>2
<1>8. VisitsRest(w)'
  BY <1>1, <1>5, <1>6 DEF VisitsRest, ToVisit, KeysToMerge, shared
<1>9. ASSUME faults' = 0 PROVE TopicSoFar(w)'
  <2>1. Published /\ UNCHANGED <<unit, instance>>
    BY <1>1, <1>2, <1>9 DEF InStep, shared
  <2>2. CASE r.op = "PUTALL"
    <3>1. \A k \in Keys : k \notin Ahead(w)' => ValueOf(unit, k) = None /\ ValueOf(new[w], k) = None
      BY <1>1, <2>2 DEF KeysToMerge, Ahead, Stored, ValueOf, Has
    <3> QED
      BY <1>1, <2>1, <2>2, <3>1 DEF TopicSoFar, Published
  <2>3. CASE r.op = "DELETEALL"
    <3>1. todo'[w] = unit.list
      BY <1>1, <1>5, <2>3 DEF ToVisit
    <3>2. Size(unit) - Len(todo'[w]) = 0
      BY <1>6, <3>1 DEF Size
    <3>3. \A k \in Keys : Has(unit, k) => unit.map[k] > 0
      BY <1>6 DEF Consistent, IsContainer, Has
    <3>4. \A k \in Keys : ~Has(unit, k) => ValueOf(unit, k) = None
      BY DEF ValueOf
    <3> QED
      BY <1>1, <2>1, <2>3, <3>2, <3>3, <3>4 DEF TopicSoFar, Published
  <2>4. CASE r.op \notin {"PUTALL", "DELETEALL"}
    BY <1>1, <2>1, <2>4 DEF TopicSoFar, Published
  <2> QED
    BY <2>2, <2>3, <2>4
<1>10. Working(w)'
  BY <1>1, <1>7, <1>8, <1>9 DEF Working
<1> QED
  BY <1>1, <1>2, <1>3, <1>10, OneSteps

-----------------------------------------------------------------------------
(* Under the lock                                                            *)

\* What holds of a handler at work.
LEMMA AtWork ==
  ASSUME TypeOK, InStep, OneBusy, NEW w \in Workers, Busy(w)
  PROVE  /\ \A v \in Workers \ {w} : ~Busy(v)
         /\ createWriters /\ Working(w) /\ Accepted(w, Len(req[w].body))
         /\ req[w] \in Requests /\ req[w].op \in AllOps /\ req[w].key \in Keys
         /\ req[w].body \in Seq(Element)
<1>1. pc[w] \notin {"idle", "check"}
  BY DEF Busy
<1> QED
  BY <1>1, RequestFacts DEF InStep, Informed, OneBusy

\* A step of a handler that stays at work.
LEMMA WorkGoesOn ==
  ASSUME TypeOK, InStep, OneBusy, NEW w \in Workers, Busy(w), Busy(w)', OthersStay(w),
         UNCHANGED <<createWriters, req>>,
         pc'[w] \in {"body", "swap"} => pc[w] \in {"body", "swap"} /\ new'[w] = new[w],
         pc'[w] \in {"load", "store"} => req[w].op \in Modifying,
         Working(w)'
  PROVE  InStep'
<1>1. Informed(w)'
  BY StaysInformed DEF Busy
<1> QED
  BY <1>1, AtWork, OneSteps

LEMMA UpsertInStep ==
  ASSUME TypeOK, InStep, OneBusy, NEW w \in Workers,
         SkipUnchanged(w) \/ InsertAndWrite(w) \/ UpsertDone(w)
  PROVE  InStep'
<1> DEFINE body == req[w].body
           e == Head(todo[w])
<1>1. /\ pc[w] = "body" /\ req[w].op \in {"PUT", "POSTALL"} /\ Busy(w)
      /\ OthersStay(w) /\ UNCHANGED <<createWriters, req, new, before, transaction>>
  BY DEF TypeOK, SkipUnchanged, InsertAndWrite, UpsertDone, Upserting, Busy, OthersStay, Goto,
         local, shared
<1>2. /\ createWriters /\ body \in Seq(Element) /\ Consistent(unit) /\ Working(w)
      /\ todo[w] \in Seq(Element) /\ IsRest(todo[w], body)
      /\ \A k \in Keys : Gives(body, Read(w), k, before[w][k], ValueOf(unit, k))
      /\ faults = 0 => Published
  BY <1>1, AtWork DEF TypeOK, Working, ContainerSoFar, TopicSoFar
<1>3. CASE UpsertDone(w)
  <2>1. pc'[w] = "load" /\ todo[w] = << >> /\ UNCHANGED <<unit, instance, faults>>
    BY <1>3 DEF TypeOK, UpsertDone, Goto, shared
  <2>2. Read(w) = Len(body)
    BY <1>2, <2>1 DEF Read
  <2>3. ContainerSoFar(w)' /\ VisitsRest(w)'
    BY <1>1, <1>2, <2>1, <2>2 DEF ContainerSoFar, VisitsRest
  <2>4. faults' = 0 => TopicSoFar(w)'
    BY <1>2, <2>1 DEF TopicSoFar, Published
  <2>5. Working(w)'
    BY <2>1, <2>3, <2>4 DEF Working
  <2> QED
    BY <1>1, <2>1, <2>5, WorkGoesOn DEF Busy, Modifying, AllOps
<1>4. CASE SkipUnchanged(w) \/ InsertAndWrite(w)
  <2>1. pc'[w] = "body" /\ todo[w] # << >> /\ todo'[w] = Tail(todo[w])
    BY <1>1, <1>4 DEF TypeOK, SkipUnchanged, InsertAndWrite
  <2>2. /\ Read(w) \in Nat /\ Read(w) < Len(body) /\ e = body[Read(w) + 1] /\ e \in Element
        /\ IsRest(Tail(todo[w]), body) /\ Len(body) - Len(Tail(todo[w])) = Read(w) + 1
    BY <1>2, <2>1, RestGoesOn DEF Read
  <2>3. Read(w)' = Read(w) + 1
    BY <1>1, <2>1, <2>2 DEF Read
  <2>4. \A k \in Keys : ValueOf(unit', k) = IF k = e.key THEN e.val ELSE ValueOf(unit, k)
    <3>1. CASE SkipUnchanged(w)
      BY <1>2, <2>2, <3>1, ContainerValues DEF SkipUnchanged, shared
    <3>2. CASE InsertAndWrite(w)
      BY <1>2, <2>2, <3>2, ContainerValues DEF InsertAndWrite
    <3> QED
      BY <1>4, <3>1, <3>2
  <2>5. ASSUME NEW k \in Keys
        PROVE  Gives(body, Read(w) + 1, k, before[w][k], ValueOf(unit', k))
    <3>1. Gives(body, Read(w), k, before[w][k], ValueOf(unit, k))
      BY <1>2
    <3> QED
      BY <1>2, <2>2, <2>4, <3>1, GivesNext
  <2>6. ContainerSoFar(w)' /\ VisitsRest(w)'
    BY <1>1, <2>1, <2>2, <2>3, <2>5 DEF ContainerSoFar, VisitsRest
  <2>7. ASSUME faults' = 0 PROVE Published'
    <3>1. CASE SkipUnchanged(w)
      BY <1>2, <2>7, <3>1 DEF SkipUnchanged, shared, Published
    <3>2. CASE InsertAndWrite(w)
      <4>1. faults = 0 /\ instance' = [instance EXCEPT ![e.key] = e.val]
        BY <1>2, <2>7, <3>2 DEF InsertAndWrite, Written
      <4> QED
        BY <1>2, <2>4, <4>1 DEF TypeOK, Published
    <3> QED
      BY <1>4, <3>1, <3>2
  <2>8. faults' = 0 => TopicSoFar(w)'
    BY <1>1, <2>1, <2>7 DEF TopicSoFar
  <2>9. Working(w)'
    BY <2>1, <2>6, <2>8 DEF Working
  <2> QED
    BY <1>1, <2>1, <2>9, WorkGoesOn DEF Busy
<1> QED
  BY <1>3, <1>4

LEMMA DeleteInStep ==
  ASSUME TypeOK, InStep, OneBusy, NEW w \in Workers, UnregisterAndErase(w)
  PROVE  InStep'
<1> DEFINE key == req[w].key
<1>1. /\ pc[w] = "body" /\ pc'[w] = "load" /\ req[w].op = "DELETE" /\ Busy(w)
      /\ OthersStay(w) /\ UNCHANGED <<createWriters, req, new, before, todo, left, transaction>>
      /\ unit' = Erase(unit, key) /\ Has(unit, key)
  BY DEF TypeOK, UnregisterAndErase, Deleting, Busy, OthersStay, Goto, local
<1>2. createWriters /\ key \in Keys /\ Consistent(unit) /\ before[w] = Content(unit)
  BY <1>1, AtWork DEF TypeOK, Working, ContainerSoFar
<1>3. before[w][key] # None
  BY <1>1, <1>2, ContainerValues DEF Content
<1>4. Content(unit') = [Content(unit) EXCEPT ![key] = None]
  BY <1>1, <1>2, EraseContent
<1>5. ContainerSoFar(w)' /\ VisitsRest(w)'
  BY <1>1, <1>2, <1>3, <1>4 DEF ContainerSoFar, VisitsRest
<1>6. ASSUME faults' = 0 PROVE Published'
  <2>1. faults = 0 /\ instance' = [instance EXCEPT ![key] = None]
    BY <1>2, <1>6 DEF UnregisterAndErase, Unregistered
  <2>2. Published
    BY <1>1, <2>1, AtWork DEF Working, TopicSoFar
  <2>3. \A k \in Keys : Content(unit')[k] = IF k = key THEN None ELSE Content(unit)[k]
    BY <1>2, <1>4, ContainerTypes
  <2>4. \A k \in Keys : ValueOf(unit', k) = IF k = key THEN None ELSE ValueOf(unit, k)
    BY <2>3 DEF Content
  <2> QED
    BY <1>2, <2>1, <2>2, <2>4 DEF TypeOK, Published
<1>7. Working(w)'
  BY <1>1, <1>5, <1>6 DEF Working, TopicSoFar
<1> QED
  BY <1>1, <1>7, WorkGoesOn DEF Busy, Modifying, AllOps

LEMMA ClearInStep ==
  ASSUME TypeOK, InStep, OneBusy, NEW w \in Workers, UnregisterNext(w) \/ Clear(w)
  PROVE  InStep'
<1> DEFINE e == Head(todo[w])
           list == unit.list
<1>1. /\ pc[w] = "body" /\ req[w].op = "DELETEALL" /\ Busy(w)
      /\ OthersStay(w) /\ UNCHANGED <<createWriters, req, new, before, transaction>>
  BY DEF TypeOK, UnregisterNext, Clear, Clearing, Busy, OthersStay, Goto, local
<1>2. /\ Consistent(unit) /\ list \in Seq(Element) /\ todo[w] \in Seq(Element)
      /\ IsRest(todo[w], list) /\ before[w] = Content(unit)
      /\ faults = 0 =>
           \A k \in Keys : instance[k] =
             IF Has(unit, k) /\ unit.map[k] > Size(unit) - Len(todo[w]) THEN ValueOf(unit, k) ELSE None
  BY <1>1, AtWork, ContainerTypes DEF TypeOK, Working, ContainerSoFar, VisitsRest, TopicSoFar
<1>3. CASE UnregisterNext(w)
  <2> DEFINE n == Len(list) - Len(todo[w])
  <2>1. /\ pc'[w] = "body" /\ todo[w] # << >> /\ todo'[w] = Tail(todo[w])
        /\ unit' = unit /\ faults' = faults /\ instance' = [instance EXCEPT ![e.key] = None]
    BY <1>1, <1>3 DEF TypeOK, UnregisterNext, Unregistered
  <2>2. /\ n \in Nat /\ n < Len(list) /\ e = list[n + 1] /\ e \in Element
        /\ IsRest(Tail(todo[w]), list) /\ Len(list) - Len(Tail(todo[w])) = n + 1
    BY <1>2, <2>1, RestGoesOn
  <2> HIDE DEF n
  <2>3. ContainerSoFar(w)' /\ VisitsRest(w)'
    BY <1>1, <1>2, <2>1, <2>2 DEF ContainerSoFar, VisitsRest
  <2>0. /\ \A k \in DOMAIN unit.map : unit.map[k] \in 1..Len(list) /\ list[unit.map[k]].key = k
        /\ \A i \in 1..Len(list) : list[i].key \in DOMAIN unit.map /\ unit.map[list[i].key] = i
    BY <1>2 DEF Consistent
  <2>4. Has(unit, e.key) /\ unit.map[e.key] = n + 1
    BY <2>0, <2>2, n + 1 \in 1..Len(list) DEF Has
  <2>5. \A k \in Keys : Has(unit, k) => unit.map[k] \in Int /\ (unit.map[k] = n + 1 => k = e.key)
    BY <2>0, <2>2 DEF Has
  <2>6. ASSUME faults' = 0 PROVE TopicSoFar(w)'
    <3>1. \A k \in Keys : instance[k] =
            IF Has(unit, k) /\ unit.map[k] > n THEN ValueOf(unit, k) ELSE None
      BY <1>2, <2>1, <2>6 DEF Size, n
    <3>2. \A k \in Keys : instance'[k] =
            IF Has(unit, k) /\ unit.map[k] > n + 1 THEN ValueOf(unit, k) ELSE None
      BY <2>1, <2>2, <2>4, <2>5, <3>1 DEF TypeOK
    <3>3. Size(unit') - Len(todo'[w]) = n + 1
      BY <2>1, <2>2 DEF Size
    <3> QED
      BY <1>1, <2>1, <3>2, <3>3 DEF TopicSoFar
  <2>7. Working(w)'
    BY <2>1, <2>3, <2>6 DEF Working
  <2> QED
    BY <1>1, <2>1, <2>7, WorkGoesOn DEF Busy
<1>4. CASE Clear(w)
  <2>1. pc'[w] = "load" /\ todo[w] = << >> /\ unit' = Empty /\ UNCHANGED <<instance, faults>>
    BY <1>4 DEF TypeOK, Clear, Goto, local
  <2>2. \A k \in Keys : ValueOf(unit', k) = None
    BY <2>1 DEF ValueOf, Has, Empty
  <2>3. ContainerSoFar(w)' /\ VisitsRest(w)'
    BY <1>1, <2>1, <2>2 DEF ContainerSoFar, VisitsRest
  <2>4. ASSUME faults' = 0 PROVE Published'
    <3>1. \A k \in Keys : Has(unit, k) => unit.map[k] \in 1..Len(list)
      BY <1>2 DEF Consistent, Has
    <3>2. Size(unit) - Len(todo[w]) = Len(list) /\ Len(list) \in Nat
      BY <1>2, <2>1 DEF Size
    <3>3. \A k \in Keys : instance[k] = None
      BY <1>2, <2>1, <2>4, <3>1, <3>2
    <3> QED
      BY <2>1, <2>2, <3>3 DEF Published
  <2>5. Working(w)'
    BY <2>1, <2>3, <2>4 DEF Working, TopicSoFar
  <2> QED
    BY <1>1, <2>1, <2>5, WorkGoesOn DEF Busy, Modifying, AllOps
<1> QED
  BY <1>3, <1>4

\* What the loop knows of the item it takes: a key that one iterator has reached
\* and the other has not is in only one of the two containers.
LEMMA NextItem ==
  ASSUME TypeOK, InStep, OneBusy, NEW w \in Workers, Merging(w), AtNew(w) \/ AtOld(w)
  PROVE  /\ NextKey(w) \in Ahead(w) /\ NextKey(w) \in Keys
         /\ AtNew(w) <=> NextKey(w) \in left[w].new
         /\ AtOld(w) <=> NextKey(w) \in left[w].old
         /\ AtNew(w) <=> Has(new[w], NextKey(w))
         /\ AtOld(w) <=> Has(unit, NextKey(w))
<1> DEFINE old == left[w].old
           ahead == left[w].new
           key == NextKey(w)
<1>1. Busy(w) /\ pc[w] = "body" /\ req[w].op = "PUTALL"
  BY DEF Merging, Busy
<1>2. /\ Consistent(unit) /\ Consistent(new[w])
      /\ old \subseteq Stored(unit) /\ ahead \subseteq Stored(new[w])
      /\ \A k \in Stored(unit) \cap Stored(new[w]) : k \in old <=> k \in ahead
  BY <1>1, AtWork DEF TypeOK, Working, VisitsRest
<1>3. /\ old # {} => First(old) \in old /\ \A k \in old : First(old) <= k
      /\ ahead # {} => First(ahead) \in ahead /\ \A k \in ahead : First(ahead) <= k
  BY <1>2, FirstIsLeast
<1>4. old \subseteq Int /\ ahead \subseteq Int /\ old \subseteq Keys /\ ahead \subseteq Keys
  BY KeysAssumption DEF TypeOK
<1>5. key = IF AtNew(w) THEN First(ahead) ELSE First(old)
  BY DEF NextKey
<1>6. /\ AtNew(w) <=> ahead # {} /\ (old # {} => First(ahead) <= First(old))
      /\ AtOld(w) <=> old # {} /\ (ahead # {} => First(old) <= First(ahead))
  BY DEF AtNew, AtOld
<1> HIDE DEF old, ahead, key
<1>7. ASSUME AtNew(w) PROVE key \in ahead /\ key \in Keys /\ (key \in old => AtOld(w))
  <2>1. key = First(ahead) /\ key \in ahead /\ key \in Keys /\ key \in Int
    BY <1>3, <1>4, <1>5, <1>6, <1>7
  <2>2. ASSUME key \in old PROVE AtOld(w)
    <3>1. First(old) <= First(ahead)
      BY <1>3, <2>1, <2>2
    <3> QED
      BY <1>6, <2>2, <3>1
  <2> QED
    BY <2>1, <2>2
<1>8. ASSUME ~AtNew(w) PROVE key \in old /\ key \in Keys /\ key \notin ahead
  <2>1. AtOld(w) /\ key = First(old) /\ key \in old /\ key \in Keys /\ key \in Int
    BY <1>3, <1>4, <1>5, <1>6, <1>8
  <2>2. ASSUME key \in ahead PROVE FALSE
    <3>1. First(ahead) <= First(old)
      BY <1>3, <2>1, <2>2
    <3> QED
      BY <1>6, <1>8, <2>1, <2>2, <3>1
  <2> QED
    BY <2>1, <2>2
<1>9. ASSUME AtOld(w) PROVE key \in old
  <2>1. CASE AtNew(w)
    <3>1. /\ First(ahead) <= First(old) /\ First(old) <= First(ahead)
          /\ First(old) \in Int /\ First(ahead) \in Int
      BY <1>3, <1>4, <1>6, <1>9, <2>1
    <3>2. First(ahead) = First(old)
      BY <3>1
    <3> QED
      BY <1>3, <1>5, <1>6, <1>9, <2>1, <3>2
  <2> QED
    BY <1>8, <2>1
<1> QED
  BY <1>2, <1>7, <1>8, <1>9 DEF Has, Stored, Ahead, old, ahead, key

LEMMA MergeInStep ==
  ASSUME TypeOK, InStep, OneBusy, NEW w \in Workers,
         MergeSame(w) \/ MergeWrite(w) \/ MergeUnregister(w) \/ MergeDone(w)
  PROVE  InStep'
<1> DEFINE key == NextKey(w)
<1>1. /\ Merging(w) /\ pc[w] = "body" /\ req[w].op = "PUTALL" /\ Busy(w)
      /\ OthersStay(w) /\ UNCHANGED <<createWriters, req, new, before, todo, unit, transaction>>
  BY DEF TypeOK, MergeSame, MergeWrite, MergeUnregister, MergeDone, Visited, Merging, Busy,
         OthersStay, Goto, local, shared
<1>2. /\ Consistent(unit) /\ Consistent(new[w]) /\ before[w] = Content(unit)
      /\ faults = 0 => \A k \in Keys : instance[k] = IF k \in Ahead(w) THEN ValueOf(unit, k)
                                                    ELSE ValueOf(new[w], k)
  BY <1>1, AtWork DEF TypeOK, Working, ContainerSoFar, TopicSoFar
<1>3. CASE MergeDone(w)
  <2>1. pc'[w] = "swap" /\ Ahead(w) = {} /\ UNCHANGED <<instance, faults>>
    BY <1>3 DEF TypeOK, MergeDone, Goto, shared, Ahead, NoMerge
  <2>2. ContainerSoFar(w)' /\ VisitsRest(w)' /\ (faults' = 0 => TopicSoFar(w)')
    BY <1>1, <1>2, <2>1 DEF ContainerSoFar, VisitsRest, TopicSoFar
  <2>4. Working(w)'
    BY <2>1, <2>2 DEF Working
  <2> QED
    BY <1>1, <2>1, <2>4, WorkGoesOn DEF Busy
<1>4. CASE MergeSame(w) \/ MergeWrite(w) \/ MergeUnregister(w)
  <2>1. pc'[w] = "body" /\ Visited(w) /\ (AtNew(w) \/ AtOld(w))
    BY <1>1, <1>4 DEF MergeSame, MergeWrite, MergeUnregister, ToWrite, ToUnregister
  <2>2. /\ key \in Ahead(w) /\ key \in Keys
        /\ AtNew(w) <=> Has(new[w], key)
        /\ AtOld(w) <=> Has(unit, key)
    BY <1>1, <2>1, NextItem
  <2>3. left'[w].old = left[w].old \ {key} /\ left'[w].new = left[w].new \ {key}
    BY <1>1, <2>1, NextItem, VisitedTypes
  <2> HIDE DEF key
  <2>4. ASSUME faults' = 0
        PROVE  \A k \in Keys : instance'[k] = IF k \in Ahead(w)' THEN ValueOf(unit, k)
                                              ELSE ValueOf(new[w], k)
    <3>1. faults = 0 /\ instance' = [instance EXCEPT ![key] = ValueOf(new[w], key)]
      <4>1. CASE MergeSame(w)
        <5>1. UNCHANGED <<instance, faults>> /\ ValueOf(unit, key) = ValueOf(new[w], key)
          BY <2>2, <4>1 DEF MergeSame, SameItem, shared, ValueOf, key
        <5> QED
          BY <1>2, <2>2, <2>4, <5>1 DEF TypeOK
      <4>2. CASE MergeWrite(w)
        <5>1. Has(new[w], key) /\ Written(Find(new[w], key))
          BY <2>2, <4>2 DEF MergeWrite, ToWrite, key
        <5>2. Find(new[w], key).key = key
          BY <1>2, <5>1, FindTypes
        <5> QED
          BY <2>4, <5>1, <5>2 DEF Written, ValueOf
      <4>3. CASE MergeUnregister(w)
        BY <2>2, <2>4, <4>3 DEF MergeUnregister, ToUnregister, Unregistered, ValueOf, key
      <4> QED
        BY <1>4, <4>1, <4>2, <4>3
    <3> QED
      BY <1>2, <2>2, <2>3, <3>1 DEF TypeOK, Ahead
  <2>5. ContainerSoFar(w)' /\ VisitsRest(w)' /\ (faults' = 0 => TopicSoFar(w)')
    BY <1>1, <1>2, <2>1, <2>3, <2>4, AtWork DEF Working, ContainerSoFar, VisitsRest, TopicSoFar
  <2>6. Working(w)'
    BY <2>1, <2>5 DEF Working
  <2> QED
    BY <1>1, <2>1, <2>6, WorkGoesOn DEF Busy
<1> QED
  BY <1>3, <1>4

LEMMA SwapInStep ==
  ASSUME TypeOK, InStep, OneBusy, OnlyPutSwaps, NEW w \in Workers, SwapUnit(w)
  PROVE  InStep'
<1>1. /\ pc[w] = "swap" /\ pc'[w] = "load" /\ req[w].op = "PUTALL" /\ Busy(w) /\ OthersStay(w)
      /\ unit' = new[w] /\ UNCHANGED <<createWriters, req, before, instance, faults>>
  BY DEF TypeOK, SwapUnit, OnlyPutSwaps, Goto, OthersStay, Busy
<1>2. Gathered(w, Len(req[w].body)) /\ Working(w)
  BY <1>1, AtWork DEF InStep, Informed
<1>3. ContainerSoFar(w)' /\ VisitsRest(w)'
  BY <1>1, <1>2 DEF ContainerSoFar, VisitsRest, Gathered
<1>4. faults' = 0 => TopicSoFar(w)'
  BY <1>1, <1>2 DEF Working, TopicSoFar, Published
<1>5. Working(w)'
  BY <1>1, <1>3, <1>4 DEF Working
<1> QED
  BY <1>1, <1>5, WorkGoesOn DEF Busy, Modifying, AllOps

LEMMA LoadInStep ==
  ASSUME TypeOK, InStep, OneBusy, NEW w \in Workers, Load(w)
  PROVE  InStep'
<1>1. /\ pc[w] = "load" /\ pc'[w] = "store" /\ Busy(w) /\ OthersStay(w)
      /\ reg'[w] = transaction' /\ req[w].op \in Modifying
      /\ UNCHANGED <<createWriters, shared, req, new, before>>
  BY DEF TypeOK, Load, Goto, OthersStay, Busy, shared, InStep, Informed
<1>2. Working(w)
  BY <1>1, AtWork
<1>3. ContainerSoFar(w)' /\ VisitsRest(w)' /\ (faults' = 0 => TopicSoFar(w)')
  BY <1>1, <1>2 DEF Working, ContainerSoFar, VisitsRest, TopicSoFar, Published, shared
<1>4. Working(w)'
  BY <1>1, <1>3 DEF Working
<1> QED
  BY <1>1, <1>4, WorkGoesOn DEF Busy

\* A handler fails only once a call of DDS has failed.
LEMMA FailsCaused ==
  ASSUME TypeOK, InStep, OneBusy, NEW w \in Workers,
         \/ InsertAndFailToWrite(w) \/ EraseButFailToUnregister(w)
         \/ ClearFails(w) \/ MergeFails(w)
  PROVE  faults' \in Nat /\ faults' > 0
<1>1. faults \in Nat /\ Consistent(unit) /\ (DdsFault => faults' \in Nat /\ faults' > 0)
  BY DEF TypeOK, DdsFault
<1>2. ASSUME NEW k, UnregisterFails(k), faults = 0 => instance[k] # None
      PROVE  faults' \in Nat /\ faults' > 0
  BY <1>1, <1>2 DEF UnregisterFails
<1>3. pc[w] = "body" /\ Busy(w)
  BY DEF InsertAndFailToWrite, EraseButFailToUnregister, ClearFails, MergeFails,
         Upserting, Deleting, Clearing, Merging, Busy
<1>4. faults = 0 => TopicSoFar(w)
  BY <1>3, AtWork DEF Working
<1>5. CASE InsertAndFailToWrite(w)
  BY <1>1, <1>5 DEF InsertAndFailToWrite
<1>6. CASE EraseButFailToUnregister(w)
  <2> DEFINE key == req[w].key
  <2>1. Has(unit, key) /\ UnregisterFails(key) /\ req[w].op = "DELETE" /\ key \in Keys
    BY <1>3, <1>6, AtWork DEF EraseButFailToUnregister, Deleting
  <2>2. faults = 0 => instance[key] # None
    BY <1>1, <1>3, <1>4, <2>1, ContainerValues DEF TopicSoFar, Published
  <2> QED
    BY <1>2, <2>1, <2>2
<1>7. CASE ClearFails(w)
  <2> DEFINE e == Head(todo[w])
             n == Len(unit.list) - Len(todo[w])
  <2>1. todo[w] # << >> /\ req[w].op = "DELETEALL" /\ UnregisterFails(e.key)
    BY <1>7 DEF ClearFails, Clearing
  <2>2. todo[w] \in Seq(Element) /\ unit.list \in Seq(Element) /\ IsRest(todo[w], unit.list)
    BY <1>1, <1>3, <2>1, AtWork, ContainerTypes DEF TypeOK, Working, VisitsRest
  <2>3. n \in Nat /\ n < Len(unit.list) /\ e = unit.list[n + 1] /\ e \in Element
    BY <2>1, <2>2, RestGoesOn
  <2>4. unit.map[e.key] > Size(unit) - Len(todo[w])
    <3>1. n = Size(unit) - Len(todo[w])
      BY DEF Size
    <3> HIDE DEF n, e
    <3>2. unit.map[e.key] = n + 1
      BY <1>1, <2>2, <2>3 DEF Consistent
    <3> QED
      BY <2>3, <3>1, <3>2
  <2> HIDE DEF n, e
  <2>5. Has(unit, e.key) /\ e.key \in Keys
    BY <1>1, <2>2, <2>3 DEF Consistent, Has, Element
  <2>6. faults = 0 => instance[e.key] = ValueOf(unit, e.key)
    BY <1>3, <1>4, <2>1, <2>4, <2>5 DEF TopicSoFar
  <2> QED
    BY <1>1, <1>2, <2>1, <2>5, <2>6, ContainerValues
<1>8. CASE MergeFails(w)
  <2> DEFINE key == NextKey(w)
  <2>1. Merging(w) /\ (AtNew(w) \/ AtOld(w)) /\ req[w].op = "PUTALL"
    BY <1>8 DEF MergeFails, Merging, ToWrite, ToUnregister
  <2>2. key \in Ahead(w) /\ key \in Keys /\ (AtOld(w) => Has(unit, key))
    BY <2>1, NextItem
  <2> HIDE DEF key
  <2>4. CASE DdsFault
    BY <1>1, <2>4
  <2>5. CASE ToUnregister(w) /\ UnregisterFails(key)
    <3>1. Has(unit, key)
      BY <2>2, <2>5 DEF ToUnregister
    <3>2. faults = 0 => instance[key] = ValueOf(unit, key)
      BY <1>3, <1>4, <2>1, <2>2 DEF TopicSoFar
    <3> QED
      BY <1>1, <1>2, <2>2, <2>5, <3>1, <3>2, ContainerValues
  <2> QED
    BY <1>8, <2>4, <2>5 DEF MergeFails, key
<1> QED
  BY <1>5, <1>6, <1>7, <1>8

\* The answers: nothing changes in the container or the topic, or a call has failed.
LEMMA AnswersInStep ==
  ASSUME TypeOK, InStep, OneBusy, NEW w \in Workers,
         \/ InsertAndFailToWrite(w) \/ EraseButFailToUnregister(w)
         \/ ClearFails(w) \/ MergeFails(w)
         \/ DeleteMissing(w) \/ Store(w) \/ Get(w) \/ GetAll(w)
  PROVE  InStep'
<1>1. Return(w) /\ UNCHANGED createWriters /\ Busy(w)
  BY DEF InsertAndFailToWrite, EraseButFailToUnregister, ClearFails, MergeFails,
         DeleteMissing, Store, Get, GetAll, Upserting, Deleting, Clearing, Merging, Busy
<1>2. \A v \in Workers \ {w} : ~Busy(v)
  BY <1>1, AtWork
<1>3. ASSUME faults' = 0 PROVE Published'
  <2>1. CASE DeleteMissing(w) \/ Store(w) \/ Get(w) \/ GetAll(w)
    <3>1. UNCHANGED <<unit, instance, faults>>
      BY <2>1 DEF DeleteMissing, Store, Get, GetAll, shared
    <3>2. TopicSoFar(w)
      BY <1>1, <1>3, <3>1, AtWork DEF Working
    <3>3. Published
      BY <2>1, <3>2 DEF TopicSoFar, DeleteMissing, Deleting, Store, Get, GetAll
    <3> QED
      BY <3>1, <3>3 DEF Published
  <2>2. CASE ~(DeleteMissing(w) \/ Store(w) \/ Get(w) \/ GetAll(w))
    <3>1. faults' > 0
      BY <2>2, FailsCaused
    <3> QED
      BY <1>3, <3>1
  <2> QED
    BY <2>1, <2>2
<1> QED
  BY <1>1, <1>2, <1>3, ReturnsInStep

-----------------------------------------------------------------------------

\* InStep is an invariant of a Writer with one thread, or without collection PUTs.
LEMMA WriterInStep ==
  ASSUME NoRace
  PROVE  Spec => [](TypeOK /\ OneBusy /\ InStep)
<1>1. Init => InStep
  <2> SUFFICES ASSUME Init PROVE InStep
    OBVIOUS
  <2>1. Published
    BY DEF Init, Published, ValueOf, Has, Empty
  <2> QED
    BY <2>1 DEF Init, InStep, Informed, Busy
<1>2. TypeOK /\ OnlyPutSwaps /\ OneBusy /\ OneBusy' /\ InStep /\ [Next]_vars => InStep'
  <2> SUFFICES ASSUME TypeOK, OnlyPutSwaps, OneBusy, OneBusy', InStep, [Next]_vars
               PROVE  InStep'
    OBVIOUS
  <2>1. CASE UNCHANGED vars
    <3>1. \A w \in Workers : /\ (Busy(w)' <=> Busy(w)) /\ (Informed(w)' <=> Informed(w))
                            /\ (Working(w)' <=> Working(w))
      <4>1. \A w, n : Accepted(w, n)' = Accepted(w, n) /\ Gathered(w, n)' = Gathered(w, n)
        BY <2>1 DEF vars, local, Accepted, Gathered, CheckInput, CheckCommon
      <4>2. \A w : Read(w)' = Read(w) /\ TopicSoFar(w)' = TopicSoFar(w)
        BY <2>1 DEF vars, local, shared, Read, TopicSoFar, Published, Ahead
      <4>3. \A w : ContainerSoFar(w)' <=> ContainerSoFar(w)
        BY <2>1, <4>2 DEF vars, local, shared, ContainerSoFar
      <4>4. \A w : VisitsRest(w)' <=> VisitsRest(w)
        BY <2>1 DEF vars, local, shared, VisitsRest
      <4> QED
        BY <2>1, <4>1, <4>2, <4>3, <4>4 DEF vars, local, shared, Busy, Informed, Working
    <3>2. Published' = Published /\ faults' = faults
      BY <2>1 DEF vars, shared, Published
    <3> QED
      BY <3>1, <3>2 DEF InStep
  <2>2. CASE \E w \in Workers : Receive(w) \/ Step(w)
    <3>1. PICK w \in Workers : Receive(w) \/ Step(w)
      BY <2>2
    <3> QED
      BY <3>1, ChecksInStep, AcquireInStep, UpsertInStep, DeleteInStep, ClearInStep,
         MergeInStep, SwapInStep, LoadInStep, AnswersInStep
      DEF Step
  <2> QED
    BY <2>1, <2>2 DEF Next
<1>3. TypeOK /\ MutualExclusion /\ OnlyPutSwaps => OneBusy
  BY OneIsBusy
<1> QED
  BY <1>1, <1>2, <1>3, WriterTypes, WriterExcludesInductively, PTL DEF Spec

\* While no handler is at work and no call of DDS has failed, the topic shows exactly what
\* the API shows (README.md:3 of HSDS/Writer): the diff of a collection PUT, the loops over
\* the elements and erase's reordering miss nothing and publish nothing twice over.
THEOREM TopicShowsContainer ==
  ASSUME NoRace
  PROVE  Spec => []PublishedMatchesContainer
<1>1. InStep => PublishedMatchesContainer
  BY DEF InStep, PublishedMatchesContainer
<1> QED
  BY <1>1, WriterInStep, PTL

-----------------------------------------------------------------------------
(* Answers                                                                   *)

\* A step of one handler leaves the others where they are.
LEMMA MovesAlone ==
  ASSUME TypeOK, NEW w \in Workers, Receive(w) \/ Step(w)
  PROVE  \A v \in Workers \ {w} : pc'[v] = pc[v] /\ before'[v] = before[v] /\ reg'[v] = reg[v]
                                  /\ req'[v] = req[v]
<1>1. ASSUME Return(w)
      PROVE  \A v \in Workers \ {w} : pc'[v] = pc[v] /\ before'[v] = before[v] /\ reg'[v] = reg[v]
                                      /\ req'[v] = req[v]
  BY <1>1 DEF TypeOK, Return, Goto, Forget
<1>2. CASE Receive(w)
  BY <1>2 DEF TypeOK, Receive, Goto
<1>3. CASE AcceptElement(w) \/ Checked(w) \/ Acquire(w)
  BY <1>3 DEF TypeOK, AcceptElement, Checked, Acquire, Goto
<1>4. CASE SkipUnchanged(w) \/ InsertAndWrite(w) \/ UpsertDone(w) \/ UnregisterAndErase(w)
  BY <1>4 DEF TypeOK, SkipUnchanged, InsertAndWrite, UpsertDone, UnregisterAndErase, Goto, local
<1>5. CASE UnregisterNext(w) \/ Clear(w) \/ SwapUnit(w) \/ Load(w)
  BY <1>5 DEF TypeOK, UnregisterNext, Clear, SwapUnit, Load, Goto, local
<1>6. CASE MergeSame(w) \/ MergeWrite(w) \/ MergeUnregister(w) \/ MergeDone(w)
  BY <1>6 DEF TypeOK, MergeSame, MergeWrite, MergeUnregister, MergeDone, Visited, Goto, local
<1> QED
  BY <1>1, <1>2, <1>3, <1>4, <1>5, <1>6
  DEF Step, Refuse, RefuseElement, InsertAndFailToWrite, DeleteMissing,
      EraseButFailToUnregister, ClearFails, MergeFails, Store, Get, GetAll

\* A handler at work returns in one of eight ways.
LEMMA Returns ==
  ASSUME TypeOK, NEW w \in Workers, Busy(w), pc'[w] = "idle", Next
  PROVE  \/ pc[w] = "store" /\ Store(w)
         \/ /\ pc[w] = "body"
            /\ \/ InsertAndFailToWrite(w) \/ EraseButFailToUnregister(w)
               \/ ClearFails(w) \/ MergeFails(w) \/ DeleteMissing(w) \/ Get(w) \/ GetAll(w)
<1>1. PICK v \in Workers : Receive(v) \/ Step(v)
  BY DEF Next
<1>2. v = w
  BY <1>1, MovesAlone DEF Busy
<1>3. pc[w] \notin {"idle", "check", "lock"}
  BY DEF Busy
<1>4. CASE pc'[w] = pc[w]
  BY <1>3, <1>4
<1>5. CASE \/ SkipUnchanged(w) \/ InsertAndWrite(w) \/ UnregisterNext(w)
           \/ MergeSame(w) \/ MergeWrite(w) \/ MergeUnregister(w)
  BY <1>3, <1>5 DEF SkipUnchanged, InsertAndWrite, UnregisterNext, MergeSame, MergeWrite,
                    MergeUnregister
<1>6. CASE \/ UpsertDone(w) \/ UnregisterAndErase(w) \/ Clear(w) \/ MergeDone(w)
           \/ SwapUnit(w) \/ Load(w)
  BY <1>6 DEF TypeOK, UpsertDone, UnregisterAndErase, Clear, MergeDone, SwapUnit, Load, Goto
<1>7. CASE Receive(w) \/ Refuse(w) \/ RefuseElement(w) \/ AcceptElement(w) \/ Checked(w) \/ Acquire(w)
  BY <1>3, <1>7 DEF Receive, Refuse, RefuseElement, AcceptElement, Checked, Acquire
<1> QED
  BY <1>1, <1>2, <1>5, <1>6, <1>7
  DEF Step, Store, Get, GetAll, InsertAndFailToWrite, EraseButFailToUnregister, ClearFails,
      MergeFails, DeleteMissing, Upserting, Deleting, Clearing, Merging

\* A handler about to answer with success has done what was asked of it.
LEMMA WorkIsDone ==
  ASSUME TypeOK, InStep, OneBusy, NEW w \in Workers, pc[w] = "store", NEW k \in Keys
  PROVE  LET r == req[w]
             v == ValueOf(unit, k)
         IN  /\ r.op \in Modifying
             /\ r.op \in {"PUT", "POSTALL"} => Gives(r.body, Len(r.body), k, before[w][k], v)
             /\ r.op = "PUTALL" => Gives(r.body, Len(r.body), k, None, v)
             /\ r.op = "DELETE" => v = IF k = r.key THEN None ELSE before[w][k]
             /\ r.op = "DELETEALL" => v = None
             /\ faults = 0 => instance[k] = v
             /\ reg[w] = transaction
<1>1. Busy(w) /\ Working(w) /\ req[w].op \in Modifying /\ req[w].key \in Keys
  BY AtWork DEF Busy, InStep, Informed
<1>2. req[w].op = "DELETE" =>
        ValueOf(unit, k) = IF k = req[w].key THEN None ELSE before[w][k]
  <2> SUFFICES ASSUME req[w].op = "DELETE"
               PROVE  ValueOf(unit, k) = IF k = req[w].key THEN None ELSE before[w][k]
    OBVIOUS
  <2>1. Content(unit) = [before[w] EXCEPT ![req[w].key] = None]
    BY <1>1 DEF Working, ContainerSoFar
  <2>2. before[w] \in [Keys -> Values \cup {None}]
    BY DEF TypeOK
  <2>3. Content(unit)[k] = IF k = req[w].key THEN None ELSE before[w][k]
    BY <2>1, <2>2
  <2> QED
    BY <2>3 DEF Content
<1>3. faults = 0 => instance[k] = ValueOf(unit, k)
  BY <1>1 DEF Working, TopicSoFar, Published
<1> QED
  BY <1>1, <1>2, <1>3 DEF Working, ContainerSoFar

\* A request answered with success has taken effect, in the container and on the topic, as
\* long as no call of DDS has failed.
THEOREM SuccessIsEarned ==
  ASSUME NoRace
  PROVE  Spec => SuccessMeansPublished
<1>1. TypeOK /\ OneBusy /\ InStep /\ [Next]_vars => [faults = 0 => SuccessIsTrue]_vars
  <2> SUFFICES ASSUME TypeOK, OneBusy, InStep, Next, faults = 0,
                      NEW w \in Workers, Succeeds(w), NEW k \in Keys
               PROVE  Done(req[w], k)
    BY DEF SuccessIsTrue
  <2>1. pc[w] = "store" /\ Busy(w) /\ pc'[w] = "idle"
    BY DEF Succeeds, Busy
  <2>2. UNCHANGED <<unit, instance>>
    BY <2>1, Returns DEF Store
  <2>3. req[w].body \in Seq(Element) /\ req[w].op \in Modifying
    BY <2>1, AtWork, WorkIsDone
  <2>4. instance'[k] = ValueOf(unit', k)
    BY <2>1, <2>2, WorkIsDone
  <2>5. CASE req[w].op \in {"PUT", "POSTALL"}
    <3>1. Gives(req[w].body, Len(req[w].body), k, before[w][k], ValueOf(unit', k))
      BY <2>1, <2>2, <2>5, WorkIsDone
    <3>2. LastOf(req[w].body, k) # None => ValueOf(unit', k) = LastOf(req[w].body, k)
      BY <2>3, <3>1, GivesLast
    <3> QED
      BY <2>4, <2>5, <3>2 DEF Done
  <2>6. CASE req[w].op = "PUTALL"
    <3>1. Gives(req[w].body, Len(req[w].body), k, None, ValueOf(unit', k))
      BY <2>1, <2>2, <2>6, WorkIsDone
    <3>2. ValueOf(unit', k) = LastOf(req[w].body, k)
      BY <2>3, <3>1, GivesLast
    <3> QED
      BY <2>4, <2>6, <3>2 DEF Done
  <2>7. CASE req[w].op = "DELETE"
    <3>1. k = req[w].key => ValueOf(unit', k) = None
      BY <2>1, <2>2, <2>7, WorkIsDone
    <3> QED
      BY <2>4, <2>7, <3>1 DEF Done
  <2>8. CASE req[w].op = "DELETEALL"
    <3>1. ValueOf(unit', k) = None
      BY <2>1, <2>2, <2>8, WorkIsDone
    <3> QED
      BY <2>4, <2>8, <3>1 DEF Done
  <2> QED
    BY <2>3, <2>5, <2>6, <2>7, <2>8 DEF Modifying, AllOps
<1> QED
  BY <1>1, WriterInStep, PTL DEF Spec, SuccessMeansPublished

\* No sequence of requests leads to a 500 unless a call of DDS failed on its own: each
\* handler unregisters only what was written and not unregistered since.
THEOREM FailuresAreCaused ==
  ASSUME NoRace
  PROVE  Spec => FailuresHaveCause
<1>1. TypeOK /\ OneBusy /\ InStep /\ [Next]_vars
        => [\A w \in Workers : Fails(w) => faults' > 0]_vars
  <2> SUFFICES ASSUME TypeOK, OneBusy, InStep, Next, NEW w \in Workers, Fails(w)
               PROVE  faults' > 0
    OBVIOUS
  <2>1. Busy(w) /\ pc[w] = "body" /\ pc'[w] = "idle" /\ req[w].op \in Modifying
    BY DEF Fails, Busy
  <2>2. ~DeleteMissing(w) /\ ~Get(w) /\ ~GetAll(w)
    BY <2>1 DEF Fails, DeleteMissing, Deleting, Get, GetAll, Modifying
  <2>3. \/ InsertAndFailToWrite(w) \/ EraseButFailToUnregister(w)
        \/ ClearFails(w) \/ MergeFails(w)
    BY <2>1, <2>2, Returns
  <2> QED
    BY <2>3, FailsCaused
<1> QED
  BY <1>1, WriterInStep, PTL DEF Spec, FailuresHaveCause

-----------------------------------------------------------------------------
(* The atomic API                                                            *)

\* The API's store is what the handler at work found, or the container.
LEMMA StoreIs ==
  /\ OneBusy => /\ \A w \in Workers : Busy(w) => ApiStore = before[w]
                /\ (\A w \in Workers : ~Busy(w)) => ApiStore = Content(unit)
  /\ OneBusy' => /\ \A w \in Workers : Busy(w)' => ApiStore' = before'[w]
                 /\ (\A w \in Workers : ~Busy(w)') => ApiStore' = Content(unit')
<1>1. OneBusy => /\ \A w \in Workers : Busy(w) => ApiStore = before[w]
                 /\ (\A w \in Workers : ~Busy(w)) => ApiStore = Content(unit)
  BY DEF OneBusy, ApiStore
<1>2. OneBusy' => /\ \A w \in Workers : Busy(w)' => ApiStore' = before'[w]
                  /\ (\A w \in Workers : ~Busy(w)') => ApiStore' = Content(unit')
  BY DEF OneBusy, ApiStore, Content, ValueOf, Has, Find
<1> QED
  BY <1>1, <1>2

\* Until a handler returns, the API is as it was.
LEMMA WorkIsHidden ==
  ASSUME TypeOK, InStep, OneBusy, OneBusy', NEW w \in Workers, Receive(w) \/ Step(w),
         ~(Busy(w) /\ pc'[w] = "idle")
  PROVE  ApiStore' = ApiStore /\ transaction' = transaction
<1>1. \A v \in Workers \ {w} : (Busy(v)' <=> Busy(v)) /\ before'[v] = before[v]
  BY MovesAlone DEF Busy
<1>2. CASE ~Busy(w)
  <2>1. CASE Acquire(w)
    <3>1. Busy(w)' /\ before'[w] = Content(unit) /\ transaction' = transaction
      BY <2>1 DEF TypeOK, Acquire, Goto, Busy, shared
    <3>2. \A v \in Workers : ~Busy(v)
      BY <1>1, <1>2, <3>1 DEF OneBusy
    <3> QED
      BY <3>1, <3>2, StoreIs
  <2>2. CASE ~Acquire(w)
    <3>1. ~Busy(w)' /\ UNCHANGED <<unit, transaction>>
      <4>1. CASE Receive(w) \/ AcceptElement(w)
        BY <1>2, <4>1 DEF TypeOK, Receive, AcceptElement, Goto, Busy, shared
      <4>2. CASE Refuse(w) \/ RefuseElement(w)
        BY <4>2 DEF TypeOK, Refuse, RefuseElement, Return, Goto, Busy, shared
      <4>3. CASE Checked(w)
        BY <4>3 DEF TypeOK, Checked, Authorized, Goto, Busy, shared
      <4> QED
        BY <1>2, <2>2, <4>1, <4>2, <4>3
        DEF Step, Busy, SkipUnchanged, InsertAndWrite, InsertAndFailToWrite, UpsertDone,
            Upserting, DeleteMissing, UnregisterAndErase, EraseButFailToUnregister, Deleting,
            UnregisterNext, ClearFails, Clear, Clearing, MergeSame, MergeWrite,
            MergeUnregister, MergeFails, MergeDone, Merging, SwapUnit, Load, Store, Get, GetAll
    <3>2. CASE \E v \in Workers : Busy(v)
      BY <1>1, <1>2, <3>1, <3>2, StoreIs
    <3>3. CASE \A v \in Workers : ~Busy(v)
      <4>1. \A v \in Workers : ~Busy(v)'
        BY <1>1, <3>1, <3>3
      <4> QED
        BY <3>1, <3>3, <4>1, StoreIs
    <3> QED
      BY <3>1, <3>2, <3>3
  <2> QED
    BY <2>1, <2>2
<1>3. CASE Busy(w)
  <2>1. Busy(w)' /\ before'[w] = before[w] /\ transaction' = transaction
    <3>1. CASE SkipUnchanged(w) \/ InsertAndWrite(w) \/ UpsertDone(w) \/ UnregisterAndErase(w)
      BY <1>3, <3>1 DEF TypeOK, SkipUnchanged, InsertAndWrite, UpsertDone, UnregisterAndErase,
                        Goto, Busy, local, shared
    <3>2. CASE UnregisterNext(w) \/ Clear(w) \/ SwapUnit(w) \/ Load(w)
      BY <1>3, <3>2 DEF TypeOK, UnregisterNext, Clear, SwapUnit, Load, Goto, Busy, local, shared
    <3>3. CASE MergeSame(w) \/ MergeWrite(w) \/ MergeUnregister(w) \/ MergeDone(w)
      BY <1>3, <3>3 DEF TypeOK, MergeSame, MergeWrite, MergeUnregister, MergeDone, Goto, Busy,
                        local, shared
    <3>4. ~Return(w)
      BY <1>3 DEF TypeOK, Return, Goto
    <3> QED
      BY <1>3, <3>1, <3>2, <3>3, <3>4
      DEF Step, Busy, Receive, AcceptElement, Checked, Acquire, Refuse, RefuseElement,
          InsertAndFailToWrite, DeleteMissing, EraseButFailToUnregister, ClearFails,
          MergeFails, Store, Get, GetAll
  <2> QED
    BY <1>3, <2>1, StoreIs
<1> QED
  BY <1>2, <1>3

\* When it returns, the API goes from what it found to the container.
LEMMA ReturnShows ==
  ASSUME TypeOK, InStep, OneBusy, OneBusy', NEW w \in Workers, Busy(w), pc'[w] = "idle",
         Receive(w) \/ Step(w)
  PROVE  ApiStore = before[w] /\ ApiStore' = Content(unit')
<1>1. \A v \in Workers : ~Busy(v)'
  <2>1. \A v \in Workers \ {w} : ~Busy(v)
    BY AtWork
  <2> QED
    BY <2>1, MovesAlone DEF Busy
<1> QED
  BY <1>1, StoreIs

\* The elements the checks of the API admit, and stores that hold only their values.
Passing == {e \in Element : e.key \in Own /\ e.val \notin Incomplete}
Admitted == ApiStore \in [Keys -> {None} \cup {e.val : e \in Passing}]

\* The list of a request that passed the checks is one of the API's.
LEMMA BodiesPass ==
  ASSUME TypeOK, InStep, OneBusy, NEW w \in Workers, Busy(w)
  PROVE  req[w].body \in Api!Bodies
<1> DEFINE body == req[w].body
<1>1. body \in Bodies /\ createWriters /\ Accepted(w, Len(body))
  BY AtWork DEF Requests
<1>2. PICK n \in 0..MaxBody : body \in [1..n -> Element]
  BY <1>1 DEF Bodies
<1>3. Len(body) = n
  BY <1>2
<1>4. \A i \in 1..n : body[i] \in Passing
  BY <1>1, <1>2, <1>3 DEF Passing, Accepted, CheckInput, CheckCommon
<1>5. body \in [1..n -> Passing]
  BY <1>2, <1>4
<1> QED
  BY <1>2, <1>5 DEF Api!Bodies, Passing

\* An answer of success is one step of the API, which counts it.
LEMMA SuccessIsApiStep ==
  ASSUME TypeOK, InStep, OneBusy, Admitted, NEW w \in Workers, Store(w),
         ApiStore = before[w], ApiStore' = Content(unit')
  PROVE  Api!Next /\ transaction' = transaction + 1 /\ Admitted'
<1> DEFINE r == req[w]
<1>1. /\ pc[w] = "store" /\ Busy(w) /\ unit' = unit /\ transaction' = reg[w] + 1
  BY DEF Store, Busy
<1>2. /\ r.body \in Seq(Element) /\ r.body \in Api!Bodies /\ r.key \in Keys
      /\ before[w] \in [Keys -> Values \cup {None}]
  BY <1>1, AtWork, BodiesPass DEF TypeOK
<1>3. transaction' = transaction + 1 /\ r.op \in Modifying
  <2>1. r.key \in Keys /\ r.op \in Modifying
    BY <1>1, <1>2 DEF InStep, Informed
  <2>2. reg[w] = transaction
    BY <1>1, <2>1, WorkIsDone
  <2> QED
    BY <1>1, <2>1, <2>2
<1>4. ApiStore' = [k \in Keys |-> ValueOf(unit, k)]
  BY <1>1 DEF Content
<1>5. ASSUME NEW k \in Keys
      PROVE  ValueOf(unit, k) \in {None} \cup {e.val : e \in Passing}
  <2>1. before[w][k] \in {None} \cup {e.val : e \in Passing}
    BY DEF Admitted
  <2>2. Api!Asked(r.body, k) \subseteq {e.val : e \in Passing}
    BY <1>2 DEF Api!Asked, Api!Bodies, Passing
  <2>3. Len(r.body) \in 0..Len(r.body)
    BY <1>2
  <2>4. CASE r.op \in {"PUT", "POSTALL", "PUTALL"}
    <3>1. \/ Gives(r.body, Len(r.body), k, before[w][k], ValueOf(unit, k))
          \/ Gives(r.body, Len(r.body), k, None, ValueOf(unit, k))
      BY <1>1, <2>4, WorkIsDone
    <3>2. ValueOf(unit, k) \in {before[w][k], None} \cup Api!Asked(r.body, k)
      BY <1>2, <2>3, <3>1, GivesAsked
    <3> QED
      BY <2>1, <2>2, <3>2
  <2>5. CASE r.op \in {"DELETE", "DELETEALL"}
    <3>1. ValueOf(unit, k) = None \/ ValueOf(unit, k) = before[w][k]
      BY <1>1, <2>5, WorkIsDone
    <3> QED
      BY <2>1, <3>1
  <2> QED
    BY <1>3, <2>4, <2>5 DEF Modifying, AllOps
<1>6. Admitted'
  BY <1>4, <1>5 DEF Admitted, Passing
<1>7. CASE r.op \in {"PUT", "POSTALL"}
  <2>1. ASSUME NEW k \in Keys
        PROVE  ValueOf(unit, k) = IF k \in Api!Named(r.body) THEN Api!LastOf(r.body, k)
                                  ELSE before[w][k]
    <3>1. Gives(r.body, Len(r.body), k, before[w][k], ValueOf(unit, k))
      BY <1>1, <1>7, WorkIsDone
    <3> QED
      BY <1>2, <3>1, GivesLast
  <2>2. Api!Merge(r.body)
    BY <1>3, <1>4, <2>1 DEF Api!Merge, Api!Count
  <2> QED
    BY <1>2, <1>3, <1>6, <2>2 DEF Api!Next
<1>8. CASE r.op = "PUTALL"
  <2>1. ASSUME NEW k \in Keys
        PROVE  ValueOf(unit, k) = IF k \in Api!Named(r.body) THEN Api!LastOf(r.body, k) ELSE None
    <3>1. Gives(r.body, Len(r.body), k, None, ValueOf(unit, k))
      BY <1>1, <1>8, WorkIsDone
    <3> QED
      BY <1>2, <3>1, GivesLast
  <2>2. Api!Replace(r.body)
    BY <1>3, <1>4, <2>1 DEF Api!Replace, Api!Count
  <2> QED
    BY <1>2, <1>3, <1>6, <2>2 DEF Api!Next
<1>9. CASE r.op = "DELETE"
  <2>1. before[w][r.key] # None /\ Content(unit) = [before[w] EXCEPT ![r.key] = None]
    BY <1>1, <1>9, AtWork DEF Working, ContainerSoFar
  <2>2. Api!Remove(r.key)
    BY <1>1, <1>3, <2>1 DEF Api!Remove, Api!Count
  <2> QED
    BY <1>2, <1>3, <1>6, <2>2 DEF Api!Next
<1>10. CASE r.op = "DELETEALL"
  <2>1. \A k \in Keys : ValueOf(unit, k) = None
    BY <1>1, <1>10, WorkIsDone
  <2>2. Api!RemoveAll
    BY <1>3, <1>4, <2>1 DEF Api!RemoveAll, Api!Count
  <2> QED
    BY <1>3, <1>6, <2>2 DEF Api!Next
<1> QED
  BY <1>3, <1>6, <1>7, <1>8, <1>9, <1>10 DEF Modifying, AllOps

\* Every other answer leaves the API as it is, or is one of its failures, not counted.
LEMMA FailureIsApiStep ==
  ASSUME TypeOK, InStep, OneBusy, Admitted, NEW w \in Workers, pc[w] = "body",
         ApiStore = before[w], ApiStore' = Content(unit'),
         \/ InsertAndFailToWrite(w) \/ EraseButFailToUnregister(w)
         \/ ClearFails(w) \/ MergeFails(w) \/ DeleteMissing(w) \/ Get(w) \/ GetAll(w)
  PROVE  /\ transaction' = transaction /\ Admitted'
         /\ \/ ApiStore' = ApiStore
            \/ Api!Next /\ (InsertAndFailToWrite(w) \/ EraseButFailToUnregister(w))
<1> DEFINE r == req[w]
<1>1. Busy(w) /\ transaction' = transaction
  BY DEF Busy, InsertAndFailToWrite, EraseButFailToUnregister, ClearFails, MergeFails,
         DeleteMissing, Get, GetAll, shared
<1>2. /\ r.body \in Seq(Element) /\ r.body \in Api!Bodies /\ r.key \in Keys
      /\ before[w] \in [Keys -> Values \cup {None}] /\ Consistent(unit)
  BY <1>1, AtWork, BodiesPass DEF TypeOK
<1>3. CASE ClearFails(w) \/ MergeFails(w) \/ DeleteMissing(w) \/ Get(w) \/ GetAll(w)
  <2>1. unit' = unit /\ r.op \notin {"PUT", "POSTALL"}
    BY <1>3 DEF ClearFails, Clearing, MergeFails, Merging, DeleteMissing, Deleting, Get, GetAll,
                shared
  <2>2. before[w] = Content(unit)
    BY <1>1, <2>1, AtWork DEF Working, ContainerSoFar
  <2>3. Admitted'
    BY <2>1, <2>2 DEF Admitted, Passing
  <2> QED
    BY <1>1, <2>1, <2>2, <2>3
<1>4. CASE EraseButFailToUnregister(w)
  <2>1. r.op = "DELETE" /\ unit' = Erase(unit, r.key)
    BY <1>4 DEF EraseButFailToUnregister, Deleting
  <2>2. before[w] = Content(unit)
    BY <1>1, <2>1, AtWork DEF Working, ContainerSoFar
  <2>3. Content(unit') = [Content(unit) EXCEPT ![r.key] = None]
    BY <1>2, <2>1, EraseContent
  <2>4. Api!FailRemove(r.key)
    BY <1>1, <2>2, <2>3 DEF Api!FailRemove
  <2>5. Admitted'
    BY <2>2, <2>3 DEF Admitted, Passing
  <2> QED
    BY <1>1, <1>2, <1>4, <2>4, <2>5 DEF Api!Next
<1>5. CASE InsertAndFailToWrite(w)
  <2> DEFINE e == Head(todo[w])
             n == Read(w)
  <2>1. r.op \in {"PUT", "POSTALL"} /\ todo[w] # << >> /\ unit' = Insert(unit, e)
    BY <1>5 DEF InsertAndFailToWrite, Upserting
  <2>2. /\ todo[w] \in Seq(Element) /\ IsRest(todo[w], r.body)
        /\ \A k \in Keys : Gives(r.body, n, k, before[w][k], ValueOf(unit, k))
    BY <1>1, <2>1, AtWork DEF TypeOK, Working, ContainerSoFar
  <2>3. n \in Nat /\ n < Len(r.body) /\ e = r.body[n + 1] /\ e \in Element
    BY <1>2, <2>1, <2>2, RestGoesOn DEF Read
  <2> HIDE DEF n, e
  <2>4. ASSUME NEW k \in Keys PROVE ValueOf(unit', k) \in {before[w][k]} \cup Api!Asked(r.body, k)
    <3>1. Gives(r.body, n, k, before[w][k], ValueOf(unit, k))
      BY <2>2
    <3>2. Gives(r.body, n + 1, k, before[w][k], IF k = e.key THEN e.val ELSE ValueOf(unit, k))
      BY <1>2, <2>3, <3>1, GivesNext
    <3>3. ValueOf(unit', k) = IF k = e.key THEN e.val ELSE ValueOf(unit, k)
      BY <1>2, <2>1, <2>3, ContainerValues
    <3>4. n + 1 \in 0..Len(r.body)
      BY <2>3
    <3> QED
      BY <1>2, <3>2, <3>3, <3>4, GivesAsked
  <2>5. ASSUME NEW k \in Keys PROVE ValueOf(unit', k) \in {None} \cup {x.val : x \in Passing}
    <3>1. before[w][k] \in {None} \cup {x.val : x \in Passing}
      BY DEF Admitted
    <3>2. Api!Asked(r.body, k) \subseteq {x.val : x \in Passing}
      BY <1>2 DEF Api!Asked, Api!Bodies, Passing
    <3> QED
      BY <2>4, <3>1, <3>2
  <2>6. ApiStore' = [k \in Keys |-> ValueOf(unit', k)]
    BY DEF Content
  <2>7. ApiStore' \in [Keys -> {None} \cup {x.val : x \in Passing}]
    BY <2>5, <2>6
  <2>8. \A k \in Keys : ApiStore'[k] \in {ApiStore[k]} \cup Api!Asked(r.body, k)
    BY <2>4, <2>6
  <2>9. Api!FailMerge(r.body)
    BY <1>1, <2>7, <2>8 DEF Api!FailMerge, Passing
  <2>10. Admitted'
    BY <2>7 DEF Admitted, Passing
  <2> QED
    BY <1>1, <1>2, <1>5, <2>9, <2>10 DEF Api!Next
<1> QED
  BY <1>3, <1>4, <1>5

\* What a step does to the API.
LEMMA StepsAreApi ==
  ASSUME TypeOK, InStep, OneBusy, OneBusy', Admitted, Next
  PROVE  /\ Admitted'
         /\ \/ ApiStore' = ApiStore /\ transaction' = transaction
            \/ Api!Next /\ transaction' = transaction + 1
            \/ /\ Api!Next /\ transaction' = transaction
               /\ \E w \in Workers : InsertAndFailToWrite(w) \/ EraseButFailToUnregister(w)
<1>1. PICK w \in Workers : Receive(w) \/ Step(w)
  BY DEF Next
<1>2. CASE ~(Busy(w) /\ pc'[w] = "idle")
  <2>1. ApiStore' = ApiStore /\ transaction' = transaction
    BY <1>1, <1>2, WorkIsHidden
  <2> QED
    BY <2>1 DEF Admitted, Passing
<1>3. CASE Busy(w) /\ pc'[w] = "idle"
  <2>1. ApiStore = before[w] /\ ApiStore' = Content(unit')
    BY <1>1, <1>3, ReturnShows
  <2>2. CASE Store(w)
    BY <2>1, <2>2, SuccessIsApiStep
  <2>3. CASE ~Store(w)
    BY <1>3, <2>1, <2>3, Returns, FailureIsApiStep
  <2> QED
    BY <2>2, <2>3
<1> QED
  BY <1>2, <1>3

\* The API starts empty and with nothing counted.
LEMMA StartsAsApi ==
  ASSUME Init
  PROVE  Api!Init /\ Admitted
<1>1. ApiStore = [k \in Keys |-> None]
  BY EmptyConsistent DEF Init, ApiStore, Busy
<1> QED
  BY <1>1 DEF Init, Api!Init, Admitted

\* A step that changes nothing leaves the API as it is.
LEMMA StutterIsApi ==
  ASSUME UNCHANGED vars
  PROVE  ApiStore' = ApiStore /\ UNCHANGED <<transaction, seen, faults>>
BY DEF vars, local, shared, ApiStore, Busy, Content, ValueOf, Has, Find

LEMMA WriterAdmits ==
  ASSUME NoRace
  PROVE  Spec => []Admitted
<1>1. Init => Admitted
  BY StartsAsApi
<1>2. (TypeOK /\ OneBusy /\ InStep) /\ (TypeOK /\ OneBusy /\ InStep)' /\ Admitted /\ [Next]_vars
        => Admitted'
  <2> SUFFICES ASSUME TypeOK, OneBusy, InStep, OneBusy', Admitted, [Next]_vars
               PROVE  Admitted'
    OBVIOUS
  <2>1. CASE UNCHANGED vars
    BY <2>1, StutterIsApi DEF Admitted, Passing
  <2>2. CASE Next
    BY <2>2, StepsAreApi
  <2> QED
    BY <2>1, <2>2
<1> QED
  BY <1>1, <1>2, WriterInStep, PTL DEF Spec

\* The handlers implement the atomic API: every successful request is one step of it and is
\* counted once; a failed one touches no key it did not name and is not counted; nothing
\* unchecked enters.
THEOREM WriterImplementsApi ==
  ASSUME NoRace
  PROVE  Spec => ImplementsApi
<1>1. Init => Api!Init
  BY StartsAsApi
<1>2. (TypeOK /\ OneBusy /\ InStep) /\ (TypeOK /\ OneBusy /\ InStep)' /\ Admitted /\ [Next]_vars
        => [Api!Next]_(Api!vars)
  <2> SUFFICES ASSUME TypeOK, OneBusy, InStep, OneBusy', Admitted, [Next]_vars
               PROVE  [Api!Next]_(Api!vars)
    OBVIOUS
  <2>1. CASE UNCHANGED vars
    BY <2>1, StutterIsApi DEF Api!vars
  <2>2. CASE Next
    BY <2>2, StepsAreApi DEF Api!vars
  <2> QED
    BY <2>1, <2>2
<1> QED
  BY <1>1, <1>2, WriterInStep, WriterAdmits, PTL DEF Spec, ImplementsApi

-----------------------------------------------------------------------------
(* The Transaction header                                                    *)

\* One thread's collection GET takes the count of the elements it shows; what the last one
\* showed is still so while the counter is what it was.
LEMMA OneThreadSees ==
  ASSUME Alone
  PROVE  Spec => []SeenInStep
<1>1. Init => SeenInStep
  BY DEF Init, SeenInStep
<1>2. (TypeOK /\ OneBusy /\ InStep) /\ (TypeOK /\ OneBusy /\ InStep)' /\ Admitted /\ SeenInStep
        /\ [Next]_vars => SeenInStep'
  <2> SUFFICES ASSUME TypeOK, OneBusy, InStep, TypeOK', OneBusy', Admitted, SeenInStep, [Next]_vars
               PROVE  SeenInStep'
    OBVIOUS
  <2>1. CASE UNCHANGED vars
    BY <2>1, StutterIsApi DEF vars, local, shared, SeenInStep, Shown, Size
  <2>2. CASE Next
    <3>1. PICK w \in Workers : Receive(w) \/ Step(w)
      BY <2>2 DEF Next
    <3>2. \A v \in Workers : v = w
      BY DEF Alone
    <3>3. ASSUME pc'[w] \in {"lock", "body"}, req'[w].op = "GETALL" PROVE reg'[w] = Size(unit')
      <4>1. CASE Checked(w)
        BY <3>3, <4>1 DEF TypeOK, Checked, shared
      <4>2. CASE Acquire(w)
        BY <3>3, <4>2 DEF TypeOK, Acquire, SeenInStep, shared
      <4>3. CASE Receive(w) \/ AcceptElement(w)
        BY <3>3, <4>3 DEF TypeOK, Receive, AcceptElement, Goto
      <4>4. CASE Return(w)
        BY <3>3, <4>4 DEF TypeOK, Return, Goto
      <4>5. CASE UpsertDone(w) \/ UnregisterAndErase(w) \/ Clear(w) \/ MergeDone(w)
                 \/ SwapUnit(w) \/ Load(w)
        BY <3>3, <4>5 DEF TypeOK, UpsertDone, UnregisterAndErase, Clear, MergeDone, SwapUnit,
                          Load, Goto
      <4>6. CASE SkipUnchanged(w) \/ InsertAndWrite(w) \/ UnregisterNext(w)
                 \/ MergeSame(w) \/ MergeWrite(w) \/ MergeUnregister(w)
        BY <3>3, <4>6 DEF SkipUnchanged, InsertAndWrite, UnregisterNext, MergeSame, MergeWrite,
                          MergeUnregister, Upserting, Clearing, Merging
      <4> QED
        BY <3>1, <4>1, <4>2, <4>3, <4>4, <4>5, <4>6
        DEF Step, Refuse, RefuseElement, InsertAndFailToWrite, DeleteMissing,
            EraseButFailToUnregister, ClearFails, MergeFails, Store, Get, GetAll
    <3>4. transaction' \in Nat /\ transaction \in Nat /\ transaction' >= transaction
          /\ seen.transaction \in Int
      <4>1. transaction' = transaction \/ transaction' = transaction + 1
        BY <2>2, StepsAreApi
      <4>2. transaction \in Nat /\ seen.transaction \in Nat \cup {-1}
        BY DEF TypeOK
      <4> QED
        BY <4>1, <4>2
    <3>5. faults \in Nat /\ (faults' = 0 => faults = 0)
      <4>1. faults \in Nat
        BY DEF TypeOK
      <4>2. DdsFault => faults' = faults + 1
        BY DEF DdsFault
      <4>3. faults' = faults \/ faults' = faults + 1
        BY <3>1, <4>2
        DEF Step, shared, Receive, Refuse, RefuseElement, AcceptElement, Checked, Acquire,
            SkipUnchanged, InsertAndWrite, InsertAndFailToWrite, UpsertDone, DeleteMissing,
            UnregisterAndErase, EraseButFailToUnregister, UnregisterNext, ClearFails, Clear,
            MergeSame, MergeWrite, MergeUnregister, MergeFails, MergeDone, SwapUnit, Load,
            Store, Get, GetAll, Written, Unregistered, UnregisterFails
      <4> QED
        BY <4>1, <4>3
    <3>6. CASE GetAll(w)
      <4>1. /\ pc[w] = "body" /\ req[w].op = "GETALL" /\ Busy(w) /\ pc'[w] = "idle"
            /\ seen' = [transaction |-> transaction, content |-> Page(w)]
            /\ unit' = unit /\ transaction' = transaction
        BY <3>6 DEF TypeOK, GetAll, Return, Goto, Busy, shared
      <4>2. ApiStore' = Content(unit)
        BY <3>1, <4>1, ReturnShows
      <4>3. reg[w] = Size(unit) /\ Consistent(unit) /\ Size(unit) \in Nat
        BY <4>1, ContainerTypes DEF SeenInStep, TypeOK
      <4>4. Page(w) = {unit.list[i] : i \in 1..Size(unit)}
        BY <4>3 DEF Page
      <4>5. Page(w) = Shown(Content(unit))
        BY <4>3, <4>4, ListIsContent
      <4> QED
        BY <3>2, <3>3, <3>4, <4>1, <4>2, <4>5 DEF SeenInStep, Shown
    <3>7. CASE ~GetAll(w)
      <4>1. seen' = seen
        BY <3>1, <3>7
        DEF Step, Receive, Refuse, RefuseElement, AcceptElement, Checked, Acquire,
            SkipUnchanged, InsertAndWrite, InsertAndFailToWrite, UpsertDone, DeleteMissing,
            UnregisterAndErase, EraseButFailToUnregister, UnregisterNext, ClearFails, Clear,
            MergeSame, MergeWrite, MergeUnregister, MergeFails, MergeDone, SwapUnit, Load,
            Store, Get
      <4>2. ApiStore' = ApiStore \/ transaction' = transaction + 1 \/ faults' > 0
        BY <2>2, StepsAreApi, FailsCaused
      <4>3. seen.transaction = transaction' /\ faults' = 0
              => seen'.content = Shown(ApiStore')
        BY <3>4, <3>5, <4>1, <4>2 DEF SeenInStep
      <4> QED
        BY <3>2, <3>3, <3>4, <4>1, <4>3 DEF SeenInStep, Shown
    <3> QED
      BY <3>6, <3>7
  <2> QED
    BY <2>1, <2>2
<1>3. NoRace
  BY DEF NoRace
<1> QED
  BY <1>1, <1>2, <1>3, WriterInStep, WriterAdmits, PTL DEF Spec

\* Two collection GETs of a Writer with one thread that carry the same Transaction carry
\* the same elements (README.md:106 of HSDS/Writer), as long as no call of DDS has failed.
THEOREM TransactionTellsContent ==
  ASSUME Alone
  PROVE  Spec => SameTransactionSameContent
<1>1. (TypeOK /\ OneBusy /\ InStep) /\ (TypeOK /\ OneBusy /\ InStep)' /\ Admitted
        /\ SeenInStep /\ SeenInStep' /\ [Next]_vars => [faults = 0 => SameContent]_seen
  <2> SUFFICES ASSUME TypeOK, OneBusy, InStep, OneBusy', Admitted, SeenInStep, SeenInStep',
                      [Next]_vars, faults = 0, seen'.transaction = seen.transaction, seen' # seen
               PROVE  seen'.content = seen.content
    BY DEF SameContent
  <2>1. PICK w \in Workers : GetAll(w)
    BY DEF vars, Next, Step, Receive, Refuse, RefuseElement, AcceptElement, Checked, Acquire,
           SkipUnchanged, InsertAndWrite, InsertAndFailToWrite, UpsertDone, DeleteMissing,
           UnregisterAndErase, EraseButFailToUnregister, UnregisterNext, ClearFails, Clear,
           MergeSame, MergeWrite, MergeUnregister, MergeFails, MergeDone, SwapUnit, Load,
           Store, Get
  <2>2. /\ seen'.transaction = transaction /\ transaction' = transaction /\ faults' = faults
        /\ pc[w] = "body" /\ Busy(w) /\ unit' = unit
    BY <2>1 DEF GetAll, shared, Busy
  <2>3. pc'[w] = "idle" /\ Step(w) /\ req[w].op = "GETALL"
    BY <2>1 DEF TypeOK, GetAll, Return, Goto, Step
  <2>4. ApiStore' = Content(unit) /\ ApiStore = before[w]
    BY <2>2, <2>3, ReturnShows
  <2>5. before[w] = Content(unit)
    BY <2>2, <2>3, AtWork DEF Working, ContainerSoFar
  <2>6. seen'.content = Shown(ApiStore') /\ seen.content = Shown(ApiStore)
    BY <2>2 DEF SeenInStep, Shown
  <2> QED
    BY <2>4, <2>5, <2>6
<1>2. NoRace
  BY DEF NoRace
<1> QED
  BY <1>1, <1>2, WriterInStep, WriterAdmits, OneThreadSees, PTL
  DEF Spec, SameTransactionSameContent

=============================================================================
