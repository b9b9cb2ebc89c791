---------------------------- MODULE Router_proofs ----------------------------
(***************************************************************************)
(* Theorems about Router for any numbers of clients, files and lines, and  *)
(* any bound on the breakpoints that are set.                              *)
(***************************************************************************)
EXTENDS Router, TLAPS

\* The parameters of a request: those of its operation, each of some kind.
Arguments == (UNION {[Fields(op) -> Kinds] : op \in Operations}) \cup {<<>>}

Reasons ==
    {"none", "unknown_route", "no_body", "no_operation", "invalid", "no_backend",
     "unknown_operation", "bad_parameter", "no_breakpoint", "no_GDB", "backend_failed"}

RequestRecords ==
    [op : Operations \cup {"none"}, args : Arguments, path : Paths, line : Int,
     id : Ids \cup {NoSuch}, target : Int,
     st : {"none", "launching", "waiting", "answered"}, status : Int, why : Reasons,
     tool : BOOLEAN]

TypeOK ==
    /\ request \in [Clients -> RequestRecords]
    /\ queue \in Seq(Clients)
    /\ nextId \in Nat \ {0}

\* A client whose command is in the channel waits, and has but one there.
Queued ==
    /\ \A i \in 1..Len(queue) : request[queue[i]].st = "waiting"
    /\ \A i, j \in 1..Len(queue) : queue[i] = queue[j] => i = j

\* Numbers are given once, also by GDB and the backend's list.
Numbered ==
    /\ \A b \in list \cup gdb : b.id \in Int /\ 0 < b.id /\ b.id < nextId
    /\ \A b \in list, d \in gdb : b.id = d.id => b = d

\* How a removal came to its number: it was given, or it is that of a breakpoint that was
\* found, which is the one of that number in GDB as long as that has it.
Sought(r) ==
    \/ r.target = r.id /\ r.id # All
    \/ r.target = All /\ Given(r.args, "id") = "blank"
    \/ r.target = NoSuch
    \/ /\ r.target # All /\ r.target < nextId
       /\ \A b \in gdb : b.id = r.target => Near(b, r) /\ Within(b, r)

\* What is in the channel has passed validation.
Passed(r) ==
    r.op # "status" => r.op \in DOMAIN Dispatch /\ Valid(r) /\ r.args \in [Fields(r.op) -> Kinds]

Waiting ==
    \A c \in Clients : request[c].st = "waiting" =>
        /\ request[c].op = "remove_breakpoint" => Sought(request[c])
        /\ Passed(request[c])

IInv == TypeOK /\ Queued /\ Numbered /\ Waiting

-----------------------------------------------------------------------------
(* What clients send. *)

LEMMA NoRequestType ==
    /\ NoRequest \in RequestRecords /\ NoRequest.st = "none"
    /\ NoRequest.op = "none" /\ NoRequest.args = <<>>
<1>1. <<>> \in Arguments
  BY DEF Arguments
<1>2. Suffix \in Paths /\ NoSuch \in Ids \cup {NoSuch} /\ NoSuch \in Int
  BY DEF Paths, NoSuch
<1> QED
  BY <1>1, <1>2 DEF NoRequest, RequestRecords, Reasons

LEMMA InputsType ==
    ASSUME NEW op \in Operations, NEW r \in Inputs(op)
    PROVE  r \in RequestRecords /\ r.op = op /\ r.st = "none" /\ r.args \in [Fields(op) -> Kinds]
<1>1. \A args \in [Fields(op) -> Kinds] :
          /\ Asks(op, args) \in RequestRecords /\ Asks(op, args).op = op
          /\ Asks(op, args).st = "none" /\ Asks(op, args).args = args
  <2>1. [Fields(op) -> Kinds] \subseteq Arguments
    BY DEF Arguments
  <2> QED
    BY <2>1, NoRequestType DEF Asks, RequestRecords
<1>2. ASSUME NEW q \in RequestRecords, NEW p \in Paths, NEW l \in Int
      PROVE  /\ At(q, p, l) \in RequestRecords /\ At(q, p, l).op = q.op
             /\ At(q, p, l).st = q.st /\ At(q, p, l).args = q.args
  BY DEF At, RequestRecords
<1>3. ASSUME NEW q \in RequestRecords, NEW i \in Ids
      PROVE  /\ ById(q, i) \in RequestRecords /\ ById(q, i).op = q.op
             /\ ById(q, i).st = q.st /\ ById(q, i).args = q.args
  BY DEF ById, RequestRecords
<1>4. ASSUME NEW q \in Plain(op)
      PROVE  q \in RequestRecords /\ q.op = op /\ q.st = "none"
             /\ q.args \in [Fields(op) -> Kinds]
  BY <1>1 DEF Plain
<1>5. 1..MaxLine \subseteq Int /\ 1 \in Int
  BY ConstantsAssumption
<1>6. \/ r \in Plain(op)
      \/ \E q \in Plain(op), p \in Paths, l \in Int : r = At(q, p, l)
      \/ \E q \in Plain(op), i \in Ids : r = ById(q, i)
  BY <1>5 DEF Inputs, Naming
<1> QED
  BY <1>2, <1>3, <1>4, <1>6

LEMMA SendsType ==
    ASSUME NEW c \in Clients, NEW ops, NEW r \in Sends(c, ops)
    PROVE  /\ request[c] = NoRequest /\ r \in RequestRecords
           /\ r.op \in ops /\ r.op \in Operations
           /\ r.st = "none" /\ r.args \in [Fields(r.op) -> Kinds]
<1>1. request[c] = NoRequest /\ r.op \in ops /\ r \in AnyInput \cup UsualInput
  BY DEF Sends
<1>2. OnBreakpoints \subseteq Operations
  BY DEF OnBreakpoints, Operations, Advertised
<1>3. PICK op \in Operations : r \in Inputs(op)
  BY <1>1, <1>2 DEF AnyInput, UsualInput
<1> QED
  BY <1>1, <1>3, InputsType

LEMMA AnswerType ==
    ASSUME NEW r, NEW status \in Int, NEW why \in Reasons
    PROVE  Answer(r, status, why) \in RequestRecords /\ Answer(r, status, why).st = "answered"
<1>1. AsTool(r) \in BOOLEAN
  BY DEF AsTool
<1> QED
  BY <1>1, NoRequestType DEF Answer, RequestRecords

-----------------------------------------------------------------------------
(* The steps, by what they do to the channel. *)

\* What GDB has later was there or has a new number.
Grows == \A b \in gdb' : b \in gdb \/ b.id = nextId

\* A removal stays sought.
LEMMA SoughtStays ==
    ASSUME NEW r \in RequestRecords, Sought(r), nextId \in Nat, nextId' \in Nat,
           nextId <= nextId', Grows
    PROVE  Sought(r)'
<1>1. r.target \in Int
  BY DEF RequestRecords
<1>2. CASE /\ r.target # All /\ r.target < nextId
           /\ \A b \in gdb : b.id = r.target => Near(b, r) /\ Within(b, r)
  <2>1. r.target < nextId' /\ r.target # nextId
    BY <1>1, <1>2
  <2>2. \A b \in gdb' : b.id = r.target => Near(b, r) /\ Within(b, r)
    BY <1>2, <2>1 DEF Grows
  <2> QED
    BY <1>2, <2>1, <2>2 DEF Sought
<1> QED
  BY <1>2 DEF Sought

\* What a step may do to GDB's table and the backend's list.
Kept ==
    nextId \in Nat \ {0} /\ nextId' \in Nat \ {0} /\ nextId <= nextId' /\ Numbered' /\ Grows

LEMMA ShrinksInv ==
    ASSUME IInv, gdb' \subseteq gdb, list' \subseteq list, UNCHANGED nextId PROVE Kept
BY DEF IInv, TypeOK, Numbered, Grows, Kept

\* A new breakpoint, which the list may show.
LEMMA InsertsInv ==
    ASSUME IInv, NEW path, NEW lines, NEW kind, Inserts(path, lines, kind)
    PROVE  Kept /\ gdb \subseteq gdb'
<1>1. PICK b \in Breakpoint :
          /\ b.id = nextId /\ gdb' = gdb \cup {b} /\ nextId' = nextId + 1
          /\ list' \in {list, list \cup {b}}
  BY DEF Inserts
<1>2. nextId \in Nat \ {0}
  BY DEF IInv, TypeOK
<1>3. \A d \in list \cup gdb : d.id \in Int /\ 0 < d.id /\ d.id < nextId
  BY DEF IInv, Numbered
<1>4. \A d \in list' \cup gdb' : d.id \in Int /\ 0 < d.id /\ d.id < nextId'
  BY <1>1, <1>2, <1>3
<1>5. \A d \in list', e \in gdb' : d.id = e.id => d = e
  <2> SUFFICES ASSUME NEW d \in list', NEW e \in gdb', d.id = e.id PROVE d = e
    OBVIOUS
  <2>1. (d \in list \/ d = b) /\ (e \in gdb \/ e = b)
    BY <1>1
  <2>2. d \in list => e # b
    BY <1>1, <1>2, <1>3
  <2>3. e \in gdb => d # b
    BY <1>1, <1>2, <1>3
  <2> QED
    BY <2>1, <2>2, <2>3 DEF IInv, Numbered
<1> QED
  BY <1>1, <1>2, <1>4, <1>5 DEF Numbered, Grows, Kept

\* A client that does not wait changes its request and does not wait.
LEMMA OffChannel ==
    ASSUME IInv, NEW c \in Clients, NEW q \in RequestRecords, q.st # "waiting",
           request[c].st # "waiting", request' = [request EXCEPT ![c] = q],
           UNCHANGED queue, Kept
    PROVE  IInv'
<1>1. /\ request' \in [Clients -> RequestRecords] /\ request'[c] = q
      /\ \A d \in Clients : d # c => request'[d] = request[d]
  BY DEF IInv, TypeOK
<1>2. TypeOK'
  BY <1>1 DEF IInv, TypeOK, Kept
<1>3. Queued'
  <2>1. \A i \in 1..Len(queue) : queue[i] \in Clients /\ queue[i] # c
    BY DEF IInv, TypeOK, Queued
  <2> QED
    BY <1>1, <2>1 DEF IInv, Queued
<1>4. Numbered'
  BY DEF Kept
<1>5. Waiting'
  <2> SUFFICES ASSUME NEW d \in Clients, request'[d].st = "waiting"
               PROVE  /\ request'[d].op = "remove_breakpoint" => Sought(request[d])'
                      /\ Passed(request[d])'
    BY DEF Waiting
  <2>1. PICK r \in RequestRecords : r = request[d]
    BY DEF IInv, TypeOK
  <2>2. request'[d] = r /\ request[d].st = "waiting"
    BY <1>1, <2>1
  <2>3. ASSUME r.op = "remove_breakpoint" PROVE Sought(r)'
    <3>1. Sought(r)
      BY <2>1, <2>2, <2>3 DEF IInv, Waiting
    <3> QED
      BY <3>1, SoughtStays DEF Kept
  <2>4. Passed(r)
    BY <2>1, <2>2 DEF IInv, Waiting
  <2> QED
    BY <2>2, <2>3, <2>4
<1> QED
  BY <1>2, <1>3, <1>4, <1>5 DEF IInv

LEMMA TailAt ==
    ASSUME NEW s \in Seq(Clients), s # <<>>
    PROVE  /\ Tail(s) \in Seq(Clients) /\ Head(s) = s[1] /\ 1 \in 1..Len(s)
           /\ \A i \in 1..Len(Tail(s)) :
                 i + 1 \in 1..Len(s) /\ Tail(s)[i] = s[i + 1] /\ i + 1 # 1
OBVIOUS

LEMMA AppendAt ==
    ASSUME NEW s \in Seq(Clients), NEW c \in Clients
    PROVE  /\ Append(s, c) \in Seq(Clients) /\ Len(Append(s, c)) = Len(s) + 1 /\ Len(s) \in Nat
           /\ \A i \in 1..Len(s) : Append(s, c)[i] = s[i]
           /\ Append(s, c)[Len(s) + 1] = c
OBVIOUS

\* A request enters the channel.
LEMMA EntersChannel ==
    ASSUME IInv, NEW c \in Clients, NEW q \in RequestRecords, request[c].st # "waiting",
           q.op = "remove_breakpoint" => Sought(q), Passed(q), Enqueues(c, q)
    PROVE  IInv'
<1> DEFINE w == [q EXCEPT !.st = "waiting"]
<1>1. /\ w \in RequestRecords /\ w.st = "waiting" /\ w.op = q.op /\ w.args = q.args
      /\ w.id = q.id /\ w.target = q.target /\ w.path = q.path /\ w.line = q.line
  BY DEF RequestRecords
<1>2. /\ request' = [request EXCEPT ![c] = w] /\ queue' = Append(queue, c)
      /\ UNCHANGED <<list, gdb, nextId>>
  BY DEF Enqueues
<1>3. (w.op = "remove_breakpoint" => Sought(w)) /\ Passed(w)
  <2>1. Sought(q) => Sought(w)
    BY <1>1 DEF Sought, Near, Within
  <2>2. Passed(w)
    BY <1>1 DEF Passed, Valid
  <2> QED
    BY <1>1, <2>1, <2>2
<1> HIDE DEF w
<1>4. /\ request' \in [Clients -> RequestRecords] /\ request'[c] = w
      /\ \A d \in Clients : d # c => request'[d] = request[d]
  BY <1>1, <1>2 DEF IInv, TypeOK
<1>5. /\ queue' \in Seq(Clients) /\ Len(queue') = Len(queue) + 1 /\ Len(queue) \in Nat
      /\ \A i \in 1..Len(queue) : queue'[i] = queue[i]
      /\ queue'[Len(queue) + 1] = c
  BY <1>2, AppendAt DEF IInv, TypeOK
<1>6. \A i \in 1..Len(queue) :
          queue[i] \in Clients /\ queue[i] # c /\ request[queue[i]].st = "waiting"
  BY DEF IInv, TypeOK, Queued
<1>7. TypeOK'
  BY <1>2, <1>4, <1>5 DEF IInv, TypeOK
<1>8. Queued'
  <2>1. \A i \in 1..Len(queue') : i \in 1..Len(queue) \/ i = Len(queue) + 1
    BY <1>5
  <2>2. ASSUME NEW i \in 1..Len(queue') PROVE request'[queue'[i]].st = "waiting"
    BY <2>1, <1>1, <1>4, <1>5, <1>6
  <2>3. ASSUME NEW i \in 1..Len(queue'), NEW j \in 1..Len(queue'), queue'[i] = queue'[j]
        PROVE  i = j
    <3>1. CASE i \in 1..Len(queue) /\ j \in 1..Len(queue)
      BY <2>3, <3>1, <1>5 DEF IInv, Queued
    <3>2. CASE i = Len(queue) + 1 /\ j \in 1..Len(queue)
      BY <2>3, <3>2, <1>5, <1>6
    <3>3. CASE j = Len(queue) + 1 /\ i \in 1..Len(queue)
      BY <2>3, <3>3, <1>5, <1>6
    <3> QED
      BY <2>1, <3>1, <3>2, <3>3
  <2> QED
    BY <2>2, <2>3 DEF Queued
<1>9. Numbered'
  BY <1>2 DEF IInv, Numbered
<1>10. Waiting'
  <2> SUFFICES ASSUME NEW d \in Clients, request'[d].st = "waiting"
               PROVE  /\ request'[d].op = "remove_breakpoint" => Sought(request[d])'
                      /\ Passed(request[d])'
    BY DEF Waiting
  <2>1. PICK r \in RequestRecords : r = request'[d]
    BY <1>4
  <2>2. (r.op = "remove_breakpoint" => Sought(r)) /\ Passed(r)
    <3>1. CASE d = c
      BY <3>1, <2>1, <1>3, <1>4
    <3>2. CASE d # c
      BY <3>2, <2>1, <1>4 DEF IInv, Waiting
    <3> QED
      BY <3>1, <3>2
  <2>3. Sought(r) => Sought(r)'
    BY <1>2 DEF Sought
  <2> QED
    BY <2>1, <2>2, <2>3
<1> QED
  BY <1>7, <1>8, <1>9, <1>10 DEF IInv

\* The first request leaves the channel, and GDB may have changed.
Leaves(c, q) ==
    /\ queue # <<>> /\ c = Head(queue) /\ queue' = Tail(queue)
    /\ request' = [request EXCEPT ![c] = q]

LEMMA LeavesChannel ==
    ASSUME IInv, NEW c \in Clients, NEW q \in RequestRecords, q.st = "answered", Leaves(c, q),
           Kept
    PROVE  IInv'
<1>1. /\ request' \in [Clients -> RequestRecords] /\ request'[c] = q
      /\ \A d \in Clients : d # c => request'[d] = request[d]
  BY DEF Leaves, IInv, TypeOK
<1>2. /\ queue' \in Seq(Clients) /\ c = queue[1] /\ 1 \in 1..Len(queue)
      /\ \A i \in 1..Len(queue') :
             i + 1 \in 1..Len(queue) /\ queue'[i] = queue[i + 1] /\ i + 1 # 1
  BY TailAt DEF Leaves, IInv, TypeOK
<1>3. TypeOK'
  BY <1>1, <1>2 DEF TypeOK, Kept
<1>4. Queued'
  <2>1. ASSUME NEW i \in 1..Len(queue') PROVE request'[queue'[i]].st = "waiting"
    <3>1. queue[i + 1] # c /\ request[queue[i + 1]].st = "waiting" /\ queue[i + 1] \in Clients
      BY <1>2 DEF IInv, Queued, TypeOK
    <3> QED
      BY <3>1, <1>1, <1>2
  <2>2. ASSUME NEW i \in 1..Len(queue'), NEW j \in 1..Len(queue'), queue'[i] = queue'[j]
        PROVE  i = j
    <3>1. i + 1 = j + 1
      BY <2>2, <1>2 DEF IInv, Queued
    <3> QED
      BY <3>1
  <2> QED
    BY <2>1, <2>2 DEF Queued
<1>5. Waiting'
  <2> SUFFICES ASSUME NEW d \in Clients, request'[d].st = "waiting"
               PROVE  /\ request'[d].op = "remove_breakpoint" => Sought(request[d])'
                      /\ Passed(request[d])'
    BY DEF Waiting
  <2>1. d # c
    BY <1>1
  <2>2. PICK r \in RequestRecords : r = request[d] /\ r = request'[d]
    BY <1>1, <2>1
  <2>3. (r.op = "remove_breakpoint" => Sought(r)) /\ Passed(r)
    BY <2>2 DEF IInv, Waiting
  <2>4. Sought(r) => Sought(r)'
    BY SoughtStays DEF Kept
  <2> QED
    BY <2>2, <2>3, <2>4
<1> QED
  BY <1>3, <1>4, <1>5 DEF IInv, Kept

-----------------------------------------------------------------------------
(* The actions. *)

LEMMA InitInv == Init => IInv
<1> SUFFICES ASSUME Init PROVE IInv
  OBVIOUS
<1>1. /\ request = [c \in Clients |-> NoRequest] /\ queue = <<>> /\ list = {} /\ gdb = {}
      /\ nextId = 1
  BY DEF Init
<1>2. ASSUME NEW c \in Clients PROVE request[c].st = "none"
  <2>1. request[c] = NoRequest
    BY <1>1
  <2> QED
    BY <2>1, NoRequestType
<1>3. TypeOK /\ Queued
  BY <1>1, NoRequestType DEF TypeOK, Queued
<1>4. Numbered /\ Waiting
  BY <1>1, <1>2 DEF Numbered, Waiting
<1> QED
  BY <1>3, <1>4 DEF IInv

\* An answer at once.
LEMMA AnswersAtOnce ==
    ASSUME IInv, NEW c \in Clients, NEW r, NEW status \in Int, NEW why \in Reasons,
           request[c].st # "waiting", Answers(c, r, status, why)
    PROVE  IInv' /\ UNCHANGED gdb
<1>1. /\ request' = [request EXCEPT ![c] = Answer(r, status, why)]
      /\ UNCHANGED <<queue, list, gdb, nextId>>
  BY DEF Answers
<1>2. Answer(r, status, why) \in RequestRecords /\ Answer(r, status, why).st = "answered"
  BY AnswerType
<1>3. Kept
  BY <1>1, ShrinksInv
<1> QED
  BY <1>1, <1>2, <1>3, OffChannel

LEMMA RejectInv ==
    ASSUME IInv, NEW c \in Clients, Reject(c) \/ WithoutBackend(c) \/ NoBackend(c) \/ Unknown(c)
    PROVE  IInv' /\ UNCHANGED gdb
<1>1. ASSUME NEW ops, NEW r \in Sends(c, ops) PROVE request[c].st # "waiting"
  BY SendsType, NoRequestType
<1>2. CASE Reject(c)
  <2>1. CASE \E why \in {"unknown_route", "no_body", "no_operation"} :
                request[c] = NoRequest /\ Answers(c, NoRequest, 500, why)
    <3>1. PICK why \in Reasons : request[c] = NoRequest /\ Answers(c, NoRequest, 500, why)
      BY <2>1 DEF Reasons
    <3> QED
      BY <3>1, AnswersAtOnce, NoRequestType
  <2>2. CASE \E r \in Sends(c, Operations \ (Creates \cup {"ping", "status"})) :
                Answers(c, r, 400, "invalid")
    BY <2>2, <1>1, AnswersAtOnce DEF Reasons
  <2> QED
    BY <1>2, <2>1, <2>2 DEF Reject
<1>3. CASE WithoutBackend(c)
  BY <1>1, <1>3, AnswersAtOnce DEF WithoutBackend, Reasons
<1>4. CASE NoBackend(c)
  BY <1>1, <1>4, AnswersAtOnce DEF NoBackend, Reasons
<1>5. CASE Unknown(c)
  BY <1>1, <1>5, AnswersAtOnce DEF Unknown, Reasons
<1> QED
  BY <1>2, <1>3, <1>4, <1>5

LEMMA LaunchInv ==
    ASSUME IInv, NEW c \in Clients, Launch(c) \/ LaunchEnds(c) \/ Delivered(c)
    PROVE  IInv' /\ gdb \subseteq gdb'
<1>1. Kept /\ gdb \subseteq gdb' /\ UNCHANGED queue
  BY ShrinksInv, InsertsInv DEF Launch, LaunchEnds, Delivered
<1>2. CASE Launch(c)
  <2>1. PICK r \in Sends(c, Creates) :
            request' = [request EXCEPT ![c] = [r EXCEPT !.st = "launching"]]
    BY <1>2 DEF Launch
  <2>2. r \in RequestRecords /\ request[c].st # "waiting"
    BY SendsType, NoRequestType
  <2>3. /\ [r EXCEPT !.st = "launching"] \in RequestRecords
        /\ [r EXCEPT !.st = "launching"].st # "waiting"
    BY <2>2 DEF RequestRecords
  <2> QED
    BY <1>1, <2>1, <2>2, <2>3, OffChannel
<1>3. CASE LaunchEnds(c)
  <2>1. PICK q \in {Answer(request[c], 200, "none"), Answer(request[c], 500, "backend_failed")} :
            request' = [request EXCEPT ![c] = q]
    BY <1>3 DEF LaunchEnds
  <2>2. q \in RequestRecords /\ q.st = "answered"
    BY AnswerType DEF Reasons
  <2> QED
    BY <1>1, <1>3, <2>1, <2>2, OffChannel DEF LaunchEnds
<1>4. CASE Delivered(c)
  BY <1>1, <1>4, NoRequestType, OffChannel DEF Delivered
<1> QED
  BY <1>1, <1>2, <1>3, <1>4

\* The breakpoint that a request names.
LEMMA TargetIsSought ==
    ASSUME IInv, NEW r \in RequestRecords, NEW id \in Target(r)
    PROVE  [r EXCEPT !.target = id] \in RequestRecords /\ Sought([r EXCEPT !.target = id])
<1> DEFINE q == [r EXCEPT !.target = id]
<1>1. id \in Int =>
          /\ q \in RequestRecords /\ q.target = id /\ q.id = r.id /\ q.args = r.args
          /\ q.path = r.path /\ q.line = r.line
  BY DEF RequestRecords
<1>2. /\ r.id \in Ids \cup {NoSuch} /\ \A i \in Ids : i \in Int /\ i # All
      /\ NoSuch \in Int /\ All \in Int
  BY ConstantsAssumption DEF RequestRecords, Ids, NoSuch, All
<1> HIDE DEF q
<1>3. CASE id \in Match(r)
  <2>1. PICK b \in list : Near(b, r) /\ Within(b, r) /\ id = b.id
    BY <1>3 DEF Match
  <2>2. /\ id \in Int /\ 0 < id /\ id < nextId
        /\ \A d \in gdb : d.id = id => d = b
    BY <2>1 DEF IInv, Numbered
  <2>3. \A d \in gdb : d.id = q.target => Near(d, q) /\ Within(d, q)
    BY <1>1, <2>1, <2>2 DEF Near, Within
  <2>4. Sought(q)
    BY <1>1, <2>2, <2>3 DEF Sought, All
  <2> QED
    BY <1>1, <2>2, <2>4 DEF q
<1>4. CASE id = r.id
  <2>1. Sought(q)
    BY <1>1, <1>2, <1>4 DEF Sought
  <2> QED
    BY <1>1, <1>2, <1>4, <2>1 DEF q
<1>5. CASE id = NoSuch \/ (id = All /\ Given(r.args, "id") = "blank")
  <2>1. Sought(q)
    BY <1>1, <1>2, <1>5 DEF Sought
  <2> QED
    BY <1>1, <1>2, <1>5, <2>1 DEF q
<1> QED
  BY <1>3, <1>4, <1>5 DEF Target

\* Nobody but the one who ends the session takes a breakpoint from GDB here.
LEMMA ExecuteInv ==
    ASSUME IInv, NEW c \in Clients, Execute(c)
    PROVE  IInv' /\ (UNCHANGED gdb \/ backend' = "terminated")
<1>1. PICK r \in Sends(c, DOMAIN Dispatch) :
          /\ Valid(r)
          /\ \/ \E why \in Reasons, status \in Int : Answers(c, r, status, why)
             \/ /\ request' = [request EXCEPT ![c] = Answer(r, 200, "none")]
                /\ backend' = "terminated" /\ list' = {} /\ gdb' = {}
                /\ UNCHANGED <<queue, nextId>>
             \/ \E id \in IF r.op = "remove_breakpoint" THEN Target(r) ELSE {NoSuch} :
                   Enqueues(c, [r EXCEPT !.target = id])
  BY DEF Execute, Reasons
<1>2. /\ request[c].st # "waiting" /\ r \in RequestRecords /\ r.op \in DOMAIN Dispatch
      /\ r.args \in [Fields(r.op) -> Kinds]
  BY SendsType, NoRequestType
<1>3. CASE \E why \in Reasons, status \in Int : Answers(c, r, status, why)
  BY <1>2, <1>3, AnswersAtOnce
<1>4. CASE /\ request' = [request EXCEPT ![c] = Answer(r, 200, "none")]
           /\ backend' = "terminated" /\ list' = {} /\ gdb' = {}
           /\ UNCHANGED <<queue, nextId>>
  <2>1. Answer(r, 200, "none") \in RequestRecords /\ Answer(r, 200, "none").st = "answered"
    BY AnswerType DEF Reasons
  <2>2. Kept
    BY <1>4, ShrinksInv
  <2> QED
    BY <1>2, <1>4, <2>1, <2>2, OffChannel
<1>5. ASSUME NEW id \in IF r.op = "remove_breakpoint" THEN Target(r) ELSE {NoSuch},
             Enqueues(c, [r EXCEPT !.target = id])
      PROVE  IInv' /\ UNCHANGED gdb
  <2> DEFINE q == [r EXCEPT !.target = id]
  <2>1. q \in RequestRecords /\ (r.op = "remove_breakpoint" => Sought(q))
    <3>1. CASE r.op = "remove_breakpoint"
      BY <1>2, <3>1, TargetIsSought
    <3>2. CASE r.op # "remove_breakpoint"
      BY <1>2, <3>2 DEF RequestRecords, NoSuch
    <3> QED
      BY <3>1, <3>2
  <2>2. q.op = r.op /\ q.args = r.args
    BY <1>2 DEF RequestRecords
  <2>3. Passed(q)
    BY <1>1, <1>2, <2>2 DEF Passed, Valid
  <2> HIDE DEF q
  <2>4. Enqueues(c, q)
    BY <1>5 DEF q
  <2> QED
    BY <1>2, <2>1, <2>2, <2>3, <2>4, EntersChannel DEF Enqueues
<1> QED
  BY <1>1, <1>3, <1>4, <1>5

LEMMA StatusInv ==
    ASSUME IInv, NEW c \in Clients, Status(c)
    PROVE  IInv' /\ UNCHANGED gdb
<1>1. PICK r \in Sends(c, {"status"}) :
          \/ \E why \in Reasons, status \in Int : Answers(c, r, status, why)
          \/ Enqueues(c, r)
  BY DEF Status, Reasons
<1>2. request[c].st # "waiting" /\ r \in RequestRecords /\ r.op = "status"
  BY SendsType, NoRequestType
<1>3. CASE \E why \in Reasons, status \in Int : Answers(c, r, status, why)
  BY <1>2, <1>3, AnswersAtOnce
<1>4. CASE Enqueues(c, r)
  BY <1>2, <1>4, EntersChannel DEF Passed, Enqueues
<1> QED
  BY <1>1, <1>3, <1>4

LEMMA BackendFailsInv ==
    ASSUME IInv, NEW c \in Clients, BackendFails(c)
    PROVE  IInv' /\ UNCHANGED gdb
<1>1. PICK q \in RequestRecords :
          q = Answer(request[c], 500, "backend_failed") /\ q.st = "answered"
  BY AnswerType DEF Reasons
<1>2. /\ queue # <<>> /\ c = Head(queue) /\ queue' = Tail(queue)
      /\ request' = [request EXCEPT ![c] = q] /\ UNCHANGED <<list, gdb, nextId>>
  BY <1>1 DEF BackendFails
<1>3. Kept
  BY <1>2, ShrinksInv
<1>4. Leaves(c, q)
  BY <1>2 DEF Leaves
<1>5. IInv'
  BY <1>1, <1>3, <1>4, LeavesChannel
<1> QED
  BY <1>2, <1>5

\* What GDB and the backend do of a request that waited: a breakpoint that GDB loses is
\* the one that was targeted, or all are, or it is one in the file.
LEMMA BackendDoesInv ==
    ASSUME IInv, NEW c \in Clients, BackendDoes(c)
    PROVE  /\ IInv' /\ request[c].st = "waiting"
           /\ \A b \in gdb \ gdb' :
                 \/ /\ request[c].op = "remove_all_breakpoints_in_file"
                    /\ InFile(b, request[c].path)
                 \/ request[c].op = "remove_breakpoint" /\ request[c].target \in {b.id, All}
<1>1. request[c].st = "waiting"
  <2>1. c = queue[1] /\ 1 \in 1..Len(queue)
    BY TailAt DEF BackendDoes, IInv, TypeOK
  <2> QED
    BY <2>1 DEF IInv, Queued
<1>2. PICK r \in RequestRecords : r = request[c]
  BY DEF IInv, TypeOK
<1>3. PICK q \in RequestRecords : q = Answer(request[c], 200, "none") /\ q.st = "answered"
  BY AnswerType DEF Reasons
<1>4. Leaves(c, q)
  BY <1>3 DEF BackendDoes, Leaves
<1>5. Kept => IInv'
  BY <1>3, <1>4, LeavesChannel
<1>6. \/ \E path, lines, kind : Inserts(path, lines, kind)
      \/ /\ r.op = "remove_breakpoint"
         /\ gdb' = {b \in gdb : r.target \notin {b.id, All}}
         /\ list' = Forget({r.target}) /\ UNCHANGED nextId
      \/ /\ r.op = "remove_all_breakpoints_in_file"
         /\ \E gone \in SUBSET {b \in gdb : InFile(b, r.path)} :
               gdb' = gdb \ gone /\ list' = Forget(Numbers(gone))
         /\ UNCHANGED nextId
      \/ UNCHANGED <<list, gdb, nextId>>
  BY <1>2 DEF BackendDoes
<1>7. CASE \E path, lines, kind : Inserts(path, lines, kind)
  BY <1>1, <1>5, <1>7, InsertsInv DEF Kept
<1>8. CASE /\ r.op = "remove_breakpoint"
           /\ gdb' = {b \in gdb : r.target \notin {b.id, All}}
           /\ list' = Forget({r.target}) /\ UNCHANGED nextId
  <2>1. IInv'
    BY <1>5, <1>8, ShrinksInv DEF Forget
  <2> QED
    BY <1>1, <1>2, <1>8, <2>1
<1>9. CASE /\ r.op = "remove_all_breakpoints_in_file"
           /\ \E gone \in SUBSET {b \in gdb : InFile(b, r.path)} :
                 gdb' = gdb \ gone /\ list' = Forget(Numbers(gone))
           /\ UNCHANGED nextId
  <2>1. PICK gone \in SUBSET {b \in gdb : InFile(b, r.path)} :
            gdb' = gdb \ gone /\ list' = Forget(Numbers(gone))
    BY <1>9
  <2>2. IInv'
    BY <1>5, <1>9, <2>1, ShrinksInv DEF Forget
  <2>3. \A b \in gdb \ gdb' : InFile(b, r.path)
    BY <2>1
  <2> QED
    BY <1>1, <1>2, <1>9, <2>2, <2>3
<1>10. CASE UNCHANGED <<list, gdb, nextId>>
  BY <1>1, <1>5, <1>10, ShrinksInv
<1> QED
  BY <1>6, <1>7, <1>8, <1>9, <1>10

LEMMA TempHitInv ==
    ASSUME IInv, TempHit
    PROVE  IInv' /\ UNCHANGED request /\ \A b \in gdb \ gdb' : b.kind = "temporary"
<1>1. PICK hit \in gdb : hit.kind = "temporary" /\ gdb' = gdb \ {hit}
  BY DEF TempHit
<1>2. UNCHANGED <<request, queue, list, nextId>>
  BY DEF TempHit
<1>3. TypeOK' /\ Queued' /\ Kept
  BY <1>1, <1>2, ShrinksInv DEF IInv, TypeOK, Queued
<1>4. Waiting'
  <2>1. ASSUME NEW r \in RequestRecords, Sought(r) PROVE Sought(r)'
    BY <1>3, <2>1, SoughtStays DEF Kept
  <2> SUFFICES ASSUME NEW d \in Clients, request'[d].st = "waiting"
               PROVE  /\ request'[d].op = "remove_breakpoint" => Sought(request[d])'
                      /\ Passed(request[d])'
    BY DEF Waiting
  <2>2. PICK r \in RequestRecords : r = request[d]
    BY DEF IInv, TypeOK
  <2>3. r = request'[d] /\ r.st = "waiting"
    BY <1>2, <2>2
  <2>4. (r.op = "remove_breakpoint" => Sought(r)) /\ Passed(r)
    BY <2>2, <2>3 DEF IInv, Waiting
  <2> QED
    BY <2>1, <2>3, <2>4
<1> QED
  BY <1>1, <1>2, <1>3, <1>4 DEF IInv, Kept

-----------------------------------------------------------------------------
(* The tables. *)

\* The operations of which the backend needs a parameter.
NeedyBreakpointOps ==
    {"attach", "write_memory", "set_breakpoint", "set_temp_breakpoint",
     "remove_all_breakpoints_in_file"}

NeedyReadOps ==
    {"jump", "until", "goto_frame", "get_source", "evaluate", "pretty_print", "whatis",
     "execute_statement", "switch_thread"}

LEMMA NeedsAre ==
    /\ \A op \in DOMAIN NeedsOfBreakpoints :
           op \in DOMAIN Needs /\ Needs[op] = NeedsOfBreakpoints[op]
    /\ \A op \in DOMAIN NeedsOfReads :
           op \notin DOMAIN NeedsOfBreakpoints =>
               op \in DOMAIN Needs /\ Needs[op] = NeedsOfReads[op]
BY DEF Needs, Joined

\* Only these methods are called with parameters they cannot do without.
LEMMA NeedyMethods ==
    \A op \in DOMAIN Dispatch : Dispatch[op] \in DOMAIN Signature =>
        op \in NeedyBreakpointOps \cup NeedyReadOps \cup {"read_memory"}
BY DEF Dispatch, Signature, NeedyBreakpointOps, NeedyReadOps

LEMMA NeedyBreakpointNeeds ==
    \A op \in NeedyBreakpointOps :
        /\ op \in DOMAIN Needs \ Unconditional /\ op # "remove_breakpoint"
        /\ Dispatch[op] \notin DOMAIN Renamed /\ Signature[Dispatch[op]] = Needs[op]
<1>1. \A op \in NeedyBreakpointOps :
          op \in DOMAIN NeedsOfBreakpoints \ Unconditional /\ op # "remove_breakpoint"
  BY DEF NeedyBreakpointOps, NeedsOfBreakpoints, Unconditional
<1>2. \A op \in NeedyBreakpointOps :
          Dispatch[op] # "readMemory" /\ Signature[Dispatch[op]] = NeedsOfBreakpoints[op]
  BY DEF NeedyBreakpointOps, NeedsOfBreakpoints, Signature, Dispatch
<1> QED
  BY <1>1, <1>2, NeedsAre DEF Renamed

LEMMA NeedyReadNeeds ==
    \A op \in NeedyReadOps :
        /\ op \in DOMAIN Needs \ Unconditional /\ op # "remove_breakpoint"
        /\ Dispatch[op] \notin DOMAIN Renamed /\ Signature[Dispatch[op]] = Needs[op]
<1>1. \A op \in NeedyReadOps :
          /\ op \in DOMAIN NeedsOfReads \ Unconditional /\ op # "remove_breakpoint"
          /\ op \notin DOMAIN NeedsOfBreakpoints
  BY DEF NeedyReadOps, NeedsOfBreakpoints, NeedsOfReads, Unconditional
<1>2. \A op \in NeedyReadOps :
          Dispatch[op] # "readMemory" /\ Signature[Dispatch[op]] = NeedsOfReads[op]
  BY DEF NeedyReadOps, NeedsOfReads, Signature, Dispatch
<1> QED
  BY <1>1, <1>2, NeedsAre DEF Renamed

\* readMemory is called with the parameters under other names.
LEMMA ReadMemoryNeeds ==
    /\ "read_memory" \in DOMAIN Needs /\ "read_memory" \notin Unconditional
    /\ Dispatch["read_memory"] = "readMemory"
    /\ DOMAIN Signature["readMemory"] = {"address", "length"}
    /\ \A p \in {"address", "length"} :
          /\ p \in DOMAIN Renamed["readMemory"]
          /\ Renamed["readMemory"][p] \in DOMAIN Needs["read_memory"]
          /\ Needs["read_memory"][Renamed["readMemory"][p]] = Signature["readMemory"][p]
<1>1. "read_memory" \in DOMAIN NeedsOfReads /\ "read_memory" \notin DOMAIN NeedsOfBreakpoints
  BY DEF NeedsOfBreakpoints, NeedsOfReads
<1>2. "read_memory" \in DOMAIN Needs /\ Needs["read_memory"] = NeedsOfReads["read_memory"]
  BY <1>1, NeedsAre
<1>3. "read_memory" \notin Unconditional
  BY DEF Unconditional
<1>4. /\ Dispatch["read_memory"] = "readMemory"
      /\ Signature["readMemory"] = [address |-> Text, length |-> Number]
  BY DEF Dispatch, Signature
<1>5. Renamed["readMemory"] = [address |-> "memoryReference", length |-> "count"]
  BY DEF Renamed
<1>6. NeedsOfReads["read_memory"] =
          [memoryReference |-> Text, count |-> Number, offset |-> MaybeNumber]
  BY DEF NeedsOfReads
<1> QED
  BY <1>2, <1>3, <1>4, <1>5, <1>6

\* The parameters that have passed are those that the method needs.
LEMMA NeededArrive ==
    ASSUME NEW r, Passed(r), r.op \in DOMAIN Dispatch, Method(r) \in DOMAIN Signature,
           NEW p \in DOMAIN Signature[Method(r)]
    PROVE  LET f == IF Method(r) \in DOMAIN Renamed /\ p \in DOMAIN Renamed[Method(r)]
                    THEN Renamed[Method(r)][p] ELSE p
           IN  Given(r.args, f) \in Signature[Method(r)][p]
<1>1. r.op \in NeedyBreakpointOps \cup NeedyReadOps \cup {"read_memory"}
  BY NeedyMethods DEF Method
<1>2. r.op # "status" /\ "status" \notin DOMAIN Dispatch
  BY <1>1 DEF NeedyBreakpointOps, NeedyReadOps, Dispatch
<1>3. ValidateOperationArgs(r.op, r.args)
  BY <1>2 DEF Passed, Valid
<1>4. ASSUME r.op \in DOMAIN Needs \ Unconditional, r.op # "remove_breakpoint"
      PROVE  \A f \in DOMAIN Needs[r.op] : Given(r.args, f) \in Needs[r.op][f]
  BY <1>3, <1>4 DEF ValidateOperationArgs
<1>5. CASE r.op \in NeedyBreakpointOps
  BY <1>4, <1>5, NeedyBreakpointNeeds DEF Method
<1>6. CASE r.op \in NeedyReadOps
  BY <1>4, <1>6, NeedyReadNeeds DEF Method
<1>7. CASE r.op = "read_memory"
  <2>1. /\ Method(r) = "readMemory" /\ p \in {"address", "length"}
        /\ "readMemory" \in DOMAIN Renamed
    BY <1>7, ReadMemoryNeeds DEF Method, Renamed
  <2>2. Given(r.args, Renamed["readMemory"][p]) \in Signature["readMemory"][p]
    BY <1>4, <1>7, <2>1, ReadMemoryNeeds
  <2> QED
    BY <2>1, <2>2, ReadMemoryNeeds
<1> QED
  BY <1>1, <1>5, <1>6, <1>7

\* What a tool sends passes validation, and is an operation of the dispatch.
Served(op, args) ==
    \/ op \in Creates
    \/ /\ op \in DOMAIN Dispatch \cup {"get_capabilities"}
       /\ ValidateOperationArgs(op, args)
       /\ op = "write_memory" => Given(args, "data") = "text"

LEMMA ToolSendsAre ==
    \A op \in DOMAIN ToolSends :
        \/ op \in DOMAIN SessionTools /\ ToolSends[op] = SessionTools[op]
        \/ op \in DOMAIN ExecutionTools /\ ToolSends[op] = ExecutionTools[op]
        \/ op \in DOMAIN BreakpointTools /\ ToolSends[op] = BreakpointTools[op]
        \/ op \in DOMAIN FrameTools /\ ToolSends[op] = FrameTools[op]
        \/ op \in DOMAIN InspectionTools /\ ToolSends[op] = InspectionTools[op]
        \/ op \in DOMAIN MachineTools /\ ToolSends[op] = MachineTools[op]
<1>1. ASSUME NEW f, NEW g, NEW op \in DOMAIN Joined(f, g)
      PROVE  \/ op \in DOMAIN f /\ Joined(f, g)[op] = f[op]
             \/ op \in DOMAIN g /\ Joined(f, g)[op] = g[op]
  BY DEF Joined
<1> QED
  BY <1>1 DEF ToolSends

\* The operations whose parameters are validated, by what is asked of them.
LEMMA ServedByNeeds ==
    ASSUME NEW op \in DOMAIN Dispatch, op # "write_memory", NEW args,
           \/ op \in Unconditional
           \/ /\ op \in DOMAIN NeedsOfBreakpoints
              /\ \A f \in DOMAIN NeedsOfBreakpoints[op] :
                    Given(args, f) \in NeedsOfBreakpoints[op][f]
           \/ /\ op \in DOMAIN NeedsOfReads \ DOMAIN NeedsOfBreakpoints
              /\ \A f \in DOMAIN NeedsOfReads[op] : Given(args, f) \in NeedsOfReads[op][f]
    PROVE  Served(op, args)
BY NeedsAre DEF Served, ValidateOperationArgs

LEMMA SessionServed == \A op \in DOMAIN SessionTools : Served(op, SessionTools[op])
<1> SUFFICES ASSUME NEW op \in DOMAIN SessionTools PROVE Served(op, SessionTools[op])
  OBVIOUS
<1>1. op \in {"launch", "attach", "terminate", "restart", "start"}
  BY DEF SessionTools
<1>2. op # "launch" => op \in DOMAIN Dispatch /\ op # "write_memory"
  BY <1>1 DEF Dispatch
<1>3. CASE op = "launch"
  BY <1>3 DEF Served, Creates
<1>4. CASE op = "attach"
  <2>1. SessionTools[op] = [processId |-> "number"]
    BY <1>4 DEF SessionTools
  <2>2. NeedsOfBreakpoints[op] = [processId |-> Number] /\ op \in DOMAIN NeedsOfBreakpoints
    BY <1>4 DEF NeedsOfBreakpoints
  <2> QED
    BY <1>2, <1>4, <2>1, <2>2, ServedByNeeds DEF Given, Number
<1>5. CASE op \in {"terminate", "restart", "start"}
  BY <1>2, <1>5, ServedByNeeds DEF Unconditional
<1> QED
  BY <1>1, <1>3, <1>4, <1>5

LEMMA ExecutionServed == \A op \in DOMAIN ExecutionTools : Served(op, ExecutionTools[op])
<1> SUFFICES ASSUME NEW op \in DOMAIN ExecutionTools PROVE Served(op, ExecutionTools[op])
  OBVIOUS
<1>1. op \in {"continue", "next", "step_in", "step_out", "pause", "jump", "until"}
  BY DEF ExecutionTools
<1>2. op \in DOMAIN Dispatch /\ op # "write_memory"
  BY <1>1 DEF Dispatch
<1>3. CASE op \in {"continue", "next", "step_in", "step_out", "pause"}
  BY <1>2, <1>3, ServedByNeeds DEF Unconditional
<1>4. CASE op \in {"jump", "until"}
  <2>1. ExecutionTools[op] = [line |-> "number"]
    BY <1>4 DEF ExecutionTools
  <2>2. /\ op \in DOMAIN NeedsOfReads \ DOMAIN NeedsOfBreakpoints
        /\ NeedsOfReads[op] = [line |-> Number]
    BY <1>4 DEF NeedsOfReads, NeedsOfBreakpoints
  <2> QED
    BY <1>2, <2>1, <2>2, ServedByNeeds DEF Given, Number
<1> QED
  BY <1>1, <1>3, <1>4

LEMMA FrameServed == \A op \in DOMAIN FrameTools : Served(op, FrameTools[op])
<1> SUFFICES ASSUME NEW op \in DOMAIN FrameTools PROVE Served(op, FrameTools[op])
  OBVIOUS
<1>1. op \in {"stack_trace", "up", "down", "goto_frame"}
  BY DEF FrameTools
<1>2. op \in DOMAIN Dispatch /\ op # "write_memory"
  BY <1>1 DEF Dispatch
<1>3. CASE op \in {"stack_trace", "up", "down"}
  BY <1>2, <1>3, ServedByNeeds DEF Unconditional
<1>4. CASE op = "goto_frame"
  <2>1. FrameTools[op] = [frameId |-> "number"]
    BY <1>4 DEF FrameTools
  <2>2. /\ op \in DOMAIN NeedsOfReads \ DOMAIN NeedsOfBreakpoints
        /\ NeedsOfReads[op] = [frameId |-> Number]
    BY <1>4 DEF NeedsOfReads, NeedsOfBreakpoints
  <2> QED
    BY <1>2, <2>1, <2>2, ServedByNeeds DEF Given, Number
<1> QED
  BY <1>1, <1>3, <1>4

LEMMA InspectionServed == \A op \in DOMAIN InspectionTools : Served(op, InspectionTools[op])
<1> SUFFICES ASSUME NEW op \in DOMAIN InspectionTools PROVE Served(op, InspectionTools[op])
  OBVIOUS
<1>1. op \in {"get_variables", "get_arguments", "get_globals", "list_all_locals",
          "get_scope_preview", "list_source", "get_last_stop_info", "evaluate",
          "pretty_print", "whatis", "get_source", "execute_statement"}
  BY DEF InspectionTools
<1>2. op \in DOMAIN Dispatch /\ op # "write_memory"
  BY <1>1 DEF Dispatch
<1>3. CASE op \in {"get_variables", "get_arguments", "get_globals", "list_all_locals",
                 "get_scope_preview", "list_source", "get_last_stop_info"}
  BY <1>2, <1>3, ServedByNeeds DEF Unconditional
<1>4. CASE op \in {"evaluate", "pretty_print", "whatis", "get_source"}
  <2>1. InspectionTools[op] = [expression |-> "text"]
    BY <1>4 DEF InspectionTools
  <2>2. /\ op \in DOMAIN NeedsOfReads \ DOMAIN NeedsOfBreakpoints
        /\ NeedsOfReads[op] = [expression |-> Text]
    BY <1>4 DEF NeedsOfReads, NeedsOfBreakpoints
  <2> QED
    BY <1>2, <2>1, <2>2, ServedByNeeds DEF Given, Text
<1>5. CASE op = "execute_statement"
  <2>1. InspectionTools[op] = [statement |-> "text"]
    BY <1>5 DEF InspectionTools
  <2>2. /\ op \in DOMAIN NeedsOfReads \ DOMAIN NeedsOfBreakpoints
        /\ NeedsOfReads[op] = [statement |-> Text]
    BY <1>5 DEF NeedsOfReads, NeedsOfBreakpoints
  <2> QED
    BY <1>2, <2>1, <2>2, ServedByNeeds DEF Given, Text
<1> QED
  BY <1>1, <1>3, <1>4, <1>5

LEMMA BreakpointServed == \A op \in DOMAIN BreakpointTools : Served(op, BreakpointTools[op])
<1> SUFFICES ASSUME NEW op \in DOMAIN BreakpointTools PROVE Served(op, BreakpointTools[op])
  OBVIOUS
<1>1. op \in {"get_active_breakpoints", "set_breakpoint", "set_temp_breakpoint",
          "remove_all_breakpoints_in_file", "remove_breakpoint"}
  BY DEF BreakpointTools
<1>2. op \in DOMAIN Dispatch /\ op # "write_memory"
  BY <1>1 DEF Dispatch
<1>3. CASE op \in {"get_active_breakpoints"}
  BY <1>2, <1>3, ServedByNeeds DEF Unconditional
<1>4. CASE op \in {"set_breakpoint", "set_temp_breakpoint"}
  <2>1. BreakpointTools[op] = [location |-> "place"]
    BY <1>4 DEF BreakpointTools
  <2>2. op \in DOMAIN NeedsOfBreakpoints /\ NeedsOfBreakpoints[op] = [location |-> Place]
    BY <1>4 DEF NeedsOfBreakpoints
  <2> QED
    BY <1>2, <2>1, <2>2, ServedByNeeds DEF Given, Place
<1>5. CASE op = "remove_all_breakpoints_in_file"
  <2>1. BreakpointTools[op] = [filePath |-> "text"]
    BY <1>5 DEF BreakpointTools
  <2>2. op \in DOMAIN NeedsOfBreakpoints /\ NeedsOfBreakpoints[op] = [filePath |-> Text]
    BY <1>5 DEF NeedsOfBreakpoints
  <2> QED
    BY <1>2, <2>1, <2>2, ServedByNeeds DEF Given, Text
<1>6. CASE op = "remove_breakpoint"
  <2>1. BreakpointTools[op] = [location |-> "place"]
    BY <1>6 DEF BreakpointTools
  <2> QED
    BY <1>2, <1>6, <2>1 DEF Served, ValidateOperationArgs, Given
<1> QED
  BY <1>1, <1>3, <1>4, <1>5, <1>6

LEMMA MachineServed == \A op \in DOMAIN MachineTools : Served(op, MachineTools[op])
<1> SUFFICES ASSUME NEW op \in DOMAIN MachineTools PROVE Served(op, MachineTools[op])
  OBVIOUS
<1>1. op \in {"get_registers", "read_memory", "write_memory", "list_threads", "switch_thread",
              "get_capabilities"}
  BY DEF MachineTools
<1>2. op # "get_capabilities" => op \in DOMAIN Dispatch
  BY <1>1 DEF Dispatch
<1>3. CASE op = "get_registers"
  <2>1. MachineTools[op] = Bare
    BY <1>3 DEF MachineTools
  <2>2. /\ op \in DOMAIN NeedsOfReads \ DOMAIN NeedsOfBreakpoints
        /\ NeedsOfReads[op] = [frameId |-> MaybeNumber]
    BY <1>3 DEF NeedsOfReads, NeedsOfBreakpoints
  <2>3. Given(Bare, "frameId") = "absent"
    BY DEF Bare, Given
  <2> QED
    BY <1>2, <1>3, <2>1, <2>2, <2>3, ServedByNeeds DEF MaybeNumber
<1>4. CASE op = "read_memory"
  <2>1. MachineTools[op] = [memoryReference |-> "text", count |-> "number"]
    BY <1>4 DEF MachineTools
  <2>2. /\ op \in DOMAIN NeedsOfReads \ DOMAIN NeedsOfBreakpoints
        /\ NeedsOfReads[op] =
              [memoryReference |-> Text, count |-> Number, offset |-> MaybeNumber]
    BY <1>4 DEF NeedsOfReads, NeedsOfBreakpoints
  <2> QED
    BY <1>2, <1>4, <2>1, <2>2, ServedByNeeds DEF Given, Text, Number, MaybeNumber
<1>5. CASE op = "write_memory"
  <2>1. MachineTools[op] = [address |-> "number", data |-> "text"]
    BY <1>5 DEF MachineTools
  <2>2. op \in DOMAIN NeedsOfBreakpoints /\ NeedsOfBreakpoints[op] = [address |-> Number]
    BY <1>5 DEF NeedsOfBreakpoints
  <2>3. op \in DOMAIN Needs /\ Needs[op] = [address |-> Number]
    BY <2>2, NeedsAre
  <2> QED
    BY <1>2, <1>5, <2>1, <2>3 DEF Served, ValidateOperationArgs, Given, Number
<1>6. CASE op = "list_threads"
  BY <1>2, <1>6, ServedByNeeds DEF Unconditional
<1>7. CASE op = "switch_thread"
  <2>1. MachineTools[op] = [threadId |-> "number"]
    BY <1>7 DEF MachineTools
  <2>2. /\ op \in DOMAIN NeedsOfReads \ DOMAIN NeedsOfBreakpoints
        /\ NeedsOfReads[op] = [threadId |-> Number]
    BY <1>7 DEF NeedsOfReads, NeedsOfBreakpoints
  <2> QED
    BY <1>2, <1>7, <2>1, <2>2, ServedByNeeds DEF Given, Number
<1>8. CASE op = "get_capabilities"
  BY <1>8 DEF Served, ValidateOperationArgs, Unconditional
<1> QED
  BY <1>1, <1>3, <1>4, <1>5, <1>6, <1>7, <1>8

\* A request with the parameters of a tool is served as the tool's is.
LEMMA ToolIsServed == ASSUME NEW r, AsTool(r) PROVE Served(r.op, r.args)
<1>1. r.op \in DOMAIN ToolSends
  BY DEF AsTool
<1>2. PICK sent : sent = ToolSends[r.op]
  OBVIOUS
<1>3. Served(r.op, sent)
  BY <1>1, <1>2, ToolSendsAre, SessionServed, ExecutionServed, BreakpointServed, FrameServed,
     InspectionServed, MachineServed
<1>4. \A f \in DOMAIN r.args \cup DOMAIN sent : Given(r.args, f) = Given(sent, f)
  BY <1>2 DEF AsTool
<1>5. \A f : Given(r.args, f) = Given(sent, f)
  BY <1>4 DEF Given
<1> QED
  BY <1>3, <1>5 DEF Served, ValidateOperationArgs

-----------------------------------------------------------------------------
(* The theorems. *)

LEMMA NextInv == IInv /\ [Next]_vars => IInv'
<1> SUFFICES ASSUME IInv, [Next]_vars PROVE IInv'
  OBVIOUS
<1>1. CASE UNCHANGED vars
  BY <1>1 DEF vars, IInv, TypeOK, Queued, Numbered, Waiting, Sought
<1>2. CASE TempHit
  BY <1>2, TempHitInv
<1>3. ASSUME NEW c \in Clients,
             Reject(c) \/ WithoutBackend(c) \/ NoBackend(c) \/ Unknown(c)
      PROVE  IInv'
  BY <1>3, RejectInv
<1>4. ASSUME NEW c \in Clients, Launch(c) \/ LaunchEnds(c) \/ Delivered(c) PROVE IInv'
  BY <1>4, LaunchInv
<1>5. ASSUME NEW c \in Clients, Execute(c) PROVE IInv'
  BY <1>5, ExecuteInv
<1>6. ASSUME NEW c \in Clients, Status(c) PROVE IInv'
  BY <1>6, StatusInv
<1>7. ASSUME NEW c \in Clients, BackendFails(c) PROVE IInv'
  BY <1>7, BackendFailsInv
<1>8. ASSUME NEW c \in Clients, BackendDoes(c) PROVE IInv'
  BY <1>8, BackendDoesInv
<1> QED
  BY <1>1, <1>2, <1>3, <1>4, <1>5, <1>6, <1>7, <1>8 DEF Next

\* Commands are answered in the order in which they were sent, each number is of one
\* breakpoint for GDB and the backend, and a removal under way was asked by number or
\* found what it will delete (router.ts:365-379, MI2.ts:313-333).
THEOREM Invariant == Spec => []IInv
BY InitInv, NextInv, PTL DEF Spec

\* router.ts:365-382, GDBBackend.ts:392-399, 751-776: whatever any number of clients do at
\* once, GDB loses a breakpoint only to a request that named it, to one of the two kinds
\* that take more than they name, to the end of the session or, if it is temporary, to the
\* program.
THEOREM NobodyElsesBreakpoint == Spec => RemovesOnlyNamed
<1> DEFINE Taken(b) ==
        \/ backend' = "terminated"
        \/ b.kind = "temporary" /\ UNCHANGED request
        \/ \E c \in Clients :
              /\ request[c].st = "waiting"
              /\ Names(request[c], b) \/ Overreaches(request[c], b)
<1>1. IInv /\ Next => \A b \in gdb \ gdb' : Taken(b)
  <2> SUFFICES ASSUME IInv, Next, NEW b \in gdb \ gdb' PROVE Taken(b)
    OBVIOUS
  <2>1. CASE TempHit
    BY <2>1, TempHitInv
  <2>2. ASSUME NEW c \in Clients,
               \/ Reject(c) \/ WithoutBackend(c) \/ NoBackend(c) \/ Unknown(c)
               \/ Launch(c) \/ LaunchEnds(c) \/ Delivered(c) \/ Status(c) \/ BackendFails(c)
        PROVE  FALSE
    BY <2>2, RejectInv, LaunchInv, StatusInv, BackendFailsInv
  <2>3. ASSUME NEW c \in Clients, Execute(c) PROVE Taken(b)
    BY <2>3, ExecuteInv
  <2>4. ASSUME NEW c \in Clients, BackendDoes(c) PROVE Taken(b)
    <3>1. PICK r \in RequestRecords : r = request[c] /\ r.st = "waiting"
      BY <2>4, BackendDoesInv DEF IInv, TypeOK
    <3>2. CASE r.op = "remove_all_breakpoints_in_file" /\ InFile(b, r.path)
      <4>1. Names(r, b) \/ Overreaches(r, b)
        BY <3>2 DEF InFile, Names, Overreaches, Near
      <4> QED
        BY <3>1, <4>1
    <3>3. CASE r.op = "remove_breakpoint" /\ r.target \in {b.id, All}
      <4>1. Sought(r)
        BY <3>1, <3>3 DEF IInv, Waiting
      <4>2. b.id # NoSuch /\ b.id # All /\ All # NoSuch
        BY DEF IInv, Numbered, All, NoSuch
      <4>3. \/ r.target = r.id /\ r.target = b.id
            \/ r.target = All /\ Given(r.args, "id") = "blank"
            \/ r.target = b.id /\ Near(b, r) /\ Within(b, r)
        BY <3>3, <4>1, <4>2 DEF Sought
      <4>4. Names(r, b) \/ Overreaches(r, b)
        BY <3>3, <4>3 DEF Names, Overreaches, Within
      <4> QED
        BY <3>1, <4>4
    <3> QED
      BY <2>4, <3>1, <3>2, <3>3, BackendDoesInv
  <2> QED
    BY <2>1, <2>2, <2>3, <2>4 DEF Next
<1>2. IInv /\ [Next]_vars => [\A b \in gdb \ gdb' : Taken(b)]_vars
  BY <1>1
<1> QED
  BY <1>2, Invariant, PTL DEF Spec, RemovesOnlyNamed

\* router.ts:224-289: a method of the backend is called with every parameter that it
\* cannot do without, by whatever operation and parameters a client comes to it.
THEOREM MethodsGetTheirArguments == Spec => []RequiredArgumentsArrive
<1>1. IInv => RequiredArgumentsArrive
  <2> SUFFICES ASSUME IInv, NEW c \in Clients, request[c].st = "waiting",
                      request[c].op \in DOMAIN Dispatch,
                      Method(request[c]) \in DOMAIN Signature,
                      NEW p \in DOMAIN Signature[Method(request[c])]
               PROVE  LET r == request[c]
                          f == IF Method(r) \in DOMAIN Renamed /\ p \in DOMAIN Renamed[Method(r)]
                               THEN Renamed[Method(r)][p] ELSE p
                      IN  Given(r.args, f) \in Signature[Method(r)][p]
    BY DEF RequiredArgumentsArrive
  <2>1. Passed(request[c])
    BY DEF IInv, Waiting
  <2>2. PICK r : r = request[c]
    OBVIOUS
  <2> QED
    BY <2>1, <2>2, NeededArrive
<1> QED
  BY <1>1, Invariant, PTL

\* What a step does to one client's request.
Becomes(c, q) == request' = [request EXCEPT ![c] = q]

Told(c, r, status, why) == Becomes(c, Answer(r, status, why))

LEMMA AnswersTell == \A c, r, status, why : Answers(c, r, status, why) => Told(c, r, status, why)
BY DEF Answers, Told, Becomes

LEMMA OneRequestServed ==
    ASSUME IInv, ToolsAreServed, NEW c \in Clients, NEW q, Becomes(c, q),
           q.st = "answered" /\ q.tool =>
               q.why \notin {"invalid", "unknown_operation", "bad_parameter"}
    PROVE  ToolsAreServed'
<1>1. request'[c] = q /\ \A d \in Clients : d # c => request'[d] = request[d]
  BY DEF Becomes, IInv, TypeOK
<1> QED
  BY <1>1 DEF ToolsAreServed

LEMMA AnswerServed ==
    ASSUME IInv, ToolsAreServed, NEW c \in Clients, NEW r, NEW status \in Int,
           NEW why \in Reasons, Told(c, r, status, why),
           AsTool(r) => why \notin {"invalid", "unknown_operation", "bad_parameter"}
    PROVE  ToolsAreServed'
<1>1. PICK q : q = Answer(r, status, why)
  OBVIOUS
<1>2. q.tool = AsTool(r) /\ q.why = why
  BY <1>1 DEF Answer, NoRequest
<1>3. Becomes(c, q)
  BY <1>1 DEF Told
<1> QED
  BY <1>2, <1>3, OneRequestServed

LEMMA NextServed == IInv /\ ToolsAreServed /\ [Next]_vars => ToolsAreServed'
<1> SUFFICES ASSUME IInv, ToolsAreServed, [Next]_vars PROVE ToolsAreServed'
  OBVIOUS
<1>1. CASE UNCHANGED request
  BY <1>1 DEF ToolsAreServed
<1>2. ASSUME NEW c \in Clients, NEW r, NEW status \in Int,
             NEW why \in {"none", "unknown_route", "no_body", "no_operation", "no_backend",
                          "no_breakpoint", "no_GDB", "backend_failed"},
             Told(c, r, status, why)
      PROVE  ToolsAreServed'
  BY <1>2, AnswerServed DEF Reasons
<1>3. ASSUME NEW c \in Clients, NEW r, NEW status \in Int, NEW why \in Reasons,
             Told(c, r, status, why), ~AsTool(r)
      PROVE  ToolsAreServed'
  BY <1>3, AnswerServed
<1>4. ASSUME NEW c \in Clients, NEW q \in RequestRecords, q.st # "answered", Becomes(c, q)
      PROVE  ToolsAreServed'
  BY <1>4, OneRequestServed
<1>5. ASSUME NEW c \in Clients, Reject(c) PROVE ToolsAreServed'
  <2>1. CASE \E why \in {"unknown_route", "no_body", "no_operation"} :
                Answers(c, NoRequest, 500, why)
    BY <2>1, <1>2, AnswersTell
  <2>2. ASSUME NEW r \in Sends(c, Operations \ (Creates \cup {"ping", "status"})),
               ~Valid(r), Answers(c, r, 400, "invalid")
        PROVE  ToolsAreServed'
    <3>1. r.op \notin Creates
      BY SendsType
    <3>2. ~AsTool(r)
      BY <3>1, <2>2, ToolIsServed DEF Served, Valid
    <3> QED
      BY <2>2, <3>2, <1>3, AnswersTell DEF Reasons
  <2> QED
    BY <1>5, <2>1, <2>2 DEF Reject
<1>6. ASSUME NEW c \in Clients, WithoutBackend(c) \/ NoBackend(c) PROVE ToolsAreServed'
  BY <1>6, <1>2, AnswersTell DEF WithoutBackend, NoBackend
<1>7. ASSUME NEW c \in Clients, Unknown(c) PROVE ToolsAreServed'
  <2>1. PICK r \in Sends(c, Operations \ (DOMAIN Dispatch \cup Creates
                                           \cup {"ping", "status", "get_capabilities"})) :
            Answers(c, r, 500, "unknown_operation")
    BY <1>7 DEF Unknown
  <2>2. r.op \notin Creates /\ r.op \notin DOMAIN Dispatch \cup {"get_capabilities"}
    BY SendsType
  <2>3. ~AsTool(r)
    BY <2>2, ToolIsServed DEF Served
  <2> QED
    BY <2>1, <2>3, <1>3, AnswersTell DEF Reasons
<1>8. ASSUME NEW c \in Clients, NEW r \in RequestRecords, NEW st \in {"waiting", "launching"},
             Becomes(c, [r EXCEPT !.st = st])
      PROVE  ToolsAreServed'
  <2>1. PICK q : q = [r EXCEPT !.st = st]
    OBVIOUS
  <2>2. q \in RequestRecords /\ q.st # "answered"
    BY <2>1 DEF RequestRecords
  <2> QED
    BY <1>8, <2>1, <2>2, <1>4
<1>9. ASSUME NEW c \in Clients, Launch(c) PROVE ToolsAreServed'
  <2>1. PICK r \in Sends(c, Creates) : Becomes(c, [r EXCEPT !.st = "launching"])
    BY <1>9 DEF Launch, Becomes
  <2> QED
    BY <1>8, <2>1, SendsType
<1>10. ASSUME NEW c \in Clients, Execute(c) PROVE ToolsAreServed'
  <2>1. PICK r \in Sends(c, DOMAIN Dispatch) :
            \/ Throws(r) /\ Answers(c, r, 500, "bad_parameter")
            \/ Answers(c, r, 200, "none")
            \/ Becomes(c, Answer(r, 200, "none"))
            \/ Answers(c, r, 500, "no_breakpoint") \/ Answers(c, r, 500, "no_GDB")
            \/ \E id \in IF r.op = "remove_breakpoint" THEN Target(r) ELSE {NoSuch} :
                  Enqueues(c, [r EXCEPT !.target = id])
    BY <1>10 DEF Execute, Becomes
  <2>2. r \in RequestRecords /\ r.op \in DOMAIN Dispatch
    BY SendsType
  <2>3. CASE Throws(r) /\ Answers(c, r, 500, "bad_parameter")
    <3>1. r.op = "write_memory" /\ Given(r.args, "data") # "text" /\ r.op \notin Creates
      BY <2>3 DEF Throws, Creates
    <3>2. ~AsTool(r)
      BY <3>1, ToolIsServed DEF Served
    <3> QED
      BY <2>3, <3>2, <1>3, AnswersTell DEF Reasons
  <2>4. CASE \/ Answers(c, r, 200, "none") \/ Becomes(c, Answer(r, 200, "none"))
             \/ Answers(c, r, 500, "no_breakpoint") \/ Answers(c, r, 500, "no_GDB")
    BY <2>4, <1>2, AnswersTell DEF Told
  <2>5. CASE \E id \in IF r.op = "remove_breakpoint" THEN Target(r) ELSE {NoSuch} :
                Enqueues(c, [r EXCEPT !.target = id])
    <3> PICK id : Enqueues(c, [r EXCEPT !.target = id])
      BY <2>5
    <3>1. PICK q : q = [[r EXCEPT !.target = id] EXCEPT !.st = "waiting"]
      OBVIOUS
    <3>2. q.st = "waiting"
      BY <2>2, <3>1 DEF RequestRecords
    <3>3. Becomes(c, q)
      BY <3>1 DEF Enqueues, Becomes
    <3> QED
      BY <3>2, <3>3, OneRequestServed
  <2> QED
    BY <2>1, <2>3, <2>4, <2>5
<1>11. ASSUME NEW c \in Clients, Status(c) PROVE ToolsAreServed'
  <2>1. PICK r \in Sends(c, {"status"}) :
            \/ Answers(c, r, 200, "none") \/ Answers(c, r, 500, "no_GDB")
            \/ Becomes(c, [r EXCEPT !.st = "waiting"])
    BY <1>11 DEF Status, Enqueues, Becomes
  <2>2. r \in RequestRecords
    BY SendsType
  <2>3. CASE Answers(c, r, 200, "none") \/ Answers(c, r, 500, "no_GDB")
    BY <2>3, <1>2, AnswersTell
  <2>4. CASE Becomes(c, [r EXCEPT !.st = "waiting"])
    BY <2>2, <2>4, <1>8
  <2> QED
    BY <2>1, <2>3, <2>4
<1>12. ASSUME NEW c \in Clients, LaunchEnds(c) \/ BackendFails(c) \/ BackendDoes(c)
       PROVE  ToolsAreServed'
  <2>1. PICK r : r = request[c]
    OBVIOUS
  <2>2. Told(c, r, 200, "none") \/ Told(c, r, 500, "backend_failed")
    <3>1. \/ request' = [request EXCEPT ![c] = Answer(@, 200, "none")]
          \/ request' = [request EXCEPT ![c] = Answer(@, 500, "backend_failed")]
      BY <1>12 DEF LaunchEnds, BackendFails, BackendDoes
    <3> QED
      BY <2>1, <3>1 DEF Told, Becomes, IInv, TypeOK
  <2> QED
    BY <2>2, <1>2
<1>13. ASSUME NEW c \in Clients, Delivered(c) PROVE ToolsAreServed'
  <2>1. Becomes(c, NoRequest)
    BY <1>13 DEF Delivered, Becomes
  <2> QED
    BY <2>1, <1>4, NoRequestType
<1>14. TempHit => UNCHANGED request
  BY DEF TempHit
<1> QED
  BY <1>1, <1>5, <1>6, <1>7, <1>9, <1>10, <1>11, <1>12, <1>13, <1>14 DEF Next, vars

\* debug_mcp.py against validation.ts and router.ts:303-453: no tool of the MCP server
\* is told that its operation or its parameters are wrong.
THEOREM EveryToolIsServed == Spec => []ToolsAreServed
<1>1. Init => ToolsAreServed
  <2> SUFFICES ASSUME Init, NEW c \in Clients PROVE request[c].st # "answered"
    BY DEF ToolsAreServed
  <2>1. request[c] = NoRequest
    BY DEF Init
  <2> QED
    BY <2>1, NoRequestType
<1> QED
  BY <1>1, NextServed, Invariant, PTL DEF Spec
=============================================================================
