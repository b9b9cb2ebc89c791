-------------------------- MODULE Inspection_proofs --------------------------
(***************************************************************************)
(* Proofs about Inspection, for every number of requests, stops, stale     *)
(* commands and frames, and any set of operations: whoever is alone reads  *)
(* of its frame, no stop that is told is older than one already shown, and *)
(* whatis takes back the variable object it made.                          *)
(***************************************************************************)
EXTENDS Inspection, TLAPS

Targets == 0 .. MaxFrame + 1
CommandNames ==
    {"frames", "locals", "select", "arguments", "value", "query", "info", "list", "create",
     "delete", "whatis", "threads", "switch", "insert", "resume"}

Reads == {"locals", "arguments", "value", "info"}
Data == [what : CommandNames \cup {"stop", "none"}, frame : Nat, stop : Nat]

RequestRecords ==
    [op : Ops \cup {"none"}, st : {"none", "waiting", "ready", "answered", "failed"},
     target : Targets, name : Names, script : Seq(CommandNames), data : Seq(Data), ok : BOOLEAN,
     got : Data, solo : BOOLEAN, seen : Nat]

ReplyLines ==
    [type : {"reply"}, call : Requests, name : CommandNames, ok : BOOLEAN, frame : Nat, stop : Nat]

StopLines == [type : {"stopped"}, stop : Nat]

Commands ==
    [call : Requests \cup {Nobody}, name : CommandNames, target : Targets, object : Names]

FieldTypes ==
    /\ currentFrameId \in Targets /\ lastStopEvent \in Nat /\ shown \in Nat
    /\ request \in [Requests -> RequestRecords]

ChannelTypes ==
    /\ queue \in Seq(Requests) /\ executed \in BOOLEAN
    /\ stale \in Seq(Commands) /\ pipe \in Seq(ReplyLines \cup StopLines)

GdbTypes ==
    /\ stops \in Nat /\ moving \in BOOLEAN
    /\ selected \in Nat /\ varobj \in [Names -> Nat \cup {Nobody}]

\* What the script of each operation may be while it is under way.
Remaining == [
    getStackTrace   |-> {<<"frames">>},
    getVariables    |-> {<<"locals">>},
    getVariablesOf  |-> {<<"select", "locals">>, <<"locals">>},
    getArguments    |-> {<<"select", "arguments">>, <<"arguments">>},
    evaluate        |-> {<<"select", "value">>, <<"value">>},
    prettyPrint     |-> {<<"value">>},
    query           |-> {<<"query">>},
    listSource      |-> {<<"select", "info", "list">>, <<"info", "list">>, <<"list">>},
    getScopePreview |-> {<<"locals", "select", "arguments">>, <<"select", "arguments">>,
                         <<"arguments">>},
    whatis          |-> {<<"create", "delete">>, <<"delete">>, <<"whatis">>},
    listThreads     |-> {<<"threads">>},
    switchThread    |-> {<<"switch">>},
    getLastStopInfo |-> {<<"frames">>},
    runUntilLine    |-> {<<"frames", "insert", "resume">>, <<"insert", "resume">>, <<"resume">>},
    selectFrame     |-> {<<"select">>},
    resume          |-> {<<"resume">>}]

\* Who waits has a command left; who is in the channel waits, and is there once.
Scripted(r) == Pending(r) => r.op \in Ops /\ r.script \in Remaining[r.op]

Queued ==
    /\ \A i \in DOMAIN queue : request[queue[i]].st = "waiting"
    /\ \A i, j \in DOMAIN queue : queue[i] = queue[j] => i = j
    /\ executed => queue # <<>>

\* An answer that is not read is the only one, and to the command that is being served.
Answering ==
    /\ \A i, j \in Replies(pipe) : i = j
    /\ \A i \in Replies(pipe) :
          /\ executed /\ pipe[i].call = Head(queue)
          /\ pipe[i].name = Head(request[Head(queue)].script)
    /\ \A i \in DOMAIN stale : Outlasts(stale[i])

\* A stop is on its way until it is the one kept, and goes before what GDB says after it.
Ordered ==
    /\ \A i \in DOMAIN pipe : lastStopEvent <= pipe[i].stop /\ pipe[i].stop <= stops
    /\ \A i, j \in DOMAIN pipe : i <= j => pipe[i].stop <= pipe[j].stop
    /\ \A i \in Replies(pipe) :
          pipe[i].stop # lastStopEvent =>
              \E j \in Stopped(pipe) : j < i /\ pipe[j].stop = pipe[i].stop
    /\ stops # lastStopEvent => \E j \in Stopped(pipe) : pipe[j].stop = stops

\* Nothing that was shown, or is going to be, is newer than the stop that is kept.
NotNewer(r) ==
    /\ r.got.stop <= lastStopEvent
    /\ \A i \in DOMAIN r.data : r.data[i].stop <= lastStopEvent

\* Who reads the stack for want of a stop that is kept has seen none.
Fresh(r) ==
    r.op = "getLastStopInfo" =>
        /\ Pending(r) => r.seen = 0
        /\ r.st = "answered" => r.data # <<>> /\ r.data[1].stop >= r.seen

OkReply(n) == \E i \in Replies(pipe) : pipe[i].call = n /\ pipe[i].ok

Alone(n) ==
    request[n].solo /\ Pending(request[n]) =>
        \A m \in Requests : Pending(request[m]) => m = n

\* GDB has selected the frame, and nothing on its way will change that.
Placed(n) == ~moving /\ stale = <<>> /\ selected = request[n].target

\* Whoever is alone has selected its frame before it reads, and what it read is of it.
OfItsFrame(n) ==
    LET r == request[n] IN
    r.solo /\ r.op \in OfFrame =>
        /\ \A i \in DOMAIN r.data : r.data[i].what \in Reads => r.data[i].frame = r.target
        /\ r.st = "waiting" /\ (Head(r.script) # "select" \/ OkReply(n)) => Placed(n)
        /\ r.st = "ready" /\ r.ok => /\ Placed(n)
                                     /\ r.got.what \in Reads => r.got.frame = r.target
        /\ r.st = "waiting" =>
              \A i \in Replies(pipe) :
                  pipe[i].call = n /\ pipe[i].ok /\ pipe[i].name \in Reads
                      => pipe[i].frame = r.target

\* From the command that makes its variable object to the one that deletes it.
Has(n) ==
    LET r == request[n] IN
    /\ r.op = "whatis"
    /\ \/ /\ r.st = "waiting" /\ Head(r.script) = "create" /\ OkReply(n)
       \/ /\ r.st = "ready" /\ Head(r.script) = "create" /\ r.ok
       \/ /\ r.st = "waiting" /\ Head(r.script) = "delete" /\ ~OkReply(n)

\* A command that nobody awaits makes and deletes variable objects that are nobody's.
Stray(c) == c.call = Nobody /\ (c.name = "delete" => varobj[c.object] \in {0, Nobody})

Owned ==
    /\ \A n \in Requests : Has(n) => varobj[request[n].name] = n
    /\ \A name \in Names : varobj[name] \notin {0, Nobody} =>
          /\ varobj[name] \in Requests
          /\ Has(varobj[name]) /\ request[varobj[name]].name = name
    /\ \A i \in Replies(pipe) : pipe[i].name = "delete" => pipe[i].ok
    /\ \A i \in DOMAIN stale : Stray(stale[i])

Types == FieldTypes /\ ChannelTypes /\ GdbTypes

Serving == (\A n \in Requests : Scripted(request[n])) /\ Queued /\ Answering

Telling ==
    /\ Ordered /\ shown <= lastStopEvent
    /\ \A n \in Requests : NotNewer(request[n]) /\ Fresh(request[n])

Reading == \A n \in Requests : Alone(n) /\ OfItsFrame(n)

IInv == Types /\ Serving /\ Telling /\ Reading /\ Owned

-----------------------------------------------------------------------------
(* Sequences and scripts. *)

LEMMA AppendAt ==
  ASSUME NEW S, NEW s \in Seq(S), NEW x \in S
  PROVE  /\ Append(s, x) \in Seq(S) /\ Len(Append(s, x)) = Len(s) + 1
         /\ DOMAIN Append(s, x) = 1 .. Len(s) + 1 /\ DOMAIN s = 1 .. Len(s)
         /\ \A i \in 1 .. Len(s) : Append(s, x)[i] = s[i]
         /\ Append(s, x)[Len(s) + 1] = x
         /\ Append(s, x) # <<>>
         /\ s # <<>> => Head(Append(s, x)) = Head(s)
         /\ s = <<>> => Head(Append(s, x)) = x
OBVIOUS

LEMMA TailAt ==
  ASSUME NEW S, NEW s \in Seq(S), s # <<>>
  PROVE  /\ Tail(s) \in Seq(S) /\ Head(s) \in S /\ Head(s) = s[1]
         /\ DOMAIN Tail(s) = 1 .. Len(s) - 1 /\ DOMAIN s = 1 .. Len(s) /\ 1 \in DOMAIN s
         /\ Len(s) \in Nat
         /\ \A i \in DOMAIN Tail(s) : i + 1 \in DOMAIN s /\ Tail(s)[i] = s[i + 1]
OBVIOUS

LEMMA Tuples ==
  ASSUME NEW S, NEW a \in S, NEW b \in S, NEW c \in S
  PROVE  /\ <<a>> \in Seq(S) /\ <<a>> # <<>> /\ Head(<<a>>) = a /\ Tail(<<a>>) = <<>>
         /\ <<a, b>> \in Seq(S) /\ <<a, b>> # <<>>
         /\ Head(<<a, b>>) = a /\ Tail(<<a, b>>) = <<b>>
         /\ <<a, b, c>> \in Seq(S) /\ <<a, b, c>> # <<>>
         /\ Head(<<a, b, c>>) = a /\ Tail(<<a, b, c>>) = <<b, c>>
<1>1. <<a>> \in Seq(S) /\ <<a, b>> \in Seq(S) /\ <<a, b, c>> \in Seq(S)
  OBVIOUS
<1>2. <<a>> # <<>> /\ <<a, b>> # <<>> /\ <<a, b, c>> # <<>>
  BY <1>1
<1>3. Head(<<a>>) = a /\ Head(<<a, b>>) = a /\ Head(<<a, b, c>>) = a
  OBVIOUS
<1>4. Tail(<<a>>) = <<>>
  OBVIOUS
<1>5. Tail(<<a, b>>) = <<b>>
  OBVIOUS
<1>6. Tail(<<a, b, c>>) = <<b, c>>
  OBVIOUS
<1> QED
  BY <1>1, <1>2, <1>3, <1>4, <1>5, <1>6

\* The commands of a request under way are a script of its operation, and what remains
\* after one of them is again one.
LEMMA RemainingScripts ==
  ASSUME NEW op \in Ops, NEW s \in Remaining[op]
  PROVE  /\ s \in Seq(CommandNames) /\ s # <<>> /\ Tail(s) \in Seq(CommandNames)
         /\ Tail(s) # <<>> => Tail(s) \in Remaining[op]
         /\ op \in OfFrame /\ Tail(s) # <<>> => Head(Tail(s)) # "select"
         /\ Head(s) \in {"create", "delete"} => op = "whatis"
         /\ op = "whatis" /\ Head(s) = "create" => Tail(s) = <<"delete">> /\ Head(Tail(s)) = "delete"
         /\ op = "whatis" /\ Head(s) # "create" => Tail(s) = <<>>
         /\ op = "whatis" => Head(s) \in {"create", "delete", "whatis"}
         /\ op \in OfFrame => Head(s) \in Reads \cup {"select", "list"}
<1>1. PICK o \in DOMAIN Script : o = op
  BY ConstantsAssumption
<1>2. o \in {"getStackTrace", "getVariables", "getVariablesOf", "getArguments", "evaluate",
             "prettyPrint", "query", "listSource", "getScopePreview", "whatis",
             "listThreads", "switchThread", "getLastStopInfo", "runUntilLine",
             "selectFrame", "resume"}
  BY DEF Script, Scripts
<1>3. s \in Remaining[o]
  BY <1>1
<1> DEFINE Good(x) ==
      /\ x \in Seq(CommandNames) /\ x # <<>> /\ Tail(x) \in Seq(CommandNames)
      /\ Tail(x) # <<>> => Tail(x) \in Remaining[o]
      /\ o \in OfFrame /\ Tail(x) # <<>> => Head(Tail(x)) # "select"
      /\ Head(x) \in {"create", "delete"} => o = "whatis"
      /\ o = "whatis" /\ Head(x) = "create" => Tail(x) = <<"delete">> /\ Head(Tail(x)) = "delete"
      /\ o = "whatis" /\ Head(x) # "create" => Tail(x) = <<>>
      /\ o = "whatis" => Head(x) \in {"create", "delete", "whatis"}
      /\ o \in OfFrame => Head(x) \in Reads \cup {"select", "list"}
<1>4. <<>> \in Seq(CommandNames)
  OBVIOUS
<1>5. ASSUME NEW a \in CommandNames,
             a \in {"create", "delete"} => o = "whatis",
             o = "whatis" => a \in {"delete", "whatis"},
             o \in OfFrame => a \in Reads \cup {"select", "list"}
      PROVE  Good(<<a>>)
  BY <1>4, <1>5, Tuples
<1>6. ASSUME NEW a \in CommandNames, NEW b \in CommandNames,
             <<b>> \in Remaining[o],
             a \in {"create", "delete"} => o = "whatis",
             o = "whatis" => a = "create" /\ b = "delete",
             o \in OfFrame => a \in Reads \cup {"select", "list"} /\ b # "select"
      PROVE  Good(<<a, b>>)
  BY <1>6, Tuples
<1>7. ASSUME NEW a \in CommandNames, NEW b \in CommandNames, NEW c \in CommandNames,
             <<b, c>> \in Remaining[o],
             a \notin {"create", "delete"}, o # "whatis",
             o \in OfFrame => a \in Reads \cup {"select", "list"} /\ b # "select"
      PROVE  Good(<<a, b, c>>)
  BY <1>7, Tuples
<1> SUFFICES Good(s)
  BY <1>1
<1> HIDE DEF Good
<1>8. CASE o = "getVariablesOf"
  <2>1. Remaining[o] = {<<"select", "locals">>, <<"locals">>}
    BY <1>8 DEF Remaining
  <2> QED
    BY <1>3, <1>5, <1>6, <1>8, <2>1 DEF CommandNames, Reads, OfFrame
<1>9. CASE o = "getArguments"
  <2>1. Remaining[o] = {<<"select", "arguments">>, <<"arguments">>}
    BY <1>9 DEF Remaining
  <2> QED
    BY <1>3, <1>5, <1>6, <1>9, <2>1 DEF CommandNames, Reads, OfFrame
<1>10. CASE o = "evaluate"
  <2>1. Remaining[o] = {<<"select", "value">>, <<"value">>}
    BY <1>10 DEF Remaining
  <2> QED
    BY <1>3, <1>5, <1>6, <1>10, <2>1 DEF CommandNames, Reads, OfFrame
<1>11. CASE o = "listSource"
  <2>1. Remaining[o] = {<<"select", "info", "list">>, <<"info", "list">>, <<"list">>}
    BY <1>11 DEF Remaining
  <2> QED
    BY <1>3, <1>5, <1>6, <1>7, <1>11, <2>1 DEF CommandNames, Reads, OfFrame
<1>12. CASE o = "getScopePreview"
  <2>1. Remaining[o] =
          {<<"locals", "select", "arguments">>, <<"select", "arguments">>, <<"arguments">>}
    BY <1>12 DEF Remaining
  <2>2. Good(<<"locals", "select", "arguments">>)
    BY <1>7, <1>12, <2>1 DEF CommandNames, Reads, OfFrame
  <2>3. Good(<<"select", "arguments">>)
    BY <1>6, <1>12, <2>1 DEF CommandNames, Reads, OfFrame
  <2>4. Good(<<"arguments">>)
    BY <1>5, <1>12, <2>1 DEF CommandNames, Reads, OfFrame
  <2> QED
    BY <1>3, <2>1, <2>2, <2>3, <2>4
<1>13. CASE o = "whatis"
  <2>1. Remaining[o] = {<<"create", "delete">>, <<"delete">>, <<"whatis">>}
    BY <1>13 DEF Remaining
  <2> QED
    BY <1>3, <1>5, <1>6, <1>13, <2>1 DEF CommandNames, Reads, OfFrame
<1>14. CASE o = "runUntilLine"
  <2>1. Remaining[o] =
          {<<"frames", "insert", "resume">>, <<"insert", "resume">>, <<"resume">>}
    BY <1>14 DEF Remaining
  <2>2. Good(<<"frames", "insert", "resume">>)
    BY <1>7, <1>14, <2>1 DEF CommandNames, Reads, OfFrame
  <2>3. Good(<<"insert", "resume">>)
    BY <1>6, <1>14, <2>1 DEF CommandNames, Reads, OfFrame
  <2>4. Good(<<"resume">>)
    BY <1>5, <1>14, <2>1 DEF CommandNames, Reads, OfFrame
  <2> QED
    BY <1>3, <2>1, <2>2, <2>3, <2>4
<1>15. CASE o \in {"getStackTrace", "getVariables", "prettyPrint", "query", "listThreads",
                   "switchThread", "getLastStopInfo", "selectFrame", "resume"}
  <2>1. PICK a \in {"frames", "locals", "value", "query", "threads", "switch", "select",
                    "resume"} : Remaining[o] = {<<a>>}
    BY <1>15 DEF Remaining
  <2> QED
    BY <1>3, <1>5, <1>15, <2>1 DEF CommandNames, Reads, OfFrame
<1> QED
  BY <1>2, <1>8, <1>9, <1>10, <1>11, <1>12, <1>13, <1>14, <1>15

LEMMA WholeScript ==
  ASSUME NEW op \in Ops
  PROVE  /\ Script[op] \in Remaining[op]
         /\ op \in OfFrame => Head(Script[op]) = "select"
         /\ op = "whatis" => Head(Script[op]) = "create"
         /\ <<"whatis">> \in Remaining["whatis"] /\ <<"whatis">> \in Seq(CommandNames)
<1>1. PICK o \in DOMAIN Script : o = op
  BY ConstantsAssumption
<1>2. o \in {"getStackTrace", "getVariables", "getVariablesOf", "getArguments", "evaluate",
             "prettyPrint", "query", "listSource", "getScopePreview", "whatis",
             "listThreads", "switchThread", "getLastStopInfo", "runUntilLine",
             "selectFrame", "resume"}
  BY DEF Script, Scripts
<1>3. /\ Script[o] \in Remaining[o]
      /\ o \in OfFrame => Head(Script[o]) = "select"
      /\ o = "whatis" => Head(Script[o]) = "create"
  BY <1>2 DEF Script, Scripts, Remaining, OfFrame
<1>4. <<"whatis">> \in Remaining["whatis"] /\ <<"whatis">> \in Seq(CommandNames)
  <2>1. Remaining["whatis"] = {<<"create", "delete">>, <<"delete">>, <<"whatis">>}
    BY DEF Remaining
  <2>2. "whatis" \in CommandNames
    BY DEF CommandNames
  <2> QED
    BY <2>1, <2>2, Tuples
<1> QED
  BY <1>1, <1>3, <1>4

-----------------------------------------------------------------------------
(* The initial states. *)

LEMMA InitIInv == Init => IInv
<1> SUFFICES ASSUME Init PROVE IInv
  OBVIOUS
<1>1. NoRequest \in RequestRecords /\ ~Pending(NoRequest)
      /\ NoRequest.op = "none"
  BY ConstantsAssumption DEF NoRequest, RequestRecords, NoData, Data, Targets, Names, Pending
<1>2. \A n \in Requests : request[n] = NoRequest
  BY DEF Init
<1>3. Types
  <2>1. FieldTypes
    BY <1>1, ConstantsAssumption DEF Init, FieldTypes, Targets
  <2>2. [type |-> "stopped", stop |-> 1] \in ReplyLines \cup StopLines
    BY DEF StopLines
  <2>3. pipe \in Seq(ReplyLines \cup StopLines)
    <3>1. <<[type |-> "stopped", stop |-> 1]>> \in Seq(ReplyLines \cup StopLines)
      BY <2>2, Tuples
    <3>2. <<>> \in Seq(ReplyLines \cup StopLines)
      OBVIOUS
    <3> QED
      BY <3>1, <3>2 DEF Init
  <2>5. ChannelTypes
    <3>1. queue = <<>> /\ stale = <<>> /\ executed = FALSE
      BY DEF Init
    <3>2. queue \in Seq(Requests) /\ stale \in Seq(Commands)
      BY <3>1
    <3> QED
      BY <2>3, <3>1, <3>2 DEF ChannelTypes
  <2>4. GdbTypes
    BY DEF Init, GdbTypes, Names
  <2> QED
    BY <2>1, <2>4, <2>5 DEF Types
<1>4. Replies(pipe) = {}
  BY DEF Init, Replies
<1>5. Serving
  BY <1>1, <1>2, <1>4 DEF Init, Serving, Scripted, Queued, Answering
<1>6. Ordered
  BY <1>4 DEF Init, Ordered, Stopped
<1>7. Telling
  BY <1>2, <1>6 DEF Init, Telling, NotNewer, Fresh, NoRequest, NoData
<1>8. Reading
  <2>1. "none" \notin OfFrame
    BY DEF OfFrame
  <2> QED
    BY <1>1, <1>2, <2>1 DEF Reading, Alone, OfItsFrame
<1>9. Owned
  BY <1>2, <1>4 DEF Init, Owned, Has, NoRequest
<1> QED
  BY <1>3, <1>5, <1>7, <1>8, <1>9 DEF IInv

-----------------------------------------------------------------------------
(* Facts about the channel. *)

LEMMA LineTypes ==
  ASSUME IInv
  PROVE  /\ \A i \in Replies(pipe) : i \in 1 .. Len(pipe) /\ pipe[i] \in ReplyLines
         /\ \A i \in Stopped(pipe) : i \in 1 .. Len(pipe) /\ pipe[i] \in StopLines
         /\ DOMAIN pipe = 1 .. Len(pipe) /\ Len(pipe) \in Nat
         /\ \A i \in DOMAIN pipe : pipe[i].stop \in Nat
BY DEF IInv, Types, ChannelTypes, Replies, Stopped, ReplyLines, StopLines

LEMMA HeadWaits ==
  ASSUME IInv, queue # <<>>
  PROVE  /\ Head(queue) \in Requests /\ request[Head(queue)].st = "waiting"
         /\ Pending(request[Head(queue)])
         /\ request[Head(queue)].op \in Ops
         /\ request[Head(queue)].script \in Remaining[request[Head(queue)].op]
<1>1. queue \in Seq(Requests) /\ Head(queue) = queue[1] /\ 1 \in DOMAIN queue
  BY TailAt DEF IInv, Types, ChannelTypes
<1> QED
  BY <1>1, TailAt DEF IInv, Serving, Queued, Scripted, Pending

LEMMA DataTypes ==
  ASSUME IInv, NEW n \in Requests
  PROVE  /\ request[n].got \in Data /\ request[n].got.stop \in Nat
         /\ \A i \in DOMAIN request[n].data :
               request[n].data[i] \in Data /\ request[n].data[i].stop \in Nat
<1>1. PICK s \in Seq(Data) : s = request[n].data
  BY DEF IInv, Types, FieldTypes, RequestRecords
<1>2. \A i \in DOMAIN s : s[i] \in Data
  OBVIOUS
<1>3. request[n].got \in Data
  BY DEF IInv, Types, FieldTypes, RequestRecords
<1>4. \A d \in Data : d.stop \in Nat
  BY DEF Data
<1> QED
  BY <1>1, <1>2, <1>3, <1>4

\* Only the request that is being served has an answer in the pipe.
LEMMA AnsweredIsServed ==
  ASSUME IInv, NEW n \in Requests, OkReply(n)
  PROVE  queue # <<>> /\ executed /\ n = Head(queue) /\ request[n].st = "waiting"
BY HeadWaits DEF OkReply, IInv, Serving, Answering, Queued

-----------------------------------------------------------------------------
(* A request is admitted. *)

LEMMA AdmitStep ==
  ASSUME IInv, NEW n \in Requests, NEW r \in RequestRecords,
         request[n] = NoRequest,
         request' = [m \in Requests |-> IF m = n THEN r ELSE Overlap(request[m])],
         currentFrameId' \in Targets, UNCHANGED <<lastStopEvent, shown, executed, stale, pipe, gdb>>,
         \/ r.st = "waiting" /\ queue' = Append(queue, n)
         \/ r.st = "answered" /\ queue' = queue,
         r.st = "waiting" => r.op \in Ops /\ r.script = Script[r.op],
         NotNewer(r), Fresh(r), r.data # <<>> => r.op \notin OfFrame,
         r.solo = NoneUnderWay
  PROVE  IInv'
<1>1. /\ request' \in [Requests -> RequestRecords] /\ request'[n] = r
      /\ ~Pending(NoRequest) /\ NoRequest.st = "none" /\ NoRequest.op = "none"
  BY DEF IInv, Types, FieldTypes, Overlap, RequestRecords, Pending, NoRequest
<1>2. ASSUME NEW m \in Requests, m # n
      PROVE  /\ request'[m].op = request[m].op /\ request'[m].st = request[m].st
             /\ request'[m].target = request[m].target /\ request'[m].name = request[m].name
             /\ request'[m].script = request[m].script /\ request'[m].data = request[m].data
             /\ request'[m].ok = request[m].ok /\ request'[m].got = request[m].got
             /\ request'[m].seen = request[m].seen
             /\ request'[m].solo => request[m].solo /\ ~Pending(request[m])
             /\ Pending(request'[m]) <=> Pending(request[m])
  BY <1>2 DEF IInv, Types, FieldTypes, Overlap, RequestRecords, Pending
<1>3. queue \in Seq(Requests) /\ \A i \in DOMAIN queue : queue[i] # n
  BY <1>1 DEF IInv, Types, ChannelTypes, Serving, Queued
<1>4. Types'
  <2>1. queue' \in Seq(Requests)
    BY <1>3, AppendAt
  <2>2. FieldTypes' /\ GdbTypes'
    BY <1>1 DEF IInv, Types, FieldTypes, GdbTypes, gdb
  <2> QED
    BY <2>1, <2>2 DEF IInv, Types, ChannelTypes
<1>5. /\ queue' \in Seq(Requests) /\ \A i \in DOMAIN queue : i \in DOMAIN queue' /\ queue'[i] = queue[i]
      /\ \A i \in DOMAIN queue' : i \in DOMAIN queue \/ (r.st = "waiting" /\ queue'[i] = n /\ i = Len(queue) + 1)
      /\ queue # <<>> => Head(queue') = Head(queue) /\ queue' # <<>>
  BY <1>3, AppendAt
<1>6. Replies(pipe)' = Replies(pipe) /\ Stopped(pipe)' = Stopped(pipe)
  BY DEF Replies, Stopped
<1>7. ~OkReply(n) /\ \A m \in Requests : OkReply(m)' = OkReply(m)
  BY <1>1, <1>6, AnsweredIsServed DEF OkReply
<1>8. Serving'
  <2>1. ASSUME NEW m \in Requests PROVE Scripted(request'[m])
    BY <1>1, <1>2, WholeScript DEF IInv, Serving, Scripted, Pending
  <2>2. Queued'
    BY <1>1, <1>2, <1>3, <1>5 DEF IInv, Serving, Queued
  <2>3. Answering'
    BY <1>1, <1>2, <1>5, <1>6, HeadWaits DEF IInv, Serving, Answering, Queued, Outlasts
  <2> QED
    BY <2>1, <2>2, <2>3 DEF Serving
<1>9. Telling'
  BY <1>1, <1>2, <1>6 DEF IInv, Telling, Ordered, NotNewer, Fresh, gdb
<1>10. ASSUME NEW m \in Requests PROVE Alone(m)' /\ OfItsFrame(m)'
  <2>1. CASE m = n
    <3>1. Alone(m)'
      BY <2>1, <1>1, <1>2 DEF Alone, NoneUnderWay
    <3>2. r.op \in OfFrame => r.data = <<>> /\ DOMAIN r.data = {}
      OBVIOUS
    <3>3. r.st = "waiting" /\ r.op \in OfFrame => Head(r.script) = "select"
      BY WholeScript
    <3>4. \A i \in Replies(pipe) : pipe[i].call # n
      BY <1>1, HeadWaits DEF IInv, Serving, Answering, Queued
    <3> QED
      BY <2>1, <3>1, <3>2, <3>3, <3>4, <1>1, <1>6, <1>7 DEF OfItsFrame
  <2>2. CASE m # n
    <3>1. request'[m].solo => ~Pending(request'[m])
      BY <2>2, <1>2
    <3>2. Alone(m)' 
      BY <3>1 DEF Alone
    <3>3. OfItsFrame(m)'
      BY <2>2, <3>1, <1>2 DEF IInv, Reading, OfItsFrame, Pending
    <3> QED
      BY <3>2, <3>3
  <2> QED
    BY <2>1, <2>2
<1>11. Owned'
  <2>1. ~Has(n) /\ ~Has(n)'
    BY <1>1, <1>7, WholeScript DEF Has
  <2>2. ASSUME NEW m \in Requests, m # n PROVE Has(m)' = Has(m)
    BY <2>2, <1>2, <1>7 DEF Has
  <2> QED
    BY <2>1, <2>2, <1>2, <1>6 DEF IInv, Owned, Stray, gdb
<1> QED
  BY <1>4, <1>8, <1>9, <1>10, <1>11 DEF IInv, Reading

-----------------------------------------------------------------------------
(* A request goes on after an await, or is over. *)

LEMMA ReplaceStep ==
  ASSUME IInv, NEW n \in Requests, NEW q \in RequestRecords,
         request[n].st # "waiting", request' = [request EXCEPT ![n] = q],
         \/ q.st = "waiting" /\ queue' = Append(queue, n)
         \/ q.st \in {"none", "answered", "failed"} /\ queue' = queue,
         shown' \in Nat, shown' <= lastStopEvent, currentFrameId' \in Targets,
         UNCHANGED <<lastStopEvent, executed, stale, pipe, gdb>>,
         Scripted(q), NotNewer(q), Fresh(q),
         Pending(q) => Pending(request[n]) /\ (q.solo => request[n].solo),
         q.solo /\ q.op \in OfFrame =>
             \A i \in DOMAIN q.data : q.data[i].what \in Reads => q.data[i].frame = q.target,
         q.solo /\ q.op \in OfFrame /\ q.st = "waiting" =>
             ~moving /\ stale = <<>> /\ selected = q.target,
         Has(n) <=> q.op = "whatis" /\ q.st = "waiting" /\ Head(q.script) = "delete",
         Has(n) => q.name = request[n].name
  PROVE  IInv'
<1>1. /\ request' \in [Requests -> RequestRecords] /\ request'[n] = q
      /\ \A m \in Requests : m # n => request'[m] = request[m]
  BY DEF IInv, Types, FieldTypes
<1>2. queue \in Seq(Requests) /\ \A i \in DOMAIN queue : queue[i] # n
  BY DEF IInv, Types, ChannelTypes, Serving, Queued
<1>3. queue' \in Seq(Requests)
  BY <1>2, AppendAt
<1>4. Types'
  <2>1. FieldTypes' /\ GdbTypes'
    BY <1>1 DEF IInv, Types, FieldTypes, GdbTypes, gdb
  <2> QED
    BY <1>3, <2>1 DEF IInv, Types, ChannelTypes
<1>5. /\ \A i \in DOMAIN queue : i \in DOMAIN queue' /\ queue'[i] = queue[i]
      /\ \A i \in DOMAIN queue' :
            i \in DOMAIN queue \/ (q.st = "waiting" /\ queue'[i] = n /\ i = Len(queue) + 1)
      /\ queue # <<>> => Head(queue') = Head(queue) /\ queue' # <<>>
  BY <1>2, AppendAt
<1>6. Replies(pipe)' = Replies(pipe) /\ Stopped(pipe)' = Stopped(pipe)
  BY DEF Replies, Stopped
<1>7. ~OkReply(n) /\ \A m \in Requests : OkReply(m)' = OkReply(m)
  BY <1>6, AnsweredIsServed DEF OkReply
<1>8. Serving'
  <2>1. Queued'
    BY <1>1, <1>2, <1>5 DEF IInv, Serving, Queued
  <2>2. Answering'
    BY <1>1, <1>5, <1>6, HeadWaits DEF IInv, Serving, Answering, Queued, Outlasts
  <2>3. ASSUME NEW m \in Requests PROVE Scripted(request'[m])
    BY <1>1 DEF IInv, Serving
  <2> QED
    BY <2>1, <2>2, <2>3 DEF Serving
<1>9. Telling'
  BY <1>1, <1>6 DEF IInv, Telling, Ordered, NotNewer, Fresh, gdb
<1>10. ASSUME NEW m \in Requests PROVE Alone(m)' /\ OfItsFrame(m)'
  <2>1. Alone(m)'
    BY <1>1 DEF IInv, Reading, Alone
  <2>2. \A i \in Replies(pipe) : pipe[i].call # n
    BY HeadWaits DEF IInv, Serving, Answering, Queued
  <2>3. CASE m = n
    <3>1. q.solo /\ q.op \in OfFrame /\ q.st = "waiting" => Placed(n)'
      BY <1>1 DEF Placed, gdb
    <3> QED
      BY <2>1, <2>2, <2>3, <3>1, <1>1, <1>6 DEF OfItsFrame
  <2>4. CASE m # n
    <3>1. Placed(m)' = Placed(m)
      BY <2>4, <1>1 DEF Placed, gdb
    <3> QED
      BY <2>1, <2>4, <3>1, <1>1, <1>6, <1>7 DEF IInv, Reading, OfItsFrame
  <2> QED
    BY <2>1, <2>3, <2>4
<1>11. Owned'
  <2>1. Has(n)' = Has(n)
    BY <1>1, <1>7 DEF Has
  <2>2. ASSUME NEW m \in Requests, m # n PROVE Has(m)' = Has(m)
    BY <2>2, <1>1, <1>7 DEF Has
  <2> QED
    BY <2>1, <2>2, <1>1, <1>6 DEF IInv, Owned, Stray, gdb
<1> QED
  BY <1>4, <1>8, <1>9, <1>10, <1>11 DEF IInv, Reading

LEMMA NewRequest ==
  ASSUME IInv, NEW op \in Ops, NEW target \in Targets
  PROVE  /\ New(op, target) \in RequestRecords
         /\ New(op, target).op = op /\ New(op, target).script = Script[op]
         /\ New(op, target).data = <<>> /\ New(op, target).got = NoData
         /\ New(op, target).solo = NoneUnderWay
         /\ op = "getLastStopInfo" => New(op, target).seen = lastStopEvent
<1>1. Script[op] \in Seq(CommandNames)
  BY WholeScript, RemainingScripts
<1>2. NoRequest \in RequestRecords /\ NoRequest.data = <<>> /\ NoRequest.got = NoData
  BY ConstantsAssumption DEF NoRequest, RequestRecords, NoData, Data, Targets, Names
<1>3. NewestSeen = lastStopEvent /\ NewestSeen \in Nat
  BY DEF NewestSeen, IInv, Types, FieldTypes, Telling
<1>4. NoneUnderWay \in BOOLEAN
  BY DEF NoneUnderWay
<1> QED
  BY <1>1, <1>2, <1>3, <1>4 DEF New, RequestRecords

LEMMA BeginStep ==
  ASSUME IInv, NEW op, NEW target \in Targets, NEW name \in Names,
         Begin(op, target, name), currentFrameId' \in Targets,
         op = "getLastStopInfo" => lastStopEvent = 0
  PROVE  IInv'
<1>1. PICK n \in Requests :
          /\ Admit(n, [New(op, target) EXCEPT !.st = "waiting", !.name = name])
          /\ queue' = Append(queue, n)
  BY DEF Begin
<1>2. PICK r : r = [New(op, target) EXCEPT !.st = "waiting", !.name = name]
  OBVIOUS
<1>3. op \in Ops
  <2>1. r.op = op
    BY <1>2 DEF New, NoRequest
  <2>2. r.op \in Ops
    BY <1>1, <1>2 DEF Admit
  <2> QED
    BY <2>1, <2>2
<1>4. /\ r \in RequestRecords /\ r.op = op /\ r.st = "waiting" /\ r.script = Script[op]
      /\ r.data = <<>> /\ r.got = NoData
      /\ r.solo = NoneUnderWay
      /\ op = "getLastStopInfo" => r.seen = 0
  <2>1. PICK s \in RequestRecords :
            /\ s = New(op, target) /\ s.op = op /\ s.script = Script[op]
            /\ s.data = <<>> /\ s.got = NoData /\ s.solo = NoneUnderWay
            /\ op = "getLastStopInfo" => s.seen = lastStopEvent
    BY <1>3, NewRequest
  <2>2. r = [s EXCEPT !.st = "waiting", !.name = name]
    BY <2>1, <1>2
  <2> QED
    BY <2>1, <2>2 DEF RequestRecords
<1>5. NotNewer(r) /\ Fresh(r)
  BY <1>4 DEF NotNewer, Fresh, NoData, IInv, Types, FieldTypes
<1>6. /\ request[n] = NoRequest
      /\ request' = [m \in Requests |-> IF m = n THEN r ELSE Overlap(request[m])]
  BY <1>1, <1>2 DEF Admit
<1>7. UNCHANGED <<lastStopEvent, shown, executed, stale, pipe, gdb>>
  BY DEF Begin
<1> QED
  BY <1>1, <1>3, <1>4, <1>5, <1>6, <1>7, AdmitStep

LEMMA GetLastStopInfoStep ==
  ASSUME IInv, GetLastStopInfo
  PROVE  IInv'
<1>1. currentFrameId' \in Targets
  BY DEF GetLastStopInfo, IInv, Types, FieldTypes
<1>2. CASE ~StopEventKept
  <2>1. Begin("getLastStopInfo", 0, 1) /\ lastStopEvent = 0
    BY <1>2 DEF GetLastStopInfo, StopEventKept
  <2>2. 0 \in Targets /\ 1 \in Names
    BY ConstantsAssumption DEF Targets, Names
  <2> QED
    BY <2>1, <2>2, <1>1, BeginStep
<1>3. CASE StopEventKept
  <2>1. PICK n \in Requests :
            Admit(n, [New("getLastStopInfo", 0) EXCEPT
                         !.st = "answered", !.script = <<>>,
                         !.data = <<[what |-> "stop", frame |-> 0, stop |-> lastStopEvent]>>])
    BY <1>3 DEF GetLastStopInfo
  <2>2. PICK d : d = [what |-> "stop", frame |-> 0, stop |-> lastStopEvent]
    OBVIOUS
  <2>3. d \in Data /\ d.stop = lastStopEvent
    BY <2>2 DEF Data, IInv, Types, FieldTypes
  <2>4. PICK r : r = [New("getLastStopInfo", 0) EXCEPT
                         !.st = "answered", !.script = <<>>, !.data = <<d>>]
    OBVIOUS
  <2>5. "getLastStopInfo" \in Ops
    <3>1. r.op = "getLastStopInfo"
      BY <2>4 DEF New, NoRequest
    <3>2. r.op \in Ops
      BY <2>1, <2>2, <2>4 DEF Admit
    <3> QED
      BY <3>1, <3>2
  <2>6. 0 \in Targets /\ <<>> \in Seq(CommandNames) /\ <<d>> \in Seq(Data)
    BY <2>3, ConstantsAssumption, Tuples DEF Targets
  <2>7. /\ r \in RequestRecords /\ r.op = "getLastStopInfo" /\ r.st = "answered"
        /\ r.data = <<d>> /\ r.got = NoData
        /\ r.solo = NoneUnderWay /\ r.seen = lastStopEvent
    <3>1. PICK s \in RequestRecords :
              /\ s = New("getLastStopInfo", 0) /\ s.op = "getLastStopInfo"
              /\ s.got = NoData /\ s.solo = NoneUnderWay /\ s.seen = lastStopEvent
      BY <2>5, <2>6, NewRequest
    <3>2. r = [s EXCEPT !.st = "answered", !.script = <<>>, !.data = <<d>>]
      BY <3>1, <2>4
    <3> QED
      BY <3>1, <3>2, <2>6 DEF RequestRecords
  <2>8. /\ DOMAIN <<d>> = {1} /\ <<d>>[1] = d /\ <<d>> # <<>>
    OBVIOUS
  <2>9. NotNewer(r) /\ Fresh(r)
    BY <2>3, <2>7, <2>8 DEF NotNewer, Fresh, NoData, IInv, Types, FieldTypes, Pending
  <2>10. /\ request[n] = NoRequest
         /\ request' = [m \in Requests |-> IF m = n THEN r ELSE Overlap(request[m])]
    BY <2>1, <2>2, <2>4 DEF Admit
  <2>11. UNCHANGED <<lastStopEvent, shown, executed, stale, pipe, gdb>> /\ queue' = queue
    BY <1>3 DEF GetLastStopInfo, channel
  <2>12. r.op \notin OfFrame
    BY <2>7 DEF OfFrame
  <2> QED
    BY <1>1, <2>7, <2>9, <2>10, <2>11, <2>12, AdmitStep
<1> QED
  BY <1>2, <1>3

LEMMA RequestsStep ==
  ASSUME IInv,
         Read \/ ReadFrame \/ ReadCurrentFrame \/ Whatis \/ SelectFrame \/ GetLastStopInfo
              \/ VariablesRequest
  PROVE  IInv'
<1>1. /\ 0 \in Targets /\ 1 \in Names /\ currentFrameId \in Targets /\ Frames \subseteq Targets
      /\ 0 .. MaxFrame + 1 = Targets
  BY ConstantsAssumption DEF Targets, Names, Frames, IInv, Types, FieldTypes
<1>2. CASE Read
  BY <1>1, <1>2, BeginStep DEF Read
<1>3. CASE ReadFrame
  BY <1>1, <1>3, BeginStep DEF ReadFrame
<1>4. CASE ReadCurrentFrame
  BY <1>1, <1>4, BeginStep DEF ReadCurrentFrame
<1>5. CASE Whatis
  BY <1>1, <1>5, BeginStep DEF Whatis
<1>6. CASE SelectFrame
  BY <1>1, <1>6, BeginStep DEF SelectFrame
<1>7. CASE VariablesRequest
  BY <1>1, <1>7, BeginStep DEF VariablesRequest
<1> QED
  BY <1>2, <1>3, <1>4, <1>5, <1>6, <1>7, GetLastStopInfoStep

LEMMA DeliverStep ==
  ASSUME IInv, NEW n \in Requests, Deliver(n)
  PROVE  IInv'
<1>1. /\ NoRequest \in RequestRecords /\ ~Pending(NoRequest) /\ NoRequest.st = "none"
      /\ NoRequest.op = "none" /\ NoRequest.data = <<>> /\ NoRequest.got.stop = 0
  BY ConstantsAssumption DEF NoRequest, RequestRecords, NoData, Data, Targets, Names, Pending
<1>2. /\ request[n].st \in {"answered", "failed"} /\ request' = [request EXCEPT ![n] = NoRequest]
      /\ UNCHANGED <<currentFrameId, lastStopEvent, queue, executed, stale, pipe, gdb>>
  BY DEF Deliver, fields, channel
<1>3. /\ currentFrameId' \in Targets /\ shown \in Nat /\ lastStopEvent \in Nat
      /\ shown <= lastStopEvent /\ request[n].data \in Seq(Data)
  BY <1>2 DEF IInv, Types, FieldTypes, Telling, RequestRecords
<1>4. shown' \in Nat /\ shown' <= lastStopEvent
  <2>1. PICK d \in Seq(Data) : d = request[n].data
    BY <1>3
  <2>2. d # <<>> => Len(d) \in DOMAIN d /\ d[Len(d)] \in Data
    BY <2>1
  <2>3. d # <<>> => d[Len(d)].stop \in Nat /\ d[Len(d)].stop <= lastStopEvent
    BY <2>1, <2>2 DEF Data, IInv, Telling, NotNewer
  <2> QED
    BY <1>3, <2>1, <2>3 DEF Deliver
<1>5. Scripted(NoRequest) /\ NotNewer(NoRequest) /\ Fresh(NoRequest)
  BY <1>1, <1>3 DEF Scripted, NotNewer, Fresh
<1>6. ~Has(n)
  BY <1>2 DEF Has
<1>7. NoRequest.op \notin OfFrame
  BY <1>1 DEF OfFrame
<1> QED
  BY <1>1, <1>2, <1>3, <1>4, <1>5, <1>6, <1>7, ReplaceStep

LEMMA ResumeStep ==
  ASSUME IInv, NEW n \in Requests, Resume(n)
  PROVE  IInv'
<1>1. PICK r \in RequestRecords : r = request[n]
  BY DEF IInv, Types, FieldTypes
<1>2. PICK data : data = IF r.ok THEN Append(r.data, r.got) ELSE r.data
  OBVIOUS
<1>3. r.st = "ready" /\ Pending(r) /\ r.op \in Ops /\ r.script \in Remaining[r.op]
  BY <1>1 DEF Resume, Pending, IInv, Serving, Scripted
<1>4. r.data \in Seq(Data) /\ r.got \in Data /\ NoData \in Data /\ NoData.stop = 0
  BY DEF RequestRecords, NoData, Data
<1>5. /\ data \in Seq(Data)
      /\ r.ok => data # <<>>
      /\ \A i \in DOMAIN data : \/ i \in DOMAIN r.data /\ data[i] = r.data[i]
                                \/ r.ok /\ data[i] = r.got
  BY <1>2, <1>4, AppendAt
<1>6. data \in Seq(Data)
  BY <1>5
<1>7. /\ r.op = "whatis" /\ Head(r.script) = "create" =>
             Tail(r.script) = <<"delete">> /\ Head(Tail(r.script)) = "delete"
      /\ r.op = "whatis" /\ Head(r.script) # "create" => Tail(r.script) = <<>>
      /\ <<"delete">> # <<>>
  BY <1>3, RemainingScripts
<1>8. /\ \A i \in DOMAIN data : data[i].stop \in Nat /\ data[i].stop <= lastStopEvent
      /\ data # <<>> => 1 \in DOMAIN data
  <2>1. /\ r.got.stop <= lastStopEvent
        /\ \A i \in DOMAIN r.data : r.data[i].stop <= lastStopEvent
    BY <1>1 DEF IInv, Telling, NotNewer
  <2>2. \A i \in DOMAIN data : data[i] \in Data
    BY <1>6
  <2>3. \A d \in Data : d.stop \in Nat
    BY DEF Data
  <2>4. data # <<>> => 1 \in DOMAIN data
    BY <1>5, TailAt
  <2>5. \A i \in DOMAIN data : data[i].stop <= lastStopEvent
    BY <1>5, <2>1
  <2> QED
    BY <2>2, <2>3, <2>4, <2>5
<1>9. r.solo /\ r.op \in OfFrame =>
          /\ \A i \in DOMAIN data : data[i].what \in Reads => data[i].frame = r.target
          /\ r.ok => ~moving /\ stale = <<>> /\ selected = r.target
  BY <1>1, <1>3, <1>5 DEF IInv, Reading, OfItsFrame, Placed
<1>10. /\ currentFrameId' \in Targets /\ lastStopEvent \in Nat /\ shown \in Nat
       /\ shown <= lastStopEvent
       /\ UNCHANGED <<lastStopEvent, shown, executed, stale, pipe, gdb>>
  BY ConstantsAssumption DEF Resume, IInv, Types, FieldTypes, Targets, Telling
<1>11. Target(r) \in Targets /\ (r.op \in OfFrame => Target(r) = r.target)
  BY DEF Target, OfFrame, RequestRecords, IInv, Types, FieldTypes
<1>12. /\ r.ok => Left(r) = Tail(r.script)
       /\ ~r.ok /\ Left(r) # <<>> => r.op = "whatis" /\ Left(r) = <<"whatis">>
       /\ Head(<<"whatis">>) = "whatis"
  BY <1>3, RemainingScripts DEF Left
<1>13. CASE Left(r) # <<>>
  <2>1. PICK q : q = [r EXCEPT !.st = "waiting", !.script = Left(r), !.data = data,
                               !.target = Target(r), !.got = NoData]
    OBVIOUS
  <2>2. /\ Left(r) \in Seq(CommandNames) /\ Left(r) \in Remaining[r.op]
        /\ r.op \in OfFrame => r.ok
    <3>1. /\ Tail(r.script) \in Seq(CommandNames)
          /\ Tail(r.script) # <<>> => Tail(r.script) \in Remaining[r.op]
      BY <1>3, RemainingScripts
    <3>2. r.op = "whatis" => /\ <<"whatis">> \in Remaining[r.op]
                             /\ <<"whatis">> \in Seq(CommandNames)
      BY <1>3, WholeScript
    <3>3. r.ok \/ ~r.ok
      OBVIOUS
    <3> QED
      BY <3>1, <3>2, <3>3, <1>12, <1>13 DEF OfFrame
  <2>3. /\ q \in RequestRecords /\ q.op = r.op /\ q.st = "waiting" /\ q.script = Left(r)
        /\ q.data = data /\ q.target = Target(r) /\ q.got = NoData /\ q.solo = r.solo
        /\ q.name = r.name /\ q.seen = r.seen
    BY <2>1, <2>2, <1>4, <1>11, <1>6 DEF RequestRecords
  <2>4. request' = [request EXCEPT ![n] = q] /\ queue' = Append(queue, n)
    BY <2>1, <1>1, <1>2, <1>13 DEF Resume
  <2>5. Scripted(q) /\ NotNewer(q)
    BY <2>2, <2>3, <1>3, <1>4, <1>8, <1>10 DEF Scripted, NotNewer
  <2>6. Fresh(q)
    <3>1. Fresh(r)
      BY <1>1 DEF IInv, Telling
    <3> QED
      BY <3>1, <2>3, <1>3 DEF Fresh
  <2>7. Has(n) <=> q.op = "whatis" /\ q.st = "waiting" /\ Head(q.script) = "delete"
    BY <2>3, <1>1, <1>3, <1>12, <1>13, <1>7 DEF Has
  <2> QED
    BY <2>2, <2>3, <2>4, <2>5, <2>6, <2>7, <1>1, <1>3, <1>9, <1>10, <1>11, ReplaceStep
<1>14. CASE Left(r) = <<>>
  <2>1. PICK q : q = [r EXCEPT !.st = Outcome(r), !.script = <<>>, !.data = data, !.got = NoData]
    OBVIOUS
  <2>2. Outcome(r) \in {"answered", "failed"}
    BY DEF Outcome
  <2>3. /\ q \in RequestRecords /\ q.op = r.op /\ q.st = Outcome(r)
        /\ q.data = data /\ q.target = r.target /\ q.got = NoData /\ q.solo = r.solo
        /\ q.name = r.name /\ q.seen = r.seen
    <3>1. <<>> \in Seq(CommandNames)
      OBVIOUS
    <3> QED
      BY <3>1, <2>1, <2>2, <1>4, <1>6 DEF RequestRecords
  <2>4. request' = [request EXCEPT ![n] = q] /\ queue' = queue
    BY <2>1, <1>1, <1>2, <1>14 DEF Resume
  <2>5. Scripted(q) /\ NotNewer(q) /\ ~Pending(q)
    BY <2>2, <2>3, <1>4, <1>8, <1>10 DEF Scripted, NotNewer, Pending
  <2>6. Fresh(q)
    <3>1. Fresh(r)
      BY <1>1 DEF IInv, Telling
    <3>2. q.st = "answered" /\ r.op = "getLastStopInfo" => r.ok
      BY <2>3 DEF Outcome
    <3> QED
      BY <3>1, <3>2, <2>3, <2>5, <1>3, <1>5, <1>8 DEF Fresh
  <2>7. ~Has(n)
    BY <1>1, <1>3, <1>12, <1>14, <1>7 DEF Has
  <2> QED
    BY <2>2, <2>3, <2>4, <2>5, <2>6, <2>7, <1>1, <1>3, <1>9, <1>10, ReplaceStep
<1> QED
  BY <1>13, <1>14

-----------------------------------------------------------------------------
(* A command is settled, by its answer or by its timer. *)

LEMMA SettleStep ==
  ASSUME IInv, queue # <<>>, NEW ok \in BOOLEAN, NEW got \in Data, Settle(ok, got),
         pipe' \in Seq(ReplyLines \cup StopLines), Replies(pipe)' = {}, Ordered',
         currentFrameId' \in Targets, lastStopEvent' \in Nat, lastStopEvent <= lastStopEvent',
         UNCHANGED <<shown, stops, moving, selected>>,
         stale' \in Seq(Commands),
         (\A i \in DOMAIN stale : Outlasts(stale[i]) /\ Stray(stale[i]))',
         ok => stale' = stale,
         got.stop <= lastStopEvent',
         ok => \E i \in Replies(pipe) :
                   pipe[i].ok /\ got.what = pipe[i].name /\ got.frame = pipe[i].frame,
         \/ varobj' = varobj /\ \E i \in Replies(pipe) : pipe[i].ok = ok
         \/ /\ ~ok
            /\ varobj' = [name \in Names |->
                             IF varobj[name] = Head(queue) THEN Nobody ELSE varobj[name]]
  PROVE  IInv'
<1>1. PICK h \in Requests : h = Head(queue)
  BY HeadWaits
<1>2. /\ request[h].st = "waiting" /\ Pending(request[h])
      /\ request[h].op \in Ops /\ request[h].script \in Remaining[request[h].op]
  BY <1>1, HeadWaits
<1>3. /\ queue' = Tail(queue) /\ executed' = FALSE
      /\ request' = [request EXCEPT ![h] = [@ EXCEPT !.st = "ready", !.ok = ok, !.got = got]]
  BY <1>1 DEF Settle
<1>4. /\ request' \in [Requests -> RequestRecords]
      /\ request'[h].op = request[h].op /\ request'[h].st = "ready"
      /\ request'[h].target = request[h].target /\ request'[h].name = request[h].name
      /\ request'[h].script = request[h].script /\ request'[h].data = request[h].data
      /\ request'[h].ok = ok /\ request'[h].got = got
      /\ request'[h].seen = request[h].seen /\ request'[h].solo = request[h].solo
      /\ \A m \in Requests : m # h => request'[m] = request[m]
  <2>1. PICK r \in RequestRecords : r = request[h]
    BY DEF IInv, Types, FieldTypes
  <2>2. PICK q : q = [r EXCEPT !.st = "ready", !.ok = ok, !.got = got]
    OBVIOUS
  <2>3. /\ q \in RequestRecords /\ q.op = r.op /\ q.st = "ready" /\ q.target = r.target
        /\ q.name = r.name /\ q.script = r.script /\ q.data = r.data /\ q.ok = ok
        /\ q.got = got /\ q.seen = r.seen /\ q.solo = r.solo
    BY <2>2 DEF RequestRecords
  <2>4. request' = [request EXCEPT ![h] = q]
    BY <1>3, <2>1, <2>2
  <2> QED
    BY <2>1, <2>3, <2>4 DEF IInv, Types, FieldTypes
<1>5. \A m \in Requests : Pending(request'[m]) <=> Pending(request[m])
  BY <1>2, <1>4 DEF Pending
<1>6. queue \in Seq(Requests) /\ queue' \in Seq(Requests)
  BY <1>3, TailAt DEF IInv, Types, ChannelTypes
<1>7. Types'
  <2>1. FieldTypes'
    BY <1>4 DEF IInv, Types, FieldTypes
  <2>2. ChannelTypes'
    BY <1>3, <1>6 DEF ChannelTypes
  <2>3. GdbTypes'
    BY DEF IInv, Types, GdbTypes, Names
  <2> QED
    BY <2>1, <2>2, <2>3 DEF Types
<1>8. Serving'
  <2>1. ASSUME NEW i \in DOMAIN queue'
        PROVE  /\ i + 1 \in DOMAIN queue /\ queue'[i] = queue[i + 1] /\ queue[i + 1] # h
               /\ i \in Nat
    <3>1. /\ i + 1 \in DOMAIN queue /\ queue'[i] = queue[i + 1]
          /\ i \in Nat \ {0} /\ h = queue[1] /\ 1 \in DOMAIN queue
      BY <2>1, <1>1, <1>3, <1>6, TailAt
    <3> QED
      BY <3>1 DEF IInv, Serving, Queued
  <2>2. Queued'
    <3>1. ASSUME NEW i \in DOMAIN queue' PROVE request'[queue'[i]].st = "waiting"
      <4>1. queue[i + 1] \in Requests
        BY <2>1, <1>6
      <4> QED
        BY <4>1, <2>1, <1>4 DEF IInv, Serving, Queued
    <3>2. ASSUME NEW i \in DOMAIN queue', NEW j \in DOMAIN queue', queue'[i] = queue'[j]
          PROVE  i = j
      <4>1. i + 1 = j + 1
        BY <2>1, <3>2 DEF IInv, Serving, Queued
      <4> QED
        BY <4>1, <2>1
    <3> QED
      BY <3>1, <3>2, <1>3 DEF Queued
  <2>3. Answering'
    BY DEF Answering
  <2>4. ASSUME NEW m \in Requests PROVE Scripted(request'[m])
    BY <1>4, <1>5 DEF IInv, Serving, Scripted
  <2> QED
    BY <2>2, <2>3, <2>4 DEF Serving
<1>9. Telling'
  <2>1. shown' <= lastStopEvent'
    BY DEF IInv, Telling, Types, FieldTypes
  <2>2. ASSUME NEW m \in Requests PROVE NotNewer(request[m])' /\ Fresh(request[m])'
    <3>1. \A i \in DOMAIN request[m].data : request[m].data[i].stop \in Nat
      BY DataTypes
    <3>2. request[m].got.stop \in Nat
      BY DataTypes
    <3>3. lastStopEvent \in Nat
      BY DEF IInv, Types, FieldTypes
    <3>4. NotNewer(request[m]) /\ Fresh(request[m])
      BY DEF IInv, Telling
    <3>5. CASE m = h
      BY <3>1, <3>3, <3>4, <3>5, <1>2, <1>4 DEF NotNewer, Fresh, Pending
    <3>6. CASE m # h
      BY <3>1, <3>2, <3>3, <3>4, <3>6, <1>4 DEF NotNewer, Fresh
    <3> QED
      BY <3>5, <3>6
  <2> QED
    BY <2>1, <2>2 DEF Telling
<1>10. ASSUME NEW m \in Requests PROVE Alone(m)' /\ OfItsFrame(m)'
  <2>1. Alone(m)'
    <3>1. request'[m].solo = request[m].solo
      BY <1>4
    <3> QED
      BY <3>1, <1>5 DEF IInv, Reading, Alone
  <2>2. CASE m # h
    <3>1. request[m].solo => ~Pending(request[m])
      BY <2>2, <1>2 DEF IInv, Reading, Alone
    <3> QED
      BY <2>1, <2>2, <3>1, <1>4 DEF IInv, Reading, OfItsFrame, Pending
  <2>3. CASE m = h
    <3> SUFFICES ASSUME request[h].solo, request[h].op \in OfFrame, ok
                 PROVE  /\ Placed(h)'
                        /\ got.what \in Reads => got.frame = request[h].target
      BY <2>1, <2>3, <1>4 DEF IInv, Reading, OfItsFrame
    <3>1. PICK i \in Replies(pipe) :
              pipe[i].ok /\ got.what = pipe[i].name /\ got.frame = pipe[i].frame
      OBVIOUS
    <3>2. pipe[i].call = h
      BY <1>1 DEF IInv, Serving, Answering
    <3>3. OkReply(h)
      BY <3>1, <3>2 DEF OkReply
    <3>4. Placed(h) /\ (got.what \in Reads => got.frame = request[h].target)
      BY <3>1, <3>2, <3>3, <1>2 DEF IInv, Reading, OfItsFrame
    <3> QED
      BY <3>4, <1>4 DEF Placed
  <2> QED
    BY <2>2, <2>3
<1>11. Owned'
  <2>1. ASSUME NEW m \in Requests, m # h PROVE Has(m)' = Has(m)
    <3>1. ~OkReply(m) /\ ~OkReply(m)'
      BY <2>1, <1>1, AnsweredIsServed DEF OkReply
    <3> QED
      BY <2>1, <3>1, <1>4 DEF Has
  <2>2. Has(h)' <=> request[h].op = "whatis" /\ Head(request[h].script) = "create" /\ ok
    BY <1>4 DEF Has
  <2>3. CASE varobj' = varobj /\ \E i \in Replies(pipe) : pipe[i].ok = ok
    <3>1. PICK i \in Replies(pipe) : pipe[i].ok = ok
      BY <2>3
    <3>2. /\ pipe[i].call = h /\ pipe[i].name = Head(request[h].script)
          /\ OkReply(h) <=> ok
      BY <3>1, <1>1 DEF IInv, Serving, Answering, OkReply
    <3>3. pipe[i].name = "delete" => ok
      BY <3>1 DEF IInv, Owned
    <3>4. Has(h)' = Has(h)
      BY <2>2, <3>2, <3>3, <1>2 DEF Has
    <3>5. (\A j \in DOMAIN stale : Stray(stale[j]))'
      OBVIOUS
    <3> QED
      BY <2>1, <2>3, <3>4, <3>5, <1>4 DEF IInv, Owned
  <2>4. CASE /\ ~ok
             /\ varobj' = [name \in Names |->
                              IF varobj[name] = Head(queue) THEN Nobody ELSE varobj[name]]
    <3>1. \A name \in Names : varobj'[name] = IF varobj[name] = h THEN Nobody ELSE varobj[name]
      BY <2>4, <1>1
    <3>2. \A m \in Requests : request[m].name \in Names
      BY DEF IInv, Types, FieldTypes, RequestRecords
    <3>3. \A m \in Requests : Has(m)' => m # h /\ Has(m)
      BY <2>1, <2>2, <2>4
    <3>4. \A m \in Requests : request'[m].name = request[m].name
      BY <1>4
    <3>5. ASSUME NEW m \in Requests, Has(m)'
          PROVE  varobj'[request'[m].name] = m
      <4>1. m # h /\ varobj[request[m].name] = m
        BY <3>3, <3>5 DEF IInv, Owned
      <4> QED
        BY <4>1, <3>1, <3>2, <3>4
    <3>6. ASSUME NEW name \in Names, varobj'[name] \notin {0, Nobody}
          PROVE  \E m \in Requests :
                     varobj'[name] = m /\ Has(m)' /\ request'[m].name = name
      <4>1. varobj'[name] = varobj[name] /\ varobj[name] # h /\ varobj[name] \notin {0, Nobody}
        BY <3>1, <3>6
      <4>2. PICK m \in Requests : m = varobj[name] /\ Has(m) /\ request[m].name = name
        BY <4>1 DEF IInv, Owned
      <4>3. Has(m)' = Has(m)
        BY <4>1, <4>2, <2>1
      <4> QED
        BY <4>1, <4>2, <4>3, <3>4
    <3>7. ASSUME NEW name \in Names, varobj'[name] \notin {0, Nobody}
          PROVE  (varobj[name] \in Requests /\ Has(varobj[name])
                      /\ request[varobj[name]].name = name)'
      <4>1. PICK m \in Requests : varobj'[name] = m /\ Has(m)' /\ request'[m].name = name
        BY <3>6, <3>7
      <4>2. Has(varobj[name])' <=> Has(m)'
        BY <4>1 DEF Has
      <4> QED
        BY <4>1, <4>2
    <3>8. (\A i \in DOMAIN stale : Stray(stale[i]))' /\ Replies(pipe)' = {}
      OBVIOUS
    <3> QED
      BY <3>5, <3>7, <3>8 DEF Owned
  <2> QED
    BY <2>3, <2>4
<1> QED
  BY <1>7, <1>8, <1>9, <1>10, <1>11 DEF IInv, Reading

-----------------------------------------------------------------------------
(* Parts of sequences. *)

LEMMA PartAt ==
  ASSUME NEW S, NEW s \in Seq(S), NEW p \in Nat, NEW q \in Nat,
         1 <= p, p <= q + 1, q <= Len(s)
  PROVE  /\ SubSeq(s, p, q) \in Seq(S) /\ Len(SubSeq(s, p, q)) = q - p + 1
         /\ \A k \in 1 .. q - p + 1 : SubSeq(s, p, q)[k] = s[p + k - 1]
OBVIOUS

LEMMA JoinAt ==
  ASSUME NEW S, NEW a \in Seq(S), NEW b \in Seq(S)
  PROVE  /\ a \o b \in Seq(S) /\ DOMAIN (a \o b) = 1 .. Len(a) + Len(b)
         /\ \A k \in 1 .. Len(a) : (a \o b)[k] = a[k]
         /\ \A k \in Len(a) + 1 .. Len(a) + Len(b) : (a \o b)[k] = b[k - Len(a)]
OBVIOUS

\* A sequence without its element at i.
Without(s, i) == SubSeq(s, 1, i - 1) \o SubSeq(s, i + 1, Len(s))

LEMMA DropAt ==
  ASSUME NEW S, NEW s \in Seq(S), NEW i \in 1 .. Len(s)
  PROVE  /\ Without(s, i) \in Seq(S) /\ DOMAIN Without(s, i) = 1 .. Len(s) - 1
         /\ Len(s) \in Nat
         /\ \A k \in 1 .. i - 1 : Without(s, i)[k] = s[k]
         /\ \A k \in i .. Len(s) - 1 : Without(s, i)[k] = s[k + 1]
<1> DEFINE u == Without(s, i)
<1>1. u = SubSeq(s, 1, i - 1) \o SubSeq(s, i + 1, Len(s))
  BY DEF Without
<1> HIDE DEF u
<1>2. PICK N \in Nat : N = Len(s)
  OBVIOUS
<1>3. PICK m \in Nat : m = i - 1
  OBVIOUS
<1>4. /\ i \in Nat /\ 1 <= i /\ i <= N /\ m + 1 = i /\ i + 1 \in Nat /\ N - i \in Nat
      /\ m <= N /\ 1 \in Nat /\ 1 <= m + 1 /\ i + 1 <= N + 1 /\ m - 1 + 1 = m
      /\ N - (i + 1) + 1 = N - i
  BY <1>2, <1>3
<1>5. PICK a : a = SubSeq(s, 1, m)
  OBVIOUS
<1>6. PICK b : b = SubSeq(s, i + 1, N)
  OBVIOUS
<1>7. a \in Seq(S) /\ Len(a) = m /\ \A k \in 1 .. m : a[k] = s[k]
  <2>1. \A k \in 1 .. m : 1 + k - 1 = k
    BY <1>4
  <2> QED
    BY <2>1, <1>2, <1>4, <1>5, PartAt
<1>8. b \in Seq(S) /\ Len(b) = N - i /\ \A k \in 1 .. N - i : b[k] = s[k + i]
  <2>1. \A k \in 1 .. N - i : (i + 1) + k - 1 = k + i
    BY <1>4
  <2> QED
    BY <2>1, <1>2, <1>4, <1>6, PartAt
<1>9. /\ u \in Seq(S) /\ DOMAIN u = 1 .. m + (N - i)
      /\ \A k \in 1 .. m : u[k] = a[k]
      /\ \A k \in m + 1 .. m + (N - i) : u[k] = b[k - m]
  <2>1. u = a \o b
    BY <1>1, <1>2, <1>3, <1>5, <1>6
  <2>2. a \in Seq(S) /\ b \in Seq(S) /\ Len(a) = m /\ Len(b) = N - i
    BY <1>7, <1>8
  <2>3. /\ a \o b \in Seq(S) /\ DOMAIN (a \o b) = 1 .. Len(a) + Len(b)
        /\ \A k \in 1 .. Len(a) : (a \o b)[k] = a[k]
        /\ \A k \in Len(a) + 1 .. Len(a) + Len(b) : (a \o b)[k] = b[k - Len(a)]
    BY <2>2, JoinAt
  <2> QED
    BY <2>1, <2>2, <2>3
<1>10. m + (N - i) = N - 1
  BY <1>4
<1>11. ASSUME NEW k \in i .. N - 1 PROVE u[k] = s[k + 1]
  <2>1. /\ k - m \in 1 .. N - i /\ (k - m) + i = k + 1 /\ k \in m + 1 .. m + (N - i)
    BY <1>4
  <2> QED
    BY <2>1, <1>8, <1>9
<1>12. ASSUME NEW k \in 1 .. m PROVE u[k] = s[k]
  BY <1>7, <1>9
<1>13. /\ u \in Seq(S) /\ DOMAIN u = 1 .. Len(s) - 1 /\ Len(s) \in Nat
       /\ \A k \in 1 .. i - 1 : u[k] = s[k]
       /\ \A k \in i .. Len(s) - 1 : u[k] = s[k + 1]
  BY <1>2, <1>3, <1>9, <1>10, <1>11, <1>12
<1> QED
  BY <1>13 DEF u

\* What is handled of a sequence, and what is left of it.
LEMMA CutAt ==
  ASSUME NEW S, NEW s \in Seq(S), NEW n \in 1 .. Len(s)
  PROVE  /\ DOMAIN SubSeq(s, 1, n) = 1 .. n /\ Len(s) \in Nat
         /\ \A k \in 1 .. n : SubSeq(s, 1, n)[k] = s[k]
         /\ SubSeq(s, n + 1, Len(s)) \in Seq(S)
         /\ DOMAIN SubSeq(s, n + 1, Len(s)) = 1 .. Len(s) - n
         /\ \A k \in 1 .. Len(s) - n : SubSeq(s, n + 1, Len(s))[k] = s[k + n]
OBVIOUS

-----------------------------------------------------------------------------
(* The command at work, and its timer. *)

LEMMA AwaitedType ==
  ASSUME IInv, queue # <<>>
  PROVE  /\ Awaited \in Commands
         /\ Awaited.call = Head(queue) /\ Awaited.name = Head(request[Head(queue)].script)
         /\ Awaited.target = request[Head(queue)].target
         /\ Awaited.object = request[Head(queue)].name
<1>1. PICK h \in Requests : h = Head(queue)
  BY HeadWaits
<1>2. request[h].op \in Ops /\ request[h].script \in Remaining[request[h].op]
  BY <1>1, HeadWaits
<1>3. request[h].script \in Seq(CommandNames) /\ request[h].script # <<>>
  BY <1>2, RemainingScripts
<1>4. Head(request[h].script) \in CommandNames
  BY <1>3, TailAt
<1>5. request[h].target \in Targets /\ request[h].name \in Names
  BY DEF IInv, Types, FieldTypes, RequestRecords
<1>6. Awaited = [call |-> h, name |-> Head(request[h].script), target |-> request[h].target,
                 object |-> request[h].name]
  BY <1>1 DEF Awaited
<1> QED
  BY <1>1, <1>4, <1>5, <1>6 DEF Commands

\* whatis deletes only the variable object that it made.
LEMMA DeletesItsOwn ==
  ASSUME IInv, queue # <<>>, ~executed, Awaited.name = "delete"
  PROVE  varobj[Awaited.object] = Awaited.call
<1>1. PICK h \in Requests : h = Head(queue)
  BY HeadWaits
<1>2. /\ Awaited.call = h /\ Awaited.object = request[h].name
      /\ Head(request[h].script) = "delete"
  BY <1>1, AwaitedType
<1>3. request[h].st = "waiting" /\ request[h].op \in Ops
      /\ request[h].script \in Remaining[request[h].op]
  BY <1>1, HeadWaits
<1>4. request[h].op = "whatis"
  BY <1>2, <1>3, RemainingScripts
<1>5. ~OkReply(h)
  BY AnsweredIsServed
<1>6. Has(h)
  BY <1>2, <1>3, <1>4, <1>5 DEF Has
<1> QED
  BY <1>2, <1>6 DEF IInv, Owned

\* What is nobody's stays so.
LEMMA StrayStays ==
  ASSUME \A name \in Names : \/ varobj'[name] = varobj[name]
                             \/ varobj'[name] \in {0, Nobody},
         NEW c \in Commands, Stray(c)
  PROVE  Stray(c)'
<1>1. c.object \in Names
  BY DEF Commands
<1> QED
  BY <1>1 DEF Stray

LEMMA TimeoutStep ==
  ASSUME IInv, Timeout
  PROVE  IInv'
<1>1. /\ queue # <<>> /\ Settle(FALSE, NoData)
      /\ stale' = IF ~executed /\ Outlasts(Awaited)
                  THEN Append(stale, [Awaited EXCEPT !.call = Nobody]) ELSE stale
      /\ varobj' = [name \in Names |->
                       IF varobj[name] = Head(queue) THEN Nobody ELSE varobj[name]]
      /\ UNCHANGED <<currentFrameId, lastStopEvent, shown, stops, moving, selected>>
  BY DEF Timeout, fields
<1>2. NoData \in Data /\ NoData.stop = 0
  BY DEF NoData, Data
<1>3. stale' \in Seq(Commands) /\ (\A i \in DOMAIN stale : Outlasts(stale[i]) /\ Stray(stale[i]))'
  <2>1. stale \in Seq(Commands) /\ \A i \in DOMAIN stale : Outlasts(stale[i]) /\ Stray(stale[i])
    BY DEF IInv, Types, ChannelTypes, Serving, Answering, Owned
  <2>2. \A name \in Names : \/ varobj'[name] = varobj[name]
                            \/ varobj'[name] \in {0, Nobody}
    BY <1>1
  <2>3. PICK s \in Seq(Commands) : s = stale
    BY <2>1
  <2>4. \A i \in DOMAIN s : Outlasts(s[i]) /\ Stray(s[i])'
    <3>1. \A i \in DOMAIN s : s[i] \in Commands
      OBVIOUS
    <3> QED
      BY <2>1, <2>2, <2>3, <3>1, StrayStays
  <2>5. CASE ~executed /\ Outlasts(Awaited)
    <3>1. PICK a \in Commands :
              /\ a = Awaited /\ a.call = Head(queue)
              /\ a.name = "delete" => varobj[a.object] = a.call
      BY <2>5, <1>1, AwaitedType, DeletesItsOwn
    <3>2. PICK c : c = [a EXCEPT !.call = Nobody]
      OBVIOUS
    <3>3. /\ c \in Commands /\ c.call = Nobody
          /\ c.name = a.name /\ c.target = a.target /\ c.object = a.object
      BY <3>2 DEF Commands
    <3>4. stale' = Append(s, c) /\ Outlasts(c)
      BY <2>3, <2>5, <3>1, <3>2, <3>3, <1>1 DEF Outlasts
    <3>5. Stray(c)'
      <4>1. c.object \in Names
        BY <3>3 DEF Commands
      <4>2. c.name = "delete" => varobj'[c.object] = Nobody
        BY <3>1, <3>3, <4>1, <1>1
      <4> QED
        BY <3>3, <4>2 DEF Stray
    <3>6. /\ stale' \in Seq(Commands) /\ DOMAIN stale' = 1 .. Len(s) + 1
          /\ DOMAIN s = 1 .. Len(s) /\ stale'[Len(s) + 1] = c
          /\ \A i \in 1 .. Len(s) : stale'[i] = s[i]
          /\ Len(s) \in Nat
      BY <3>3, <3>4, AppendAt
    <3> QED
      BY <2>4, <3>4, <3>5, <3>6 DEF Outlasts, Stray
  <2>6. CASE ~(~executed /\ Outlasts(Awaited))
    <3>1. stale' = s
      BY <2>3, <2>6, <1>1
    <3> QED
      BY <2>4, <3>1 DEF Outlasts, Stray
  <2> QED
    BY <2>5, <2>6
<1>4. pipe' \in Seq(ReplyLines \cup StopLines) /\ Replies(pipe)' = {} /\ Ordered'
  <2>1. pipe \in Seq(ReplyLines \cup StopLines) /\ Ordered /\ lastStopEvent' = lastStopEvent
        /\ stops' = stops
    BY <1>1 DEF IInv, Types, ChannelTypes, Telling
  <2>2. CASE Replies(pipe) = {}
    <3>1. pipe' = pipe
      BY <2>2 DEF Timeout
    <3> QED
      BY <2>1, <2>2, <3>1 DEF Replies, Stopped, Ordered
  <2>3. CASE Replies(pipe) # {}
    <3>1. PICK i \in Replies(pipe) :
              pipe' = SubSeq(pipe, 1, i - 1) \o SubSeq(pipe, i + 1, Len(pipe))
      BY <2>3 DEF Timeout
    <3>2. i \in 1 .. Len(pipe) /\ DOMAIN pipe = 1 .. Len(pipe) /\ Len(pipe) \in Nat
      BY <3>1, LineTypes
    <3>3. /\ pipe' \in Seq(ReplyLines \cup StopLines) /\ DOMAIN pipe' = 1 .. Len(pipe) - 1
          /\ \A k \in 1 .. i - 1 : pipe'[k] = pipe[k]
          /\ \A k \in i .. Len(pipe) - 1 : pipe'[k] = pipe[k + 1]
      <4>1. PICK T : T = ReplyLines \cup StopLines
        OBVIOUS
      <4>2. PICK p \in Seq(T) : p = pipe
        BY <2>1, <4>1
      <4>3. PICK u : u = pipe'
        OBVIOUS
      <4>4. PICK j \in 1 .. Len(p) : j = i
        BY <3>2, <4>2
      <4>5. u = Without(p, j)
        BY <3>1, <4>2, <4>3, <4>4 DEF Without
      <4>6. /\ u \in Seq(T) /\ DOMAIN u = 1 .. Len(p) - 1 /\ Len(p) \in Nat
            /\ \A k \in 1 .. j - 1 : u[k] = p[k]
            /\ \A k \in j .. Len(p) - 1 : u[k] = p[k + 1]
        BY <4>5, DropAt
      <4> QED
        BY <4>1, <4>2, <4>3, <4>4, <4>6
    <3>4. ASSUME NEW k \in DOMAIN pipe'
          PROVE  \E j \in DOMAIN pipe : /\ j # i /\ j \in {k, k + 1} /\ pipe'[k] = pipe[j]
                                        /\ (j = k <=> k < i)
      <4>1. k \in 1 .. Len(pipe) - 1
        BY <3>3
      <4>2. CASE k < i
        <5>1. k \in 1 .. i - 1 /\ k \in DOMAIN pipe /\ k # i /\ pipe'[k] = pipe[k]
          BY <3>2, <3>3, <4>1, <4>2
        <5> QED
          BY <4>2, <5>1
      <4>3. CASE ~(k < i)
        <5>1. /\ k \in i .. Len(pipe) - 1 /\ k + 1 \in DOMAIN pipe /\ k + 1 # i /\ k + 1 # k
              /\ pipe'[k] = pipe[k + 1]
          BY <3>2, <3>3, <4>1, <4>3
        <5> QED
          BY <4>3, <5>1
      <4> QED
        BY <4>2, <4>3
    <3>5. ASSUME NEW j \in Stopped(pipe)
          PROVE  \E k \in DOMAIN pipe' : pipe'[k] = pipe[j]
      <4>1. j \in 1 .. Len(pipe) /\ j # i
        BY <3>2, <3>5 DEF Stopped, Replies
      <4>2. CASE j < i
        BY <4>1, <4>2, <3>2, <3>3
      <4>3. CASE j > i
        <5>1. j - 1 \in i .. Len(pipe) - 1 /\ j - 1 \in DOMAIN pipe' /\ (j - 1) + 1 = j
          BY <4>1, <4>3, <3>2, <3>3
        <5> QED
          BY <5>1, <3>3
      <4> QED
        BY <4>1, <4>2, <4>3, <3>2
    <3>6. \A j \in Replies(pipe) : j = i
      BY <3>1 DEF IInv, Serving, Answering
    <3>7. Replies(pipe)' = {}
      BY <3>4, <3>6 DEF Replies
    <3>8. \A k \in DOMAIN pipe' : lastStopEvent <= pipe'[k].stop /\ pipe'[k].stop <= stops
      BY <2>1, <3>4 DEF Ordered
    <3>9. ASSUME NEW k \in DOMAIN pipe', NEW l \in DOMAIN pipe', k <= l
          PROVE  pipe'[k].stop <= pipe'[l].stop
      <4>1. PICK a \in DOMAIN pipe : /\ a \in {k, k + 1} /\ pipe'[k] = pipe[a]
                                     /\ (a = k <=> k < i)
        BY <3>4
      <4>2. PICK b \in DOMAIN pipe : /\ b \in {l, l + 1} /\ pipe'[l] = pipe[b]
                                     /\ (b = l <=> l < i)
        BY <3>4
      <4>3. a <= b
        BY <4>1, <4>2, <3>2, <3>3, <3>9
      <4> QED
        BY <2>1, <4>1, <4>2, <4>3 DEF Ordered
    <3>10. stops # lastStopEvent => (\E j \in Stopped(pipe) : pipe[j].stop = stops)'
      BY <2>1, <3>5 DEF Ordered, Stopped
    <3> QED
      BY <2>1, <3>3, <3>7, <3>8, <3>9, <3>10 DEF Ordered
  <2> QED
    BY <2>2, <2>3
<1>5. currentFrameId' \in Targets /\ lastStopEvent' \in Nat /\ lastStopEvent <= lastStopEvent'
  BY <1>1 DEF IInv, Types, FieldTypes
<1>6. FALSE \in BOOLEAN /\ NoData.stop <= lastStopEvent'
  BY <1>1, <1>2 DEF IInv, Types, FieldTypes
<1> QED
  BY <1>1, <1>2, <1>3, <1>4, <1>5, <1>6, SettleStep

-----------------------------------------------------------------------------
(* The lines of one 'data' event. *)

\* The lines that are handled are the first n, and what is left keeps its order.
LEMMA LinesRead ==
  ASSUME IInv, NEW L \in Nat, NEW n \in Nat, 1 <= n, n <= L, DOMAIN pipe = 1 .. L,
         pipe' \in Seq(ReplyLines \cup StopLines), DOMAIN pipe' = 1 .. L - n,
         \A k \in 1 .. L - n : pipe'[k] = pipe[k + n],
         NEW lines, DOMAIN lines = 1 .. n, \A k \in 1 .. n : lines[k] = pipe[k],
         OnStopped(lines), stops' = stops
  PROVE  /\ pipe' \in Seq(ReplyLines \cup StopLines) /\ Ordered'
         /\ currentFrameId' \in Targets /\ lastStopEvent' \in Nat
         /\ lastStopEvent <= lastStopEvent'
         /\ \A i \in Replies(lines) :
               i \in Replies(pipe) /\ lines[i] = pipe[i] /\ pipe[i].stop <= lastStopEvent'
         /\ \A k \in Replies(pipe') :
               k + n \in Replies(pipe) /\ k + n > n /\ pipe'[k] = pipe[k + n]
         /\ \A i \in Replies(pipe) :
               \/ i \in Replies(lines)
               \/ i - n \in Replies(pipe') /\ pipe'[i - n] = pipe[i]
<1>1. \A k \in 1 .. L - n : k + n \in 1 .. L /\ k + n > n /\ k \in Nat
  OBVIOUS
<1>2. \A i \in 1 .. L : /\ i \in Nat
                         /\ i > n => i - n \in 1 .. L - n /\ (i - n) + n = i
  OBVIOUS
<1>3. /\ \A i \in Replies(lines) : i \in Replies(pipe) /\ i <= n /\ lines[i] = pipe[i]
      /\ \A i \in Stopped(lines) : i \in Stopped(pipe) /\ i <= n /\ lines[i] = pipe[i]
      /\ \A i \in Replies(pipe) : i <= n => i \in Replies(lines)
      /\ \A i \in Stopped(pipe) : i <= n => i \in Stopped(lines)
  BY <1>1, <1>2 DEF Replies, Stopped
<1>4. /\ \A k \in Replies(pipe') :
             k + n \in Replies(pipe) /\ k + n > n /\ pipe'[k] = pipe[k + n]
      /\ \A k \in Stopped(pipe') : k + n \in Stopped(pipe) /\ pipe'[k] = pipe[k + n]
  <2>1. ASSUME NEW k \in DOMAIN pipe'
        PROVE  k + n \in DOMAIN pipe /\ k + n > n /\ pipe'[k] = pipe[k + n]
    BY <1>1
  <2> QED
    BY <2>1 DEF Replies, Stopped
<1>5. ASSUME NEW i \in DOMAIN pipe, i > n
      PROVE  i - n \in DOMAIN pipe' /\ pipe'[i - n] = pipe[i] /\ i \in Nat
  BY <1>2, <1>5
<1>6. /\ \A i \in Replies(pipe) : i > n => i - n \in Replies(pipe') /\ pipe'[i - n] = pipe[i]
      /\ \A i \in Stopped(pipe) : i > n => i - n \in Stopped(pipe') /\ pipe'[i - n] = pipe[i]
  BY <1>5 DEF Replies, Stopped
<1>7. Ordered /\ lastStopEvent \in Nat /\ stops \in Nat /\ currentFrameId \in Targets
      /\ \A i \in DOMAIN pipe : pipe[i].stop \in Nat
  BY LineTypes DEF IInv, Telling, Types, FieldTypes, GdbTypes
<1>8. /\ currentFrameId' \in Targets /\ lastStopEvent' \in Nat
      /\ lastStopEvent <= lastStopEvent' /\ lastStopEvent' <= stops
      /\ \A i \in DOMAIN pipe : i > n => lastStopEvent' <= pipe[i].stop
      /\ \A i \in Stopped(pipe) : i <= n => pipe[i].stop <= lastStopEvent'
  <2>1. lastStopEvent <= stops
    <3>1. CASE stops = lastStopEvent
      BY <3>1, <1>7
    <3>2. CASE stops # lastStopEvent
      <4>1. PICK j \in Stopped(pipe) : pipe[j].stop = stops
        BY <3>2, <1>7 DEF Ordered
      <4> QED
        BY <4>1, <1>7 DEF Ordered, Stopped
    <3> QED
      BY <3>1, <3>2
  <2>2. CASE Stopped(lines) = {}
    <3>1. lastStopEvent' = lastStopEvent /\ currentFrameId' = currentFrameId
      BY <2>2 DEF OnStopped, fields
    <3> QED
      BY <3>1, <2>1, <2>2, <1>3, <1>7 DEF Ordered
  <2>3. CASE Stopped(lines) # {}
    <3>1. currentFrameId' = 0
      BY <2>3 DEF OnStopped, UpdateCurrentFrame
    <3>2. PICK i \in Stopped(lines) :
              (\A j \in Stopped(lines) : j <= i) /\ lastStopEvent' = lines[i].stop
      BY <2>3 DEF OnStopped, CreateStopEvent
    <3>3. i \in DOMAIN pipe /\ i <= n /\ lastStopEvent' = pipe[i].stop
      BY <3>2, <1>3 DEF Stopped
    <3>4. lastStopEvent' \in Nat /\ lastStopEvent <= lastStopEvent' /\ lastStopEvent' <= stops
      BY <3>3, <1>7 DEF Ordered
    <3>5. ASSUME NEW k \in DOMAIN pipe, k > n PROVE lastStopEvent' <= pipe[k].stop
      <4>1. i <= k
        BY <3>3, <3>5, <1>1, <1>2
      <4> QED
        BY <4>1, <3>3, <1>7 DEF Ordered
    <3>6. ASSUME NEW k \in Stopped(pipe), k <= n PROVE pipe[k].stop <= lastStopEvent'
      <4>1. k <= i /\ k \in DOMAIN pipe
        BY <3>2, <3>6, <1>3 DEF Stopped
      <4> QED
        BY <4>1, <3>3, <1>7 DEF Ordered
    <3>7. 0 \in Targets
      BY ConstantsAssumption DEF Targets
    <3> QED
      BY <3>1, <3>4, <3>5, <3>6, <3>7
  <2> QED
    BY <2>2, <2>3
<1>9. Ordered'
  <2>1. ASSUME NEW k \in DOMAIN pipe'
        PROVE  /\ k + n \in DOMAIN pipe /\ k + n > n /\ pipe'[k] = pipe[k + n]
    BY <1>1, <1>2
  <2>2. \A k \in DOMAIN pipe' : lastStopEvent' <= pipe'[k].stop /\ pipe'[k].stop <= stops
    BY <2>1, <1>7, <1>8 DEF Ordered
  <2>3. ASSUME NEW k \in DOMAIN pipe', NEW l \in DOMAIN pipe', k <= l
        PROVE  pipe'[k].stop <= pipe'[l].stop
    <3>1. k + n <= l + n
      BY <2>3, <1>2
    <3> QED
      BY <3>1, <2>1, <1>7 DEF Ordered
  <2>4. ASSUME NEW k \in Replies(pipe'), pipe'[k].stop # lastStopEvent'
        PROVE  \E j \in Stopped(pipe') : j < k /\ pipe'[j].stop = pipe'[k].stop
    <3>1. k + n \in Replies(pipe) /\ k + n > n /\ pipe'[k] = pipe[k + n] /\ k \in Nat
          /\ k + n \in DOMAIN pipe
      BY <1>2, <1>4 DEF Replies
    <3>2. pipe[k + n].stop # lastStopEvent
      BY <2>4, <3>1, <1>7, <1>8
    <3>3. PICK j \in Stopped(pipe) : j < k + n /\ pipe[j].stop = pipe[k + n].stop
      BY <3>1, <3>2, <1>7 DEF Ordered
    <3>4. j \in DOMAIN pipe /\ j \in Nat
      BY <1>1 DEF Stopped
    <3>5. j > n
      <4>1. pipe[j].stop \in Nat /\ pipe[j].stop # lastStopEvent' /\ lastStopEvent' <= pipe[j].stop
        BY <2>4, <3>1, <3>3, <1>7, <1>8
      <4>2. ~(pipe[j].stop <= lastStopEvent')
        BY <4>1, <1>8
      <4> QED
        BY <4>2, <3>4, <1>2, <1>8
    <3>6. j - n \in Stopped(pipe') /\ pipe'[j - n] = pipe[j] /\ j - n < k
      BY <3>1, <3>3, <3>4, <3>5, <1>2, <1>6
    <3> QED
      BY <3>1, <3>3, <3>6
  <2>5. ASSUME stops # lastStopEvent'
        PROVE  \E j \in Stopped(pipe') : pipe'[j].stop = stops
    <3>1. stops # lastStopEvent
      BY <2>5, <1>7, <1>8
    <3>2. PICK j \in Stopped(pipe) : pipe[j].stop = stops
      BY <3>1, <1>7 DEF Ordered
    <3>3. j \in DOMAIN pipe /\ j \in Nat
      BY <1>1 DEF Stopped
    <3>4. j > n
      <4>1. ~(pipe[j].stop <= lastStopEvent')
        BY <2>5, <3>2, <1>7, <1>8
      <4> QED
        BY <4>1, <3>3, <1>2, <1>8
    <3> QED
      BY <3>2, <3>4, <1>6
  <2>6. Replies(pipe)' = Replies(pipe') /\ Stopped(pipe)' = Stopped(pipe')
    BY DEF Replies, Stopped
  <2> QED
    BY <2>2, <2>3, <2>4, <2>5, <2>6 DEF Ordered
<1>10. ASSUME NEW i \in Replies(lines) PROVE pipe[i].stop <= lastStopEvent'
  <2>1. i \in Replies(pipe) /\ i \in DOMAIN pipe /\ i \in Nat /\ i <= n
    BY <1>1, <1>3 DEF Replies
  <2>2. CASE pipe[i].stop = lastStopEvent
    BY <2>2, <1>8
  <2>3. CASE pipe[i].stop # lastStopEvent
    <3>1. PICK j \in Stopped(pipe) : j < i /\ pipe[j].stop = pipe[i].stop
      BY <2>1, <2>3, <1>7 DEF Ordered
    <3>2. j \in Nat
      BY <1>1 DEF Stopped
    <3> QED
      BY <2>1, <3>1, <3>2, <1>2, <1>8
  <2> QED
    BY <2>2, <2>3
<1>11. ASSUME NEW i \in Replies(pipe)
       PROVE  \/ i \in Replies(lines)
              \/ i - n \in Replies(pipe') /\ pipe'[i - n] = pipe[i]
  <2>1. i \in Nat
    BY <1>1 DEF Replies
  <2>2. i <= n \/ i > n
    BY <2>1, <1>2
  <2> QED
    BY <2>2, <1>3, <1>6
<1>12. \A i \in Replies(lines) :
          i \in Replies(pipe) /\ lines[i] = pipe[i] /\ pipe[i].stop <= lastStopEvent'
  BY <1>3, <1>10
<1>13. \A i \in Replies(pipe) :
          \/ i \in Replies(lines)
          \/ i - n \in Replies(pipe') /\ pipe'[i - n] = pipe[i]
  BY <1>11
<1>14. /\ currentFrameId' \in Targets /\ lastStopEvent' \in Nat
       /\ lastStopEvent <= lastStopEvent'
  BY <1>8
<1> QED
  BY <1>4, <1>9, <1>12, <1>13, <1>14

\* Lines without an answer leave the requests and the channel as they are.
LEMMA ReadStep ==
  ASSUME IInv, NEW n \in Nat,
         UNCHANGED <<request, queue, executed, shown, stale, gdb>>,
         pipe' \in Seq(ReplyLines \cup StopLines), Ordered',
         currentFrameId' \in Targets, lastStopEvent' \in Nat, lastStopEvent <= lastStopEvent',
         \A k \in Replies(pipe') : k + n \in Replies(pipe) /\ pipe'[k] = pipe[k + n],
         \A i \in Replies(pipe) : i - n \in Replies(pipe') /\ pipe'[i - n] = pipe[i]
  PROVE  IInv'
<1>1. Types'
  BY DEF IInv, Types, FieldTypes, ChannelTypes, GdbTypes, gdb
<1>2. Replies(pipe)' = Replies(pipe')
  BY DEF Replies
<1>3. Serving'
  <2>1. ASSUME NEW i \in Replies(pipe'), NEW j \in Replies(pipe') PROVE i = j
    <3>1. i + n = j + n
      BY DEF IInv, Serving, Answering
    <3>2. i \in Int /\ j \in Int
      <4>1. i \in DOMAIN pipe' /\ j \in DOMAIN pipe'
        BY DEF Replies
      <4> QED
        BY <4>1
    <3> QED
      BY <3>1, <3>2
  <2>2. Answering'
    BY <1>2, <2>1 DEF IInv, Serving, Answering, Outlasts
  <2> QED
    BY <2>2 DEF IInv, Serving, Scripted, Pending, Queued
<1>4. Telling'
  <2>1. shown' <= lastStopEvent'
    BY DEF IInv, Telling, Types, FieldTypes
  <2>2. ASSUME NEW m \in Requests PROVE NotNewer(request[m])' /\ Fresh(request[m])'
    <3>1. \A i \in DOMAIN request[m].data : request[m].data[i].stop \in Nat
      BY DataTypes
    <3>2. request[m].got.stop \in Nat
      BY DataTypes
    <3>3. lastStopEvent \in Nat
      BY DEF IInv, Types, FieldTypes
    <3>4. NotNewer(request[m]) /\ Fresh(request[m])
      BY DEF IInv, Telling
    <3> QED
      BY <3>1, <3>2, <3>3, <3>4 DEF NotNewer, Fresh, Pending
  <2> QED
    BY <2>1, <2>2 DEF Telling
<1>5. ASSUME NEW m \in Requests PROVE OkReply(m)' <=> OkReply(m)
  BY <1>2 DEF OkReply
<1>6. ASSUME NEW m \in Requests PROVE Alone(m)' /\ OfItsFrame(m)'
  <2>1. Alone(m)'
    BY DEF IInv, Reading, Alone, Pending
  <2>2. Placed(m)' <=> Placed(m)
    BY DEF Placed, gdb
  <2>3. OfItsFrame(m) /\ request' = request
    BY DEF IInv, Reading
  <2>4. ASSUME NEW k \in Replies(pipe'), request[m].solo, request[m].op \in OfFrame,
               request[m].st = "waiting",
               pipe'[k].call = m, pipe'[k].ok, pipe'[k].name \in Reads
        PROVE  pipe'[k].frame = request[m].target
    BY <2>3, <2>4 DEF OfItsFrame
  <2> QED
    BY <1>2, <1>5, <2>1, <2>2, <2>3, <2>4 DEF OfItsFrame
<1>7. Owned'
  <2>1. ASSUME NEW m \in Requests PROVE Has(m)' <=> Has(m)
    BY <1>5 DEF Has
  <2> QED
    BY <1>2, <2>1 DEF IInv, Owned, Stray, gdb
<1> QED
  BY <1>1, <1>3, <1>4, <1>6, <1>7 DEF IInv, Reading

LEMMA HandleDataStep ==
  ASSUME IInv, HandleData
  PROVE  IInv'
<1>1. PICK n \in 1 .. Len(pipe) :
          LET lines == SubSeq(pipe, 1, n) IN
          /\ pipe' = SubSeq(pipe, n + 1, Len(pipe))
          /\ OnStopped(lines)
          /\ IF Replies(lines) = {}
             THEN UNCHANGED <<request, queue, executed>>
             ELSE \E i \in Replies(lines) :
                      Settle(lines[i].ok, [what |-> lines[i].name, frame |-> lines[i].frame,
                                           stop |-> lines[i].stop])
  BY DEF HandleData
<1>2. PICK lines : lines = SubSeq(pipe, 1, n)
  OBVIOUS
<1>3. UNCHANGED <<shown, stale, gdb>> /\ OnStopped(lines)
  BY <1>1, <1>2 DEF HandleData
<1>4. PICK T : T = ReplyLines \cup StopLines
  OBVIOUS
<1>5. PICK p \in Seq(T) : p = pipe
  BY <1>4 DEF IInv, Types, ChannelTypes
<1>6. PICK m \in 1 .. Len(p) : m = n
  BY <1>5
<1>7. PICK u : u = SubSeq(p, m + 1, Len(p))
  OBVIOUS
<1>8. u = pipe' /\ lines = SubSeq(p, 1, m)
  BY <1>1, <1>2, <1>5, <1>6, <1>7
<1>9. /\ DOMAIN lines = 1 .. m /\ Len(p) \in Nat /\ DOMAIN p = 1 .. Len(p)
      /\ \A k \in 1 .. m : lines[k] = p[k]
      /\ u \in Seq(T) /\ DOMAIN u = 1 .. Len(p) - m
      /\ \A k \in 1 .. Len(p) - m : u[k] = p[k + m]
      /\ m \in Nat /\ 1 <= m /\ m <= Len(p)
  <2>1. /\ DOMAIN SubSeq(p, 1, m) = 1 .. m /\ Len(p) \in Nat
        /\ \A k \in 1 .. m : SubSeq(p, 1, m)[k] = p[k]
        /\ SubSeq(p, m + 1, Len(p)) \in Seq(T)
        /\ DOMAIN SubSeq(p, m + 1, Len(p)) = 1 .. Len(p) - m
        /\ \A k \in 1 .. Len(p) - m : SubSeq(p, m + 1, Len(p))[k] = p[k + m]
    BY CutAt
  <2>2. DOMAIN p = 1 .. Len(p)
    OBVIOUS
  <2>3. m \in Nat /\ 1 <= m /\ m <= Len(p)
    BY <2>1
  <2> QED
    BY <2>1, <2>2, <2>3, <1>7, <1>8
<1>10. PICK L \in Nat : L = Len(p)
  <2>1. Len(p) \in Nat
    BY <1>9
  <2> QED
    BY <2>1
<1>11. /\ m \in Nat /\ 1 <= m /\ m <= L /\ DOMAIN pipe = 1 .. L
       /\ pipe' \in Seq(ReplyLines \cup StopLines) /\ DOMAIN pipe' = 1 .. L - m
       /\ \A k \in 1 .. L - m : pipe'[k] = pipe[k + m]
       /\ DOMAIN lines = 1 .. m /\ \A k \in 1 .. m : lines[k] = pipe[k]
  BY <1>4, <1>5, <1>8, <1>9, <1>10
<1>12. stops' = stops
  BY <1>3 DEF gdb
<1>13. /\ pipe' \in Seq(ReplyLines \cup StopLines) /\ Ordered'
       /\ currentFrameId' \in Targets /\ lastStopEvent' \in Nat
       /\ lastStopEvent <= lastStopEvent'
       /\ \A i \in Replies(lines) :
             i \in Replies(pipe) /\ lines[i] = pipe[i] /\ pipe[i].stop <= lastStopEvent'
       /\ \A k \in Replies(pipe') :
             k + m \in Replies(pipe) /\ k + m > m /\ pipe'[k] = pipe[k + m]
       /\ \A i \in Replies(pipe) :
             \/ i \in Replies(lines)
             \/ i - m \in Replies(pipe') /\ pipe'[i - m] = pipe[i]
  BY <1>3, <1>11, <1>12, LinesRead
<1>14. CASE Replies(lines) = {}
  <2>1. UNCHANGED <<request, queue, executed, shown, stale, gdb>>
    BY <1>1, <1>2, <1>3, <1>14
  <2>2. /\ \A k \in Replies(pipe') : k + m \in Replies(pipe) /\ pipe'[k] = pipe[k + m]
        /\ \A i \in Replies(pipe) : i - m \in Replies(pipe') /\ pipe'[i - m] = pipe[i]
    BY <1>13, <1>14
  <2> QED
    BY <2>1, <2>2, <1>13, <1>11, ReadStep
<1>15. CASE Replies(lines) # {}
  <2>1. PICK i \in Replies(lines) :
            Settle(lines[i].ok, [what |-> lines[i].name, frame |-> lines[i].frame,
                                 stop |-> lines[i].stop])
    BY <1>1, <1>2, <1>15
  <2>2. PICK l \in ReplyLines : l = pipe[i] /\ l = lines[i] /\ l.stop <= lastStopEvent'
    BY <1>13, LineTypes
  <2>3. PICK got : got = [what |-> l.name, frame |-> l.frame, stop |-> l.stop]
    OBVIOUS
  <2>4. /\ got \in Data /\ got.what = l.name /\ got.frame = l.frame /\ got.stop = l.stop
        /\ l.ok \in BOOLEAN
    BY <2>3 DEF Data, ReplyLines
  <2>5. Settle(l.ok, got)
    BY <2>1, <2>2, <2>3
  <2>6. i \in Replies(pipe) /\ i \in DOMAIN lines
    BY <1>13 DEF Replies
  <2>7. queue # <<>>
    BY <2>6 DEF IInv, Serving, Answering, Queued
  <2>8. Replies(pipe)' = {}
    <3>1. ASSUME NEW k \in Replies(pipe') PROVE FALSE
      <4>1. k + m = i
        BY <1>13, <2>6 DEF IInv, Serving, Answering
      <4> QED
        BY <4>1, <1>11, <1>13, <2>6
    <3> QED
      BY <3>1 DEF Replies
  <2>9. UNCHANGED <<shown, stops, moving, selected, varobj, stale>>
    BY <1>3 DEF gdb
  <2>10. stale' \in Seq(Commands)
         /\ (\A j \in DOMAIN stale : Outlasts(stale[j]) /\ Stray(stale[j]))'
    BY <2>9 DEF IInv, Types, ChannelTypes, Serving, Answering, Outlasts, Owned, Stray
  <2>11. \E j \in Replies(pipe) : pipe[j].ok = l.ok
    BY <2>2, <2>6
  <2>12. l.ok => \E j \in Replies(pipe) :
                     pipe[j].ok /\ got.what = pipe[j].name /\ got.frame = pipe[j].frame
    BY <2>2, <2>4, <2>6
  <2>13. got.stop <= lastStopEvent'
    BY <2>2, <2>4
  <2> QED
    BY <1>13, <2>4, <2>5, <2>7, <2>8, <2>9, <2>10, <2>11, <2>12, <2>13, SettleStep
<1> QED
  BY <1>14, <1>15

-----------------------------------------------------------------------------
(* GDB executes a command, and the program stops. *)

\* A line that GDB writes comes after all others, and is of the newest stop.
LEMMA LineWritten ==
  ASSUME IInv, NEW l \in ReplyLines \cup StopLines, pipe' = Append(pipe, l),
         l.stop = stops', lastStopEvent' = lastStopEvent,
         \/ l.type = "reply" /\ stops' = stops
         \/ l.type = "stopped" /\ stops' = stops + 1
  PROVE  /\ pipe' \in Seq(ReplyLines \cup StopLines) /\ Ordered'
         /\ \A i \in Replies(pipe) : i \in Replies(pipe') /\ pipe'[i] = pipe[i]
         /\ \A i \in Replies(pipe') : \/ i \in Replies(pipe) /\ pipe'[i] = pipe[i]
                                      \/ l.type = "reply" /\ pipe'[i] = l /\ i = Len(pipe) + 1
         /\ l.type = "reply" => Len(pipe) + 1 \in Replies(pipe') /\ pipe'[Len(pipe) + 1] = l
<1>1. PICK L \in Nat : L = Len(pipe)
  <2>1. Len(pipe) \in Nat
    BY LineTypes
  <2> QED
    BY <2>1
<1>2. /\ pipe' \in Seq(ReplyLines \cup StopLines) /\ DOMAIN pipe = 1 .. L
      /\ DOMAIN pipe' = 1 .. L + 1 /\ pipe'[L + 1] = l
      /\ \A i \in 1 .. L : pipe'[i] = pipe[i]
  <2>1. PICK T : T = ReplyLines \cup StopLines
    OBVIOUS
  <2>2. PICK p \in Seq(T) : p = pipe
    BY <2>1 DEF IInv, Types, ChannelTypes
  <2>3. PICK x \in T : x = l
    BY <2>1
  <2>4. /\ Append(p, x) \in Seq(T) /\ DOMAIN Append(p, x) = 1 .. Len(p) + 1
        /\ DOMAIN p = 1 .. Len(p)
        /\ \A i \in 1 .. Len(p) : Append(p, x)[i] = p[i]
        /\ Append(p, x)[Len(p) + 1] = x
    BY AppendAt
  <2> QED
    BY <2>1, <2>2, <2>3, <2>4, <1>1
<1>3. \A i \in 1 .. L + 1 : i \in 1 .. L \/ i = L + 1
  OBVIOUS
<1>4. /\ \A i \in 1 .. L : i < L + 1 /\ i \in 1 .. L + 1 /\ i # L + 1 /\ i \in Nat
      /\ L + 1 \in 1 .. L + 1
  OBVIOUS
<1>5. /\ \A i \in Replies(pipe) : i \in Replies(pipe') /\ pipe'[i] = pipe[i]
      /\ \A i \in Stopped(pipe) : i \in Stopped(pipe') /\ pipe'[i] = pipe[i]
      /\ \A i \in Replies(pipe') : \/ i \in Replies(pipe) /\ pipe'[i] = pipe[i]
                                   \/ l.type = "reply" /\ pipe'[i] = l /\ i = L + 1
      /\ l.type = "reply" => L + 1 \in Replies(pipe')
      /\ l.type = "stopped" => L + 1 \in Stopped(pipe')
  BY <1>2, <1>3, <1>4 DEF Replies, Stopped
<1>6. /\ Ordered /\ lastStopEvent \in Nat /\ stops \in Nat /\ stops' \in Nat
      /\ \A i \in DOMAIN pipe : pipe[i].stop \in Nat
  BY LineTypes DEF IInv, Telling, Types, FieldTypes, GdbTypes
<1>7. lastStopEvent <= stops /\ stops <= stops'
  <2>1. lastStopEvent <= stops
    <3>1. CASE stops = lastStopEvent
      BY <3>1, <1>6
    <3>2. CASE stops # lastStopEvent
      <4>1. PICK j \in Stopped(pipe) : pipe[j].stop = stops
        BY <3>2, <1>6 DEF Ordered
      <4> QED
        BY <4>1, <1>6 DEF Ordered, Stopped
    <3> QED
      BY <3>1, <3>2
  <2> QED
    BY <2>1, <1>6
<1>8. \A i \in 1 .. L :
          /\ lastStopEvent <= pipe'[i].stop /\ pipe'[i].stop <= stops'
          /\ pipe'[i].stop \in Nat
  <2>1. ASSUME NEW i \in 1 .. L
        PROVE  /\ lastStopEvent <= pipe'[i].stop /\ pipe'[i].stop <= stops'
               /\ pipe'[i].stop \in Nat
    <3>1. /\ pipe'[i] = pipe[i] /\ pipe[i].stop \in Nat
          /\ lastStopEvent <= pipe[i].stop /\ pipe[i].stop <= stops
      BY <1>2, <1>6 DEF Ordered
    <3>2. PICK x \in Nat : x = pipe[i].stop
      BY <3>1
    <3>3. x <= stops'
      <4>1. x \in Nat /\ x <= stops /\ stops \in Nat /\ stops' \in Nat /\ stops <= stops'
        BY <3>1, <3>2, <1>6, <1>7
      <4> QED
        BY <4>1
    <3> QED
      BY <3>1, <3>2, <3>3
  <2> QED
    BY <2>1
<1>9. \A i \in DOMAIN pipe' :
          lastStopEvent' <= pipe'[i].stop /\ pipe'[i].stop <= stops'
  BY <1>2, <1>3, <1>6, <1>7, <1>8
<1>10. ASSUME NEW i \in DOMAIN pipe', NEW j \in DOMAIN pipe', i <= j
       PROVE  pipe'[i].stop <= pipe'[j].stop
  <2>1. CASE j = L + 1
    BY <2>1, <1>2, <1>9
  <2>2. CASE j \in 1 .. L
    <3>1. i \in 1 .. L
      BY <2>2, <1>2, <1>3, <1>10
    <3> QED
      BY <2>2, <3>1, <1>2, <1>6, <1>10 DEF Ordered
  <2> QED
    BY <2>1, <2>2, <1>2, <1>3
<1>11. ASSUME NEW i \in Replies(pipe'), pipe'[i].stop # lastStopEvent'
       PROVE  \E j \in Stopped(pipe') : j < i /\ pipe'[j].stop = pipe'[i].stop
  <2>1. CASE i \in Replies(pipe) /\ pipe'[i] = pipe[i]
    <3>1. pipe[i].stop # lastStopEvent
      BY <2>1, <1>11
    <3>2. PICK j \in Stopped(pipe) : j < i /\ pipe[j].stop = pipe[i].stop
      BY <2>1, <3>1, <1>6 DEF Ordered
    <3> QED
      BY <2>1, <3>2, <1>5
  <2>2. CASE l.type = "reply" /\ pipe'[i] = l /\ i = L + 1
    <3>1. stops' = stops /\ stops # lastStopEvent
      BY <2>2, <1>11
    <3>2. PICK j \in Stopped(pipe) : pipe[j].stop = stops
      BY <3>1, <1>6 DEF Ordered
    <3>3. j < i
      <4>1. j \in 1 .. L
        BY <1>2 DEF Stopped
      <4> QED
        BY <4>1, <2>2, <1>4
    <3> QED
      BY <2>2, <3>1, <3>2, <3>3, <1>5
  <2> QED
    BY <2>1, <2>2, <1>5
<1>12. ASSUME stops' # lastStopEvent'
       PROVE  \E j \in Stopped(pipe') : pipe'[j].stop = stops'
  <2>1. CASE l.type = "stopped"
    BY <2>1, <1>2, <1>5
  <2>2. CASE l.type = "reply" /\ stops' = stops
    <3>1. PICK j \in Stopped(pipe) : pipe[j].stop = stops
      BY <2>2, <1>6, <1>12 DEF Ordered
    <3> QED
      BY <2>2, <3>1, <1>5
  <2> QED
    BY <2>1, <2>2
<1>13. Replies(pipe)' = Replies(pipe') /\ Stopped(pipe)' = Stopped(pipe')
  BY DEF Replies, Stopped
<1>14. Ordered'
  BY <1>9, <1>10, <1>11, <1>12, <1>13 DEF Ordered
<1> QED
  BY <1>1, <1>2, <1>5, <1>14

\* What happens while the program runs, or before GDB has caught up, is about nobody who
\* is alone and has selected a frame.
LEMMA UnplacedStep ==
  ASSUME IInv, moving \/ stale # <<>>,
         UNCHANGED <<currentFrameId, lastStopEvent, request, shown, queue, executed>>,
         stops' \in Nat, moving' \in BOOLEAN, selected' \in Nat,
         stale' \in Seq(Commands),
         (\A i \in DOMAIN stale : Outlasts(stale[i]) /\ Stray(stale[i]))',
         varobj' \in [Names -> Nat \cup {Nobody}],
         \A name \in Names : \/ varobj'[name] = varobj[name]
                             \/ varobj[name] \in {0, Nobody} /\ varobj'[name] \in {0, Nobody},
         pipe' \in Seq(ReplyLines \cup StopLines), Ordered',
         Replies(pipe') = Replies(pipe), \A i \in Replies(pipe) : pipe'[i] = pipe[i]
  PROVE  IInv'
<1>1. Types'
  BY DEF IInv, Types, FieldTypes, ChannelTypes, GdbTypes
<1>2. Replies(pipe)' = Replies(pipe)
  BY DEF Replies
<1>3. Serving'
  <2>1. Answering'
    BY <1>2 DEF IInv, Serving, Answering
  <2> QED
    BY <2>1 DEF IInv, Serving, Scripted, Pending, Queued
<1>4. Telling'
  BY DEF IInv, Telling, NotNewer, Fresh, Pending
<1>5. ASSUME NEW m \in Requests PROVE OkReply(m)' <=> OkReply(m)
  BY <1>2 DEF OkReply
<1>6. ASSUME NEW m \in Requests PROVE Alone(m)' /\ OfItsFrame(m)'
  <2>1. Alone(m)'
    BY DEF IInv, Reading, Alone, Pending
  <2>2. ~Placed(m)
    BY DEF Placed
  <2>3. OfItsFrame(m) /\ request' = request
    BY DEF IInv, Reading
  <2> QED
    BY <1>2, <1>5, <2>1, <2>2, <2>3 DEF OfItsFrame
<1>7. Owned'
  <2>1. ASSUME NEW m \in Requests PROVE Has(m)' <=> Has(m)
    BY <1>5 DEF Has
  <2>2. 0 \notin Requests /\ Nobody \notin Requests
    BY DEF Requests, Nobody
  <2>3. \A m \in Requests : request[m].name \in Names
    BY DEF IInv, Types, FieldTypes, RequestRecords
  <2>4. ASSUME NEW m \in Requests, Has(m)' PROVE varobj'[request'[m].name] = m
    BY <2>1, <2>2, <2>3, <2>4 DEF IInv, Owned
  <2>5. ASSUME NEW name \in Names, varobj'[name] \notin {0, Nobody}
        PROVE  (varobj[name] \in Requests /\ Has(varobj[name])
                    /\ request[varobj[name]].name = name)'
    <3>1. PICK m \in Requests : m = varobj[name] /\ m = varobj'[name] /\ Has(m)
                               /\ request[m].name = name
      BY <2>5 DEF IInv, Owned
    <3>2. Has(varobj[name])' <=> Has(m)'
      BY <3>1 DEF Has
    <3> QED
      BY <2>1, <3>1, <3>2
  <2>6. /\ \A i \in Replies(pipe)' : pipe'[i].name = "delete" => pipe'[i].ok
        /\ (\A i \in DOMAIN stale : Stray(stale[i]))'
    BY <1>2 DEF IInv, Owned
  <2> QED
    BY <2>4, <2>5, <2>6 DEF Owned
<1> QED
  BY <1>1, <1>3, <1>4, <1>6, <1>7 DEF IInv, Reading

LEMMA GdbCatchesUpStep ==
  ASSUME IInv, GdbCatchesUp
  PROVE  IInv'
<1>1. PICK s \in Seq(Commands) : s = stale /\ s # <<>> /\ stale' = Tail(s)
  BY DEF GdbCatchesUp, IInv, Types, ChannelTypes
<1>2. PICK c \in Commands : c = Head(stale)
  BY <1>1, TailAt
<1>3. /\ Tail(s) \in Seq(Commands) /\ Head(s) = s[1] /\ 1 \in DOMAIN s
      /\ \A i \in DOMAIN Tail(s) : i + 1 \in DOMAIN s /\ Tail(s)[i] = s[i + 1]
  BY <1>1, TailAt
<1>4. \A i \in DOMAIN s : Outlasts(s[i]) /\ Stray(s[i])
  BY <1>1 DEF IInv, Serving, Answering, Owned
<1>5. Outlasts(c) /\ Stray(c) /\ c.object \in Names
  BY <1>1, <1>2, <1>3, <1>4 DEF Commands
<1>6. (\E f \in Frames : Does(c, f)) \/ Deletes(c) \/ Refuses(c)
  BY <1>2 DEF GdbCatchesUp
<1> DEFINE Strays == \/ varobj' = varobj
                     \/ varobj[c.object] \in {0, Nobody}
                        /\ varobj' \in {[varobj EXCEPT ![c.object] = Nobody],
                                       [varobj EXCEPT ![c.object] = 0]}
<1>7. stops' = stops /\ Strays /\ moving' \in BOOLEAN /\ selected' \in Nat
  <2>1. CASE Refuses(c)
    BY <2>1 DEF Refuses, gdb, IInv, Types, GdbTypes
  <2>2. CASE Deletes(c)
    BY <2>2, <1>5 DEF Deletes, Stray, IInv, Types, GdbTypes
  <2>3. ASSUME NEW f \in Frames, Does(c, f)
        PROVE  stops' = stops /\ Strays /\ moving' \in BOOLEAN /\ selected' \in Nat
    <3>1. f \in Nat
      BY ConstantsAssumption DEF Frames
    <3>2. CASE c.name = "create"
      BY <2>3, <3>2, <1>5 DEF Does, Stray, IInv, Types, GdbTypes
    <3>3. CASE c.name # "create"
      BY <2>3, <3>1, <3>3, <1>5 DEF Outlasts, Does, gdb, IInv, Types, GdbTypes
    <3> QED
      BY <3>2, <3>3
  <2> QED
    BY <2>1, <2>2, <2>3, <1>6
<1>8. /\ varobj' \in [Names -> Nat \cup {Nobody}]
      /\ \A name \in Names : \/ varobj'[name] = varobj[name]
                             \/ varobj[name] \in {0, Nobody} /\ varobj'[name] \in {0, Nobody}
  <2>1. varobj \in [Names -> Nat \cup {Nobody}] /\ 0 \in Nat
    BY DEF IInv, Types, GdbTypes
  <2> QED
    BY <2>1, <1>5, <1>7
<1>9. UNCHANGED <<currentFrameId, lastStopEvent, request, shown, queue, executed, pipe>>
  BY DEF GdbCatchesUp, fields
<1>10. pipe' \in Seq(ReplyLines \cup StopLines) /\ Ordered' /\ stops' \in Nat
  BY <1>7, <1>9 DEF IInv, Types, ChannelTypes, GdbTypes, Telling, Ordered, Replies, Stopped
<1>11. Replies(pipe') = Replies(pipe) /\ \A i \in Replies(pipe) : pipe'[i] = pipe[i]
  BY <1>9
<1>12. stale' \in Seq(Commands)
       /\ (\A i \in DOMAIN stale : Outlasts(stale[i]) /\ Stray(stale[i]))'
  <2>1. \A i \in DOMAIN Tail(s) :
            Tail(s)[i] \in Commands /\ Outlasts(Tail(s)[i]) /\ Stray(Tail(s)[i])
    BY <1>3, <1>4
  <2>2. PICK t \in Seq(Commands) : t = Tail(s)
    BY <1>3
  <2>3. \A i \in DOMAIN t : Outlasts(t[i]) /\ Stray(t[i])'
    BY <2>1, <2>2, <1>8, StrayStays
  <2> QED
    BY <2>2, <2>3, <1>1 DEF Outlasts, Stray
<1> HIDE DEF Strays
<1> QED
  BY <1>1, <1>7, <1>8, <1>9, <1>10, <1>11, <1>12, UnplacedStep

LEMMA ProgramStopsStep ==
  ASSUME IInv, ProgramStops
  PROVE  IInv'
<1>1. /\ moving /\ moving' = FALSE /\ stops' = stops + 1 /\ selected' = 0
      /\ UNCHANGED <<currentFrameId, lastStopEvent, request, shown, queue, executed, stale,
                     varobj>>
  BY DEF ProgramStops, fields
<1>2. PICK l : l = [type |-> "stopped", stop |-> stops + 1]
  OBVIOUS
<1>3. /\ l \in ReplyLines \cup StopLines /\ l.type = "stopped" /\ l.stop = stops'
      /\ pipe' = Append(pipe, l) /\ stops' \in Nat
  BY <1>1, <1>2 DEF ProgramStops, StopLines, IInv, Types, GdbTypes
<1>4. /\ pipe' \in Seq(ReplyLines \cup StopLines) /\ Ordered'
      /\ \A i \in Replies(pipe) : i \in Replies(pipe') /\ pipe'[i] = pipe[i]
      /\ \A i \in Replies(pipe') : \/ i \in Replies(pipe) /\ pipe'[i] = pipe[i]
                                   \/ l.type = "reply" /\ pipe'[i] = l /\ i = Len(pipe) + 1
  BY <1>1, <1>3, LineWritten
<1>5. Replies(pipe') = Replies(pipe) /\ \A i \in Replies(pipe) : pipe'[i] = pipe[i]
  BY <1>3, <1>4
<1>6. stale' \in Seq(Commands)
      /\ (\A i \in DOMAIN stale : Outlasts(stale[i]) /\ Stray(stale[i]))'
  BY <1>1 DEF IInv, Types, ChannelTypes, Serving, Answering, Outlasts, Owned, Stray
<1>7. selected' \in Nat /\ moving' \in BOOLEAN /\ varobj' \in [Names -> Nat \cup {Nobody}]
  BY <1>1 DEF IInv, Types, GdbTypes
<1> QED
  BY <1>1, <1>3, <1>4, <1>5, <1>6, <1>7, UnplacedStep

\* The command that is served is executed, and answered as GDB did it.
LEMMA ExecuteStep ==
  ASSUME IInv, queue # <<>>, ~executed, stale = <<>>, NEW l \in ReplyLines,
         l.call = Head(queue), l.name = Head(request[Head(queue)].script), l.stop = stops,
         pipe' = Append(pipe, l), executed' = TRUE,
         UNCHANGED <<currentFrameId, lastStopEvent, request, shown, queue, stale, stops>>,
         moving' \in BOOLEAN, selected' \in Nat, varobj' \in [Names -> Nat \cup {Nobody}],
         request[Head(queue)].solo /\ request[Head(queue)].op \in OfFrame =>
             /\ (l.name # "select" /\ Placed(Head(queue))) \/ (l.name = "select" /\ l.ok)
                    => Placed(Head(queue))'
             /\ l.ok /\ l.name \in Reads /\ Placed(Head(queue))
                    => l.frame = request[Head(queue)].target,
         l.name = "delete" => l.ok,
         LET h == Head(queue)
             has == \/ l.name = "create" /\ l.ok
                    \/ l.name = "delete" /\ ~l.ok
             object == request[h].name
         IN  /\ request[h].op = "whatis" /\ has => varobj'[object] = h
             /\ \A name \in Names :
                   \/ varobj'[name] = varobj[name] /\ varobj'[name] # h
                   \/ varobj'[name] = h /\ varobj[name] \in {0, h} /\ name = object
                      /\ request[h].op = "whatis" /\ has
                   \/ varobj'[name] = 0 /\ varobj[name] = h
  PROVE  IInv'
<1>1. PICK h \in Requests : h = Head(queue)
  BY HeadWaits
<1>2. /\ request[h].st = "waiting" /\ Pending(request[h]) /\ request' = request
  BY <1>1, HeadWaits
<1>3. Replies(pipe) = {}
  BY DEF IInv, Serving, Answering
<1>4. PICK k \in Nat : k = Len(pipe) + 1
  <2>1. Len(pipe) \in Nat
    BY LineTypes
  <2> QED
    BY <2>1
<1>5. /\ pipe' \in Seq(ReplyLines \cup StopLines) /\ Ordered'
      /\ \A i \in Replies(pipe') : i = k /\ pipe'[i] = l
      /\ k \in Replies(pipe') /\ pipe'[k] = l
  <2>1. l \in ReplyLines \cup StopLines /\ l.type = "reply"
    BY DEF ReplyLines
  <2>2. l.stop = stops' /\ lastStopEvent' = lastStopEvent /\ stops' = stops
    OBVIOUS
  <2>3. /\ pipe' \in Seq(ReplyLines \cup StopLines) /\ Ordered'
        /\ \A i \in Replies(pipe') : \/ i \in Replies(pipe) /\ pipe'[i] = pipe[i]
                                     \/ l.type = "reply" /\ pipe'[i] = l /\ i = Len(pipe) + 1
        /\ l.type = "reply" => Len(pipe) + 1 \in Replies(pipe') /\ pipe'[Len(pipe) + 1] = l
    BY <2>1, <2>2, LineWritten
  <2> QED
    BY <2>1, <2>3, <1>3, <1>4
<1>6. Replies(pipe)' = Replies(pipe')
  BY DEF Replies
<1>7. Types'
  BY <1>5 DEF IInv, Types, FieldTypes, ChannelTypes, GdbTypes
<1>8. Serving'
  <2>1. Answering'
    BY <1>1, <1>2, <1>5, <1>6 DEF IInv, Serving, Answering, Outlasts
  <2> QED
    BY <2>1 DEF IInv, Serving, Scripted, Pending, Queued
<1>9. Telling'
  BY <1>5 DEF IInv, Telling, NotNewer, Fresh, Pending
<1>10. /\ \A m \in Requests : ~OkReply(m)
       /\ \A m \in Requests : OkReply(m)' <=> m = h /\ l.ok
  BY <1>1, <1>3, <1>5, <1>6 DEF OkReply
<1>11. ASSUME NEW m \in Requests PROVE Alone(m)' /\ OfItsFrame(m)'
  <2>1. Alone(m)'
    BY DEF IInv, Reading, Alone, Pending
  <2>2. CASE m # h
    <3>1. request[m].solo => ~Pending(request[m])
      BY <2>2, <1>2 DEF IInv, Reading, Alone
    <3> QED
      BY <2>1, <2>2, <3>1, <1>2 DEF IInv, Reading, OfItsFrame, Pending
  <2>3. CASE m = h
    <3>1. OfItsFrame(h)
      BY DEF IInv, Reading
    <3>2. ASSUME request[h].solo, request[h].op \in OfFrame
          PROVE  /\ \A i \in DOMAIN request[h].data :
                       request[h].data[i].what \in Reads => request[h].data[i].frame = request[h].target
                 /\ Head(request[h].script) # "select" \/ l.ok => Placed(h)'
                 /\ l.ok /\ l.name \in Reads => l.frame = request[h].target
      <4>1. Head(request[h].script) # "select" => Placed(h)
        BY <3>1, <3>2, <1>2 DEF OfItsFrame
      <4>2. "select" \notin Reads /\ l.name = Head(request[h].script)
        BY <1>1 DEF Reads
      <4>3. /\ (l.name # "select" /\ Placed(h)) \/ (l.name = "select" /\ l.ok) => Placed(h)'
            /\ l.ok /\ l.name \in Reads /\ Placed(h) => l.frame = request[h].target
        BY <3>2, <1>1
      <4> QED
        BY <3>1, <3>2, <4>1, <4>2, <4>3 DEF OfItsFrame
    <3>3. \A i \in Replies(pipe)' : pipe'[i] = l
      BY <1>5, <1>6
    <3> HIDE DEF Placed
    <3> QED
      BY <2>1, <2>3, <3>2, <3>3, <1>2, <1>10 DEF OfItsFrame
  <2> QED
    BY <2>2, <2>3
<1>12. Owned'
  <2>1. ASSUME NEW m \in Requests, m # h PROVE Has(m)' <=> Has(m)
    BY <2>1, <1>2, <1>10 DEF Has
  <2>2. Has(h)' <=> /\ request[h].op = "whatis"
                    /\ \/ l.name = "create" /\ l.ok
                       \/ l.name = "delete" /\ ~l.ok
    BY <1>1, <1>2, <1>10 DEF Has
  <2>3. h \notin {0, Nobody} /\ \A m \in Requests : m \notin {0, Nobody}
    BY DEF Requests, Nobody
  <2>4. /\ Has(h)' => varobj'[request[h].name] = h
        /\ \A name \in Names :
              \/ varobj'[name] = varobj[name] /\ varobj'[name] # h
              \/ varobj'[name] = h /\ varobj[name] \in {0, h} /\ name = request[h].name /\ Has(h)'
              \/ varobj'[name] = 0 /\ varobj[name] = h
    BY <2>2, <1>1
  <2>5. \A m \in Requests : request[m].name \in Names
    BY DEF IInv, Types, FieldTypes, RequestRecords
  <2>6. /\ \A m \in Requests : Has(m) => varobj[request[m].name] = m
        /\ \A name \in Names : varobj[name] \notin {0, Nobody} =>
              /\ varobj[name] \in Requests
              /\ Has(varobj[name]) /\ request[varobj[name]].name = name
    BY DEF IInv, Owned
  <2>7. ASSUME NEW m \in Requests, Has(m)' PROVE varobj'[request'[m].name] = m
    BY <2>1, <2>3, <2>4, <2>5, <2>6, <2>7, <1>2
  <2>8. ASSUME NEW name \in Names, varobj'[name] \notin {0, Nobody}
        PROVE  (varobj[name] \in Requests /\ Has(varobj[name])
                    /\ request[varobj[name]].name = name)'
    <3>1. PICK m \in Requests : m = varobj'[name] /\ Has(m)' /\ request[m].name = name
      <4>1. CASE varobj'[name] = varobj[name] /\ varobj'[name] # h
        <5>1. PICK m \in Requests :
                  m = varobj[name] /\ Has(m) /\ request[m].name = name /\ m # h
          BY <2>6, <2>8, <4>1
        <5> QED
          BY <2>1, <4>1, <5>1
      <4>2. CASE varobj'[name] = h /\ name = request[h].name /\ Has(h)'
        BY <4>2
      <4> QED
        BY <2>4, <2>8, <4>1, <4>2
    <3>2. Has(varobj[name])' <=> Has(m)'
      BY <3>1 DEF Has
    <3> QED
      BY <3>1, <3>2, <1>2
  <2>9. \A i \in Replies(pipe)' : pipe'[i].name = "delete" => pipe'[i].ok
    BY <1>5, <1>6
  <2>10. (\A i \in DOMAIN stale : Stray(stale[i]))'
    OBVIOUS
  <2> QED
    BY <2>7, <2>8, <2>9, <2>10 DEF Owned
<1> QED
  BY <1>7, <1>8, <1>9, <1>11, <1>12 DEF IInv, Reading

LEMMA GdbExecutesStep ==
  ASSUME IInv, GdbExecutes
  PROVE  IInv'
<1>1. /\ queue # <<>> /\ ~executed /\ stale = <<>> /\ executed' = TRUE
      /\ UNCHANGED <<currentFrameId, lastStopEvent, request, shown, queue, stale>>
  BY DEF GdbExecutes, fields
<1>2. PICK h \in Requests : h = Head(queue)
  BY <1>1, HeadWaits
<1>3. PICK c \in Commands :
          /\ c = Awaited /\ c.call = h /\ c.name = Head(request[h].script)
          /\ c.target = request[h].target /\ c.object = request[h].name
  BY <1>1, <1>2, AwaitedType
<1>4. request[h].st = "waiting" /\ request[h].op \in Ops
      /\ request[h].script \in Remaining[request[h].op]
  BY <1>1, <1>2, HeadWaits
<1>5. /\ c.name \in {"create", "delete"} => request[h].op = "whatis"
      /\ request[h].op \in OfFrame => c.name \in Reads \cup {"select", "list"}
  BY <1>3, <1>4, RemainingScripts
<1>6. ~OkReply(h)
  BY <1>1, <1>2, AnsweredIsServed
<1>7. Has(h) <=> c.name = "delete"
  BY <1>3, <1>4, <1>5, <1>6 DEF Has
<1>8. /\ \A m \in Requests : Has(m) => varobj[request[m].name] = m
      /\ \A name \in Names : varobj[name] \notin {0, Nobody} =>
            Has(varobj[name]) /\ request[varobj[name]].name = name
  BY DEF IInv, Owned
<1>9. \A name \in Names : varobj[name] = h => c.name = "delete" /\ name = c.object
  <2>1. h \notin {0, Nobody}
    BY DEF Requests, Nobody
  <2> QED
    BY <2>1, <1>3, <1>7, <1>8
<1>10. c.name = "delete" => varobj[c.object] = h /\ varobj[c.object] # 0
  <2>1. h \notin {0, Nobody}
    BY DEF Requests, Nobody
  <2> QED
    BY <2>1, <1>3, <1>7, <1>8
<1>11. c.object \in Names /\ c.name \in CommandNames
  BY DEF Commands
<1>12. /\ varobj \in [Names -> Nat \cup {Nobody}]
       /\ stops \in Nat /\ moving \in BOOLEAN /\ selected \in Nat
  BY DEF IInv, Types, GdbTypes
<1> DEFINE Good(l) ==
      /\ stops' = stops
      /\ moving' \in BOOLEAN /\ selected' \in Nat /\ varobj' \in [Names -> Nat \cup {Nobody}]
      /\ request[h].op \in OfFrame =>
             /\ (c.name # "select" /\ Placed(h)) \/ (c.name = "select" /\ l.ok) => Placed(h)'
             /\ l.ok /\ c.name \in Reads /\ Placed(h) => l.frame = c.target
      /\ c.name = "delete" => l.ok
      /\ c.name = "create" /\ l.ok => varobj'[c.object] = h
      /\ \A name \in Names :
            \/ varobj'[name] = varobj[name] /\ varobj'[name] # h
            \/ /\ varobj'[name] = h /\ varobj[name] \in {0, h} /\ name = c.object
               /\ c.name = "create" /\ l.ok
            \/ varobj'[name] = 0 /\ varobj[name] = h
<1>13. ASSUME NEW ok \in BOOLEAN, NEW frame \in Nat, NEW l, l = Reply(c, ok, frame),
              pipe' = Append(pipe, l), Good(l)
       PROVE  IInv'
  <2>1. /\ l \in ReplyLines /\ l.call = h /\ l.name = c.name /\ l.ok = ok /\ l.stop = stops
    BY <1>3, <1>11, <1>12, <1>13 DEF Reply, ReplyLines
  <2>2. request[h].solo /\ request[h].op \in OfFrame =>
            /\ (l.name # "select" /\ Placed(h)) \/ (l.name = "select" /\ l.ok) => Placed(h)'
            /\ l.ok /\ l.name \in Reads /\ Placed(h) => l.frame = request[h].target
    BY <2>1, <1>3, <1>13
  <2>3. \A name \in Names :
            \/ varobj'[name] = varobj[name] /\ varobj'[name] # h
            \/ /\ varobj'[name] = h /\ varobj[name] \in {0, h} /\ name = request[h].name
               /\ request[h].op = "whatis"
               /\ (l.name = "create" /\ l.ok) \/ (l.name = "delete" /\ ~l.ok)
            \/ varobj'[name] = 0 /\ varobj[name] = h
    BY <2>1, <1>3, <1>5, <1>13
  <2>4. request[h].op = "whatis" /\ ((l.name = "create" /\ l.ok) \/ (l.name = "delete" /\ ~l.ok))
            => varobj'[request[h].name] = h
    BY <2>1, <1>3, <1>13
  <2>5. /\ stops' = stops /\ moving' \in BOOLEAN /\ selected' \in Nat
        /\ varobj' \in [Names -> Nat \cup {Nobody}]
        /\ l.name = "delete" => l.ok
    BY <2>1, <1>13
  <2>6. l.call = Head(queue) /\ l.name = Head(request[Head(queue)].script)
    BY <2>1, <1>2, <1>3
  <2> HIDE DEF Good
  <2> QED
    BY <2>1, <2>2, <2>3, <2>4, <2>5, <2>6, <1>1, <1>2, <1>13, ExecuteStep
<1>14. CASE \E f \in Frames : /\ ~moving /\ Does(Awaited, f)
                              /\ pipe' = Append(pipe, Reply(Awaited, TRUE, f))
  <2>1. PICK f \in Frames : /\ ~moving /\ Does(c, f) /\ pipe' = Append(pipe, Reply(c, TRUE, f))
    BY <1>3, <1>14
  <2>2. PICK l : l = Reply(c, TRUE, f)
    OBVIOUS
  <2>3. l.ok = TRUE /\ l.frame = f /\ f \in Nat
    BY <2>2, ConstantsAssumption DEF Reply, Frames
  <2>4. Good(l)
    <3>1. CASE c.name = "create"
      <4>1. /\ varobj[c.object] = 0 /\ varobj' = [varobj EXCEPT ![c.object] = h]
            /\ UNCHANGED <<stops, moving, selected>>
        BY <2>1, <3>1, <1>3 DEF Does
      <4>2. request[h].op \notin OfFrame
        BY <3>1, <1>5 DEF OfFrame
      <4>3. h \in Nat
        BY DEF Requests
      <4> QED
        BY <2>3, <3>1, <4>1, <4>2, <4>3, <1>9, <1>11, <1>12
    <3>2. CASE c.name # "create"
      <4>1. varobj' = varobj /\ stops' = stops /\ moving' \in BOOLEAN /\ selected' \in Nat
            /\ c.name # "delete"
        BY <2>1, <2>3, <3>2, <1>12 DEF Does, gdb
      <4>2. c.name = "select" => Placed(h)'
        <5> SUFFICES ASSUME c.name = "select" PROVE Placed(h)'
          OBVIOUS
        <5>1. c.target = f /\ selected' = f /\ moving' = moving
          BY <2>1 DEF Does
        <5> QED
          BY <2>1, <5>1, <1>1, <1>3 DEF Placed
      <4>3. c.name \in Reads \cup {"list"} => UNCHANGED <<moving, selected>>
        BY <2>1 DEF Does, Reads, gdb
      <4>4. c.name \in Reads /\ Placed(h) => f = c.target
        BY <2>1, <1>3 DEF Does, Reads, Placed
      <4>5. c.name \in Reads \cup {"list"} /\ Placed(h) => Placed(h)'
        BY <4>3, <1>1 DEF Placed
      <4> HIDE DEF Placed
      <4> QED
        BY <2>3, <3>2, <4>1, <4>2, <4>4, <4>5, <1>5, <1>9, <1>12
    <3> QED
      BY <3>1, <3>2
  <2> HIDE DEF Good
  <2> QED
    BY <2>1, <2>2, <2>3, <2>4, <1>13
<1>15. CASE Deletes(Awaited) /\ pipe' = Append(pipe, Reply(Awaited, TRUE, 0))
  <2>1. /\ c.name = "delete" /\ varobj' = [varobj EXCEPT ![c.object] = 0]
        /\ UNCHANGED <<stops, moving, selected>>
    BY <1>3, <1>15 DEF Deletes
  <2>2. PICK l : l = Reply(c, TRUE, 0)
    OBVIOUS
  <2>3. l.ok = TRUE /\ l.frame = 0 /\ pipe' = Append(pipe, l)
    BY <2>2, <1>3, <1>15 DEF Reply
  <2>4. request[h].op \notin OfFrame
    BY <2>1, <1>5 DEF OfFrame
  <2>5. Good(l)
    BY <2>1, <2>3, <2>4, <1>9, <1>10, <1>11, <1>12
  <2> HIDE DEF Good
  <2> QED
    BY <2>2, <2>3, <2>5, <1>13
<1>16. CASE Refuses(Awaited) /\ pipe' = Append(pipe, Reply(Awaited, FALSE, 0))
  <2>1. c.name # "delete" /\ UNCHANGED <<stops, moving, selected, varobj>>
    BY <1>3, <1>10, <1>16 DEF Refuses, gdb
  <2>2. PICK l : l = Reply(c, FALSE, 0)
    OBVIOUS
  <2>3. l.ok = FALSE /\ l.frame = 0 /\ pipe' = Append(pipe, l)
    BY <2>2, <1>3, <1>16 DEF Reply
  <2>4. Placed(h)' <=> Placed(h)
    BY <2>1, <1>1 DEF Placed
  <2>5. Good(l)
    BY <2>1, <2>3, <2>4, <1>9, <1>12
  <2> HIDE DEF Good
  <2> QED
    BY <2>2, <2>3, <2>5, <1>13
<1> QED
  BY <1>14, <1>15, <1>16 DEF GdbExecutes

-----------------------------------------------------------------------------
(* Every step, and the theorems. *)

LEMMA StutterStep ==
  ASSUME IInv, UNCHANGED vars
  PROVE  IInv'
<1>1. /\ UNCHANGED <<currentFrameId, lastStopEvent, request, shown, queue, executed, stale, pipe>>
      /\ UNCHANGED <<stops, moving, selected, varobj>>
  BY DEF vars, fields, channel, gdb
<1>2. Replies(pipe)' = Replies(pipe) /\ Stopped(pipe)' = Stopped(pipe)
  BY <1>1 DEF Replies, Stopped
<1>3. Types'
  BY <1>1 DEF IInv, Types, FieldTypes, ChannelTypes, GdbTypes
<1>4. Serving'
  BY <1>1, <1>2 DEF IInv, Serving, Scripted, Pending, Queued, Answering, Outlasts
<1>5. Telling'
  BY <1>1, <1>2 DEF IInv, Telling, Ordered, NotNewer, Fresh, Pending
<1>6. ASSUME NEW m \in Requests PROVE OkReply(m)' = OkReply(m)
  BY <1>1, <1>2 DEF OkReply
<1>7. Reading'
  BY <1>1, <1>2, <1>6 DEF IInv, Reading, Alone, Pending, OfItsFrame, Placed
<1>8. Owned'
  BY <1>1, <1>2, <1>6 DEF IInv, Owned, Stray, Has
<1> QED
  BY <1>3, <1>4, <1>5, <1>7, <1>8 DEF IInv

LEMMA NextIInv == IInv /\ [Next]_vars => IInv'
<1> SUFFICES ASSUME IInv, [Next]_vars PROVE IInv'
  OBVIOUS
<1> QED
  BY RequestsStep, TimeoutStep, HandleDataStep, ResumeStep, DeliverStep, GdbExecutesStep,
     GdbCatchesUpStep, ProgramStopsStep, StutterStep DEF Next

\* The channel and the requests fit together at every moment: a request that waits is in
\* the channel once, an answer is to the command being served, stops come in their order,
\* and whoever is alone keeps the frame it selected (MI2.ts:62-107, 229-308;
\* GDBBackend.ts:87-96, 436-487).
THEOREM Invariant == Spec => []IInv
  BY InitIInv, NextIInv, PTL DEF Spec

\* A client that waits for each answer reads of the frame it named, or of the current one
\* (GDBBackend.ts:436-487, 519-538, 781-807).
THEOREM AloneReadsOfItsFrame == Spec => []SoloReadsAreOfFrame
<1>1. IInv => SoloReadsAreOfFrame
  <2> SUFFICES ASSUME IInv, NEW n \in Requests, Answered(n), request[n].solo,
                      request[n].op \in OfFrame, NEW i \in 1 .. Len(request[n].data),
                      request[n].data[i].what \in {"locals", "arguments", "value", "info"}
               PROVE  request[n].data[i].frame = request[n].target
    BY DEF SoloReadsAreOfFrame
  <2>1. PICK s \in Seq(Data) : s = request[n].data
    BY DEF IInv, Types, FieldTypes, RequestRecords
  <2>2. DOMAIN s = 1 .. Len(s)
    OBVIOUS
  <2> QED
    BY <2>1, <2>2 DEF IInv, Reading, OfItsFrame, Reads
<1> QED
  BY <1>1, Invariant, PTL

\* No stop that getLastStopInfo tells of is older than one that any client has already
\* been told or shown (GDBBackend.ts:87-96, 605-620).
THEOREM ToldStopsAreFresh == Spec => []StopInfoIsFresh
<1>1. IInv => StopInfoIsFresh
  BY DEF IInv, Telling, Fresh, StopInfoIsFresh, Answered
<1> QED
  BY <1>1, Invariant, PTL

\* whatis leaves no variable object behind but for one it gave up waiting for, and deletes
\* only its own, also when two requests make the same name (GDBBackend.ts:838-854).
THEOREM WhatisCleansUp == Spec => []WhatisLeavesNothing
<1>1. IInv => WhatisLeavesNothing
  <2> SUFFICES ASSUME IInv PROVE WhatisLeavesNothing
    OBVIOUS
  <2>1. ASSUME NEW name \in Names, varobj[name] \notin {0, Nobody}
        PROVE  Pending(request[varobj[name]])
    BY <2>1 DEF IInv, Owned, Has, Pending
  <2>2. ASSUME queue # <<>>, ~executed, Awaited.name = "delete"
        PROVE  varobj[Awaited.object] = Awaited.call
    BY <2>2, DeletesItsOwn
  <2> QED
    BY <2>1, <2>2 DEF WhatisLeavesNothing
<1> QED
  BY <1>1, Invariant, PTL

=============================================================================
