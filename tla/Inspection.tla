----------------------------- MODULE Inspection -----------------------------
(***************************************************************************)
(* What clients read of a stopped program: the operations of GDBBackend.ts *)
(* that inspect it, and the handlers of DebugAdapter.ts and router.ts that *)
(* call them.  A request is a script of GDB commands with an await after   *)
(* each, and requests interleave: the channel is shared, and so are GDB's  *)
(* selected frame and the backend's currentFrameId, which nothing keeps    *)
(* equal.  The channel serves one command at a time (SerialChannel).       *)
(***************************************************************************)
EXTENDS Integers, Sequences

CONSTANTS MaxRequests,  \* how many requests may be under way at once
          MaxStops,     \* bound on the stops of the program
          MaxStale,     \* bound on the commands nobody awaits any more
          MaxFrame,     \* the outermost frame of its stack
          Ops           \* the operations that are called

\* The commands of each operation.  getVariablesOf is getVariables with a frame;
\* query stands for the reads that concern no frame: registers, memory, the globals
\* and console statements; resume for continue and the steps.
Scripts(read, until) == [
    getStackTrace   |-> <<"frames">>,
    getVariables    |-> <<"locals">>,
    getVariablesOf  |-> <<"select", "locals">>,
    getArguments    |-> <<"select", "arguments">>,
    evaluate        |-> read,
    prettyPrint     |-> <<"value">>,
    query           |-> <<"query">>,
    listSource      |-> <<"select", "info", "list">>,
    getScopePreview |-> <<"locals", "select", "arguments">>,
    whatis          |-> <<"create", "delete">>,
    listThreads     |-> <<"threads">>,
    switchThread    |-> <<"switch">>,
    getLastStopInfo |-> <<"frames">>,
    runUntilLine    |-> until,
    selectFrame     |-> <<"select">>,
    resume          |-> <<"resume">>]

FaultUnselected == Scripts(<<"value">>, <<"frames", "insert", "resume">>)

Script == Scripts(<<"select", "value">>, <<"frames", "insert", "resume">>)

ASSUME ConstantsAssumption ==
    /\ MaxRequests \in Nat /\ MaxStops \in Nat \ {0} /\ MaxStale \in Nat /\ MaxFrame \in Nat
    /\ Ops \subseteq DOMAIN Script

Requests == 1..MaxRequests
Frames == 0..MaxFrame
Names == 1..2       \* the names that whatis makes of the clock, as many as are told apart
Nobody == -1        \* whose request gave up: nobody knows of the object any more

VARIABLES
    currentFrameId,     \* GDBBackend's idea of the selected frame
    lastStopEvent,      \* the stop it keeps, 0 if none
    request,            \* those under way, and those answered at this moment
    shown,              \* the newest stop of which a client was told or shown anything
    queue,              \* those whose command is in the channel
    executed,           \* whether GDB has executed that of the first
    stale,              \* commands that nobody awaits and GDB has not executed
    pipe,               \* output of GDB that is not handled
    stops, moving,      \* the stops of the program, and whether it runs
    selected,           \* GDB's selected frame
    varobj              \* the request that made the variable object of each name, 0 for none

fields  == <<currentFrameId, lastStopEvent>>
channel == <<queue, executed, stale, pipe>>
gdb     == <<stops, moving, selected, varobj>>
vars    == <<fields, request, shown, channel, gdb>>

NoData == [what |-> "none", frame |-> 0, stop |-> 0]

NoRequest == [op |-> "none", st |-> "none", target |-> 0, name |-> 1, script |-> <<>>,
              data |-> <<>>, ok |-> FALSE, got |-> NoData, solo |-> TRUE, seen |-> 0]

\* The program has stopped once, at its entry or where it was attached to.
Init ==
    /\ currentFrameId = 0 /\ lastStopEvent \in {0, 1}
    /\ request = [n \in Requests |-> NoRequest] /\ shown = 0
    /\ queue = <<>> /\ executed = FALSE /\ stale = <<>>
    /\ pipe = IF lastStopEvent = 0 THEN <<[type |-> "stopped", stop |-> 1]>> ELSE <<>>
    /\ stops = 1 /\ moving = FALSE /\ selected = 0
    /\ varobj = [n \in Names |-> 0]

-----------------------------------------------------------------------------
(* The requests, up to their first await. *)

Pending(r) == r.st \in {"waiting", "ready"}

\* Continuations run before anything else is handled.
Quiet == \A n \in Requests : request[n].st \in {"none", "waiting"}

\* Of two requests that overlap neither is alone.
Overlap(r) == IF Pending(r) THEN [r EXCEPT !.solo = FALSE] ELSE r

NoneUnderWay == \A n \in Requests : ~Pending(request[n])

NewestSeen == IF shown > lastStopEvent THEN shown ELSE lastStopEvent

New(op, target) ==
    [NoRequest EXCEPT !.op = op, !.target = target, !.script = Script[op],
                      !.solo = NoneUnderWay,
                      !.seen = IF op = "getLastStopInfo" THEN NewestSeen ELSE 0]

Admit(n, r) ==
    /\ Quiet
    /\ Len(stale) <= MaxStale
    /\ request[n] = NoRequest /\ \A m \in 1..n - 1 : request[m] # NoRequest
    /\ r.op \in Ops
    /\ request' = [m \in Requests |-> IF m = n THEN r ELSE Overlap(request[m])]

Begin(op, target, name) ==
    /\ \E n \in Requests :
          /\ Admit(n, [New(op, target) EXCEPT !.st = "waiting", !.name = name])
          /\ queue' = Append(queue, n)
    /\ UNCHANGED <<lastStopEvent, shown, executed, stale, pipe, gdb>>

\* These concern no frame, or begin with what GDB has selected.
Read ==
    /\ \E op \in {"getStackTrace", "query", "getScopePreview", "listThreads",
                  "switchThread", "runUntilLine", "resume"} :
          Begin(op, 0, 1)
    /\ UNCHANGED currentFrameId

\* These select the frame they are given.
ReadFrame ==
    /\ \E op \in {"getVariablesOf", "getArguments", "evaluate", "listSource"},
          f \in Frames : Begin(op, f, 1)
    /\ UNCHANGED currentFrameId

\* Without one they are about the current frame, which the first two do not select.
ReadCurrentFrame ==
    /\ \E op \in {"getVariables", "prettyPrint", "getArguments", "evaluate", "listSource"} :
          Begin(op, currentFrameId, 1)
    /\ UNCHANGED currentFrameId

\* The name of the variable object is the time in milliseconds, which two requests
\* may share; that of an object which a timeout left behind is long past.
Whatis ==
    /\ \E name \in Names : varobj[name] # Nobody /\ Begin("whatis", 0, name)
    /\ UNCHANGED currentFrameId

\* frameUp, frameDown and gotoFrame.  The id changes before GDB has a say.
SelectFrame ==
    /\ \E f \in 0 .. MaxFrame + 1 :
          Begin("selectFrame", f, 1) /\ currentFrameId' = f

\* The stop that is kept is answered at once, else the stack is read.
StopEventKept == lastStopEvent # 0

GetLastStopInfo ==
    /\ IF StopEventKept
       THEN /\ \E n \in Requests :
                  Admit(n, [New("getLastStopInfo", 0) EXCEPT
                      !.st = "answered", !.script = <<>>,
                      !.data = <<[what |-> "stop", frame |-> 0, stop |-> lastStopEvent]>>])
            /\ UNCHANGED <<lastStopEvent, shown, channel, gdb>>
       ELSE Begin("getLastStopInfo", 0, 1)
    /\ UNCHANGED currentFrameId

\* variablesRequest, for a reference that scopesRequest gave.  Those are the same three
\* for every frame.
VariablesRequest ==
    /\ \/ \E scope \in {"getVariables", "getArguments"} : Begin(scope, currentFrameId, 1)
       \/ Begin("query", 0, 1)
    /\ UNCHANGED currentFrameId

-----------------------------------------------------------------------------
(* The channel. *)

\* The command that MI2 has written, as soon as it has settled the one before.
Awaited ==
    LET r == request[Head(queue)]
    IN  [call |-> Head(queue), name |-> Head(r.script), target |-> r.target, object |-> r.name]

\* The answers and the stops among lines: the channel serves one command at a time, so
\* that there is at most one answer.
Replies(lines) == {i \in DOMAIN lines : lines[i].type = "reply"}
Stopped(lines) == {i \in DOMAIN lines : lines[i].type = "stopped"}

Settle(ok, got) ==
    /\ queue' = Tail(queue)
    /\ executed' = FALSE
    /\ request' = [request EXCEPT ![Head(queue)] =
                      [@ EXCEPT !.st = "ready", !.ok = ok, !.got = got]]

Outlasts(m) ==
    m.name \in {"resume", "switch", "create", "delete"} \/ (m.name = "select" /\ m.target \in Frames)

\* The answer comes too late, if ever.  Of a command that GDB has yet to execute what
\* remains is what it does to the others.  The variable object that it made, or was to
\* delete, is nobody's from now on, and so is the one that it has yet to make.
Timeout ==
    /\ Quiet /\ queue # <<>>
    /\ Settle(FALSE, NoData)
    /\ stale' = IF ~executed /\ Outlasts(Awaited)
                THEN Append(stale, [Awaited EXCEPT !.call = Nobody]) ELSE stale
    /\ pipe' = IF Replies(pipe) = {} THEN pipe
               ELSE LET i == CHOOSE i \in Replies(pipe) : TRUE
                    IN  SubSeq(pipe, 1, i - 1) \o SubSeq(pipe, i + 1, Len(pipe))
    /\ varobj' = [name \in Names |->
                     IF varobj[name] = Head(queue) THEN Nobody ELSE varobj[name]]
    /\ UNCHANGED <<fields, shown, stops, moving, selected>>

FaultOnStopped(lines) ==
    IF Stopped(lines) = {} \/ lastStopEvent # 0 THEN UNCHANGED fields
    ELSE currentFrameId' = 0 /\ \E i \in Stopped(lines) : lastStopEvent' = lines[i].stop

UpdateCurrentFrame == currentFrameId' = 0

CreateStopEvent(l) == lastStopEvent' = l.stop

\* The 'stopped' listener of the backend, for every stop in the lines.
OnStopped(lines) ==
    IF Stopped(lines) = {} THEN UNCHANGED fields
    ELSE /\ UpdateCurrentFrame
         /\ \E i \in Stopped(lines) :
               (\A j \in Stopped(lines) : j <= i) /\ CreateStopEvent(lines[i])

\* The lines of one 'data' event are handled before any continuation.
HandleData ==
    /\ Quiet
    /\ \E n \in 1..Len(pipe) :
          LET lines == SubSeq(pipe, 1, n) IN
          /\ pipe' = SubSeq(pipe, n + 1, Len(pipe))
          /\ OnStopped(lines)
          /\ IF Replies(lines) = {}
             THEN UNCHANGED <<request, queue, executed>>
             ELSE \E i \in Replies(lines) :
                      Settle(lines[i].ok, [what |-> lines[i].name, frame |-> lines[i].frame,
                                           stop |-> lines[i].stop])
    /\ UNCHANGED <<shown, stale, gdb>>

-----------------------------------------------------------------------------
(* The requests, after their awaits. *)

\* getScopePreview calls getArguments when it has the locals.
Target(r) ==
    IF r.op = "getScopePreview" /\ Head(r.script) = "locals" THEN currentFrameId ELSE r.target

FaultLeft(r) ==
    IF r.ok THEN Tail(r.script)
    ELSE IF Head(r.script) = "create" THEN <<"delete", "whatis">>
    ELSE IF Head(r.script) = "delete" THEN <<"whatis">>
    ELSE <<>>

\* What an operation has left to do.  One that fails is over, but for whatis, which
\* asks the console instead.
Left(r) ==
    IF r.ok THEN Tail(r.script)
    ELSE IF Head(r.script) \in {"create", "delete"} THEN <<"whatis">>
    ELSE <<>>

\* threadsRequest is answered in any case.
Outcome(r) == IF r.ok \/ r.op = "listThreads" THEN "answered" ELSE "failed"

Resume(n) ==
    LET r == request[n]
        data == IF r.ok THEN Append(r.data, r.got) ELSE r.data IN
    /\ r.st = "ready"
    /\ IF Left(r) # <<>>
       THEN /\ request' = [request EXCEPT ![n] =
                   [r EXCEPT !.st = "waiting", !.script = Left(r), !.data = data,
                             !.target = Target(r), !.got = NoData]]
            /\ queue' = Append(queue, n)
       ELSE /\ request' = [request EXCEPT ![n] =
                   [r EXCEPT !.st = Outcome(r), !.script = <<>>, !.data = data, !.got = NoData]]
            /\ UNCHANGED queue
    /\ currentFrameId' = IF r.op = "switchThread" /\ r.ok THEN 0 ELSE currentFrameId
    /\ UNCHANGED <<lastStopEvent, shown, executed, stale, pipe, gdb>>

\* The client has the answer.
Deliver(n) ==
    LET d == request[n].data IN
    /\ request[n].st \in {"answered", "failed"}
    /\ request' = [request EXCEPT ![n] = NoRequest]
    /\ shown' = IF request[n].st = "answered" /\ d # <<>> /\ d[Len(d)].stop > shown
                THEN d[Len(d)].stop ELSE shown
    /\ UNCHANGED <<fields, channel, gdb>>

-----------------------------------------------------------------------------
(* GDB (external). *)

Reply(m, ok, frame) ==
    [type |-> "reply", call |-> m.call, name |-> m.name, ok |-> ok, frame |-> frame,
     stop |-> stops]

\* A command that a stopped program allows, and the frame it is about.
Does(m, frame) ==
    \/ /\ m.name = "select" /\ m.target \in Frames
       /\ frame = m.target /\ selected' = frame
       /\ UNCHANGED <<stops, moving, varobj>>
    \/ /\ m.name = "switch" /\ frame = 0 /\ selected' = 0
       /\ UNCHANGED <<stops, moving, varobj>>
    \/ /\ m.name \in {"locals", "value", "info"} /\ frame = selected
       /\ UNCHANGED gdb
    \/ /\ m.name = "arguments" /\ m.target \in Frames /\ frame = m.target
       /\ UNCHANGED gdb
    \/ /\ m.name \in {"frames", "query", "list", "threads", "whatis", "insert"} /\ frame = 0
       /\ UNCHANGED gdb
    \/ /\ m.name = "create" /\ varobj[m.object] = 0 /\ frame = 0
       /\ varobj' = [varobj EXCEPT ![m.object] = m.call]
       /\ UNCHANGED <<stops, moving, selected>>
    \/ /\ m.name = "resume" /\ frame = 0
       /\ moving' = TRUE
       /\ UNCHANGED <<stops, selected, varobj>>

\* A variable object is deleted whether the program runs or not.
Deletes(m) ==
    /\ m.name = "delete" /\ varobj[m.object] # 0
    /\ varobj' = [varobj EXCEPT ![m.object] = 0]
    /\ UNCHANGED <<stops, moving, selected>>

\* GDB refuses what it cannot do, and anything else it likes.
Refuses(m) == (m.name = "delete" => varobj[m.object] = 0) /\ UNCHANGED gdb

GdbExecutes ==
    /\ queue # <<>> /\ ~executed /\ stale = <<>>
    /\ \/ \E f \in Frames : /\ ~moving /\ Does(Awaited, f)
                            /\ pipe' = Append(pipe, Reply(Awaited, TRUE, f))
       \/ Deletes(Awaited) /\ pipe' = Append(pipe, Reply(Awaited, TRUE, 0))
       \/ Refuses(Awaited) /\ pipe' = Append(pipe, Reply(Awaited, FALSE, 0))
    /\ executed' = TRUE
    /\ UNCHANGED <<fields, request, shown, queue, stale>>

\* The answers to stale commands are dropped.
GdbCatchesUp ==
    /\ stale # <<>>
    /\ \/ \E f \in Frames : ~moving /\ Does(Head(stale), f)
       \/ Deletes(Head(stale)) \/ Refuses(Head(stale))
    /\ stale' = Tail(stale)
    /\ UNCHANGED <<fields, request, shown, queue, executed, pipe>>

ProgramStops ==
    /\ moving /\ stops < MaxStops
    /\ moving' = FALSE /\ stops' = stops + 1 /\ selected' = 0
    /\ pipe' = Append(pipe, [type |-> "stopped", stop |-> stops + 1])
    /\ UNCHANGED <<fields, request, shown, queue, executed, stale, varobj>>

-----------------------------------------------------------------------------
Next ==
    \/ Read \/ ReadFrame \/ ReadCurrentFrame \/ Whatis \/ SelectFrame \/ GetLastStopInfo
    \/ VariablesRequest
    \/ Timeout \/ HandleData
    \/ \E n \in Requests : Resume(n) \/ Deliver(n)
    \/ GdbExecutes \/ GdbCatchesUp \/ ProgramStops

Spec == Init /\ [][Next]_vars

-----------------------------------------------------------------------------
(* Properties *)

Answered(n) == request[n].st = "answered"

OfFrame == {"getVariablesOf", "getArguments", "evaluate", "listSource"}

\* A client that waits for each answer reads of the frame it named, or of the current
\* one: variables, arguments, values and source lines (GDBBackend.ts:436-487, 519-538,
\* 781-807).
SoloReadsAreOfFrame ==
    \A n \in Requests :
        Answered(n) /\ request[n].solo /\ request[n].op \in OfFrame =>
            \A i \in 1..Len(request[n].data) :
                request[n].data[i].what \in {"locals", "arguments", "value", "info"}
                    => request[n].data[i].frame = request[n].target

\* getLastStopInfo never tells of a stop older than anything that any client has already
\* been told or shown, whatever is in flight (GDBBackend.ts:87-96, 605-620).
StopInfoIsFresh ==
    \A n \in Requests :
        Answered(n) /\ request[n].op = "getLastStopInfo" =>
            request[n].data[1].stop >= request[n].seen

\* whatis leaves no variable object behind in GDB, but for one that it gave up waiting for,
\* and takes none of another request away, also when two make the same name
\* (GDBBackend.ts:838-854).
WhatisLeavesNothing ==
    /\ \A name \in Names : varobj[name] \notin {0, Nobody} => Pending(request[varobj[name]])
    /\ queue # <<>> /\ ~executed /\ Awaited.name = "delete"
           => varobj[Awaited.object] = Awaited.call

=============================================================================
