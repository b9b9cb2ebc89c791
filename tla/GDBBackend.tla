----------------------------- MODULE GDBBackend -----------------------------
(***************************************************************************)
(* One GDBBackend object (backend/GDBBackend.ts) and the GDB processes it  *)
(* starts, one for each initialize (external).  HTTP and DAP handlers call *)
(* its operations at any time; each call is a script of GDB commands with  *)
(* an await after every command.  The channel to a process does what       *)
(* SerialChannel says of MI2: one command at a time, in call order.        *)
(***************************************************************************)
EXTENDS Integers, Sequences

CONSTANTS MaxCalls,   \* bound on the calls of operations
          MaxGdb,     \* bound on the calls of initialize
          MaxFrame,   \* bound on the frame numbers, both ways
          MaxBps,     \* bound on the breakpoints a GDB sets
          Ops         \* the operations that are called

Calls  == 1..MaxCalls
Gdbs   == 1..MaxGdb
Frames == -MaxFrame..MaxFrame
Bps    == 1..MaxBps

\* The commands of each operation.  continue stands for the four operations
\* that resume the program, until for jumpToLine too, evaluate for getVariables
\* and listSource with a frame, locals for getVariables without one, init for the
\* two commands of MI2.start, sent one after the other.
Script == [
    initialize       |-> <<"init">>,
    launch           |-> <<"file", "insert">>,
    attach           |-> <<"attach">>,
    start            |-> <<"run">>,
    restart          |-> <<"run">>,
    continue         |-> <<"continue">>,
    until            |-> <<"tinsert", "continue">>,
    pause            |-> <<"interrupt">>,
    selectFrame      |-> <<"select">>,
    switchThread     |-> <<"thread">>,
    locals           |-> <<"read">>,
    evaluate         |-> <<"select", "read">>,
    arguments        |-> <<"select", "readFrame">>,
    setBreakpoint    |-> <<"insert">>,
    removeBreakpoint |-> <<"delete">>,
    removeAll        |-> <<"list", "delete">>]

ASSUME ConstantsAssumption ==
    /\ MaxCalls \in Nat /\ MaxGdb \in Nat /\ MaxFrame \in Nat /\ MaxBps \in Nat
    /\ Ops \subseteq DOMAIN Script

VARIABLES
    \* fields of GDBBackend
    mi2,             \* the process whose channel this.mi2 is, 0 if undefined
    running,
    currentFrameId,
    breakpoints,     \* ids, each with the process it came from
    \* calls of operations and the channels
    made, call,
    queue,           \* of each process: the calls whose command is in its channel
    sent,            \* processes that have been sent the first of them
    killed,          \* processes on which kill() was called
    chunk,           \* the process whose output is being handled, and lines left
    \* GDB
    gdb,             \* "unused", "alive" or "dead"
    exitSeen,        \* processes whose 'exit' event was handled
    stdin, pipe,     \* commands to GDB, and its output
    target,          \* the debuggee: "none", "stopped" or "running"
    selected,        \* the selected frame
    table, inserted  \* its breakpoints, and how many it has had

fields  == <<mi2, running, currentFrameId, breakpoints>>
channel == <<made, call, queue, sent>>
process == <<gdb, exitSeen, stdin, pipe, target, selected, table, inserted>>
vars    == <<fields, channel, killed, chunk, process>>

\* the operations that run the program
Resumers == {"start", "restart", "continue", "until"}

\* early is history: such an operation was called before initialize returned
NoCall == [op |-> "none", st |-> "none", step |-> 0, from |-> 0,
           arg |-> 0, val |-> 0, todo |-> {}, early |-> FALSE]

NewCall(op, st, g) == [NoCall EXCEPT !.op = op, !.st = st, !.step = 1, !.from = g]

Init ==
    /\ mi2 = 0 /\ running = FALSE /\ currentFrameId = 0 /\ breakpoints = {}
    /\ made = 0
    /\ call = [n \in Calls |-> NoCall]
    /\ queue = [g \in Gdbs |-> <<>>]
    /\ sent = {} /\ killed = {} /\ exitSeen = {}
    /\ chunk = [from |-> 0, left |-> 0]
    /\ gdb = [g \in Gdbs |-> "unused"]
    /\ stdin = [g \in Gdbs |-> <<>>]
    /\ pipe = [g \in Gdbs |-> <<>>]
    /\ target = [g \in Gdbs |-> "none"]
    /\ selected = [g \in Gdbs |-> 0]
    /\ table = [g \in Gdbs |-> {}]
    /\ inserted = [g \in Gdbs |-> 0]

-----------------------------------------------------------------------------
(* The channels. *)

Drained ==
    /\ chunk.left = 0
    /\ \A n \in Calls : call[n].st # "ready"
    /\ \A g \in Gdbs : queue[g] # <<>> => g \in sent

Enqueue(n, c) ==
    /\ call' = [call EXCEPT ![n] = [c EXCEPT !.st = "waiting"]]
    /\ queue' = [queue EXCEPT ![c.from] = Append(@, n)]

Begin(op) ==
    /\ Drained
    /\ op \in Ops
    /\ made < MaxCalls
    /\ made' = made + 1
    /\ UNCHANGED <<sent, killed, chunk>>

\* the initialize of process g has not returned yet
Initializing(g) ==
    \E n \in Calls : call[n].op = "initialize" /\ call[n].from = g
                    /\ call[n].st \in {"starting", "waiting", "ready"}

\* the first command of a new call of op, on the channel of mi2; without mi2 an
\* operation throws and changes nothing
Use(op, arg) ==
    /\ mi2 # 0
    /\ Begin(op)
    /\ Enqueue(made + 1, [NewCall(op, "waiting", mi2) EXCEPT
                              !.arg = arg, !.early = op \in Resumers /\ Initializing(mi2)])
    /\ UNCHANGED process

\* the first call in the channel of g leaves it, answered, refused or lost
Leave(g, c) ==
    /\ queue' = [queue EXCEPT ![g] = Tail(@)]
    /\ sent' = sent \ {g}
    /\ call' = [call EXCEPT ![Head(queue[g])] = c]

First(g) == call[Head(queue[g])]

\* a fault: an operation that reads currentFrameId again after its first await
FaultCurrentFrame(g) ==
    [name |-> Script[First(g).op][First(g).step], call |-> Head(queue[g]),
     step |-> First(g).step,
     arg |-> IF First(g).op = "arguments" THEN currentFrameId ELSE First(g).arg]

\* call and step are its token
Command(g) ==
    [name |-> Script[First(g).op][First(g).step], call |-> Head(queue[g]),
     step |-> First(g).step, arg |-> First(g).arg]

\* the channel refuses a command after kill(), else writes it; nobody reads
\* what is written to a dead process
Send(g) ==
    /\ chunk.left = 0
    /\ queue[g] # <<>> /\ g \notin sent
    /\ IF g \in killed
       THEN Leave(g, [First(g) EXCEPT !.st = "failed"]) /\ UNCHANGED stdin
       ELSE /\ sent' = sent \cup {g}
            /\ stdin' = IF gdb[g] = "dead" THEN stdin
                        ELSE [stdin EXCEPT ![g] = Append(@, Command(g))]
            /\ UNCHANGED <<call, queue>>
    /\ UNCHANGED <<fields, made, killed, chunk, gdb, exitSeen, pipe, target,
                   selected, table, inserted>>

Timeout(g) ==
    /\ Drained
    /\ g \in sent
    /\ Leave(g, [First(g) EXCEPT !.st = "lost"])
    /\ UNCHANGED <<fields, made, killed, chunk, process>>

-----------------------------------------------------------------------------
(* The operations, up to their first await. *)

\* a new MI2, whatever became of the old one; no command is sent yet, but other
\* callers may use the new mi2 at once
Initialize ==
    \E g \in Gdbs :
        /\ gdb[g] = "unused"
        /\ \A h \in Gdbs : h < g => gdb[h] # "unused"
        /\ Begin("initialize")
        /\ call' = [call EXCEPT ![made + 1] = NewCall("initialize", "starting", g)]
        /\ mi2' = g
        /\ gdb' = [gdb EXCEPT ![g] = "alive"]
        /\ UNCHANGED <<running, currentFrameId, breakpoints, queue, exitSeen, stdin,
                       pipe, target, selected, table, inserted>>

\* the prompt, which comes before any other output, or five seconds without one: the
\* first init command, behind what other callers have queued
OnReady(n) ==
    /\ Drained
    /\ call[n].st = "starting"
    /\ Enqueue(n, call[n])
    /\ UNCHANGED <<fields, made, sent, killed, chunk, process>>

\* launch, attach, start, restart, pause, until, locals and removeAll change
\* nothing before they await
Plain ==
    /\ \E op \in {"launch", "attach", "start", "restart", "pause", "until", "locals",
                  "switchThread", "setBreakpoint", "removeAll"} : Use(op, 0)
    /\ UNCHANGED fields

Continue ==
    /\ Use("continue", 0)
    /\ running' = TRUE
    /\ UNCHANGED <<mi2, currentFrameId, breakpoints>>

SelectFrame(f) ==
    /\ Use("selectFrame", f)
    /\ currentFrameId' = f
    /\ UNCHANGED <<mi2, running, breakpoints>>

FrameUp == currentFrameId < MaxFrame /\ SelectFrame(currentFrameId + 1)

\* refused at 0 only: a negative number that gotoFrame stored counts down further
FrameDown ==
    /\ currentFrameId # 0
    /\ currentFrameId > -MaxFrame
    /\ SelectFrame(currentFrameId - 1)

\* any number is taken
GotoFrame == \E f \in Frames : SelectFrame(f)

\* getArguments, evaluate and so on: a frame that is given, or the current one
Inspect ==
    /\ \E op \in {"evaluate", "arguments"}, f \in Frames : Use(op, f)
    /\ UNCHANGED fields

\* by id, or by a location that the list of breakpoints translates into one
RemoveBreakpoint ==
    /\ \E b \in Bps : Use("removeBreakpoint", b)
    /\ UNCHANGED fields

\* the -gdb-exit of terminate is refused by the channel (see MI2)
Terminate ==
    /\ Drained
    /\ mi2 # 0
    /\ killed' = killed \cup {mi2}
    /\ mi2' = 0
    /\ running' = FALSE
    /\ breakpoints' = {}
    /\ UNCHANGED <<currentFrameId, channel, chunk, process>>

-----------------------------------------------------------------------------
(* The operations, after their awaits. *)

\* a fault: the breakpoint goes from GDB and stays in the list
FaultForgetNothing(id) == breakpoints

\* a fault: clear() for delete()
FaultForgetAll(id) == {}

Forget(id) == {b \in breakpoints : b.id # id}

\* a fault: the number of the request for the number GDB gave
FaultOwnNumber(c) == [id |-> c.arg, from |-> c.from]

Listed(c) == [id |-> c.val, from |-> c.from]

\* what an operation does when its last command has succeeded
Effect(c) ==
    CASE c.op = "initialize" ->
           running' = FALSE /\ UNCHANGED <<mi2, currentFrameId, breakpoints>>
      [] c.op = "start" ->
           running' = TRUE /\ UNCHANGED <<mi2, currentFrameId, breakpoints>>
      [] c.op = "switchThread" ->
           currentFrameId' = 0 /\ UNCHANGED <<mi2, running, breakpoints>>
      [] c.op = "setBreakpoint" ->
           /\ breakpoints' = Forget(c.val) \cup {Listed(c)}
           /\ UNCHANGED <<mi2, running, currentFrameId>>
      [] c.op = "removeBreakpoint" \/ (c.op = "removeAll" /\ c.step = 2) ->
           breakpoints' = Forget(c.arg) /\ UNCHANGED <<mi2, running, currentFrameId>>
      [] OTHER -> UNCHANGED fields

\* the commands that are left: those of the script, or a -break-delete for each
\* breakpoint of the list
Left(c) ==
    IF c.op = "removeAll" THEN c.todo \ {c.arg} # {} ELSE c.step < Len(Script[c.op])

Advance(c) ==
    IF c.op = "removeAll"
    THEN [c EXCEPT !.step = 2, !.todo = @ \ {c.arg},
                   !.arg = CHOOSE b \in c.todo \ {c.arg} : TRUE]
    ELSE [c EXCEPT !.step = @ + 1]

\* the operation resumes: it sends its next command on this.mi2 of the moment,
\* and throws if that is undefined by now, or it returns
Resume(n) ==
    LET c == call[n]
    IN  /\ chunk.left = 0
        /\ c.st = "ready"
        /\ Effect(c)
        /\ IF Left(c) /\ mi2 # 0
           THEN Enqueue(n, [Advance(c) EXCEPT !.from = mi2])
           ELSE /\ call' = [call EXCEPT ![n].st = IF Left(c) THEN "failed" ELSE "done"]
                /\ UNCHANGED queue
        /\ UNCHANGED <<made, sent, killed, chunk, process>>

-----------------------------------------------------------------------------
(* The listeners on the channels.  They stay when mi2 is replaced or dropped. *)

OnStopped == running' = FALSE /\ currentFrameId' = 0

\* a fault: no listener for *running
FaultIgnoreRunning == UNCHANGED running

OnRunning == running' = TRUE

OnExited == running' = FALSE

\* an answer, dropped if its command has left the channel
OnAnswer(g, r) ==
    IF g \in sent /\ Head(queue[g]) = r.call /\ First(g).step = r.step
    THEN Leave(g, [First(g) EXCEPT !.st = IF r.ok THEN "ready" ELSE "failed",
                                   !.val = r.val, !.todo = @ \cup r.list])
    ELSE UNCHANGED <<call, queue, sent>>

\* the lines of one 'data' event are handled before any continuation
HandleLine(g) ==
    LET r == Head(pipe[g])
    IN  /\ pipe[g] # <<>>
        /\ \E n \in 1..Len(pipe[g]) :
             /\ Drained \/ chunk = [from |-> g, left |-> n]
             /\ chunk' = [from |-> g, left |-> n - 1]
        /\ pipe' = [pipe EXCEPT ![g] = Tail(@)]
        /\ \/ r.type = "stopped" /\ OnStopped /\ UNCHANGED <<call, queue, sent>>
           \/ /\ \/ r.type = "running" /\ OnRunning
                 \/ r.type = "exited" /\ OnExited
              /\ UNCHANGED <<currentFrameId, call, queue, sent>>
           \/ r.type = "answer" /\ OnAnswer(g, r) /\ UNCHANGED <<running, currentFrameId>>
        /\ UNCHANGED <<mi2, breakpoints, made, killed, gdb, exitSeen, stdin, target,
                       selected, table, inserted>>

\* the 'exit' event of a process
ExitEvent(g) ==
    /\ Drained
    /\ gdb[g] = "dead" /\ g \notin exitSeen
    /\ exitSeen' = exitSeen \cup {g}
    /\ OnExited
    /\ IF g \in sent
       THEN Leave(g, [First(g) EXCEPT !.st = "lost"])
       ELSE UNCHANGED <<call, queue, sent>>
    /\ UNCHANGED <<mi2, currentFrameId, breakpoints, made, killed, chunk, gdb, stdin,
                   pipe, target, selected, table, inserted>>

-----------------------------------------------------------------------------
(* GDB (external).  It executes the commands it is sent, refuses any it likes,
   and may die at any moment. *)

NoAnswer == [type |-> "none", call |-> 0, step |-> 0, ok |-> FALSE, val |-> 0, list |-> {}]

Event(type) == [NoAnswer EXCEPT !.type = type]

Answer(m, ok) ==
    [NoAnswer EXCEPT !.type = "answer", !.call = m.call, !.step = m.step, !.ok = ok]

Output(g, lines) == pipe' = [pipe EXCEPT ![g] = @ \o lines]

Idle(g) == UNCHANGED <<target, selected, table, inserted>>

\* a command that is refused, or that changes nothing
Executes(g, m) ==
    \/ Output(g, <<Answer(m, FALSE)>>) /\ Idle(g)
    \/ /\ m.name \in {"init", "file", "interrupt", "tinsert"}
       /\ Output(g, <<Answer(m, TRUE)>>) /\ Idle(g)
    \/ /\ \/ m.name = "run" /\ target[g] # "running"
          \/ m.name = "continue" /\ target[g] = "stopped"
       /\ target' = [target EXCEPT ![g] = "running"]
       /\ Output(g, IF m.name = "run" /\ target[g] = "stopped"
                    THEN <<Event("exited"), Answer(m, TRUE), Event("running")>>
                    ELSE <<Answer(m, TRUE), Event("running")>>)
       /\ UNCHANGED <<selected, table, inserted>>
    \/ /\ m.name = "attach" /\ target[g] = "none"
       /\ target' = [target EXCEPT ![g] = "stopped"]
       /\ selected' = [selected EXCEPT ![g] = 0]
       /\ Output(g, <<Answer(m, TRUE), Event("stopped")>>)
       /\ UNCHANGED <<table, inserted>>
    \/ /\ m.name \in {"select", "thread"} /\ target[g] = "stopped" /\ m.arg >= 0
       /\ selected' = [selected EXCEPT ![g] = m.arg]
       /\ Output(g, <<Answer(m, TRUE)>>)
       /\ UNCHANGED <<target, table, inserted>>
    \/ /\ m.name \in {"read", "readFrame"} /\ target[g] = "stopped" /\ m.arg >= 0
       /\ Output(g, <<[Answer(m, TRUE) EXCEPT
                         !.val = IF m.name = "read" THEN selected[g] ELSE m.arg]>>)
       /\ Idle(g)
    \/ /\ m.name = "insert" /\ inserted[g] < MaxBps
       /\ inserted' = [inserted EXCEPT ![g] = @ + 1]
       /\ table' = [table EXCEPT ![g] = @ \cup {inserted[g] + 1}]
       /\ Output(g, <<[Answer(m, TRUE) EXCEPT !.val = inserted[g] + 1]>>)
       /\ UNCHANGED <<target, selected>>
    \/ /\ m.name = "delete" /\ m.arg \in table[g]
       /\ table' = [table EXCEPT ![g] = @ \ {m.arg}]
       /\ Output(g, <<Answer(m, TRUE)>>)
       /\ UNCHANGED <<target, selected, inserted>>
    \/ /\ m.name = "list"
       /\ \E inFile \in SUBSET table[g] :
             Output(g, <<[Answer(m, TRUE) EXCEPT !.list = inFile]>>)
       /\ Idle(g)

GdbExecutes(g) ==
    /\ gdb[g] = "alive"
    /\ stdin[g] # <<>>
    /\ Executes(g, Head(stdin[g]))
    /\ stdin' = [stdin EXCEPT ![g] = Tail(@)]
    /\ UNCHANGED <<fields, channel, killed, chunk, gdb, exitSeen>>

\* the debuggee stops, or ends
DebuggeeHalts(g) ==
    /\ gdb[g] = "alive"
    /\ target[g] = "running"
    /\ \/ /\ target' = [target EXCEPT ![g] = "stopped"]
          /\ selected' = [selected EXCEPT ![g] = 0]
          /\ Output(g, <<Event("stopped")>>)
       \/ /\ target' = [target EXCEPT ![g] = "none"]
          /\ Output(g, <<Event("exited"), Event("stopped")>>)
          /\ UNCHANGED selected
    /\ UNCHANGED <<fields, channel, killed, chunk, gdb, exitSeen, stdin, table, inserted>>

GdbDies(g) ==
    /\ gdb[g] = "alive"
    /\ gdb' = [gdb EXCEPT ![g] = "dead"]
    /\ stdin' = [stdin EXCEPT ![g] = <<>>]
    /\ target' = [target EXCEPT ![g] = "none"]
    /\ UNCHANGED <<fields, channel, killed, chunk, exitSeen, pipe, selected, table, inserted>>

-----------------------------------------------------------------------------
Operation ==
    \/ Initialize \/ Terminate \/ Plain \/ Continue
    \/ FrameUp \/ FrameDown \/ GotoFrame \/ Inspect \/ RemoveBreakpoint

Next ==
    \/ Operation
    \/ \E n \in Calls : OnReady(n) \/ Resume(n)
    \/ \E g \in Gdbs :
         \/ Send(g) \/ Timeout(g) \/ HandleLine(g) \/ ExitEvent(g)
         \/ GdbExecutes(g) \/ DebuggeeHalts(g) \/ GdbDies(g)

Spec == Init /\ [][Next]_vars

-----------------------------------------------------------------------------
(* Properties. *)

Commands == {"init", "file", "attach", "run", "continue", "interrupt", "select", "thread",
             "read", "readFrame", "insert", "tinsert", "delete", "list"}
CallRecords ==
    [op : DOMAIN Script \cup {"none"},
     st : {"none", "starting", "waiting", "ready", "done", "failed", "lost"},
     step : Nat, from : Gdbs \cup {0}, arg : Int, val : Nat, todo : SUBSET Bps,
     early : BOOLEAN]
Lines ==
    [type : {"answer", "running", "stopped", "exited"}, call : Calls \cup {0}, step : Nat,
     ok : BOOLEAN, val : Nat, list : SUBSET Bps]

TypeOK ==
    /\ mi2 \in Gdbs \cup {0}
    /\ running \in BOOLEAN
    /\ currentFrameId \in Frames
    /\ breakpoints \subseteq [id : Bps, from : Gdbs]
    /\ made \in 0..MaxCalls
    /\ call \in [Calls -> CallRecords]
    /\ queue \in [Gdbs -> Seq(Calls)]
    /\ sent \subseteq Gdbs /\ killed \subseteq Gdbs /\ exitSeen \subseteq Gdbs
    /\ chunk \in [from : Gdbs \cup {0}, left : Nat]
    /\ gdb \in [Gdbs -> {"unused", "alive", "dead"}]
    /\ stdin \in [Gdbs -> Seq([name : Commands, call : Calls, step : Nat, arg : Int])]
    /\ pipe \in [Gdbs -> Seq(Lines)]
    /\ target \in [Gdbs -> {"none", "stopped", "running"}]
    /\ selected \in [Gdbs -> Nat]
    /\ table \in [Gdbs -> SUBSET Bps]
    /\ inserted \in [Gdbs -> 0..MaxBps]

\* Somebody resumed the program of the present GDB before the initialize that
\* started it returned.
ResumedEarly ==
    \E m, n \in Calls :
        /\ call[m].op = "initialize" /\ call[m].from = mi2 /\ call[m].st = "done"
        /\ call[n].early

\* A backend that says the program does not run is right, from the moment it has
\* read that GDB resumed it.  Two things break that in the code and are left out:
\* another GDB on the same backend, whose late exit it takes for one of this GDB's
\* program, and a caller that resumes the program before initialize has returned,
\* which then clears running (GDBBackend.ts:79, 87-106, 109-114, 245-286).
StoppedReportIsTrue ==
    mi2 # 0 /\ ~running /\ ~ResumedEarly /\ (\A g \in Gdbs \ {mi2} : gdb[g] = "unused") =>
        \/ target[mi2] # "running"
        \/ \E i \in 1..Len(pipe[mi2]) : pipe[mi2][i].type = "running"

\* The arguments that getArguments returns are those of the frame it was asked
\* for, whatever other callers select meanwhile (GDBBackend.ts:463-487).
ArgumentsOfFrame ==
    \A n \in Calls : call[n].op = "arguments" /\ call[n].st = "done" =>
        call[n].val = call[n].arg

Removals == {n \in Calls : call[n].op \in {"removeBreakpoint", "removeAll"}}

\* A breakpoint that is listed for the present GDB is one GDB has, unless its
\* removal is at work or was given up waiting for (ADP-001, GDBBackend.ts:388-399).
ListedBreakpointsExist ==
    \A b \in breakpoints : b.from = mi2 =>
        \/ b.id \in table[mi2]
        \/ \E n \in Removals : call[n].arg = b.id /\ call[n].st \in {"waiting", "ready", "lost"}

\* Those that were called before the present GDB was started: the numbers they are given,
\* or have listed, are those of another.
Earlier ==
    {m \in Removals : \E k \in Calls :
        call[k].op = "initialize" /\ call[k].from = mi2 /\ m < k}

\* A breakpoint that setBreakpoint reported and the present GDB still has is
\* listed, unless a removal that was called under another GDB takes its number out
\* of the list: the one it was given, or any that removeAll was told of
\* (GDBBackend.ts:361-386, 751-778).
SetBreakpointsListed ==
    \A n \in Calls :
        call[n].op = "setBreakpoint" /\ call[n].st = "done"
        /\ call[n].from = mi2 /\ call[n].val \in table[mi2] =>
            \/ \E b \in breakpoints : b.id = call[n].val
            \/ \E m \in Earlier : call[m].op = "removeAll" \/ call[m].arg = call[n].val

=============================================================================
