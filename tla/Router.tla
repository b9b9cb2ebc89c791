------------------------------- MODULE Router -------------------------------
(***************************************************************************)
(* router.ts, the operations of the HTTP API: how a request is validated   *)
(* (validation.ts), turned into a call of the backend (IDebugBackend.ts)   *)
(* and answered, and how it finds the breakpoint it names in the backend's *)
(* list while another client changes that list.  A parameter is abstracted *)
(* to the kind of its value, a place to a file and a line.                 *)
(***************************************************************************)
EXTENDS Integers, Sequences

CONSTANTS Clients, Wide,    \* who sends requests, and which of them use every operation
          MaxId,            \* bound on the breakpoints that are set
          MaxLine, Files,   \* where they are
          ShortNamed        \* the files that GDB knows by a relative name, main.c, say

ASSUME ConstantsAssumption ==
    /\ Wide \subseteq Clients
    /\ ShortNamed \subseteq Files
    /\ MaxId \in Nat /\ MaxLine \in Nat /\ Files # {}

Kinds == {"absent", "null", "blank", "text", "number", "place", "mode"}

-----------------------------------------------------------------------------
(* The tables of the code. *)

FaultUnconditional == {"start", "continue", "pause", "list_threads"}

\* validateOperationArgs: the operations without a condition, and what the others ask of
\* each parameter.  The accessType of watch is one of three modes.
Unconditional ==
    {"start", "continue", "pause", "next", "step_over", "stepOver", "step_in", "stepIn",
     "step_out", "stepOut", "restart", "quit", "terminate", "stack_trace", "up", "frame_up",
     "down", "frame_down", "get_active_breakpoints", "get_last_stop_info",
     "get_scope_preview", "get_capabilities", "get_globals", "get_arguments",
     "list_all_locals", "list_threads", "list_source", "get_stack_frame_variables",
     "get_variables", "get_args"}

Number == {"number"}
Text == {"text", "mode"}
Place == {"place"}
MaybeNumber == {"absent", "number"}

NeedsOfBreakpoints == [
    attach                         |-> [processId |-> Number],
    write_memory                   |-> [address |-> Number],
    set_breakpoint                 |-> [location |-> Place],
    set_temp_breakpoint            |-> [location |-> Place],
    remove_all_breakpoints_in_file |-> [filePath |-> Text],
    disable_breakpoint             |-> [location |-> Place],
    enable_breakpoint              |-> [location |-> Place],
    ignore_breakpoint              |-> [location |-> Place, ignoreCount |-> {"null", "number"}],
    set_breakpoint_condition       |-> [location |-> Place]]

NeedsOfReads == [
    jump                           |-> [line |-> Number],
    until                          |-> [line |-> Number],
    goto_frame                     |-> [frameId |-> Number],
    get_source                     |-> [expression |-> Text],
    evaluate                       |-> [expression |-> Text],
    pretty_print                   |-> [expression |-> Text],
    whatis                         |-> [expression |-> Text],
    execute_statement              |-> [statement |-> Text],
    switch_thread                  |-> [threadId |-> Number],
    get_registers                  |-> [frameId |-> MaybeNumber],
    read_memory                    |-> [memoryReference |-> Text, count |-> Number,
                                        offset |-> MaybeNumber],
    disassemble                    |-> [memoryReference |-> Text, instructionCount |-> Number,
                                        offset |-> MaybeNumber,
                                        instructionOffset |-> MaybeNumber],
    get_data_breakpoint_info       |-> [name |-> Text],
    set_data_breakpoint            |-> [dataId |-> Text],
    watch                          |-> [name |-> Text, accessType |-> {"absent", "mode"}]]

\* f @@ g, which the provers do not know.
Joined(f, g) == [x \in DOMAIN f \cup DOMAIN g |-> IF x \in DOMAIN f THEN f[x] ELSE g[x]]

Needs == Joined(NeedsOfBreakpoints, NeedsOfReads)

\* executeBackendOperation: the method of the backend, which gets the parameters of the
\* same name, but for these.
Dispatch == [
    attach |-> "attach", terminate |-> "terminate", quit |-> "terminate", start |-> "start",
    continue |-> "continue", next |-> "stepOver", stepOver |-> "stepOver",
    step_over |-> "stepOver", step_in |-> "stepIn", stepIn |-> "stepIn",
    step_out |-> "stepOut", stepOut |-> "stepOut", pause |-> "pause", jump |-> "jumpToLine",
    until |-> "runUntilLine", restart |-> "restart", up |-> "frameUp", frame_up |-> "frameUp",
    down |-> "frameDown", frame_down |-> "frameDown", goto_frame |-> "gotoFrame",
    set_breakpoint |-> "setBreakpoint", set_temp_breakpoint |-> "setTempBreakpoint",
    remove_breakpoint |-> "removeBreakpoint",
    remove_all_breakpoints_in_file |-> "removeAllBreakpointsInFile",
    get_active_breakpoints |-> "getBreakpoints", stack_trace |-> "getStackTrace",
    get_variables |-> "getVariables", get_arguments |-> "getArguments",
    get_globals |-> "getGlobals", evaluate |-> "evaluate", get_registers |-> "getRegisters",
    read_memory |-> "readMemory", write_memory |-> "writeMemory",
    list_source |-> "listSource", get_source |-> "getSource", pretty_print |-> "prettyPrint",
    whatis |-> "whatis", execute_statement |-> "executeStatement",
    list_all_locals |-> "listAllLocals", get_scope_preview |-> "getScopePreview",
    list_threads |-> "listThreads", switch_thread |-> "switchThread",
    get_last_stop_info |-> "getLastStopInfo"]

Renamed == [readMemory |-> [address |-> "memoryReference", length |-> "count"]]

\* IDebugBackend: the parameters that a method cannot do without.  The address that
\* readMemory is given has been read from a text.
Signature == [
    attach |-> [processId |-> Number], jumpToLine |-> [line |-> Number],
    runUntilLine |-> [line |-> Number], gotoFrame |-> [frameId |-> Number],
    setBreakpoint |-> [location |-> Place], setTempBreakpoint |-> [location |-> Place],
    removeAllBreakpointsInFile |-> [filePath |-> Text],
    evaluate |-> [expression |-> Text], getSource |-> [expression |-> Text],
    prettyPrint |-> [expression |-> Text], whatis |-> [expression |-> Text],
    executeStatement |-> [statement |-> Text], switchThread |-> [threadId |-> Number],
    readMemory |-> [address |-> Text, length |-> Number],
    writeMemory |-> [address |-> Number]]

\* handlePing: the operations the proxy says it has.
Advertised ==
    {"launch", "attach", "terminate", "restart", "start", "continue", "next", "step_in",
     "step_out", "pause", "jump", "until", "up", "down", "goto_frame", "set_breakpoint",
     "set_temp_breakpoint", "remove_breakpoint", "remove_all_breakpoints_in_file",
     "get_active_breakpoints", "stack_trace", "get_variables", "get_arguments",
     "get_globals", "evaluate", "get_registers", "read_memory", "write_memory",
     "list_source", "get_source", "pretty_print", "whatis", "execute_statement",
     "list_all_locals", "get_scope_preview", "list_threads", "switch_thread",
     "get_last_stop_info", "get_capabilities"}

\* debug_mcp.py: the operations its tools call, with the parameters they always send.
\* What to launch is left out, as are the parameters that validation does not know.
Bare == <<>>

SessionTools == [
    launch |-> Bare, attach |-> [processId |-> "number"], terminate |-> Bare,
    restart |-> Bare, start |-> Bare]

ExecutionTools == [
    continue |-> Bare, next |-> Bare, step_in |-> Bare, step_out |-> Bare, pause |-> Bare,
    jump |-> [line |-> "number"], until |-> [line |-> "number"]]

BreakpointTools == [
    set_breakpoint |-> [location |-> "place"], set_temp_breakpoint |-> [location |-> "place"],
    remove_breakpoint |-> [location |-> "place"],
    remove_all_breakpoints_in_file |-> [filePath |-> "text"], get_active_breakpoints |-> Bare]

FrameTools == [
    stack_trace |-> Bare, up |-> Bare, down |-> Bare, goto_frame |-> [frameId |-> "number"]]

InspectionTools == [
    get_variables |-> Bare, get_arguments |-> Bare, get_globals |-> Bare,
    list_all_locals |-> Bare, get_scope_preview |-> Bare, evaluate |-> [expression |-> "text"],
    pretty_print |-> [expression |-> "text"], whatis |-> [expression |-> "text"],
    execute_statement |-> [statement |-> "text"], list_source |-> Bare,
    get_source |-> [expression |-> "text"], get_last_stop_info |-> Bare]

MachineTools == [
    get_registers |-> Bare, read_memory |-> [memoryReference |-> "text", count |-> "number"],
    write_memory |-> [address |-> "number", data |-> "text"], list_threads |-> Bare,
    switch_thread |-> [threadId |-> "number"], get_capabilities |-> Bare]

ToolSends ==
    Joined(SessionTools, Joined(ExecutionTools, Joined(BreakpointTools,
        Joined(FrameTools, Joined(InspectionTools, MachineTools)))))

Given(args, f) == IF f \in DOMAIN args THEN args[f] ELSE "absent"

\* Whether a request is what _call_proxy sends for some tool.
AsTool(r) ==
    /\ r.op \in DOMAIN ToolSends
    /\ LET sent == ToolSends[r.op] IN
       \A f \in DOMAIN r.args \cup DOMAIN sent : Given(r.args, f) = Given(sent, f)

-----------------------------------------------------------------------------
VARIABLES
    request,    \* of each client, until it has the answer
    queue,      \* the clients whose command is in the channel, in order
    backend,    \* the current backend: none, live, or terminated
    list,       \* the breakpoints it lists, in the order of their numbers, as GDB set them
    gdb,        \* the breakpoints that GDB has: also those that no list shows
    nextId

vars == <<request, queue, backend, list, gdb, nextId>>

\* getCurrentBackend answers null, and not the backend of the last launch.
NoCurrentBackend == backend = "none"

Ids == 1..MaxId
All == 0        \* the empty id: GDB's delete without a number
NoSuch == -1    \* an id that is no number of a breakpoint

\* The paths that clients send: the full name of a file, the end of one, which here they
\* all share, and what is in a name but no end of it, a directory, say.
Suffix == "suffix"
Part == "part"
Paths == Files \cup {Suffix, Part}

\* Listed are those that set_breakpoint has set.  A stop at the entry is one at main that
\* stays, and GDB deletes a temporary one when the program reaches it.
Breakpoint == [id : Ids, file : Files, line : 1..MaxLine + 1,
               kind : {"listed", "entry", "temporary"}]

NoRequest == [op |-> "none", args |-> <<>>, path |-> Suffix, line |-> 1, id |-> NoSuch,
              target |-> NoSuch, st |-> "none", status |-> 0, why |-> "none", tool |-> FALSE]

Init ==
    /\ request = [c \in Clients |-> NoRequest]
    /\ queue = <<>> /\ backend = "none"
    /\ list = {} /\ gdb = {} /\ nextId = 1

-----------------------------------------------------------------------------
(* What clients send: any operation, with parameters of any kind. *)

Fields(op) ==
    CASE op = "remove_breakpoint" -> {"id", "location"}
      [] op = "write_memory" -> {"address", "data"}
      [] op \in DOMAIN Needs -> DOMAIN Needs[op]
      [] OTHER -> {}

Asks(op, args) == [NoRequest EXCEPT !.op = op, !.args = args]
At(r, path, line) == [r EXCEPT !.path = path, !.line = line]
ById(r, id) == [r EXCEPT !.id = id]

Plain(op) == {Asks(op, args) : args \in [Fields(op) -> Kinds]}

Naming(op, f) == {r \in Plain(op) : Given(r.args, f) \in {"place", "text"}}

Inputs(op) ==
    Plain(op)
    \cup {At(r, p, l) : r \in Naming(op, "location"), p \in Paths, l \in 1..MaxLine}
    \cup {At(r, p, 1) : r \in Naming(op, "filePath"), p \in Paths}
    \cup {ById(r, i) : r \in Naming(op, "id"), i \in Ids}

\* Only these meet the requests of others: the rest is sent while there is no breakpoint
\* and nobody else asks for anything (bound).
OnBreakpoints ==
    {"set_breakpoint", "remove_breakpoint", "remove_all_breakpoints_in_file",
     "get_active_breakpoints", "terminate"}

Alone(c) == gdb = {} /\ list = {} /\ \A d \in Clients \ {c} : request[d] = NoRequest

\* That a backend is replaced while it lives is left to GDBBackend and Session (bound).
Creates == {"launch", "create_debugger"}

Operations ==
    Advertised \cup Unconditional \cup DOMAIN Needs \cup {"ping", "status"} \cup Creates

AnyInput == UNION {Inputs(op) : op \in Operations}

UsualInput ==
    {r \in UNION {Inputs(op) : op \in OnBreakpoints} :
        /\ Given(r.args, "location") \in {"absent", "place"}
        /\ Given(r.args, "id") \in {"absent", "blank", "text"}
        /\ Given(r.args, "filePath") \in {"absent", "text"}
        /\ "absent" \in {Given(r.args, "location"), Given(r.args, "id")}}

Sends(c, ops) ==
    {r \in IF request[c] # NoRequest THEN {}
           ELSE IF c \in Wide /\ Alone(c) THEN AnyInput ELSE UsualInput :
        r.op \in ops /\ (r.op \in Creates => backend # "live")}

-----------------------------------------------------------------------------
(* The request is handled up to its first await. *)

Answer(r, status, why) ==
    [NoRequest EXCEPT !.st = "answered", !.status = status, !.why = why, !.tool = AsTool(r)]

Answers(c, r, status, why) ==
    /\ request' = [request EXCEPT ![c] = Answer(r, status, why)]
    /\ UNCHANGED <<queue, backend, list, gdb, nextId>>

FaultValid(op, args) ==
    \/ op \in Unconditional \cup DOMAIN Needs
    \/ op = "remove_breakpoint" /\ Given(args, "id") # "absent"

ValidateOperationArgs(op, args) ==
    \/ op \in Unconditional
    \/ /\ op = "remove_breakpoint"
       /\ Given(args, "id") # "absent" \/ Given(args, "location") = "place"
    \/ op \in DOMAIN Needs /\ \A f \in DOMAIN Needs[op] : Given(args, f) \in Needs[op][f]

Valid(r) == r.op \notin Creates /\ ValidateOperationArgs(r.op, r.args)

\* A route that is none, a body that is no object or has no operation; and parameters
\* that do not pass.
Reject(c) ==
    \/ \E why \in {"unknown_route", "no_body", "no_operation"} :
          /\ request[c] = NoRequest /\ c \in Wide /\ Alone(c)
          /\ Answers(c, NoRequest, 500, why)
    \/ \E r \in Sends(c, Operations \ (Creates \cup {"ping", "status"})) :
          ~Valid(r) /\ Answers(c, r, 400, "invalid")

\* handlePing, the status of no backend, and get_capabilities ask no backend.
WithoutBackend(c) ==
    \E r \in Sends(c, {"ping", "status", "get_capabilities"}) :
        /\ r.op = "status" => NoCurrentBackend
        /\ Answers(c, r, 200, "none")

NoBackend(c) ==
    \E r \in Sends(c, Operations \ (Creates \cup {"ping", "status", "get_capabilities"})) :
        NoCurrentBackend /\ Valid(r) /\ Answers(c, r, 500, "no_backend")

\* Validation lets more operations pass than there are cases of the dispatch.
Unknown(c) ==
    \E r \in Sends(c, Operations \ (DOMAIN Dispatch \cup Creates
                                     \cup {"ping", "status", "get_capabilities"})) :
        ~NoCurrentBackend /\ Valid(r) /\ Answers(c, r, 500, "unknown_operation")

Launch(c) ==
    \E r \in Sends(c, Creates) :
        /\ request' = [request EXCEPT ![c] = [r EXCEPT !.st = "launching"]]
        /\ UNCHANGED <<queue, backend, list, gdb, nextId>>

\* The first listed breakpoint of that file that is at most a line away: a Map keeps the
\* order in which they were set.
Near(b, r) == b.file = r.path \/ r.path = Suffix

FaultWithin(b, r) == TRUE

Within(b, r) == b.line - r.line \in -1..1

Match(r) ==
    LET found == {b \in list : Near(b, r) /\ Within(b, r)}
    IN  {b.id : b \in {d \in found : \A e \in found : d.id <= e.id}}

\* The id that is deleted: that which is given, else that of the breakpoint found.
Target(r) ==
    LET id == Given(r.args, "id")
        location == Given(r.args, "location")
        Nothing == {"absent", "null", "blank"} IN
    IF id \notin Nothing THEN {r.id}
    ELSE IF location = "place" THEN Match(r)
    ELSE IF location \notin Nothing THEN {}
    ELSE {IF id = "blank" THEN All ELSE NoSuch}

Enqueues(c, r) ==
    /\ request' = [request EXCEPT ![c] = [r EXCEPT !.st = "waiting"]]
    /\ queue' = Append(queue, c)
    /\ UNCHANGED <<backend, list, gdb, nextId>>

\* Parameters of which the dispatch itself can make nothing.
Throws(r) ==
    r.op = "write_memory" /\ Given(r.args, "data") \in {"number", "place"}

\* There is no breakpoint at that place.
Misses(r) == r.op = "remove_breakpoint" /\ Target(r) = {}

\* executeBackendOperation.  A terminated backend has nobody to send commands to.
Execute(c) ==
    \E r \in Sends(c, DOMAIN Dispatch) :
        /\ ~NoCurrentBackend /\ Valid(r)
        /\ \/ Throws(r) /\ Answers(c, r, 500, "bad_parameter")
           \/ Dispatch[r.op] = "getBreakpoints" /\ Answers(c, r, 200, "none")
           \/ /\ Dispatch[r.op] = "terminate"
              /\ request' = [request EXCEPT ![c] = Answer(r, 200, "none")]
              /\ backend' = "terminated" /\ list' = {} /\ gdb' = {}
              /\ UNCHANGED <<queue, nextId>>
           \/ Misses(r) /\ Answers(c, r, 500, "no_breakpoint")
           \/ /\ Dispatch[r.op] \notin {"getBreakpoints", "terminate"}
              /\ ~Throws(r) /\ ~Misses(r)
              /\ \/ backend = "terminated" /\ Answers(c, r, 500, "no_GDB")
                 \/ /\ backend = "live"
                    /\ \E id \in IF r.op = "remove_breakpoint" THEN Target(r) ELSE {NoSuch} :
                          Enqueues(c, [r EXCEPT !.target = id])

\* The stop that the backend keeps is answered at once, else the stack is asked for.
Status(c) ==
    \E r \in Sends(c, {"status"}) :
        /\ ~NoCurrentBackend
        /\ \/ Answers(c, r, 200, "none")
           \/ backend = "live" /\ Enqueues(c, r)
           \/ backend = "terminated" /\ Answers(c, r, 500, "no_GDB")

-----------------------------------------------------------------------------
(* After the await. *)

Numbers(bs) == {b.id : b \in bs}
Forget(ids) == {b \in list : b.id \notin ids}

\* GDB has a new one, at the line that is asked for or on the next that has code.
Inserts(path, lines, kind) ==
    \E b \in Breakpoint :
        /\ b.id = nextId /\ path \in {b.file, Suffix} /\ b.line \in lines /\ b.kind = kind
        /\ gdb' = gdb \cup {b} /\ nextId' = nextId + 1
        /\ list' = IF kind = "listed" THEN list \cup {b} ELSE list

\* With a stop at the entry or without.
LaunchEnds(c) ==
    /\ request[c].st = "launching"
    /\ \/ /\ request' = [request EXCEPT ![c] = Answer(@, 200, "none")]
          /\ queue = <<>> /\ backend' = "live"
          /\ Inserts(Suffix, {1}, "entry") \/ UNCHANGED <<list, gdb, nextId>>
       \/ /\ request' = [request EXCEPT ![c] = Answer(@, 500, "backend_failed")]
          /\ UNCHANGED <<backend, list, gdb, nextId>>
    /\ UNCHANGED queue

\* GDB refuses the command, does not answer it, or is gone.
BackendFails(c) ==
    /\ queue # <<>> /\ c = Head(queue)
    /\ queue' = Tail(queue)
    /\ request' = [request EXCEPT ![c] = Answer(@, 500, "backend_failed")]
    /\ UNCHANGED <<backend, list, gdb, nextId>>

\* The operations that set a temporary breakpoint, the last two to stop there.
Temporary == {"set_temp_breakpoint", "until", "jump"}

\* removeAllBreakpointsInFile takes from GDB's table what has the path in its full name,
\* and what has a relative name in which the path ends.
InFile(b, path) ==
    \/ path \in {b.file, Suffix, Part}
    \/ b.file \in ShortNamed /\ path \in Files

\* GDB does it, and the backend changes its list.  A file's breakpoints are deleted one
\* by one (GDBBackend): here, some or all of them.
BackendDoes(c) ==
    LET r == request[c] IN
    /\ queue # <<>> /\ c = Head(queue) /\ backend = "live"
    /\ queue' = Tail(queue)
    /\ request' = [request EXCEPT ![c] = Answer(@, 200, "none")]
    /\ UNCHANGED backend
    /\ CASE r.op = "set_breakpoint" -> Inserts(r.path, {r.line, r.line + 1}, "listed")
         [] r.op \in Temporary -> Inserts(r.path, {r.line, r.line + 1}, "temporary")
         [] r.op = "remove_breakpoint" ->
                /\ r.target \in Numbers(gdb) \cup {All}
                /\ gdb' = {b \in gdb : r.target \notin {b.id, All}}
                /\ list' = Forget({r.target})
                /\ UNCHANGED nextId
         [] r.op = "remove_all_breakpoints_in_file" ->
                /\ \E gone \in SUBSET {b \in gdb : InFile(b, r.path)} :
                      /\ gdb' = gdb \ gone
                      /\ list' = Forget(Numbers(gone))
                /\ UNCHANGED nextId
         [] OTHER -> UNCHANGED <<list, gdb, nextId>>

\* The program reaches a temporary breakpoint, which GDB then deletes (external).
TempHit ==
    /\ backend = "live"
    /\ \E b \in gdb : b.kind = "temporary" /\ gdb' = gdb \ {b}
    /\ UNCHANGED <<request, queue, backend, list, nextId>>

\* The client has read the answer.
Delivered(c) ==
    /\ request[c].st = "answered"
    /\ request' = [request EXCEPT ![c] = NoRequest]
    /\ UNCHANGED <<queue, backend, list, gdb, nextId>>

Next ==
    \/ TempHit
    \/ \E c \in Clients :
        \/ Reject(c) \/ WithoutBackend(c) \/ NoBackend(c) \/ Unknown(c) \/ Launch(c)
        \/ Execute(c) \/ Status(c)
        \/ LaunchEnds(c) \/ BackendFails(c) \/ BackendDoes(c) \/ Delivered(c)

Spec == Init /\ [][Next]_vars

-----------------------------------------------------------------------------
(* Properties *)

\* A client that sends what a tool of the MCP server sends is never told that the
\* operation is unknown or its parameters are wrong: the tables of the tools
\* (debug_mcp.py), of validation.ts:121-370 and of router.ts:303-453, which are kept by
\* hand, agree.
ToolsAreServed ==
    \A c \in Clients :
        request[c].st = "answered" /\ request[c].tool =>
            request[c].why \notin {"invalid", "unknown_operation", "bad_parameter"}

Method(r) == Dispatch[r.op]

\* What validation lets through is what the backend needs: a method that is called gets
\* every parameter it cannot do without, though the router passes on the parameters it
\* was sent and not those that were validated (router.ts:224-230, 289).
RequiredArgumentsArrive ==
    \A c \in Clients :
        LET r == request[c] IN
        r.st = "waiting" /\ r.op \in DOMAIN Dispatch
        /\ Method(r) \in DOMAIN Signature =>
            \A p \in DOMAIN Signature[Method(r)] :
                LET f == IF Method(r) \in DOMAIN Renamed /\ p \in DOMAIN Renamed[Method(r)]
                         THEN Renamed[Method(r)][p] ELSE p
                IN  Given(r.args, f) \in Signature[Method(r)][p]

\* The removal names this breakpoint: by its number, by a place in its file at most a
\* line away, or by its file, whose name the path is or ends.
Names(r, b) ==
    \/ r.op = "remove_breakpoint" /\ r.target = b.id
       /\ (r.id = b.id \/ (Near(b, r) /\ b.line - r.line \in -1..1))
    \/ r.op = "remove_all_breakpoints_in_file" /\ Near(b, r)

\* Where the code takes what was not named: an id that is blank names none and deletes
\* all (router.ts:367, GDBBackend.ts:395-397), and a path also takes the files that it
\* is part of and those whose relative name it ends in (GDBBackend.ts:765-768).
Overreaches(r, b) ==
    \/ r.op = "remove_breakpoint" /\ r.target = All /\ Given(r.args, "id") = "blank"
    \/ /\ r.op = "remove_all_breakpoints_in_file"
       /\ r.path = Part \/ (b.file \in ShortNamed /\ r.path \in Files)

\* GDB loses a breakpoint, listed or not, only to a request that named it, whoever else
\* has set and removed breakpoints since it was looked up; to the end of the session;
\* if it is temporary, to the program; or to a removal of the two kinds that take more
\* than they name (router.ts:365-382, GDBBackend.ts:392-399, 751-776).
RemovesOnlyNamed ==
    [][\A b \in gdb \ gdb' :
          \/ backend' = "terminated"
          \/ b.kind = "temporary" /\ UNCHANGED request
          \/ \E c \in Clients :
                /\ request[c].st = "waiting"
                /\ Names(request[c], b) \/ Overreaches(request[c], b)]_vars

-----------------------------------------------------------------------------
(* What the repository says and the code does not do. *)

\* "Remove the breakpoint at file:line." (mcp-debug-server/debug_mcp.py:133): as long as
\* there is one at that line, a removal takes no other (router.ts:371-374).
RemovesTheBreakpointAt ==
    \A c \in Clients :
        LET r == request[c] IN
        r.st = "waiting" /\ r.op = "remove_breakpoint" /\ AsTool(r) /\ r.path # Suffix =>
            \A b \in list :
                b.id = r.target /\ b.line # r.line =>
                    ~\E d \in list : d.file = r.path /\ d.line = r.line
=============================================================================
