------------------------------- MODULE Adapter -------------------------------
(***************************************************************************)
(* One debug session as VS Code sees it: AIDebugSession (DebugAdapter.ts)  *)
(* on top of the DebugSession of @vscode/debugadapter, which is bundled    *)
(* in out/extension.js.  A request is dispatched by its command to a       *)
(* method, which the adapter overrides or the library answers by itself;   *)
(* a handler that asks the backend goes on when its promise settles, with  *)
(* other requests dispatched meanwhile.  What the backend does with a call *)
(* is in GDBBackend, who owns it in Session.                               *)
(***************************************************************************)
EXTENDS Naturals, Sequences

CONSTANT MaxRequests     \* bound on the requests of the session

ASSUME ConstantsAssumption == MaxRequests \in Nat

-----------------------------------------------------------------------------
(* The library. *)

\* The commands of dispatchRequest; any other goes to customRequest.
Dispatched ==
    {"initialize", "launch", "attach", "disconnect", "terminate", "restart",
     "setBreakpoints", "setFunctionBreakpoints", "setExceptionBreakpoints",
     "configurationDone", "continue", "next", "stepIn", "stepOut", "stepBack",
     "reverseContinue", "restartFrame", "goto", "pause", "stackTrace", "scopes",
     "variables", "setVariable", "setExpression", "source", "threads",
     "terminateThreads", "evaluate", "stepInTargets", "gotoTargets", "completions",
     "exceptionInfo", "loadedSources", "dataBreakpointInfo", "setDataBreakpoints",
     "readMemory", "writeMemory", "disassemble", "cancel", "breakpointLocations",
     "setInstructionBreakpoints"}

\* The method of a command is called <command>Request, but for three of them.
MethodOf(command) ==
    CASE command = "setBreakpoints"          -> "setBreakPoints"
      [] command = "setFunctionBreakpoints"  -> "setFunctionBreakPoints"
      [] command = "setExceptionBreakpoints" -> "setExceptionBreakPoints"
      [] OTHER                               -> command

\* One override carries a name that nothing calls.
FaultOverridden ==
    {"initialize", "launch", "attach", "continue", "nextLine", "stepIn", "stepOut",
     "setBreakpoints", "stackTrace", "scopes", "variables", "evaluate", "restart",
     "terminate", "disconnect", "threads", "configurationDone"}

\* The methods that AIDebugSession defines.
Overridden ==
    {"initialize", "launch", "attach", "continue", "next", "stepIn", "stepOut",
     "setBreakpoints", "stackTrace", "scopes", "variables", "evaluate", "restart",
     "terminate", "disconnect", "threads", "configurationDone"}

Handler(command) ==
    IF command \notin Dispatched THEN "custom"
    ELSE IF MethodOf(command) \in Overridden THEN command
    ELSE "default"

\* A new Response, with the seq of 0 that says it was not sent.
New(command) == [command |-> command, stage |-> "new", place |-> "none", seq |-> 0,
                 tries |-> 0, success |-> TRUE, done |-> FALSE]

\* A message that is sent gets a seq, here one for all.
Sent(r) == [r EXCEPT !.seq = 1]

\* sendResponse refuses a response that has a seq.
SendResponse(r) == [Sent(r) EXCEPT !.tries = @ + 1, !.stage = "over"]

SendErrorResponse(r) ==
    [SendResponse(r) EXCEPT !.success = IF r.seq = 0 THEN FALSE ELSE r.success]

Done(r) == [r EXCEPT !.done = TRUE]

-----------------------------------------------------------------------------
VARIABLES
    requests,       \* what VS Code sent, in order, and how far each handler is
    capabilities,   \* what initialize advertised
    backend,        \* AIDebugSession.backend is defined
    listening,      \* its events are wired
    isRunning,
    handles,        \* variableHandles: the scope of each reference, and the next one
    shown           \* the scopes that VS Code was shown, with their frames and references

vars == <<requests, capabilities, backend, listening, isRunning, handles, shown>>
adapter == <<backend, listening, isRunning, handles, shown>>

ScopeNames == <<"locals", "arguments", "globals">>

\* The frames, or the threads, that a request may name and that GDB may have selected.
Selectable == 0..1

Init ==
    /\ requests = <<>> /\ capabilities = {}
    /\ backend = FALSE /\ listening = FALSE /\ isRunning = FALSE
    /\ handles = [next |-> 1, map |-> <<>>] /\ shown = {}

-----------------------------------------------------------------------------
(* VS Code (external): initialize, then launch or attach, then what the    *)
(* capabilities allow; nothing after disconnect.                           *)

Capability == [
    configurationDone |-> "ConfigurationDoneRequest", restart |-> "RestartRequest",
    terminate |-> "TerminateRequest", gotoTargets |-> "GotoTargetsRequest",
    goto |-> "GotoTargetsRequest", disassemble |-> "DisassembleRequest",
    readMemory |-> "ReadMemoryRequest", writeMemory |-> "WriteMemoryRequest",
    setVariable |-> "SetVariable", setFunctionBreakpoints |-> "FunctionBreakpoints",
    stepBack |-> "StepBack", reverseContinue |-> "StepBack", restartFrame |-> "RestartFrame",
    setExpression |-> "SetExpression", terminateThreads |-> "TerminateThreadsRequest",
    stepInTargets |-> "StepInTargetsRequest", completions |-> "CompletionsRequest",
    exceptionInfo |-> "ExceptionInfoRequest", loadedSources |-> "LoadedSourcesRequest",
    dataBreakpointInfo |-> "DataBreakpoints", setDataBreakpoints |-> "DataBreakpoints",
    cancel |-> "CancelRequest", breakpointLocations |-> "BreakpointLocationsRequest",
    setInstructionBreakpoints |-> "InstructionBreakpoints"]

May(command) ==
    /\ Len(requests) < MaxRequests
    /\ CASE command = "initialize"           -> requests = <<>>
         [] command \in {"launch", "attach"} -> Len(requests) = 1 /\ requests[1].success
         [] OTHER -> /\ Len(requests) > 1
                     /\ \A i \in DOMAIN requests : requests[i].command # "disconnect"
                     /\ command \in DOMAIN Capability => Capability[command] \in capabilities

Receive(r) == requests' = Append(requests, r)

-----------------------------------------------------------------------------
(* The handlers, up to their first await. *)

Advertised ==
    {"ConfigurationDoneRequest", "ConditionalBreakpoints", "HitConditionalBreakpoints",
     "EvaluateForHovers", "GotoTargetsRequest", "RestartRequest", "DisassembleRequest",
     "ReadMemoryRequest", "WriteMemoryRequest", "SetVariable", "TerminateRequest"}

\* The library refuses a client whose paths are not native.
InitializeRequest ==
    /\ May("initialize") /\ Handler("initialize") = "initialize"
    /\ \/ Receive(SendErrorResponse(New("initialize"))) /\ UNCHANGED capabilities
       \/ Receive(Done(SendResponse(New("initialize")))) /\ capabilities' = Advertised
    /\ UNCHANGED adapter

\* The program is missing or the type of backend unknown, or a backend is created.  Only a
\* launch listens to it.
OpenRequest(command) ==
    /\ May(command) /\ Handler(command) = command
    /\ \/ /\ command = "launch"
          /\ Receive(SendErrorResponse(New(command)))
          /\ UNCHANGED <<backend, listening>>
       \/ /\ Receive([New(command) EXCEPT !.stage = "initializing"])
          /\ backend' = TRUE /\ listening' = (command = "launch")
    /\ UNCHANGED <<capabilities, isRunning, handles, shown>>

\* The handler goes on after it has refused: it finds no backend, and says so.
FaultRefused(r) == SendErrorResponse(SendErrorResponse(r))

Refused(r) == SendErrorResponse(r)

Calling == {"continue", "next", "stepIn", "stepOut", "stackTrace", "evaluate"}

\* A step is GDB's next, step or finish: of the thread it has selected, whatever thread the
\* request names.
Stepping == {"next", "stepIn", "stepOut"}

\* Whether a request gets what it names, when the handler drops the name and GDB serves what
\* it has selected.
Place(asked, selected) == IF asked = selected THEN "same" ELSE "elsewhere"

Calls(command, place) == [New(command) EXCEPT !.stage = "calling", !.place = place]

BackendRequest(command) ==
    /\ May(command) /\ Handler(command) = command
    /\ \E asked, selected \in Selectable :
           /\ command \notin Stepping => asked = selected
           /\ Receive(IF backend THEN Calls(command, Place(asked, selected))
                      ELSE Refused(New(command)))
    /\ UNCHANGED <<capabilities, adapter>>

\* Handles.create: the reference of the k-th scope of a request.
Create(k) == handles.next + k - 1

\* The references that are made stand for the name of a scope; the frame that was asked for
\* is dropped, and is right only if it is the one that GDB has selected.
ScopesRequest ==
    /\ May("scopes") /\ Handler("scopes") = "scopes"
    /\ \E asked, selected \in Selectable :
           LET new == [k \in DOMAIN ScopeNames |-> Create(k)]
               Last(ref) == CHOOSE k \in DOMAIN new :
                   new[k] = ref /\ \A j \in DOMAIN new : new[j] = ref => j <= k
               added == {new[k] : k \in DOMAIN new}
               answer == SendResponse([New("scopes") EXCEPT !.place = Place(asked, selected)])
           IN  /\ handles' = [next |-> handles.next + Len(ScopeNames),
                              map |-> [ref \in DOMAIN handles.map \cup added |->
                                  IF ref \in added THEN ScopeNames[Last(ref)]
                                  ELSE handles.map[ref]]]
               /\ shown' = shown \cup {[name |-> ScopeNames[k], frame |-> asked, ref |-> new[k]] :
                                          k \in DOMAIN new}
               /\ Receive(IF asked = selected THEN Done(answer) ELSE answer)
    /\ UNCHANGED <<capabilities, backend, listening, isRunning>>

\* The variables of a scope that was shown.  The call is for the scope that the handle
\* stands for now, of the frame that GDB has selected by now; the globals have no frame.
VariablesRequest ==
    /\ May("variables") /\ Handler("variables") = "variables"
    /\ \E s \in shown, selected \in Selectable :
           Receive(IF ~backend THEN Refused(New("variables"))
                   ELSE Calls("variables",
                              IF handles.map[s.ref] # s.name THEN "other"
                              ELSE IF s.name = "globals" THEN "same"
                              ELSE Place(s.frame, selected)))
    /\ UNCHANGED <<capabilities, adapter>>

ThreadsRequest ==
    /\ May("threads") /\ Handler("threads") = "threads"
    /\ Receive(IF backend THEN [New("threads") EXCEPT !.stage = "threads"]
               ELSE SendResponse(New("threads")))
    /\ UNCHANGED <<capabilities, adapter>>

\* Answered at once; the program is started afterwards.
ConfigurationDoneRequest ==
    /\ May("configurationDone") /\ Handler("configurationDone") = "configurationDone"
    /\ LET answered == SendResponse(New("configurationDone"))
       IN  Receive(IF backend /\ ~isRunning THEN [answered EXCEPT !.stage = "starting"]
                   ELSE answered)
    /\ UNCHANGED <<capabilities, adapter>>

\* The answer of a request that ends the backend.  For restart that is half of it: no
\* backend is started.
Over(r) == IF r.command = "restart" THEN SendResponse(r) ELSE Done(SendResponse(r))

\* restart, terminate and disconnect: the backend is terminated and forgotten.
EndRequest(command) ==
    /\ May(command) /\ Handler(command) = command
    /\ Receive(IF backend THEN [New(command) EXCEPT !.stage = "ending"] ELSE Over(New(command)))
    /\ UNCHANGED <<capabilities, adapter>>

\* The methods of the library that nobody overrides answer success and do nothing.
DefaultRequest(command) ==
    /\ May(command) /\ Handler(command) = "default"
    /\ Receive(SendResponse(New(command)))
    /\ UNCHANGED <<capabilities, adapter>>

CustomRequest(command) ==
    /\ May(command) /\ Handler(command) = "custom"
    /\ Receive(SendErrorResponse(New(command)))
    /\ UNCHANGED <<capabilities, adapter>>

-----------------------------------------------------------------------------
(* The handlers, after an await. *)

Goes(i, r) == requests' = [requests EXCEPT ![i] = r]

\* initialize() resolved.  Without a backend by now, launch() is a TypeError, which is
\* caught.
BackendInitialized(i) ==
    /\ requests[i].stage = "initializing"
    /\ Goes(i, IF backend THEN [requests[i] EXCEPT !.stage = "launching"]
               ELSE SendErrorResponse(requests[i]))
    /\ UNCHANGED <<capabilities, adapter>>

\* launch() or attach() resolved: InitializedEvent goes to VS Code, and the answer.
BackendLaunched(i) ==
    /\ requests[i].stage = "launching"
    /\ Goes(i, Done(SendResponse(requests[i])))
    /\ UNCHANGED <<capabilities, adapter>>

CallResolved(i) ==
    /\ requests[i].stage = "calling"
    /\ Goes(i, SendResponse([requests[i] EXCEPT !.done = (requests[i].place = "same")]))
    /\ isRunning' = (isRunning \/ requests[i].command = "continue")
    /\ UNCHANGED <<capabilities, backend, listening, handles, shown>>

ThreadsResolved(i) ==
    /\ requests[i].stage = "threads"
    /\ Goes(i, Done(SendResponse(requests[i])))
    /\ UNCHANGED <<capabilities, adapter>>

Started(i) ==
    /\ requests[i].stage = "starting"
    /\ Goes(i, Done([requests[i] EXCEPT !.stage = "over"]))
    /\ isRunning' = TRUE
    /\ UNCHANGED <<capabilities, backend, listening, handles, shown>>

Ended(i) ==
    /\ requests[i].stage = "ending"
    /\ backend' = FALSE
    /\ Goes(i, Over(requests[i]))
    /\ UNCHANGED <<capabilities, listening, isRunning, handles, shown>>

\* An error of a call in flight is not told.
FaultCaught(r) ==
    CASE r.stage = "threads"  -> SendResponse(r)
      [] r.stage \in {"starting", "calling"} -> [r EXCEPT !.stage = "over"]
      [] OTHER                -> SendErrorResponse(r)

\* threads answers with one thread all the same, a failed start is only logged.
Caught(r) ==
    CASE r.stage = "threads"  -> SendResponse(r)
      [] r.stage = "starting" -> [r EXCEPT !.stage = "over"]
      [] OTHER                -> SendErrorResponse(r)

Rejected(i) ==
    /\ requests[i].stage # "over"
    /\ Goes(i, Caught(requests[i]))
    /\ UNCHANGED <<capabilities, adapter>>

\* The events of a backend that was launched, also after it was forgotten.
Event ==
    /\ listening
    /\ isRunning' \in BOOLEAN
    /\ UNCHANGED <<requests, capabilities, backend, listening, handles, shown>>

-----------------------------------------------------------------------------
Request ==
    \/ InitializeRequest
    \/ \E command \in {"launch", "attach"} : OpenRequest(command)
    \/ ScopesRequest \/ VariablesRequest \/ ThreadsRequest \/ ConfigurationDoneRequest
    \/ \E command \in Calling : BackendRequest(command)
    \/ \E command \in {"restart", "terminate", "disconnect"} : EndRequest(command)
    \/ \E command \in Dispatched \cup {"custom"} :
           DefaultRequest(command) \/ CustomRequest(command)

Settles(i) ==
    BackendInitialized(i) \/ BackendLaunched(i) \/ CallResolved(i) \/ ThreadsResolved(i)
        \/ Started(i) \/ Ended(i) \/ Rejected(i)

Next == Request \/ Event \/ \E i \in DOMAIN requests : Settles(i)

Spec == Init /\ [][Next]_vars

\* Every promise of the backend settles (CommandsSettle of MI2).
FairSpec == Spec /\ \A i \in 1..MaxRequests : WF_vars(i \in DOMAIN requests /\ Settles(i))

-----------------------------------------------------------------------------
(* Properties. *)

\* No handler answers twice, so that the guard in the library's sendResponse
\* (extension.js:165) never swallows an answer.
NoSecondAnswer == \A i \in DOMAIN requests : requests[i].tries <= 1

\* What VS Code sends and the adapter does not serve: setBreakpoints, whose override has
\* the wrong name, pause, which has none, what initialize advertises without a handler, and
\* restart, whose handler ends the backend and starts none (DebugAdapter.ts:533-546).
Unserved == {"setBreakpoints", "setExceptionBreakpoints", "pause", "source", "gotoTargets",
             "goto", "disassemble", "readMemory", "writeMemory", "setVariable", "restart"}

\* Answered before or in spite of what the backend does.
Lenient == {"threads", "configurationDone"}

\* The requests that name a frame or a thread which the adapter ignores: they get those of
\* the frame or the thread that GDB has selected (DebugAdapter.ts:262-353, 430-479).
Misplaced(r) ==
    r.command \in {"scopes", "variables"} \cup Stepping /\ r.place = "elsewhere"

\* A request that was answered with success has been done, and is the request that was
\* sent: the tables of commands, methods, overrides and capabilities agree, references keep
\* their meaning, and no request is answered ahead of the backend, but for the commands
\* listed, and unless it names another frame or thread than GDB has selected
\* (DebugAdapter.ts:222-607).
SuccessMeansDone ==
    \A i \in DOMAIN requests :
        LET r == requests[i]
        IN  r.seq # 0 /\ r.success /\ r.command \notin Unserved \cup Lenient /\ ~Misplaced(r)
                => r.done

\* Where a handler that has been dispatched may go: after at most two promises it is over.
Onward == {<<"initializing", "launching">>}
              \cup ({"initializing", "launching", "calling", "threads", "starting", "ending"}
                       \X {"over"})

\* A handler only goes on, and what it has answered stands, whatever it awaits still
\* (DebugAdapter.ts:222-607).
HandlersGoOn ==
    [][\A i \in DOMAIN requests :
           /\ i \in DOMAIN requests'
           /\ requests'[i] # requests[i] =>
                  /\ <<requests[i].stage, requests'[i].stage>> \in Onward
                  /\ requests[i].seq # 0 =>
                         /\ requests'[i].seq = requests[i].seq
                         /\ requests'[i].success = requests[i].success]_vars

\* A request that has not been answered is at an await, so that there is a promise whose
\* settling lets its handler go on: no handler ends without an answer, also when its
\* session was ended or its GDB died meanwhile (DebugAdapter.ts: the catch of every handler).
NoneIsLeftOut ==
    \A i \in DOMAIN requests : requests[i].seq = 0 =>
        requests[i].stage \in {"initializing", "launching", "calling", "threads", "ending"}

\* Every request is answered, also those in flight when the session is ended or its GDB
\* dies (DebugAdapter.ts: the catch of every handler).
EveryRequestAnswered ==
    \A i \in 1..MaxRequests : i \in DOMAIN requests ~> i \in DOMAIN requests /\ requests[i].seq # 0

=============================================================================
