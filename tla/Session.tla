------------------------------ MODULE Session ------------------------------
(***************************************************************************)
(* Who owns the debugger.  VS Code opens debug sessions (DebugAdapter.ts), *)
(* an agent sends requests over HTTP (router.ts), and both reach GDB       *)
(* through the one BackendManager (BackendManager.ts), which has a cache   *)
(* of backends by type and a current backend.  Neither front knows of the  *)
(* other: they meet in the manager, in the backend's mi2, and in the       *)
(* events that a backend emits to the sessions that listen to it.          *)
(*                                                                         *)
(* A backend is what GDBBackend shows of it here: the GDB behind mi2.  A   *)
(* promise of its channel may settle at any time, as it does in MI2; what  *)
(* a command makes the program do it does when it is sent, and it is the   *)
(* report that may be late.                                                *)
(***************************************************************************)
EXTENDS Naturals, Sequences

CONSTANTS
    Sessions,       \* the DAP sessions VS Code may open
    Keys,           \* the spellings of the backend type, such as "gdb" and "GDB"
    MaxBackends,    \* how many backend objects may be created
    MaxGdbs,        \* how many GDB processes may be started
    MaxOut,         \* how many lines a GDB may have unread
    Commands        \* what a program may be made to do: of "run", "attach", "continue"

ASSUME ConstantsAssumption ==
    /\ MaxBackends \in Nat \ {0} /\ MaxGdbs \in Nat \ {0} /\ MaxOut \in Nat
    /\ 0 \notin Sessions

Backends == 1..MaxBackends
Gdbs == 1..MaxGdbs
Events == {"running", "stopped", "exited"}
Requests == {"terminate", "disconnect"}
Phases == {"none", "initializing", "launching", "ready", "configured", "restarted",
           "failed", "closed"}

VARIABLES
    cached,     \* BackendManager.backendInstances, 0 where there is none
    current,    \* BackendManager.currentBackend, 0 for undefined
    mi2,        \* GDBBackend.mi2 of each backend, 0 for undefined
    listeners,  \* the sessions whose handlers each backend calls
    owner,      \* the backend that each GDB's MI2 reports to, 0 before it is started
    session,    \* each AIDebugSession
    view,       \* what VS Code was told by each session
    gdb,        \* the GDB processes
    killed,     \* those that kill() sent a SIGTERM
    target,     \* the program of each GDB
    out,        \* the lines of each GDB not read yet
    exitSeen    \* the GDBs whose 'exit' event was handled

manager == <<cached, current>>
backend == <<mi2, listeners, owner>>
front == <<session, view>>
process == <<gdb, killed, target, out, exitSeen>>
vars == <<manager, backend, front, process>>

Init ==
    /\ cached = [k \in Keys |-> 0] /\ current = 0
    /\ mi2 = [b \in Backends |-> 0]
    /\ listeners = [b \in Backends |-> {}]
    /\ owner = [g \in Gdbs |-> 0]
    /\ session = [s \in Sessions |->
           [phase |-> "none", kind |-> "launch", backend |-> 0, awaits |-> 0,
            isRunning |-> FALSE, releasing |-> "no", clears |-> FALSE]]
    /\ view = [s \in Sessions |-> [last |-> "none", ended |-> FALSE]]
    /\ gdb = [g \in Gdbs |-> "unused"]
    /\ killed = {} /\ exitSeen = {}
    /\ target = [g \in Gdbs |-> "none"]
    /\ out = [g \in Gdbs |-> <<>>]

\* releaseBackend() awaits once.  VS Code may hand over several messages in one turn,
\* so handlers of other sessions may run meanwhile; timers, events and HTTP requests
\* come in later turns.
Quiet == \A s \in Sessions : session[s].releasing = "no"

-----------------------------------------------------------------------------
(* GDB and its program (external). *)

Does(g, lines, becomes) ==
    /\ Len(out[g]) + Len(lines) <= MaxOut
    /\ out' = [out EXCEPT ![g] = @ \o lines]
    /\ target' = [target EXCEPT ![g] = becomes]

\* GDB refuses a command or does it.  A program that is run again while it lives is
\* ended first.
Send(g, command) ==
    \/ UNCHANGED <<target, out>>
    \/ /\ g # 0 /\ gdb[g] = "alive" /\ command \in Commands
       /\ \/ /\ command = "run" /\ target[g] \in {"none", "exited"}
             /\ Does(g, <<"running">>, "running")
          \/ /\ command = "run" /\ target[g] = "stopped"
             /\ Does(g, <<"exited", "running">>, "running")
          \/ /\ command = "attach" /\ target[g] = "none"
             /\ Does(g, <<"stopped">>, "stopped")
          \/ /\ command = "continue" /\ target[g] = "stopped"
             /\ Does(g, <<"running">>, "running")

\* The program stops, or ends: the end of the thread group is reported, then a stop.
ProgramStops(g) ==
    /\ gdb[g] = "alive" /\ target[g] = "running"
    /\ Does(g, <<"stopped">>, "stopped") \/ Does(g, <<"exited", "stopped">>, "exited")
    /\ UNCHANGED <<manager, backend, front, gdb, killed, exitSeen>>

Dies(g) ==
    /\ gdb[g] = "alive"
    /\ gdb' = [gdb EXCEPT ![g] = "dead"]
    /\ UNCHANGED <<manager, backend, front, killed, target, out, exitSeen>>

-----------------------------------------------------------------------------
(* The manager and the backend. *)

\* createBackend and, in the same turn, initialize up to its await: the backend of
\* this type, or a new one, gets a new GDB.  The spawn may fail.
CreateBackend(key, b, g) ==
    /\ IF cached[key] = 0 THEN \A h \in Gdbs : owner[h] # b ELSE cached[key] = b
    /\ gdb[g] = "unused" /\ \A h \in 1..g - 1 : gdb[h] # "unused"
    /\ cached' = [cached EXCEPT ![key] = b]
    /\ current' = b
    /\ mi2' = [mi2 EXCEPT ![b] = g]
    /\ owner' = [owner EXCEPT ![g] = b]
    /\ \E birth \in {"alive", "failed"} : gdb' = [gdb EXCEPT ![g] = birth]

\* GDBBackend.terminate, which never awaits.
Terminate(b) ==
    /\ killed' = killed \cup ({mi2[b]} \ {0})
    /\ mi2' = [mi2 EXCEPT ![b] = 0]

FaultReleaseOwn(s) ==
    IF current = 0
    THEN UNCHANGED <<cached, mi2, killed>>
    ELSE /\ cached' = [k \in Keys |-> IF cached[k] = current THEN 0 ELSE cached[k]]
         /\ Terminate(session[s].backend)

\* releaseBackend() up to its await.  It releases the manager's current backend,
\* whichever session asks.
ReleaseBackend(s) ==
    IF current = 0
    THEN UNCHANGED <<cached, mi2, killed>>
    ELSE /\ cached' = [k \in Keys |-> IF cached[k] = current THEN 0 ELSE cached[k]]
         /\ Terminate(current)

-----------------------------------------------------------------------------
(* The debug adapter. *)

\* The GDB that the session's backend has now.
Channel(s) == IF session[s].backend = 0 THEN 0 ELSE mi2[session[s].backend]

SetupBackendEvents(s, b) == [listeners EXCEPT ![b] = @ \cup {s}]

\* launchRequest and attachRequest up to their first await.  Only a launch sets up
\* the events.
Open(s, kind, key) ==
    /\ session[s].phase = "none"
    /\ \E b \in Backends, g \in Gdbs :
           /\ CreateBackend(key, b, g)
           /\ listeners' = IF kind = "launch" THEN SetupBackendEvents(s, b) ELSE listeners
           /\ session' = [session EXCEPT ![s] =
                  [@ EXCEPT !.phase = "initializing", !.kind = kind,
                            !.backend = b, !.awaits = g]]
    /\ UNCHANGED <<view, killed, target, out, exitSeen>>

\* The program does not exist, or there is no backend of this type.
LaunchRefused(s) ==
    /\ session[s].phase = "none"
    /\ session' = [session EXCEPT ![s].phase = "failed"]
    /\ UNCHANGED <<manager, backend, view, process>>

\* initialize() resolved: launch() or attach() goes to the channel that the backend
\* has by now, and throws if there is none.
Initialized(s) ==
    /\ Quiet
    /\ session[s].phase = "initializing" /\ gdb[session[s].awaits] # "failed"
    /\ IF Channel(s) = 0
       THEN /\ session' = [session EXCEPT ![s].phase = "failed", ![s].awaits = 0]
            /\ UNCHANGED <<target, out>>
       ELSE /\ session' = [session EXCEPT ![s].phase = "launching", ![s].awaits = Channel(s)]
            /\ IF session[s].kind = "attach"
               THEN Send(Channel(s), "attach")
               ELSE UNCHANGED <<target, out>>
    /\ UNCHANGED <<manager, backend, view, gdb, killed, exitSeen>>

\* launch() or attach() resolved: VS Code is sent InitializedEvent.
Launched(s) ==
    /\ Quiet
    /\ session[s].phase = "launching" /\ gdb[session[s].awaits] # "failed"
    /\ session' = [session EXCEPT ![s].phase = "ready", ![s].awaits = 0]
    /\ UNCHANGED <<manager, backend, view, process>>

\* One of the promises was rejected: VS Code is sent the error.
LaunchFails(s) ==
    /\ Quiet
    /\ session[s].phase \in {"initializing", "launching"}
    /\ session' = [session EXCEPT ![s].phase = "failed", ![s].awaits = 0]
    /\ UNCHANGED <<manager, backend, view, process>>

\* configurationDoneRequest, of launched and attached sessions alike.  isRunning is
\* not read again.
ConfigurationDone(s) ==
    /\ session[s].phase = "ready" /\ session[s].releasing = "no"
    /\ IF session[s].isRunning THEN UNCHANGED <<target, out>> ELSE Send(Channel(s), "run")
    /\ session' = [session EXCEPT ![s].phase = "configured", ![s].isRunning = FALSE]
    /\ UNCHANGED <<manager, backend, view, gdb, killed, exitSeen>>

\* continueRequest and the steps.
Execute(s) ==
    /\ session[s].phase = "configured" /\ Channel(s) # 0
    /\ Send(Channel(s), "continue")
    /\ UNCHANGED <<manager, backend, front, gdb, killed, exitSeen>>

\* restartRequest ends the GDB of the backend and forgets the backend, which stays
\* cached and current.
RestartRequest(s) ==
    /\ session[s].phase = "configured" /\ session[s].backend # 0
    /\ session[s].releasing = "no"
    /\ Terminate(session[s].backend)
    /\ session' = [session EXCEPT ![s].phase = "restarted", ![s].backend = 0]
    /\ UNCHANGED <<manager, listeners, owner, view, gdb, target, out, exitSeen>>

\* terminateRequest and disconnectRequest up to the await of releaseBackend().
BeginRelease(s, request) ==
    /\ session[s].phase \notin {"none", "closed"} /\ session[s].releasing = "no"
    /\ session[s].backend # 0
    /\ ReleaseBackend(s)
    /\ session' = [session EXCEPT ![s].releasing = request, ![s].clears = (current # 0)]
    /\ UNCHANGED <<current, listeners, owner, view, gdb, target, out, exitSeen>>

Finish(s, request) ==
    /\ session' = [session EXCEPT ![s] =
           [session[s] EXCEPT
               !.backend = 0, !.releasing = "no", !.clears = FALSE,
               !.phase = IF request = "disconnect" THEN "closed" ELSE session[s].phase,
               !.awaits = IF request = "disconnect" THEN 0 ELSE session[s].awaits]]
    /\ view' = IF request = "terminate" THEN [view EXCEPT ![s].ended = TRUE] ELSE view

FaultKeepCurrent(s) == current

\* releaseBackend() unsets the current backend, whichever it is after the await.
Released(s) == IF session[s].clears THEN 0 ELSE current

EndRelease(s) ==
    /\ session[s].releasing # "no"
    /\ current' = Released(s)
    /\ Finish(s, session[s].releasing)
    /\ UNCHANGED <<cached, backend, process>>

\* The same two requests of a session that has no backend.
EndWithoutBackend(s, request) ==
    /\ session[s].phase \notin {"none", "closed"} /\ session[s].releasing = "no"
    /\ session[s].backend = 0
    /\ Finish(s, request)
    /\ UNCHANGED <<manager, backend, process>>

-----------------------------------------------------------------------------
(* The router.  A launch is handed to VS Code, which opens a session. *)

HandleCreateDebugger(key) ==
    /\ Quiet
    /\ \E b \in Backends, g \in Gdbs : CreateBackend(key, b, g)
    /\ UNCHANGED <<listeners, front, killed, target, out, exitSeen>>

HttpTerminate ==
    /\ Quiet /\ current # 0
    /\ Terminate(current)
    /\ UNCHANGED <<manager, listeners, owner, front, gdb, target, out, exitSeen>>

\* start and restart; attach; continue, the steps, until and jump.
HttpExecute(command) ==
    /\ Quiet /\ current # 0 /\ mi2[current] # 0
    /\ Send(mi2[current], command)
    /\ UNCHANGED <<manager, backend, front, gdb, killed, exitSeen>>

-----------------------------------------------------------------------------
(* Events. *)

FaultDeafWhileLaunching(s, g) ==
    s \in listeners[owner[g]] /\ session[s].phase \notin {"initializing", "launching"}

FaultIgnoreReplaced(s, g) == s \in listeners[owner[g]] /\ mi2[owner[g]] = g

\* Every GDB that a backend ever started reports to it, and it to every session that
\* ever listened: no listener is ever removed.
Hears(s, g) == s \in listeners[owner[g]]

FaultExitIsAStop(v, event) == [v EXCEPT !.last = event]

\* StoppedEvent, ContinuedEvent and TerminatedEvent.
Told(v, event) ==
    IF event = "exited" THEN [v EXCEPT !.ended = TRUE] ELSE [v EXCEPT !.last = event]

Emit(g, event) ==
    /\ view' = [s \in Sessions |-> IF Hears(s, g) THEN Told(view[s], event) ELSE view[s]]
    /\ session' = [s \in Sessions |->
           IF /\ Hears(s, g) /\ event # "stopped"
              /\ session[s].phase \in {"initializing", "launching", "ready"}
           THEN [session[s] EXCEPT !.isRunning = (event = "running")]
           ELSE session[s]]

HandleLine(g) ==
    /\ Quiet /\ out[g] # <<>>
    /\ Emit(g, Head(out[g]))
    /\ out' = [out EXCEPT ![g] = Tail(@)]
    /\ UNCHANGED <<manager, backend, gdb, killed, target, exitSeen>>

\* The 'exit' event of the process, before or after its last lines are read.
HandleExit(g) ==
    /\ Quiet /\ gdb[g] = "dead" /\ g \notin exitSeen
    /\ Emit(g, "exited")
    /\ exitSeen' = exitSeen \cup {g}
    /\ UNCHANGED <<manager, backend, gdb, killed, target, out>>

-----------------------------------------------------------------------------
Request(s) ==
    \/ \E key \in Keys : Open(s, "launch", key)
    \/ "gdb" \in Keys /\ Open(s, "attach", "gdb")
    \/ LaunchRefused(s)
    \/ ConfigurationDone(s)
    \/ Execute(s)
    \/ RestartRequest(s)
    \/ \E request \in Requests : BeginRelease(s, request) \/ EndWithoutBackend(s, request)

Continuation(s) == Initialized(s) \/ Launched(s) \/ LaunchFails(s) \/ EndRelease(s)

Http ==
    \/ \E key \in Keys : HandleCreateDebugger(key)
    \/ HttpTerminate
    \/ \E command \in Commands : HttpExecute(command)

Next ==
    \/ \E s \in Sessions : Request(s) \/ Continuation(s)
    \/ Http
    \/ \E g \in Gdbs : HandleLine(g) \/ HandleExit(g) \/ ProgramStops(g) \/ Dies(g)

Spec == Init /\ [][Next]_vars

\* VS Code (external) disconnects a session that has ended or could not be launched.
VsCodeDisconnects(s) ==
    /\ view[s].ended \/ session[s].phase = "failed"
    /\ BeginRelease(s, "disconnect") \/ EndWithoutBackend(s, "disconnect")

\* A GDB that was sent a SIGTERM dies of it.
DiesOfSignal(g) == g \in killed /\ Dies(g)

FairSpec ==
    /\ Spec
    /\ \A s \in Sessions : WF_vars(Continuation(s)) /\ WF_vars(VsCodeDisconnects(s))
    /\ \A g \in Gdbs :
           WF_vars(HandleLine(g)) /\ WF_vars(HandleExit(g)) /\ WF_vars(DiesOfSignal(g))

-----------------------------------------------------------------------------
(* Properties. *)

\* Every variable has its type: in particular VS Code is told of states that a program
\* can be in (DebugAdapter.ts:156-183).
TypeOK ==
    /\ cached \in [Keys -> Backends \cup {0}] /\ current \in Backends \cup {0}
    /\ mi2 \in [Backends -> Gdbs \cup {0}]
    /\ listeners \in [Backends -> SUBSET Sessions]
    /\ owner \in [Gdbs -> Backends \cup {0}]
    /\ session \in [Sessions ->
           [phase : Phases,
            kind : {"launch", "attach"}, backend : Backends \cup {0},
            awaits : Gdbs \cup {0}, isRunning : BOOLEAN,
            releasing : Requests \cup {"no"}, clears : BOOLEAN]]
    /\ view \in [Sessions -> [last : {"none", "running", "stopped"}, ended : BOOLEAN]]
    /\ gdb \in [Gdbs -> {"unused", "alive", "failed", "dead"}]
    /\ killed \subseteq Gdbs /\ exitSeen \subseteq Gdbs
    /\ target \in [Gdbs -> {"none", "running", "stopped", "exited"}]
    /\ out \in [Gdbs -> Seq(Events)]

\* A backend that has a GDB is in the cache, whatever sessions and requests create and
\* release meanwhile: the next launch meets it, and no GDB is behind a backend that
\* everybody has forgotten (BackendManager.ts:41-73, 111-124).
GdbIsCached == \A b \in Backends : mi2[b] # 0 => \E k \in Keys : cached[k] = b

\* A request over HTTP never reaches a backend that was released: the current backend
\* is in the cache, but for the turn in which it is released (BackendManager.ts:78-83,
\* 111-124).
CurrentIsCached == Quiet /\ current # 0 => \E k \in Keys : cached[k] = current

OnlyGdb(g) == owner[g] # 0 /\ \A h \in Gdbs : owner[h] = owner[g] => h = g

Shown == [none |-> "none", running |-> "running", stopped |-> "stopped", exited |-> "stopped"]

\* VS Code sees what GDB reported, also of commands that came over HTTP while the session
\* was being launched: for a launched session whose backend had one GDB, once nothing is
\* unread, VS Code was told the state of the program, and of its end or GDB's
\* (DebugAdapter.ts:125-130, 156-183).
ViewIsTrue ==
    \A g \in Gdbs, s \in Sessions :
        OnlyGdb(g) /\ s \in listeners[owner[g]] /\ out[g] = <<>> =>
            /\ view[s].last = Shown[target[g]]
            /\ target[g] = "exited" \/ g \in exitSeen => view[s].ended

\* A launched session whose GDB was terminated under it, by an HTTP request or by another
\* session, does not linger: GDB's exit ends it in VS Code, and its disconnect releases
\* the backend.  A session that VS Code restarted, which has no backend any more, and a
\* backend whose GDB could not be started are excepted (router.ts:310-312,
\* DebugAdapter.ts:173-177, 586-607; the test a-session-lifecycle.test.ts:50 and
\* test_mcp_comprehensive.py:575).
TerminatedIsReleased ==
    \A s \in Sessions, b \in Backends :
        /\ session[s].backend = b /\ session[s].kind = "launch" /\ mi2[b] = 0
        /\ \A g \in Gdbs : owner[g] = b => gdb[g] # "failed"
        ~> current # b \/ session[s].phase = "restarted"

\* What TerminatedIsReleased waits for can always happen: while a terminated session has
\* its backend, a release is under way, or its GDB has a SIGTERM to die of, or the exit is
\* not handled yet, or VS Code knows of the end, so that its disconnect is due and finds a
\* session that it can release (GDBBackend.ts:87-108, DebugAdapter.ts:173-177, 586-607).
ReleaseGoesOn ==
    \A s \in Sessions, b \in Backends :
        /\ session[s].backend = b /\ session[s].kind = "launch" /\ mi2[b] = 0
        /\ \A g \in Gdbs : owner[g] = b => gdb[g] # "failed"
        => \/ ~Quiet
           \/ \E g \in Gdbs : owner[g] = b /\ gdb[g] = "alive" /\ g \in killed
           \/ \E g \in Gdbs : owner[g] = b /\ gdb[g] = "dead" /\ g \notin exitSeen
           \/ view[s].ended /\ session[s].phase \notin {"none", "closed"}

\* Attaching leaves the process as it is: the end of the configuration does not make GDB
\* run another program in its place (DebugAdapter.ts:186, 640-657).
AttachKeepsProgram ==
    [][\A s \in Sessions :
          session[s].kind = "attach" /\ session[s].phase = "ready"
              /\ session'[s].phase = "configured" => UNCHANGED target]_vars
=============================================================================
