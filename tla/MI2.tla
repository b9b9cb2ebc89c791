-------------------------------- MODULE MI2 --------------------------------
(***************************************************************************)
(* The command channel to GDB: class MI2 of protocol/mi2/MI2.ts, together  *)
(* with the GDB process at the other end of the pipes (external).          *)
(*                                                                         *)
(* Calls of sendCommand are numbered in the order they are made.  The      *)
(* promise chain lastCommand makes call c wait for call c-1 to settle.     *)
(* Node runs every promise continuation (microtask) before the next event  *)
(* (macrotask): Drained guards the events.  One 'data' event may carry     *)
(* several lines, handled in one go before any continuation: chunk counts  *)
(* the lines left of the event being handled.                              *)
(***************************************************************************)
EXTENDS Naturals, Sequences

CONSTANTS MaxUser,        \* bound on the calls made by the users of the channel
          InitCount,      \* number of initCommands passed to start()
          ResultClasses,  \* result classes GDB answers with
          Talkers         \* bound on who prints console text: tokens, or 0

MaxCalls == InitCount + MaxUser
Calls    == 1..MaxCalls
Tokens   == Nat \ {0}
Sources  == Nat               \* whose console text it is; 0 is unprompted text
Settled  == {"resolved", "rejected"}
Statuses == {"uncalled", "queued", "waiting"} \cup Settled
Kinds    == {"none", "user", "init", "exit"}
Ok       == {"done", "running"}

ASSUME ConstantsAssumption ==
    /\ MaxUser \in Nat
    /\ InitCount \in Nat
    /\ ResultClasses \subseteq {"done", "running", "error", "connected", "exit"}
    /\ Talkers \subseteq Sources

VARIABLES
    \* fields of MI2
    process,          \* this.process: "unset" | "spawned" | "killed" (undefined again)
    token,            \* this.token, the next token
    pendingCommands,  \* keys of this.pendingCommands
    console,          \* this.pendingConsoleOutput: whose text it holds
    running,          \* this.running
    \* promises
    calls,            \* number of sendCommand calls so far
    kind,             \* "user", "init" or "exit" for each call
    status,           \* the promise of each call
    sentAs,           \* its token, 0 until sendCommandRaw assigns one
    output,           \* consoleOutput attached to the result of each call
    \* start()
    readyHandled, initIssued, startState,
    \* the event loop and GDB
    chunk, stdin, stdout, gdb, exitSeen,
    answered,         \* history: <<token, class>> of every answer GDB gave
    printed           \* history: <<"prompt", 0>> and <<"console", source>>

chan    == <<token, pendingCommands, status, sentAs>>
startup == <<readyHandled, initIssued, startState>>
world   == <<gdb, exitSeen, answered, printed>>
vars    == <<process, token, pendingCommands, console, running, calls, kind,
             status, sentAs, output, readyHandled, initIssued, startState,
             chunk, stdin, stdout, gdb, exitSeen, answered, printed>>

Records == [type : {"prompt", "console"}, token : Sources, class : {"none"}]
           \cup [type : {"result"}, token : Tokens, class : ResultClasses]

Init ==
    /\ process = "unset" /\ token = 1 /\ pendingCommands = {}
    /\ console = {} /\ running = FALSE /\ calls = 0
    /\ kind = [c \in Calls |-> "none"]
    /\ status = [c \in Calls |-> "uncalled"]
    /\ sentAs = [c \in Calls |-> 0]
    /\ output = [c \in Calls |-> {}]
    /\ readyHandled = FALSE /\ initIssued = 0 /\ startState = "none"
    /\ chunk = 0 /\ stdin = <<>> /\ stdout = <<>>
    /\ gdb = "none" /\ exitSeen = FALSE /\ answered = {} /\ printed = {}

-----------------------------------------------------------------------------
(* The promise chain.  A definition named Fault... is a plausible bug in the
   definition after it, and is used only to see that a property notices it. *)

FaultUnchained(c) == status[c] = "queued"

\* call c is queued behind lastCommand and that promise has settled
Dispatchable(c) ==
    /\ status[c] = "queued"
    /\ c > 1 => status[c - 1] \in Settled

\* the init loop of start() waits for its last command, and that one settled
InitSettled(c) ==
    /\ c \in 1..calls
    /\ kind[c] = "init" /\ status[c] \in Settled
    /\ startState = "pending"
    /\ \A d \in Calls : d > c => kind[d] # "init"

Drained ==
    /\ chunk = 0
    /\ ~ \E c \in Calls : Dispatchable(c) \/ InitSettled(c)

\* the synchronous part of sendCommand: chain onto the previous command
AppendCall(k) ==
    /\ calls' = calls + 1
    /\ status' = [status EXCEPT ![calls + 1] = "queued"]
    /\ kind' = [kind EXCEPT ![calls + 1] = k]

\* sendCommand: users of the channel hold it from spawn until terminate drops it
SendCommand ==
    /\ process = "spawned"
    /\ chunk = 0
    /\ calls - initIssued < MaxUser
    /\ AppendCall("user")
    /\ UNCHANGED <<process, token, pendingCommands, console, running, sentAs,
                   output, chunk, stdin, stdout, startup, world>>

\* sendCommandRaw: refuse without a process, else assign a token and write;
\* a dead process takes the write and never answers
SendCommandRaw(c) ==
    /\ chunk = 0
    /\ Dispatchable(c)
    /\ IF process # "spawned"
       THEN /\ status' = [status EXCEPT ![c] = "rejected"]
            /\ UNCHANGED <<token, pendingCommands, sentAs, stdin>>
       ELSE /\ status' = [status EXCEPT ![c] = "waiting"]
            /\ sentAs' = [sentAs EXCEPT ![c] = token]
            /\ pendingCommands' = pendingCommands \cup {token}
            /\ token' = token + 1
            /\ stdin' = IF gdb = "alive" THEN Append(stdin, token) ELSE stdin
    /\ UNCHANGED <<process, console, running, calls, kind, output, chunk,
                   stdout, startup, world>>

FaultAnyWaiting(t) == {c \in Calls : status[c] = "waiting"}

\* whose promise the callback stored under token t settles
Callback(t) == {c \in Calls : t \in pendingCommands /\ sentAs[c] = t}

Settle(cs, s) == status' = [c \in Calls |-> IF c \in cs THEN s ELSE status[c]]

FaultNoTimer(t) == FALSE

\* the timer of sendCommandRaw; it is never cleared, and does nothing once
\* the token is no longer pending
Timeout(t) ==
    /\ Drained
    /\ t \in pendingCommands
    /\ pendingCommands' = pendingCommands \ {t}
    /\ Settle(Callback(t), "rejected")
    /\ UNCHANGED <<process, token, console, running, calls, kind, sentAs,
                   output, chunk, stdin, stdout, startup, world>>

-----------------------------------------------------------------------------
(* start(), and the output of GDB. *)

\* start: spawn, and for a command that cannot be spawned the 'error' event,
\* which comes before anything else
Start ==
    /\ process = "unset"
    /\ process' = "spawned"
    /\ \/ gdb' = "alive"  /\ startState' = "pending"
       \/ gdb' = "failed" /\ startState' = "rejected"
    /\ UNCHANGED <<chan, console, running, calls, kind, output, readyHandled,
                   initIssued, chunk, stdin, stdout, exitSeen, answered, printed>>

\* resolve() of the promise of start(): nothing if it has been rejected
ResolveStart ==
    /\ running' = TRUE
    /\ startState' = IF startState = "pending" THEN "resolved" ELSE startState

FaultFireTwice == TRUE

\* the guard of onReady
NotReadyYet == ~readyHandled

\* onReady, up to the first await
OnReady ==
    /\ NotReadyYet
    /\ readyHandled' = TRUE
    /\ IF InitCount = 0
       THEN ResolveStart /\ UNCHANGED <<calls, kind, status, initIssued>>
       ELSE /\ AppendCall("init")
            /\ initIssued' = initIssued + 1
            /\ UNCHANGED <<running, startState>>

FaultNoFallback == FALSE

\* five seconds without a prompt; the timer is not tied to the process
FallbackTimer ==
    /\ Drained
    /\ process # "unset"
    /\ OnReady
    /\ UNCHANGED <<process, token, pendingCommands, console, sentAs, output,
                   chunk, stdin, stdout, world>>

\* the init loop resumes after the command it awaits
InitContinue(c) ==
    /\ chunk = 0
    /\ InitSettled(c)
    /\ CASE status[c] = "rejected" ->
              /\ startState' = "rejected"
              /\ UNCHANGED <<running, calls, kind, status, initIssued>>
         [] status[c] = "resolved" /\ initIssued < InitCount ->
              /\ AppendCall("init")
              /\ initIssued' = initIssued + 1
              /\ UNCHANGED <<running, startState>>
         [] OTHER ->
              ResolveStart /\ UNCHANGED <<calls, kind, status, initIssued>>
    /\ UNCHANGED <<process, token, pendingCommands, console, sentAs, output,
                   readyHandled, chunk, stdin, stdout, world>>

\* the first prompt is the only one with a 'ready' listener
HandlePrompt ==
    /\ Head(stdout).type = "prompt"
    /\ IF NotReadyYet
       THEN OnReady
       ELSE UNCHANGED <<running, calls, kind, status, startup>>
    /\ UNCHANGED <<console, pendingCommands, output>>

HandleConsole ==
    /\ Head(stdout).type = "console"
    /\ console' = console \cup {Head(stdout).token}
    /\ UNCHANGED <<running, calls, kind, status, startup, pendingCommands, output>>

FaultKeepConsole == UNCHANGED console

\* text attached to a result, or dropped with an error, is given once
ResetConsole == console' = {}

\* a result: forgotten if nobody waits for it; connected and exit drop the
\* callback without calling it
HandleResult ==
    LET k  == Head(stdout).class
        cs == Callback(Head(stdout).token)
    IN  /\ Head(stdout).type = "result"
        /\ pendingCommands' = pendingCommands \ {Head(stdout).token}
        /\ CASE cs # {} /\ k \in Ok ->
                  /\ Settle(cs, "resolved")
                  /\ output' = [c \in Calls |->
                                  IF c \in cs THEN console ELSE output[c]]
                  /\ ResetConsole
             [] cs # {} /\ k = "error" ->
                  Settle(cs, "rejected") /\ ResetConsole /\ UNCHANGED output
             [] OTHER -> UNCHANGED <<status, console, output>>
        /\ UNCHANGED <<running, calls, kind, startup>>

\* handleOutput: the lines of one 'data' event, without interruption
HandleLine ==
    /\ stdout # <<>>
    /\ \E n \in 1..Len(stdout) :
         /\ (chunk = 0 /\ Drained) \/ chunk = n
         /\ chunk' = n - 1
    /\ stdout' = Tail(stdout)
    /\ HandlePrompt \/ HandleConsole \/ HandleResult
    /\ UNCHANGED <<process, token, sentAs, stdin, world>>

\* every callback in pendingCommands is rejected
RejectPending ==
    Settle({c \in Calls : sentAs[c] \in pendingCommands}, "rejected")

\* the 'exit' event; output not read yet may still follow it
ExitEvent ==
    /\ Drained
    /\ gdb = "dead" /\ ~exitSeen
    /\ exitSeen' = TRUE
    /\ running' = FALSE
    /\ RejectPending
    /\ pendingCommands' = {}
    /\ UNCHANGED <<process, token, console, calls, kind, sentAs, output, startup,
                   chunk, stdin, stdout, gdb, answered, printed>>

\* Node sends the signal and forgets the process, which may live on for a while
Kill == process' = "killed" /\ running' = FALSE

\* GDBBackend.terminate: queue -gdb-exit, kill() at once, drop the channel
Terminate ==
    /\ process = "spawned"
    /\ chunk = 0
    /\ calls - initIssued < MaxUser
    /\ AppendCall("exit")
    /\ Kill
    /\ UNCHANGED <<token, pendingCommands, console, sentAs, output, startup,
                   chunk, stdin, stdout, world>>

-----------------------------------------------------------------------------
(* GDB (external): it reads commands in order, prints and answers, and may die
   at any time.  Each source prints at most one record. *)

GdbPrint(type, t, class) ==
    /\ gdb = "alive"
    /\ stdout' = Append(stdout, [type |-> type, token |-> t, class |-> class])
    /\ UNCHANGED <<process, chan, console, running, calls, kind, output, startup,
                   chunk, gdb, exitSeen>>

\* the first prompt, or console text of the command at work or of nobody
GdbStream(type, t) ==
    /\ IF type = "prompt" THEN t = 0 ELSE t \in Talkers
    /\ t # 0 => stdin # <<>> /\ t = Head(stdin)
    /\ <<type, t>> \notin printed
    /\ printed' = printed \cup {<<type, t>>}
    /\ GdbPrint(type, t, "none")
    /\ UNCHANGED <<stdin, answered>>

GdbAnswer(class) ==
    /\ stdin # <<>>
    /\ stdin' = Tail(stdin)
    /\ answered' = answered \cup {<<Head(stdin), class>>}
    /\ GdbPrint("result", Head(stdin), class)
    /\ UNCHANGED printed

GdbDies ==
    /\ gdb = "alive"
    /\ gdb' = "dead"
    /\ stdin' = <<>>
    /\ UNCHANGED <<process, chan, console, running, calls, kind, output, startup,
                   chunk, stdout, exitSeen, answered, printed>>

-----------------------------------------------------------------------------
Dispatch == \E c \in Calls : SendCommandRaw(c)
Timers   == \E t \in pendingCommands : Timeout(t)
InitLoop == \E c \in Calls : InitContinue(c)
Gdb ==
    \/ \E type \in {"prompt", "console"}, t \in Talkers \cup {0} : GdbStream(type, t)
    \/ \E class \in ResultClasses : GdbAnswer(class)
    \/ GdbDies

Next ==
    \/ Start \/ FallbackTimer \/ InitLoop
    \/ SendCommand \/ Dispatch \/ Timers \/ Terminate
    \/ HandleLine \/ ExitEvent
    \/ Gdb

\* The event loop runs what is ready: continuations, timers and events.
\* Nothing makes a user call, and nothing makes GDB answer or die.
Fairness ==
    /\ WF_vars(Dispatch) /\ WF_vars(InitLoop)
    /\ WF_vars(Timers) /\ WF_vars(FallbackTimer)
    /\ WF_vars(HandleLine) /\ WF_vars(ExitEvent)

Spec     == Init /\ [][Next]_vars
FairSpec == Spec /\ Fairness

-----------------------------------------------------------------------------
(* Properties. *)

TypeOK ==
    /\ process \in {"unset", "spawned", "killed"}
    /\ token \in Tokens
    /\ pendingCommands \subseteq Tokens
    /\ console \subseteq Sources
    /\ running \in BOOLEAN
    /\ calls \in 0..MaxCalls
    /\ kind \in [Calls -> Kinds]
    /\ status \in [Calls -> Statuses]
    /\ sentAs \in [Calls -> Nat]
    /\ output \in [Calls -> SUBSET Sources]
    /\ readyHandled \in BOOLEAN
    /\ initIssued \in Nat
    /\ startState \in {"none", "pending"} \cup Settled
    /\ chunk \in Nat
    /\ stdin \in Seq(Tokens)
    /\ stdout \in Seq(Records)
    /\ gdb \in {"none", "alive", "failed", "dead"}
    /\ exitSeen \in BOOLEAN
    /\ answered \subseteq Tokens \X ResultClasses
    /\ printed \subseteq {"prompt", "console"} \X Sources

\* ADP-009 (MI2.ts:308-317): a command is sent or refused only after every
\* earlier one has settled, so at most one is at GDB that somebody waits for.
CallOrder ==
    \A c \in 1..calls, d \in 1..calls :
        c < d /\ status[d] # "queued" => status[c] \in Settled

\* A command resolves only with the answer GDB gave to that very command,
\* however late the answers to timed out commands come (MI2.ts:259-279).
RepliesMatch ==
    \A c \in Calls : status[c] = "resolved" =>
        \E k \in Ok : <<sentAs[c], k>> \in answered

\* Console text delivered with a result was printed for that command, for
\* nobody, or for an earlier command that failed before its answer came: never
\* for another that was answered (pendingConsoleOutput, MI2.ts:267-281).
OutputProvenance ==
    \A c \in Calls : \A t \in output[c] :
        \/ t \in {0, sentAs[c]}
        \/ \E d \in 1..(c - 1) : sentAs[d] = t /\ status[d] = "rejected"

\* Somebody waiting is known to pendingCommands, so that the timer, the exit
\* handler or the answer can still release him; a connected or exit answer,
\* which the proxy's commands never get, would strand him (MI2.ts:259-281).
NoOrphan ==
    \A c \in Calls : status[c] = "waiting" =>
        \/ sentAs[c] \in pendingCommands
        \/ \E k \in {"connected", "exit"} : <<sentAs[c], k>> \in answered

\* The prompt and the fallback timer race to run the init commands, and only
\* one of them does (readyHandled, MI2.ts:152-176).
InitOnce == initIssued <= InitCount /\ (initIssued > 0 => readyHandled)

\* Every call settles although GDB may hang or die at any moment: the exit
\* handler, the timers and the chain leave nobody waiting (MI2.ts:136-144,
\* 313-344).
CommandsSettle ==
    \A c \in Calls : status[c] = "queued" ~> status[c] \in Settled

\* start() settles whether or not a prompt ever comes (MI2.ts:171-176).
StartSettles == startState = "pending" ~> startState \in Settled

\* What the event loop will take next: a line of the event at hand, a continuation, or,
\* when neither is left, a timer.
HasWork ==
    \/ chunk \in 1..Len(stdout)
    \/ chunk = 0 /\ \E c \in Calls : Dispatchable(c) \/ InitSettled(c)
    \/ Drained /\ (pendingCommands # {} \/ (process # "unset" /\ NotReadyYet))

\* As long as a call or start() has not settled there is such work, so that nobody waits
\* for GDB alone; but for a call that GDB answered connected or exit, and whoever is
\* behind it (MI2.ts:148-178, 255-300, 308-346).
NeverStuck ==
    startState = "pending" \/ (\E c \in Calls : status[c] \in {"queued", "waiting"}) =>
        \/ HasWork
        \/ \E c \in Calls : /\ status[c] = "waiting"
                            /\ \E k \in {"connected", "exit"} : <<sentAs[c], k>> \in answered

\* Calls settle in the order they were made.
SettledFirst ==
    \E n \in 0..calls : \A c \in Calls : status[c] \in Settled <=> c <= n

\* sendCommand is a serial channel: see SerialChannel.
Channel == INSTANCE SerialChannel WITH
    made    <- calls,
    busy    <- \E c \in Calls : status[c] = "waiting",
    outcome <- [c \in Calls |->
                  IF status[c] \in Settled THEN status[c] ELSE "none"]
ImplementsSerialChannel == Channel!Spec

=============================================================================
