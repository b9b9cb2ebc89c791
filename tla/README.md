# A TLA+ model of AI Debug Proxy

AI Debug Proxy is a VS Code extension (`ai-debug-proxy/`) that lets AI agents and
VS Code drive one GDB process at the same time. Agents speak HTTP (directly, or
through the MCP server in `mcp-debug-server/`), VS Code speaks DAP, and both end in
one `GDBBackend` that talks GDB/MI to a child process. Everything runs on the
single-threaded Node.js event loop, so the hard behaviour is never a data race; it
is what happens *between* two awaits, and the order in which replies, events,
timers and process deaths reach the program.

## 1. Inventory

| Component | Source (under `src/`) | State it keeps | Operations | Module |
|---|---|---|---|---|
| MI2 channel | `ai-debug-proxy/src/protocol/mi2/MI2.ts` | `process`, `token`, `pendingCommands`, `lastCommand` (the promise chain), `pendingConsoleOutput`, `buffer`, `running` | `start`, `sendCommand`, `sendCommandRaw`, `handleOutput`, exit/error handlers, command timers, `kill` | `MI2`, `SerialChannel` |
| MI parser | `.../mi2/mi_parse.ts`, `normalize` in `MI2.ts` | none (pure) | `parseMI`, `MINode.valueOf`, `normalize`, `normalizeMI` | `MIParser` |
| GDB backend | `ai-debug-proxy/src/backend/GDBBackend.ts` | `mi2`, `running`, `breakpoints`, `currentFrame`, `currentFrameId`, `lastStopEvent` | 36 debug operations, three MI2 listeners, `initialize`, `terminate` | `GDBBackend`, `Inspection`, in part `Router` |
| Backend manager | `.../backend/BackendManager.ts` | `currentBackend`, `backendInstances` | `createBackend`, `getCurrentBackend`, `releaseBackend`; `getOrCreateBackend`, `releaseAllBackends`, `executeOperation`, `setActiveBackend` | `Session` |
| Debug adapter | `.../protocol/dap/DebugAdapter.ts`, on the `DebugSession` bundled in `ai-debug-proxy/out/extension.js` | `backend`, `isRunning`, `variableHandles`, its listeners on the backend | one handler per DAP request, four backend listeners | `Adapter`, `Session` |
| HTTP router | `.../server/router.ts`, `.../utils/validation.ts`, `.../core/IDebugBackend.ts` | `launchDelegate` | ping, status, create, execute_operation | `Router`, `Session` |
| HTTP server and extension | `.../server/HttpServer.ts`, `.../vscode/extension.ts` | `server`, `port`; the module variable `server` | `start`, `stop`, `onRequest`, `readBody`; `activate`, `deactivate`, the start and stop commands | `HttpServer` |
| Subagent orchestrator | `.../agent/SubagentOrchestrator.ts`, `.../server/routes/subagents.routes.ts` | `nextIndex`, `results`, one child, timer and promise per task | `runParallelSubagents`, `runSingleSubagent`, the route | `Subagents`, `AgentCalls` |
| Macro commands | `.../vscode/commands/CommandHandler.ts` | none | `/init`, `/create-agent`, `/debug-crash` | `AgentCalls` |
| MCP server | `mcp-debug-server/debug_mcp.py` | none | one HTTP call per tool, 30 s client timeout | `Router` (tables) |
| LSP service | `.../vscode/lsp/LspService.ts` | none | four pass-through queries | - |
| Logging, errors, prompts | `.../utils/logging.ts`, `.../utils/errors.ts`, `.../agent/prompts.ts` | log level | formatting | - |
| Dashboard | `infrastructure/dashboard/src/` | TTL cache in `localStorage` | fetch and render CI runs | - |
| CLI and agent scripts | `ai-debug-proxy/resources/` | none | shell and Python wrappers of the HTTP API | - |
| Playground | `playground/` | a simulated ECU, the program one debugs | a debuggee, not part of the proxy | - |

### How they interact

- An agent's HTTP request goes `HttpServer.onRequest` → `router.handleRequest` →
  `backendManager.getCurrentBackend()` → a method of `GDBBackend` → one or more
  `MI2.sendCommand`. `launch` goes out to VS Code instead (`launchDelegate`), which
  comes back as a DAP `launch` on a new `AIDebugSession`.
- A DAP request goes `DebugSession.dispatchRequest` of the library → a method of
  `AIDebugSession`, or the library's own → the same `GDBBackend` object →
  `MI2.sendCommand`. Both fronts therefore share one command channel and one set of
  backend fields, and neither knows what the other has in flight.
- GDB's output comes back through `MI2.handleOutput`, each line by way of `parseMI` and
  `normalize`: results settle the promise stored under their token; `*stopped`,
  `*running` and `=thread-group-exited` become events of `MI2`, which the backend turns
  into its own state and events, which the debug adapter forwards to VS Code.
- The subagent orchestrator is independent of the debugger: it runs command-line agents
  as child processes and collects their results for the request that asked.

### What is hard

Nothing here runs in parallel, but almost every operation is cut in pieces by `await`:
two callers interleave at every await; replies, timers, `exit` and `error` events arrive
in any order; output already in the pipe may be read after the death of the process that
wrote it; a timer that fired does not stop the reply that comes later; several lines of
GDB output come in one event and are handled before any continuation runs. Beside that,
four tables of operations are kept by hand in two languages, and GDB's answers reach the
backend through a parser that guesses objects from arrays. `PROJECT.json` lists each such
hazard with its line and the properties that cover it.

### What makes each component correct

| Component | Properties |
|---|---|
| MI2 channel | commands reach GDB one at a time and in call order; a reply settles only the command it answers; console text goes to the command it was printed for; nobody waits for ever; the init commands run once |
| MI parser | a record printed by GDB is read back as printed, for every nesting and every escape; no constant is lost on the way to the backend, and the fields it reads are where it looks |
| GDB backend | `running` and the stop information agree with what GDB reported last; values are those of the frame asked for; the breakpoint list is GDB's; a read leaves nothing behind |
| Backend manager | no GDB is behind a backend that the manager has forgotten; the current backend is never a released one |
| Debug adapter | VS Code's view of the program is true once all events are handled; every request is answered once, and success means that it was done; a session whose GDB is terminated under it is released; attaching leaves the process as it is |
| HTTP router, MCP server | what a tool sends is valid, dispatched and complete; a removal takes no breakpoint but the one that was named, or those of the file that was named |
| HTTP server and extension | every server that runs can be stopped; stop settles once the clients leave; a deactivated extension is quiet; every request is answered or its client is gone |
| Subagent orchestrator | every task gets its own result; no more work in flight than the limit, and no less while tasks remain; every request is answered; no child is left behind |

## 2. Plan

Modelled in this order, the command channel first, because every other behaviour of the
debugger rests on it; all of it is done:

1. `MI2` (with the abstract `SerialChannel` it implements) and `MI2_proofs`.
2. `Subagents`; `AgentCalls`, which composes it with its callers; `Subagents_proofs`, about
   both.
3. `GDBBackend` and `GDBBackend_proofs`: one backend object over `SerialChannel`'s promise
   (one command at a time, each settled once) rather than over `MI2` itself, which keeps
   it small.
4. `Session` and `Session_proofs`: `BackendManager` and the two fronts, HTTP and DAP, over
   what they see of a backend (its GDB and its events).
5. `HttpServer` and `HttpServer_proofs`.
6. `Inspection` and `Inspection_proofs`: what is read of a stopped program, over
   `SerialChannel`'s promise as well.
7. `Router` and `Router_proofs`: the operations of the HTTP API and the breakpoints they
   name.
8. `MIParser`: the parser and the normalisation, against a printer of GDB's records.
9. `Adapter` and `Adapter_proofs`: the requests of one debug session.

Worth adding: a `GDBBackend` over a `MI2` whose write raises `EPIPE`.

## 3. The modules and the code

A definition whose name begins with `Fault` is a plausible bug in the definition that
follows it. None of them takes part in the specification: they are what a property must
be able to notice, and `PROJECT.json` ("mutants") says which property notices which.

### SerialChannel

What `sendCommand` promises, with nothing of how: calls are numbered as they are made,
served one at a time in that order, and each settles once; a call that is not being
served can only be refused.

### MI2

| Model | Code (`MI2.ts`) |
|---|---|
| `process`, `token`, `running` | the fields of the same names; `process` is `"killed"` once `kill()` has unset it |
| `pendingCommands` | the keys of the map; the callbacks are found through `sentAs` |
| `console` | `pendingConsoleOutput`, as the set of sources whose text it holds |
| `status`, `kind`, `sentAs`, `output` | the promise of each `sendCommand` call, who made it, its token, and `consoleOutput` of its result |
| `readyHandled`, `initIssued`, `startState` | the closure of `start()` and its promise |
| `chunk` | how many lines are left of the `data` event being handled |
| `stdin`, `stdout`, `gdb`, `exitSeen` | the pipes, the GDB process, and whether `exit` was delivered |
| `answered`, `printed` | history of what GDB did, for the properties only |

`lastCommand` needs no variable: the chain makes call `c` wait for call `c-1`, which is
`Dispatchable`. A turn of the event loop is several actions: `SendCommandRaw` and
`InitContinue` are promise continuations, and `Drained` keeps timers and events waiting
until they have run; `chunk` keeps the continuations waiting until the last line of a
`data` event is handled. `HandleLine` is one line of `handleOutput`; `Terminate` is
`GDBBackend.terminate`, the only caller of `kill()`, and it is atomic because it never
awaits. GDB (`GdbStream`, `GdbAnswer`, `GdbDies`) is external: it takes commands in
order, may print or not, may answer or not, may die at any time, and leaves its last
words in the pipe.

Timers carry no duration: a timer that is armed may fire at any moment, which allows
every order of timers and replies and a few that real durations forbid.

### GDBBackend

| Model | Code (`GDBBackend.ts`) |
|---|---|
| `mi2`, `running`, `currentFrameId`, `breakpoints` | the fields of the same names; `mi2` is the number of the process behind `this.mi2`, 0 for `undefined` |
| `call` | each call of an operation: its name, the command it awaits (`step` of `Script`), its argument, the value it got, and how it ended |
| `queue`, `sent`, `killed` | each `MI2` as `SerialChannel` has it: the commands in call order, whether the first was written, whether `kill()` was called |
| `chunk` | the process whose `data` event is handled and the lines left of it |
| `gdb`, `exitSeen`, `stdin`, `pipe`, `target`, `selected`, `table`, `inserted` | the GDB processes (external) and what they know of the program, the frame and the breakpoints |

An operation is what it does up to its first await (`Initialize`, `Plain`, `Continue`,
`SelectFrame`, `Inspect`, `RemoveBreakpoint`), the commands of its `Script`, and what it
does when each has been answered (`Resume`, with its `Effect`). `initialize` has one await
more: it replaces `mi2` and starts GDB, and only the prompt, or five seconds without one
(`OnReady`), queues its first command, behind those that other callers have queued on the
new `mi2` meanwhile. A frame may be any number, as `gotoFrame` takes any: GDB refuses the
negative ones. Operations that the properties cannot tell apart share a script: `continue`
is also the three steps, `until` also `jumpToLine`, `init` both commands of `MI2.start`,
`evaluate` also `getVariables` with a frame, `locals` every operation that sends one command
and keeps nothing of its answer. A command goes to the channel that `this.mi2` is at that
moment, which is what the code does: an operation that awaited while `initialize` replaced
the channel goes on with the new GDB. `Terminate` is one action, since it never awaits; the
listeners of the old channel stay, and the answers of the old GDB still resume their
callers. `HandleLine` is one line of a `data` event; no continuation runs before the last.
`Executes` is GDB: it may refuse any command, takes them in order, and reports `*running`,
`*stopped` and `=thread-group-exited` as it does.

### Inspection

| Model | Code (`GDBBackend.ts`, `DebugAdapter.ts`, `router.ts`) |
|---|---|
| `currentFrameId`, `lastStopEvent` | the fields of the same names; a stop is its number, 0 if there was none |
| `request` | each call under way: its operation, the frame it is about (`target`), the commands it has left (`script`), what it has read, and whether any other overlapped it (`solo`) |
| `queue`, `executed`, `stale` | the channel; `stale` are commands that timed out before GDB executed them |
| `pipe`, `stops`, `moving`, `selected`, `varobj` | GDB (external): its unread output, the stops of the program, the selected frame, the variable objects, each with the request that made it, or `Nobody` once that gave up |
| `shown` | the newest stop of which any client was told or shown anything, for `StopInfoIsFresh` only |

Here a GDB is never replaced and a program never ends: that is `GDBBackend`. In exchange the
module has every operation that reads, GDB's selected frame beside the backend's idea of it,
and what remains in GDB of a command that nobody awaits any more. `HandleData` is one `data`
event; `Timeout` the timer of the command at work, after which GDB may still execute the
command, and a variable object stays that the `whatis` had created or creates then. The
frame of an operation that has none of its own is `currentFrameId` at its call
(`ReadCurrentFrame`), save that `getScopePreview` reads it a second time after its first
await (`Target`).

### Session

| Model | Code (`BackendManager.ts`, `DebugAdapter.ts`, `router.ts`) |
|---|---|
| `cached`, `current` | `backendInstances` and `currentBackend` of the manager |
| `mi2`, `listeners` | `mi2` of each `GDBBackend`, and the sessions whose handlers its emitter calls |
| `owner` | the backend whose three listeners each `MI2` has |
| `session` | each `AIDebugSession`: `backend`, `isRunning`, how far its launch or attach has come (`phase`, and in `awaits` the GDB whose promise it waits for), and whether it is inside `releaseBackend` (`releasing`; `clears` if it found a backend to release) |
| `view` | what VS Code was told: the last of stopped and continued, and whether terminated |
| `gdb`, `killed`, `target`, `out`, `exitSeen` | the GDB processes (external), who was sent a SIGTERM, their programs, and what of their output is unread |

`Open` is `launchRequest` or `attachRequest` up to the first await, with `createBackend`
and the beginning of `initialize`, which run in the same turn; `Initialized`, `Launched`
and `LaunchFails` are its continuations. `HandleCreateDebugger` and `HttpExecute` are the
router's; an HTTP launch is handed to VS Code and comes back as an `Open`.
`releaseBackend` awaits once, so terminate and disconnect are two actions, `BeginRelease`
and `EndRelease`. That await is on a promise already settled, so only handlers of messages
that VS Code handed over in the same turn can come between: timers, events and HTTP
requests wait until all is `Quiet`.

Here a channel is not a queue: a promise of it settles whenever `MI2` may settle it, a
command has its effect on the program when it is sent and only the report is late, and
`isRunning` is not followed after `configurationDoneRequest`, the last to read it. The
requests that only read are in `Adapter` and `Inspection`.

### Adapter

| Model | Code (`DebugAdapter.ts`; the library in `out/extension.js`) |
|---|---|
| `requests` | every request in order: the stage of its handler, the `seq` and `success` of its `Response`, how often it was handed to `sendResponse` (`tries`), whether it gets what it names (`place`), and whether what it asks was done |
| `capabilities` | the body of the answer to `initialize` |
| `backend`, `listening`, `isRunning` | `this.backend` is defined; its events are wired; `this.isRunning` |
| `handles`, `shown` | `variableHandles`, and the scopes that VS Code was shown, with the frame it asked for |

`Dispatched` and `MethodOf` are `dispatchRequest` of the library, `Overridden` the methods
of `AIDebugSession` by the names they have: a command whose method is not overridden goes to
the library's default, which answers success and does nothing (`DefaultRequest`). A request
is an action up to its first await, one per promise that resolves, and `Rejected` for those
that do not. The frame of `scopes` and `variables` and the thread of a step are compared
with what GDB has selected (`Selectable`), since the handlers drop what the request names.
`restart` is never done: its handler ends the backend and starts none (`Over`). VS Code
(`May`) initialises, launches or attaches, and then sends what the advertised capabilities
allow.

### Router

| Model | Code (`router.ts`, `validation.ts`, `IDebugBackend.ts`, `debug_mcp.py`) |
|---|---|
| `Unconditional`, `Needs` | `validateOperationArgs` |
| `Dispatch`, `Renamed` | `executeBackendOperation` |
| `Signature` | the required parameters of the interface `IDebugBackend` |
| `Advertised`, `ToolSends` | the list of `handlePing`; the tools of the MCP server, with what each always sends |
| `request` | each client's request: operation, kinds of its parameters, the breakpoint it names, how it was answered |
| `queue`, `backend`, `list` | the commands in the channel; the current backend; `getBreakpoints()` |
| `gdb`, `nextId` | GDB's own table of breakpoints (external), with those that no list shows: the one at the entry that a launch sets, and the temporary ones |

A parameter is the kind of its value: absent, null, blank, a text, a number, a place (a
location object), or an access mode. `Reject`, `WithoutBackend`, `NoBackend`, `Unknown`,
`Launch` and `Execute` are the ends and the first await of `handleDebugOperation`;
`BackendDoes` and `BackendFails` come after it. A breakpoint that is removed by its place is
looked up (`Match`) before its deletion enters the channel. `removeAllBreakpointsInFile`
deletes from GDB's table, whatever the list says: what has the path in its full name, where
`Part` is a path that several names have in them, and what has a relative name in which the
path ends (`ShortNamed`, `InFile`). An id that is blank deletes all (`All`). `list` is a
set: the code's Map keeps the breakpoints in the order in which they were set, which is that
of their numbers.

### MIParser

`ParseMI` and the operators before it are the functions of `mi_parse.ts` of the same
names, on a sequence of characters in which a name, a class and a token number are one
character each; each returns what it found and the output that is left, which in the code
is a variable that the functions share. `ValueOf` is `MINode.valueOf`, `Normalize`
and `NormalizeMI` are those of `MI2.ts`, `HandleOutput` what becomes of a record. The
other half of the module is GDB's grammar (`Line`): a printer, and the meaning of what is
printed, by which the parser is judged. An action prints a line, one parses it, one hands
it on; the module is a function and has no behaviour beyond that.

### HttpServer

| Model | Code (`HttpServer.ts`, `extension.ts`) |
|---|---|
| `extension`, `server`, `configured` | how far `activate` and `deactivate` have come, the module variable `server`, the setting `aiDebugProxy.port` |
| `port`, `field` | `port` and `server` of each `HttpServer` object |
| `phase`, `waiting` | each Node server, and whose `stop()` waits for it |
| `at`, `open`, `handler`, `answer` | the connections, and how far `onRequest` has come with the last request of each |

A start is one step, since Node reports a bind on a literal address, or its failure, before
the extension is handed another command. A stop is two: `close()` and its callback, which
comes when the last connection has ended. A connection begins without a request (`Connect`)
and carries any number of them, one after another (`Receive`), also while the server closes:
`close()` ends none that is in use, and a client may keep one as it likes.

### Subagents and AgentCalls

| Model | Code (`SubagentOrchestrator.ts`) |
|---|---|
| `phase`, `count`, `next`, `results` | the promise of `runParallelSubagents`, `tasks.length`, `nextIndex` (from 1), `results` |
| `worker` | the task each call of `runNext` awaits |
| `outcome` | how the promise of `runSingleSubagent` settled |
| `child`, `timer` | the child process of each task and its timeout |
| `caller`, `answer`, `contextFile` (`AgentCalls`) | who made the call, what `handleSubagentsRequest` answered, the file that `/init` writes |

`StartWorkers` takes the first tasks in one step, because each `runNext` runs to its
first await before the next is called. `RunNext` stores a result and takes the next task
in one step, because nothing awaits between them. `RunSingle` is everything up to the
first await: the whitelist, `spawn` (which may throw) and the arming of the timer. The
whitelist is read again for every task, so any task may find itself blocked. `Timeout`
does not wait for the child it kills; where the system refuses the signal, `kill()` emits
`error` on the spot, and that settles the task. `ChildEnds` is the child (external):
nothing makes it end. `AgentCalls` extends `Subagents` with the handler of
`POST /api/subagents` and the slash commands of `CommandHandler.ts`.

## 4. What the runs check

| Run | Question | Answer |
|---|---|---|
| `MI2` | Can two callers, the init commands, late replies, timers and deaths mix up commands, and does every command and `start()` settle? | No: `RepliesMatch`, `OutputProvenance`, and the channel implements `SerialChannel`. Yes: `CommandsSettle`, `StartSettles` |
| `AgentCalls` | Is an answer complete and true, are the workers busy while tasks remain, is no child left without a signal, and is every request answered? | Yes: `AnswerIsTrue`, `WorkConserving`, `NoAbandonedChild`, `CallerAnswered` |
| `GDBBackend_any` | Do the backend's reports agree with GDB when operations run at once, GDB refuses, hangs or dies, and a second GDB replaces the first? | Yes: a backend that says stopped is right, unless the program was resumed before `initialize` returned (`StoppedReportIsTrue`), arguments are of the frame asked for (`ArgumentsOfFrame`), the breakpoint list and GDB's table differ only while a removal is at work, was given up, or was called under an earlier GDB (`ListedBreakpointsExist`, `SetBreakpointsListed`) |
| `Inspection` | What may a client rely on that reads while others read, select frames and resume? | A client that is alone reads the frame it asked about (`SoloReadsAreOfFrame`), nobody is told of a stop older than what was already shown (`StopInfoIsFresh`), `whatis` cleans up but for what it gave up waiting for (`WhatisLeavesNothing`) |
| `Session_owners` | Can sessions and HTTP requests that create, replace and release backends lose a GDB, or leave a released backend current? | No: `GdbIsCached`, `CurrentIsCached` |
| `Session_events` | Does VS Code see the program as it is, and is a session released whose GDB is terminated under it? | Yes: `ViewIsTrue`, `TerminatedIsReleased` |
| `Session_attach` | Does attaching leave the process alone? | No, the end of the configuration runs the program anew (finding) |
| `Adapter` | Is every request of VS Code answered once, and is success told only of what was done? | Yes, but for the commands of `Unserved` and `Lenient`, and for scopes, variables and steps of another frame or thread than GDB has selected (`Misplaced`; section 6): `EveryRequestAnswered`, `NoSecondAnswer`, `SuccessMeansDone` |
| `Router` | Do the tables of tools, validation, dispatch and interface agree, and can a removal hit a breakpoint that nobody named? | They do: `ToolsAreServed`, `RequiredArgumentsArrive`. Only by a blank id, or by a path that takes more files than the one it names (`Overreaches`; section 6): `RemovesOnlyNamed` |
| `Router_remove` | Does a removal take the breakpoint at the line it names? | No, a neighbour that comes first in the list goes instead (finding) |
| `MIParser` | Does the parser undo GDB's printing, and does the backend find what GDB sent? | Yes, but for what `Misread` and `PairList` list: `ParsesTheGrammar`, `PathsLead`, `NothingIsLost`, `FieldsAreFound` |
| `HttpServer` | Can a server be lost, a stop hang, a request stay unanswered? | No: `NoLostServer`, `DeactivatedIsQuiet`, `AnsweredOrGone`, `RequestSettles`; a stop hangs only as long as clients keep their connections (`StopSettles`, `ClientsLeave`) |

### Bounds

`MI2`. `MaxUser = 2` and `InitCount = 2`: two users are the least that can race, a third
command behind two others meets nothing that the second did not, and two init commands
are what the backend sends. `Talkers` are the tokens whose command prints, each once, and
text of nobody (0) is always possible; one talker is enough for its text to meet another
command. `ResultClasses` holds one class of each treatment that the proxy's commands get
(`running` stands for both classes that resolve); the classes that are dropped are left
out: GDB answers `connected` only to `-target-select` and `exit` only to `-gdb-exit`, and
the proxy sends neither to a living GDB. Given one, the caller would wait for ever, which
the theorem `NobodyStranded` states.

`AgentCalls` has two workers, and 0, 1, 3 tasks and one more than allowed: no task, fewer
tasks than workers, more tasks than workers, and the refusal. `MaxTasks` is 3 where the
code has 50, since a task differs from the next only in its number. One request or command
is made: calls share nothing.

`GDBBackend_any` has any three calls, `initialize` among them, on two GDBs with the frames
-1, 0 and 1 and two breakpoint numbers: a race needs two operations, a replacement of GDB a
third call, and every operation has at most two awaits after its first command. Eleven
operations are called (`Ops`): `launch`, `pause`, `locals`, `evaluate` and `restart` are
left out, since what they send changes nothing that the properties read, or is what
`attach`, `arguments` and `start` send; the theorems cover them. `StoppedReportIsTrue` has
two exceptions, both hazards in `PROJECT.json`: another GDB on the same backend, whose late
exit clears `running` while the new one's program runs, and a program that was resumed
before `initialize` returned, which then clears `running` (`ResumedEarly`).

`Inspection` has two requests at once of nine operations (`Ops`), any number one after the
other, two stops, two frames and one above them that GDB refuses, and two names of variable
objects: a race needs two requests and one stop between them. The operations left out read
in the same ways (by the frame GDB has selected, by a frame they select or name), and
`runUntilLine` resumes after two commands more; the theorems cover them. With `MaxStale = 0`
no request begins while GDB has yet to execute a command that timed out; those under way go
on.

`Session_owners` has two sessions, two spellings of the type, two backends and two GDBs: one
session, or the HTTP front, can replace and release what the other uses, once for each
GDB. Its programs do nothing (`MaxOut = 0`, no `Commands`), since nothing that a program
reports changes who owns what. `Session_events` has one session, one backend and two GDBs,
so a GDB can be replaced under the session, and two unread lines, the most one command or
end of a program reports. `Session_attach` needs one of each.

`Adapter` has four requests: `initialize`, a launch or an attach, and two more of any
command, so that each command meets a launch in each of its stages, and the one that ends
the session meets every other. Two frames or threads are `Selectable`: the one that a
request names is GDB's or another.

`Router` has two clients. The one in `Wide` sends every operation with parameters of every
kind, while it is alone and there is no breakpoint, since the tables do not depend on state;
both set, list and remove breakpoints and end the session. Two numbers (`MaxId`), two lines
and two files with a common end, one of which GDB knows by a relative name (`ShortNamed`):
the least in which a removal can meet a breakpoint that is gone or not meant. GDB may move a
breakpoint to the next line, and a removal of a file's breakpoints deletes any part of them.
A backend is launched only while none lives; what is launched and the optional parameters
that validation does not know are left out. `Router_remove` needs one client and one file.

`MIParser` has two names, texts of at most two of seven characters (a plain one, a quote, a
backslash, a newline, a byte in octal, and the two escapes that are misread), values
nested two deep and at most two records on a line: every pair of neighbours occurs, and
the parser's decisions look at a character and the next. Strings are closed, and the
program prints nothing on GDB's lines.

`HttpServer` has two ports, two objects, three Node servers, two invocations of the stop
command and two connections of any number of requests: a port that changes while a server
closes, and a start after a stop.

The runs set `CHECK_DEADLOCK FALSE` where users may stop asking, and the system then
rests; `MIParser` never rests.

### Fairness

`FairSpec` of `MI2` is weak fairness of what the event loop runs (continuations, timers, the
reading of output, the `exit` event), which Node runs once they are ready. There is none for
the users, who need not call, nor for GDB, which need not answer or die. `FairCallerSpec` of
`AgentCalls` is the same for the continuations, the timers and the events of the children,
and the handler of the request, with none for `ChildEnds`. `FairSpec` of `Session` is the
same for the continuations of each session, the reading of each GDB's output and its `exit`
event; besides, a GDB that was sent a SIGTERM dies (`kill()` sends nothing stronger, and GDB
does not ignore it), and VS Code disconnects a session that was ended or could not be
launched, as its debug protocol says. There is none for the users of either front, nor for a
program, which may run for ever. `FairSpec` of `Adapter`: every promise of the backend
settles one way or the other, which is `CommandsSettle`. `FairSpec` of `HttpServer`: a body
ends or its client goes, the router's promise settles, a connection whose request is over
and that brings no other is closed (by its client or by Node's keep-alive time), and a
server without connections closes. Nothing makes a client send its first request, or its
last one: `StopSettles` has that as its hypothesis (`ClientsLeave`).

## 5. What is proved

`MI2_proofs`, `GDBBackend_proofs`, `Inspection_proofs`, `Session_proofs`,
`Adapter_proofs`, `Subagents_proofs`, `Router_proofs` and `HttpServer_proofs` hold the
proofs, for every value of the constants that satisfies the `ConstantsAssumption` of the
module. Nothing else is assumed: of GDB, VS Code, Node and the clients the proofs use what
their actions in the models allow.

`MI2_proofs`. The invariants that the run checks are not inductive by themselves, since
they speak of promises and the code works with tokens. The strengthening `IInv` relates the
two: `TokenUse` says that a token in use was handed out, and to a call that was sent, and
that a pending one belongs to a call that still waits (so settling by token never settles
a call twice); `NoGaps` that the calls made are exactly those with a promise (so the
chain has no hole); `Honest` that a result still in the pipe is an answer GDB gave;
`Numbering` that there is room for the next call. From it follow `TypeCorrect`, `Serialised`,
`NoMixedReplies`, `NobodyStranded` and `InitCommandsOnce`. `Refinement` shows that `Init`
maps to the initial state of `SerialChannel` and each action to a step of it or a
stutter: `AppendCall` is `Call`, `SendCommandRaw` is `Begin` (or `Settle`, when it
refuses), and the reply, the timer and the `exit` event are `Settle`.

`TextGoesToItsCommand` (`OutputProvenance`) needs a second invariant, `TextInv`, since text
and answers reach the program by the same pipe and text carries no token. Text that is kept,
or unread, was printed for nobody, or for a command that was sent and has not resolved
(`KeptIsOwned`, `UnreadIsOwned`), and in the pipe it stands before the answer to its command
(`TextBeforeAnswer`): so whatever is kept when an answer comes is of that command, or of one
that failed before.

`SettledInOrder` (`SettledFirst`) and `SomethingIsAlwaysDue` (`NeverStuck`) need a third,
`WorkInv`: beside the order itself, that before GDB is started no call was sent
(`Unstarted`), that while `start()` is pending the init loop has a last command to resume
after (`Looping`, `LastInit`), and that the lines left of the event at hand are in the pipe
(`ChunkFits`). The exception of `NeverStuck` is the one of `CommandsSettle`: a call that GDB
answered `connected` or `exit` loses its token and timer and never settles.

`Subagents_proofs`. The strengthening (`Assignment` and `TaskState`) says that tasks are
handed out in order, that each one handed out is awaited by a worker, or has its result
stored, or is the one that threw, and what a task's child and timer may be given its
outcome. `AwaitedLimit` then follows by counting: the children still awaited inject into
the workers. `TypeCorrect`, `EveryTaskReported`, `AwaitedChildrenLimited`,
`TimersAreOwned`, `WorkIsConserved` and `ChildrenAreKilled` are its consequences, and so
are `NoTaskIsTakenTwice` and `WaitingTasksAreTimed`.

Of `AgentCalls`, with its callers, the same module says that every step of the composition
is a step of `Subagents` or leaves it alone (`CallersMakeOneCall`), so that the theorems
above hold of it. With `EveryTaskReported`, and since an answer 200 is given only when the
call is done and a done call does not change any more, `AnswersAreTrue` follows.

That a request is answered (`CallerAnswered`) is proved but for its last inference.
`RequestIsNeverStuck`: while it is not answered, the guard of an action in
`CallerFairness` holds. `NoStepIsIdle`: what
`Remaining` holds, the facts of a task (settled, left by its worker, ended, closed) and of
the request (called, resolved, answered) that are not yet true, shrinks with every step and
never grows. `CallsAreFinite` counts it: at most `4 * MaxTasks + 3` steps, by the theorems
on finite sets. What is missing is the temporal rule that joins the three.

`GDBBackend_proofs`. That an operation returns what it was asked for depends on messages in
flight, so the strengthening `Honest` follows an argument from call to command to answer: a
call that was made is at a command of its script and holds a frame and a number that are
true (`CallOK`), a command in GDB's input is that of its call's step (`GoodCommands`), and
an answer in GDB's output is true of the call it answers (`GoodLines`). `TypeCorrect` and
`ArgumentsAreOfTheFrame` follow; the first includes that the breakpoint list holds only
numbers that GDB gave.

The breakpoint properties rest on `Bookkept`: calls, commands and answers of a channel go one
at a time (`Orderly`), what is listed or about to be listed GDB has or is deleting
(`ListedIsHeld`), GDB counts the breakpoints it sets and never gives a number twice
(`Numbered`, `DeletedIsSpent`), and who still waits for an earlier GDB was called before the
present one was started (`OthersAreEarlier`). `ListedBreakpointsAreOfGdb` and
`ReportedBreakpointsAreListed` follow. The second states an exception that no small instance
shows: a `removeAllBreakpoints` whose answer comes from the GDB before takes its number out of
the list of the present one, so that a breakpoint that is set and reported is not listed; it
takes six calls (`Earlier`).

`StoppedReportsAreTrue` rests on `Told`: a dead GDB runs nothing (`DeadIsIdle`), a call that
resumes the program while `initialize` is under way is remembered as early (`EarlyCalls`), a
program that runs was resumed by somebody (`SomeoneResumed`), so that, with nobody early,
`initialize` clears `running` of a program that does not run, and if the program of the only
GDB runs then `running` is set or GDB's report of it is the last that is unread
(`RunningIsTold`). Without the exception of the early calls the statement is false: the
command of such a call may come before the init commands.

`Inspection_proofs`. `IInv` has four parts beside the types. `Serving`: a request that waits
is in the channel once and what its script has left is a rest of its operation's; an answer
in the pipe is the only one, and of the command at work. `Telling`: the stops in the pipe
are in their order, none is older than the one that is kept, and an answer that is of a
newer one stands behind it; so whatever was shown to anybody is not newer than what
`getLastStopInfo` answers (`ToldStopsAreFresh`). `Reading`: a request that is alone and has
selected its frame finds it selected, no command that was given up can move it, and the
program does not run (`Placed`); so what it reads is of that frame (`AloneReadsOfItsFrame`).
`Owned`: a variable object belongs to exactly the request that is between the answer to its
`create` and that to its `delete` (`Has`), or to nobody if that request gave up; so none is
left but those, and a `delete` that GDB is about to execute finds that of its own request,
whatever names the clock gave, while one that nobody awaits any more (`Stray`) finds only
what is nobody's (`WhatisCleansUp`).

`Session_proofs`. That no GDB is behind a forgotten backend is inductive with the types
alone; that the current backend is in the cache is not, since `releaseBackend` takes it out
of the cache before its await and unsets `currentBackend` after. `CurrentHeld` says what is
true meanwhile: some session is inside a release that will unset it. Once all is `Quiet`,
as it is when an HTTP request comes, there is no such session. `TypeCorrect`,
`NoGdbIsForgotten` and `RequestsReachLiveBackends` follow. `SessionsSeeTheProgram`
(`ViewIsTrue`) needs `Telling` as well: the backend of a session is the one it listens to,
and the only one that a living GDB of it reports to (`Listening`); the last unread line of a
GDB, if any, says what its program does (`LastLineIsTrue`); and with none unread VS Code was
told so (`ToldSoFar`).

`TerminatedIsNotStuck` (`ReleaseGoesOn`) is about the last GDB of a backend: GDBs are
started in order (`StartedInOrder`), so every backend that had one has a last one
(`HasLast`); that one is behind `mi2`, or was sent a SIGTERM (`LastIsHeld`), while earlier
ones may have been replaced alive; a session listens to its backend (`OwnersListen`), and
got it with a GDB that was new then, so it was told of the exit of the last one
(`ToldOfLast`), though it may have missed the exits before.

`Adapter_proofs`. By its stage a request is known to have been answered once or not at all,
and an answer of success to stand for what was done, whatever the tables of commands,
methods, overrides and capabilities say (`RequestOK`); references of scopes are not used
twice, so one that VS Code was shown stands for its scope for good (`HandlesOK`): what a
request for variables gets is elsewhere than asked only by its frame (`CallingOK`), the
exception that `Misplaced` names. `AnswersOnce` and `SuccessIsHonest` follow, for any number
of requests under way at once; so does `NobodyIsLeftOut`, that a request without an answer
is at an await. `HandlersEnd` (`HandlersGoOn`) says of every step that a handler only goes
on, past at most two awaits, and that an answer stands.

`HttpServer_proofs`. The strengthening says that the field of the extension's object holds a
server that lives and every other field is empty (`FieldIsLive`), that whoever awaits a stop
awaits a server that closes (`WaitingCloses`), and that only a server that listens or closes
has connections (`OpenIsServed`); from it follow that no server is lost (`NoServerIsLost`),
that `deactivate()` leaves nobody connected (`DeactivateWaits`), that a `stop()` that
resolves has stopped the server (`StopMeansStopped`), and that a request that is over was
answered or its client is gone (`RequestsAreAnswered`), for any number of objects, servers,
connections and requests on them. `StopCanGoOn` adds that whoever awaits a stop awaits the
server that the extension holds, which closes, and `ClosingGoesOn`, of every step, that a
server that closes only loses connections, is closed when none is left and never listens
again: what is left for it to wait for is the clients.

`Router_proofs`. `RemovesOnlyNamed` speaks of the step in which GDB deletes, and the number
that is deleted was found before the deletion entered the channel, so the invariant has to
carry what was found across everything that other clients do meanwhile. A client whose
command is in the channel waits, and has one there (`Queued`), so a request does not change
while its command does not run; numbers are given once (`Numbered`), so a number that is
gone never comes to stand for another breakpoint; and a removal that waits was given its
number, or deletes all, or found a breakpoint near the place it names that is listed as long
as GDB has it (`Sought`). `NobodyElsesBreakpoint` follows, for any number of clients and
breakpoints, listed or not. It names what it excepts: the end of the session, a temporary
breakpoint that the program reaches, and the two removals by which the code takes what was
not named (`Overreaches`). What waits has passed validation (`Passed`), and by the tables
what has passed is what the method needs (`NeededArrive`): `MethodsGetTheirArguments`.
`EveryToolIsServed` needs only that each tool's parameters pass and are dispatched
(`ToolIsServed`), table by table.

Only model-checked: the liveness properties, which rest on fairness and so on `ENABLED` and
induction over data, out of the prover's reach; and everything about `MIParser`, whose
operators are recursive, out of its reach as well. Of most liveness properties the theorems
state the part that is safety, for every value of the constants, where the runs see one
small instance:

| Checked | Proved of it |
|---|---|
| `CommandsSettle`, `StartSettles` (`MI2`) | nobody waits without work for the event loop: `SomethingIsAlwaysDue`; in what order they settle: `SettledInOrder` |
| `CallerAnswered` (`AgentCalls`) | never stuck: `RequestIsNeverStuck`; finitely many steps: `NoStepIsIdle`, `CallsAreFinite` |
| `TerminatedIsReleased` (`Session`) | never stuck: `TerminatedIsNotStuck` |
| `EveryRequestAnswered` (`Adapter`) | never stuck: `NobodyIsLeftOut`; one direction: `HandlersEnd` |
| `StopSettles` (`HttpServer`) | a server closes for whoever waits: `StopCanGoOn`; it only empties: `ClosingGoesOn` |

The properties named in the second column that no run lists (`SettledFirst`, `NeverStuck`,
`WaitingIsTimed`, `OneWorkerPerTask`, `EveryStepCounts`, `ReleaseGoesOn`, `NoneIsLeftOut`,
`HandlersGoOn`, `StopIsUnderWay`, `ClosingOnlyEmpties`) are defined beside the others in the
module they speak of, and can be added to its configuration as they are.

## 6. Findings

- `configurationDoneRequest` sends `-exec-run` to a session that attached to a process, which
  GDB ends to run the program anew (`Session_attach`).
- `remove_breakpoint` by location takes the first breakpoint of the file that is at most a
  line away, before it looks for one on the line itself (`Router_remove`).

Also met, most of them while a property had to be stated around them, and not the finding
of a run:

Channel and backend
- A living GDB is never sent `-gdb-exit`: `terminate()` queues it as a promise continuation,
  and `kill()` unsets `process` before it runs (`GDBBackend.ts:221-223`). GDB ends by the
  signal.
- A command that printed nothing is given the console text that was printed for nobody
  (`MI2.ts:268`).
- `running` is set before GDB has taken the command; refused or unanswered, it stays set
  (`GDBBackend.ts:249`).
- `getVariables` and `evaluate` with a frame select it with one command and read with the
  next; a concurrent caller's selection in between gives them another frame's values
  (`GDBBackend.ts:442`). `getArguments` names its frame in both commands and is safe.
  `getVariables` without a frame, the default of the tool (`debug_mcp.py:179`), reads the
  frame GDB has selected, which need not be the backend's.
- After its await `initialize` clears `running` also when another caller, who found the new
  `mi2`, has resumed the program meanwhile (`GDBBackend.ts:79`, `:114`): the init commands
  wait for the prompt, or five seconds without one, and then queue behind his.
- `goto_frame` takes any number (`validation.ts:264-268`) and stores it before GDB has
  refused it (`GDBBackend.ts:723`); after a negative one `frame_down`, which refuses at 0
  only (`:705`), goes on counting down.
- A `whatis` that gives up leaves its variable object in GDB, as nobody knows of it any more
  (`GDBBackend.ts:838-854`).
- `initialize` leaves the old GDB of a reused backend running, and its late exit is taken
  for the new one's (`GDBBackend.ts:79`, `:102`).
- The comment at `MI2.ts:154` calls the `readyHandled` guard defensive because `once()`
  prevents a double fire. It is needed: the fallback timer calls `onReady` directly and
  leaves the listener in place.

Parser
- Read wrongly: octal escapes that begin with 0 and `\a`; a list of values whose first is
  the empty text (`Misread`); a list of lists of two, taken for results (`PairList`).
- A tuple of one field becomes a list and loses its name; several results of one name
  become a list among other fields.
- By reading alone: an asynchronous record without parameters takes the records behind it
  for its class; a string without its closing quote is never left
  (`mi_parse.ts:236`); text of the program that stands before `*stopped` on the line hides
  the stop.
- `normalizeMI` is called by the unit tests only; `normalize`, which the program uses,
  differs from it on repeated names, empty arrays and lists of one name.

Debug adapter
- `setBreakpointsRequest` overrides nothing, since the library's method is
  `setBreakPointsRequest`: VS Code is told success with an empty answer and its breakpoints
  are never set. `pause` succeeds without pausing. Five capabilities are advertised without
  a handler (`Unserved`).
- `scopes` and `variables` are those of the frame that GDB has selected, whichever frame was
  asked for (`DebugAdapter.ts:430`, `:467`), and a step is one of the thread that GDB has
  selected (`:262-353`). `restart` ends GDB and starts none (`:541`), and tells VS Code
  success. After the end of a program VS Code may get a second `TerminatedEvent`, or a stop
  after it (`:173`).
- The logger of the bundled library is never set up in an inline session, and keeps every
  message in `_pendingLogQ` for the life of the extension (`out/extension.js`, `_pendingLogQ`).

Router and tools
- An `id` of `""` passes validation and becomes `-break-delete` without a number, which
  deletes every breakpoint while the list keeps them (`router.ts:367`, `GDBBackend.ts:396`);
  `null` becomes `-break-delete undefined`.
- `remove_all_breakpoints_in_file` takes every file whose full name has the path in it, and
  every file whose relative name the path ends in: asked for `/w/a/main.c`, also the
  breakpoints of `/w/b/main.c` if GDB knows that as `main.c` (`GDBBackend.ts:765-768`). It
  deletes from GDB's own table, so those that were never listed, at the entry or temporary,
  go as well.
- `read_memory` refuses the form with `address`, and `write_memory` an address in a text,
  both of which the requirements at the head of `router.ts` promise; validation accepts
  operations that the dispatch does not know, against the comment at `router.ts:450`.
- The tool `debug_set_breakpoint` drops its condition; `get_source` ignores its expression;
  temporary breakpoints are never listed; `/api/status` answers 500 while a backend without
  GDB is current; `POST /api/subagents` is documented
  (`docs/guides/api-reference.md:702`) and not routed.

Server, subagents, commands
- `close()` ends no active connection, against the comment at `HttpServer.ts:134`: a client
  that connects and sends nothing, or sends one request after another, holds up `stop()` and
  `deactivate()` as long as it likes; after `EADDRINUSE`, `isRunning()` is true of a server
  that does not listen (`:155`).
- A timed-out child is not waited for, so more children than `maxConcurrency` may live
  (`SubagentOrchestrator.ts:213`).
- `/create-agent` always throws, because `../agent/prompts` is not where it is looked for;
  `CommandHandler` and `LspService` are called by nothing in the extension.
- `stringifySafe` reports an object that is shared, and not circular, as `[Circular]`.

## 7. What is not modelled

- `setActiveBackend` (for tests), `getOrCreateBackend`, `releaseAllBackends` and
  `executeOperation` of the manager, which nothing in the extension calls.
- The rest of `out/extension.js`: the build of `src/` itself, and libraries.
- The text that the backend makes of GDB's answers, and the text of prompts, logs and
  errors.
- The debuggee writes to the same pipe as GDB; a line of its output that looks like an MI
  record is not modelled.
- Between GDB's death and its `exit` event a write raises `EPIPE` on a stream that has no
  `error` listener; the models only let such a command go unanswered.
- Durations: the ten, thirty and five seconds of the timers, and the MCP client's thirty.
- The LSP service, logging, the dashboard, the scripts and the playground: pass-through,
  formatting or user interface, with no state whose order of change could go wrong.
