----------------------------- MODULE HttpServer -----------------------------
(***************************************************************************)
(* The HTTP server of the extension (server/HttpServer.ts) and the         *)
(* commands that start and stop it (vscode/extension.ts).                  *)
(*                                                                         *)
(* The module variable `server' of the extension holds an HttpServer       *)
(* object; the field `server' of that object holds a Node server, or null. *)
(* A start is one step: Node reports a bind on 127.0.0.1, or its failure,  *)
(* before it hands the extension another command.  A stop is two: close()  *)
(* takes no new connections, and its callback comes when the last open     *)
(* connection has ended.  A connection is there before its first request   *)
(* and after its last one: it carries one request after another, also      *)
(* while the server closes, and holds close() up as long as it is open.    *)
(***************************************************************************)
EXTENDS Naturals, FiniteSets

CONSTANTS Ports,        \* the values of the setting aiDebugProxy.port
          MaxObjects,   \* how many HttpServer objects the extension creates
          MaxServers,   \* how many Node servers they create
          Users,        \* the invocations of the stop command that may wait
          Connections   \* the connections clients open

ASSUME ConstantsAssumption ==
    /\ MaxObjects \in Nat \ {0}
    /\ MaxServers \in Nat \ {0}
    /\ "deactivate" \notin Users

VARIABLES extension,    \* how far activate() and deactivate() have come
          configured,   \* the port in the settings
          server,       \* the HttpServer object of the extension, 0 for null
          port,         \* the port of each HttpServer object
          field,        \* the Node server in each object's field, 0 for null
          phase,        \* how far each Node server has come
          waiting,      \* who awaits a stop()
          at,           \* the Node server each connection was made to
          open,         \* whether its socket is open
          handler,      \* how far onRequest has come with its request
          answer        \* the response written to it

vars == <<extension, configured, server, port, field, phase, waiting,
          at, open, handler, answer>>
lifecycle == <<extension, configured, server, port, field, phase, waiting>>
requests == <<at, open, handler, answer>>

Objects == 1 .. MaxObjects
Servers == 1 .. MaxServers
Callers == Users \cup {"deactivate"}

Phases == {"none", "listening", "failed", "closing", "closed"}

TypeOK ==
    /\ extension \in {"new", "active", "deactivating", "inactive"}
    /\ configured \in Ports
    /\ server \in IF extension \in {"new", "inactive"} THEN {0} ELSE Objects
    /\ port \in [Objects -> Ports]
    /\ field \in [Objects -> 0 .. MaxServers]
    /\ phase \in [Servers -> Phases]
    /\ waiting \subseteq Callers
    /\ at \in [Connections -> 0 .. MaxServers]
    /\ open \in [Connections -> BOOLEAN]
    /\ handler \in [Connections -> {"none", "receiving", "handling", "done"}]
    /\ answer \in [Connections -> {"none", "preflight", "result", "error"}]

Init ==
    /\ extension = "new"
    /\ configured \in Ports
    /\ server = 0
    /\ port = [o \in Objects |-> configured]
    /\ field = [o \in Objects |-> 0]
    /\ phase = [n \in Servers |-> "none"]
    /\ waiting = {}
    /\ at = [c \in Connections |-> 0]
    /\ open = [c \in Connections |-> FALSE]
    /\ handler = [c \in Connections |-> "none"]
    /\ answer = [c \in Connections |-> "none"]

-----------------------------------------------------------------------------
(* HttpServer.start, stop and isRunning *)

FaultIsRunning == server # 0 /\ field[server] # 0 /\ phase[field[server]] = "listening"

isRunning == server # 0 /\ field[server] # 0

\* A server of this process listens on p.  One that closes has given its port back.
InUse(p) == \E o \in Objects :
                port[o] = p /\ field[o] # 0 /\ phase[field[o]] = "listening"

\* The next Node server to be created.
Fresh(n) == /\ phase[n] = "none"
            /\ \A m \in Servers : m < n => phase[m] # "none"

\* start() of object o, which is for port p.  The field is set before the outcome is
\* known, and a bind that fails, because a program has the port or for any other
\* reason, leaves it set.
Start(o, p) ==
    IF field[o] # 0
    THEN UNCHANGED <<field, phase>>
    ELSE \E n \in Servers :
            /\ Fresh(n)
            /\ field' = [field EXCEPT ![o] = n]
            /\ \/ ~InUse(p) /\ phase' = [phase EXCEPT ![n] = "listening"]
               \/ phase' = [phase EXCEPT ![n] = "failed"]

FaultResolve(o, n, callers) ==
    /\ phase' = [phase EXCEPT ![n] = "closed"]
    /\ field' = [field EXCEPT ![o] = 0]
    /\ waiting' = waiting
    /\ UNCHANGED <<extension, server>>

FaultForget(o, n, callers) ==
    /\ phase' = [phase EXCEPT ![n] = "closed"]
    /\ field' = [field EXCEPT ![o] = 0]
    /\ waiting' = {}
    /\ extension' = IF "deactivate" \in callers THEN "inactive" ELSE extension
    /\ UNCHANGED server

\* The callback of close(): every stop() that waits resolves, and deactivate()
\* goes on to forget the object.
Closed(o, n, callers) ==
    /\ phase' = [phase EXCEPT ![n] = "closed"]
    /\ field' = [field EXCEPT ![o] = 0]
    /\ waiting' = {}
    /\ IF "deactivate" \in callers
       THEN extension' = "inactive" /\ server' = 0
       ELSE UNCHANGED <<extension, server>>

Connected(n) == {c \in Connections : at[c] = n /\ open[c]}

FaultStop(o, u) == Closed(o, field[o], waiting \cup {u})

\* stop() of object o, awaited by u.  A server without connections, or one that
\* never listened, closes before anything else happens.
Stop(o, u) ==
    LET n == field[o] IN
    IF Connected(n) = {}
    THEN Closed(o, n, waiting \cup {u})
    ELSE /\ phase' = [phase EXCEPT ![n] = "closing"]
         /\ waiting' = waiting \cup {u}
         /\ extension' = IF u = "deactivate" THEN "deactivating" ELSE extension
         /\ UNCHANGED <<field, server>>

\* The last connection of a server that closes has ended.
ServerCloses(o) ==
    /\ field[o] # 0
    /\ phase[field[o]] = "closing"
    /\ Connected(field[o]) = {}
    /\ Closed(o, field[o], waiting)
    /\ UNCHANGED <<configured, port, requests>>

-----------------------------------------------------------------------------
(* extension.ts *)

Activate ==
    /\ extension = "new"
    /\ extension' = "active"
    /\ server' = 1
    /\ port' = [port EXCEPT ![1] = configured]
    /\ Start(1, configured)
    /\ UNCHANGED <<configured, waiting, requests>>

\* A new object is created when there is none, or when the port has changed.
ObjectToStart ==
    IF server # 0 /\ port[server] = configured THEN server ELSE server + 1

\* The command ai-debug-proxy.start.  What a running server is told is a message.
StartCommand ==
    /\ extension \in {"active", "deactivating"}
    /\ ~isRunning
    /\ ObjectToStart \in Objects
    /\ server' = ObjectToStart
    /\ port' = [port EXCEPT ![ObjectToStart] = configured]
    /\ Start(ObjectToStart, configured)
    /\ UNCHANGED <<extension, configured, waiting, requests>>

\* The command ai-debug-proxy.stop.
StopCommand(u) ==
    /\ extension \in {"active", "deactivating"}
    /\ isRunning
    /\ u \notin waiting
    /\ Stop(server, u)
    /\ UNCHANGED <<configured, port, requests>>

Deactivate ==
    /\ extension = "active"
    /\ IF isRunning
       THEN Stop(server, "deactivate")
       ELSE /\ extension' = "inactive"
            /\ server' = 0
            /\ UNCHANGED <<field, phase, waiting>>
    /\ UNCHANGED <<configured, port, requests>>

\* The user edits the setting.
ChangeSetting(p) ==
    /\ configured' = p
    /\ UNCHANGED <<extension, server, port, field, phase, waiting, requests>>

-----------------------------------------------------------------------------
(* onRequest and readBody *)

\* A client connects.  It need not send anything.
Connect(c, n) ==
    /\ at[c] = 0
    /\ phase[n] = "listening"
    /\ at' = [at EXCEPT ![c] = n]
    /\ open' = [open EXCEPT ![c] = TRUE]
    /\ UNCHANGED <<lifecycle, handler, answer>>

\* A request comes on a connection, its first one or, since connections are kept
\* alive, one after another.  A preflight is answered at once; a request with a body
\* waits for it; any other goes to the router.
Receive(c) ==
    /\ open[c]
    /\ handler[c] \in {"none", "done"}
    /\ \E h \in {"done", "handling", "receiving"} :
          /\ handler' = [handler EXCEPT ![c] = h]
          /\ answer' = [answer EXCEPT ![c] = IF h = "done" THEN "preflight" ELSE "none"]
    /\ UNCHANGED <<lifecycle, at, open>>

\* The body has arrived: the router takes it, or it is not JSON.
BodyEnds(c) ==
    /\ handler[c] = "receiving"
    /\ open[c]
    /\ \/ /\ handler' = [handler EXCEPT ![c] = "handling"]
          /\ UNCHANGED answer
       \/ /\ handler' = [handler EXCEPT ![c] = "done"]
          /\ answer' = [answer EXCEPT ![c] = "error"]
    /\ UNCHANGED <<lifecycle, at, open>>

FaultBodyFails(c) ==
    /\ handler[c] = "receiving"
    /\ open' = [open EXCEPT ![c] = FALSE]
    /\ UNCHANGED <<lifecycle, at, handler, answer>>

\* More than MAX_BODY_SIZE: the request is rejected and its socket destroyed, so
\* the error that onRequest writes goes nowhere.  A client that goes away while
\* it sends does the same.
BodyFails(c) ==
    /\ handler[c] = "receiving"
    /\ open' = [open EXCEPT ![c] = FALSE]
    /\ handler' = [handler EXCEPT ![c] = "done"]
    /\ UNCHANGED <<lifecycle, at, answer>>

FaultHandled(c) ==
    /\ handler[c] = "handling"
    /\ handler' = [handler EXCEPT ![c] = "done"]
    /\ \/ open[c] /\ answer' = [answer EXCEPT ![c] = "result"]
       \/ UNCHANGED answer
    /\ UNCHANGED <<lifecycle, at, open>>

\* handleRequest settles.  What is written to a closed socket is lost.
Handled(c) ==
    /\ handler[c] = "handling"
    /\ handler' = [handler EXCEPT ![c] = "done"]
    /\ IF open[c]
       THEN \E a \in {"result", "error"} : answer' = [answer EXCEPT ![c] = a]
       ELSE UNCHANGED answer
    /\ UNCHANGED <<lifecycle, at, open>>

\* The client goes away before it sends a request, or while its request is with the
\* router, which goes on.
ClientAborts(c) ==
    /\ handler[c] \in {"none", "handling"}
    /\ open[c]
    /\ open' = [open EXCEPT ![c] = FALSE]
    /\ UNCHANGED <<lifecycle, at, handler, answer>>

\* A connection ends after a request: the client closes it, or Node does after its
\* keep-alive time.
IdleCloses(c) ==
    /\ handler[c] = "done"
    /\ open[c]
    /\ open' = [open EXCEPT ![c] = FALSE]
    /\ UNCHANGED <<lifecycle, at, handler, answer>>

-----------------------------------------------------------------------------
Next ==
    \/ Activate
    \/ StartCommand
    \/ \E u \in Users : StopCommand(u)
    \/ Deactivate
    \/ \E o \in Objects : ServerCloses(o)
    \/ \E p \in Ports : ChangeSetting(p)
    \/ \E c \in Connections, n \in Servers : Connect(c, n)
    \/ \E c \in Connections :
          \/ Receive(c)
          \/ BodyEnds(c) \/ BodyFails(c) \/ Handled(c) \/ ClientAborts(c) \/ IdleCloses(c)

Spec == Init /\ [][Next]_vars

\* What Node and the clients do in the end: a body comes to its end or its client
\* goes away, the router's promise settles, a connection without a further request is
\* closed after its keep-alive time, and a server without connections closes.  Nothing
\* makes a client send its first request, or its last one.
FairSpec ==
    /\ Spec
    /\ \A c \in Connections :
         /\ WF_vars(BodyEnds(c) \/ BodyFails(c))
         /\ WF_vars(Handled(c))
         /\ WF_vars(IdleCloses(c))
    /\ \A o \in Objects : WF_vars(ServerCloses(o))

-----------------------------------------------------------------------------
(* Properties *)

\* Every server that holds a port is the one that the stop command and
\* deactivate() would close: whatever was started, stopped and moved to another
\* port, none keeps listening behind the back of the extension.
NoLostServer ==
    \A n \in Servers :
        phase[n] \in {"listening", "failed", "closing"}
            => server # 0 /\ field[server] = n

\* Once the extension is deactivated no client has a connection to it and no
\* stop() is still awaited: deactivate() has waited for both.
DeactivatedIsQuiet ==
    extension = "inactive"
        => waiting = {} /\ \A c \in Connections : ~open[c]

\* A stop() that resolves really has stopped the server: nothing is running any more,
\* no socket is left half closed, and a start command would start anew.
StoppedMeansClosed ==
    [][\A u \in Callers :
        u \in waiting /\ u \notin waiting'
            => ~isRunning' /\ \A n \in Servers : phase'[n] # "closing"]_vars

\* The clients leave in the end: no connection stays open without its first request,
\* and none brings one request after another for ever.
ClientsLeave ==
    /\ \A c \in Connections : []<>~(open[c] /\ handler[c] = "none")
    /\ <>[][\A c \in Connections : ~Receive(c)]_vars

\* Every stop() resolves once the clients leave, deactivate()'s included: a body that
\* fails, a router that throws, a socket that is destroyed, a second stop() or a changed
\* port never leaves one that waits for ever (HttpServer.ts:138-148).  It does wait for
\* the clients: nothing in the code closes their connections.
StopSettles ==
    ClientsLeave => \A u \in Callers : u \in waiting ~> u \notin waiting

\* Whoever awaits a stop() awaits the server that the extension holds and that closes:
\* the callback of that close() is the one that will resolve it (HttpServer.ts:138-148).
StopIsUnderWay ==
    waiting # {} =>
        server # 0 /\ field[server] # 0 /\ phase[field[server]] = "closing"

\* A server that closes only loses connections, closes with the last of them and never
\* listens again, whatever the clients send and the user commands meanwhile; and a
\* connection that has ended stays ended (HttpServer.ts:138-148, 197-302).
ClosingOnlyEmpties ==
    [][/\ \A n \in Servers :
             phase[n] = "closing" =>
                 /\ Connected(n)' \subseteq Connected(n)
                 /\ phase'[n] \in {"closing", "closed"}
                 /\ phase'[n] = "closed" => Connected(n) = {}
       /\ \A c \in Connections :
             at[c] # 0 => at'[c] = at[c] /\ (open'[c] => open[c])]_vars

\* No client is left waiting on an open connection with its request over: onRequest
\* answers, also when the router throws or the server has been told to stop.
AnsweredOrGone ==
    \A c \in Connections : handler[c] = "done" /\ open[c] => answer[c] # "none"

\* The handler of every request comes to its end, also when the body never arrives.
RequestSettles ==
    \A c \in Connections : handler[c] \in {"receiving", "handling"} ~> handler[c] = "done"

=============================================================================
