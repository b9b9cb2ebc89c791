-------------------------- MODULE HttpServer_proofs --------------------------
(***************************************************************************)
(* That the extension never loses a server, and that a stop() that has     *)
(* resolved has stopped it, for any numbers of ports, objects, servers and *)
(* connections.                                                            *)
(***************************************************************************)
EXTENDS HttpServer, TLAPS

Live == {"listening", "failed", "closing"}

\* Only the current object holds a Node server, and one that is still alive.
FieldIsLive ==
    \A o \in Objects : field[o] # 0 => o = server /\ phase[field[o]] \in Live

\* A stop() is awaited only while the current server closes, and the extension is
\* deactivating exactly while deactivate() is one of those that wait.
WaitingCloses ==
    /\ waiting # {} => isRunning /\ phase[field[server]] = "closing"
    /\ extension = "deactivating" => "deactivate" \in waiting

\* A connection is open only to a server that accepts or still drains them.
OpenIsServed ==
    \A c \in Connections :
        open[c] => at[c] \in Servers /\ phase[at[c]] \in {"listening", "closing"}

IInv == TypeOK /\ NoLostServer /\ FieldIsLive /\ WaitingCloses /\ OpenIsServed

-----------------------------------------------------------------------------
\* A server closes, with the object that held it: the only live server is gone.
LEMMA ClosedKeeps ==
    ASSUME IInv, NEW o \in Objects, field[o] # 0, NEW callers \in SUBSET Callers,
           extension \in {"active", "deactivating"},
           extension = "deactivating" => "deactivate" \in callers,
           Connected(field[o]) = {}, Closed(o, field[o], callers),
           UNCHANGED <<configured, port, requests>>
    PROVE  IInv'
<1> DEFINE n == field[o]
<1>1. /\ n \in Servers
      /\ server = o
      /\ phase[n] \in Live
      /\ \A m \in Servers : phase[m] \in Live => m = n
      /\ \A p \in Objects : p # o => field[p] = 0
    BY DEF IInv, TypeOK, NoLostServer, FieldIsLive, Servers, Live
<1>2. /\ phase' = [phase EXCEPT ![n] = "closed"]
      /\ field' = [field EXCEPT ![o] = 0]
      /\ waiting' = {}
      /\ configured' = configured /\ port' = port /\ at' = at /\ open' = open
      /\ handler' = handler /\ answer' = answer
    BY DEF Closed, requests
<1>3. \/ "deactivate" \in callers /\ extension' = "inactive" /\ server' = 0
      \/ extension = "active" /\ extension' = extension /\ server' = server
    BY DEF Closed
<1>4. TypeOK'
    <2>1. 0 \in 0 .. MaxServers
        BY ConstantsAssumption
    <2>2. field' \in [Objects -> 0 .. MaxServers] /\ phase' \in [Servers -> Phases]
        BY <1>2, <2>1 DEF IInv, TypeOK, Phases
    <2>3. /\ extension' \in {"new", "active", "deactivating", "inactive"}
          /\ server' \in IF extension' \in {"new", "inactive"} THEN {0} ELSE Objects
        BY <1>1, <1>3
    <2> QED BY <1>2, <2>2, <2>3 DEF IInv, TypeOK
<1>5. \A m \in Servers : phase'[m] \notin Live
    BY <1>1, <1>2 DEF IInv, TypeOK, Live
<1>6. NoLostServer'
    BY <1>5 DEF NoLostServer, Live
<1>7. FieldIsLive'
    <2>1. \A p \in Objects : field'[p] = 0
        BY <1>1, <1>2 DEF IInv, TypeOK
    <2> QED BY <2>1 DEF FieldIsLive
<1>8. WaitingCloses'
    BY <1>2, <1>3 DEF WaitingCloses
<1>9. OpenIsServed'
    <2> SUFFICES ASSUME NEW c \in Connections, open[c]
                 PROVE  at[c] \in Servers /\ phase'[at[c]] \in {"listening", "closing"}
        BY <1>2 DEF OpenIsServed
    <2>1. at[c] # n
        BY DEF Connected
    <2> QED BY <1>1, <1>2, <2>1 DEF IInv, OpenIsServed, TypeOK
<1> QED BY <1>4, <1>6, <1>7, <1>8, <1>9 DEF IInv

\* A stop() closes the server, or leaves it closing with its caller waiting.
LEMMA StopKeeps ==
    ASSUME IInv, isRunning, NEW u \in Callers,
           extension \in {"active", "deactivating"},
           u = "deactivate" => extension = "active",
           Stop(server, u), UNCHANGED <<configured, port, requests>>
    PROVE  IInv'
<1> DEFINE n == field[server]
<1>1. /\ server \in Objects
      /\ n \in Servers /\ n # 0
      /\ phase[n] \in Live
    BY DEF IInv, TypeOK, FieldIsLive, isRunning, Servers, Objects
<1>2. CASE Connected(n) = {}
    <2>1. Closed(server, n, waiting \cup {u})
        BY <1>2 DEF Stop
    <2>2. waiting \cup {u} \in SUBSET Callers
        BY DEF IInv, TypeOK
    <2>3. extension = "deactivating" => "deactivate" \in waiting \cup {u}
        BY DEF IInv, WaitingCloses
    <2> HIDE DEF n
    <2> QED BY <1>1, <1>2, <2>1, <2>2, <2>3, ClosedKeeps DEF n
<1>3. CASE Connected(n) # {}
    <2>1. /\ phase' = [phase EXCEPT ![n] = "closing"]
          /\ waiting' = waiting \cup {u}
          /\ extension' = IF u = "deactivate" THEN "deactivating" ELSE extension
          /\ field' = field /\ server' = server
          /\ configured' = configured /\ port' = port /\ at' = at /\ open' = open
          /\ handler' = handler /\ answer' = answer
        BY <1>3 DEF Stop, requests
    <2>2. TypeOK'
        BY <1>1, <2>1 DEF IInv, TypeOK, Phases, Callers
    <2>3. NoLostServer'
        BY <1>1, <2>1 DEF IInv, TypeOK, NoLostServer, Live
    <2>4. FieldIsLive'
        BY <1>1, <2>1 DEF IInv, TypeOK, FieldIsLive, Live
    <2>5. WaitingCloses'
        BY <1>1, <2>1 DEF IInv, TypeOK, WaitingCloses, isRunning
    <2>6. OpenIsServed'
        BY <1>1, <2>1 DEF IInv, TypeOK, OpenIsServed
    <2> QED BY <2>2, <2>3, <2>4, <2>5, <2>6 DEF IInv
<1> QED BY <1>2, <1>3

\* A start() when nothing is running makes the server it creates the only one alive.
LEMMA StartKeeps ==
    ASSUME IInv, ~isRunning, NEW o \in Objects,
           extension \in {"new", "active"}, extension' = "active", server' = o,
           port' = [port EXCEPT ![o] = configured], Start(o, configured),
           UNCHANGED <<configured, waiting, requests>>
    PROVE  IInv'
<1>1. \A p \in Objects : field[p] = 0
    BY ConstantsAssumption DEF IInv, FieldIsLive, isRunning, Objects
<1>2. \A m \in Servers : phase[m] \notin Live
    BY DEF IInv, NoLostServer, isRunning, Live, Servers
<1>3. PICK n \in Servers : /\ phase[n] = "none"
                           /\ field' = [field EXCEPT ![o] = n]
                           /\ \/ phase' = [phase EXCEPT ![n] = "listening"]
                              \/ phase' = [phase EXCEPT ![n] = "failed"]
    BY <1>1 DEF Start, Fresh
<1>4. /\ configured' = configured /\ waiting' = waiting /\ at' = at /\ open' = open
      /\ handler' = handler /\ answer' = answer
    BY DEF requests
<1>5. waiting = {}
    BY DEF IInv, WaitingCloses
<1>6. TypeOK'
    BY <1>3, <1>4 DEF IInv, TypeOK, Phases, Servers, Objects
<1>7. NoLostServer'
    <2>1. o # 0 /\ field'[o] = n
        BY <1>3, ConstantsAssumption DEF IInv, TypeOK, Objects
    <2>2. \A m \in Servers : phase'[m] \in Live => m = n
        BY <1>2, <1>3 DEF IInv, TypeOK, Live
    <2> QED BY <2>1, <2>2 DEF NoLostServer, Live
<1>8. FieldIsLive'
    BY <1>1, <1>3 DEF IInv, TypeOK, FieldIsLive, Live, Servers
<1>9. WaitingCloses'
    BY <1>4, <1>5 DEF WaitingCloses
<1>10. OpenIsServed'
    BY <1>2, <1>3, <1>4 DEF IInv, TypeOK, OpenIsServed, Live
<1> QED BY <1>6, <1>7, <1>8, <1>9, <1>10 DEF IInv

-----------------------------------------------------------------------------
\* Requests come and go without touching the life cycle.
LEMMA RequestsKeep ==
    ASSUME IInv, UNCHANGED lifecycle, TypeOK', OpenIsServed'
    PROVE  IInv'
BY DEF IInv, lifecycle, NoLostServer, FieldIsLive, WaitingCloses, isRunning

\* What may happen to a connection once it is made.
RequestStep(c) ==
    \/ Receive(c) \/ BodyEnds(c) \/ BodyFails(c)
    \/ Handled(c) \/ ClientAborts(c) \/ IdleCloses(c)

\* It is made to one server, and a connection that has ended stays ended.
LEMMA OpenOnlyEnds ==
    ASSUME TypeOK, NEW c \in Connections, RequestStep(c)
    PROVE  at' = at /\ \A d \in Connections : open'[d] => open[d]
BY DEF RequestStep, Receive, BodyEnds, BodyFails, Handled, ClientAborts, IdleCloses, TypeOK

LEMMA InitIInv == Init => IInv
BY ConstantsAssumption
   DEF Init, IInv, TypeOK, NoLostServer, FieldIsLive, WaitingCloses, OpenIsServed,
       Phases, Objects, Servers

\* The strengthened invariant is inductive.
LEMMA StepIInv == IInv /\ [Next]_vars => IInv'
<1> SUFFICES ASSUME IInv, [Next]_vars PROVE IInv'
    OBVIOUS
<1>1. CASE Activate
    <2>1. 1 \in Objects
        BY ConstantsAssumption DEF Objects
    <2>2. ~isRunning
        BY <1>1 DEF Activate, IInv, TypeOK, isRunning
    <2> QED BY <1>1, <2>1, <2>2, StartKeeps DEF Activate
<1>2. CASE StartCommand
    <2>1. extension = "active" /\ extension' = "active"
        BY <1>2 DEF StartCommand, IInv, WaitingCloses
    <2> DEFINE o == ObjectToStart
    <2>2. /\ o \in Objects /\ server' = o /\ ~isRunning
          /\ port' = [port EXCEPT ![o] = configured] /\ Start(o, configured)
          /\ UNCHANGED <<configured, waiting, requests>>
        BY <1>2 DEF StartCommand
    <2> HIDE DEF o
    <2> QED BY <2>1, <2>2, StartKeeps
<1>3. ASSUME NEW u \in Users, StopCommand(u) PROVE IInv'
    BY <1>3, ConstantsAssumption, StopKeeps DEF StopCommand, Callers
<1>4. CASE Deactivate
    <2>1. CASE isRunning
        BY <1>4, <2>1, StopKeeps DEF Deactivate, Callers
    <2>2. CASE ~isRunning
        <3>1. /\ extension' = "inactive" /\ server' = 0
              /\ field' = field /\ phase' = phase /\ waiting' = waiting
              /\ configured' = configured /\ port' = port /\ at' = at /\ open' = open
              /\ handler' = handler /\ answer' = answer
            BY <1>4, <2>2 DEF Deactivate, requests
        <3>2. TypeOK'
            BY <3>1 DEF IInv, TypeOK
        <3>3. NoLostServer'
            BY <2>2, <3>1 DEF IInv, NoLostServer, isRunning, Servers
        <3>4. FieldIsLive'
            BY <2>2, <3>1 DEF IInv, FieldIsLive, isRunning
        <3>5. WaitingCloses'
            BY <2>2, <3>1 DEF IInv, WaitingCloses
        <3>6. OpenIsServed'
            BY <3>1 DEF IInv, OpenIsServed
        <3> QED BY <3>2, <3>3, <3>4, <3>5, <3>6 DEF IInv
    <2> QED BY <2>1, <2>2
<1>5. ASSUME NEW o \in Objects, ServerCloses(o) PROVE IInv'
    <2>1. o = server
        BY <1>5 DEF ServerCloses, IInv, FieldIsLive
    <2>2. extension \in {"active", "deactivating"}
        BY <2>1 DEF IInv, TypeOK, Objects
    <2>3. waiting \in SUBSET Callers
        BY DEF IInv, TypeOK
    <2>4. extension = "deactivating" => "deactivate" \in waiting
        BY DEF IInv, WaitingCloses
    <2> QED BY <1>5, <2>2, <2>3, <2>4, ClosedKeeps DEF ServerCloses
<1>6. ASSUME NEW p \in Ports, ChangeSetting(p) PROVE IInv'
    BY <1>6 DEF ChangeSetting, requests, IInv, TypeOK, NoLostServer, FieldIsLive,
                WaitingCloses, OpenIsServed, isRunning
<1>7. ASSUME NEW c \in Connections, NEW n \in Servers, Connect(c, n) PROVE IInv'
    <2>1. TypeOK'
        <3>1. n \in 0 .. MaxServers
            BY ConstantsAssumption DEF Servers
        <3> QED BY <1>7, <3>1 DEF Connect, lifecycle, IInv, TypeOK
    <2>2. OpenIsServed'
        BY <1>7 DEF Connect, lifecycle, IInv, TypeOK, OpenIsServed
    <2> QED BY <1>7, <2>1, <2>2, RequestsKeep DEF Connect
<1>8. ASSUME NEW c \in Connections, RequestStep(c) PROVE IInv'
    <2>1. UNCHANGED lifecycle /\ at' = at
        BY <1>8 DEF RequestStep, Receive, BodyEnds, BodyFails, Handled, ClientAborts,
                    IdleCloses
    <2>2. TypeOK'
        BY <1>8, <2>1
           DEF RequestStep, Receive, BodyEnds, BodyFails, Handled, ClientAborts, IdleCloses,
               lifecycle, IInv, TypeOK
    <2>3. \A d \in Connections : open'[d] => open[d]
        BY <1>8, OpenOnlyEnds DEF IInv
    <2>4. OpenIsServed'
        BY <2>1, <2>3 DEF lifecycle, IInv, OpenIsServed
    <2> QED BY <2>1, <2>2, <2>4, RequestsKeep
<1>9. CASE UNCHANGED vars
    BY <1>9 DEF vars, IInv, TypeOK, NoLostServer, FieldIsLive, WaitingCloses,
                OpenIsServed, isRunning
<1> QED
    BY <1>1, <1>2, <1>3, <1>4, <1>5, <1>6, <1>7, <1>8, <1>9 DEF Next, RequestStep

LEMMA Inductive == Spec => []IInv
BY InitIInv, StepIInv, PTL DEF Spec

-----------------------------------------------------------------------------
\* The type invariant, server being an object exactly while the extension is active.
THEOREM TypeCorrect == Spec => []TypeOK
<1>1. IInv => TypeOK
    BY DEF IInv
<1> QED BY Inductive, <1>1, PTL

\* Every server that holds a port is the one that the extension would stop.
THEOREM NoServerIsLost == Spec => []NoLostServer
<1>1. IInv => NoLostServer
    BY DEF IInv
<1> QED BY Inductive, <1>1, PTL

\* After deactivate() nobody is connected any more, and no stop() is awaited.
THEOREM DeactivateWaits == Spec => []DeactivatedIsQuiet
<1>1. IInv => DeactivatedIsQuiet
    <2> SUFFICES ASSUME IInv, extension = "inactive"
                 PROVE  waiting = {} /\ \A c \in Connections : ~open[c]
        BY DEF DeactivatedIsQuiet
    <2>1. server = 0
        BY DEF IInv, TypeOK
    <2>2. \A n \in Servers : phase[n] \notin Live
        BY <2>1 DEF IInv, NoLostServer, Live
    <2> QED BY <2>1, <2>2 DEF IInv, WaitingCloses, isRunning, OpenIsServed, Live, TypeOK
<1> QED BY Inductive, <1>1, PTL

\* When a stop() resolves, nothing is running and nothing is half closed.
THEOREM StopMeansStopped == Spec => StoppedMeansClosed
<1>1. ASSUME IInv, IInv', [Next]_vars, NEW u \in Callers, u \in waiting, u \notin waiting'
      PROVE  ~isRunning' /\ \A n \in Servers : phase'[n] # "closing"
    <2>1. PICK o \in Objects, callers \in SUBSET Callers :
             field[o] # 0 /\ Closed(o, field[o], callers)
        <3>1. ASSUME NEW v \in Callers, isRunning, Stop(server, v), v = "deactivate" \/ v \in Users
              PROVE  Closed(server, field[server], waiting \cup {v})
            BY <1>1, <3>1 DEF Stop
        <3>2. isRunning => server \in Objects /\ field[server] # 0
            BY <1>1 DEF isRunning, IInv, TypeOK
        <3>3. \A v \in Callers : waiting \cup {v} \in SUBSET Callers
            BY <1>1 DEF IInv, TypeOK
        <3>4. CASE \E v \in Users : StopCommand(v)
            BY <3>1, <3>2, <3>3, <3>4 DEF StopCommand, Callers
        <3>5. CASE Deactivate
            BY <1>1, <3>1, <3>2, <3>3, <3>5 DEF Deactivate, Callers
        <3>6. CASE \E o \in Objects : ServerCloses(o)
            BY <1>1, <3>6 DEF ServerCloses, IInv, TypeOK
        <3>7. CASE \/ Activate \/ StartCommand \/ \E p \in Ports : ChangeSetting(p)
                   \/ \E c \in Connections, n \in Servers : Connect(c, n)
                   \/ \E c \in Connections : RequestStep(c)
                   \/ UNCHANGED vars
            BY <1>1, <3>7 DEF Activate, StartCommand, ChangeSetting, Connect, RequestStep,
                Receive, BodyEnds, BodyFails, Handled, ClientAborts, IdleCloses, lifecycle, vars
        <3> QED BY <1>1, <3>4, <3>5, <3>6, <3>7 DEF Next, RequestStep
    <2>2. /\ field[o] \in Servers
          /\ \A m \in Servers : phase[m] \in Live => m = field[o]
          /\ \A p \in Objects : p # o => field[p] = 0
        BY <1>1, <2>1 DEF IInv, TypeOK, NoLostServer, FieldIsLive, Servers, Live
    <2>3. field' = [field EXCEPT ![o] = 0] /\ phase' = [phase EXCEPT ![field[o]] = "closed"]
        BY <2>1 DEF Closed
    <2>4. \A p \in Objects : field'[p] = 0
        BY <1>1, <2>2, <2>3 DEF IInv, TypeOK
    <2>5. server' # 0 => server' \in Objects
        BY <1>1 DEF IInv, TypeOK
    <2> QED BY <1>1, <2>2, <2>3, <2>4, <2>5 DEF isRunning, IInv, TypeOK, Live
<1>2. IInv /\ IInv' /\ [Next]_vars
        => [\A u \in Callers : u \in waiting /\ u \notin waiting'
              => ~isRunning' /\ \A n \in Servers : phase'[n] # "closing"]_vars
    BY <1>1
<1> QED BY Inductive, <1>2, PTL DEF Spec, StoppedMeansClosed

\* A connection that nobody has made yet is closed and has brought no request.
UnmadeIsNew == \A c \in Connections : at[c] = 0 => ~open[c] /\ handler[c] = "none"

LEMMA ConnectionsUntouched ==
    ASSUME \/ Activate \/ StartCommand \/ \E u \in Users : StopCommand(u)
           \/ Deactivate \/ \E o \in Objects : ServerCloses(o)
           \/ \E p \in Ports : ChangeSetting(p)
           \/ UNCHANGED vars
    PROVE  UNCHANGED requests
BY DEF Activate, StartCommand, StopCommand, Deactivate, ServerCloses, ChangeSetting, vars, requests

\* A request that is over has been answered, or its connection has ended, for every
\* request of a connection that is kept alive (HttpServer.ts:197-262).
THEOREM RequestsAreAnswered == Spec => []AnsweredOrGone
<1> DEFINE Answered == AnsweredOrGone /\ UnmadeIsNew
<1>1. Init => Answered
    BY DEF Init, AnsweredOrGone, UnmadeIsNew
<1>2. ASSUME TypeOK, Answered, [Next]_vars PROVE Answered'
    <2>1. CASE UNCHANGED requests
        BY <1>2, <2>1 DEF requests, AnsweredOrGone, UnmadeIsNew
    <2>2. ASSUME NEW c \in Connections, NEW n \in Servers, Connect(c, n)
          PROVE  Answered'
        <3>1. n # 0 /\ handler[c] = "none" /\ handler' = handler /\ answer' = answer
            BY <1>2, <2>2, ConstantsAssumption DEF Connect, UnmadeIsNew, Servers
        <3>2. \A d \in Connections : d # c => at'[d] = at[d] /\ open'[d] = open[d]
            BY <1>2, <2>2 DEF Connect, TypeOK
        <3>3. at'[c] = n
            BY <1>2, <2>2 DEF Connect, TypeOK
        <3> QED BY <1>2, <3>1, <3>2, <3>3 DEF AnsweredOrGone, UnmadeIsNew
    <2>3. ASSUME NEW c \in Connections, RequestStep(c) PROVE Answered'
        <3>1. at[c] # 0 /\ at' = at
            BY <1>2, <2>3
               DEF RequestStep, Receive, BodyEnds, BodyFails, Handled, ClientAborts,
                   IdleCloses, UnmadeIsNew
        <3>2. /\ \A d \in Connections :
                    d # c => handler'[d] = handler[d] /\ open'[d] = open[d]
                             /\ answer'[d] = answer[d]
              /\ handler'[c] = "done" /\ open'[c] => answer'[c] # "none"
            BY <1>2, <2>3
               DEF RequestStep, Receive, BodyEnds, BodyFails, Handled, ClientAborts,
                   IdleCloses, TypeOK, AnsweredOrGone
        <3> QED BY <1>2, <3>1, <3>2 DEF AnsweredOrGone, UnmadeIsNew
    <2> HIDE DEF Answered
    <2> QED
        <3>1. Next \/ UNCHANGED vars
            BY <1>2
        <3> QED BY <2>1, <2>2, <2>3, <3>1, ConnectionsUntouched DEF Next, RequestStep
<1>3. Answered => AnsweredOrGone
    OBVIOUS
<1> HIDE DEF Answered
<1> QED BY <1>1, <1>2, <1>3, TypeCorrect, PTL DEF Spec

-----------------------------------------------------------------------------
(* What StopSettles rests on besides fairness and clients that leave. *)

\* HttpServer.ts:138-148: whoever awaits a stop() awaits the server that the extension
\* holds, and that server closes.
THEOREM StopCanGoOn == Spec => []StopIsUnderWay
<1>1. IInv => StopIsUnderWay
    BY DEF IInv, WaitingCloses, isRunning, StopIsUnderWay
<1> QED BY <1>1, Inductive, PTL

\* HttpServer.ts:138-148, 197-302: a server that closes only loses connections, is closed
\* when none is left, and never listens again.
THEOREM ClosingGoesOn == Spec => ClosingOnlyEmpties
<1> DEFINE Empties ==
        /\ \A n \in Servers :
             phase[n] = "closing" =>
                 /\ Connected(n)' \subseteq Connected(n)
                 /\ phase'[n] \in {"closing", "closed"}
                 /\ phase'[n] = "closed" => Connected(n) = {}
        /\ \A c \in Connections :
             at[c] # 0 => at'[c] = at[c] /\ (open'[c] => open[c])
<1>1. ASSUME IInv, Next PROVE Empties
    <2>1. CASE UNCHANGED phase
        <3>1. ASSUME NEW c \in Connections, NEW n \in Servers, Connect(c, n)
              PROVE  Empties
            <4>1. /\ n # 0 /\ at[c] = 0 /\ phase[n] = "listening"
                  /\ at'[c] = n
                  /\ \A d \in Connections : d # c => at'[d] = at[d] /\ open'[d] = open[d]
                BY <1>1, <3>1, ConstantsAssumption DEF Connect, IInv, TypeOK, Servers
            <4> QED BY <1>1, <2>1, <4>1 DEF Connected
        <3>2. ASSUME NEW c \in Connections, RequestStep(c)
              PROVE  Empties
            BY <1>1, <2>1, <3>2, OpenOnlyEnds DEF IInv, Connected
        <3>3. CASE UNCHANGED requests
            BY <2>1, <3>3 DEF requests, Connected
        <3> HIDE DEF Empties
        <3> QED BY <1>1, <3>1, <3>2, <3>3, ConnectionsUntouched DEF Next, RequestStep
    <2>2. ASSUME UNCHANGED requests, NEW o \in Objects, NEW callers, field[o] # 0,
                 Closed(o, field[o], callers), Connected(field[o]) = {}
          PROVE  Empties
        <3>1. phase' = [phase EXCEPT ![field[o]] = "closed"] /\ Connected(field[o]) = {}
            BY <2>2 DEF Closed
        <3> QED BY <1>1, <2>2, <3>1 DEF requests, Connected, IInv, TypeOK
    <2>3. ASSUME isRunning, NEW u, Stop(server, u), UNCHANGED requests
          PROVE  Empties
        <3>1. server \in Objects /\ field[server] # 0
            BY <1>1, <2>3 DEF isRunning, IInv, TypeOK
        <3>2. CASE Connected(field[server]) = {}
            BY <2>2, <2>3, <3>1, <3>2 DEF Stop
        <3>3. CASE Connected(field[server]) # {}
            <4>1. phase' = [phase EXCEPT ![field[server]] = "closing"]
                BY <2>3, <3>3 DEF Stop
            <4> QED BY <1>1, <2>3, <4>1 DEF requests, Connected, IInv, TypeOK
        <3> QED BY <3>2, <3>3
    <2>4. CASE (\E u \in Users : StopCommand(u)) \/ (Deactivate /\ isRunning)
        BY <2>3, <2>4 DEF StopCommand, Deactivate
    <2>5. ASSUME NEW o \in Objects, ServerCloses(o) PROVE Empties
        BY <2>2, <2>5 DEF ServerCloses
    <2>6. ASSUME NEW o, NEW p, Start(o, p), UNCHANGED requests PROVE Empties
        <3>1. \A n \in Servers : phase[n] = "closing" => phase'[n] = "closing"
            BY <1>1, <2>6 DEF Start, Fresh, IInv, TypeOK
        <3> QED BY <2>6, <3>1 DEF requests, Connected
    <2>7. CASE Activate \/ StartCommand
        BY <2>6, <2>7 DEF Activate, StartCommand
    <2>8. \/ UNCHANGED phase
          \/ (\E u \in Users : StopCommand(u)) \/ (Deactivate /\ isRunning)
          \/ \E o \in Objects : ServerCloses(o)
          \/ Activate \/ StartCommand
        BY <1>1 DEF Next, Deactivate, ChangeSetting, Connect, Receive, BodyEnds, BodyFails,
                    Handled, ClientAborts, IdleCloses, lifecycle
    <2> HIDE DEF Empties
    <2> QED BY <2>1, <2>4, <2>5, <2>7, <2>8
<1> HIDE DEF Empties
<1>2. IInv /\ [Next]_vars => [Empties]_vars
    BY <1>1
<1>3. [][Empties]_vars => ClosingOnlyEmpties
    BY PTL DEF ClosingOnlyEmpties, Empties
<1> QED BY <1>2, <1>3, Inductive, PTL DEF Spec
=============================================================================
