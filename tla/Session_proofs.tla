--------------------------- MODULE Session_proofs ---------------------------
(***************************************************************************)
(* Proofs about Session, for every number of sessions, types, backends and *)
(* GDB processes: the type invariant, that neither the sessions' nor the   *)
(* HTTP front's requests can lose a GDB or reach a released backend, that  *)
(* VS Code's view of a program is true, and that a session whose GDB was   *)
(* terminated under it is never stuck.                                     *)
(***************************************************************************)
EXTENDS Session, TLAPS

SessionRecords ==
    [phase : Phases,
     kind : {"launch", "attach"}, backend : Backends \cup {0},
     awaits : Gdbs \cup {0}, isRunning : BOOLEAN,
     releasing : Requests \cup {"no"}, clears : BOOLEAN]

ManagerOK ==
    /\ cached \in [Keys -> Backends \cup {0}] /\ current \in Backends \cup {0}

BackendOK ==
    /\ mi2 \in [Backends -> Gdbs \cup {0}]
    /\ listeners \in [Backends -> SUBSET Sessions]
    /\ owner \in [Gdbs -> Backends \cup {0}]

FrontOK ==
    /\ session \in [Sessions -> SessionRecords]
    /\ view \in [Sessions -> [last : {"none", "running", "stopped"}, ended : BOOLEAN]]

ProgramOK ==
    /\ target \in [Gdbs -> {"none", "running", "stopped", "exited"}]
    /\ out \in [Gdbs -> Seq(Events)]

ProcessOK ==
    /\ gdb \in [Gdbs -> {"unused", "alive", "failed", "dead"}]
    /\ killed \subseteq Gdbs /\ exitSeen \subseteq Gdbs
    /\ ProgramOK

Types == ManagerOK /\ BackendOK /\ FrontOK /\ ProcessOK

\* While a release awaits, the current backend may have left the cache; the session
\* that awaits will then unset it.
CurrentHeld ==
    current # 0 =>
        \/ \E k \in Keys : cached[k] = current
        \/ \E s \in Sessions : session[s].releasing # "no" /\ session[s].clears

IInv == Types /\ GdbIsCached /\ CurrentHeld

-----------------------------------------------------------------------------
(* What the shared parts of the actions do to the types. *)

LEMMA NumbersAreNotZero == 0 \notin Backends /\ 0 \notin Gdbs
BY DEF Backends, Gdbs

LEMMA DoesType ==
    ASSUME ProgramOK, NEW g \in Gdbs, NEW lines \in Seq(Events),
           NEW becomes \in {"none", "running", "stopped", "exited"}, Does(g, lines, becomes)
    PROVE  ProgramOK'
<1>1. out[g] \o lines \in Seq(Events)
  BY DEF ProgramOK
<1> QED
  BY <1>1 DEF ProgramOK, Does

LEMMA LinesType ==
    /\ <<"running">> \in Seq(Events) /\ <<"stopped">> \in Seq(Events)
    /\ <<"exited", "running">> \in Seq(Events) /\ <<"exited", "stopped">> \in Seq(Events)
BY DEF Events

LEMMA SendType ==
    ASSUME ProgramOK, NEW g \in Gdbs \cup {0}, NEW command, Send(g, command)
    PROVE  ProgramOK'
<1>1. CASE UNCHANGED <<target, out>>
  BY <1>1 DEF ProgramOK
<1>2. CASE ~UNCHANGED <<target, out>>
  <2>1. g \in Gdbs
    BY <1>2 DEF Send
  <2>2. PICK lines \in {<<"running">>, <<"exited", "running">>, <<"stopped">>},
             becomes \in {"running", "stopped"} : Does(g, lines, becomes)
    BY <1>2 DEF Send
  <2>3. lines \in Seq(Events)
    BY LinesType
  <2> QED
    BY <2>1, <2>2, <2>3, DoesType
<1> QED
  BY <1>1, <1>2

LEMMA CreateType ==
    ASSUME Types, NEW key \in Keys, NEW b \in Backends, NEW g \in Gdbs,
           CreateBackend(key, b, g)
    PROVE  /\ ManagerOK'
           /\ mi2' \in [Backends -> Gdbs \cup {0}]
           /\ owner' \in [Gdbs -> Backends \cup {0}]
           /\ gdb' \in [Gdbs -> {"unused", "alive", "failed", "dead"}]
BY DEF Types, ManagerOK, BackendOK, ProcessOK, CreateBackend

LEMMA PhaseType == \A phase \in {"none", "initializing", "launching", "ready", "configured",
                                 "restarted", "failed", "closed"} : phase \in Phases
BY DEF Phases

\* The record of one session changes to another record.
LEMMA SessionType ==
    ASSUME FrontOK, NEW s \in Sessions, NEW r \in SessionRecords,
           session' = [session EXCEPT ![s] = r]
    PROVE  /\ session' \in [Sessions -> SessionRecords]
           /\ session'[s] = r
           /\ \A t \in Sessions \ {s} : session'[t] = session[t]
BY DEF FrontOK

\* A new GDB belongs to a backend in the cache.
LEMMA CreateCached ==
    ASSUME Types, GdbIsCached, NEW key \in Keys, NEW b \in Backends, NEW g \in Gdbs,
           CreateBackend(key, b, g)
    PROVE  GdbIsCached' /\ CurrentHeld'
<1>1. cached'[key] = b /\ current' = b
  BY DEF Types, ManagerOK, CreateBackend
<1>2. CurrentHeld'
  BY <1>1 DEF CurrentHeld
<1>3. ASSUME NEW c \in Backends, mi2'[c] # 0
      PROVE  \E k \in Keys : cached'[k] = c
  <2>1. CASE c = b
    BY <1>1, <2>1
  <2>2. CASE c # b
    <3>1. mi2[c] # 0
      BY <1>3, <2>2 DEF Types, BackendOK, CreateBackend
    <3>2. PICK k \in Keys : cached[k] = c
      BY <3>1 DEF GdbIsCached
    <3>3. k # key
      BY <2>2, <3>2, NumbersAreNotZero DEF CreateBackend
    <3> QED
      BY <3>2, <3>3 DEF Types, ManagerOK, CreateBackend
  <2> QED
    BY <2>1, <2>2
<1> QED
  BY <1>2, <1>3 DEF GdbIsCached

LEMMA TerminateType ==
    ASSUME Types, NEW b \in Backends, Terminate(b)
    PROVE  /\ mi2' \in [Backends -> Gdbs \cup {0}] /\ killed' \subseteq Gdbs
           /\ \A c \in Backends : mi2'[c] # 0 => mi2[c] # 0 /\ c # b
BY DEF Types, BackendOK, ProcessOK, Terminate

LEMMA ReleaseType ==
    ASSUME Types, GdbIsCached, NEW s \in Sessions, ReleaseBackend(s)
    PROVE  /\ cached' \in [Keys -> Backends \cup {0}]
           /\ mi2' \in [Backends -> Gdbs \cup {0}] /\ killed' \subseteq Gdbs
           /\ GdbIsCached'
<1>1. CASE current = 0
  BY <1>1 DEF ReleaseBackend, Types, ManagerOK, BackendOK, ProcessOK, GdbIsCached
<1>2. CASE current # 0
  <2>1. current \in Backends /\ Terminate(current)
        /\ cached' = [k \in Keys |-> IF cached[k] = current THEN 0 ELSE cached[k]]
    BY <1>2 DEF ReleaseBackend, Types, ManagerOK
  <2>2. cached' \in [Keys -> Backends \cup {0}]
    BY <2>1 DEF Types, ManagerOK
  <2>3. ASSUME NEW c \in Backends, mi2'[c] # 0
        PROVE  \E k \in Keys : cached'[k] = c
    <3>1. mi2[c] # 0 /\ c # current
      BY <2>1, <2>3, TerminateType
    <3>2. PICK k \in Keys : cached[k] = c
      BY <3>1 DEF GdbIsCached
    <3> QED
      BY <2>1, <3>1, <3>2
  <2> QED
    BY <2>1, <2>2, <2>3, TerminateType DEF GdbIsCached
<1> QED
  BY <1>1, <1>2

LEMMA EmitType ==
    ASSUME FrontOK, NEW g \in Gdbs, NEW event \in Events, Emit(g, event)
    PROVE  /\ FrontOK'
           /\ \A s \in Sessions : /\ session'[s].releasing = session[s].releasing
                                  /\ session'[s].clears = session[s].clears
<1>1. \A v \in [last : {"none", "running", "stopped"}, ended : BOOLEAN] :
          Told(v, event) \in [last : {"none", "running", "stopped"}, ended : BOOLEAN]
  BY DEF Told, Events
<1>2. view' \in [Sessions -> [last : {"none", "running", "stopped"}, ended : BOOLEAN]]
  BY <1>1 DEF Emit, FrontOK
<1>3. ASSUME NEW s \in Sessions
      PROVE  /\ session'[s] \in SessionRecords
             /\ session'[s].releasing = session[s].releasing
             /\ session'[s].clears = session[s].clears
  <2>1. session[s] \in SessionRecords /\ (event = "running") \in BOOLEAN
    BY DEF FrontOK
  <2>2. \/ session'[s] = [session[s] EXCEPT !.isRunning = (event = "running")]
        \/ session'[s] = session[s]
    BY DEF Emit
  <2> QED
    BY <2>1, <2>2 DEF SessionRecords
<1>4. session' \in [Sessions -> SessionRecords]
  BY <1>3 DEF Emit
<1> QED
  BY <1>2, <1>3, <1>4 DEF FrontOK

\* What sessions do without the manager keeps the current backend held.
LEMMA HeldAlone ==
    ASSUME CurrentHeld, UNCHANGED manager,
           \A s \in Sessions : /\ session'[s].releasing = session[s].releasing
                               /\ session'[s].clears = session[s].clears
    PROVE  CurrentHeld'
BY DEF CurrentHeld, manager

LEMMA FinishType ==
    ASSUME Types, NEW s \in Sessions, NEW request \in Requests, Finish(s, request)
    PROVE  /\ FrontOK'
           /\ \A r \in Sessions \ {s} : session'[r] = session[r]
<1> DEFINE after == [session[s] EXCEPT
                        !.backend = 0, !.releasing = "no", !.clears = FALSE,
                        !.phase = IF request = "disconnect" THEN "closed" ELSE session[s].phase,
                        !.awaits = IF request = "disconnect" THEN 0 ELSE session[s].awaits]
<1>1. session[s] \in SessionRecords
  BY DEF Types, FrontOK
<1>2. after \in SessionRecords
  BY <1>1, PhaseType DEF SessionRecords
<1>3. session' = [session EXCEPT ![s] = after]
  BY DEF Finish
<1>4. view' \in [Sessions -> [last : {"none", "running", "stopped"}, ended : BOOLEAN]]
  BY DEF Finish, Types, FrontOK
<1> QED
  BY <1>2, <1>3, <1>4, SessionType DEF Types, FrontOK

LEMMA ChannelType ==
    ASSUME Types, NEW s \in Sessions
    PROVE  Channel(s) \in Gdbs \cup {0}
BY DEF Types, FrontOK, BackendOK, SessionRecords, Channel

-----------------------------------------------------------------------------
(* Initial states and steps. *)

LEMMA InitIInv == Init => IInv
<1> SUFFICES ASSUME Init PROVE IInv
  OBVIOUS
<1>1. [phase |-> "none", kind |-> "launch", backend |-> 0, awaits |-> 0,
       isRunning |-> FALSE, releasing |-> "no", clears |-> FALSE] \in SessionRecords
  BY PhaseType DEF SessionRecords
<1>2. FrontOK
  BY <1>1 DEF Init, FrontOK
<1>3. ManagerOK /\ BackendOK
  BY DEF Init, ManagerOK, BackendOK
<1>4. ProcessOK
  <2>1. <<>> \in Seq(Events)
    OBVIOUS
  <2> QED
    BY <2>1 DEF Init, ProcessOK, ProgramOK
<1> QED
  BY <1>2, <1>3, <1>4 DEF Init, IInv, Types, GdbIsCached, CurrentHeld

LEMMA RequestIInv ==
    ASSUME IInv, NEW s \in Sessions, Request(s)
    PROVE  IInv'
<1> USE DEF IInv
<1>1. ASSUME NEW key \in Keys, NEW kind \in {"launch", "attach"}, Open(s, kind, key)
      PROVE  IInv'
  <2>1. PICK b \in Backends, g \in Gdbs :
            /\ CreateBackend(key, b, g)
            /\ listeners' = IF kind = "launch" THEN SetupBackendEvents(s, b) ELSE listeners
            /\ session' = [session EXCEPT ![s] =
                   [@ EXCEPT !.phase = "initializing", !.kind = kind,
                             !.backend = b, !.awaits = g]]
    BY <1>1, ZenonT(30) DEF Open
  <2>2. session' \in [Sessions -> SessionRecords]
    <3>1. session[s] \in SessionRecords
      BY DEF Types, FrontOK
    <3>2. [session[s] EXCEPT !.phase = "initializing", !.kind = kind,
                             !.backend = b, !.awaits = g] \in SessionRecords
      BY <3>1, PhaseType DEF SessionRecords
    <3> QED
      BY <2>1, <3>2, SessionType DEF Types
  <2>3. listeners' \in [Backends -> SUBSET Sessions]
    BY <2>1 DEF Types, BackendOK, SetupBackendEvents
  <2>4. Types'
    BY <1>1, <2>1, <2>2, <2>3, CreateType
    DEF Open, Types, BackendOK, FrontOK, ProcessOK, ProgramOK
  <2> QED
    BY <2>1, <2>4, CreateCached
<1>2. CASE LaunchRefused(s)
  <2>1. Types'
    <3>1. [session[s] EXCEPT !.phase = "failed"] \in SessionRecords
      BY PhaseType DEF Types, FrontOK, SessionRecords
    <3>2. session' = [session EXCEPT ![s] = [session[s] EXCEPT !.phase = "failed"]]
      BY <1>2 DEF LaunchRefused
    <3>3. session' \in [Sessions -> SessionRecords]
      BY <3>1, <3>2, SessionType DEF Types
    <3> QED
      BY <1>2, <3>3 DEF LaunchRefused, Types, ManagerOK, BackendOK, FrontOK, ProcessOK,
         ProgramOK, manager, backend, process
  <2>2. CurrentHeld'
    BY <1>2, HeldAlone DEF LaunchRefused, Types, FrontOK, SessionRecords
  <2> QED
    BY <1>2, <2>1, <2>2 DEF LaunchRefused, GdbIsCached, manager, backend
<1>3. CASE ConfigurationDone(s)
  <2>1. ProgramOK'
    <3>1. CASE session[s].isRunning
      BY <1>3, <3>1 DEF ConfigurationDone, Types, ProcessOK, ProgramOK
    <3>2. CASE ~session[s].isRunning
      BY <1>3, <3>2, SendType, ChannelType DEF ConfigurationDone, Types, ProcessOK
    <3> QED
      BY <3>1, <3>2
  <2>2. session' \in [Sessions -> SessionRecords]
    <3>1. session[s] \in SessionRecords
      BY DEF Types, FrontOK
    <3>2. [session[s] EXCEPT !.phase = "configured", !.isRunning = FALSE] \in SessionRecords
      BY <3>1, PhaseType DEF SessionRecords
    <3>3. session' = [session EXCEPT ![s] = [session[s] EXCEPT !.phase = "configured", !.isRunning = FALSE]]
      BY <1>3 DEF ConfigurationDone
    <3> QED
      BY <3>2, <3>3, SessionType DEF Types
  <2>3. Types'
    BY <1>3, <2>1, <2>2 DEF ConfigurationDone, Types, ManagerOK, BackendOK, FrontOK, ProcessOK,
       manager, backend
  <2>4. CurrentHeld'
    BY <1>3, HeldAlone DEF ConfigurationDone, Types, FrontOK, SessionRecords
  <2> QED
    BY <1>3, <2>3, <2>4 DEF ConfigurationDone, GdbIsCached, manager, backend
<1>4. CASE Execute(s)
  <2>1. ProgramOK'
    BY <1>4, SendType, ChannelType DEF Execute, Types, ProcessOK
  <2> QED
    BY <1>4, <2>1 DEF Execute, Types, ManagerOK, BackendOK, FrontOK, ProcessOK, GdbIsCached,
       CurrentHeld, manager, backend, front
<1>5. CASE RestartRequest(s)
  <2>1. session[s].backend \in Backends /\ Terminate(session[s].backend)
    BY <1>5 DEF RestartRequest, Types, FrontOK, SessionRecords
  <2>2. session' \in [Sessions -> SessionRecords]
    BY <1>5 DEF RestartRequest, Types, FrontOK, SessionRecords
  <2>3. UNCHANGED manager
    BY <1>5 DEF RestartRequest
  <2>4. Types'
    BY <1>5, <2>1, <2>2, <2>3, TerminateType
    DEF RestartRequest, Types, ManagerOK, BackendOK, FrontOK, ProcessOK, ProgramOK, manager
  <2>5. CurrentHeld'
    BY <1>5, <2>3, HeldAlone DEF RestartRequest, Types, FrontOK, SessionRecords
  <2>6. GdbIsCached'
    BY <2>1, <2>3, TerminateType DEF GdbIsCached, manager
  <2> QED
    BY <2>4, <2>5, <2>6
<1>6. ASSUME NEW request \in Requests, BeginRelease(s, request)
      PROVE  IInv'
  <2>1. session' \in [Sessions -> SessionRecords]
    <3>1. session[s] \in SessionRecords
      BY DEF Types, FrontOK
    <3>2. [session[s] EXCEPT !.releasing = request, !.clears = (current # 0)] \in SessionRecords
      BY <3>1, PhaseType DEF SessionRecords
    <3>3. session' = [session EXCEPT ![s] = [session[s] EXCEPT !.releasing = request, !.clears = (current # 0)]]
      BY <1>6 DEF BeginRelease
    <3> QED
      BY <3>2, <3>3, SessionType DEF Types
  <2>2. Types' /\ GdbIsCached'
    BY <1>6, <2>1, ReleaseType
    DEF BeginRelease, Types, ManagerOK, BackendOK, FrontOK, ProcessOK, ProgramOK
  <2>3. session'[s].releasing = request /\ session'[s].clears = (current # 0)
    BY <1>6 DEF BeginRelease, Types, FrontOK, SessionRecords
  <2>4. request # "no" /\ current' = current
    BY <1>6 DEF Requests, BeginRelease
  <2>5. CurrentHeld'
    BY <2>3, <2>4 DEF CurrentHeld
  <2> QED
    BY <2>2, <2>5
<1>7. ASSUME NEW request \in Requests, EndWithoutBackend(s, request)
      PROVE  IInv'
  <2>1. FrontOK' /\ \A r \in Sessions \ {s} : session'[r] = session[r]
    BY <1>7, FinishType DEF EndWithoutBackend
  <2>3. Types'
    BY <1>7, <2>1 DEF EndWithoutBackend, Types, ManagerOK, BackendOK,
       ProcessOK, ProgramOK, manager, backend, process
  <2>4. CurrentHeld'
    BY <1>7, <2>1 DEF EndWithoutBackend, CurrentHeld, manager
  <2>5. GdbIsCached'
    BY <1>7 DEF EndWithoutBackend, GdbIsCached, manager, backend
  <2> QED
    BY <2>3, <2>4, <2>5
<1> QED
  BY <1>1, <1>2, <1>3, <1>4, <1>5, <1>6, <1>7 DEF Request

LEMMA ContinuationIInv ==
    ASSUME IInv, NEW s \in Sessions, Continuation(s)
    PROVE  IInv'
<1> USE DEF IInv
<1>0. session[s] \in SessionRecords
  BY DEF Types, FrontOK
<1>1. CASE Initialized(s)
  <2>1. ASSUME NEW g \in Gdbs \cup {0}, NEW phase \in {"failed", "launching"},
               session' = [session EXCEPT ![s].phase = phase, ![s].awaits = g]
        PROVE  FrontOK' /\ CurrentHeld'
    <3>1. [session[s] EXCEPT !.phase = phase, !.awaits = g] \in SessionRecords
      BY <1>0, PhaseType DEF SessionRecords
    <3>2. session' = [session EXCEPT ![s] = [session[s] EXCEPT !.phase = phase, !.awaits = g]]
      BY <2>1
    <3>3. session' \in [Sessions -> SessionRecords]
      BY <3>1, <3>2, SessionType DEF Types
    <3>4. CurrentHeld'
      BY <1>1, <3>2, HeldAlone DEF Initialized, Types, FrontOK, SessionRecords
    <3> QED
      BY <1>1, <3>3, <3>4 DEF Initialized, Types, FrontOK
  <2>2. FrontOK' /\ CurrentHeld'
    BY <1>1, <2>1, ChannelType DEF Initialized
  <2>3. ProgramOK'
    <3>1. CASE UNCHANGED <<target, out>>
      BY <3>1 DEF Types, ProcessOK, ProgramOK
    <3>2. CASE ~UNCHANGED <<target, out>>
      BY <1>1, <3>2, SendType, ChannelType DEF Initialized, Types, ProcessOK
    <3> QED
      BY <3>1, <3>2
  <2> QED
    BY <1>1, <2>2, <2>3 DEF Initialized, Types, ManagerOK, BackendOK, ProcessOK, GdbIsCached,
       manager, backend
<1>2. CASE Launched(s) \/ LaunchFails(s)
  <2>1. PICK phase \in {"ready", "failed"} :
            session' = [session EXCEPT ![s] = [session[s] EXCEPT !.phase = phase, !.awaits = 0]]
    BY <1>2 DEF Launched, LaunchFails
  <2>2. [session[s] EXCEPT !.phase = phase, !.awaits = 0] \in SessionRecords
    BY <1>0, PhaseType DEF SessionRecords
  <2>3. session' \in [Sessions -> SessionRecords]
    BY <2>1, <2>2, SessionType DEF Types
  <2>4. UNCHANGED <<manager, backend, view, process>>
    BY <1>2 DEF Launched, LaunchFails
  <2>5. CurrentHeld'
    BY <2>1, <2>4, HeldAlone DEF Types, FrontOK, SessionRecords
  <2> QED
    BY <2>3, <2>4, <2>5 DEF Types, ManagerOK, BackendOK, FrontOK, ProcessOK, ProgramOK,
       GdbIsCached, manager, backend, process
<1>3. CASE EndRelease(s)
  <2>1. session[s].releasing \in Requests
    BY <1>0, <1>3 DEF EndRelease, SessionRecords
  <2>2. FrontOK' /\ \A r \in Sessions \ {s} : session'[r] = session[r]
    BY <1>3, <2>1, FinishType DEF EndRelease
  <2>3. current' = IF session[s].clears THEN 0 ELSE current
    BY <1>3 DEF EndRelease, Released
  <2>4. Types'
    BY <1>3, <2>2, <2>3 DEF EndRelease, Types, ManagerOK, BackendOK, ProcessOK, ProgramOK,
       backend, process
  <2>5. CurrentHeld'
    BY <1>3, <2>2, <2>3 DEF EndRelease, CurrentHeld
  <2> QED
    BY <1>3, <2>4, <2>5 DEF EndRelease, GdbIsCached, backend
<1> QED
  BY <1>1, <1>2, <1>3 DEF Continuation

LEMMA HttpIInv ==
    ASSUME IInv, Http
    PROVE  IInv'
<1> USE DEF IInv
<1>1. ASSUME NEW key \in Keys, HandleCreateDebugger(key)
      PROVE  IInv'
  <2>1. PICK b \in Backends, g \in Gdbs : CreateBackend(key, b, g)
    BY <1>1 DEF HandleCreateDebugger
  <2>2. Types'
    BY <1>1, <2>1, CreateType
    DEF HandleCreateDebugger, Types, BackendOK, FrontOK, ProcessOK, ProgramOK, front
  <2> QED
    BY <2>1, <2>2, CreateCached
<1>2. CASE HttpTerminate
  <2>1. current \in Backends /\ Terminate(current)
    BY <1>2 DEF HttpTerminate, Types, ManagerOK
  <2>2. Types'
    BY <1>2, <2>1, TerminateType DEF HttpTerminate, Types, ManagerOK, BackendOK, FrontOK,
       ProcessOK, ProgramOK, manager, front
  <2>3. GdbIsCached'
    BY <1>2, <2>1, TerminateType DEF HttpTerminate, GdbIsCached, manager
  <2> QED
    BY <1>2, <2>2, <2>3 DEF HttpTerminate, CurrentHeld, manager, front
<1>3. ASSUME NEW command \in Commands, HttpExecute(command)
      PROVE  IInv'
  <2>1. mi2[current] \in Gdbs \cup {0}
    BY <1>3 DEF HttpExecute, Types, ManagerOK, BackendOK
  <2>2. ProgramOK'
    BY <1>3, <2>1, SendType DEF HttpExecute, Types, ProcessOK
  <2> QED
    BY <1>3, <2>2 DEF HttpExecute, Types, ManagerOK, BackendOK, FrontOK, ProcessOK, GdbIsCached,
       CurrentHeld, manager, backend, front
<1> QED
  BY <1>1, <1>2, <1>3 DEF Http

LEMMA EventIInv ==
    ASSUME IInv, NEW g \in Gdbs, HandleLine(g) \/ HandleExit(g) \/ ProgramStops(g) \/ Dies(g)
    PROVE  IInv'
<1> USE DEF IInv
<1>1. CASE HandleLine(g)
  <2>1. Head(out[g]) \in Events /\ Tail(out[g]) \in Seq(Events)
    BY <1>1 DEF HandleLine, Types, ProcessOK, ProgramOK
  <2>2. FrontOK' /\ CurrentHeld'
    BY <1>1, <2>1, EmitType, HeldAlone DEF HandleLine, Types
  <2>3. ProgramOK'
    BY <1>1, <2>1 DEF HandleLine, Types, ProcessOK, ProgramOK
  <2> QED
    BY <1>1, <2>2, <2>3 DEF HandleLine, Types, ManagerOK, BackendOK, ProcessOK, GdbIsCached,
       manager, backend
<1>2. CASE HandleExit(g)
  <2>1. FrontOK' /\ CurrentHeld'
    BY <1>2, EmitType, HeldAlone DEF HandleExit, Types, Events
  <2> QED
    BY <1>2, <2>1 DEF HandleExit, Types, ManagerOK, BackendOK, ProcessOK, ProgramOK,
       GdbIsCached, manager, backend
<1>3. CASE ProgramStops(g)
  <2>1. ProgramOK'
    BY <1>3, LinesType, DoesType DEF ProgramStops, Types, ProcessOK
  <2> QED
    BY <1>3, <2>1 DEF ProgramStops, Types, ManagerOK, BackendOK, FrontOK, ProcessOK,
       GdbIsCached, CurrentHeld, manager, backend, front
<1>4. CASE Dies(g)
  BY <1>4 DEF Dies, Types, ManagerOK, BackendOK, FrontOK, ProcessOK, ProgramOK, GdbIsCached,
     CurrentHeld, manager, backend, front
<1> QED
  BY <1>1, <1>2, <1>3, <1>4

LEMMA NextIInv == IInv /\ [Next]_vars => IInv'
<1> SUFFICES ASSUME IInv, [Next]_vars PROVE IInv'
  OBVIOUS
<1>1. CASE UNCHANGED vars
  BY <1>1 DEF IInv, Types, ManagerOK, BackendOK, FrontOK, ProcessOK, ProgramOK, GdbIsCached,
     CurrentHeld, vars, manager, backend, front, process
<1> QED
  BY <1>1, RequestIInv, ContinuationIInv, HttpIInv, EventIInv DEF Next

-----------------------------------------------------------------------------
(* What VS Code was told.  A session that listens is told every line that is
   read, so what it was told and what is unread together give the state of the
   program.  That takes for granted that a GDB that was not started has nothing
   to tell, that a session listens to one backend, and to none before that
   backend has a GDB: it misses no line of the only GDB that its backend had. *)

GdbsOwned ==
    \A g \in Gdbs :
        IF gdb[g] = "unused"
        THEN owner[g] = 0 /\ target[g] = "none" /\ out[g] = <<>> /\ g \notin exitSeen
        ELSE owner[g] # 0

Newcomers ==
    \A s \in Sessions : session[s].phase = "none" =>
        view[s].last = "none" /\ \A b \in Backends : s \notin listeners[b]

ListensToOne ==
    \A s \in Sessions, b, c \in Backends :
        s \in listeners[b] /\ s \in listeners[c] => b = c

HeardGdb ==
    \A b \in Backends : listeners[b] # {} => \E g \in Gdbs : owner[g] = b

LastLineIsTrue ==
    \A g \in Gdbs : out[g] # <<>> => out[g][Len(out[g])] = Shown[target[g]]

ToldOf(g, s) ==
    /\ out[g] = <<>> => view[s].last = Shown[target[g]]
    /\ target[g] = "exited" =>
           view[s].ended \/ \E i \in DOMAIN out[g] : out[g][i] = "exited"
    /\ g \in exitSeen => view[s].ended

ToldSoFar ==
    \A g \in Gdbs, s \in Sessions :
        OnlyGdb(g) /\ s \in listeners[owner[g]] => ToldOf(g, s)

Listening == GdbsOwned /\ Newcomers /\ ListensToOne /\ HeardGdb

Telling == Listening /\ LastLineIsTrue /\ ToldSoFar

LEMMA Joined ==
    ASSUME NEW S, NEW a \in Seq(S), NEW b \in Seq(S), b # <<>>
    PROVE  /\ a \o b # <<>> /\ (a \o b)[Len(a \o b)] = b[Len(b)]
           /\ \A i \in DOMAIN b : (a \o b)[Len(a) + i] = b[i] /\ Len(a) + i \in DOMAIN (a \o b)
<1>1. Len(a) \in Nat /\ Len(b) \in Nat /\ Len(b) > 0
  OBVIOUS
<1>2. Len(a \o b) = Len(a) + Len(b)
  OBVIOUS
<1>3. \A i \in 1..Len(a) + Len(b) : (a \o b)[i] = IF i <= Len(a) THEN a[i] ELSE b[i - Len(a)]
  OBVIOUS
<1>4. DOMAIN b = 1..Len(b) /\ DOMAIN (a \o b) = 1..Len(a) + Len(b)
  OBVIOUS
<1>5. \A i \in DOMAIN b : (a \o b)[Len(a) + i] = b[i] /\ Len(a) + i \in DOMAIN (a \o b)
  BY <1>1, <1>3, <1>4
<1>6. Len(b) \in DOMAIN b
  BY <1>1, <1>4
<1> QED
  BY <1>1, <1>2, <1>5, <1>6

LEMMA Unread ==
    ASSUME NEW S, NEW a \in Seq(S), a # <<>>
    PROVE  /\ Tail(a) = <<>> => Len(a) = 1
           /\ Tail(a) # <<>> => Tail(a)[Len(Tail(a))] = a[Len(a)]
           /\ Head(a) = a[1]
           /\ \A i \in DOMAIN a : i # 1 => Tail(a)[i - 1] = a[i] /\ i - 1 \in DOMAIN Tail(a)
<1>1. Len(a) \in Nat /\ Len(a) > 0 /\ DOMAIN a = 1..Len(a)
  OBVIOUS
<1>2. Len(Tail(a)) = Len(a) - 1 /\ DOMAIN Tail(a) = 1..Len(a) - 1 /\ Tail(a) \in Seq(S)
  BY <1>1
<1>3. \A i \in 1..Len(a) - 1 : Tail(a)[i] = a[i + 1]
  BY <1>1
<1>4. \A i \in DOMAIN a : i # 1 => Tail(a)[i - 1] = a[i] /\ i - 1 \in DOMAIN Tail(a)
  BY <1>1, <1>2, <1>3
<1>5. Tail(a) # <<>> => Tail(a)[Len(Tail(a))] = a[Len(a)]
  <2>1. Tail(a) # <<>> => Len(a) - 1 > 0
    BY <1>1, <1>2
  <2> QED
    BY <1>1, <1>2, <1>3, <2>1
<1> QED
  BY <1>1, <1>2, <1>4, <1>5

\* What GDB reports when its program changes ends with the new state.
LEMMA DoesTells ==
    ASSUME Types, Telling, NEW g \in Gdbs, NEW lines \in Seq(Events), lines # <<>>,
           NEW becomes \in {"running", "stopped", "exited"},
           lines[Len(lines)] = Shown[becomes],
           becomes = "exited" => \E i \in DOMAIN lines : lines[i] = "exited",
           gdb[g] # "unused", Does(g, lines, becomes),
           UNCHANGED <<listeners, owner, view, gdb, exitSeen>>
    PROVE  GdbsOwned' /\ LastLineIsTrue' /\ ToldSoFar'
<1> DEFINE all == out[g] \o lines
<1>1. /\ out' = [out EXCEPT ![g] = all] /\ target' = [target EXCEPT ![g] = becomes]
      /\ out \in [Gdbs -> Seq(Events)]
      /\ target \in [Gdbs -> {"none", "running", "stopped", "exited"}]
  BY DEF Does, Types, ProcessOK, ProgramOK
<1>2. out'[g] = all /\ target'[g] = becomes
  BY <1>1
<1>3. \A h \in Gdbs : h # g => out'[h] = out[h] /\ target'[h] = target[h]
  BY <1>1
<1>4. out[g] \in Seq(Events) /\ Len(lines) \in Nat /\ Len(lines) > 0
  BY <1>1
<1>5. /\ all # <<>> /\ all[Len(all)] = lines[Len(lines)]
      /\ \A i \in DOMAIN lines : all[Len(out[g]) + i] = lines[i]
                                 /\ Len(out[g]) + i \in DOMAIN all
  BY <1>4, Joined
<1>6. GdbsOwned'
  BY <1>3 DEF Telling, Listening, GdbsOwned
<1>7. LastLineIsTrue'
  <2> SUFFICES ASSUME NEW h \in Gdbs, out'[h] # <<>>
               PROVE  out'[h][Len(out'[h])] = Shown[target'[h]]
    BY DEF LastLineIsTrue
  <2>1. CASE h = g
    BY <1>2, <1>5, <2>1
  <2>2. CASE h # g
    BY <1>3, <2>2 DEF Telling, LastLineIsTrue
  <2> QED
    BY <2>1, <2>2
<1>8. ASSUME NEW h \in Gdbs, NEW s \in Sessions, OnlyGdb(h)', (s \in listeners[owner[h]])'
      PROVE  ToldOf(h, s)'
  <2>1. ToldOf(h, s)
    BY <1>8 DEF Telling, ToldSoFar, OnlyGdb
  <2>2. CASE h # g
    BY <1>3, <2>1, <2>2 DEF ToldOf
  <2>3. CASE h = g
    <3>1. becomes = "exited" => \E i \in DOMAIN all : all[i] = "exited"
      BY <1>5
    <3> HIDE DEF all
    <3> QED
      BY <1>2, <1>5, <2>1, <2>3, <3>1 DEF ToldOf
  <2> QED
    BY <2>2, <2>3
<1> QED
  BY <1>6, <1>7, <1>8 DEF ToldSoFar

LEMMA SendTells ==
    ASSUME Types, Telling, NEW g \in Gdbs \cup {0}, NEW command, Send(g, command),
           UNCHANGED <<listeners, owner, view, gdb, exitSeen>>
    PROVE  GdbsOwned' /\ LastLineIsTrue' /\ ToldSoFar'
<1>1. CASE UNCHANGED <<target, out>>
  BY <1>1 DEF Telling, Listening, GdbsOwned, LastLineIsTrue, ToldSoFar, OnlyGdb, ToldOf
<1>2. CASE ~UNCHANGED <<target, out>>
  <2>1. g \in Gdbs /\ gdb[g] # "unused"
    BY <1>2 DEF Send
  <2>2. \/ Does(g, <<"running">>, "running")
        \/ Does(g, <<"exited", "running">>, "running")
        \/ Does(g, <<"stopped">>, "stopped")
    BY <1>2 DEF Send
  <2>3. Shown["running"] = "running" /\ Shown["stopped"] = "stopped"
    BY DEF Shown
  <2> QED
    BY <2>1, <2>2, <2>3, LinesType, DoesTells
<1> QED
  BY <1>1, <1>2

\* A session that was not asked for anything yet hears nothing.
LEMMA ListeningAlone ==
    ASSUME Listening, UNCHANGED <<listeners, owner>>, GdbsOwned',
           \A s \in Sessions : /\ session'[s].phase = "none" => session[s].phase = "none"
                               /\ session'[s].phase = "none" => view'[s].last = view[s].last
    PROVE  Listening'
BY DEF Listening, Newcomers, ListensToOne, HeardGdb

\* What does not touch the GDBs, and at most ends a view, tells nothing.
LEMMA ToldAlone ==
    ASSUME LastLineIsTrue, ToldSoFar, UNCHANGED <<listeners, owner, target, out, exitSeen>>,
           \A s \in Sessions : /\ view'[s].last = view[s].last
                               /\ view[s].ended => view'[s].ended
    PROVE  LastLineIsTrue' /\ ToldSoFar'
BY DEF LastLineIsTrue, ToldSoFar, OnlyGdb, ToldOf

\* A new GDB is the first of its backend, which nobody listened to, or another one.
LEMMA CreateTells ==
    ASSUME Types, Telling, NEW key \in Keys, NEW b \in Backends, NEW g \in Gdbs,
           CreateBackend(key, b, g), UNCHANGED <<view, target, out, exitSeen>>,
           \A s \in Sessions : session'[s].phase = "none" => session[s].phase = "none",
           \/ UNCHANGED listeners
           \/ \E s \in Sessions : /\ session[s].phase = "none" /\ session'[s].phase # "none"
                                  /\ listeners' = SetupBackendEvents(s, b)
    PROVE  Telling'
<1>1. /\ gdb[g] = "unused" /\ owner[g] = 0
      /\ target[g] = "none" /\ out[g] = <<>> /\ g \notin exitSeen
  BY DEF Telling, Listening, GdbsOwned, CreateBackend
<1>2. /\ owner'[g] = b /\ b # 0 /\ gdb'[g] # "unused"
      /\ \A h \in Gdbs : h # g => owner'[h] = owner[h] /\ gdb'[h] = gdb[h]
  BY NumbersAreNotZero DEF Types, BackendOK, ProcessOK, CreateBackend
<1>3. /\ \A c \in Backends : c # b => listeners'[c] = listeners[c]
      /\ \A s \in Sessions, c \in Backends :
             s \in listeners'[c] => s \in listeners[c]
                                    \/ /\ c = b /\ session[s].phase = "none"
                                       /\ session'[s].phase # "none"
  BY DEF Types, BackendOK, SetupBackendEvents
<1>4. GdbsOwned'
  BY <1>2 DEF Telling, Listening, GdbsOwned
<1>5. Newcomers'
  BY <1>3 DEF Telling, Listening, Newcomers
<1>6. ListensToOne'
  BY <1>3 DEF Telling, Listening, Newcomers, ListensToOne
<1>7. HeardGdb'
  <2>1. ASSUME NEW c \in Backends, listeners'[c] # {}
        PROVE  \E h \in Gdbs : owner'[h] = c
    <3>1. CASE c = b
      BY <1>2, <3>1
    <3>2. CASE c # b
      <4>1. PICK h \in Gdbs : owner[h] = c
        BY <1>3, <2>1, <3>2 DEF Telling, Listening, HeardGdb
      <4>2. h # g
        BY <1>1, <4>1, NumbersAreNotZero
      <4> QED
        BY <1>2, <4>1, <4>2
    <3> QED
      BY <3>1, <3>2
  <2> QED
    BY <2>1 DEF HeardGdb
<1>8. LastLineIsTrue'
  BY DEF Telling, LastLineIsTrue
<1>9. ASSUME NEW h \in Gdbs, NEW s \in Sessions, OnlyGdb(h)', (s \in listeners[owner[h]])'
      PROVE  ToldOf(h, s)'
  <2>1. CASE h = g
    <3>1. \A k \in Gdbs : owner[k] # b
      BY <1>1, <1>2, <1>9, <2>1 DEF OnlyGdb
    <3>2. s \notin listeners[b]
      BY <3>1 DEF Telling, Listening, HeardGdb
    <3>3. view[s].last = "none"
      BY <1>2, <1>3, <1>9, <2>1, <3>2 DEF Telling, Listening, Newcomers
    <3>4. Shown["none"] = "none"
      BY DEF Shown
    <3> QED
      BY <1>1, <2>1, <3>3, <3>4 DEF ToldOf
  <2>2. CASE h # g
    <3>1. owner'[h] = owner[h] /\ owner[h] # 0 /\ owner[h] # b
      BY <1>2, <1>9, <2>2 DEF OnlyGdb
    <3>2. owner[h] \in Backends
      BY <3>1 DEF Types, BackendOK
    <3>3. OnlyGdb(h)
      BY <1>1, <1>2, <1>9, <3>1 DEF OnlyGdb
    <3>4. s \in listeners[owner[h]]
      BY <1>3, <1>9, <3>1, <3>2
    <3> QED
      BY <3>3, <3>4 DEF Telling, ToldSoFar, ToldOf
  <2> QED
    BY <2>1, <2>2
<1> QED
  BY <1>4, <1>5, <1>6, <1>7, <1>8, <1>9 DEF Telling, Listening, ToldSoFar

\* The sessions that hear a GDB hear no GDB of another backend.
LEMMA HearsOne ==
    ASSUME Types, Listening, NEW g \in Gdbs, NEW h \in Gdbs, NEW s \in Sessions,
           gdb[g] # "unused", Hears(s, g), OnlyGdb(h), s \in listeners[owner[h]]
    PROVE  h = g
<1>1. owner[g] \in Backends /\ owner[h] \in Backends
  BY DEF Types, BackendOK, Listening, GdbsOwned, OnlyGdb
<1>2. owner[g] = owner[h]
  BY <1>1 DEF Hears, Listening, ListensToOne
<1> QED
  BY <1>2 DEF OnlyGdb

\* An event changes neither who listens nor the phase of a session, and ends no view.
LEMMA EmitTells ==
    ASSUME Types, Listening, NEW g \in Gdbs, gdb[g] # "unused", NEW event \in Events,
           Emit(g, event), UNCHANGED <<listeners, owner>>, GdbsOwned'
    PROVE  /\ Listening'
           /\ \A s \in Sessions :
                  /\ Hears(s, g) => view'[s] = Told(view[s], event)
                  /\ ~Hears(s, g) => view'[s] = view[s]
<1>1. \A s \in Sessions :
          /\ Hears(s, g) => view'[s] = Told(view[s], event)
          /\ ~Hears(s, g) => view'[s] = view[s]
          /\ session'[s].phase = session[s].phase
  BY DEF Emit, Types, FrontOK, SessionRecords
<1>2. owner[g] \in Backends
  BY DEF Types, BackendOK, Listening, GdbsOwned
<1>3. \A s \in Sessions : session[s].phase = "none" => view'[s].last = view[s].last
  BY <1>1, <1>2 DEF Listening, Newcomers, Hears
<1> QED
  BY <1>1, <1>3, ListeningAlone

LEMMA ReadTells ==
    ASSUME Types, Telling, NEW g \in Gdbs, HandleLine(g)
    PROVE  Telling'
<1> DEFINE line == Head(out[g])
           rest == Tail(out[g])
<1>1. /\ out \in [Gdbs -> Seq(Events)] /\ out[g] # <<>> /\ out' = [out EXCEPT ![g] = rest]
      /\ UNCHANGED <<listeners, owner, gdb, target, exitSeen>> /\ Emit(g, line)
  BY DEF HandleLine, backend, Types, ProcessOK, ProgramOK
<1>2. gdb[g] # "unused"
  BY <1>1 DEF Telling, Listening, GdbsOwned
<1>3. /\ out'[g] = rest /\ \A h \in Gdbs : h # g => out'[h] = out[h]
      /\ out[g] \in Seq(Events) /\ line \in Events
  BY <1>1
<1>4. /\ rest = <<>> => Len(out[g]) = 1
      /\ rest # <<>> => rest[Len(rest)] = out[g][Len(out[g])]
      /\ line = out[g][1]
      /\ \A i \in DOMAIN out[g] : i # 1 => rest[i - 1] = out[g][i] /\ i - 1 \in DOMAIN rest
  BY <1>1, <1>3, Unread
<1>5. GdbsOwned'
  BY <1>1, <1>2, <1>3 DEF Telling, Listening, GdbsOwned
<1>6. /\ Listening'
      /\ \A s \in Sessions :
             /\ Hears(s, g) => view'[s] = Told(view[s], line)
             /\ ~Hears(s, g) => view'[s] = view[s]
  BY <1>1, <1>2, <1>3, <1>5, EmitTells DEF Telling
<1> HIDE DEF line, rest
<1>7. LastLineIsTrue'
  BY <1>1, <1>3, <1>4 DEF Telling, LastLineIsTrue
<1>8. ASSUME NEW h \in Gdbs, NEW s \in Sessions, OnlyGdb(h)', (s \in listeners[owner[h]])'
      PROVE  ToldOf(h, s)'
  <2>1. OnlyGdb(h) /\ s \in listeners[owner[h]] /\ ToldOf(h, s)
    BY <1>1, <1>8 DEF Telling, ToldSoFar, OnlyGdb
  <2>2. CASE h # g
    <3>1. ~Hears(s, g)
      BY <1>2, <2>1, <2>2, HearsOne DEF Telling
    <3> QED
      BY <1>1, <1>3, <1>6, <2>1, <2>2, <3>1 DEF ToldOf
  <2>3. CASE h = g
    <3>1. view'[s] = Told(view[s], line)
      BY <1>6, <2>1, <2>3 DEF Hears
    <3>2. view[s] \in [last : {"none", "running", "stopped"}, ended : BOOLEAN]
      BY DEF Types, FrontOK
    <3>3. /\ line # "exited" => view'[s].last = line /\ view'[s].ended = view[s].ended
          /\ line = "exited" => view'[s].last = view[s].last /\ view'[s].ended
      BY <3>1, <3>2 DEF Told
    <3>4. ASSUME rest = <<>>
          PROVE  view'[s].last = Shown[target[g]]
      <4>1. line = Shown[target[g]]
        BY <1>1, <1>4, <3>4 DEF Telling, LastLineIsTrue
      <4>2. line # "exited"
        BY <4>1 DEF Shown, Types, ProcessOK, ProgramOK
      <4> QED
        BY <3>3, <4>1, <4>2
    <3>5. ASSUME target[g] = "exited"
          PROVE  view'[s].ended \/ \E i \in DOMAIN rest : rest[i] = "exited"
      BY <1>4, <2>1, <2>3, <3>3, <3>5 DEF ToldOf
    <3> QED
      BY <1>1, <1>3, <2>1, <2>3, <3>3, <3>4, <3>5 DEF ToldOf
  <2> QED
    BY <2>2, <2>3
<1> QED
  BY <1>6, <1>7, <1>8 DEF Telling, ToldSoFar

LEMMA ExitTells ==
    ASSUME Types, Telling, NEW g \in Gdbs, HandleExit(g)
    PROVE  Telling'
<1>1. /\ gdb[g] # "unused" /\ exitSeen' = exitSeen \cup {g} /\ Emit(g, "exited")
      /\ UNCHANGED <<listeners, owner, gdb, target, out>>
  BY DEF HandleExit, backend
<1>2. GdbsOwned'
  BY <1>1 DEF Telling, Listening, GdbsOwned
<1>3. /\ Listening'
      /\ \A s \in Sessions :
             /\ Hears(s, g) => view'[s] = Told(view[s], "exited")
             /\ ~Hears(s, g) => view'[s] = view[s]
  BY <1>1, <1>2, EmitTells DEF Telling, Events
<1>4. \A s \in Sessions : /\ view'[s].last = view[s].last /\ (view[s].ended => view'[s].ended)
                          /\ Hears(s, g) => view'[s].ended
  BY <1>3 DEF Told, Types, FrontOK
<1>5. ASSUME NEW h \in Gdbs, NEW s \in Sessions, OnlyGdb(h)', (s \in listeners[owner[h]])'
      PROVE  ToldOf(h, s)'
  <2>1. OnlyGdb(h) /\ s \in listeners[owner[h]] /\ ToldOf(h, s)
    BY <1>1, <1>5 DEF Telling, ToldSoFar, OnlyGdb
  <2>2. h \in exitSeen' => h \in exitSeen \/ Hears(s, g)
    BY <1>1, <2>1 DEF Hears
  <2> QED
    BY <1>1, <1>4, <2>1, <2>2 DEF ToldOf
<1> QED
  BY <1>1, <1>3, <1>5 DEF Telling, ToldSoFar, LastLineIsTrue

LEMMA FinishTells ==
    ASSUME Types, NEW s \in Sessions, NEW request \in Requests, Finish(s, request)
    PROVE  /\ session'[s].phase \in {session[s].phase, "closed"}
           /\ \A r \in Sessions : r # s => session'[r] = session[r]
           /\ \A r \in Sessions : /\ view'[r].last = view[r].last
                                  /\ view[r].ended => view'[r].ended
<1>1. session[s] \in SessionRecords
  BY DEF Types, FrontOK
<1>2. session'[s].phase \in {session[s].phase, "closed"}
  BY <1>1 DEF Finish, Types, FrontOK, SessionRecords
<1>3. \A r \in Sessions : /\ view'[r].last = view[r].last
                          /\ view[r].ended => view'[r].ended
  BY DEF Finish, Types, FrontOK
<1> QED
  BY <1>2, <1>3, FinishType

LEMMA InitTelling == Init => Telling
<1> SUFFICES ASSUME Init PROVE Telling
  OBVIOUS
<1>1. Listening
  BY DEF Init, Listening, GdbsOwned, Newcomers, ListensToOne, HeardGdb
<1> QED
  BY <1>1 DEF Init, Telling, LastLineIsTrue, ToldSoFar, OnlyGdb

LEMMA RequestTells ==
    ASSUME Types, Telling, NEW s \in Sessions, Request(s)
    PROVE  Telling'
<1>0. session \in [Sessions -> SessionRecords] /\ session[s].phase \in Phases
  BY DEF Types, FrontOK, SessionRecords
<1>1. ASSUME NEW key \in Keys, NEW kind \in {"launch", "attach"}, Open(s, kind, key)
      PROVE  Telling'
  <2>1. PICK b \in Backends, g \in Gdbs :
            /\ CreateBackend(key, b, g)
            /\ listeners' = IF kind = "launch" THEN SetupBackendEvents(s, b) ELSE listeners
            /\ session' = [session EXCEPT ![s] =
                   [@ EXCEPT !.phase = "initializing", !.kind = kind,
                             !.backend = b, !.awaits = g]]
    BY <1>1, ZenonT(30) DEF Open
  <2>2. /\ session[s].phase = "none" /\ session'[s].phase = "initializing"
        /\ \A r \in Sessions : r # s => session'[r] = session[r]
    BY <1>0, <1>1, <2>1 DEF Open, SessionRecords
  <2>3. UNCHANGED <<view, target, out, exitSeen>>
    BY <1>1 DEF Open
  <2>4. \/ UNCHANGED listeners
        \/ session[s].phase = "none" /\ session'[s].phase # "none"
           /\ listeners' = SetupBackendEvents(s, b)
    BY <2>1, <2>2
  <2>5. \A r \in Sessions : session'[r].phase = "none" => session[r].phase = "none"
    BY <2>2
  <2> QED
    BY <2>1, <2>3, <2>4, <2>5, CreateTells
<1>2. ASSUME NEW phase \in Phases \ {"none"}, session'[s].phase \in {session[s].phase, phase},
             \A r \in Sessions : r # s => session'[r] = session[r],
             UNCHANGED <<listeners, owner, gdb, exitSeen>>,
             \A r \in Sessions : /\ view'[r].last = view[r].last
                                 /\ view[r].ended => view'[r].ended
      PROVE  /\ UNCHANGED <<target, out>> => Telling'
             /\ GdbsOwned' /\ LastLineIsTrue' /\ ToldSoFar' => Telling'
  <2>1. \A r \in Sessions : /\ session'[r].phase = "none" => session[r].phase = "none"
                            /\ session'[r].phase = "none" => view'[r].last = view[r].last
    BY <1>2
  <2>2. ASSUME GdbsOwned'
        PROVE  Listening'
    BY <1>2, <2>1, <2>2, ListeningAlone DEF Telling
  <2>3. ASSUME UNCHANGED <<target, out>>
        PROVE  GdbsOwned' /\ LastLineIsTrue' /\ ToldSoFar'
    BY <1>2, <2>3, ToldAlone DEF Telling, Listening, GdbsOwned
  <2> QED
    BY <2>2, <2>3 DEF Telling
<1>3. CASE LaunchRefused(s)
  BY <1>0, <1>2, <1>3, PhaseType DEF LaunchRefused, SessionRecords, manager, backend, process
<1>4. CASE ConfigurationDone(s)
  <2>1. /\ session'[s].phase = "configured" /\ \A r \in Sessions : r # s => session'[r] = session[r]
        /\ UNCHANGED <<listeners, owner, gdb, exitSeen, view>>
    BY <1>0, <1>4 DEF ConfigurationDone, SessionRecords, backend
  <2>2. GdbsOwned' /\ LastLineIsTrue' /\ ToldSoFar' => Telling'
    BY <1>2, <2>1, PhaseType
  <2>3. CASE session[s].isRunning
    BY <1>2, <1>4, <2>1, <2>3, PhaseType DEF ConfigurationDone
  <2>4. CASE ~session[s].isRunning
    BY <1>4, <2>1, <2>2, <2>4, SendTells, ChannelType DEF ConfigurationDone
  <2> QED
    BY <2>3, <2>4
<1>5. CASE Execute(s)
  <2>1. GdbsOwned' /\ LastLineIsTrue' /\ ToldSoFar'
    BY <1>5, SendTells, ChannelType DEF Execute, backend, front
  <2> QED
    BY <1>0, <1>2, <1>5, <2>1, PhaseType DEF Execute, backend, front
<1>6. CASE RestartRequest(s)
  BY <1>0, <1>2, <1>6, PhaseType DEF RestartRequest, SessionRecords
<1>7. ASSUME NEW request \in Requests, BeginRelease(s, request)
      PROVE  Telling'
  <2>1. /\ session'[s].phase = session[s].phase /\ \A r \in Sessions : r # s => session'[r] = session[r]
        /\ UNCHANGED <<listeners, owner, view, gdb, target, out, exitSeen>>
    BY <1>0, <1>7 DEF BeginRelease, SessionRecords
  <2> QED
    BY <1>2, <2>1, PhaseType
<1>8. ASSUME NEW request \in Requests, EndWithoutBackend(s, request)
      PROVE  Telling'
  BY <1>2, <1>8, FinishTells, PhaseType DEF EndWithoutBackend, backend, process
<1> QED
  BY <1>1, <1>3, <1>4, <1>5, <1>6, <1>7, <1>8 DEF Request

LEMMA ContinuationTells ==
    ASSUME Types, Telling, NEW s \in Sessions, Continuation(s)
    PROVE  Telling'
<1>0. session \in [Sessions -> SessionRecords] /\ session[s].phase \in Phases
  BY DEF Types, FrontOK, SessionRecords
<1>1. \A r \in Sessions : session'[r].phase = "none" => session[r].phase = "none"
  <2>1. CASE EndRelease(s)
    BY <1>0, <2>1, FinishTells DEF EndRelease, SessionRecords
  <2>2. CASE ~EndRelease(s)
    BY <1>0, <2>2 DEF Continuation, Initialized, Launched, LaunchFails, SessionRecords
  <2> QED
    BY <2>1, <2>2
<1>2. /\ UNCHANGED <<listeners, owner, gdb, exitSeen>>
      /\ \A r \in Sessions : /\ view'[r].last = view[r].last
                             /\ view[r].ended => view'[r].ended
  <2>1. CASE EndRelease(s)
    BY <1>0, <2>1, FinishTells DEF EndRelease, SessionRecords, backend, process
  <2>2. CASE ~EndRelease(s)
    BY <2>2 DEF Continuation, Initialized, Launched, LaunchFails, backend, process
  <2> QED
    BY <2>1, <2>2
<1>3. GdbsOwned' /\ LastLineIsTrue' /\ ToldSoFar'
  <2>1. CASE UNCHANGED <<target, out>>
    BY <1>2, <2>1, ToldAlone DEF Telling, Listening, GdbsOwned
  <2>2. CASE ~UNCHANGED <<target, out>>
    <3>1. Initialized(s)
      BY <2>2 DEF Continuation, Launched, LaunchFails, EndRelease, process
    <3>2. Send(Channel(s), "attach") /\ UNCHANGED <<listeners, owner, view, gdb, exitSeen>>
      BY <2>2, <3>1 DEF Initialized, backend
    <3> QED
      BY <3>2, SendTells, ChannelType
  <2> QED
    BY <2>1, <2>2
<1>4. Listening'
  BY <1>1, <1>2, <1>3, ListeningAlone DEF Telling
<1> QED
  BY <1>3, <1>4 DEF Telling

LEMMA HttpTells ==
    ASSUME Types, Telling, Http
    PROVE  Telling'
<1>1. ASSUME NEW key \in Keys, HandleCreateDebugger(key)
      PROVE  Telling'
  <2>1. PICK b \in Backends, g \in Gdbs : CreateBackend(key, b, g)
    BY <1>1 DEF HandleCreateDebugger
  <2> QED
    BY <1>1, <2>1, CreateTells DEF HandleCreateDebugger, front
<1>2. CASE HttpTerminate
  <2>1. UNCHANGED <<listeners, owner, session, view, gdb, target, out, exitSeen>>
    BY <1>2 DEF HttpTerminate, front
  <2>2. GdbsOwned'
    BY <2>1 DEF Telling, Listening, GdbsOwned
  <2> QED
    BY <2>1, <2>2, ListeningAlone, ToldAlone DEF Telling
<1>3. ASSUME NEW command \in Commands, HttpExecute(command)
      PROVE  Telling'
  <2>1. mi2[current] \in Gdbs \cup {0}
    BY <1>3 DEF HttpExecute, Types, ManagerOK, BackendOK
  <2>2. /\ UNCHANGED <<listeners, owner, session, view, gdb, exitSeen>>
        /\ Send(mi2[current], command)
    BY <1>3 DEF HttpExecute, backend, front
  <2>3. GdbsOwned' /\ LastLineIsTrue' /\ ToldSoFar'
    BY <2>1, <2>2, SendTells
  <2> QED
    BY <2>2, <2>3, ListeningAlone DEF Telling
<1> QED
  BY <1>1, <1>2, <1>3 DEF Http

LEMMA ProcessTells ==
    ASSUME Types, Telling, NEW g \in Gdbs, ProgramStops(g) \/ Dies(g)
    PROVE  Telling'
<1>1. UNCHANGED <<listeners, owner, session, view, exitSeen>>
  BY DEF ProgramStops, Dies, backend, front
<1>2. GdbsOwned' /\ LastLineIsTrue' /\ ToldSoFar'
  <2>1. CASE ProgramStops(g)
    <3>1. gdb[g] # "unused" /\ gdb' = gdb
      BY <2>1 DEF ProgramStops
    <3>2. \/ Does(g, <<"stopped">>, "stopped")
          \/ Does(g, <<"exited", "stopped">>, "exited")
      BY <2>1 DEF ProgramStops
    <3>3. Shown["exited"] = "stopped" /\ Shown["stopped"] = "stopped"
      BY DEF Shown
    <3>4. CASE Does(g, <<"stopped">>, "stopped")
      BY <1>1, <3>1, <3>3, <3>4, LinesType, DoesTells
    <3>5. CASE Does(g, <<"exited", "stopped">>, "exited")
      <4>1. \E i \in DOMAIN <<"exited", "stopped">> : <<"exited", "stopped">>[i] = "exited"
        <5>1. 1 \in DOMAIN <<"exited", "stopped">> /\ <<"exited", "stopped">>[1] = "exited"
          OBVIOUS
        <5> QED
          BY <5>1
      <4> QED
        BY <1>1, <3>1, <3>3, <3>5, <4>1, LinesType, DoesTells
    <3> QED
      BY <3>2, <3>4, <3>5
  <2>2. CASE Dies(g)
    <3>1. GdbsOwned'
      BY <2>2 DEF Dies, backend, Telling, Listening, GdbsOwned, Types, ProcessOK
    <3> QED
      BY <1>1, <2>2, <3>1, ToldAlone DEF Dies, Telling
  <2> QED
    BY <2>1, <2>2
<1> QED
  BY <1>1, <1>2, ListeningAlone DEF Telling

LEMMA NextTelling == Types /\ Telling /\ [Next]_vars => Telling'
<1> SUFFICES ASSUME Types, Telling, [Next]_vars PROVE Telling'
  OBVIOUS
<1>1. CASE UNCHANGED vars
  BY <1>1, ListeningAlone, ToldAlone
  DEF Telling, Listening, GdbsOwned, vars, backend, front, process
<1>2. ASSUME NEW g \in Gdbs, HandleLine(g) \/ HandleExit(g) \/ ProgramStops(g) \/ Dies(g)
      PROVE  Telling'
  BY <1>2, ReadTells, ExitTells, ProcessTells
<1> QED
  BY <1>1, <1>2, RequestTells, ContinuationTells, HttpTells DEF Next

-----------------------------------------------------------------------------
(* Why a terminated session is not stuck.  The GDB of a backend is the last one
   that was started for it, until terminate() sends that one a SIGTERM.  A
   session got its backend with a new GDB and listens to it, so it was told of
   the exit of the last one, if anybody was. *)

StartedInOrder ==
    \A g, h \in Gdbs : h < g /\ gdb[g] # "unused" => gdb[h] # "unused"

IsLast(g) == owner[g] # 0 /\ \A h \in Gdbs : owner[h] = owner[g] => h <= g

HasLast == \A h \in Gdbs : owner[h] # 0 => \E g \in Gdbs : owner[g] = owner[h] /\ IsLast(g)

LastIsHeld ==
    \A g \in Gdbs :
        IsLast(g) => \/ mi2[owner[g]] = g
                     \/ mi2[owner[g]] = 0 /\ g \in killed

OwnersListen ==
    \A s \in Sessions :
        session[s].backend # 0 =>
            /\ session[s].phase \notin {"none", "closed"}
            /\ session[s].kind = "launch" => s \in listeners[session[s].backend]
            /\ \E g \in Gdbs : owner[g] = session[s].backend

ToldOfLast ==
    \A g \in Gdbs, s \in Sessions :
        /\ IsLast(g) /\ g \in exitSeen
        /\ session[s].backend = owner[g] /\ session[s].kind = "launch"
        => view[s].ended

Ending == StartedInOrder /\ HasLast /\ LastIsHeld /\ OwnersListen /\ ToldOfLast

\* What starts no GDB, takes from a backend only a GDB that it sends a SIGTERM, and
\* tells the sessions of a backend of every exit that it handles.
LEMMA EndingAlone ==
    ASSUME Ending, UNCHANGED <<owner, listeners>>,
           \A g \in Gdbs : gdb'[g] = "unused" <=> gdb[g] = "unused",
           killed \subseteq killed',
           \A b \in Backends \cup {0} : \/ mi2'[b] = mi2[b]
                                        \/ mi2'[b] = 0 /\ (mi2[b] = 0 \/ mi2[b] \in killed'),
           owner \in [Gdbs -> Backends \cup {0}],
           \A s \in Sessions :
               \/ session'[s].backend = 0
               \/ /\ session'[s].backend = session[s].backend
                  /\ session'[s].kind = session[s].kind
                  /\ \/ session'[s].phase = session[s].phase
                     \/ session'[s].phase \notin {"none", "closed"},
           \A s \in Sessions : view[s].ended => view'[s].ended,
           \A g \in Gdbs, s \in Sessions :
               /\ g \in exitSeen' /\ g \notin exitSeen
               /\ session[s].backend = owner[g] /\ session[s].kind = "launch"
               => view'[s].ended
    PROVE  Ending'
<1>1. \A g \in Gdbs : IsLast(g)' <=> IsLast(g)
  BY DEF IsLast
<1>2. StartedInOrder' /\ HasLast'
  BY <1>1 DEF Ending, StartedInOrder, HasLast
<1>3. LastIsHeld'
  <2> SUFFICES ASSUME NEW g \in Gdbs, IsLast(g)
               PROVE  mi2'[owner[g]] = g \/ (mi2'[owner[g]] = 0 /\ g \in killed')
    BY <1>1 DEF LastIsHeld
  <2>1. owner[g] \in Backends \cup {0}
    OBVIOUS
  <2>2. mi2[owner[g]] = g \/ (mi2[owner[g]] = 0 /\ g \in killed)
    BY DEF Ending, LastIsHeld
  <2>3. g # 0
    BY NumbersAreNotZero
  <2> QED
    BY <2>1, <2>2, <2>3
<1>4. OwnersListen'
  BY DEF Ending, OwnersListen
<1>5. ToldOfLast'
  <2> SUFFICES ASSUME NEW g \in Gdbs, NEW s \in Sessions, IsLast(g), g \in exitSeen',
                      session'[s].backend = owner[g], session'[s].kind = "launch"
               PROVE  view'[s].ended
    BY <1>1 DEF ToldOfLast
  <2>1. owner[g] # 0
    BY DEF IsLast
  <2>2. session[s].backend = owner[g] /\ session[s].kind = "launch"
    BY <2>1
  <2> QED
    BY <2>2 DEF Ending, ToldOfLast
<1> QED
  BY <1>2, <1>3, <1>4, <1>5 DEF Ending

LEMMA FinishEnds ==
    ASSUME Types, NEW s \in Sessions, NEW request \in Requests, Finish(s, request)
    PROVE  /\ \A t \in Sessions : session'[t].backend = 0 \/ session'[t] = session[t]
           /\ \A t \in Sessions : view[t].ended => view'[t].ended
<1>1. session \in [Sessions -> SessionRecords]
      /\ view \in [Sessions -> [last : {"none", "running", "stopped"}, ended : BOOLEAN]]
  BY DEF Types, FrontOK
<1>2. session'[s].backend = 0
  BY <1>1 DEF Finish, SessionRecords
<1>3. \A t \in Sessions : t # s => session'[t] = session[t]
  BY <1>1 DEF Finish
<1>4. \A t \in Sessions : view[t].ended => view'[t].ended
  BY <1>1 DEF Finish
<1> QED
  BY <1>2, <1>3, <1>4

LEMMA EmitEnds ==
    ASSUME Types, NEW g \in Gdbs, NEW event \in Events, Emit(g, event)
    PROVE  /\ \A s \in Sessions : /\ session'[s].backend = session[s].backend
                                  /\ session'[s].kind = session[s].kind
                                  /\ session'[s].phase = session[s].phase
           /\ \A s \in Sessions : view[s].ended => view'[s].ended
<1>1. session \in [Sessions -> SessionRecords]
      /\ view \in [Sessions -> [last : {"none", "running", "stopped"}, ended : BOOLEAN]]
  BY DEF Types, FrontOK
<1>2. \A s \in Sessions : view[s].ended => view'[s].ended
  BY <1>1 DEF Emit, Told
<1>3. ASSUME NEW s \in Sessions
      PROVE  /\ session'[s].backend = session[s].backend
             /\ session'[s].kind = session[s].kind
             /\ session'[s].phase = session[s].phase
  <2>1. \/ session'[s] = [session[s] EXCEPT !.isRunning = (event = "running")]
        \/ session'[s] = session[s]
    BY DEF Emit
  <2>2. session[s] \in SessionRecords
    BY <1>1
  <2> QED
    BY <2>1, <2>2 DEF SessionRecords
<1> QED
  BY <1>2, <1>3

LEMMA TerminateEnds ==
    ASSUME Types, NEW c \in Backends, Terminate(c)
    PROVE  /\ killed \subseteq killed'
           /\ \A b \in Backends \cup {0} :
                  \/ mi2'[b] = mi2[b]
                  \/ mi2'[b] = 0 /\ (mi2[b] = 0 \/ mi2[b] \in killed')
BY DEF Terminate, Types, BackendOK

\* A new GDB is the last of its backend; nobody was told of its exit, and the session
\* that got it listens.
LEMMA CreateEnds ==
    ASSUME Types, GdbsOwned, Ending, NEW key \in Keys, NEW b \in Backends, NEW g \in Gdbs,
           CreateBackend(key, b, g), UNCHANGED <<view, killed, exitSeen>>,
           \A s \in Sessions, c \in Backends : s \in listeners[c] => s \in listeners'[c],
           \A s \in Sessions :
               \/ session'[s] = session[s]
               \/ /\ session'[s].backend = b /\ session'[s].phase \notin {"none", "closed"}
                  /\ session'[s].kind = "launch" => s \in listeners'[b]
    PROVE  Ending'
<1>1. gdb[g] = "unused" /\ owner[g] = 0 /\ g \notin exitSeen
  BY DEF GdbsOwned, CreateBackend
<1>2. /\ owner'[g] = b /\ b # 0 /\ gdb'[g] # "unused"
      /\ \A h \in Gdbs : h # g => owner'[h] = owner[h] /\ gdb'[h] = gdb[h]
  BY NumbersAreNotZero DEF Types, BackendOK, ProcessOK, CreateBackend
<1>3. /\ mi2'[b] = g
      /\ \A c \in Backends : c # b => mi2'[c] = mi2[c]
  BY DEF Types, BackendOK, CreateBackend
<1>4. /\ \A h \in Gdbs : h \in Nat
      /\ \A h \in Gdbs : h < g => h \in 1..g - 1
  BY ConstantsAssumption DEF Gdbs
<1>5. \A h \in Gdbs : owner[h] # 0 => h < g
  <2> SUFFICES ASSUME NEW h \in Gdbs, owner[h] # 0 PROVE h < g
    OBVIOUS
  <2>1. gdb[h] # "unused"
    BY DEF GdbsOwned
  <2>2. ~(g < h)
    BY <1>1, <2>1 DEF Ending, StartedInOrder
  <2>3. h # g
    BY <1>1
  <2> QED
    BY <1>4, <2>2, <2>3
<1>6. StartedInOrder'
  <2>1. \A h \in Gdbs : h < g => gdb[h] # "unused"
    BY <1>4 DEF CreateBackend
  <2> SUFFICES ASSUME NEW h \in Gdbs, NEW i \in Gdbs, h < i, gdb'[i] # "unused"
               PROVE  gdb'[h] # "unused"
    BY DEF StartedInOrder
  <2> QED
    BY <1>2, <2>1 DEF Ending, StartedInOrder
<1>7. IsLast(g)'
  BY <1>2, <1>4, <1>5 DEF IsLast
<1>8. ASSUME NEW h \in Gdbs, h # g
      PROVE  IsLast(h)' <=> IsLast(h) /\ owner[h] # b
  <2>1. CASE owner[h] = b
    <3>1. h < g /\ owner'[h] = owner'[g]
      BY <1>2, <1>5, <1>8, <2>1
    <3>2. ~(g <= h)
      BY <1>4, <3>1
    <3> QED
      BY <2>1, <3>1, <3>2 DEF IsLast
  <2>2. CASE owner[h] # b
    <3>1. owner[h] = owner'[h] /\ owner'[g] # owner'[h] /\ (owner[h] # 0 => owner[g] # owner[h])
      BY <1>1, <1>2, <1>8, <2>2
    <3>2. \A i \in Gdbs : owner'[h] # 0 => (owner'[i] = owner'[h] <=> owner[i] = owner[h])
      BY <1>2, <3>1
    <3> QED
      BY <2>2, <3>1, <3>2 DEF IsLast
  <2> QED
    BY <2>1, <2>2
<1>9. HasLast'
  <2> SUFFICES ASSUME NEW h \in Gdbs, owner'[h] # 0
               PROVE  \E i \in Gdbs : owner'[i] = owner'[h] /\ IsLast(i)'
    BY DEF HasLast
  <2>1. CASE owner'[h] = b
    BY <1>2, <1>7, <2>1
  <2>2. CASE owner'[h] # b
    <3>1. owner[h] = owner'[h]
      BY <1>2, <2>2
    <3>2. PICK i \in Gdbs : owner[i] = owner[h] /\ IsLast(i)
      BY <3>1 DEF Ending, HasLast
    <3>3. i # g
      BY <1>1, <3>1, <3>2
    <3> QED
      BY <1>2, <1>8, <2>2, <3>1, <3>2, <3>3
  <2> QED
    BY <2>1, <2>2
<1>10. LastIsHeld'
  <2> SUFFICES ASSUME NEW h \in Gdbs, IsLast(h)'
               PROVE  mi2'[owner'[h]] = h \/ (mi2'[owner'[h]] = 0 /\ h \in killed)
    BY DEF LastIsHeld
  <2>1. CASE h = g
    BY <1>2, <1>3, <2>1
  <2>2. CASE h # g
    <3>1. IsLast(h) /\ owner[h] # b /\ owner'[h] = owner[h]
      BY <1>2, <1>8, <2>2
    <3>2. owner[h] \in Backends
      BY <3>1 DEF Types, BackendOK, IsLast
    <3> QED
      BY <1>3, <3>1, <3>2 DEF Ending, LastIsHeld
  <2> QED
    BY <2>1, <2>2
<1>11. OwnersListen'
  <2> SUFFICES ASSUME NEW s \in Sessions, session'[s].backend # 0
               PROVE  /\ session'[s].phase \notin {"none", "closed"}
                      /\ session'[s].kind = "launch" => s \in listeners'[session'[s].backend]
                      /\ \E h \in Gdbs : owner'[h] = session'[s].backend
    BY DEF OwnersListen
  <2>1. CASE session'[s] = session[s]
    <3>1. /\ session[s].phase \notin {"none", "closed"}
          /\ session[s].kind = "launch" => s \in listeners[session[s].backend]
          /\ \E h \in Gdbs : owner[h] = session[s].backend
      BY <2>1 DEF Ending, OwnersListen
    <3>2. session[s].backend \in Backends
      BY <2>1 DEF Types, FrontOK, SessionRecords
    <3>3. \E h \in Gdbs : owner'[h] = session[s].backend
      BY <1>1, <1>2, <2>1, <3>1
    <3> QED
      BY <2>1, <3>1, <3>2, <3>3
  <2>2. CASE session'[s] # session[s]
    BY <1>2, <2>2
  <2> QED
    BY <2>1, <2>2
<1>12. ToldOfLast'
  <2> SUFFICES ASSUME NEW h \in Gdbs, NEW s \in Sessions, IsLast(h)', h \in exitSeen,
                      session'[s].backend = owner'[h], session'[s].kind = "launch"
               PROVE  view[s].ended
    BY DEF ToldOfLast
  <2>1. h # g
    BY <1>1
  <2>2. IsLast(h) /\ owner[h] # b /\ owner'[h] = owner[h]
    BY <1>2, <1>8, <2>1
  <2>3. session'[s] = session[s]
    BY <2>2
  <2> QED
    BY <2>2, <2>3 DEF Ending, ToldOfLast
<1> QED
  BY <1>6, <1>9, <1>10, <1>11, <1>12 DEF Ending

LEMMA InitEnding == Init => Ending
BY DEF Init, Ending, StartedInOrder, IsLast, HasLast, LastIsHeld, OwnersListen, ToldOfLast

LEMMA RequestEnds ==
    ASSUME Types, GdbsOwned, Ending, NEW s \in Sessions, Request(s)
    PROVE  Ending'
<1>1. owner \in [Gdbs -> Backends \cup {0}] /\ session \in [Sessions -> SessionRecords]
  BY DEF Types, BackendOK, FrontOK
<1>2. ASSUME NEW key \in Keys, NEW kind \in {"launch", "attach"}, Open(s, kind, key)
      PROVE  Ending'
  <2>1. PICK b \in Backends, g \in Gdbs :
            /\ CreateBackend(key, b, g)
            /\ listeners' = IF kind = "launch" THEN SetupBackendEvents(s, b) ELSE listeners
            /\ session' = [session EXCEPT ![s] =
                   [@ EXCEPT !.phase = "initializing", !.kind = kind,
                             !.backend = b, !.awaits = g]]
    BY <1>2, ZenonT(30) DEF Open
  <2>2. \A t \in Sessions, c \in Backends : t \in listeners[c] => t \in listeners'[c]
    BY <2>1 DEF Types, BackendOK, SetupBackendEvents
  <2>3. kind = "launch" => s \in listeners'[b]
    BY <2>1 DEF Types, BackendOK, SetupBackendEvents
  <2>4. \A t \in Sessions :
            \/ session'[t] = session[t]
            \/ /\ session'[t].backend = b /\ session'[t].phase \notin {"none", "closed"}
               /\ session'[t].kind = "launch" => t \in listeners'[b]
    BY <1>1, <2>1, <2>3 DEF SessionRecords
  <2>5. UNCHANGED <<view, killed, exitSeen>>
    BY <1>2 DEF Open
  <2> QED
    BY <2>1, <2>2, <2>4, <2>5, CreateEnds
<1>3. CASE LaunchRefused(s)
  <2>1. \A t \in Sessions : /\ session'[t].backend = session[t].backend
                            /\ session'[t].kind = session[t].kind
                            /\ \/ session'[t].phase = session[t].phase
                               \/ session'[t].phase \notin {"none", "closed"}
    BY <1>1, <1>3 DEF LaunchRefused, SessionRecords
  <2> QED
    BY <1>1, <1>3, <2>1, EndingAlone DEF LaunchRefused, backend, process
<1>4. CASE ConfigurationDone(s)
  <2>1. \A t \in Sessions : /\ session'[t].backend = session[t].backend
                            /\ session'[t].kind = session[t].kind
                            /\ \/ session'[t].phase = session[t].phase
                               \/ session'[t].phase \notin {"none", "closed"}
    BY <1>1, <1>4 DEF ConfigurationDone, SessionRecords
  <2> QED
    BY <1>1, <1>4, <2>1, EndingAlone DEF ConfigurationDone, backend
<1>5. CASE Execute(s)
  BY <1>1, <1>5, EndingAlone DEF Execute, backend, front
<1>6. CASE RestartRequest(s)
  <2>1. session[s].backend \in Backends /\ Terminate(session[s].backend)
    BY <1>1, <1>6 DEF RestartRequest, SessionRecords
  <2>2. \A t \in Sessions : \/ session'[t].backend = 0
                            \/ session'[t] = session[t]
    BY <1>1, <1>6 DEF RestartRequest, SessionRecords
  <2>3. UNCHANGED <<owner, listeners, exitSeen, gdb, view>>
    BY <1>6 DEF RestartRequest
  <2> QED
    BY <1>1, <2>1, <2>2, <2>3, TerminateEnds, EndingAlone
<1>7. ASSUME NEW request \in Requests, BeginRelease(s, request)
      PROVE  Ending'
  <2>1. /\ killed \subseteq killed'
        /\ \A b \in Backends \cup {0} :
               \/ mi2'[b] = mi2[b]
               \/ mi2'[b] = 0 /\ (mi2[b] = 0 \/ mi2[b] \in killed')
    <3>1. CASE current = 0
      BY <1>7, <3>1 DEF BeginRelease, ReleaseBackend
    <3>2. CASE current # 0
      BY <1>7, <3>2, TerminateEnds DEF BeginRelease, ReleaseBackend, Types, ManagerOK
    <3> QED
      BY <3>1, <3>2
  <2>2. \A t \in Sessions : /\ session'[t].backend = session[t].backend
                            /\ session'[t].kind = session[t].kind
                            /\ session'[t].phase = session[t].phase
    BY <1>1, <1>7 DEF BeginRelease, SessionRecords
  <2>3. UNCHANGED <<owner, listeners, exitSeen, gdb, view>>
    BY <1>7 DEF BeginRelease
  <2> QED
    BY <1>1, <2>1, <2>2, <2>3, EndingAlone
<1>8. ASSUME NEW request \in Requests, EndWithoutBackend(s, request)
      PROVE  Ending'
  BY <1>1, <1>8, FinishEnds, EndingAlone DEF EndWithoutBackend, backend, process
<1> QED
  BY <1>2, <1>3, <1>4, <1>5, <1>6, <1>7, <1>8 DEF Request

LEMMA ContinuationEnds ==
    ASSUME Types, Ending, NEW s \in Sessions, Continuation(s)
    PROVE  Ending'
<1>1. owner \in [Gdbs -> Backends \cup {0}] /\ session \in [Sessions -> SessionRecords]
  BY DEF Types, BackendOK, FrontOK
<1>2. CASE Initialized(s) \/ Launched(s) \/ LaunchFails(s)
  <2>1. \A t \in Sessions : /\ session'[t].backend = session[t].backend
                            /\ session'[t].kind = session[t].kind
                            /\ \/ session'[t].phase = session[t].phase
                               \/ session'[t].phase \notin {"none", "closed"}
    BY <1>1, <1>2 DEF Initialized, Launched, LaunchFails, SessionRecords
  <2>2. UNCHANGED <<backend, view, gdb, killed, exitSeen>>
    BY <1>2 DEF Initialized, Launched, LaunchFails, process
  <2> QED
    BY <1>1, <2>1, <2>2, EndingAlone DEF backend
<1>3. CASE EndRelease(s)
  <2>1. session[s].releasing \in Requests
    BY <1>1, <1>3 DEF EndRelease, SessionRecords
  <2>2. Finish(s, session[s].releasing) /\ UNCHANGED <<backend, process>>
    BY <1>3 DEF EndRelease
  <2> QED
    BY <1>1, <2>1, <2>2, FinishEnds, EndingAlone DEF backend, process
<1> QED
  BY <1>2, <1>3 DEF Continuation

LEMMA HttpEnds ==
    ASSUME Types, GdbsOwned, Ending, Http
    PROVE  Ending'
<1>1. owner \in [Gdbs -> Backends \cup {0}]
  BY DEF Types, BackendOK
<1>2. ASSUME NEW key \in Keys, HandleCreateDebugger(key)
      PROVE  Ending'
  BY <1>2, CreateEnds DEF HandleCreateDebugger, front
<1>3. CASE HttpTerminate
  BY <1>1, <1>3, TerminateEnds, EndingAlone DEF HttpTerminate, front, Types, ManagerOK
<1>4. ASSUME NEW command \in Commands, HttpExecute(command)
      PROVE  Ending'
  BY <1>1, <1>4, EndingAlone DEF HttpExecute, backend, front
<1> QED
  BY <1>2, <1>3, <1>4 DEF Http

LEMMA EventEnds ==
    ASSUME Types, GdbsOwned, Ending, NEW g \in Gdbs,
           HandleLine(g) \/ HandleExit(g) \/ ProgramStops(g) \/ Dies(g)
    PROVE  Ending'
<1>1. owner \in [Gdbs -> Backends \cup {0}]
      /\ gdb \in [Gdbs -> {"unused", "alive", "failed", "dead"}]
      /\ out \in [Gdbs -> Seq(Events)]
  BY DEF Types, BackendOK, ProcessOK, ProgramOK
<1>2. CASE HandleLine(g)
  <2>1. Head(out[g]) \in Events
    BY <1>1, <1>2 DEF HandleLine
  <2> QED
    BY <1>1, <1>2, <2>1, EmitEnds, EndingAlone DEF HandleLine, backend
<1>3. CASE HandleExit(g)
  <2>1. owner[g] # 0 /\ Emit(g, "exited") /\ exitSeen' = exitSeen \cup {g}
    BY <1>3 DEF HandleExit, GdbsOwned
  <2>2. ASSUME NEW h \in Gdbs, NEW s \in Sessions, h \in exitSeen', h \notin exitSeen,
               session[s].backend = owner[h], session[s].kind = "launch"
        PROVE  view'[s].ended
    <3>1. h = g
      BY <2>1, <2>2
    <3>2. Hears(s, g)
      BY <2>1, <2>2, <3>1 DEF Ending, OwnersListen, Hears
    <3>3. view[s] \in [last : {"none", "running", "stopped"}, ended : BOOLEAN]
      BY DEF Types, FrontOK
    <3> QED
      BY <2>1, <3>2, <3>3 DEF Emit, Told
  <2>3. "exited" \in Events
    BY DEF Events
  <2> QED
    BY <1>1, <1>3, <2>1, <2>2, <2>3, EmitEnds, EndingAlone DEF HandleExit, backend
<1>4. CASE ProgramStops(g)
  BY <1>1, <1>4, EndingAlone DEF ProgramStops, backend, front
<1>5. CASE Dies(g)
  BY <1>1, <1>5, EndingAlone DEF Dies, backend, front
<1> QED
  BY <1>2, <1>3, <1>4, <1>5

LEMMA NextEnding == Types /\ GdbsOwned /\ Ending /\ [Next]_vars => Ending'
<1> SUFFICES ASSUME Types, GdbsOwned, Ending, [Next]_vars PROVE Ending'
  OBVIOUS
<1>1. CASE UNCHANGED vars
  BY <1>1, EndingAlone DEF Types, BackendOK, vars, backend, front, process
<1> QED
  BY <1>1, RequestEnds, ContinuationEnds, HttpEnds, EventEnds DEF Next

-----------------------------------------------------------------------------
(* Theorems. *)

\* The strengthened invariant: the manager's cache, its current backend and the sessions
\* agree, but for what a release under way will still undo (BackendManager.ts:41-124).
THEOREM Invariant == Spec => []IInv
BY InitIInv, NextIInv, PTL DEF Spec

\* Every variable has its type: VS Code is told only of states a program can be in
\* (DebugAdapter.ts:156-183).
THEOREM TypeCorrect == Spec => []TypeOK
<1>1. IInv => TypeOK
  BY DEF IInv, Types, ManagerOK, BackendOK, FrontOK, ProcessOK, ProgramOK, SessionRecords, TypeOK
<1> QED
  BY <1>1, Invariant, PTL

\* However sessions and HTTP requests create, replace and release backends, a backend
\* that has a GDB is in the manager's cache (BackendManager.ts:41-73, 111-124).
THEOREM NoGdbIsForgotten == Spec => []GdbIsCached
<1>1. IInv => GdbIsCached
  BY DEF IInv
<1> QED
  BY <1>1, Invariant, PTL

\* An HTTP request, which comes in a turn of its own, finds no released backend
\* (BackendManager.ts:78-83, 111-124).
THEOREM RequestsReachLiveBackends == Spec => []CurrentIsCached
<1>1. IInv => CurrentIsCached
  BY DEF IInv, CurrentHeld, CurrentIsCached, Quiet
<1> QED
  BY <1>1, Invariant, PTL

\* The view of a session that was launched is the state of the program, and it is told of
\* the program's end and of GDB's, whatever sessions and HTTP requests did meanwhile
\* (DebugAdapter.ts:125-130, 156-183).
THEOREM SessionsSeeTheProgram == Spec => []ViewIsTrue
<1>1. Telling => ViewIsTrue
  <2> SUFFICES ASSUME Telling, NEW g \in Gdbs, NEW s \in Sessions,
                      OnlyGdb(g), s \in listeners[owner[g]], out[g] = <<>>
               PROVE  /\ view[s].last = Shown[target[g]]
                      /\ target[g] = "exited" \/ g \in exitSeen => view[s].ended
    BY DEF ViewIsTrue
  <2>1. ToldOf(g, s)
    BY DEF Telling, ToldSoFar
  <2> QED
    BY <2>1 DEF ToldOf
<1>2. Spec => []Telling
  <2>1. IInv => Types
    BY DEF IInv
  <2> QED
    BY <2>1, InitTelling, NextTelling, Invariant, PTL DEF Spec
<1> QED
  BY <1>1, <1>2, PTL

\* A session whose GDB was terminated under it can always go on to its release: the
\* signal, the exit, VS Code's disconnect or a release under way is due, whatever other
\* sessions and HTTP requests do (GDBBackend.ts:87-108, DebugAdapter.ts:173-177, 586-607).
THEOREM TerminatedIsNotStuck == Spec => []ReleaseGoesOn
<1>1. Types /\ GdbsOwned /\ Ending => ReleaseGoesOn
  <2> SUFFICES ASSUME Types, GdbsOwned, Ending, Quiet, NEW s \in Sessions, NEW b \in Backends,
                      session[s].backend = b, session[s].kind = "launch", mi2[b] = 0,
                      \A g \in Gdbs : owner[g] = b => gdb[g] # "failed"
               PROVE  \/ \E g \in Gdbs : owner[g] = b /\ gdb[g] = "alive" /\ g \in killed
                      \/ \E g \in Gdbs : owner[g] = b /\ gdb[g] = "dead" /\ g \notin exitSeen
                      \/ view[s].ended /\ session[s].phase \notin {"none", "closed"}
    BY DEF ReleaseGoesOn
  <2>1. b # 0
    BY NumbersAreNotZero
  <2>2. session[s].phase \notin {"none", "closed"} /\ \E g \in Gdbs : owner[g] = b
    BY <2>1 DEF Ending, OwnersListen
  <2>3. PICK g \in Gdbs : owner[g] = b /\ IsLast(g)
    BY <2>1, <2>2 DEF Ending, HasLast
  <2>4. g \in killed
    BY <2>3, NumbersAreNotZero DEF Ending, LastIsHeld
  <2>5. gdb[g] = "alive" \/ gdb[g] = "dead"
    BY <2>1, <2>3 DEF GdbsOwned, Types, ProcessOK
  <2>6. g \in exitSeen => view[s].ended
    BY <2>3 DEF Ending, ToldOfLast
  <2> QED
    BY <2>2, <2>3, <2>4, <2>5, <2>6
<1>2. IInv => Types
  BY DEF IInv
<1>3. Telling => GdbsOwned
  BY DEF Telling, Listening
<1>4. Spec => []Telling
  BY <1>2, InitTelling, NextTelling, Invariant, PTL DEF Spec
<1>5. Spec => []Ending
  BY <1>2, <1>3, <1>4, InitEnding, NextEnding, Invariant, PTL DEF Spec
<1> QED
  BY <1>1, <1>2, <1>3, <1>4, <1>5, Invariant, PTL
=============================================================================
