--------------------------- MODULE Adapter_proofs ---------------------------
(***************************************************************************)
(* Proofs about Adapter, for every number of requests: each handler        *)
(* answers its request at most once, and an answer of success is given     *)
(* for what was done and for what was asked, but for what SuccessMeansDone *)
(* excepts.                                                                *)
(***************************************************************************)
EXTENDS Adapter, TLAPS

Commands == Dispatched \cup {"custom"}
Stages == {"new", "initializing", "launching", "calling", "threads", "starting", "ending", "over"}

Responses ==
    [command : Commands, stage : Stages, place : {"none", "same", "elsewhere"}, seq : {0, 1},
     tries : {0, 1}, success : BOOLEAN, done : BOOLEAN]

\* A handler that is not over has not answered, but for configurationDone, and one that is
\* over has; the two handlers that answer success for what was not done are those of lenient
\* commands.  What is asked of the backend is what the request names, or else misplaced.
Awaits(r) ==
    /\ r.stage \notin {"over", "starting"} => r.seq = 0 /\ r.tries = 0
    /\ r.stage \in {"over", "starting"} => r.seq = 1
    /\ r.stage # "new"
    /\ r.stage = "starting" => r.command = "configurationDone"
    /\ r.stage = "threads" => r.command = "threads"
    /\ r.stage = "calling" => r.place = "same" \/ Misplaced(r)

\* An answer of success is given for what was done.
Honest(r) ==
    r.seq # 0 /\ r.success /\ r.command \notin Unserved \cup Lenient /\ ~Misplaced(r) => r.done

RequestOK(r) == r \in Responses /\ Awaits(r) /\ Honest(r)

RequestsOK == requests \in Seq(Responses) /\ \A i \in DOMAIN requests : RequestOK(requests[i])

\* The reference of a scope that was shown stands for that scope for good: references are
\* not used twice.
HandlesOK ==
    /\ handles.next \in Nat
    /\ \A s \in shown : /\ s.ref \in Nat /\ s.ref < handles.next
                        /\ s.ref \in DOMAIN handles.map /\ handles.map[s.ref] = s.name

IInv == RequestsOK /\ HandlesOK /\ capabilities \subseteq Advertised

-----------------------------------------------------------------------------
(* The operations of the library on a response. *)

LEMMA NewType ==
    ASSUME NEW command \in Commands
    PROVE  /\ New(command) \in Responses
           /\ New(command).command = command /\ New(command).stage = "new"
           /\ New(command).seq = 0 /\ New(command).tries = 0 /\ New(command).place = "none"
BY DEF New, Responses, Stages

LEMMA SendType ==
    ASSUME NEW r \in Responses, r.seq = 0, r.tries = 0
    PROVE  /\ SendResponse(r) \in Responses /\ SendErrorResponse(r) \in Responses
           /\ SendResponse(r).stage = "over" /\ SendErrorResponse(r).stage = "over"
           /\ SendResponse(r).command = r.command /\ SendErrorResponse(r).command = r.command
           /\ SendResponse(r).seq = 1 /\ SendErrorResponse(r).seq = 1
           /\ SendResponse(r).done = r.done /\ SendResponse(r).place = r.place
           /\ ~SendErrorResponse(r).success
<1>1. SendResponse(r) = [r EXCEPT !.seq = 1, !.tries = 1, !.stage = "over"]
  <2>1. [r EXCEPT !.seq = 1].tries + 1 = 1
    BY DEF Responses
  <2> QED
    BY <2>1 DEF SendResponse, Sent
<1>2. /\ SendResponse(r) \in Responses /\ SendResponse(r).stage = "over"
      /\ SendResponse(r).seq = 1 /\ SendResponse(r).command = r.command
      /\ SendResponse(r).done = r.done /\ SendResponse(r).place = r.place
  BY <1>1 DEF Responses, Stages
<1>3. SendErrorResponse(r) = [SendResponse(r) EXCEPT !.success = FALSE]
  BY DEF SendErrorResponse
<1> QED
  BY <1>2, <1>3 DEF Responses

\* A response that was refused, done, or sent for a lenient or unserved command is right.
LEMMA AnsweredOK ==
    ASSUME NEW r \in Responses, r.seq = 0, r.tries = 0
    PROVE  /\ RequestOK(SendErrorResponse(r))
           /\ RequestOK(Done(SendResponse(r)))
           /\ RequestOK(Over(r))
           /\ r.command \in Unserved \cup Lenient \/ Misplaced(r) => RequestOK(SendResponse(r))
           /\ r.done => RequestOK(SendResponse(r))
<1>1. RequestOK(SendErrorResponse(r))
  BY SendType DEF RequestOK, Awaits, Honest
<1>2. /\ Done(SendResponse(r)) \in Responses
      /\ Done(SendResponse(r)).stage = "over" /\ Done(SendResponse(r)).seq = 1
      /\ Done(SendResponse(r)).done
  BY SendType DEF Done, Responses
<1>3. RequestOK(Done(SendResponse(r)))
  BY <1>2 DEF RequestOK, Awaits, Honest
<1>4. r.command \in Unserved \cup Lenient \/ Misplaced(r) => RequestOK(SendResponse(r))
  BY SendType DEF RequestOK, Awaits, Honest, Misplaced
<1>5. RequestOK(Over(r))
  BY <1>3, <1>4 DEF Over, Unserved
<1> QED
  BY <1>1, <1>3, <1>4, <1>5, SendType DEF RequestOK, Awaits, Honest

\* A new request goes on to await the backend.
LEMMA PendingOK ==
    ASSUME NEW command \in Commands,
           NEW stage \in Stages \ {"new", "over", "starting", "calling"},
           stage = "threads" => command = "threads"
    PROVE  RequestOK([New(command) EXCEPT !.stage = stage])
BY DEF RequestOK, Awaits, Honest, New, Responses, Stages

\* A new request goes on to ask the backend, for what it names or for what is selected.
LEMMA CallingOK ==
    ASSUME NEW command \in Commands, NEW place \in {"same", "elsewhere"},
           place = "elsewhere" => command \in {"scopes", "variables"} \cup Stepping
    PROVE  RequestOK(Calls(command, place))
BY DEF RequestOK, Awaits, Honest, New, Calls, Responses, Stages, Misplaced

\* VS Code sends nothing that the library answers by default but what is listed as unserved.
LEMMA DefaultIsUnserved ==
    ASSUME NEW command \in Commands, May(command), Handler(command) = "default",
           capabilities \subseteq Advertised
    PROVE  command \in Unserved
<1>1. command \in Dispatched /\ MethodOf(command) \notin Overridden
  BY DEF Handler, Commands, Dispatched
<1>2. command \notin {"setBreakpoints", "setFunctionBreakpoints", "setExceptionBreakpoints"} =>
          MethodOf(command) = command
  BY DEF MethodOf
<1>3. command \notin {"initialize", "launch", "attach"}
  BY <1>1, <1>2 DEF Overridden
<1>4. command \in DOMAIN Capability => Capability[command] \in Advertised
  BY <1>3 DEF May
<1>5. command \in DOMAIN Capability =>
          command \in {"configurationDone", "restart", "terminate", "gotoTargets", "goto",
                       "disassemble", "readMemory", "writeMemory", "setVariable"}
  BY <1>4 DEF Capability, Advertised
<1>6. command \notin DOMAIN Capability =>
          command \in
              Overridden \cup {"setBreakpoints", "setExceptionBreakpoints", "pause", "source"}
  BY <1>1 DEF Capability, Dispatched, Overridden
<1> QED
  BY <1>1, <1>2, <1>5, <1>6 DEF Unserved, Overridden

LEMMA Received ==
    ASSUME RequestsOK, NEW r, RequestOK(r), Receive(r)
    PROVE  RequestsOK'
<1>1. r \in Responses
  BY DEF RequestOK
<1>2. /\ requests' \in Seq(Responses) /\ Len(requests) \in Nat
      /\ Len(requests') = Len(requests) + 1 /\ requests'[Len(requests) + 1] = r
      /\ \A i \in 1..Len(requests) : requests'[i] = requests[i]
      /\ DOMAIN requests = 1..Len(requests) /\ DOMAIN requests' = 1..Len(requests')
  BY <1>1 DEF RequestsOK, Receive
<1>3. \A i \in DOMAIN requests' : i \in DOMAIN requests \/ i = Len(requests) + 1
  BY <1>2
<1> QED
  BY <1>2, <1>3 DEF RequestsOK

LEMMA Went ==
    ASSUME RequestsOK, NEW i \in DOMAIN requests, NEW r, RequestOK(r), Goes(i, r)
    PROVE  RequestsOK'
<1>1. r \in Responses
  BY DEF RequestOK
<1>2. /\ requests' \in Seq(Responses) /\ DOMAIN requests' = DOMAIN requests
      /\ \A j \in DOMAIN requests : requests'[j] = IF j = i THEN r ELSE requests[j]
  BY <1>1 DEF RequestsOK, Goes
<1> QED
  BY <1>2 DEF RequestsOK

-----------------------------------------------------------------------------
(* Initial states and steps. *)

LEMMA InitIInv == Init => IInv
BY DEF Init, IInv, RequestsOK, HandlesOK

LEMMA ScopesStep ==
    ASSUME HandlesOK, ScopesRequest
    PROVE  HandlesOK'
<1> DEFINE next == handles.next
           new == [k \in DOMAIN ScopeNames |-> Create(k)]
           added == {new[k] : k \in DOMAIN new}
           Last(ref) == CHOOSE k \in DOMAIN new :
               new[k] = ref /\ \A j \in DOMAIN new : new[j] = ref => j <= k
           map == [ref \in DOMAIN handles.map \cup added |->
                      IF ref \in added THEN ScopeNames[Last(ref)] ELSE handles.map[ref]]
<1>1. DOMAIN ScopeNames = 1..3 /\ Len(ScopeNames) = 3 /\ next \in Nat
  BY DEF ScopeNames, HandlesOK
<1>2. PICK asked \in Selectable :
          /\ handles' = [next |-> next + Len(ScopeNames), map |-> map]
          /\ shown' = shown \cup {[name |-> ScopeNames[k], frame |-> asked, ref |-> new[k]] :
                                     k \in DOMAIN new}
  BY DEF ScopesRequest
<1>3. DOMAIN new = 1..3 /\ \A k \in 1..3 : new[k] = next + k - 1
  BY <1>1 DEF Create
<1> HIDE DEF new
<1>4. \A k \in 1..3 : Last(new[k]) = k
  <2> SUFFICES ASSUME NEW k \in 1..3 PROVE Last(new[k]) = k
    OBVIOUS
  <2>1. \A j \in 1..3 : new[j] = new[k] => j = k
    BY <1>1, <1>3
  <2>2. \E l \in DOMAIN new : new[l] = new[k] /\ \A j \in DOMAIN new : new[j] = new[k] => j <= l
    BY <1>3, <2>1
  <2>3. Last(new[k]) \in DOMAIN new /\ new[Last(new[k])] = new[k]
    BY <2>2
  <2> QED
    BY <1>3, <2>1, <2>3
<1>5. \A k \in 1..3 : new[k] \in added
  BY <1>3
<1> HIDE DEF Last
<1>6. \A k \in 1..3 : map[new[k]] = ScopeNames[k] /\ new[k] \in DOMAIN map
  BY <1>4, <1>5
<1>7. \A ref \in DOMAIN handles.map : ref < next /\ ref \in Nat =>
          ref \in DOMAIN map /\ map[ref] = handles.map[ref]
  <2>1. \A ref \in added : ref \notin Nat \/ ref >= next
    BY <1>1, <1>3
  <2> QED
    BY <1>1, <2>1
<1> HIDE DEF map
<1>8. handles'.next = next + 3 /\ handles'.map = map
  BY <1>1, <1>2
<1>9. ASSUME NEW s \in shown'
      PROVE  /\ s.ref \in Nat /\ s.ref < handles'.next
             /\ s.ref \in DOMAIN handles'.map /\ handles'.map[s.ref] = s.name
  <2>1. CASE s \in shown
    <3>1. /\ s.ref \in Nat /\ s.ref < next
          /\ s.ref \in DOMAIN handles.map /\ handles.map[s.ref] = s.name
      BY <2>1 DEF HandlesOK
    <3> QED
      BY <1>1, <1>7, <1>8, <3>1
  <2>2. CASE s \notin shown
    <3>1. PICK k \in 1..3 : s = [name |-> ScopeNames[k], frame |-> asked, ref |-> new[k]]
      BY <1>2, <1>3, <2>2
    <3>2. new[k] \in Nat /\ new[k] < next + 3
      BY <1>1, <1>3
    <3> QED
      BY <1>6, <1>8, <3>1, <3>2
  <2> QED
    BY <2>1, <2>2
<1> QED
  BY <1>1, <1>8, <1>9 DEF HandlesOK

LEMMA RequestStep ==
    ASSUME IInv, Request
    PROVE  IInv'
<1> USE DEF IInv
<1>0. \A command \in Commands :
          /\ RequestOK(SendErrorResponse(New(command)))
          /\ RequestOK(Done(SendResponse(New(command))))
          /\ RequestOK(Over(New(command)))
          /\ command \in Unserved \cup Lenient => RequestOK(SendResponse(New(command)))
  BY NewType, AnsweredOK
<1>a. {"initialize", "scopes", "variables", "threads", "configurationDone", "custom", "launch",
       "attach", "restart", "terminate", "disconnect"} \cup Calling \subseteq Commands
  BY DEF Commands, Dispatched, Calling
<1>b. {"initializing", "threads", "ending"}
          \subseteq Stages \ {"new", "over", "starting", "calling"}
  BY DEF Stages
<1>1. CASE InitializeRequest
  <2>1. \/ Receive(SendErrorResponse(New("initialize"))) /\ capabilities' = capabilities
        \/ Receive(Done(SendResponse(New("initialize")))) /\ capabilities' = Advertised
    BY <1>1 DEF InitializeRequest
  <2> QED
    BY <1>0, <1>a, <1>1, <2>1, Received DEF InitializeRequest, HandlesOK, adapter
<1>2. ASSUME NEW command \in {"launch", "attach"}, OpenRequest(command)
      PROVE  IInv'
  <2>1. \/ Receive(SendErrorResponse(New(command)))
        \/ Receive([New(command) EXCEPT !.stage = "initializing"])
    BY <1>2 DEF OpenRequest
  <2>2. RequestOK([New(command) EXCEPT !.stage = "initializing"])
    BY <1>a, <1>b, PendingOK
  <2>3. RequestsOK'
    BY <1>0, <1>a, <2>1, <2>2, Received
  <2> QED
    BY <1>2, <2>3 DEF OpenRequest, HandlesOK
<1>3. CASE ScopesRequest
  <2> DEFINE n == New("scopes")
  <2>1. PICK asked \in Selectable, selected \in Selectable :
            Receive(IF asked = selected
                    THEN Done(SendResponse([n EXCEPT !.place = Place(asked, selected)]))
                    ELSE SendResponse([n EXCEPT !.place = Place(asked, selected)]))
    BY <1>3 DEF ScopesRequest
  <2>2. PICK placed : placed = [n EXCEPT !.place = Place(asked, selected)]
    OBVIOUS
  <2>3. /\ placed \in Responses /\ placed.seq = 0 /\ placed.tries = 0
        /\ asked # selected => Misplaced(placed)
    BY <1>a, <2>2 DEF New, Responses, Stages, Place, Misplaced
  <2>4. /\ RequestOK(Done(SendResponse(placed)))
        /\ asked # selected => RequestOK(SendResponse(placed))
    BY <2>3, AnsweredOK
  <2>5. RequestsOK'
    BY <2>1, <2>2, <2>4, Received
  <2> QED
    BY <1>3, <2>5, ScopesStep DEF ScopesRequest
<1>4. CASE VariablesRequest
  <2>1. PICK s \in shown, selected \in Selectable :
            Receive(IF ~backend THEN Refused(New("variables"))
                    ELSE Calls("variables",
                               IF handles.map[s.ref] # s.name THEN "other"
                               ELSE IF s.name = "globals" THEN "same"
                               ELSE Place(s.frame, selected)))
    BY <1>4, ZenonT(30) DEF VariablesRequest
  <2>2. handles.map[s.ref] = s.name
    BY DEF HandlesOK
  <2>3. PICK place \in {"same", "elsewhere"} :
            place = IF s.name = "globals" THEN "same" ELSE Place(s.frame, selected)
    BY DEF Place
  <2>4. \/ Receive(SendErrorResponse(New("variables")))
        \/ Receive(Calls("variables", place))
    BY <2>1, <2>2, <2>3 DEF Refused
  <2>5. RequestOK(Calls("variables", place))
    BY <1>a, CallingOK
  <2>6. RequestsOK'
    BY <1>0, <1>a, <2>4, <2>5, Received
  <2> QED
    BY <1>4, <2>6 DEF VariablesRequest, HandlesOK, adapter
<1>5. CASE ThreadsRequest
  <2>1. RequestOK([New("threads") EXCEPT !.stage = "threads"])
    BY <1>a, <1>b, PendingOK
  <2>2. RequestOK(SendResponse(New("threads")))
    BY <1>0, <1>a DEF Lenient
  <2>3. RequestsOK'
    BY <1>5, <2>1, <2>2, Received DEF ThreadsRequest
  <2> QED
    BY <1>5, <2>3 DEF ThreadsRequest, HandlesOK, adapter
<1>6. CASE ConfigurationDoneRequest
  <2> DEFINE answered == SendResponse(New("configurationDone"))
  <2>1. /\ RequestOK(answered) /\ answered \in Responses /\ answered.seq = 1
        /\ answered.command = "configurationDone"
    BY <1>0, <1>a, NewType, SendType DEF Lenient
  <2>2. Receive(answered) \/ Receive([answered EXCEPT !.stage = "starting"])
    BY <1>6 DEF ConfigurationDoneRequest
  <2> HIDE DEF answered
  <2>3. RequestOK([answered EXCEPT !.stage = "starting"])
    BY <2>1 DEF RequestOK, Awaits, Honest, Responses, Stages, Lenient
  <2>4. RequestsOK'
    BY <2>1, <2>2, <2>3, Received
  <2> QED
    BY <1>6, <2>4 DEF ConfigurationDoneRequest, HandlesOK, adapter
<1>7. ASSUME NEW command \in Calling, BackendRequest(command)
      PROVE  IInv'
  <2>1. PICK asked \in Selectable, selected \in Selectable :
            /\ command \notin Stepping => asked = selected
            /\ Receive(IF backend THEN Calls(command, Place(asked, selected))
                       ELSE Refused(New(command)))
    BY <1>7, ZenonT(30) DEF BackendRequest
  <2>2. PICK place \in {"same", "elsewhere"} :
            place = Place(asked, selected) /\ (place = "elsewhere" => command \in Stepping)
    BY <2>1 DEF Place
  <2>3. RequestOK(Calls(command, place))
    BY <1>a, <2>2, CallingOK
  <2>4. RequestsOK'
    BY <1>0, <1>a, <2>1, <2>2, <2>3, Received DEF Refused
  <2> QED
    BY <1>7, <2>4 DEF BackendRequest, HandlesOK, adapter
<1>8. ASSUME NEW command \in {"restart", "terminate", "disconnect"}, EndRequest(command)
      PROVE  IInv'
  <2>1. RequestOK([New(command) EXCEPT !.stage = "ending"])
    BY <1>a, <1>b, PendingOK
  <2>2. RequestsOK'
    BY <1>0, <1>a, <1>8, <2>1, Received DEF EndRequest
  <2> QED
    BY <1>8, <2>2 DEF EndRequest, HandlesOK, adapter
<1>9. ASSUME NEW command \in Commands, DefaultRequest(command) \/ CustomRequest(command)
      PROVE  IInv'
  <2>1. UNCHANGED <<capabilities, adapter>>
    BY <1>9 DEF DefaultRequest, CustomRequest
  <2>2. CASE DefaultRequest(command)
    <3>1. command \in Unserved
      BY <2>2, DefaultIsUnserved DEF DefaultRequest
    <3>2. RequestsOK'
      BY <1>0, <2>2, <3>1, Received DEF DefaultRequest
    <3> QED
      BY <2>1, <3>2 DEF HandlesOK, adapter
  <2>3. CASE CustomRequest(command)
    <3>1. RequestsOK'
      BY <1>0, <2>3, Received DEF CustomRequest
    <3> QED
      BY <2>1, <3>1 DEF HandlesOK, adapter
  <2> QED
    BY <1>9, <2>2, <2>3
<1> QED
  BY <1>1, <1>2, <1>3, <1>4, <1>5, <1>6, <1>7, <1>8, <1>9 DEF Request, Commands

LEMMA SettlesStep ==
    ASSUME IInv, NEW i \in DOMAIN requests, Settles(i)
    PROVE  IInv'
<1> USE DEF IInv
<1> DEFINE r == requests[i]
<1>0. RequestOK(r) /\ r \in Responses
  BY DEF RequestsOK, RequestOK
<1>1. UNCHANGED <<capabilities, handles, shown>>
  BY DEF Settles, BackendInitialized, BackendLaunched, CallResolved, ThreadsResolved, Started,
     Ended, Rejected, adapter
<1>2. PICK after : Goes(i, after) /\ RequestOK(after)
  <2>1. r.stage \notin {"over", "starting"} => r.seq = 0 /\ r.tries = 0
    BY <1>0 DEF RequestOK, Awaits
  <2>2. r.stage \notin {"over", "starting"} =>
            /\ RequestOK(SendErrorResponse(r)) /\ RequestOK(Over(r))
            /\ RequestOK(Done(SendResponse(r)))
    BY <1>0, <2>1, AnsweredOK
  <2>3. CASE BackendInitialized(i)
    <3>1. r.stage = "initializing" => RequestOK([r EXCEPT !.stage = "launching"])
      BY <1>0 DEF RequestOK, Awaits, Honest, Responses, Stages
    <3> QED
      BY <2>2, <2>3, <3>1 DEF BackendInitialized
  <2>4. CASE BackendLaunched(i) \/ ThreadsResolved(i) \/ Ended(i)
    BY <2>2, <2>4 DEF BackendLaunched, ThreadsResolved, Ended
  <2>5. CASE CallResolved(i)
    <3> DEFINE d == [r EXCEPT !.done = (r.place = "same")]
    <3>1. r.stage = "calling" /\ Goes(i, SendResponse(d))
      BY <2>5 DEF CallResolved
    <3>2. r.place = "same" \/ Misplaced(r)
      BY <1>0, <3>1 DEF RequestOK, Awaits
    <3>3. /\ d \in Responses /\ d.seq = 0 /\ d.tries = 0
          /\ d.done \/ Misplaced(d)
      BY <1>0, <2>1, <3>1, <3>2 DEF Responses, Misplaced
    <3>4. RequestOK(SendResponse(d))
      BY <3>3, AnsweredOK
    <3> QED
      BY <3>1, <3>4
  <2>6. CASE Started(i)
    <3>1. r \in Responses /\ r.seq = 1
      BY <1>0, <2>6 DEF Started, RequestOK, Awaits
    <3>2. Done([r EXCEPT !.stage = "over"]) = [r EXCEPT !.stage = "over", !.done = TRUE]
      BY <3>1 DEF Done, Responses
    <3>3. RequestOK([r EXCEPT !.stage = "over", !.done = TRUE])
      BY <3>1 DEF RequestOK, Awaits, Honest, Responses, Stages
    <3> QED
      BY <2>6, <3>2, <3>3 DEF Started
  <2>7. CASE Rejected(i)
    <3>1. r.stage # "over" /\ Goes(i, Caught(r))
      BY <2>7 DEF Rejected
    <3>2. CASE r.stage = "threads"
      <4>1. r.command \in Lenient
        BY <1>0, <3>2 DEF RequestOK, Awaits, Lenient
      <4> QED
        BY <1>0, <2>1, <3>1, <3>2, <4>1, AnsweredOK DEF Caught
    <3>3. CASE r.stage = "starting"
      <4>1. RequestOK([r EXCEPT !.stage = "over"])
        BY <1>0, <3>3 DEF RequestOK, Awaits, Honest, Responses, Stages, Lenient
      <4> QED
        BY <3>1, <3>3, <4>1 DEF Caught
    <3>4. CASE r.stage \notin {"threads", "starting"}
      BY <2>2, <3>1, <3>4 DEF Caught
    <3> QED
      BY <3>2, <3>3, <3>4
  <2> QED
    BY <2>3, <2>4, <2>5, <2>6, <2>7 DEF Settles
<1>3. RequestsOK'
  BY <1>2, Went
<1> QED
  BY <1>1, <1>3 DEF HandlesOK

LEMMA NextIInv == IInv /\ [Next]_vars => IInv'
<1> SUFFICES ASSUME IInv, [Next]_vars PROVE IInv'
  OBVIOUS
<1>1. CASE Event \/ UNCHANGED vars
  BY <1>1 DEF Event, vars, IInv, RequestsOK, HandlesOK
<1> QED
  BY <1>1, RequestStep, SettlesStep DEF Next

\* Every request is at a stage of its handler, with the answers that stage has given and
\* no other, and VS Code holds only handles of scopes it was shown
\* (DebugAdapter.ts:97-607).
THEOREM Invariant == Spec => []IInv
BY InitIInv, NextIInv, PTL DEF Spec

-----------------------------------------------------------------------------
(* Theorems. *)

\* No handler answers its request twice, however the promises it awaits settle and
\* whatever ends the backend meanwhile (DebugAdapter.ts:222-607).
THEOREM AnswersOnce == Spec => []NoSecondAnswer
<1>1. IInv => NoSecondAnswer
  BY DEF IInv, RequestsOK, RequestOK, Responses, NoSecondAnswer
<1> QED
  BY <1>1, Invariant, PTL

\* An answer of success means that the backend was asked for what VS Code asked and did it, by
\* the tables of commands, methods, overrides and capabilities and because no reference of a
\* scope stands for another; but for the commands listed, restart and setBreakpoints among
\* them, and for a step, scopes or variables of another thread or frame than the one GDB has
\* selected (DebugAdapter.ts:97-607).
THEOREM SuccessIsHonest == Spec => []SuccessMeansDone
<1>1. IInv => SuccessMeansDone
  BY DEF IInv, RequestsOK, RequestOK, Honest, SuccessMeansDone
<1> QED
  BY <1>1, Invariant, PTL

\* DebugAdapter.ts, the catch of every handler: a request without an answer awaits a promise,
\* and when it settles, either way, the handler goes on.
THEOREM NobodyIsLeftOut == Spec => []NoneIsLeftOut
<1>1. IInv => NoneIsLeftOut
  BY DEF IInv, RequestsOK, RequestOK, Awaits, Responses, Stages, NoneIsLeftOut
<1> QED
  BY <1>1, Invariant, PTL

\* What a handler does with a promise that settles.
LEMMA SettlesGoesOn ==
    ASSUME IInv, NEW i \in DOMAIN requests, Settles(i)
    PROVE  /\ DOMAIN requests' = DOMAIN requests
           /\ \A j \in DOMAIN requests : j # i => requests'[j] = requests[j]
           /\ <<requests[i].stage, requests'[i].stage>> \in Onward
           /\ requests[i].seq # 0 => /\ requests'[i].seq = requests[i].seq
                                     /\ requests'[i].success = requests[i].success
<1> DEFINE r == requests[i]
<1>1. r \in Responses /\ Awaits(r) /\ requests \in Seq(Responses)
  BY DEF IInv, RequestsOK, RequestOK
<1>2. ASSUME NEW after, Goes(i, after)
      PROVE  /\ DOMAIN requests' = DOMAIN requests /\ requests'[i] = after
             /\ \A j \in DOMAIN requests : j # i => requests'[j] = requests[j]
  BY <1>1, <1>2 DEF Goes
<1>3. r.stage \notin {"over", "starting"} =>
          /\ r.seq = 0 /\ r.tries = 0
          /\ SendErrorResponse(r).stage = "over" /\ SendResponse(r).stage = "over"
          /\ Done(SendResponse(r)).stage = "over"
  <2>1. SUFFICES ASSUME r.stage \notin {"over", "starting"}
                 PROVE  /\ r.seq = 0 /\ r.tries = 0
                        /\ SendErrorResponse(r).stage = "over" /\ SendResponse(r).stage = "over"
                        /\ Done(SendResponse(r)).stage = "over"
    OBVIOUS
  <2>2. r.seq = 0 /\ r.tries = 0
    BY <1>1, <2>1 DEF Awaits
  <2>3. SendResponse(r) \in Responses
    BY <1>1, <2>2, SendType
  <2> QED
    BY <1>1, <2>2, <2>3, SendType DEF Done, Responses
<1>4. CASE BackendInitialized(i)
  <2>1. r.stage = "initializing"
    BY <1>4 DEF BackendInitialized
  <2>2. [r EXCEPT !.stage = "launching"].stage = "launching"
    BY <1>1 DEF Responses
  <2> QED
    BY <1>2, <1>3, <1>4, <2>1, <2>2 DEF BackendInitialized, Onward
<1>5. CASE BackendLaunched(i) \/ ThreadsResolved(i) \/ Ended(i)
  <2>1. PICK after \in {SendResponse(r), Done(SendResponse(r))} :
            r.stage \in {"launching", "threads", "ending"} /\ Goes(i, after)
    BY <1>5 DEF BackendLaunched, ThreadsResolved, Ended, Over
  <2> QED
    BY <1>2, <1>3, <2>1 DEF Onward
<1>6. CASE CallResolved(i)
  <2> DEFINE d == [r EXCEPT !.done = (r.place = "same")]
  <2>1. r.stage = "calling" /\ Goes(i, SendResponse(d))
    BY <1>6 DEF CallResolved
  <2>2. r.seq = 0 /\ r.tries = 0
    BY <1>3, <2>1
  <2>3. d \in Responses /\ d.seq = 0 /\ d.tries = 0
    BY <1>1, <2>2 DEF Responses
  <2>4. SendResponse(d).stage = "over"
    BY <2>3, SendType
  <2> QED
    BY <1>2, <2>1, <2>2, <2>4 DEF Onward
<1>7. CASE Started(i)
  <2>1. r.stage = "starting" /\ Goes(i, Done([r EXCEPT !.stage = "over"]))
    BY <1>7 DEF Started
  <2>2. Done([r EXCEPT !.stage = "over"]) = [r EXCEPT !.stage = "over", !.done = TRUE]
    BY <1>1 DEF Done, Responses
  <2>3. /\ [r EXCEPT !.stage = "over", !.done = TRUE].stage = "over"
        /\ [r EXCEPT !.stage = "over", !.done = TRUE].seq = r.seq
        /\ [r EXCEPT !.stage = "over", !.done = TRUE].success = r.success
    BY <1>1 DEF Responses
  <2> QED
    BY <1>2, <2>1, <2>2, <2>3 DEF Onward
<1>8. CASE Rejected(i)
  <2>1. r.stage # "over" /\ Goes(i, Caught(r)) /\ r.stage \in Stages /\ r.stage # "new"
    BY <1>1, <1>8 DEF Rejected, Responses, Awaits
  <2>2. CASE r.stage = "starting"
    <3>1. Caught(r) = [r EXCEPT !.stage = "over"]
      BY <2>2 DEF Caught
    <3>2. /\ [r EXCEPT !.stage = "over"].stage = "over" /\ [r EXCEPT !.stage = "over"].seq = r.seq
          /\ [r EXCEPT !.stage = "over"].success = r.success
      BY <1>1 DEF Responses
    <3> QED
      BY <1>2, <2>1, <2>2, <3>1, <3>2 DEF Onward
  <2>3. CASE r.stage # "starting"
    <3>1. Caught(r) \in {SendResponse(r), SendErrorResponse(r)}
      BY <2>3 DEF Caught
    <3> QED
      BY <1>2, <1>3, <2>1, <2>3, <3>1 DEF Onward, Stages
  <2> QED
    BY <2>2, <2>3
<1> QED
  BY <1>4, <1>5, <1>6, <1>7, <1>8 DEF Settles

\* DebugAdapter.ts:222-607: a handler is over after at most two promises, and takes no answer
\* back.
THEOREM HandlersEnd == Spec => HandlersGoOn
<1> DEFINE Go == \A i \in DOMAIN requests :
                     /\ i \in DOMAIN requests'
                     /\ requests'[i] # requests[i] =>
                            /\ <<requests[i].stage, requests'[i].stage>> \in Onward
                            /\ requests[i].seq # 0 =>
                                   /\ requests'[i].seq = requests[i].seq
                                   /\ requests'[i].success = requests[i].success
<1>1. ASSUME IInv, Next PROVE Go
  <2>1. CASE Event
    BY <2>1 DEF Event
  <2>2. CASE \E i \in DOMAIN requests : Settles(i)
    BY <1>1, <2>2, SettlesGoesOn
  <2>3. CASE Request
    <3>1. \E r : Receive(r)
      <4>1. CASE InitializeRequest \/ ThreadsRequest \/ ConfigurationDoneRequest
        BY <4>1 DEF InitializeRequest, ThreadsRequest, ConfigurationDoneRequest
      <4>2. CASE ScopesRequest
        BY <4>2 DEF ScopesRequest
      <4>3. CASE VariablesRequest
        BY <4>3 DEF VariablesRequest
      <4>4. ASSUME NEW command, OpenRequest(command) \/ BackendRequest(command)
            PROVE  \E r : Receive(r)
        <5>1. CASE OpenRequest(command)
          BY <5>1 DEF OpenRequest
        <5>2. CASE BackendRequest(command)
          BY <5>2, ZenonT(30) DEF BackendRequest
        <5> QED
          BY <4>4, <5>1, <5>2
      <4>5. ASSUME NEW command,
                   EndRequest(command) \/ DefaultRequest(command) \/ CustomRequest(command)
            PROVE  \E r : Receive(r)
        BY <4>5 DEF EndRequest, DefaultRequest, CustomRequest
      <4> QED
        BY <2>3, <4>1, <4>2, <4>3, <4>4, <4>5 DEF Request
    <3> QED
      BY <1>1, <3>1 DEF Receive, IInv, RequestsOK
  <2> QED
    BY <1>1, <2>1, <2>2, <2>3 DEF Next
<1>2. IInv /\ [Next]_vars => [Go]_vars
  BY <1>1
<1> QED
  BY <1>2, Invariant, PTL DEF Spec, HandlersGoOn
=============================================================================
