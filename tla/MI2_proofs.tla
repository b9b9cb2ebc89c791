----------------------------- MODULE MI2_proofs -----------------------------
(***************************************************************************)
(* Theorems about MI2 for any number of callers and init commands, and any *)
(* set of result classes.  One inductive invariant carries them all.       *)
(***************************************************************************)
EXTENDS MI2, TLAPS

\* There is room for the next call.
Numbering ==
    /\ initIssued <= InitCount
    /\ ~readyHandled => initIssued = 0 /\ \A c \in 1..calls : kind[c] # "init"
    /\ calls - initIssued <= MaxUser

\* Calls are numbered without gaps.
NoGaps == \A c \in Calls : c > calls <=> status[c] = "uncalled"

\* A token has been handed out, and to a call that has been sent; a pending
\* one belongs to a call that still waits.
TokenUse ==
    /\ \A t \in pendingCommands : t < token
    /\ \A c \in Calls : sentAs[c] < token
    /\ \A c \in Calls : sentAs[c] # 0 => status[c] \notin {"uncalled", "queued"}
    /\ \A c \in Calls : sentAs[c] \in pendingCommands => status[c] = "waiting"

\* A result on its way to the proxy is an answer GDB gave.
Honest ==
    \A i \in 1..Len(stdout) :
        stdout[i].type = "result" => <<stdout[i].token, stdout[i].class>> \in answered

CallsInv == NoGaps /\ TokenUse /\ CallOrder /\ RepliesMatch /\ NoOrphan

IInv == TypeOK /\ Numbering /\ Honest /\ CallsInv

-----------------------------------------------------------------------------
LEMMA MaxCallsNat == MaxCalls \in Nat
BY ConstantsAssumption DEF MaxCalls

LEMMA AppendCallType ==
    ASSUME TypeOK, calls < MaxCalls, NEW k \in Kinds, AppendCall(k)
    PROVE  /\ calls' \in 0..MaxCalls
           /\ kind' \in [Calls -> Kinds]
           /\ status' \in [Calls -> Statuses]
<1>1. calls' \in 0..MaxCalls
  BY MaxCallsNat DEF TypeOK, AppendCall
<1>2. kind' \in [Calls -> Kinds]
  BY DEF TypeOK, AppendCall
<1>3. status' \in [Calls -> Statuses]
  BY DEF TypeOK, AppendCall, Statuses
<1> QED
  BY <1>1, <1>2, <1>3

LEMMA SettleType ==
    ASSUME TypeOK, NEW cs, NEW s \in Settled, Settle(cs, s)
    PROVE  status' \in [Calls -> Statuses]
BY DEF TypeOK, Settle, Statuses

LEMMA OnReadyType ==
    ASSUME TypeOK, Numbering, OnReady
    PROVE  /\ calls' \in 0..MaxCalls
           /\ kind' \in [Calls -> Kinds]
           /\ status' \in [Calls -> Statuses]
           /\ readyHandled' \in BOOLEAN
           /\ initIssued' \in Nat
           /\ startState' \in {"none", "pending"} \cup Settled
           /\ running' \in BOOLEAN
<1>1. CASE InitCount = 0
  BY <1>1 DEF OnReady, ResolveStart, TypeOK, Settled
<1>2. CASE InitCount # 0
  <2>1. calls < MaxCalls
    BY <1>2, ConstantsAssumption DEF OnReady, NotReadyYet, Numbering, TypeOK, MaxCalls
  <2>2. AppendCall("init") /\ "init" \in Kinds
    BY <1>2 DEF OnReady, Kinds
  <2> QED
    BY <1>2, <2>1, <2>2, AppendCallType DEF OnReady, TypeOK
<1> QED
  BY <1>1, <1>2

LEMMA InitIInv == Init => IInv
<1> SUFFICES ASSUME Init PROVE IInv
  OBVIOUS
<1> USE ConstantsAssumption, MaxCallsNat
<1>1. TypeOK
  <2>1. <<>> \in Seq(Tokens) /\ <<>> \in Seq(Records)
    OBVIOUS
  <2>2. /\ kind \in [Calls -> Kinds]
        /\ status \in [Calls -> Statuses]
        /\ sentAs \in [Calls -> Nat]
        /\ output \in [Calls -> SUBSET Sources]
    BY DEF Init, Kinds, Statuses
  <2>3. /\ token \in Tokens /\ calls \in 0..MaxCalls /\ initIssued \in Nat /\ chunk \in Nat
        /\ pendingCommands \subseteq Tokens /\ console \subseteq Sources
    BY DEF Init, Tokens
  <2>4. /\ answered \subseteq Tokens \X ResultClasses
        /\ printed \subseteq {"prompt", "console"} \X Sources
    BY DEF Init
  <2> QED
    BY <2>1, <2>2, <2>3, <2>4 DEF Init, TypeOK
<1>2. Numbering /\ NoGaps
  BY DEF Init, Numbering, NoGaps, Calls
<1>3. TokenUse /\ Honest
  BY DEF Init, TokenUse, Honest
<1>4. CallOrder /\ RepliesMatch /\ NoOrphan
  BY DEF Init, CallOrder, RepliesMatch, NoOrphan, Calls
<1> QED
  BY <1>1, <1>2, <1>3, <1>4 DEF IInv, CallsInv

LEMMA TypeStep == TypeOK /\ Numbering /\ [Next]_vars => TypeOK'
<1> SUFFICES ASSUME TypeOK, Numbering, [Next]_vars PROVE TypeOK'
  OBVIOUS
<1>1. CASE Start
  BY <1>1 DEF Start, chan, TypeOK, Settled
<1>2. CASE FallbackTimer
  BY <1>2, OnReadyType DEF FallbackTimer, world, TypeOK
<1>3. CASE InitLoop
  <2> PICK c \in Calls : InitContinue(c)
    BY <1>3 DEF InitLoop
  <2>1. CASE status[c] = "resolved" /\ initIssued < InitCount
    <3>1. calls < MaxCalls
      BY <2>1, ConstantsAssumption DEF Numbering, TypeOK, MaxCalls
    <3>2. AppendCall("init") /\ "init" \in Kinds
      BY <2>1 DEF InitContinue, Kinds
    <3> QED
      BY <2>1, <3>1, <3>2, AppendCallType DEF InitContinue, world, TypeOK
  <2>2. CASE ~ (status[c] = "resolved" /\ initIssued < InitCount)
    BY <2>2 DEF InitContinue, ResolveStart, world, TypeOK, Settled
  <2> QED
    BY <2>1, <2>2
<1>4. CASE SendCommand
  <2>1. calls < MaxCalls /\ "user" \in Kinds
    BY <1>4, ConstantsAssumption DEF SendCommand, Numbering, TypeOK, MaxCalls, Kinds
  <2> QED
    BY <1>4, <2>1, AppendCallType DEF SendCommand, startup, world, TypeOK
<1>5. CASE Dispatch
  <2> PICK c \in Calls : SendCommandRaw(c)
    BY <1>5 DEF Dispatch
  <2>1. CASE process # "spawned"
    <3>1. status' \in [Calls -> Statuses]
      BY <2>1 DEF SendCommandRaw, TypeOK, Statuses, Settled
    <3> QED
      BY <2>1, <3>1 DEF SendCommandRaw, startup, world, TypeOK
  <2>2. CASE process = "spawned"
    <3>1. status' \in [Calls -> Statuses] /\ sentAs' \in [Calls -> Nat]
      BY <2>2 DEF SendCommandRaw, TypeOK, Statuses, Tokens
    <3>0. /\ token' = token + 1
          /\ pendingCommands' = pendingCommands \cup {token}
          /\ stdin' = Append(stdin, token) \/ stdin' = stdin
      BY <2>2, Zenon DEF SendCommandRaw
    <3>2. token' \in Tokens /\ pendingCommands' \subseteq Tokens
      BY <3>0 DEF TypeOK, Tokens
    <3>3. stdin' \in Seq(Tokens)
      <4>1. stdin \in Seq(Tokens) /\ token \in Tokens
        BY DEF TypeOK
      <4> QED
        BY <3>0, <4>1
    <3> QED
      BY <2>2, <3>1, <3>2, <3>3 DEF SendCommandRaw, startup, world, TypeOK
  <2> QED
    BY <2>1, <2>2
<1>6. CASE Timers
  <2> PICK t \in pendingCommands : Timeout(t)
    BY <1>6 DEF Timers
  <2>1. status' \in [Calls -> Statuses]
    BY SettleType DEF Timeout, Settled
  <2> QED
    BY <2>1 DEF Timeout, startup, world, TypeOK
<1>7. CASE Terminate
  <2>1. calls < MaxCalls /\ "exit" \in Kinds
    BY <1>7, ConstantsAssumption DEF Terminate, Kill, Numbering, TypeOK, MaxCalls, Kinds
  <2> QED
    BY <1>7, <2>1, AppendCallType DEF Terminate, Kill, startup, world, TypeOK
<1>8. CASE HandleLine
  <2>1. chunk' \in Nat /\ stdout' \in Seq(Records)
    BY <1>8 DEF HandleLine, TypeOK
  <2>2. Head(stdout) \in Records
    BY <1>8 DEF HandleLine, TypeOK
  <2>3. CASE HandlePrompt
    BY <1>8, <2>1, <2>3, OnReadyType DEF HandleLine, HandlePrompt, world, startup, TypeOK
  <2>4. CASE HandleConsole
    BY <1>8, <2>1, <2>2, <2>4 DEF HandleLine, HandleConsole, world, startup, TypeOK, Records
  <2>5. CASE HandleResult
    <3>1. status' \in [Calls -> Statuses]
      BY <2>5, SettleType DEF HandleResult, TypeOK, Settled
    <3>2. output' \in [Calls -> SUBSET Sources] /\ console' \subseteq Sources
      BY <2>5 DEF HandleResult, ResetConsole, TypeOK
    <3> QED
      BY <1>8, <2>1, <2>5, <3>1, <3>2 DEF HandleLine, HandleResult, world, startup, TypeOK
  <2> QED
    BY <1>8, <2>3, <2>4, <2>5 DEF HandleLine
<1>9. CASE ExitEvent
  <2>1. status' \in [Calls -> Statuses]
    BY <1>9, SettleType DEF ExitEvent, RejectPending, Settled
  <2> QED
    BY <1>9, <2>1 DEF ExitEvent, startup, TypeOK
<1>10. CASE Gdb
  <2>1. ASSUME NEW type, NEW t, NEW class, [type |-> type, token |-> t, class |-> class] \in Records,
               GdbPrint(type, t, class)
        PROVE  stdout' \in Seq(Records)
    BY <2>1 DEF GdbPrint, TypeOK
  <2>2. ASSUME NEW type \in {"prompt", "console"}, NEW t \in Talkers \cup {0}, GdbStream(type, t)
        PROVE  TypeOK'
    <3>1. t \in Sources
      BY ConstantsAssumption DEF Sources
    <3>2. [type |-> type, token |-> t, class |-> "none"] \in Records
      BY <3>1 DEF Records
    <3> QED
      BY <2>1, <2>2, <3>1, <3>2 DEF GdbStream, GdbPrint, chan, startup, TypeOK
  <2>3. ASSUME NEW class \in ResultClasses, GdbAnswer(class)
        PROVE  TypeOK'
    <3>1. Head(stdin) \in Tokens /\ stdin' \in Seq(Tokens)
      BY <2>3 DEF GdbAnswer, TypeOK
    <3>2. [type |-> "result", token |-> Head(stdin), class |-> class] \in Records
      BY <3>1 DEF Records
    <3> QED
      BY <2>1, <2>3, <3>1, <3>2 DEF GdbAnswer, GdbPrint, chan, startup, TypeOK
  <2>4. CASE GdbDies
    BY <2>4 DEF GdbDies, chan, startup, TypeOK
  <2> QED
    BY <1>10, <2>2, <2>3, <2>4 DEF Gdb
<1>11. CASE UNCHANGED vars
  BY <1>11 DEF vars, TypeOK
<1> QED
  BY <1>1, <1>2, <1>3, <1>4, <1>5, <1>6, <1>7, <1>8, <1>9, <1>10, <1>11 DEF Next

-----------------------------------------------------------------------------
(* The ways a step can move the calls, and what each does to CallsInv. *)

QuietMove ==
    /\ answered \subseteq answered'
    /\ UNCHANGED <<status, token, pendingCommands, sentAs, calls>>

\* a new call goes to the end of the queue
AppendMove(k) ==
    /\ calls < MaxCalls
    /\ AppendCall(k)
    /\ UNCHANGED <<token, pendingCommands, sentAs, answered>>

\* the first queued call is refused
RefuseMove(c) ==
    /\ Dispatchable(c)
    /\ status' = [status EXCEPT ![c] = "rejected"]
    /\ UNCHANGED <<token, pendingCommands, sentAs, answered, calls>>

\* the first queued call is sent with a fresh token
SendMove(c) ==
    /\ Dispatchable(c)
    /\ status' = [status EXCEPT ![c] = "waiting"]
    /\ sentAs' = [sentAs EXCEPT ![c] = token]
    /\ pendingCommands' = pendingCommands \cup {token}
    /\ token' = token + 1
    /\ UNCHANGED <<answered, calls>>

\* waiting calls settle, and every token given up is accounted for
SettleMove(cs, s) ==
    /\ Settle(cs, s)
    /\ \A c \in cs : sentAs[c] \in pendingCommands /\ sentAs[c] \notin pendingCommands'
    /\ \A c \in cs : s = "resolved" => \E k \in Ok : <<sentAs[c], k>> \in answered
    /\ pendingCommands' \subseteq pendingCommands
    /\ \A c \in Calls \ cs : sentAs[c] \in pendingCommands \ pendingCommands' =>
          \E k \in {"connected", "exit"} : <<sentAs[c], k>> \in answered
    /\ UNCHANGED <<token, sentAs, answered, calls>>

Move ==
    \/ QuietMove
    \/ \E k \in Kinds : AppendMove(k)
    \/ \E c \in Calls : RefuseMove(c) \/ SendMove(c)
    \/ \E cs \in SUBSET Calls, s \in Settled : SettleMove(cs, s)

LEMMA QuietStep ==
    ASSUME TypeOK, CallsInv, QuietMove
    PROVE  CallsInv'
BY DEF QuietMove, CallsInv, NoGaps, TokenUse, CallOrder, RepliesMatch, NoOrphan

LEMMA AppendStep ==
    ASSUME TypeOK, CallsInv, NEW k, AppendMove(k)
    PROVE  CallsInv'
<1> USE DEF TypeOK, AppendMove, AppendCall, Calls
<1>1. NoGaps'
  BY MaxCallsNat DEF CallsInv, NoGaps
<1>2. status[calls + 1] = "uncalled"
  BY MaxCallsNat DEF CallsInv, NoGaps
<1>3. TokenUse'
  BY <1>2, MaxCallsNat DEF CallsInv, TokenUse
<1>4. CallOrder'
  BY MaxCallsNat DEF CallsInv, CallOrder
<1>5. RepliesMatch' /\ NoOrphan'
  BY MaxCallsNat DEF CallsInv, RepliesMatch, NoOrphan
<1> QED
  BY <1>1, <1>3, <1>4, <1>5 DEF CallsInv

\* A call whose turn it is has only settled calls before it.
LEMMA BeforeDispatch ==
    ASSUME TypeOK, CallsInv, NEW c \in Calls, Dispatchable(c)
    PROVE  \A d \in 1..(c - 1) : status[d] \in Settled
<1> SUFFICES ASSUME NEW d \in 1..(c - 1) PROVE status[d] \in Settled
  OBVIOUS
<1>1. calls \in Nat /\ c \in 1..calls /\ c - 1 \in 1..calls /\ d \in 1..calls
  BY MaxCallsNat DEF TypeOK, CallsInv, NoGaps, Dispatchable, Calls
<1>2. status[c - 1] \in Settled
  BY <1>1 DEF Dispatchable
<1>3. CASE d < c - 1
  BY <1>1, <1>2, <1>3 DEF CallsInv, CallOrder, Settled
<1>4. CASE d = c - 1
  BY <1>2, <1>4
<1> QED
  BY <1>1, <1>3, <1>4

LEMMA RefuseStep ==
    ASSUME TypeOK, CallsInv, NEW c \in Calls, RefuseMove(c)
    PROVE  CallsInv'
<1> USE MaxCallsNat DEF TypeOK, Calls, RefuseMove
<1>1. NoGaps'
  BY DEF CallsInv, NoGaps, Dispatchable
<1>2. TokenUse'
  BY DEF CallsInv, TokenUse, Dispatchable
<1>3. CallOrder'
  BY DEF CallsInv, CallOrder, NoGaps, Dispatchable, Settled
<1>4. RepliesMatch' /\ NoOrphan'
  BY DEF CallsInv, RepliesMatch, NoOrphan
<1> QED
  BY <1>1, <1>2, <1>3, <1>4 DEF CallsInv

LEMMA SendStep ==
    ASSUME TypeOK, CallsInv, NEW c \in Calls, SendMove(c)
    PROVE  CallsInv'
<1> USE MaxCallsNat DEF TypeOK, Calls, Tokens, SendMove
<1>1. NoGaps'
  BY DEF CallsInv, NoGaps, Dispatchable
<1>2. TokenUse'
  BY DEF CallsInv, TokenUse, Dispatchable
<1>3. CallOrder'
  <2> SUFFICES ASSUME NEW i \in 1..calls, NEW j \in 1..calls, i < j, status'[j] # "queued"
               PROVE  status'[i] \in Settled
    BY DEF CallOrder
  <2>1. i \in Calls /\ j \in Calls
    OBVIOUS
  <2>2. status[i] \in Settled
    <3>1. CASE j = c
      <4>1. \A d \in 1..(c - 1) : status[d] \in Settled
        BY BeforeDispatch
      <4> QED
        BY <3>1, <4>1
    <3>2. CASE j # c
      BY <2>1, <3>2 DEF CallsInv, CallOrder
    <3> QED
      BY <3>1, <3>2
  <2> QED
    BY <2>1, <2>2 DEF Dispatchable, Settled
<1>4. RepliesMatch' /\ NoOrphan'
  BY DEF CallsInv, RepliesMatch, NoOrphan
<1> QED
  BY <1>1, <1>2, <1>3, <1>4 DEF CallsInv

LEMMA SettleStep ==
    ASSUME TypeOK, CallsInv, NEW cs \in SUBSET Calls, NEW s \in Settled, SettleMove(cs, s)
    PROVE  CallsInv'
<1> USE MaxCallsNat DEF TypeOK, Calls, SettleMove, Settle
<1>0. \A c \in cs : status[c] = "waiting"
  BY DEF CallsInv, TokenUse
<1>1. NoGaps'
  BY <1>0 DEF CallsInv, NoGaps, Settled
<1>2. TokenUse'
  BY <1>0 DEF CallsInv, TokenUse, Settled
<1>3. CallOrder'
  BY <1>0 DEF CallsInv, CallOrder, NoGaps, Settled
<1>4. RepliesMatch'
  BY DEF CallsInv, RepliesMatch, Settled
<1>5. NoOrphan'
  BY DEF CallsInv, NoOrphan, Settled
<1> QED
  BY <1>1, <1>2, <1>3, <1>4, <1>5 DEF CallsInv

-----------------------------------------------------------------------------
(* The parts of the state the promises do not depend on. *)

LEMMA NumberingStep == TypeOK /\ Numbering /\ [Next]_vars => Numbering'
<1> SUFFICES ASSUME TypeOK, Numbering, [Next]_vars PROVE Numbering'
  OBVIOUS
<1> USE ConstantsAssumption, MaxCallsNat DEF TypeOK, Numbering
<1>1. ASSUME OnReady PROVE Numbering'
  <2>1. CASE InitCount = 0
    BY <1>1, <2>1 DEF OnReady
  <2>2. CASE InitCount # 0
    BY <1>1, <2>2 DEF OnReady, NotReadyYet, AppendCall
  <2> QED
    BY <2>1, <2>2
<1>2. ASSUME UNCHANGED <<readyHandled, initIssued, calls, kind>> PROVE Numbering'
  BY <1>2
<1>3. CASE FallbackTimer \/ HandlePrompt
  BY <1>1, <1>2, <1>3 DEF FallbackTimer, HandlePrompt, startup
<1>4. CASE InitLoop
  <2> PICK c \in Calls : InitContinue(c)
    BY <1>4 DEF InitLoop
  <2>1. readyHandled /\ UNCHANGED readyHandled
    BY DEF InitContinue, InitSettled
  <2>2. CASE status[c] = "resolved" /\ initIssued < InitCount
    BY <2>1, <2>2 DEF InitContinue, AppendCall
  <2>3. CASE ~ (status[c] = "resolved" /\ initIssued < InitCount)
    BY <1>2, <2>1, <2>3 DEF InitContinue
  <2> QED
    BY <2>2, <2>3
<1>5. CASE SendCommand \/ Terminate
  <2>1. PICK k \in {"user", "exit"} : AppendCall(k)
    BY <1>5 DEF SendCommand, Terminate, Kill
  <2>2. calls - initIssued < MaxUser /\ UNCHANGED <<readyHandled, initIssued>>
    BY <1>5 DEF SendCommand, Terminate, Kill, startup
  <2>3. calls + 1 \in Calls
    BY <2>2 DEF Calls, MaxCalls
  <2> QED
    BY <2>1, <2>2, <2>3 DEF AppendCall, Calls
<1>6. CASE HandleConsole \/ HandleResult
  BY <1>2, <1>6 DEF HandleConsole, HandleResult, startup
<1>7. CASE Start \/ Dispatch \/ Timers \/ ExitEvent
  BY <1>2, <1>7 DEF Start, Dispatch, SendCommandRaw, Timers, Timeout, ExitEvent, startup
<1>8. CASE Gdb \/ UNCHANGED vars
  BY <1>2, <1>8 DEF Gdb, GdbStream, GdbAnswer, GdbDies, GdbPrint, startup, vars
<1> QED
  BY <1>3, <1>4, <1>5, <1>6, <1>7, <1>8 DEF Next, HandleLine

LEMMA HonestStep == TypeOK /\ Honest /\ [Next]_vars => Honest'
<1> SUFFICES ASSUME TypeOK, Honest, [Next]_vars PROVE Honest'
  OBVIOUS
<1>1. CASE HandleLine
  <2>1. stdout' = Tail(stdout) /\ stdout # <<>> /\ stdout \in Seq(Records) /\ answered' = answered
    BY <1>1 DEF HandleLine, world, TypeOK
  <2> QED
    BY <2>1 DEF Honest
<1>2. ASSUME NEW type, NEW t, NEW class, GdbPrint(type, t, class), answered \subseteq answered',
             type = "result" => <<t, class>> \in answered'
      PROVE  Honest'
  <2> DEFINE rec == [type |-> type, token |-> t, class |-> class]
  <2>1. stdout \in Seq(Records) /\ stdout' = Append(stdout, rec)
    BY <1>2 DEF GdbPrint, TypeOK
  <2>2. \A i \in 1..Len(stdout') :
            (i \in 1..Len(stdout) /\ stdout'[i] = stdout[i]) \/ stdout'[i] = rec
    BY <2>1
  <2> QED
    BY <1>2, <2>2 DEF Honest
<1>3. CASE Gdb
  BY <1>2, <1>3 DEF Gdb, GdbStream, GdbAnswer, GdbDies, Honest
<1>4. CASE UNCHANGED <<stdout, answered>>
  BY <1>4 DEF Honest
<1> QED
  BY <1>1, <1>3, <1>4 DEF Next, Start, FallbackTimer, InitLoop, InitContinue, SendCommand,
     Dispatch, SendCommandRaw, Timers, Timeout, Terminate, Kill, ExitEvent, world, vars

-----------------------------------------------------------------------------
\* Every step of the channel is one of the moves.
LEMMA Moves == IInv /\ [Next]_vars => Move
<1> SUFFICES ASSUME IInv, [Next]_vars PROVE Move
  OBVIOUS
<1> USE ConstantsAssumption, MaxCallsNat DEF IInv
<1>1. ASSUME OnReady, UNCHANGED <<token, pendingCommands, sentAs, answered>>
      PROVE  Move
  <2>1. CASE InitCount = 0
    BY <1>1, <2>1 DEF Move, QuietMove, OnReady
  <2>2. CASE InitCount # 0
    <3>1. calls < MaxCalls
      BY <1>1, <2>2 DEF OnReady, NotReadyYet, Numbering, TypeOK, MaxCalls
    <3> QED
      BY <1>1, <2>2, <3>1 DEF OnReady, Move, AppendMove, Kinds
  <2> QED
    BY <2>1, <2>2
<1>2. CASE FallbackTimer
  BY <1>1, <1>2 DEF FallbackTimer, world
<1>3. CASE InitLoop
  <2> PICK c \in Calls : InitContinue(c)
    BY <1>3 DEF InitLoop
  <2>1. UNCHANGED <<token, pendingCommands, sentAs, answered>>
    BY DEF InitContinue, world
  <2>2. CASE status[c] = "resolved" /\ initIssued < InitCount
    <3>1. calls < MaxCalls
      BY <2>2 DEF Numbering, TypeOK, MaxCalls
    <3>2. AppendCall("init")
      BY <2>2 DEF InitContinue
    <3> QED
      BY <2>1, <3>1, <3>2 DEF Move, AppendMove, Kinds
  <2>3. CASE ~ (status[c] = "resolved" /\ initIssued < InitCount)
    BY <2>1, <2>3 DEF Move, QuietMove, InitContinue
  <2> QED
    BY <2>2, <2>3
<1>4. CASE SendCommand \/ Terminate
  <2>1. calls < MaxCalls
    BY <1>4 DEF SendCommand, Terminate, Kill, Numbering, TypeOK, MaxCalls
  <2>2. PICK k \in Kinds : AppendCall(k)
    BY <1>4 DEF SendCommand, Terminate, Kill, Kinds
  <2>3. UNCHANGED <<token, pendingCommands, sentAs, answered>>
    BY <1>4 DEF SendCommand, Terminate, Kill, world
  <2> QED
    BY <2>1, <2>2, <2>3 DEF Move, AppendMove, Kinds
<1>5. CASE Dispatch
  <2> PICK c \in Calls : SendCommandRaw(c)
    BY <1>5 DEF Dispatch
  <2>1. Dispatchable(c) /\ UNCHANGED <<calls, answered>>
    BY DEF SendCommandRaw, world
  <2>2. CASE process # "spawned"
    BY <2>1, <2>2 DEF Move, RefuseMove, SendCommandRaw
  <2>3. CASE process = "spawned"
    BY <2>1, <2>3 DEF Move, SendMove, SendCommandRaw
  <2> QED
    BY <2>2, <2>3
<1>6. CASE Timers
  <2> PICK t \in pendingCommands : Timeout(t)
    BY <1>6 DEF Timers
  <2> DEFINE cs == Callback(t)
  <2>1. /\ cs \in SUBSET Calls /\ Settle(cs, "rejected")
        /\ pendingCommands' = pendingCommands \ {t}
        /\ UNCHANGED <<token, sentAs, answered, calls>>
    BY DEF Callback, Timeout, world
  <2>2. \A c \in Calls : c \in cs <=> sentAs[c] = t
    BY DEF Callback
  <2> HIDE DEF cs
  <2> QED
    BY <2>1, <2>2 DEF Move, SettleMove, Settled
<1>7. CASE HandleLine /\ HandlePrompt
  <2>1. UNCHANGED <<token, pendingCommands, sentAs, answered>>
    BY <1>7 DEF HandleLine, HandlePrompt, world
  <2>2. CASE OnReady
    BY <1>1, <2>1, <2>2
  <2>3. CASE ~OnReady
    BY <1>7, <2>1, <2>3 DEF Move, QuietMove, HandlePrompt
  <2> QED
    BY <2>2, <2>3
<1>8. CASE HandleLine /\ HandleConsole
  BY <1>8 DEF Move, QuietMove, HandleLine, HandleConsole, world
<1>9. CASE HandleLine /\ HandleResult
  <2> DEFINE t  == Head(stdout).token
             k  == Head(stdout).class
             cs == Callback(t)
  <2>1. /\ pendingCommands' = pendingCommands \ {t}
        /\ UNCHANGED <<token, sentAs, answered, calls>>
    BY <1>9 DEF HandleLine, HandleResult, world
  <2>2. <<t, k>> \in answered
    <3>1. stdout \in Seq(Records) /\ stdout # <<>> /\ stdout[1].type = "result"
      BY <1>9 DEF HandleLine, HandleResult, TypeOK
    <3>2. <<stdout[1].token, stdout[1].class>> \in answered
      BY <3>1 DEF Honest
    <3> QED
      BY <3>1, <3>2
  <2>3. cs \in SUBSET Calls /\ \A c \in Calls : c \in cs <=> t \in pendingCommands /\ sentAs[c] = t
    BY DEF Callback
  <2>4. \A c \in cs : sentAs[c] \in pendingCommands /\ sentAs[c] \notin pendingCommands'
    BY <2>1, <2>3
  <2>5. \A c \in Calls \ cs : sentAs[c] \notin pendingCommands \ pendingCommands'
    BY <2>1, <2>3
  <2>6. CASE cs # {} /\ k \in Ok
    <3>1. Settle(cs, "resolved")
      BY <1>9, <2>6 DEF HandleResult, Ok
    <3>2. \A c \in cs : \E j \in Ok : <<sentAs[c], j>> \in answered
      BY <2>2, <2>3, <2>6
    <3> HIDE DEF cs
    <3> QED
      BY <2>1, <2>3, <2>4, <2>5, <3>1, <3>2 DEF Move, SettleMove, Settled
  <2>7. CASE cs # {} /\ k = "error"
    <3>1. Settle(cs, "rejected")
      BY <1>9, <2>7 DEF HandleResult, Ok
    <3> HIDE DEF cs
    <3> QED
      BY <2>1, <2>3, <2>4, <2>5, <3>1 DEF Move, SettleMove, Settled
  <2>8. CASE cs # {} /\ k \notin Ok \cup {"error"}
    <3>1. k \in {"connected", "exit"}
      BY <1>9, <2>2, <2>8 DEF TypeOK, Ok
    <3>2. Settle({}, "rejected")
      BY <1>9, <2>8 DEF HandleResult, Settle, TypeOK
    <3>3. \A c \in Calls : sentAs[c] \in pendingCommands \ pendingCommands' =>
             \E j \in {"connected", "exit"} : <<sentAs[c], j>> \in answered
      BY <2>1, <2>2, <3>1
    <3> HIDE DEF cs
    <3> QED
      BY <2>1, <3>2, <3>3 DEF Move, SettleMove, Settled
  <2>9. CASE cs = {}
    <3>1. UNCHANGED status
      BY <1>9, <2>9 DEF HandleResult
    <3>2. Settle({}, "rejected")
      BY <3>1 DEF Settle, TypeOK
    <3> HIDE DEF cs
    <3> QED
      BY <2>1, <2>3, <2>5, <2>9, <3>2 DEF Move, SettleMove, Settled
  <2> QED
    BY <2>6, <2>7, <2>8, <2>9
<1>10. CASE ExitEvent
  <2> DEFINE cs == {c \in Calls : sentAs[c] \in pendingCommands}
  <2>1. Settle(cs, "rejected") /\ pendingCommands' = {} /\ UNCHANGED <<token, sentAs, answered, calls>>
    BY <1>10 DEF ExitEvent, RejectPending
  <2> QED
    BY <2>1 DEF Move, SettleMove, Settled
<1>11. CASE Start
  BY <1>11 DEF Move, QuietMove, Start, chan
<1>12. CASE Gdb
  BY <1>12 DEF Move, QuietMove, Gdb, GdbStream, GdbAnswer, GdbDies, GdbPrint, chan
<1>13. CASE UNCHANGED vars
  BY <1>13 DEF Move, QuietMove, vars
<1> QED
  BY <1>2, <1>3, <1>4, <1>5, <1>6, <1>7, <1>8, <1>9, <1>10, <1>11, <1>12, <1>13
     DEF Next, HandleLine

LEMMA CallsStep == IInv /\ [Next]_vars => CallsInv'
BY Moves, QuietStep, AppendStep, RefuseStep, SendStep, SettleStep DEF Move, IInv

LEMMA IInvStep == IInv /\ [Next]_vars => IInv'
BY TypeStep, NumberingStep, HonestStep, CallsStep DEF IInv

LEMMA Invariance == Spec => []IInv
<1>1. Init => IInv
  BY InitIInv
<1>2. IInv /\ [Next]_vars => IInv'
  BY IInvStep
<1> QED
  BY <1>1, <1>2, PTL DEF Spec

-----------------------------------------------------------------------------
(* Refinement: what each move is to SerialChannel. *)

\* A call that has not settled and is not queued has only settled calls before
\* it and only queued calls after it.
LEMMA OneAtATime ==
    ASSUME TypeOK, CallsInv, NEW c \in Calls, status[c] = "waiting"
    PROVE  /\ c \in 1..calls
           /\ \A d \in 1..(c - 1) : status[d] \in Settled
           /\ \A d \in Calls : status[d] = "waiting" => d = c
<1>1. c \in 1..calls /\ calls \in Nat
  BY MaxCallsNat DEF TypeOK, CallsInv, NoGaps, Calls
<1>2. \A d \in 1..(c - 1) : status[d] \in Settled
  BY <1>1, MaxCallsNat DEF CallsInv, CallOrder, Calls
<1>3. ASSUME NEW d \in Calls, status[d] = "waiting" PROVE d = c
  <2>1. d \in 1..calls
    BY <1>1, <1>3, MaxCallsNat DEF CallsInv, NoGaps, Calls
  <2>2. ~(c < d) /\ ~(d < c)
    BY <1>1, <1>3, <2>1 DEF CallsInv, CallOrder, Settled
  <2> QED
    BY <1>1, <2>1, <2>2
<1> QED
  BY <1>1, <1>2, <1>3

LEMMA QuietMaps == QuietMove => UNCHANGED Channel!vars
BY DEF QuietMove, Channel!vars

LEMMA AppendMaps ==
    ASSUME TypeOK, CallsInv, NEW k, AppendMove(k)
    PROVE  Channel!Call
<1>1. calls + 1 \in Calls /\ status[calls + 1] = "uncalled"
  BY MaxCallsNat DEF AppendMove, TypeOK, CallsInv, NoGaps, Calls
<1>2. status' = [status EXCEPT ![calls + 1] = "queued"] /\ calls' = calls + 1 /\ calls < MaxCalls
  BY DEF AppendMove, AppendCall
<1>3. \A c \in Calls : (status'[c] = "waiting" <=> status[c] = "waiting")
                       /\ (status'[c] \in Settled <=> status[c] \in Settled)
                       /\ (status[c] \in Settled => status'[c] = status[c])
  BY <1>1, <1>2 DEF TypeOK, Settled
<1> QED
  BY <1>2, <1>3 DEF Channel!Call

LEMMA SettleMaps ==
    ASSUME TypeOK, CallsInv, NEW c \in Calls, NEW s \in Settled,
           c \in 1..calls, status[c] \notin Settled,
           \A d \in 1..(c - 1) : status[d] \in Settled,
           \A d \in Calls : status[d] = "waiting" => d = c,
           status[c] = "waiting" \/ s = "rejected",
           status' = [status EXCEPT ![c] = s], calls' = calls
    PROVE  Channel!Settle(c, s)
<1>1. Channel!Oldest(c)
  BY MaxCallsNat DEF Channel!Oldest, Calls, Settled, TypeOK
<1>2. ~ \E d \in Calls : status'[d] = "waiting"
  BY DEF TypeOK, Settled
<1> DEFINE out == [d \in Calls |-> IF status[d] \in Settled THEN status[d] ELSE "none"]
<1>3. out' = [out EXCEPT ![c] = s]
  BY DEF TypeOK
<1> QED
  BY <1>1, <1>2, <1>3 DEF Channel!Settle

LEMMA SendMaps ==
    ASSUME TypeOK, CallsInv, NEW c \in Calls, SendMove(c)
    PROVE  Channel!Begin
<1>1. status[c] = "queued" /\ c \in 1..calls
  BY MaxCallsNat DEF SendMove, Dispatchable, TypeOK, CallsInv, NoGaps, Calls
<1>2. \A d \in 1..(c - 1) : status[d] \in Settled
  BY BeforeDispatch DEF SendMove
<1>3. Channel!Oldest(c)
  BY <1>1, <1>2, MaxCallsNat DEF Channel!Oldest, Calls, Settled, TypeOK
<1>4. ~ \E d \in Calls : status[d] = "waiting"
  <2> SUFFICES ASSUME NEW d \in Calls, status[d] = "waiting" PROVE FALSE
    OBVIOUS
  <2>1. \A e \in 1..(d - 1) : status[e] \in Settled
    BY OneAtATime
  <2>2. ~(c < d) /\ c # d /\ ~(d < c)
    BY <1>1, <1>2, <2>1, MaxCallsNat DEF Calls, Settled
  <2> QED
    BY <2>2, MaxCallsNat DEF Calls
<1>5. status'[c] = "waiting" /\ \A d \in Calls \ {c} : status'[d] = status[d]
  BY DEF SendMove, TypeOK
<1>6. UNCHANGED [d \in Calls |-> IF status[d] \in Settled THEN status[d] ELSE "none"]
  BY <1>1, <1>5 DEF Settled
<1> QED
  BY <1>3, <1>4, <1>5, <1>6 DEF Channel!Begin, SendMove, Channel!Calls, Calls

-----------------------------------------------------------------------------
(* Console text.  Text is on its way, in stdout or kept in pendingConsoleOutput,
   only while the command it was printed for has not resolved: GDB prints for
   the command it is working on, its answer comes after its text, and the text
   that is there when a command resolves is given away with it. *)

Handed(t) == \E d \in Calls : sentAs[d] = t /\ status[d] # "resolved"

\* What GDB still has to read was sent once, and was not answered.
Unanswered ==
    /\ \A i \in 1..Len(stdin) :
          /\ \E d \in Calls : sentAs[d] = stdin[i]
          /\ \A k \in ResultClasses : <<stdin[i], k>> \notin answered
    /\ \A i, j \in 1..Len(stdin) : i < j => stdin[i] # stdin[j]
    /\ \A a \in answered : a[1] < token

KeptIsOwned == \A t \in console : t = 0 \/ Handed(t)

UnreadIsOwned ==
    \A i \in 1..Len(stdout) :
        stdout[i].type = "console" => stdout[i].token = 0 \/ Handed(stdout[i].token)

TextBeforeAnswer ==
    \A i, j \in 1..Len(stdout) :
        i < j /\ stdout[i].type = "result" /\ stdout[j].type = "console" =>
            stdout[i].token # stdout[j].token

TextIsOwned == KeptIsOwned /\ UnreadIsOwned /\ TextBeforeAnswer

TextInv == Unanswered /\ TextIsOwned /\ OutputProvenance

LEMMA InitTextInv == Init => TextInv
BY DEF Init, TextInv, Unanswered, TextIsOwned, KeptIsOwned, UnreadIsOwned, TextBeforeAnswer,
   OutputProvenance

\* The elements of a sequence that is shortened or extended by one.
LEMMA TailOf ==
    ASSUME NEW S, NEW q \in Seq(S), q # <<>>
    PROVE  /\ Head(q) = q[1] /\ 1 \in 1..Len(q) /\ Head(q) \in S /\ Tail(q) \in Seq(S)
           /\ \A i \in 1..Len(Tail(q)) : i + 1 \in 1..Len(q) /\ i \in Nat /\ i + 1 > 1
                                         /\ Tail(q)[i] = q[i + 1]
OBVIOUS

LEMMA AppendOf ==
    ASSUME NEW S, NEW q \in Seq(S), NEW e \in S
    PROVE  /\ Append(q, e) \in Seq(S)
           /\ \A i \in 1..Len(Append(q, e)) :
                  \/ i \in 1..Len(q) /\ Append(q, e)[i] = q[i]
                  \/ i = Len(q) + 1 /\ Append(q, e)[i] = e
OBVIOUS

\* A call that was sent keeps its token, and one that settled stays as it is.
LEMMA SentStays ==
    ASSUME IInv, [Next]_vars, NEW d \in Calls
    PROVE  /\ sentAs[d] # 0 => sentAs'[d] = sentAs[d]
           /\ status[d] \in Settled => status'[d] = status[d] /\ sentAs'[d] = sentAs[d]
           /\ status[d] = "waiting" => sentAs'[d] = sentAs[d]
<1> USE DEF IInv
<1>1. CASE QuietMove
  BY <1>1 DEF QuietMove
<1>2. ASSUME NEW k \in Kinds, AppendMove(k)
      PROVE  sentAs' = sentAs /\ (d <= calls => status'[d] = status[d])
  BY <1>2 DEF AppendMove, AppendCall, TypeOK, Calls
<1>3. status[d] \in Settled => d <= calls
  BY MaxCallsNat DEF CallsInv, NoGaps, TypeOK, Calls, Settled
<1>4. ASSUME NEW c \in Calls, RefuseMove(c) \/ SendMove(c)
      PROVE  /\ status[c] = "queued" /\ sentAs[c] = 0
             /\ d # c => sentAs'[d] = sentAs[d] /\ status'[d] = status[d]
  BY <1>4 DEF RefuseMove, SendMove, Dispatchable, TypeOK, CallsInv, TokenUse
<1>5. ASSUME NEW c \in Calls, RefuseMove(c) \/ SendMove(c)
      PROVE  /\ sentAs[d] # 0 => sentAs'[d] = sentAs[d]
             /\ status[d] \in Settled => status'[d] = status[d] /\ sentAs'[d] = sentAs[d]
             /\ status[d] = "waiting" => sentAs'[d] = sentAs[d]
  BY <1>4, <1>5 DEF Settled
<1>6. ASSUME NEW cs \in SUBSET Calls, NEW s \in Settled, SettleMove(cs, s)
      PROVE  sentAs' = sentAs /\ (status[d] \in Settled => status'[d] = status[d])
  BY <1>6 DEF SettleMove, Settle, CallsInv, TokenUse, Settled
<1> QED
  BY Moves, <1>1, <1>2, <1>3, <1>5, <1>6 DEF Move

LEMMA UnansweredStep ==
    ASSUME IInv, Unanswered, [Next]_vars
    PROVE  Unanswered'
<1> USE DEF IInv
<1>1. \A i \in 1..Len(stdin) : /\ stdin[i] \in Tokens /\ stdin[i] # 0
                               /\ stdin[i] < token
                               /\ \E d \in Calls : sentAs'[d] = stdin[i]
  <2> SUFFICES ASSUME NEW i \in 1..Len(stdin)
               PROVE  /\ stdin[i] \in Tokens /\ stdin[i] # 0 /\ stdin[i] < token
                      /\ \E d \in Calls : sentAs'[d] = stdin[i]
    OBVIOUS
  <2>1. stdin[i] \in Tokens /\ stdin[i] # 0
    BY DEF TypeOK, Tokens
  <2>2. PICK d \in Calls : sentAs[d] = stdin[i]
    BY DEF Unanswered
  <2>3. stdin[i] < token
    BY <2>2 DEF CallsInv, TokenUse
  <2> QED
    BY <2>1, <2>2, <2>3, SentStays
<1>2. CASE stdin' = stdin /\ answered' = answered /\ token' = token
  BY <1>1, <1>2 DEF Unanswered
<1>3. ASSUME NEW c \in Calls, SendCommandRaw(c), process = "spawned"
      PROVE  Unanswered'
  <2>1. /\ sentAs' = [sentAs EXCEPT ![c] = token] /\ token' = token + 1
        /\ stdin' = stdin \/ stdin' = Append(stdin, token)
    BY <1>3, Zenon DEF SendCommandRaw
  <2>2. answered' = answered
    BY <1>3 DEF SendCommandRaw, world
  <2>3. stdin \in Seq(Tokens) /\ token \in Nat /\ token \in Tokens
    BY DEF TypeOK, Tokens
  <2>4. sentAs'[c] = token
    BY <2>1 DEF TypeOK
  <2>5. \A k \in ResultClasses : <<token, k>> \notin answered
    BY <2>3 DEF Unanswered
  <2>6. \A a \in answered' : a[1] < token'
    <3>1. \A a \in answered : a[1] \in Nat
      BY DEF TypeOK, Tokens
    <3> QED
      BY <2>1, <2>2, <2>3, <3>1 DEF Unanswered
  <2>7. CASE stdin' = stdin
    BY <1>1, <2>2, <2>6, <2>7 DEF Unanswered
  <2>8. CASE stdin' = Append(stdin, token)
    <3>1. \A i \in 1..Len(stdin') :
              \/ i \in 1..Len(stdin) /\ stdin'[i] = stdin[i]
              \/ i = Len(stdin) + 1 /\ stdin'[i] = token
      BY <2>3, <2>8, AppendOf
    <3>2. \A i \in 1..Len(stdin') :
              /\ \E d \in Calls : sentAs'[d] = stdin'[i]
              /\ \A k \in ResultClasses : <<stdin'[i], k>> \notin answered'
      BY <1>1, <2>2, <2>4, <2>5, <3>1 DEF Unanswered
    <3>3. \A i, j \in 1..Len(stdin') : i < j => stdin'[i] # stdin'[j]
      <4> SUFFICES ASSUME NEW i \in 1..Len(stdin'), NEW j \in 1..Len(stdin'), i < j
                   PROVE  stdin'[i] # stdin'[j]
        OBVIOUS
      <4>1. i \in 1..Len(stdin) /\ stdin'[i] = stdin[i]
        BY <2>3, <2>8, <3>1
      <4> QED
        BY <1>1, <2>3, <3>1, <4>1 DEF Unanswered
    <3> QED
      BY <2>6, <3>2, <3>3 DEF Unanswered
  <2> QED
    BY <2>1, <2>7, <2>8
<1>4. ASSUME NEW class \in ResultClasses, GdbAnswer(class)
      PROVE  Unanswered'
  <2>1. /\ stdin \in Seq(Tokens) /\ stdin # <<>> /\ stdin' = Tail(stdin)
        /\ answered' = answered \cup {<<Head(stdin), class>>} /\ token' = token
    BY <1>4 DEF GdbAnswer, GdbPrint, chan, TypeOK
  <2>2. /\ Head(stdin) = stdin[1] /\ 1 \in 1..Len(stdin)
        /\ \A i \in 1..Len(stdin') : i + 1 \in 1..Len(stdin) /\ i + 1 > 1 /\ i \in Nat
                                     /\ stdin'[i] = stdin[i + 1]
    BY <2>1, TailOf
  <2>3. \A i \in 1..Len(stdin') : stdin'[i] # Head(stdin)
    BY <2>2 DEF Unanswered
  <2>4. \A i \in 1..Len(stdin') :
            /\ \E d \in Calls : sentAs'[d] = stdin'[i]
            /\ \A k \in ResultClasses : <<stdin'[i], k>> \notin answered'
    BY <1>1, <2>1, <2>2, <2>3 DEF Unanswered
  <2>5. \A i, j \in 1..Len(stdin') : i < j => stdin'[i] # stdin'[j]
    <3> SUFFICES ASSUME NEW i \in 1..Len(stdin'), NEW j \in 1..Len(stdin'), i < j
                 PROVE  stdin'[i] # stdin'[j]
      OBVIOUS
    <3>1. i + 1 < j + 1 /\ i + 1 \in 1..Len(stdin) /\ j + 1 \in 1..Len(stdin)
      BY <2>2
    <3> QED
      BY <2>2, <3>1 DEF Unanswered
  <2>6. \A a \in answered' : a[1] < token'
    BY <1>1, <2>1, <2>2 DEF Unanswered
  <2> QED
    BY <2>4, <2>5, <2>6 DEF Unanswered
<1>5. CASE GdbDies
  BY <1>5 DEF GdbDies, chan, Unanswered
<1>6. CASE Gdb
  BY <1>2, <1>4, <1>5, <1>6 DEF Gdb, GdbStream, GdbPrint, chan
<1>7. CASE Dispatch
  BY <1>2, <1>3, <1>7 DEF Dispatch, SendCommandRaw, world
<1>8. CASE HandleLine
  BY <1>2, <1>8 DEF HandleLine, world
<1> QED
  BY <1>2, <1>6, <1>7, <1>8 DEF Next, Start, FallbackTimer, InitLoop, InitContinue, SendCommand,
     Timers, Timeout, Terminate, Kill, ExitEvent, world, chan, vars

\* A call resolves only when its result is handled.
LEMMA OnlyResultsResolve ==
    ASSUME IInv, [Next]_vars, ~(HandleLine /\ HandleResult)
    PROVE  \A d \in Calls : status'[d] = "resolved" => status[d] = "resolved"
<1> USE DEF IInv
<1>1. ASSUME NEW k, AppendCall(k)
      PROVE  \A d \in Calls : status'[d] = "resolved" => status[d] = "resolved"
  BY <1>1 DEF AppendCall, TypeOK
<1>2. CASE UNCHANGED status
  BY <1>2
<1>3. ASSUME NEW cs, Settle(cs, "rejected")
      PROVE  \A d \in Calls : status'[d] = "resolved" => status[d] = "resolved"
  BY <1>3 DEF Settle
<1>4. ASSUME OnReady
      PROVE  \A d \in Calls : status'[d] = "resolved" => status[d] = "resolved"
  BY <1>1, <1>2, <1>4 DEF OnReady
<1>5. CASE FallbackTimer \/ (HandleLine /\ HandlePrompt)
  BY <1>2, <1>4, <1>5 DEF FallbackTimer, HandlePrompt
<1>6. CASE InitLoop
  BY <1>1, <1>2, <1>6 DEF InitLoop, InitContinue
<1>7. CASE SendCommand \/ Terminate
  BY <1>1, <1>7 DEF SendCommand, Terminate
<1>8. ASSUME NEW c \in Calls, SendCommandRaw(c)
      PROVE  \A d \in Calls : status'[d] = "resolved" => status[d] = "resolved"
  <2>1. PICK s \in {"rejected", "waiting"} : status' = [status EXCEPT ![c] = s]
    BY <1>8 DEF SendCommandRaw
  <2> QED
    BY <2>1 DEF TypeOK
<1>9. CASE Timers \/ ExitEvent
  BY <1>3, <1>9 DEF Timers, Timeout, ExitEvent, RejectPending
<1>10. CASE Start \/ Gdb \/ UNCHANGED vars \/ (HandleLine /\ HandleConsole)
  BY <1>2, <1>10 DEF Start, Gdb, GdbStream, GdbAnswer, GdbDies, GdbPrint, chan, vars, HandleConsole
<1> QED
  BY <1>5, <1>6, <1>7, <1>8, <1>9, <1>10 DEF Next, HandleLine, Dispatch

\* The call that a token was handed to, in the next state.
StillHanded(t) == \E d \in Calls : sentAs'[d] = t /\ status'[d] # "resolved"

\* Text that is owned stays so, but for the text of a command that resolves.
LEMMA HandedStays ==
    ASSUME IInv, [Next]_vars, NEW t, t # 0, Handed(t),
           \A d \in Calls : sentAs[d] = t /\ status'[d] = "resolved" => status[d] = "resolved"
    PROVE  StillHanded(t)
BY SentStays DEF Handed, StillHanded

\* What is owned in stdout after the first record was taken off it.
LEMMA ReadOrder ==
    ASSUME TypeOK, stdout # <<>>, stdout' = Tail(stdout), TextIsOwned
    PROVE  /\ Head(stdout) = stdout[1] /\ 1 \in 1..Len(stdout) /\ Head(stdout) \in Records
           /\ \A i \in 1..Len(stdout') : i + 1 \in 1..Len(stdout) /\ i \in Nat /\ i + 1 > 1
                                         /\ stdout'[i] = stdout[i + 1]
           /\ TextBeforeAnswer'
<1>1. stdout \in Seq(Records)
  BY DEF TypeOK
<1>2. /\ Head(stdout) = stdout[1] /\ 1 \in 1..Len(stdout) /\ Head(stdout) \in Records
      /\ \A i \in 1..Len(stdout') : i + 1 \in 1..Len(stdout) /\ i \in Nat /\ i + 1 > 1
                                    /\ stdout'[i] = stdout[i + 1]
  BY <1>1, TailOf
<1>3. ASSUME NEW i \in 1..Len(stdout'), NEW j \in 1..Len(stdout'), i < j,
             stdout'[i].type = "result", stdout'[j].type = "console"
      PROVE  stdout'[i].token # stdout'[j].token
  <2>1. i + 1 < j + 1
    BY <1>2, <1>3
  <2> QED
    BY <1>2, <1>3, <2>1 DEF TextIsOwned, TextBeforeAnswer
<1>4. TextBeforeAnswer'
  BY <1>3 DEF TextBeforeAnswer
<1> QED
  BY <1>2, <1>4

\* A line that is not a result is read.
LEMMA ReadText ==
    ASSUME IInv, TextIsOwned, [Next]_vars, HandleLine, ~HandleResult
    PROVE  TextIsOwned'
<1> USE DEF IInv
<1>1. stdout # <<>> /\ stdout' = Tail(stdout)
  BY DEF HandleLine
<1>2. \/ console' = console
      \/ Head(stdout).type = "console" /\ console' = console \cup {Head(stdout).token}
  BY DEF HandleLine, HandlePrompt, HandleConsole
<1>3. ASSUME NEW t, t = 0 \/ Handed(t)
      PROVE  t = 0 \/ StillHanded(t)
  BY <1>3, HandedStays, OnlyResultsResolve
<1>4. KeptIsOwned'
  <2>1. \A t \in console' : t = 0 \/ Handed(t)
    BY <1>1, <1>2, ReadOrder DEF TextIsOwned, KeptIsOwned, UnreadIsOwned
  <2>2. \A t \in console' : t = 0 \/ StillHanded(t)
    BY <1>3, <2>1
  <2> QED
    BY <2>2 DEF KeptIsOwned, Handed, StillHanded
<1>5. UnreadIsOwned'
  <2>1. \A i \in 1..Len(stdout') : stdout'[i].type = "console" =>
            stdout'[i].token = 0 \/ Handed(stdout'[i].token)
    BY <1>1, ReadOrder DEF TextIsOwned, UnreadIsOwned
  <2>2. \A i \in 1..Len(stdout') : stdout'[i].type = "console" =>
            stdout'[i].token = 0 \/ StillHanded(stdout'[i].token)
    BY <1>3, <2>1
  <2> QED
    BY <2>2 DEF UnreadIsOwned, Handed, StillHanded
<1> QED
  BY <1>1, <1>4, <1>5, ReadOrder DEF TextIsOwned

\* A result is read: the text of its command is given with it, or nobody waits for it.
LEMMA ReadResult ==
    ASSUME IInv, TextIsOwned, [Next]_vars, HandleLine, HandleResult
    PROVE  TextIsOwned'
<1> USE DEF IInv
<1> DEFINE u  == Head(stdout).token
           cs == Callback(u)
<1>1. stdout # <<>> /\ stdout' = Tail(stdout) /\ Head(stdout).type = "result"
  BY DEF HandleLine, HandleResult
<1>2. \/ console' = {}
      \/ console' = console /\ \A d \in Calls : status'[d] = "resolved" => status[d] = "resolved"
  <2>1. CASE Settle(cs, "rejected") \/ UNCHANGED status
    BY <2>1 DEF HandleResult, ResetConsole, Settle
  <2>2. CASE ~(Settle(cs, "rejected") \/ UNCHANGED status)
    BY <2>2 DEF HandleResult, ResetConsole
  <2> QED
    BY <2>1, <2>2
<1>3. \A d \in Calls : status'[d] = "resolved" => status[d] = "resolved" \/ sentAs[d] = u
  BY DEF HandleResult, Settle, Callback, TypeOK
<1>4. KeptIsOwned'
  <2>1. ASSUME console' = console, NEW t \in console,
               \A d \in Calls : status'[d] = "resolved" => status[d] = "resolved"
        PROVE  t = 0 \/ StillHanded(t)
    BY <2>1, HandedStays DEF TextIsOwned, KeptIsOwned
  <2> QED
    BY <1>2, <2>1 DEF KeptIsOwned, Handed, StillHanded
<1>5. UnreadIsOwned'
  <2>1. ASSUME NEW i \in 1..Len(stdout'), stdout'[i].type = "console"
        PROVE  stdout'[i].token = 0 \/ StillHanded(stdout'[i].token)
    <3>1. PICK t : t = stdout[i + 1].token
      OBVIOUS
    <3>2. /\ stdout'[i] = stdout[i + 1] /\ i + 1 \in 1..Len(stdout) /\ 1 \in 1..Len(stdout)
          /\ 1 < i + 1 /\ Head(stdout) = stdout[1]
      BY <1>1, ReadOrder
    <3>3. t = 0 \/ Handed(t)
      BY <2>1, <3>1, <3>2 DEF TextIsOwned, UnreadIsOwned
    <3>4. t # u
      BY <1>1, <2>1, <3>1, <3>2 DEF TextIsOwned, TextBeforeAnswer
    <3>5. t = 0 \/ StillHanded(t)
      BY <1>3, <3>3, <3>4, HandedStays
    <3> QED
      BY <3>1, <3>2, <3>5
  <2> QED
    BY <2>1 DEF UnreadIsOwned, Handed, StillHanded
<1> QED
  BY <1>1, <1>4, <1>5, ReadOrder DEF TextIsOwned

\* GDB prints.
LEMMA PrintText ==
    ASSUME IInv, TextIsOwned, [Next]_vars, NEW type, NEW t, NEW class,
           [type |-> type, token |-> t, class |-> class] \in Records,
           GdbPrint(type, t, class),
           type = "console" => t = 0 \/ Handed(t),
           type = "console" =>
               \A i \in 1..Len(stdout) : stdout[i].type = "result" => stdout[i].token # t
    PROVE  TextIsOwned'
<1> USE DEF IInv
<1> DEFINE rec == [type |-> type, token |-> t, class |-> class]
<1>1. stdout' = Append(stdout, rec) /\ console' = console /\ status' = status /\ stdout \in Seq(Records)
  BY DEF GdbPrint, chan, TypeOK
<1>2. \A i \in 1..Len(stdout') :
          \/ i \in 1..Len(stdout) /\ stdout'[i] = stdout[i]
          \/ i = Len(stdout) + 1 /\ stdout'[i] = rec
  BY <1>1, AppendOf
<1>3. rec.type = type /\ rec.token = t
  OBVIOUS
<1> HIDE DEF rec
<1>4. ASSUME NEW s, s = 0 \/ Handed(s)
      PROVE  s = 0 \/ StillHanded(s)
  BY <1>1, <1>4, HandedStays
<1>5. KeptIsOwned'
  BY <1>1, <1>4 DEF TextIsOwned, KeptIsOwned, Handed, StillHanded
<1>6. UnreadIsOwned'
  <2>1. \A i \in 1..Len(stdout') : stdout'[i].type = "console" =>
            stdout'[i].token = 0 \/ Handed(stdout'[i].token)
    BY <1>2, <1>3 DEF TextIsOwned, UnreadIsOwned
  <2>2. \A i \in 1..Len(stdout') : stdout'[i].type = "console" =>
            stdout'[i].token = 0 \/ StillHanded(stdout'[i].token)
    BY <1>4, <2>1
  <2> QED
    BY <2>2 DEF UnreadIsOwned, Handed, StillHanded
<1>7. TextBeforeAnswer'
  <2> SUFFICES ASSUME NEW i \in 1..Len(stdout'), NEW j \in 1..Len(stdout'), i < j,
                      stdout'[i].type = "result", stdout'[j].type = "console"
               PROVE  stdout'[i].token # stdout'[j].token
    BY DEF TextBeforeAnswer
  <2>1. i \in 1..Len(stdout) /\ stdout'[i] = stdout[i]
    BY <1>1, <1>2
  <2> QED
    BY <1>2, <1>3, <2>1 DEF TextIsOwned, TextBeforeAnswer
<1> QED
  BY <1>5, <1>6, <1>7 DEF TextIsOwned

LEMMA TextStep ==
    ASSUME IInv, Unanswered, TextIsOwned, [Next]_vars
    PROVE  TextIsOwned'
<1> USE DEF IInv
<1>1. CASE HandleLine
  BY <1>1, ReadText, ReadResult
<1>2. ASSUME UNCHANGED <<stdout, console>>, \A d \in Calls : status'[d] = "resolved" => status[d] = "resolved"
      PROVE  TextIsOwned'
  <2>1. ASSUME NEW t, t = 0 \/ Handed(t)
        PROVE  t = 0 \/ StillHanded(t)
    BY <1>2, <2>1, HandedStays
  <2>2. KeptIsOwned'
    BY <1>2, <2>1 DEF TextIsOwned, KeptIsOwned, Handed, StillHanded
  <2>3. \A i \in 1..Len(stdout) : stdout[i].type = "console" =>
            stdout[i].token = 0 \/ StillHanded(stdout[i].token)
    BY <2>1 DEF TextIsOwned, UnreadIsOwned
  <2>4. UnreadIsOwned'
    BY <1>2, <2>3 DEF UnreadIsOwned, Handed, StillHanded
  <2> QED
    BY <1>2, <2>2, <2>4 DEF TextIsOwned, TextBeforeAnswer
<1>3. ASSUME NEW type \in {"prompt", "console"}, NEW t \in Talkers \cup {0}, GdbStream(type, t)
      PROVE  TextIsOwned'
  <2>1. [type |-> type, token |-> t, class |-> "none"] \in Records
    BY ConstantsAssumption DEF Records, Sources
  <2>2. ASSUME t # 0
        PROVE  /\ Handed(t)
               /\ \A i \in 1..Len(stdout) : stdout[i].type = "result" => stdout[i].token # t
    <3>1. t = stdin[1] /\ 1 \in 1..Len(stdin)
      <4>1. stdin \in Seq(Tokens) /\ stdin # <<>> /\ t = Head(stdin)
        BY <1>3, <2>2 DEF GdbStream, TypeOK
      <4> QED
        BY <4>1, TailOf
    <3>2. PICK d \in Calls : sentAs[d] = t
      BY <3>1 DEF Unanswered
    <3>3. \A k : <<t, k>> \notin answered
      BY <3>1 DEF Unanswered, TypeOK
    <3>4. status[d] # "resolved"
      BY <3>2, <3>3 DEF CallsInv, RepliesMatch
    <3> QED
      BY <3>2, <3>3, <3>4 DEF Handed, Honest
  <2>3. t = 0 => \A i \in 1..Len(stdout) : stdout[i].type = "result" => stdout[i].token # t
    BY DEF TypeOK, Records, Tokens
  <2>4. GdbPrint(type, t, "none")
    BY <1>3 DEF GdbStream
  <2> QED
    BY <2>1, <2>2, <2>3, <2>4, PrintText
<1>4. ASSUME NEW class \in ResultClasses, GdbAnswer(class)
      PROVE  TextIsOwned'
  <2>1. stdin \in Seq(Tokens) /\ stdin # <<>> /\ GdbPrint("result", Head(stdin), class)
    BY <1>4 DEF GdbAnswer, TypeOK
  <2>2. [type |-> "result", token |-> Head(stdin), class |-> class] \in Records
    BY <2>1 DEF Records
  <2> QED
    BY <2>1, <2>2, PrintText
<1>5. CASE GdbDies
  BY <1>2, <1>5 DEF GdbDies, chan
<1>6. CASE ~HandleLine /\ ~Gdb
  <2>1. UNCHANGED <<stdout, console>>
    BY <1>6 DEF Next, Start, FallbackTimer, InitLoop, InitContinue, SendCommand, Dispatch,
       SendCommandRaw, Timers, Timeout, Terminate, Kill, ExitEvent, vars
  <2> QED
    BY <1>2, <1>6, <2>1, OnlyResultsResolve
<1> QED
  BY <1>1, <1>3, <1>4, <1>5, <1>6 DEF Gdb

\* What a call was given stays accounted for.
LEMMA OutputStep ==
    ASSUME IInv, TextInv, [Next]_vars
    PROVE  OutputProvenance'
<1> USE DEF IInv
<1>1. ASSUME NEW c \in Calls, NEW t \in output[c]
      PROVE  \/ t \in {0, sentAs'[c]}
             \/ \E d \in 1..(c - 1) : sentAs'[d] = t /\ status'[d] = "rejected"
  <2>1. CASE t \in {0, sentAs[c]}
    BY <2>1, SentStays
  <2>2. CASE \E d \in 1..(c - 1) : sentAs[d] = t /\ status[d] = "rejected"
    <3>1. PICK d \in 1..(c - 1) : sentAs[d] = t /\ status[d] = "rejected"
      BY <2>2
    <3>2. d \in Calls
      BY MaxCallsNat DEF Calls
    <3> QED
      BY <3>1, <3>2, SentStays DEF Settled
  <2> QED
    BY <1>1, <2>1, <2>2 DEF TextInv, OutputProvenance
<1>2. CASE output' = output
  BY <1>1, <1>2 DEF OutputProvenance
<1>3. CASE output' # output
  <2> DEFINE u  == Head(stdout).token
             cs == Callback(u)
  <2>1. HandleLine /\ HandleResult
    BY <1>3 DEF Next, Start, FallbackTimer, InitLoop, InitContinue, SendCommand, Dispatch,
       SendCommandRaw, Timers, Timeout, Terminate, Kill, ExitEvent, vars, HandleLine, HandlePrompt,
       HandleConsole, Gdb, GdbStream, GdbAnswer, GdbDies, GdbPrint
  <2>2. /\ output' = [c \in Calls |-> IF c \in cs THEN console ELSE output[c]]
        /\ Settle(cs, "resolved") /\ sentAs' = sentAs
    BY <1>3, <2>1 DEF HandleLine, HandleResult
  <2>3. ASSUME NEW c \in cs, NEW t \in console
        PROVE  \/ t \in {0, sentAs'[c]}
               \/ \E d \in 1..(c - 1) : sentAs'[d] = t /\ status'[d] = "rejected"
    <3>1. c \in Calls /\ status[c] = "waiting" /\ sentAs[c] = u
      BY DEF Callback, CallsInv, TokenUse
    <3>2. c \in 1..calls /\ (\A d \in 1..(c - 1) : status[d] \in Settled)
          /\ (\A d \in Calls : status[d] = "waiting" => d = c)
      BY <3>1, OneAtATime
    <3>3. SUFFICES ASSUME t # 0, t # sentAs[c]
                   PROVE  \E d \in 1..(c - 1) : sentAs'[d] = t /\ status'[d] = "rejected"
      BY <2>2
    <3>4. PICK d \in Calls : sentAs[d] = t /\ status[d] # "resolved"
      BY <2>3, <3>3 DEF TextInv, TextIsOwned, KeptIsOwned, Handed
    <3>5. status[d] = "rejected" /\ d # c
      BY <3>2, <3>3, <3>4 DEF CallsInv, TokenUse, TypeOK, Statuses, Settled
    <3>6. d \in 1..calls /\ calls \in Nat
      BY <3>5, MaxCallsNat DEF CallsInv, NoGaps, TypeOK, Calls
    <3>7. ~(c < d)
      BY <3>1, <3>2, <3>5, <3>6 DEF CallsInv, CallOrder, Settled
    <3>8. d \in 1..(c - 1)
      BY <3>2, <3>5, <3>6, <3>7
    <3> QED
      BY <2>2, <3>4, <3>5, <3>8, SentStays DEF Settled
  <2> HIDE DEF cs
  <2> QED
    BY <1>1, <2>2, <2>3 DEF OutputProvenance
<1> QED
  BY <1>2, <1>3

LEMMA TextInvStep == IInv /\ TextInv /\ [Next]_vars => TextInv'
BY UnansweredStep, TextStep, OutputStep DEF TextInv

-----------------------------------------------------------------------------
(* Nobody waits for GDB alone. *)

\* Nothing has begun before start() spawns GDB.
Unstarted == process = "unset" => ~readyHandled /\ gdb = "none" /\ stdout = <<>>

NoKindYet == \A c \in Calls : c > calls => kind[c] = "none"

\* The last init command is known, so that the init loop resumes after it.
LastInit ==
    \E d \in 1..calls : kind[d] = "init" /\ \A e \in Calls : e > d => kind[e] # "init"

Looping == startState = "pending" => process # "unset" /\ (readyHandled => LastInit)

\* The lines left of the event at hand are in the pipe.
ChunkFits == chunk <= Len(stdout)

WorkInv == SettledFirst /\ Unstarted /\ NoKindYet /\ Looping /\ ChunkFits

LEMMA InitWorkInv == Init => WorkInv
<1> SUFFICES ASSUME Init PROVE WorkInv
  OBVIOUS
<1>1. SettledFirst
  BY MaxCallsNat DEF Init, SettledFirst, Settled, Calls
<1> QED
  BY <1>1 DEF Init, WorkInv, Unstarted, NoKindYet, Looping, ChunkFits

\* Whose turn it is follows the calls that have settled, and is who settles.
LEMMA SettledFirstStep ==
    ASSUME IInv, SettledFirst, Move
    PROVE  SettledFirst'
<1> USE MaxCallsNat
<1>0. PICK n \in 0..calls : \A c \in Calls : status[c] \in Settled <=> c <= n
  BY DEF SettledFirst
<1>1. calls \in 0..MaxCalls /\ status \in [Calls -> Statuses] /\ TypeOK /\ CallsInv
  BY DEF IInv, TypeOK
<1>2. CASE QuietMove
  BY <1>0, <1>2 DEF QuietMove, SettledFirst
<1>3. CASE \E k \in Kinds : AppendMove(k)
  <2>1. status' = [status EXCEPT ![calls + 1] = "queued"] /\ calls' = calls + 1
    BY <1>3 DEF AppendMove, AppendCall
  <2>2. status[calls + 1] = "uncalled" /\ calls + 1 \in Calls
    BY <1>1, <1>3 DEF AppendMove, CallsInv, NoGaps, Calls
  <2>3. \A c \in Calls : status'[c] \in Settled <=> status[c] \in Settled
    BY <1>1, <2>1, <2>2 DEF Settled
  <2> QED
    BY <1>0, <1>1, <2>1, <2>3 DEF SettledFirst
<1>4. ASSUME NEW c \in Calls, status[c] \notin Settled, status[c] # "uncalled",
             \A d \in 1..(c - 1) : status[d] \in Settled,
             NEW s \in Settled, status' = [status EXCEPT ![c] = s], calls' = calls
      PROVE  SettledFirst'
  <2>1. c \in 1..calls /\ c = n + 1
    <3>1. c \in 1..calls
      BY <1>1, <1>4 DEF CallsInv, NoGaps, Calls
    <3>2. ~(c <= n)
      BY <1>0, <1>4
    <3>3. c > 1 => status[c - 1] \in Settled /\ c - 1 \in Calls
      BY <1>4 DEF Calls
    <3>4. c > 1 => c - 1 <= n
      BY <1>0, <3>3
    <3> QED
      BY <1>1, <3>1, <3>2, <3>4 DEF Calls
  <2>2. \A d \in Calls : status'[d] \in Settled <=> d <= n + 1
    BY <1>0, <1>1, <1>4, <2>1 DEF Calls
  <2> QED
    BY <1>1, <1>4, <2>1, <2>2 DEF SettledFirst
<1>5. CASE \E c \in Calls : RefuseMove(c)
  <2> PICK c \in Calls : RefuseMove(c)
    BY <1>5
  <2>1. Dispatchable(c) /\ status' = [status EXCEPT ![c] = "rejected"] /\ calls' = calls
    BY DEF RefuseMove
  <2>2. \A d \in 1..(c - 1) : status[d] \in Settled
    BY <1>1, <2>1, BeforeDispatch
  <2>3. status[c] = "queued" /\ "rejected" \in Settled
    BY <2>1 DEF Dispatchable, Settled
  <2>4. status[c] \notin Settled /\ status[c] # "uncalled"
    BY <2>3 DEF Settled
  <2> QED
    BY <1>4, <2>1, <2>2, <2>3, <2>4
<1>6. CASE \E c \in Calls : SendMove(c)
  <2>1. \A d \in Calls : status'[d] \in Settled <=> status[d] \in Settled
    BY <1>1, <1>6 DEF SendMove, Dispatchable, Settled
  <2>2. calls' = calls
    BY <1>6 DEF SendMove
  <2> QED
    BY <1>0, <2>1, <2>2 DEF SettledFirst
<1>7. CASE \E cs \in SUBSET Calls, s \in Settled : SettleMove(cs, s)
  <2> PICK cs \in SUBSET Calls, s \in Settled : SettleMove(cs, s)
    BY <1>7
  <2>1. calls' = calls /\ \A d \in cs : status[d] = "waiting"
    BY DEF SettleMove, IInv, CallsInv, TokenUse
  <2>2. CASE cs = {}
    <3>1. status' = status
      BY <1>1, <2>2 DEF SettleMove, Settle
    <3> QED
      BY <1>0, <2>1, <3>1 DEF SettledFirst
  <2>3. CASE cs # {}
    <3> PICK c \in cs : TRUE
      BY <2>3
    <3>1. /\ \A d \in 1..(c - 1) : status[d] \in Settled
          /\ \A d \in Calls : status[d] = "waiting" => d = c
      BY <1>1, <2>1, OneAtATime
    <3>2. cs = {c}
      BY <2>1, <3>1
    <3>3. status' = [status EXCEPT ![c] = s]
      BY <1>1, <3>2 DEF SettleMove, Settle
    <3>4. status[c] \notin Settled /\ status[c] # "uncalled"
      BY <2>1 DEF Settled
    <3> QED
      BY <1>4, <2>1, <3>1, <3>3, <3>4
  <2> QED
    BY <2>2, <2>3
<1> QED
  BY <1>2, <1>3, <1>5, <1>6, <1>7 DEF Move

\* A call goes behind all others, and becomes the last init command if it is one.
LEMMA AppendKinds ==
    ASSUME TypeOK, calls < MaxCalls, NoKindYet, NEW k \in Kinds, AppendCall(k)
    PROVE  NoKindYet' /\ (LastInit \/ k = "init" => LastInit')
<1> USE MaxCallsNat
<1>1. /\ calls' = calls + 1 /\ kind' = [kind EXCEPT ![calls + 1] = k]
      /\ calls \in Nat /\ calls + 1 \in Calls /\ kind \in [Calls -> Kinds]
  BY DEF AppendCall, TypeOK, Calls
<1>2. NoKindYet'
  BY <1>1 DEF NoKindYet, Calls
<1>3. CASE k = "init"
  <2>1. kind'[calls + 1] = "init" /\ \A e \in Calls : e > calls + 1 => kind'[e] = "none"
    BY <1>1, <1>3 DEF NoKindYet, Calls
  <2> QED
    BY <1>1, <1>2, <2>1 DEF LastInit
<1>4. CASE k # "init" /\ LastInit
  <2>1. PICK d \in 1..calls : kind[d] = "init" /\ \A e \in Calls : e > d => kind[e] # "init"
    BY <1>4 DEF LastInit
  <2>2. d \in 1..(calls + 1) /\ kind'[d] = "init"
    BY <1>1, <2>1 DEF Calls
  <2>3. \A e \in Calls : e > d => kind'[e] # "init"
    BY <1>1, <1>4, <2>1 DEF Calls
  <2> QED
    BY <1>1, <1>2, <2>2, <2>3 DEF LastInit
<1> QED
  BY <1>2, <1>3, <1>4

LEMMA OnReadyLoops ==
    ASSUME IInv, NoKindYet, OnReady
    PROVE  NoKindYet' /\ readyHandled' /\ (startState' = "pending" => LastInit')
<1>1. CASE InitCount = 0
  BY <1>1 DEF OnReady, ResolveStart, NoKindYet
<1>2. CASE InitCount # 0
  <2>1. calls < MaxCalls
    BY <1>2, ConstantsAssumption DEF OnReady, NotReadyYet, IInv, Numbering, TypeOK, MaxCalls
  <2>2. AppendCall("init") /\ "init" \in Kinds
    BY <1>2 DEF OnReady, Kinds
  <2> QED
    BY <2>1, <2>2, AppendKinds DEF IInv, OnReady
<1> QED
  BY <1>1, <1>2

LEMMA StartupStep ==
    ASSUME IInv, Unstarted, NoKindYet, Looping, [Next]_vars
    PROVE  NoKindYet' /\ Looping'
<1>1. ASSUME UNCHANGED <<calls, kind, startup>>, process # "unset" => process' # "unset"
      PROVE  NoKindYet' /\ Looping'
  BY <1>1 DEF NoKindYet, Looping, LastInit, startup
<1>2. CASE Start
  BY <1>2 DEF Start, NoKindYet, Looping, Unstarted
<1>3. CASE FallbackTimer
  BY <1>3, OnReadyLoops DEF FallbackTimer, Looping
<1>4. CASE InitLoop
  <2> PICK c \in Calls : InitContinue(c)
    BY <1>4 DEF InitLoop
  <2>1. /\ startState = "pending" /\ process # "unset" /\ process' = process
        /\ calls \in Nat
    BY DEF InitContinue, InitSettled, Looping, IInv, TypeOK
  <2>2. CASE status[c] = "resolved" /\ initIssued < InitCount
    <3>1. calls < MaxCalls
      BY <2>1, <2>2, ConstantsAssumption DEF IInv, Numbering, TypeOK, MaxCalls
    <3>2. AppendCall("init") /\ "init" \in Kinds
      BY <2>2 DEF InitContinue, Kinds
    <3> QED
      BY <2>1, <3>1, <3>2, AppendKinds DEF IInv, Looping
  <2>3. CASE ~(status[c] = "resolved" /\ initIssued < InitCount)
    <3>1. UNCHANGED <<calls, kind>> /\ startState' # "pending"
      BY <2>1, <2>3 DEF InitContinue, ResolveStart
    <3> QED
      BY <3>1 DEF NoKindYet, Looping
  <2> QED
    BY <2>2, <2>3
<1>5. CASE SendCommand \/ Terminate
  <2>1. PICK k \in {"user", "exit"} : AppendCall(k)
    BY <1>5 DEF SendCommand, Terminate
  <2>2. /\ calls < MaxCalls /\ k \in Kinds
        /\ UNCHANGED <<readyHandled, startState>> /\ process' # "unset"
    BY <1>5, ConstantsAssumption DEF SendCommand, Terminate, Kill, startup, IInv, Numbering,
       TypeOK, MaxCalls, Kinds
  <2> QED
    BY <2>1, <2>2, AppendKinds DEF IInv, Looping
<1>6. CASE HandleLine
  <2>1. process' = process
    BY <1>6 DEF HandleLine
  <2>2. CASE HandlePrompt /\ NotReadyYet
    <3>1. stdout # <<>>
      BY <1>6 DEF HandleLine
    <3> QED
      BY <2>1, <2>2, <3>1, OnReadyLoops DEF HandlePrompt, Looping, Unstarted
  <2>3. CASE ~(HandlePrompt /\ NotReadyYet)
    <3>1. UNCHANGED <<calls, kind, startup>>
      BY <1>6, <2>3 DEF HandleLine, HandlePrompt, HandleConsole, HandleResult
    <3> QED
      BY <1>1, <2>1, <3>1
  <2> QED
    BY <2>2, <2>3
<1>7. CASE Dispatch \/ Timers \/ ExitEvent \/ Gdb \/ UNCHANGED vars
  BY <1>1, <1>7 DEF Dispatch, SendCommandRaw, Timers, Timeout, ExitEvent, Gdb, GdbStream,
     GdbAnswer, GdbDies, GdbPrint, startup, vars
<1> QED
  BY <1>2, <1>3, <1>4, <1>5, <1>6, <1>7 DEF Next

LEMMA PipeStep ==
    ASSUME IInv, Unstarted, ChunkFits, [Next]_vars
    PROVE  Unstarted' /\ ChunkFits'
<1>0. stdout \in Seq(Records) /\ chunk \in Nat
  BY DEF IInv, TypeOK
<1>1. ASSUME UNCHANGED <<chunk, stdout>>,
             process' = "unset" => UNCHANGED <<process, readyHandled, gdb>>
      PROVE  Unstarted' /\ ChunkFits'
  BY <1>1 DEF Unstarted, ChunkFits
<1>2. CASE HandleLine
  <2>1. stdout # <<>> /\ process' = process /\ stdout' = Tail(stdout)
    BY <1>2 DEF HandleLine
  <2>2. PICK n \in 1..Len(stdout) : chunk' = n - 1
    BY <1>2 DEF HandleLine
  <2>3. Len(stdout') = Len(stdout) - 1 /\ Len(stdout) \in Nat
    BY <1>0, <2>1
  <2> QED
    BY <2>1, <2>2, <2>3 DEF Unstarted, ChunkFits
<1>3. CASE Gdb
  <2>1. gdb = "alive" /\ UNCHANGED <<process, chunk>>
    BY <1>3 DEF Gdb, GdbStream, GdbAnswer, GdbDies, GdbPrint
  <2>2. stdout' = stdout \/ \E r : stdout' = Append(stdout, r)
    BY <1>3 DEF Gdb, GdbStream, GdbAnswer, GdbDies, GdbPrint
  <2>3. Len(stdout') >= Len(stdout) /\ Len(stdout) \in Nat
    BY <1>0, <2>2
  <2> QED
    BY <1>0, <2>1, <2>3 DEF Unstarted, ChunkFits
<1>4. CASE Start \/ FallbackTimer \/ InitLoop \/ SendCommand \/ Dispatch \/ Timers \/ Terminate
           \/ ExitEvent \/ UNCHANGED vars
  <2>1. UNCHANGED <<chunk, stdout>>
    BY <1>4 DEF Start, FallbackTimer, InitLoop, InitContinue, SendCommand, Dispatch,
       SendCommandRaw, Timers, Timeout, Terminate, ExitEvent, vars
  <2>2. process' = "unset" => UNCHANGED <<process, readyHandled, gdb>>
    BY <1>4 DEF Start, FallbackTimer, InitLoop, InitContinue, SendCommand, Dispatch,
       SendCommandRaw, Timers, Timeout, Terminate, Kill, ExitEvent, startup, world, vars
  <2> QED
    BY <1>1, <2>1, <2>2
<1> QED
  BY <1>2, <1>3, <1>4 DEF Next

LEMMA WorkInvStep == IInv /\ WorkInv /\ [Next]_vars => WorkInv'
BY Moves, SettledFirstStep, StartupStep, PipeStep DEF WorkInv

\* A call that waits has its timer; of calls that only queue, the first can be sent.
LEMMA SomebodyGoesOn ==
    ASSUME IInv, WorkInv, chunk = 0, Drained, NEW c \in Calls, status[c] \in {"queued", "waiting"}
    PROVE  \/ pendingCommands # {}
           \/ \E d \in Calls : /\ status[d] = "waiting"
                               /\ \E k \in {"connected", "exit"} : <<sentAs[d], k>> \in answered
<1> USE MaxCallsNat
<1>1. PICK n \in 0..calls : \A d \in Calls : status[d] \in Settled <=> d <= n
  BY DEF WorkInv, SettledFirst
<1>2. calls \in 0..MaxCalls /\ status \in [Calls -> Statuses] /\ NoGaps
  BY DEF IInv, TypeOK, CallsInv
<1>3. c > n /\ c <= calls
  BY <1>1, <1>2 DEF Settled, NoGaps, Calls
<1>4. n + 1 \in Calls /\ n + 1 <= calls /\ ~(n + 1 <= n)
  BY <1>2, <1>3 DEF Calls
<1>5. status[n + 1] \in {"queued", "waiting"}
  BY <1>1, <1>2, <1>4 DEF NoGaps, Statuses
<1>6. n + 1 > 1 => status[(n + 1) - 1] \in Settled
  BY <1>1, <1>2, <1>4 DEF Calls
<1>7. status[n + 1] = "waiting"
  BY <1>4, <1>5, <1>6 DEF Drained, Dispatchable
<1> QED
  BY <1>4, <1>7 DEF IInv, CallsInv, NoOrphan

-----------------------------------------------------------------------------
(* The theorems. *)

\* Every variable keeps its type, whatever GDB and the callers do.
THEOREM TypeCorrect == Spec => []TypeOK
<1>1. IInv => TypeOK
  BY DEF IInv
<1> QED
  BY <1>1, Invariance, PTL

\* ADP-009 (MI2.ts:308-317): a command is sent or refused only after every
\* earlier command has settled.
THEOREM Serialised == Spec => []CallOrder
<1>1. IInv => CallOrder
  BY DEF IInv, CallsInv
<1> QED
  BY <1>1, Invariance, PTL

\* MI2.ts:259-279: a command resolves only with GDB's answer to that command.
THEOREM NoMixedReplies == Spec => []RepliesMatch
<1>1. IInv => RepliesMatch
  BY DEF IInv, CallsInv
<1> QED
  BY <1>1, Invariance, PTL

\* MI2.ts:136-144, 259-281, 339-344: a waiting call stays within reach of the
\* timer and of the exit handler, unless GDB answered it connected or exit.
THEOREM NobodyStranded == Spec => []NoOrphan
<1>1. IInv => NoOrphan
  BY DEF IInv, CallsInv
<1> QED
  BY <1>1, Invariance, PTL

\* MI2.ts:267-281: the text attached to a result was printed for that command, for nobody,
\* or for an earlier command that failed, never for one that was answered.
THEOREM TextGoesToItsCommand == Spec => []OutputProvenance
<1>1. Spec => []TextInv
  BY InitTextInv, TextInvStep, Invariance, PTL DEF Spec
<1>2. TextInv => OutputProvenance
  BY DEF TextInv
<1> QED
  BY <1>1, <1>2, PTL

\* MI2.ts:152-176: the init commands are run once, by the prompt or by the
\* fallback timer.
THEOREM InitCommandsOnce == Spec => []InitOnce
<1>1. IInv => InitOnce
  BY DEF IInv, Numbering, InitOnce, TypeOK
<1> QED
  BY <1>1, Invariance, PTL

\* sendCommand is a serial channel (MI2.ts:313-346): every step of it is a
\* step of SerialChannel, or leaves the calls alone.
THEOREM Refinement == Spec => ImplementsSerialChannel
<1>1. Init => Channel!Init
  BY MaxCallsNat DEF Init, Channel!Init, Channel!Calls, Calls, Settled
<1>2. IInv /\ [Next]_vars => [Channel!Next]_(Channel!vars)
  <2> SUFFICES ASSUME IInv, Move PROVE [Channel!Next]_(Channel!vars)
    BY Moves
  <2> USE DEF IInv
  <2>1. CASE QuietMove
    BY <2>1, QuietMaps
  <2>2. CASE \E k \in Kinds : AppendMove(k)
    BY <2>2, AppendMaps DEF Channel!Next
  <2>3. CASE \E c \in Calls : SendMove(c)
    BY <2>3, SendMaps DEF Channel!Next
  <2>4. CASE \E c \in Calls : RefuseMove(c)
    <3> PICK c \in Calls : RefuseMove(c)
      BY <2>4
    <3>1. c \in 1..calls /\ status[c] = "queued"
      BY MaxCallsNat DEF RefuseMove, Dispatchable, TypeOK, CallsInv, NoGaps, Calls
    <3>2. \A d \in 1..(c - 1) : status[d] \in Settled
      BY BeforeDispatch DEF RefuseMove
    <3>3. ASSUME NEW d \in Calls, status[d] = "waiting" PROVE d = c
      <4>1. \A e \in 1..(d - 1) : status[e] \in Settled
        BY <3>3, OneAtATime
      <4> QED
        BY <3>1, <3>2, <3>3, <4>1, MaxCallsNat DEF Calls, Settled
    <3>4. Channel!Settle(c, "rejected")
      BY <3>1, <3>2, <3>3, SettleMaps DEF RefuseMove, Settled
    <3> QED
      BY <3>4 DEF Channel!Next, Channel!Calls, Channel!Outcomes, Calls
  <2>5. CASE \E cs \in SUBSET Calls, s \in Settled : SettleMove(cs, s)
    <3> PICK cs \in SUBSET Calls, s \in Settled : SettleMove(cs, s)
      BY <2>5
    <3>1. CASE cs = {}
      BY <3>1 DEF SettleMove, Settle, TypeOK, Channel!vars
    <3>2. CASE cs # {}
      <4> PICK c \in cs : TRUE
        BY <3>2
      <4>1. \A d \in cs : status[d] = "waiting"
        BY DEF SettleMove, CallsInv, TokenUse
      <4>2. /\ c \in 1..calls
            /\ \A d \in 1..(c - 1) : status[d] \in Settled
            /\ \A d \in Calls : status[d] = "waiting" => d = c
        BY <4>1, OneAtATime
      <4>3. cs = {c}
        BY <4>1, <4>2
      <4>4. status' = [status EXCEPT ![c] = s] /\ calls' = calls
        BY <4>3 DEF SettleMove, Settle, TypeOK
      <4>5. Channel!Settle(c, s)
        BY <4>1, <4>2, <4>4, SettleMaps DEF Settled
      <4> QED
        BY <4>5 DEF Channel!Next, Channel!Calls, Channel!Outcomes, Calls, Settled
    <3> QED
      BY <3>1, <3>2
  <2> QED
    BY <2>1, <2>2, <2>3, <2>4, <2>5 DEF Move
<1> QED
  BY <1>1, <1>2, Invariance, PTL DEF Spec, ImplementsSerialChannel, Channel!Spec

\* MI2.ts:308-317: calls settle in the order they were made.
THEOREM SettledInOrder == Spec => []SettledFirst
<1>1. WorkInv => SettledFirst
  BY DEF WorkInv
<1> QED
  BY <1>1, InitWorkInv, WorkInvStep, Invariance, PTL DEF Spec

\* MI2.ts:148-178, 255-300, 308-346: what CommandsSettle and StartSettles need of the
\* program, beside a loop that runs: as long as a call or start() has not settled, a line, a
\* continuation or a timer is there to be handled.
THEOREM SomethingIsAlwaysDue == Spec => []NeverStuck
<1>1. IInv /\ WorkInv => NeverStuck
  <2> SUFFICES ASSUME IInv, WorkInv, ~HasWork,
                      startState = "pending"
                          \/ \E c \in Calls : status[c] \in {"queued", "waiting"}
               PROVE  \E c \in Calls : /\ status[c] = "waiting"
                                       /\ \E k \in {"connected", "exit"} :
                                              <<sentAs[c], k>> \in answered
    BY DEF NeverStuck
  <2>1. chunk = 0
    BY DEF HasWork, WorkInv, ChunkFits, IInv, TypeOK
  <2>2. Drained
    BY <2>1 DEF HasWork, Drained
  <2>3. pendingCommands = {} /\ (process = "unset" \/ readyHandled)
    BY <2>2 DEF HasWork, NotReadyYet
  <2>4. CASE \E c \in Calls : status[c] \in {"queued", "waiting"}
    BY <2>1, <2>2, <2>3, <2>4, SomebodyGoesOn
  <2>5. CASE startState = "pending"
    <3>1. PICK d \in 1..calls : kind[d] = "init" /\ \A e \in Calls : e > d => kind[e] # "init"
      BY <2>3, <2>5 DEF WorkInv, Looping, LastInit
    <3>2. d \in Calls /\ status[d] \in Statuses /\ status[d] # "uncalled"
      BY MaxCallsNat DEF IInv, TypeOK, CallsInv, NoGaps, Calls
    <3>3. status[d] \notin Settled
      BY <2>2, <2>5, <3>1, <3>2 DEF Drained, InitSettled
    <3>4. status[d] \in {"queued", "waiting"}
      BY <3>2, <3>3 DEF Statuses
    <3> QED
      BY <2>1, <2>2, <2>3, <3>2, <3>4, SomebodyGoesOn
  <2> QED
    BY <2>4, <2>5
<1> QED
  BY <1>1, InitWorkInv, WorkInvStep, Invariance, PTL DEF Spec
=============================================================================
