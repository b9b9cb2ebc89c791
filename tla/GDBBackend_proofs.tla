-------------------------- MODULE GDBBackend_proofs --------------------------
(***************************************************************************)
(* Theorems about GDBBackend for any number of calls, GDB processes,       *)
(* frames and breakpoints: what a caller is told is true of what it asked, *)
(* the breakpoint list and the tables of the GDBs agree but for removals   *)
(* at work, and a backend that says the program stopped is right.          *)
(***************************************************************************)
EXTENDS GDBBackend, TLAPS

\* The type invariant in three parts.
FieldsOK ==
    /\ mi2 \in Gdbs \cup {0}
    /\ running \in BOOLEAN
    /\ currentFrameId \in Frames
    /\ breakpoints \subseteq [id : Bps, from : Gdbs]

ChannelOK ==
    /\ made \in 0..MaxCalls
    /\ call \in [Calls -> CallRecords]
    /\ queue \in [Gdbs -> Seq(Calls)]
    /\ sent \subseteq Gdbs /\ killed \subseteq Gdbs
    /\ chunk \in [from : Gdbs \cup {0}, left : Nat]

Messages == [name : Commands, call : Calls, step : Nat, arg : Int]

ProcessOK ==
    /\ exitSeen \subseteq Gdbs
    /\ gdb \in [Gdbs -> {"unused", "alive", "dead"}]
    /\ stdin \in [Gdbs -> Seq(Messages)]
    /\ pipe \in [Gdbs -> Seq(Lines)]
    /\ target \in [Gdbs -> {"none", "stopped", "running"}]
    /\ selected \in [Gdbs -> Nat]
    /\ table \in [Gdbs -> SUBSET Bps]
    /\ inserted \in [Gdbs -> 0..MaxBps]

\* A call at a command of its operation, in the channel of some process.
Named(c) ==
    c.op \in DOMAIN Script /\ c.step \in 1..Len(Script[c.op]) /\ c.from \in Gdbs

\* What a call that was made holds: the number of a breakpoint once GDB has set
\* it, and the frame it asked for once GDB has read its arguments.
CallOK(c) ==
    /\ c.op = "setBreakpoint" /\ c.st = "ready" => c.val \in Bps
    /\ c.op = "arguments" /\ c.st \in {"ready", "done"} /\ c.step = 2 => c.val = c.arg
    /\ c.op = "arguments" /\ c.st = "done" => c.step = 2

\* Commands of calls that were made, each that of its step.
GoodCommands ==
    {m \in Messages :
        /\ m.call <= made
        /\ m.step \in 1..Len(Script[call[m.call].op])
        /\ m.name = Script[call[m.call].op][m.step]
        /\ call[m.call].op = "arguments" => m.arg = call[m.call].arg}

\* Lines of which the answers are true.
GoodLines ==
    {r \in Lines :
        r.type = "answer" =>
            /\ r.call \in 1..made
            /\ r.ok /\ call[r.call].op = "setBreakpoint" => r.val \in Bps
            /\ r.ok /\ call[r.call].op = "arguments" /\ r.step = 2 =>
                   r.val = call[r.call].arg}

Honest ==
    /\ \A g \in sent : queue[g] # <<>>
    /\ \A n \in 1..made : Named(call[n]) /\ CallOK(call[n])
    /\ \A n \in Calls : n > made => call[n] = NoCall
    /\ queue \in [Gdbs -> Seq(1..made)]
    /\ stdin \in [Gdbs -> Seq(GoodCommands)]
    /\ pipe \in [Gdbs -> Seq(GoodLines)]

IInv == FieldsOK /\ ChannelOK /\ ProcessOK /\ Honest

-----------------------------------------------------------------------------
(* Scripts. *)

LEMMA ScriptType ==
    /\ \A op \in DOMAIN Script : Script[op] \in Seq(Commands) /\ Len(Script[op]) \in 1..2
    /\ DOMAIN Script =
          {"initialize", "launch", "attach", "start", "restart", "continue", "until",
           "pause", "selectFrame", "switchThread", "locals", "evaluate", "arguments",
           "setBreakpoint", "removeBreakpoint", "removeAll"}
    /\ Script["arguments"] = <<"select", "readFrame">>
    /\ Script["setBreakpoint"] = <<"insert">>
    /\ Script["removeAll"] = <<"list", "delete">>
<1>1. DOMAIN Script =
          {"initialize", "launch", "attach", "start", "restart", "continue", "until",
           "pause", "selectFrame", "switchThread", "locals", "evaluate", "arguments",
           "setBreakpoint", "removeBreakpoint", "removeAll"}
  BY DEF Script
<1>2. /\ Script["initialize"] = <<"init">> /\ Script["launch"] = <<"file", "insert">>
      /\ Script["attach"] = <<"attach">> /\ Script["start"] = <<"run">>
      /\ Script["restart"] = <<"run">> /\ Script["continue"] = <<"continue">>
      /\ Script["until"] = <<"tinsert", "continue">> /\ Script["pause"] = <<"interrupt">>
  BY DEF Script
<1>3. /\ Script["selectFrame"] = <<"select">> /\ Script["switchThread"] = <<"thread">>
      /\ Script["locals"] = <<"read">> /\ Script["evaluate"] = <<"select", "read">>
      /\ Script["arguments"] = <<"select", "readFrame">>
      /\ Script["setBreakpoint"] = <<"insert">>
      /\ Script["removeBreakpoint"] = <<"delete">>
      /\ Script["removeAll"] = <<"list", "delete">>
  BY DEF Script
<1>4. ASSUME NEW op \in DOMAIN Script
      PROVE  \/ \E a \in Commands : Script[op] = <<a>>
             \/ \E a, b \in Commands : Script[op] = <<a, b>>
  <2>1. CASE op \in {"initialize", "launch", "attach", "start", "restart", "continue",
                     "until", "pause"}
    BY <2>1, <1>2 DEF Commands
  <2>2. CASE op \in {"selectFrame", "switchThread", "locals", "evaluate", "arguments",
                     "setBreakpoint", "removeBreakpoint", "removeAll"}
    BY <2>2, <1>3 DEF Commands
  <2> QED
    BY <1>1, <2>1, <2>2
<1>5. ASSUME NEW op \in DOMAIN Script
      PROVE  Script[op] \in Seq(Commands) /\ Len(Script[op]) \in 1..2
  <2>1. CASE \E a \in Commands : Script[op] = <<a>>
    BY <2>1
  <2>2. CASE \E a, b \in Commands : Script[op] = <<a, b>>
    BY <2>2
  <2> QED
    BY <1>4, <2>1, <2>2
<1> QED
  BY <1>1, <1>3, <1>5

LEMMA HeadTail ==
    ASSUME NEW S, NEW s \in Seq(S), s # <<>>
    PROVE  Head(s) \in S /\ Tail(s) \in Seq(S)
OBVIOUS

LEMMA TupleSeq ==
    ASSUME NEW S
    PROVE  \A a, b, c \in S : /\ <<a>> \in Seq(S) /\ <<a, b>> \in Seq(S)
                              /\ <<a, b, c>> \in Seq(S)
OBVIOUS

LEMMA SeqMonotone ==
    ASSUME NEW S, NEW T, S \subseteq T, NEW f \in [Gdbs -> Seq(S)]
    PROVE  f \in [Gdbs -> Seq(T)]
<1>1. ASSUME NEW s \in Seq(S) PROVE s \in Seq(T)
  BY <1>1
<1> QED
  BY <1>1

\* Commands and lines stay good while calls go on.
LEMMA Carried ==
    ASSUME IInv, made' \in 0..MaxCalls, made <= made', call' \in [Calls -> CallRecords],
           \A n \in 1..made : /\ call'[n].op = call[n].op
                              /\ call[n].op = "arguments" => call'[n].arg = call[n].arg
    PROVE  GoodCommands \subseteq GoodCommands' /\ GoodLines \subseteq GoodLines'
<1>1. made \in 0..MaxCalls /\ MaxCalls \in Nat
  BY ConstantsAssumption DEF IInv, ChannelOK
<1>2. GoodCommands \subseteq GoodCommands'
  <2>1. ASSUME NEW m \in GoodCommands PROVE m \in GoodCommands'
    <3>1. m.call \in Calls /\ m.call \in Nat /\ m.call <= made
      BY DEF GoodCommands, Messages, Calls
    <3>2. m.call \in 1..made /\ m.call <= made'
      BY <1>1, <3>1 DEF Calls
    <3> QED
      BY <3>2 DEF GoodCommands
  <2> QED
    BY <2>1
<1>3. GoodLines \subseteq GoodLines'
  <2>1. 1..made \subseteq 1..made'
    BY <1>1
  <2> QED
    BY <2>1 DEF GoodLines
<1> QED
  BY <1>2, <1>3

-----------------------------------------------------------------------------
LEMMA InitIInv == Init => IInv
<1> SUFFICES ASSUME Init PROVE IInv
  OBVIOUS
<1> USE ConstantsAssumption DEF Init
<1>1. FieldsOK
  <2>1. 0 \in Frames
    BY DEF Frames
  <2> QED
    BY <2>1 DEF FieldsOK
<1>2. ChannelOK
  BY DEF ChannelOK, CallRecords, NoCall, Calls
<1>3. ProcessOK
  BY DEF ProcessOK
<1>4. Honest
  BY DEF Honest, Calls
<1> QED
  BY <1>1, <1>2, <1>3, <1>4 DEF IInv

-----------------------------------------------------------------------------
(* The channels. *)

\* The parts of Honest that a step leaves alone when calls go on.
LEMMA HonestCarried ==
    ASSUME IInv, made' \in 0..MaxCalls, made <= made', call' \in [Calls -> CallRecords],
           \A n \in 1..made : /\ call'[n].op = call[n].op
                              /\ call[n].op = "arguments" => call'[n].arg = call[n].arg,
           UNCHANGED <<stdin, pipe>>
    PROVE  /\ stdin' \in [Gdbs -> Seq(GoodCommands')]
           /\ pipe' \in [Gdbs -> Seq(GoodLines')]
<1>1. GoodCommands \subseteq GoodCommands' /\ GoodLines \subseteq GoodLines'
  BY Carried
<1>2. stdin \in [Gdbs -> Seq(GoodCommands)] /\ pipe \in [Gdbs -> Seq(GoodLines)]
  BY DEF IInv, Honest
<1> QED
  BY <1>1, <1>2, SeqMonotone

\* A new call: it is the last of its channel, or it has yet to wait for a prompt.
Begun(op, d) ==
    /\ Begin(op)
    /\ d \in CallRecords /\ d.op = op /\ d.step = 1 /\ d.from \in Gdbs
    /\ call' = [call EXCEPT ![made + 1] = d]
    /\ \/ d.st = "starting" /\ UNCHANGED queue
       \/ d.st = "waiting" /\ queue' = [queue EXCEPT ![d.from] = Append(@, made + 1)]

LEMMA NewCallType ==
    ASSUME NEW op \in DOMAIN Script, NEW st \in {"starting", "waiting"}, NEW g \in Gdbs
    PROVE  LET c == NewCall(op, st, g)
           IN  c \in CallRecords /\ c.op = op /\ c.st = st /\ c.step = 1 /\ c.from = g
<1>1. PICK c : c = NoCall
  OBVIOUS
<1>2. c \in CallRecords
  BY <1>1 DEF NoCall, CallRecords
<1>3. PICK d : d = NewCall(op, st, g)
  OBVIOUS
<1>4. d = [c EXCEPT !.op = op, !.st = st, !.step = 1, !.from = g]
  BY <1>1, <1>3 DEF NewCall
<1>5. d \in CallRecords /\ d.op = op /\ d.st = st /\ d.step = 1 /\ d.from = g
  BY <1>2, <1>4 DEF CallRecords
<1> QED
  BY <1>3, <1>5

LEMMA UseIs ==
    ASSUME IInv, NEW op, NEW arg \in Int, Use(op, arg)
    PROVE  /\ mi2 \in Gdbs /\ mi2 # 0 /\ UNCHANGED process
           /\ \E d \in CallRecords :
                  /\ Begun(op, d) /\ d.st = "waiting" /\ d.from = mi2
                  /\ d.early = (op \in Resumers /\ Initializing(mi2))
<1>1. mi2 \in Gdbs /\ mi2 # 0 /\ UNCHANGED process /\ Begin(op)
  BY DEF Use, IInv, FieldsOK
<1>2. op \in DOMAIN Script
  BY <1>1, ConstantsAssumption DEF Begin
<1>3. PICK e \in BOOLEAN : e = (op \in Resumers /\ Initializing(mi2))
  OBVIOUS
<1>0. PICK b : b = NewCall(op, "waiting", mi2)
  OBVIOUS
<1> DEFINE c == [b EXCEPT !.arg = arg, !.early = e]
           d == [c EXCEPT !.st = "waiting"]
<1>4. Enqueue(made + 1, c)
  BY <1>0, <1>3 DEF Use
<1>5. b \in CallRecords /\ b.op = op /\ b.step = 1 /\ b.from = mi2 /\ c.from = mi2
  BY <1>0, <1>1, <1>2, NewCallType DEF CallRecords
<1>6. call' = [call EXCEPT ![made + 1] = d] /\ queue' = [queue EXCEPT ![mi2] = Append(@, made + 1)]
  BY <1>4, <1>5 DEF Enqueue
<1>7. /\ d \in CallRecords /\ d.op = op /\ d.step = 1 /\ d.from = mi2
      /\ d.st = "waiting" /\ d.early = e
  BY <1>5 DEF CallRecords
<1> HIDE DEF c, d
<1>8. Begun(op, d)
  BY <1>1, <1>6, <1>7 DEF Begun
<1> QED
  BY <1>1, <1>3, <1>7, <1>8

LEMMA InitializeIs ==
    ASSUME IInv, Initialize
    PROVE  \E g \in Gdbs :
               /\ gdb[g] = "unused" /\ mi2' = g /\ gdb' = [gdb EXCEPT ![g] = "alive"]
               /\ UNCHANGED <<running, currentFrameId, breakpoints, exitSeen, stdin,
                              pipe, target, selected, table, inserted>>
               /\ \E d \in CallRecords :
                      Begun("initialize", d) /\ d.st = "starting" /\ d.from = g
<1>1. PICK g \in Gdbs :
        /\ gdb[g] = "unused" /\ mi2' = g /\ gdb' = [gdb EXCEPT ![g] = "alive"]
        /\ Begin("initialize")
        /\ call' = [call EXCEPT ![made + 1] = NewCall("initialize", "starting", g)]
        /\ UNCHANGED <<running, currentFrameId, breakpoints, queue, exitSeen, stdin,
                       pipe, target, selected, table, inserted>>
  BY DEF Initialize
<1>2. PICK d : d = NewCall("initialize", "starting", g)
  OBVIOUS
<1>3. "initialize" \in DOMAIN Script
  BY ScriptType
<1>4. /\ d \in CallRecords /\ d.op = "initialize" /\ d.step = 1 /\ d.from = g
      /\ d.st = "starting"
  BY <1>2, <1>3, NewCallType
<1>5. Begun("initialize", d)
  BY <1>1, <1>2, <1>4 DEF Begun
<1> QED
  BY <1>1, <1>4, <1>5

LEMMA BegunIs ==
    ASSUME IInv, NEW op, NEW d, Begun(op, d)
    PROVE  LET n == made + 1 IN
           /\ n \in Calls /\ made' = n /\ made \in Nat
           /\ call[n].op = "none" /\ call[n].st = "none" /\ ~call[n].early /\ call'[n] = d
           /\ UNCHANGED <<sent, killed, chunk>>
           /\ \A k \in Calls : k # n => call'[k] = call[k]
           /\ \A k \in 1..made : k \in Calls /\ k # n /\ call'[k] = call[k]
           /\ \A k \in 1..made' : k = n \/ (k \in 1..made /\ k < n)
<1> DEFINE n == made + 1
<1>1. made \in 0..MaxCalls /\ MaxCalls \in Nat /\ made < MaxCalls /\ made' = n
  BY ConstantsAssumption DEF Begun, Begin, IInv, ChannelOK
<1>2. n \in Calls /\ n > made /\ made \in Nat
  BY <1>1 DEF Calls
<1>3. call[n].op = "none" /\ call[n].st = "none" /\ ~call[n].early
  <2>1. call[n] = NoCall
    BY <1>2 DEF IInv, Honest
  <2>2. NoCall.op = "none" /\ NoCall.st = "none" /\ ~NoCall.early
    BY DEF NoCall
  <2> QED
    BY <2>1, <2>2
<1>4. call'[n] = d /\ \A k \in Calls : k # n => call'[k] = call[k]
  BY <1>2 DEF Begun, IInv, ChannelOK
<1>5. \A k \in 1..made : k \in Calls /\ k # n
  BY <1>1, <1>2 DEF Calls
<1>6. \A k \in 1..made' : k = n \/ (k \in 1..made /\ k < n)
  BY <1>1, <1>2
<1> QED
  BY <1>1, <1>2, <1>3, <1>4, <1>5, <1>6 DEF Begun, Begin

LEMMA BeginStep ==
    ASSUME IInv, NEW op, NEW d, Begun(op, d), UNCHANGED <<stdin, pipe>>
    PROVE  ChannelOK' /\ Honest'
<1>0. PICK n : n = made + 1
  OBVIOUS
<1>1. /\ n \in Calls /\ made' = n /\ made \in Nat /\ call'[n] = d
      /\ \A k \in Calls : k # n => call'[k] = call[k]
      /\ \A k \in 1..made : k \in Calls /\ k # n /\ call'[k] = call[k]
      /\ \A k \in 1..made' : k = n \/ k \in 1..made
      /\ UNCHANGED <<sent, killed, chunk>>
  BY <1>0, BegunIs
<1>2. /\ d \in CallRecords /\ d.op = op /\ d.step = 1 /\ d.from \in Gdbs
      /\ d.st \in {"starting", "waiting"}
      /\ call' = [call EXCEPT ![n] = d]
      /\ queue' = queue \/ queue' = [queue EXCEPT ![d.from] = Append(@, n)]
  BY <1>0 DEF Begun
<1>3. op \in DOMAIN Script
  BY ConstantsAssumption DEF Begun, Begin
<1>4. made \in 0..MaxCalls /\ made' \in 0..MaxCalls /\ made <= made'
  BY <1>0, <1>1, ConstantsAssumption DEF Calls
<1>5. call' \in [Calls -> CallRecords]
  BY <1>2 DEF IInv, ChannelOK
<1>6. queue' \in [Gdbs -> Seq(Calls)] /\ queue' \in [Gdbs -> Seq(1..made')]
  <2>1. queue \in [Gdbs -> Seq(Calls)] /\ queue \in [Gdbs -> Seq(1..made')]
    BY <1>4, SeqMonotone DEF IInv, Honest, ChannelOK
  <2>2. n \in 1..made' /\ n \in Calls
    BY <1>0, <1>1
  <2>3. CASE queue' = queue
    BY <2>1, <2>3
  <2>4. CASE queue' = [queue EXCEPT ![d.from] = Append(@, n)]
    <3>1. PICK g \in Gdbs : g = d.from
      BY <1>2
    <3>2. Append(queue[g], n) \in Seq(Calls) /\ Append(queue[g], n) \in Seq(1..made')
      <4>1. ASSUME NEW S, NEW q \in Seq(S), NEW x \in S PROVE Append(q, x) \in Seq(S)
        OBVIOUS
      <4>2. queue[g] \in Seq(Calls) /\ queue[g] \in Seq(1..made')
        BY <2>1
      <4> QED
        BY <2>2, <4>1, <4>2
    <3>3. queue' = [queue EXCEPT ![g] = Append(queue[g], n)]
      BY <2>4, <3>1
    <3> QED
      BY <2>1, <3>2, <3>3
  <2> QED
    BY <2>3, <2>4, <1>2
<1>7. ChannelOK'
  BY <1>1, <1>4, <1>5, <1>6 DEF IInv, ChannelOK
<1>8. Honest'
  <2>1. \A h \in sent' : queue'[h] # <<>>
    <3>1. queue \in [Gdbs -> Seq(Calls)] /\ \A h \in sent : h \in Gdbs /\ queue[h] # <<>>
      BY DEF IInv, ChannelOK, Honest
    <3>2. Append(queue[d.from], n) # <<>>
      BY <3>1, <1>2
    <3> QED
      BY <3>1, <3>2, <1>1, <1>2
  <2>2. Named(d) /\ CallOK(d)
    <3>1. 1 \in 1..Len(Script[op])
      <4>1. PICK l : l = Len(Script[op])
        OBVIOUS
      <4>2. l \in 1..2
        BY <4>1, <1>3, ScriptType
      <4>3. 1 \in 1..l
        BY <4>2
      <4> QED
        BY <4>1, <4>3
    <3> QED
      BY <3>1, <1>2, <1>3 DEF Named, CallOK
  <2>3. \A k \in 1..made' : Named(call'[k]) /\ CallOK(call'[k])
    BY <2>2, <1>1 DEF IInv, Honest
  <2>4. \A k \in Calls : k > made' => call'[k] = NoCall
    <3>1. ASSUME NEW k \in Calls, k > made' PROVE k # n /\ k > made
      BY <3>1, <1>0, <1>1 DEF Calls
    <3> QED
      BY <3>1, <1>1 DEF IInv, Honest
  <2>5. stdin' \in [Gdbs -> Seq(GoodCommands')] /\ pipe' \in [Gdbs -> Seq(GoodLines')]
    BY <1>1, <1>4, <1>5, HonestCarried
  <2> QED
    BY <2>1, <2>3, <2>4, <2>5, <1>6 DEF Honest
<1> QED
  BY <1>7, <1>8

\* The first call in a channel leaves it.
LEMMA LeaveStep ==
    ASSUME IInv, NEW g \in Gdbs, queue[g] # <<>>, NEW c \in CallRecords,
           c.op = First(g).op, c.step = First(g).step, c.arg = First(g).arg,
           c.from = First(g).from, CallOK(c),
           Leave(g, c)
    PROVE  /\ call' \in [Calls -> CallRecords]
           /\ queue' \in [Gdbs -> Seq(Calls)] /\ queue' \in [Gdbs -> Seq(1..made)]
           /\ sent' \subseteq Gdbs /\ \A h \in sent' : queue'[h] # <<>>
           /\ \A n \in 1..made : /\ Named(call'[n]) /\ CallOK(call'[n])
                                 /\ call'[n].op = call[n].op /\ call'[n].arg = call[n].arg
           /\ \A n \in Calls : n > made => call'[n] = NoCall
<1> DEFINE k == Head(queue[g])
<1>1. queue \in [Gdbs -> Seq(Calls)] /\ queue \in [Gdbs -> Seq(1..made)]
  BY DEF IInv, ChannelOK, Honest
<1>2. k \in Calls /\ k \in 1..made
  BY <1>1, HeadTail
<1>3. Tail(queue[g]) \in Seq(Calls) /\ Tail(queue[g]) \in Seq(1..made)
  BY <1>1, HeadTail
<1>4. /\ call' = [call EXCEPT ![k] = c] /\ queue' = [queue EXCEPT ![g] = Tail(@)]
      /\ sent' = sent \ {g}
  BY DEF Leave
<1>5. call' \in [Calls -> CallRecords]
  BY <1>4, <1>2 DEF IInv, ChannelOK
<1>6. queue' \in [Gdbs -> Seq(Calls)] /\ queue' \in [Gdbs -> Seq(1..made)]
  BY <1>1, <1>3, <1>4
<1>7. sent' \subseteq Gdbs /\ \A h \in sent' : queue'[h] # <<>>
  BY <1>1, <1>4 DEF IInv, Honest, ChannelOK
<1>8. \A n \in 1..made : n \in Calls
  BY ConstantsAssumption DEF IInv, ChannelOK, Calls
<1>9. \A n \in 1..made : /\ Named(call'[n]) /\ CallOK(call'[n])
                         /\ call'[n].op = call[n].op /\ call'[n].arg = call[n].arg
  <2>1. Named(call[k])
    BY <1>2 DEF IInv, Honest
  <2>2. Named(c)
    BY <2>1 DEF Named, First
  <2>3. call'[k] = c
    BY <1>2, <1>4 DEF IInv, ChannelOK
  <2>4. \A n \in 1..made : n # k => call'[n] = call[n]
    BY <1>4, <1>8 DEF IInv, ChannelOK
  <2> QED
    BY <2>2, <2>3, <2>4 DEF IInv, Honest, First
<1>10. \A n \in Calls : n > made => call'[n] = NoCall
  <2>1. ASSUME NEW n \in Calls, n > made PROVE n # k
    BY <2>1, <1>2 DEF IInv, ChannelOK
  <2> QED
    BY <2>1, <1>4 DEF IInv, ChannelOK, Honest
<1> QED
  BY <1>5, <1>6, <1>7, <1>9, <1>10

\* What is true of the calls, the queues and the messages makes Honest.
LEMMA QueuesHonest ==
    ASSUME IInv, made' = made, call' \in [Calls -> CallRecords],
           queue' \in [Gdbs -> Seq(1..made)], \A h \in sent' : queue'[h] # <<>>,
           \A n \in 1..made : /\ Named(call'[n]) /\ CallOK(call'[n])
                              /\ call'[n].op = call[n].op
                              /\ call[n].op = "arguments" => call'[n].arg = call[n].arg,
           \A n \in Calls : n > made => call'[n] = NoCall,
           stdin' \in [Gdbs -> Seq(GoodCommands)], pipe' \in [Gdbs -> Seq(GoodLines)]
    PROVE  Honest'
<1>1. GoodCommands \subseteq GoodCommands' /\ GoodLines \subseteq GoodLines'
  BY Carried DEF IInv, ChannelOK
<1>2. stdin' \in [Gdbs -> Seq(GoodCommands')] /\ pipe' \in [Gdbs -> Seq(GoodLines')]
  BY <1>1, SeqMonotone
<1> QED
  BY <1>2 DEF Honest
\* The first call leaves its channel, and only calls, queues and sent change.
LEMMA LeaveIInv ==
    ASSUME IInv, NEW g \in Gdbs, queue[g] # <<>>, NEW c \in CallRecords,
           c.op = First(g).op, c.step = First(g).step, c.arg = First(g).arg,
           c.from = First(g).from, CallOK(c),
           Leave(g, c), FieldsOK', made' = made,
           killed' = killed, chunk' \in [from : Gdbs \cup {0}, left : Nat], ProcessOK',
           stdin' = stdin, pipe' \in [Gdbs -> Seq(GoodLines)]
    PROVE  IInv'
<1>1. /\ call' \in [Calls -> CallRecords]
      /\ queue' \in [Gdbs -> Seq(Calls)] /\ queue' \in [Gdbs -> Seq(1..made)]
      /\ sent' \subseteq Gdbs /\ \A h \in sent' : queue'[h] # <<>>
      /\ \A n \in 1..made : /\ Named(call'[n]) /\ CallOK(call'[n])
                            /\ call'[n].op = call[n].op /\ call'[n].arg = call[n].arg
      /\ \A n \in Calls : n > made => call'[n] = NoCall
  BY LeaveStep
<1>2. ChannelOK'
  BY <1>1 DEF IInv, ChannelOK
<1>3. Honest'
  BY <1>1, QueuesHonest DEF IInv, Honest
<1> QED
  BY <1>2, <1>3 DEF IInv

LEMMA SendStep ==
    ASSUME IInv, NEW g \in Gdbs, Send(g)
    PROVE  IInv'
<1>1. FieldsOK'
  BY DEF IInv, FieldsOK, Send, fields
<1>2. g \notin sent /\ queue[g] # <<>> /\ made' = made /\ made \in 0..MaxCalls
  BY DEF Send, IInv, ChannelOK
<1>3. UNCHANGED <<killed, chunk, gdb, exitSeen, pipe, target, selected, table, inserted>>
  BY DEF Send
<1>a. CASE g \in killed
  <2> DEFINE c == [First(g) EXCEPT !.st = "failed"]
  <2>1. Leave(g, c) /\ UNCHANGED stdin
    BY <1>a DEF Send
  <2>2. Head(queue[g]) \in Calls /\ Head(queue[g]) \in 1..made
    BY <1>2, HeadTail DEF IInv, Honest, ChannelOK
  <2>3. First(g) \in CallRecords
    BY <2>2 DEF First, IInv, ChannelOK
  <2>4. /\ c \in CallRecords /\ c.op = First(g).op /\ c.step = First(g).step
        /\ c.arg = First(g).arg /\ c.from = First(g).from /\ CallOK(c)
    BY <2>3 DEF CallRecords, CallOK
  <2>5. /\ chunk' \in [from : Gdbs \cup {0}, left : Nat] /\ ProcessOK'
        /\ pipe' \in [Gdbs -> Seq(GoodLines)]
    BY <2>1, <1>3 DEF IInv, ChannelOK, ProcessOK, Honest
  <2> QED
    BY <1>1, <1>2, <1>3, <2>1, <2>4, <2>5, LeaveIInv
<1>b. CASE g \notin killed
  <2>1. /\ sent' = sent \cup {g} /\ UNCHANGED <<call, queue>>
        /\ stdin' = IF gdb[g] = "dead" THEN stdin
                    ELSE [stdin EXCEPT ![g] = Append(@, Command(g))]
    BY <1>b DEF Send
  <2>2. Head(queue[g]) \in Calls /\ Head(queue[g]) \in 1..made
    BY <1>2, HeadTail DEF IInv, Honest, ChannelOK
  <2>3. First(g) \in CallRecords /\ Named(First(g))
    BY <2>2 DEF First, IInv, ChannelOK, Honest
  <2>4. Script[First(g).op] \in Seq(Commands)
    BY <2>3, ScriptType DEF Named
  <2>5. Script[First(g).op][First(g).step] \in Commands
    BY <2>3, <2>4 DEF Named
  <2>6. Command(g) \in Messages
    BY <2>2, <2>3, <2>5 DEF Command, Messages, CallRecords
  <2>7. Command(g) \in GoodCommands
    <3>1. /\ Command(g).call = Head(queue[g]) /\ Command(g).step = First(g).step
          /\ Command(g).name = Script[First(g).op][First(g).step]
          /\ Command(g).arg = First(g).arg
      BY DEF Command
    <3>2. Command(g).call <= made
      BY <3>1, <2>2, <1>2
    <3> QED
      BY <3>1, <3>2, <2>3, <2>6 DEF GoodCommands, Named, First
  <2>8. stdin' \in [Gdbs -> Seq(GoodCommands)] /\ stdin' \in [Gdbs -> Seq(Messages)]
    BY <2>1, <2>6, <2>7 DEF IInv, Honest, ProcessOK
  <2>9. ChannelOK'
    BY <2>1, <1>2, <1>3 DEF IInv, ChannelOK
  <2>10. ProcessOK'
    BY <2>8, <1>3 DEF IInv, ProcessOK
  <2>11. Honest'
    <3>1. /\ call' \in [Calls -> CallRecords] /\ queue' \in [Gdbs -> Seq(1..made)]
          /\ \A h \in sent' : queue'[h] # <<>>
          /\ \A n \in 1..made : Named(call'[n]) /\ CallOK(call'[n]) /\ call'[n] = call[n]
          /\ \A n \in Calls : n > made => call'[n] = NoCall
          /\ pipe' \in [Gdbs -> Seq(GoodLines)]
      BY <2>1, <1>2, <1>3 DEF IInv, Honest, ChannelOK
    <3> QED
      BY <3>1, <2>8, <1>2, QueuesHonest
  <2> QED
    BY <1>1, <2>9, <2>10, <2>11 DEF IInv
<1> QED
  BY <1>a, <1>b
\* The first call of a channel that was sent.
LEMMA FirstType ==
    ASSUME IInv, NEW g \in Gdbs, g \in sent
    PROVE  /\ queue[g] # <<>> /\ First(g) \in CallRecords
           /\ Head(queue[g]) \in Calls /\ Head(queue[g]) \in 1..made
<1>1. queue[g] # <<>> /\ queue[g] \in Seq(Calls) /\ queue[g] \in Seq(1..made)
  BY DEF IInv, ChannelOK, Honest
<1>2. Head(queue[g]) \in Calls /\ Head(queue[g]) \in 1..made
  BY <1>1, HeadTail
<1> QED
  BY <1>1, <1>2 DEF First, IInv, ChannelOK

\* A call that is lost.
LEMMA LostOK ==
    ASSUME NEW c \in CallRecords
    PROVE  LET d == [c EXCEPT !.st = "lost"]
           IN  /\ d \in CallRecords /\ d.op = c.op /\ d.step = c.step /\ d.arg = c.arg
               /\ d.from = c.from /\ CallOK(d)
BY DEF CallRecords, CallOK

LEMMA TimeoutStep ==
    ASSUME IInv, NEW g \in Gdbs, Timeout(g)
    PROVE  IInv'
<1> DEFINE c == [First(g) EXCEPT !.st = "lost"]
<1>1. g \in sent /\ Leave(g, c) /\ UNCHANGED <<fields, made, killed, chunk, process>>
  BY DEF Timeout
<1>2. FieldsOK' /\ ProcessOK'
  BY <1>1 DEF IInv, FieldsOK, ProcessOK, fields, process
<1>3. queue[g] # <<>> /\ First(g) \in CallRecords
  BY <1>1, FirstType
<1>4. /\ c \in CallRecords /\ c.op = First(g).op /\ c.step = First(g).step
      /\ c.arg = First(g).arg /\ c.from = First(g).from /\ CallOK(c)
  BY <1>3, LostOK
<1>5. chunk' \in [from : Gdbs \cup {0}, left : Nat] /\ pipe' \in [Gdbs -> Seq(GoodLines)]
  BY <1>1 DEF IInv, ChannelOK, Honest, process
<1> QED
  BY <1>1, <1>2, <1>3, <1>4, <1>5, LeaveIInv DEF process

LEMMA ExitStep ==
    ASSUME IInv, NEW g \in Gdbs, ExitEvent(g)
    PROVE  IInv'
<1>1. /\ UNCHANGED <<mi2, currentFrameId, breakpoints, made, killed, chunk, gdb, stdin,
                     pipe, target, selected, table, inserted>>
      /\ running' = FALSE /\ exitSeen' = exitSeen \cup {g}
  BY DEF ExitEvent, OnExited
<1>2. FieldsOK' /\ ProcessOK'
  BY <1>1 DEF IInv, FieldsOK, ProcessOK
<1>3. chunk' \in [from : Gdbs \cup {0}, left : Nat] /\ pipe' \in [Gdbs -> Seq(GoodLines)]
  BY <1>1 DEF IInv, ChannelOK, Honest
<1>a. CASE g \in sent
  <2> DEFINE c == [First(g) EXCEPT !.st = "lost"]
  <2>1. Leave(g, c)
    BY <1>a DEF ExitEvent
  <2>2. queue[g] # <<>> /\ First(g) \in CallRecords
    BY <1>a, FirstType
  <2>3. /\ c \in CallRecords /\ c.op = First(g).op /\ c.step = First(g).step
        /\ c.arg = First(g).arg /\ c.from = First(g).from /\ CallOK(c)
    BY <2>2, LostOK
  <2> QED
    BY <1>1, <1>2, <1>3, <2>1, <2>2, <2>3, LeaveIInv
<1>b. CASE g \notin sent
  <2>1. UNCHANGED <<call, queue, sent>>
    BY <1>b DEF ExitEvent
  <2>2. ChannelOK' /\ Honest'
    BY <2>1, <1>1 DEF IInv, ChannelOK, Honest, GoodCommands, GoodLines
  <2> QED
    BY <2>2, <1>2 DEF IInv
<1> QED
  BY <1>a, <1>b
\* An answer that a line of the pipe holds makes its call say what is true.
LEMMA AnswerStep ==
    ASSUME IInv, NEW g \in Gdbs, NEW r \in GoodLines, r.type = "answer", OnAnswer(g, r),
           FieldsOK', made' = made, killed' = killed,
           chunk' \in [from : Gdbs \cup {0}, left : Nat], ProcessOK',
           stdin' = stdin, pipe' \in [Gdbs -> Seq(GoodLines)]
    PROVE  IInv'
<1>a. CASE g \in sent /\ Head(queue[g]) = r.call /\ First(g).step = r.step
  <2> DEFINE c == [First(g) EXCEPT !.st = IF r.ok THEN "ready" ELSE "failed",
                                   !.val = r.val, !.todo = @ \cup r.list]
  <2>1. Leave(g, c)
    BY <1>a DEF OnAnswer
  <2>2. /\ queue[g] # <<>> /\ First(g) \in CallRecords
        /\ Head(queue[g]) \in Calls /\ Head(queue[g]) \in 1..made
    BY <1>a, FirstType
  <2>3. r \in Lines
    BY DEF GoodLines
  <2>4. /\ c \in CallRecords /\ c.op = First(g).op /\ c.step = First(g).step /\ c.arg = First(g).arg
        /\ c.from = First(g).from
    BY <2>2, <2>3 DEF CallRecords, Lines
  <2>5. CallOK(c)
    <3>1. c.val = r.val /\ c.st = (IF r.ok THEN "ready" ELSE "failed")
      BY <2>2 DEF CallRecords
    <3>2. /\ r.ok /\ First(g).op = "setBreakpoint" => r.val \in Bps
          /\ r.ok /\ First(g).op = "arguments" /\ r.step = 2 => r.val = First(g).arg
      BY <1>a DEF GoodLines, First
    <3> QED
      BY <3>1, <3>2, <2>4, <1>a DEF CallOK
  <2> QED
    BY <2>1, <2>2, <2>4, <2>5, LeaveIInv
<1>b. CASE ~(g \in sent /\ Head(queue[g]) = r.call /\ First(g).step = r.step)
  <2>1. UNCHANGED <<call, queue, sent>>
    BY <1>b DEF OnAnswer
  <2>2. ChannelOK' /\ Honest'
    BY <2>1 DEF IInv, ChannelOK, Honest, GoodCommands, GoodLines
  <2> QED
    BY <2>2 DEF IInv
<1> QED
  BY <1>a, <1>b

LEMMA HandleLineStep ==
    ASSUME IInv, NEW g \in Gdbs, HandleLine(g)
    PROVE  IInv'
<1> DEFINE r == Head(pipe[g])
<1>1. /\ pipe[g] # <<>> /\ pipe' = [pipe EXCEPT ![g] = Tail(@)]
      /\ UNCHANGED <<mi2, breakpoints, made, killed, gdb, exitSeen, stdin, target,
                     selected, table, inserted>>
  BY DEF HandleLine
<1>2. pipe \in [Gdbs -> Seq(GoodLines)] /\ pipe \in [Gdbs -> Seq(Lines)]
  BY DEF IInv, Honest, ProcessOK
<1>3. r \in GoodLines /\ Tail(pipe[g]) \in Seq(GoodLines) /\ Tail(pipe[g]) \in Seq(Lines)
  BY <1>1, <1>2, HeadTail
<1>4. pipe' \in [Gdbs -> Seq(GoodLines)] /\ pipe' \in [Gdbs -> Seq(Lines)]
  BY <1>1, <1>2, <1>3
<1>5. ProcessOK'
  BY <1>1, <1>4 DEF IInv, ProcessOK
<1>6. chunk' \in [from : Gdbs \cup {0}, left : Nat]
  <2>1. PICK n \in 1..Len(pipe[g]) : chunk' = [from |-> g, left |-> n - 1]
    BY DEF HandleLine
  <2>2. n - 1 \in Nat
    BY <2>1, <1>2
  <2> QED
    BY <2>1, <2>2
<1>a. CASE r.type = "answer" /\ OnAnswer(g, r) /\ UNCHANGED <<running, currentFrameId>>
  <2>1. FieldsOK'
    BY <1>a, <1>1 DEF IInv, FieldsOK
  <2> QED
    BY <1>a, <1>1, <1>3, <1>4, <1>5, <1>6, <2>1, AnswerStep
<1>b. CASE /\ running' \in BOOLEAN /\ currentFrameId' \in Frames
           /\ UNCHANGED <<call, queue, sent>>
  <2>1. FieldsOK' /\ ChannelOK'
    BY <1>b, <1>1, <1>6 DEF IInv, FieldsOK, ChannelOK
  <2>2. Honest'
    BY <1>b, <1>1, <1>4 DEF IInv, Honest, GoodCommands, GoodLines
  <2> QED
    BY <2>1, <2>2, <1>5 DEF IInv
<1> QED
  <2>1. 0 \in Frames /\ currentFrameId \in Frames
    BY ConstantsAssumption DEF Frames, IInv, FieldsOK
  <2> QED
    BY <1>a, <1>b, <2>1 DEF HandleLine, OnStopped, OnRunning, OnExited

-----------------------------------------------------------------------------
(* The operations. *)

\* An operation begins: what it changes of the fields is left to show.
LEMMA OperationStep ==
    ASSUME IInv, NEW op, NEW arg \in Int, Use(op, arg), FieldsOK'
    PROVE  IInv'
<1>1. (\E d \in CallRecords : Begun(op, d)) /\ UNCHANGED process
  BY UseIs
<1>2. ChannelOK' /\ Honest'
  BY <1>1, BeginStep DEF process
<1>3. ProcessOK'
  BY <1>1 DEF IInv, ProcessOK, process
<1> QED
  BY <1>2, <1>3 DEF IInv

LEMMA FrameInt == Frames \subseteq Int /\ Bps \subseteq Nat /\ Gdbs \subseteq Nat
BY ConstantsAssumption DEF Frames, Bps, Gdbs

LEMMA OperationsStep ==
    ASSUME IInv, Operation
    PROVE  IInv'
<1> USE DEF FieldsOK
<1>1. CASE Initialize
  <2>1. PICK g \in Gdbs :
          /\ mi2' = g /\ gdb' = [gdb EXCEPT ![g] = "alive"]
          /\ UNCHANGED <<running, currentFrameId, breakpoints, exitSeen, stdin,
                         pipe, target, selected, table, inserted>>
          /\ \E d \in CallRecords : Begun("initialize", d)
    BY <1>1, InitializeIs
  <2>2. ChannelOK' /\ Honest'
    BY <2>1, BeginStep
  <2>3. FieldsOK' /\ ProcessOK'
    BY <2>1 DEF IInv, ProcessOK
  <2> QED
    BY <2>2, <2>3 DEF IInv
<1>2. CASE Terminate
  <2>1. FieldsOK'
    BY <1>2 DEF IInv, Terminate
  <2>2. ChannelOK'
    BY <1>2 DEF IInv, ChannelOK, Terminate, channel, FieldsOK
  <2>3. ProcessOK'
    BY <1>2 DEF IInv, ProcessOK, Terminate, process
  <2>4. Honest'
    BY <1>2 DEF IInv, Honest, Terminate, channel, process, GoodCommands, GoodLines
  <2> QED
    BY <2>1, <2>2, <2>3, <2>4 DEF IInv
<1>3. CASE Plain
  <2>1. PICK op : Use(op, 0)
    BY <1>3 DEF Plain
  <2>2. FieldsOK'
    BY <1>3 DEF Plain, fields, IInv
  <2> QED
    BY <2>1, <2>2, OperationStep
<1>4. CASE Continue
  <2>1. Use("continue", 0) /\ FieldsOK'
    BY <1>4 DEF Continue, IInv
  <2> QED
    BY <2>1, OperationStep
<1>5. ASSUME NEW f \in Frames, SelectFrame(f) PROVE IInv'
  <2>1. Use("selectFrame", f) /\ FieldsOK'
    BY <1>5 DEF SelectFrame, IInv
  <2> QED
    BY <2>1, FrameInt, OperationStep
<1>6. CASE FrameUp
  <2>1. currentFrameId + 1 \in Frames
    BY <1>6, ConstantsAssumption DEF FrameUp, IInv, Frames
  <2> QED
    BY <1>5, <1>6, <2>1 DEF FrameUp
<1>7. CASE FrameDown
  <2>1. currentFrameId - 1 \in Frames
    BY <1>7, ConstantsAssumption DEF FrameDown, IInv, Frames
  <2> QED
    BY <1>5, <1>7, <2>1 DEF FrameDown
<1>8. CASE GotoFrame
  BY <1>5, <1>8 DEF GotoFrame
<1>9. CASE Inspect
  <2>1. PICK op \in {"evaluate", "arguments"}, f \in Frames : Use(op, f)
    BY <1>9 DEF Inspect
  <2>2. FieldsOK'
    BY <1>9 DEF Inspect, fields, IInv
  <2> QED
    BY <2>1, <2>2, FrameInt, OperationStep
<1>10. CASE RemoveBreakpoint
  <2>1. PICK b \in Bps : Use("removeBreakpoint", b)
    BY <1>10 DEF RemoveBreakpoint
  <2>2. FieldsOK'
    BY <1>10 DEF RemoveBreakpoint, fields, IInv
  <2> QED
    BY <2>1, <2>2, FrameInt, OperationStep
<1> QED
  BY <1>1, <1>2, <1>3, <1>4, <1>6, <1>7, <1>8, <1>9, <1>10 DEF Operation

\* What an operation does to the fields when a command of its succeeded.
LEMMA EffectStep ==
    ASSUME IInv, NEW c \in CallRecords, Named(c), CallOK(c), c.st = "ready", Effect(c)
    PROVE  FieldsOK'
<1>1. 0 \in Frames
  BY ConstantsAssumption DEF Frames
<1>2. \A id : Forget(id) \subseteq breakpoints
  BY DEF Forget
<1>a. CASE c.op = "setBreakpoint"
  <2>1. /\ breakpoints' = Forget(c.val) \cup {[id |-> c.val, from |-> c.from]}
        /\ UNCHANGED <<mi2, running, currentFrameId>>
    BY <1>a DEF Effect, Listed
  <2>2. c.val \in Bps /\ c.from \in Gdbs
    BY <1>a DEF CallOK, Named
  <2> QED
    BY <2>1, <2>2, <1>2 DEF IInv, FieldsOK
<1>b. CASE c.op = "initialize" \/ c.op = "start"
  BY <1>b DEF Effect, IInv, FieldsOK
<1>c. CASE c.op = "switchThread"
  BY <1>c, <1>1 DEF Effect, IInv, FieldsOK
<1>d. CASE c.op = "removeBreakpoint" \/ (c.op = "removeAll" /\ c.step = 2)
  <2>1. breakpoints' = Forget(c.arg) /\ UNCHANGED <<mi2, running, currentFrameId>>
    BY <1>d DEF Effect
  <2> QED
    BY <2>1, <1>2 DEF IInv, FieldsOK
<1>e. CASE /\ c.op \notin {"setBreakpoint", "initialize", "start", "switchThread",
                           "removeBreakpoint"}
           /\ ~(c.op = "removeAll" /\ c.step = 2)
  <2>1. UNCHANGED fields
    BY <1>e DEF Effect
  <2> QED
    BY <2>1 DEF fields, IInv, FieldsOK
<1> QED
  BY <1>a, <1>b, <1>c, <1>d, <1>e

\* The next command of an operation that has one.
LEMMA AdvanceStep ==
    ASSUME NEW c \in CallRecords, Named(c), Left(c)
    PROVE  LET d == Advance(c)
           IN  /\ d \in CallRecords /\ d.op = c.op /\ d.step \in 1..Len(Script[c.op])
               /\ c.op = "arguments" => d.arg = c.arg
<1>a. CASE c.op = "removeAll"
  <2> DEFINE b == CHOOSE b \in c.todo \ {c.arg} : TRUE
  <2>1. b \in Bps
    BY <1>a DEF Left, CallRecords
  <2>2. b \in Int
    <3> HIDE DEF b
    <3>1. b \in Nat
      BY <2>1, FrameInt
    <3> QED
      BY <3>1
  <2>3. Advance(c) = [c EXCEPT !.step = 2, !.todo = @ \ {c.arg}, !.arg = b]
    BY <1>a DEF Advance
  <2>4. 2 \in 1..Len(Script["removeAll"])
    BY ScriptType
  <2> DEFINE d == [c EXCEPT !.step = 2, !.todo = @ \ {c.arg}, !.arg = b]
  <2> HIDE DEF b
  <2>5. d \in CallRecords /\ d.op = c.op /\ d.step = 2
    BY <2>2 DEF CallRecords
  <2> QED
    BY <1>a, <2>3, <2>4, <2>5
<1>b. CASE c.op # "removeAll"
  <2>1. Advance(c) = [c EXCEPT !.step = @ + 1] /\ c.step < Len(Script[c.op])
    BY <1>b DEF Advance, Left
  <2>2. Len(Script[c.op]) \in Nat
    <3>1. Script[c.op] \in Seq(Commands)
      BY ScriptType DEF Named
    <3> QED
      BY <3>1
  <2>3. c.step + 1 \in 1..Len(Script[c.op]) /\ c.step + 1 \in Nat
    BY <2>1, <2>2 DEF Named
  <2> QED
    BY <2>1, <2>3 DEF CallRecords
<1> QED
  BY <1>a, <1>b

\* A call goes on: it has its next command in a channel, or it ends.
LEMMA GoesOnStep ==
    ASSUME IInv, NEW n \in 1..made, NEW d \in CallRecords,
           call' = [call EXCEPT ![n] = d], Named(d), CallOK(d), d.op = call[n].op,
           call[n].op = "arguments" => d.arg = call[n].arg,
           queue' \in [Gdbs -> Seq(Calls)], queue' \in [Gdbs -> Seq(1..made)],
           \A h \in sent' : queue'[h] # <<>>,
           UNCHANGED <<made, sent, killed, chunk, process>>, FieldsOK'
    PROVE  IInv'
<1>1. made \in 0..MaxCalls /\ made \in Nat /\ n \in Calls /\ \A k \in 1..made : k \in Calls
  BY ConstantsAssumption DEF IInv, ChannelOK, Calls
<1>2. ProcessOK'
  BY DEF IInv, ProcessOK, process
<1>3. call' \in [Calls -> CallRecords]
  BY DEF IInv, ChannelOK
<1>4. ChannelOK'
  BY <1>3 DEF IInv, ChannelOK
<1>5. \A k \in 1..made : /\ Named(call'[k]) /\ CallOK(call'[k])
                         /\ call'[k].op = call[k].op
                         /\ call[k].op = "arguments" => call'[k].arg = call[k].arg
  BY <1>1 DEF IInv, Honest, ChannelOK
<1>6. \A k \in Calls : k > made => call'[k] = NoCall
  <2>1. ASSUME NEW k \in Calls, k > made PROVE k # n
    BY <2>1, <1>1
  <2> QED
    BY <2>1 DEF IInv, Honest, ChannelOK
<1>7. stdin' \in [Gdbs -> Seq(GoodCommands)] /\ pipe' \in [Gdbs -> Seq(GoodLines)]
  BY DEF IInv, Honest, process
<1>8. Honest'
  BY <1>1, <1>3, <1>5, <1>6, <1>7, QueuesHonest
<1> QED
  BY <1>2, <1>4, <1>8 DEF IInv

LEMMA ResumeStep ==
    ASSUME IInv, NEW n \in Calls, Resume(n)
    PROVE  IInv'
<1> DEFINE c == call[n]
<1>1. /\ c.st = "ready" /\ Effect(c)
      /\ UNCHANGED <<made, sent, killed, chunk, process>>
  BY DEF Resume
<1>2. c \in CallRecords /\ n \in Nat /\ made \in Nat /\ made' = made /\ made \in 0..MaxCalls
  BY <1>1, ConstantsAssumption DEF IInv, ChannelOK, Calls
<1>3. n \in 1..made
  <2>1. ~(n > made)
    BY <1>1 DEF IInv, Honest, NoCall
  <2> QED
    BY <2>1, <1>2 DEF Calls
<1>4. Named(c) /\ CallOK(c)
  BY <1>3 DEF IInv, Honest
<1>5. FieldsOK'
  BY <1>1, <1>2, <1>4, EffectStep
<1>a. CASE Left(c) /\ mi2 # 0
  <2> DEFINE d == [[Advance(c) EXCEPT !.from = mi2] EXCEPT !.st = "waiting"]
  <2>1. /\ call' = [call EXCEPT ![n] = d]
        /\ queue' = [queue EXCEPT ![mi2] = Append(@, n)]
    <3>1. Enqueue(n, [Advance(c) EXCEPT !.from = mi2])
      BY <1>a DEF Resume
    <3>2. [Advance(c) EXCEPT !.from = mi2].from = mi2
      BY <1>2, <1>4, <1>a, AdvanceStep DEF CallRecords
    <3> QED
      BY <3>1, <3>2 DEF Enqueue
  <2>2. mi2 \in Gdbs
    BY <1>a DEF IInv, FieldsOK
  <2>3. /\ Advance(c) \in CallRecords /\ Advance(c).op = c.op
        /\ Advance(c).step \in 1..Len(Script[c.op])
        /\ c.op = "arguments" => Advance(c).arg = c.arg
    BY <1>2, <1>4, <1>a, AdvanceStep
  <2>4. /\ d \in CallRecords /\ d.op = c.op /\ d.step \in 1..Len(Script[c.op])
        /\ d.from = mi2 /\ d.st = "waiting"
        /\ c.op = "arguments" => d.arg = c.arg
    BY <2>2, <2>3 DEF CallRecords
  <2>5. Named(d) /\ CallOK(d)
    BY <2>2, <2>4, <1>4 DEF Named, CallOK
  <2>6. queue' \in [Gdbs -> Seq(Calls)] /\ queue' \in [Gdbs -> Seq(1..made)]
    BY <2>1, <2>2, <1>3 DEF IInv, ChannelOK, Honest
  <2>7. \A h \in sent' : queue'[h] # <<>>
    <3>1. queue[mi2] \in Seq(Calls)
      BY <2>2 DEF IInv, ChannelOK
    <3>2. Append(queue[mi2], n) # <<>>
      BY <3>1
    <3> QED
      BY <3>2, <2>1, <2>2, <1>1 DEF IInv, ChannelOK, Honest
  <2> QED
    BY <2>1, <2>4, <2>5, <2>6, <2>7, <1>1, <1>3, <1>5, GoesOnStep
<1>b. CASE ~(Left(c) /\ mi2 # 0)
  <2> DEFINE d == [c EXCEPT !.st = IF Left(c) THEN "failed" ELSE "done"]
  <2>1. call' = [call EXCEPT ![n] = d] /\ UNCHANGED queue
    BY <1>b DEF Resume, IInv, ChannelOK
  <2>2. /\ d \in CallRecords /\ d.op = c.op /\ d.step = c.step /\ d.arg = c.arg
        /\ d.val = c.val /\ d.from = c.from
        /\ d.st = (IF Left(c) THEN "failed" ELSE "done")
    BY <1>2 DEF CallRecords
  <2>3. c.op = "arguments" /\ ~Left(c) => c.step = 2
    <3>1. SUFFICES ASSUME c.op = "arguments", ~Left(c) PROVE c.step = 2
      OBVIOUS
    <3>2. Script[c.op] = <<"select", "readFrame">>
      BY <3>1, ScriptType
    <3>3. Len(Script[c.op]) = 2
      BY <3>2
    <3> QED
      BY <3>1, <3>3, <1>4 DEF Named, Left
  <2>4. Named(d) /\ CallOK(d)
    BY <2>2, <2>3, <1>1, <1>4 DEF Named, CallOK
  <2>5. /\ queue' \in [Gdbs -> Seq(Calls)] /\ queue' \in [Gdbs -> Seq(1..made)]
        /\ \A h \in sent' : queue'[h] # <<>>
    BY <2>1, <1>1 DEF IInv, ChannelOK, Honest
  <2> QED
    BY <2>1, <2>2, <2>4, <2>5, <1>1, <1>3, <1>5, GoesOnStep
<1> QED
  BY <1>a, <1>b

\* The call whose first command OnReady puts into its channel.
LEMMA StartingIs ==
    ASSUME IInv, NEW n \in Calls, OnReady(n)
    PROVE  /\ n \in 1..made /\ call[n].st = "starting"
           /\ call[n] \in CallRecords /\ Named(call[n]) /\ CallOK(call[n])
           /\ UNCHANGED <<fields, made, sent, killed, chunk, process>>
           /\ call' = [call EXCEPT ![n] = [call[n] EXCEPT !.st = "waiting"]]
           /\ queue' = [queue EXCEPT ![call[n].from] = Append(@, n)]
<1>1. /\ call[n].st = "starting" /\ Enqueue(n, call[n])
      /\ UNCHANGED <<fields, made, sent, killed, chunk, process>>
  BY DEF OnReady
<1>2. n \in 1..made
  <2>1. ~(n > made)
    BY <1>1 DEF IInv, Honest, NoCall
  <2> QED
    BY <2>1, ConstantsAssumption DEF IInv, ChannelOK, Calls
<1> QED
  BY <1>1, <1>2 DEF Enqueue, IInv, ChannelOK, Honest

LEMMA OnReadyStep ==
    ASSUME IInv, NEW n \in Calls, OnReady(n)
    PROVE  IInv'
<1> DEFINE d == [call[n] EXCEPT !.st = "waiting"]
<1>1. /\ n \in 1..made /\ call[n] \in CallRecords /\ Named(call[n]) /\ CallOK(call[n])
      /\ UNCHANGED <<fields, made, sent, killed, chunk, process>>
      /\ call' = [call EXCEPT ![n] = d]
      /\ queue' = [queue EXCEPT ![call[n].from] = Append(@, n)]
  BY StartingIs
<1>2. PICK g \in Gdbs : g = call[n].from
  BY <1>1 DEF Named
<1>3. /\ d \in CallRecords /\ d.op = call[n].op /\ d.step = call[n].step
      /\ d.arg = call[n].arg /\ d.from = g /\ d.st = "waiting"
  BY <1>1, <1>2 DEF CallRecords
<1> HIDE DEF d
<1>4. Named(d) /\ CallOK(d)
  BY <1>1, <1>2, <1>3 DEF Named, CallOK
<1>5. queue \in [Gdbs -> Seq(Calls)] /\ queue \in [Gdbs -> Seq(1..made)]
  BY DEF IInv, ChannelOK, Honest
<1>6. /\ Append(queue[g], n) \in Seq(Calls) /\ Append(queue[g], n) \in Seq(1..made)
      /\ Append(queue[g], n) # <<>>
  <2>1. ASSUME NEW S, NEW q \in Seq(S), NEW x \in S PROVE Append(q, x) \in Seq(S)
    OBVIOUS
  <2>2. queue[g] \in Seq(Calls) /\ queue[g] \in Seq(1..made)
    BY <1>5
  <2>3. Append(queue[g], n) # <<>>
    BY <2>2
  <2> QED
    BY <1>1, <2>1, <2>2, <2>3
<1>7. queue' = [queue EXCEPT ![g] = Append(queue[g], n)]
  BY <1>1, <1>2
<1>8. /\ queue' \in [Gdbs -> Seq(Calls)] /\ queue' \in [Gdbs -> Seq(1..made)]
      /\ \A h \in sent' : queue'[h] # <<>>
  BY <1>1, <1>5, <1>6, <1>7 DEF IInv, ChannelOK, Honest
<1>9. FieldsOK'
  BY <1>1 DEF IInv, FieldsOK, fields
<1> QED
  BY <1>1, <1>3, <1>4, <1>8, <1>9, GoesOnStep

-----------------------------------------------------------------------------
(* GDB. *)

\* What a command that GDB reads is, for the calls the invariant speaks of.
LEMMA CommandNames ==
    ASSUME IInv, NEW m \in GoodCommands
    PROVE  /\ m.call \in 1..made /\ m.call \in Calls
           /\ call[m.call].op = "setBreakpoint" => m.name = "insert"
           /\ call[m.call].op = "arguments" /\ m.step = 2 =>
                  m.name = "readFrame" /\ m.arg = call[m.call].arg
<1>1. m \in Messages /\ m.call <= made /\ m.call \in Calls
  BY DEF GoodCommands, Messages
<1>2. m.call \in 1..made
  BY <1>1, ConstantsAssumption DEF Calls, IInv, ChannelOK
<1>3. /\ m.step \in 1..Len(Script[call[m.call].op])
      /\ m.name = Script[call[m.call].op][m.step]
      /\ call[m.call].op = "arguments" => m.arg = call[m.call].arg
  BY DEF GoodCommands
<1>4. ASSUME call[m.call].op = "setBreakpoint" PROVE m.name = "insert"
  <2>1. Script[call[m.call].op] = <<"insert">>
    BY <1>4, ScriptType
  <2>2. m.step = 1
    BY <2>1, <1>3
  <2> QED
    BY <2>1, <2>2, <1>3
<1>5. ASSUME call[m.call].op = "arguments", m.step = 2 PROVE m.name = "readFrame"
  <2>1. Script[call[m.call].op] = <<"select", "readFrame">>
    BY <1>5, ScriptType
  <2> QED
    BY <2>1, <1>5, <1>3
<1> QED
  BY <1>1, <1>2, <1>3, <1>4, <1>5

\* Lines that GDB prints.
LEMMA EventLines ==
    \A type \in {"running", "stopped", "exited"} : Event(type) \in GoodLines
BY DEF Event, NoAnswer, GoodLines, Lines

LEMMA AnswerLines ==
    ASSUME IInv, NEW m \in GoodCommands, NEW r \in Lines,
           r.call = m.call, r.step = m.step,
           r.ok /\ m.name = "insert" => r.val \in Bps,
           r.ok /\ m.name = "readFrame" => r.val = m.arg
    PROVE  r \in GoodLines
BY CommandNames DEF GoodLines

LEMMA ExecutesStep ==
    ASSUME IInv, NEW g \in Gdbs, NEW m \in GoodCommands, Executes(g, m)
    PROVE  /\ \E lines \in Seq(GoodLines) : Output(g, lines)
           /\ target' \in [Gdbs -> {"none", "stopped", "running"}]
           /\ selected' \in [Gdbs -> Nat]
           /\ table' \in [Gdbs -> SUBSET Bps]
           /\ inserted' \in [Gdbs -> 0..MaxBps]
<1>1. m \in Messages
  BY DEF GoodCommands
<1>2. ASSUME NEW ok \in BOOLEAN, ok => m.name \notin {"insert", "readFrame"}
      PROVE  Answer(m, ok) \in GoodLines
  <2> DEFINE r == Answer(m, ok)
  <2>1. r \in Lines /\ r.call = m.call /\ r.step = m.step /\ r.ok = ok
    BY <1>1 DEF Answer, NoAnswer, Lines, Messages
  <2> QED
    BY <1>2, <2>1, AnswerLines
<1>a. CASE Output(g, <<Answer(m, FALSE)>>) /\ Idle(g)
  <2>1. <<Answer(m, FALSE)>> \in Seq(GoodLines)
    BY TupleSeq, <1>2
  <2> QED
    BY <1>a, <2>1 DEF IInv, ProcessOK, Idle
<1>b. CASE /\ m.name \in {"init", "file", "interrupt", "tinsert"}
           /\ Output(g, <<Answer(m, TRUE)>>) /\ Idle(g)
  <2>1. <<Answer(m, TRUE)>> \in Seq(GoodLines)
    BY TupleSeq, <1>2, <1>b
  <2> QED
    BY <1>b, <2>1 DEF IInv, ProcessOK, Idle
<1>c. CASE /\ \/ m.name = "run" /\ target[g] # "running"
              \/ m.name = "continue" /\ target[g] = "stopped"
           /\ target' = [target EXCEPT ![g] = "running"]
           /\ Output(g, IF m.name = "run" /\ target[g] = "stopped"
                        THEN <<Event("exited"), Answer(m, TRUE), Event("running")>>
                        ELSE <<Answer(m, TRUE), Event("running")>>)
           /\ UNCHANGED <<selected, table, inserted>>
  <2>1. Answer(m, TRUE) \in GoodLines
    BY <1>2, <1>c
  <2>2. /\ <<Event("exited"), Answer(m, TRUE), Event("running")>> \in Seq(GoodLines)
        /\ <<Answer(m, TRUE), Event("running")>> \in Seq(GoodLines)
    BY <2>1, EventLines, TupleSeq
  <2> QED
    BY <1>c, <2>2 DEF IInv, ProcessOK, Idle
<1>d. CASE /\ m.name = "attach" /\ target[g] = "none"
           /\ target' = [target EXCEPT ![g] = "stopped"]
           /\ selected' = [selected EXCEPT ![g] = 0]
           /\ Output(g, <<Answer(m, TRUE), Event("stopped")>>)
           /\ UNCHANGED <<table, inserted>>
  <2>1. <<Answer(m, TRUE), Event("stopped")>> \in Seq(GoodLines)
    BY TupleSeq, <1>2, <1>d, EventLines
  <2> QED
    BY <1>d, <2>1 DEF IInv, ProcessOK, Idle
<1>e. CASE /\ m.name \in {"select", "thread"} /\ target[g] = "stopped" /\ m.arg >= 0
           /\ selected' = [selected EXCEPT ![g] = m.arg]
           /\ Output(g, <<Answer(m, TRUE)>>)
           /\ UNCHANGED <<target, table, inserted>>
  <2>1. <<Answer(m, TRUE)>> \in Seq(GoodLines)
    BY TupleSeq, <1>2, <1>e
  <2>2. m.arg \in Nat
    BY <1>1, <1>e DEF Messages
  <2> QED
    BY <1>e, <2>1, <2>2 DEF IInv, ProcessOK, Idle
<1>f. CASE /\ m.name \in {"read", "readFrame"} /\ target[g] = "stopped" /\ m.arg >= 0
           /\ Output(g, <<[Answer(m, TRUE) EXCEPT
                             !.val = IF m.name = "read" THEN selected[g] ELSE m.arg]>>)
           /\ Idle(g)
  <2> DEFINE val == IF m.name = "read" THEN selected[g] ELSE m.arg
  <2>1. val \in Nat /\ (m.name = "readFrame" => val = m.arg)
    BY <1>1, <1>f DEF Messages, IInv, ProcessOK
  <2> HIDE DEF val
  <2> DEFINE r == [Answer(m, TRUE) EXCEPT !.val = val]
  <2>2. r \in Lines /\ r.call = m.call /\ r.step = m.step /\ r.val = val
    BY <1>1, <2>1 DEF Answer, NoAnswer, Lines, Messages
  <2>3. r \in GoodLines
    BY <1>f, <2>1, <2>2, AnswerLines
  <2>4. <<r>> \in Seq(GoodLines)
    BY <2>3, TupleSeq
  <2> QED
    BY <1>f, <2>4 DEF val, IInv, ProcessOK, Idle
<1>g. CASE /\ m.name = "insert" /\ inserted[g] < MaxBps
           /\ inserted' = [inserted EXCEPT ![g] = @ + 1]
           /\ table' = [table EXCEPT ![g] = @ \cup {inserted[g] + 1}]
           /\ Output(g, <<[Answer(m, TRUE) EXCEPT !.val = inserted[g] + 1]>>)
           /\ UNCHANGED <<target, selected>>
  <2> DEFINE val == inserted[g] + 1
  <2>1. val \in Bps /\ val \in Nat /\ val \in 0..MaxBps
    BY <1>g, ConstantsAssumption DEF Bps, IInv, ProcessOK
  <2> HIDE DEF val
  <2> DEFINE r == [Answer(m, TRUE) EXCEPT !.val = val]
  <2>2. r \in Lines /\ r.call = m.call /\ r.step = m.step /\ r.val = val
    BY <1>1, <2>1 DEF Answer, NoAnswer, Lines, Messages
  <2>3. r \in GoodLines
    BY <1>g, <2>1, <2>2, AnswerLines
  <2>4. <<r>> \in Seq(GoodLines)
    BY <2>3, TupleSeq
  <2>5. /\ inserted' = [inserted EXCEPT ![g] = val]
        /\ table' = [table EXCEPT ![g] = @ \cup {val}]
        /\ Output(g, <<[Answer(m, TRUE) EXCEPT !.val = val]>>)
    BY <1>g DEF val
  <2>6. /\ table' \in [Gdbs -> SUBSET Bps] /\ inserted' \in [Gdbs -> 0..MaxBps]
        /\ target' \in [Gdbs -> {"none", "stopped", "running"}]
        /\ selected' \in [Gdbs -> Nat]
    BY <1>g, <2>1, <2>5 DEF IInv, ProcessOK
  <2> QED
    BY <2>4, <2>5, <2>6
<1>h. CASE /\ m.name = "delete" /\ m.arg \in table[g]
           /\ table' = [table EXCEPT ![g] = @ \ {m.arg}]
           /\ Output(g, <<Answer(m, TRUE)>>)
           /\ UNCHANGED <<target, selected, inserted>>
  <2>1. <<Answer(m, TRUE)>> \in Seq(GoodLines)
    BY TupleSeq, <1>2, <1>h
  <2> QED
    BY <1>h, <2>1 DEF IInv, ProcessOK, Idle
<1>i. CASE /\ m.name = "list"
           /\ \E inFile \in SUBSET table[g] :
                 Output(g, <<[Answer(m, TRUE) EXCEPT !.list = inFile]>>)
           /\ Idle(g)
  <2>1. PICK inFile \in SUBSET table[g] :
            Output(g, <<[Answer(m, TRUE) EXCEPT !.list = inFile]>>)
    BY <1>i
  <2>2. inFile \in SUBSET Bps
    BY <2>1 DEF IInv, ProcessOK
  <2> DEFINE r == [Answer(m, TRUE) EXCEPT !.list = inFile]
  <2>3. r \in Lines /\ r.call = m.call /\ r.step = m.step
    BY <1>1, <2>2 DEF Answer, NoAnswer, Lines, Messages
  <2>4. r \in GoodLines
    BY <1>i, <2>3, AnswerLines
  <2>5. <<r>> \in Seq(GoodLines)
    BY <2>4, TupleSeq
  <2> QED
    BY <1>i, <2>1, <2>5 DEF IInv, ProcessOK, Idle
<1> QED
  BY <1>a, <1>b, <1>c, <1>d, <1>e, <1>f, <1>g, <1>h, <1>i DEF Executes

\* A step of GDB, which touches its own state and the pipes only.
LEMMA GdbStep ==
    ASSUME IInv, NEW g \in Gdbs, GdbExecutes(g) \/ DebuggeeHalts(g) \/ GdbDies(g)
    PROVE  IInv'
<1>1. UNCHANGED <<fields, channel, killed, chunk, exitSeen>>
  BY DEF GdbExecutes, DebuggeeHalts, GdbDies
<1>2. FieldsOK' /\ ChannelOK'
  BY <1>1 DEF IInv, FieldsOK, ChannelOK, fields, channel
<1>3. GoodCommands' = GoodCommands /\ GoodLines' = GoodLines
  BY <1>1 DEF channel, GoodCommands, GoodLines
<1>4. GoodCommands \subseteq Messages /\ GoodLines \subseteq Lines
  BY DEF GoodCommands, GoodLines
<1>5. stdin \in [Gdbs -> Seq(GoodCommands)] /\ pipe \in [Gdbs -> Seq(GoodLines)]
  BY DEF IInv, Honest
<1>6. ASSUME NEW lines \in Seq(GoodLines), Output(g, lines)
      PROVE  pipe' \in [Gdbs -> Seq(GoodLines)]
  <2>1. pipe[g] \o lines \in Seq(GoodLines)
    BY <1>5
  <2> QED
    BY <1>5, <1>6, <2>1 DEF Output
<1>7. ASSUME stdin' \in [Gdbs -> Seq(GoodCommands)], pipe' \in [Gdbs -> Seq(GoodLines)],
             gdb' \in [Gdbs -> {"unused", "alive", "dead"}],
             target' \in [Gdbs -> {"none", "stopped", "running"}],
             selected' \in [Gdbs -> Nat],
             table' \in [Gdbs -> SUBSET Bps],
             inserted' \in [Gdbs -> 0..MaxBps]
      PROVE  IInv'
  <2>1. stdin' \in [Gdbs -> Seq(Messages)] /\ pipe' \in [Gdbs -> Seq(Lines)]
    BY <1>7, <1>4, SeqMonotone
  <2>2. ProcessOK'
    BY <1>1, <1>7, <2>1 DEF IInv, ProcessOK
  <2>3. Honest'
    BY <1>1, <1>3, <1>7 DEF IInv, Honest, channel
  <2> QED
    BY <1>2, <2>2, <2>3 DEF IInv
<1>a. CASE GdbExecutes(g)
  <2>1. /\ Executes(g, Head(stdin[g])) /\ stdin[g] # <<>>
        /\ stdin' = [stdin EXCEPT ![g] = Tail(@)] /\ UNCHANGED gdb
    BY <1>a DEF GdbExecutes
  <2>2. Head(stdin[g]) \in GoodCommands /\ Tail(stdin[g]) \in Seq(GoodCommands)
    BY <2>1, <1>5, HeadTail
  <2>3. /\ \E lines \in Seq(GoodLines) : Output(g, lines)
        /\ target' \in [Gdbs -> {"none", "stopped", "running"}]
        /\ selected' \in [Gdbs -> Nat]
        /\ table' \in [Gdbs -> SUBSET Bps]
        /\ inserted' \in [Gdbs -> 0..MaxBps]
    BY <2>1, <2>2, ExecutesStep
  <2>4. stdin' \in [Gdbs -> Seq(GoodCommands)]
    BY <2>1, <2>2, <1>5
  <2>5. gdb' \in [Gdbs -> {"unused", "alive", "dead"}]
    BY <2>1 DEF IInv, ProcessOK
  <2>6. pipe' \in [Gdbs -> Seq(GoodLines)]
    BY <2>3, <1>6
  <2> QED
    BY <2>3, <2>4, <2>5, <2>6, <1>7
<1>b. CASE DebuggeeHalts(g)
  <2>1. \E lines \in Seq(GoodLines) : Output(g, lines)
    <3>1. /\ <<Event("stopped")>> \in Seq(GoodLines)
          /\ <<Event("exited"), Event("stopped")>> \in Seq(GoodLines)
      BY EventLines
    <3> QED
      BY <1>b, <3>1 DEF DebuggeeHalts
  <2>2. pipe' \in [Gdbs -> Seq(GoodLines)]
    BY <2>1, <1>6
  <2>3. /\ \/ target' = [target EXCEPT ![g] = "stopped"]
           \/ target' = [target EXCEPT ![g] = "none"]
        /\ \/ selected' = [selected EXCEPT ![g] = 0]
           \/ UNCHANGED selected
        /\ UNCHANGED <<gdb, stdin, table, inserted>>
    BY <1>b DEF DebuggeeHalts
  <2>4. target' \in [Gdbs -> {"none", "stopped", "running"}]
    BY <2>3 DEF IInv, ProcessOK
  <2>5. selected' \in [Gdbs -> Nat]
    <3>1. selected \in [Gdbs -> Nat]
      BY DEF IInv, ProcessOK
    <3>2. CASE selected' = [selected EXCEPT ![g] = 0]
      BY <3>1, <3>2
    <3>3. CASE UNCHANGED selected
      BY <3>1, <3>3
    <3> QED
      BY <2>3, <3>2, <3>3
  <2>6. /\ stdin' \in [Gdbs -> Seq(GoodCommands)] /\ table' \in [Gdbs -> SUBSET Bps]
        /\ gdb' \in [Gdbs -> {"unused", "alive", "dead"}]
        /\ inserted' \in [Gdbs -> 0..MaxBps]
    BY <2>3, <1>5 DEF IInv, ProcessOK
  <2> QED
    BY <2>2, <2>4, <2>5, <2>6, <1>7
<1>c. CASE GdbDies(g)
  <2>1. /\ gdb' = [gdb EXCEPT ![g] = "dead"] /\ stdin' = [stdin EXCEPT ![g] = <<>>]
        /\ target' = [target EXCEPT ![g] = "none"]
        /\ UNCHANGED <<pipe, selected, table, inserted>>
    BY <1>c DEF GdbDies
  <2>2. stdin' \in [Gdbs -> Seq(GoodCommands)]
    BY <2>1, <1>5
  <2> QED
    BY <2>1, <2>2, <1>5, <1>7 DEF IInv, ProcessOK
<1> QED
  BY <1>a, <1>b, <1>c

-----------------------------------------------------------------------------
LEMMA StutterIInv == IInv /\ UNCHANGED vars => IInv'
<1> SUFFICES ASSUME IInv, UNCHANGED vars PROVE IInv'
  OBVIOUS
<1> USE DEF vars, fields, channel, process
<1>1. FieldsOK' /\ ChannelOK' /\ ProcessOK'
  BY DEF IInv, FieldsOK, ChannelOK, ProcessOK
<1>2. Honest'
  BY DEF IInv, Honest, GoodCommands, GoodLines
<1> QED
  BY <1>1, <1>2 DEF IInv

LEMMA NextIInv == IInv /\ [Next]_vars => IInv'
<1> SUFFICES ASSUME IInv, [Next]_vars PROVE IInv'
  OBVIOUS
<1>1. CASE Operation
  BY <1>1, OperationsStep
<1>2. ASSUME NEW n \in Calls, OnReady(n) \/ Resume(n) PROVE IInv'
  BY <1>2, OnReadyStep, ResumeStep
<1>3. ASSUME NEW g \in Gdbs, Send(g) \/ Timeout(g) \/ HandleLine(g) \/ ExitEvent(g)
      PROVE  IInv'
  BY <1>3, SendStep, TimeoutStep, HandleLineStep, ExitStep
<1>4. ASSUME NEW g \in Gdbs, GdbExecutes(g) \/ DebuggeeHalts(g) \/ GdbDies(g)
      PROVE  IInv'
  BY <1>4, GdbStep
<1>5. CASE UNCHANGED vars
  BY <1>5, StutterIInv
<1> QED
  BY <1>1, <1>2, <1>3, <1>4, <1>5 DEF Next

\* Every call, every command in the input of a GDB and every answer in its output is true
\* to the operation that was asked for (GDBBackend.ts:361-487, 691-726).
THEOREM Invariant == Spec => []IInv
BY InitIInv, NextIInv, PTL DEF Spec

\* Every field and message has its type: the list of breakpoints holds only numbers
\* that GDB gave, whatever numbers callers asked for (GDBBackend.ts:361-386, 691-726).
THEOREM TypeCorrect == Spec => []TypeOK
<1>1. IInv => TypeOK
  BY DEF IInv, TypeOK, FieldsOK, ChannelOK, ProcessOK, Messages
<1> QED
  BY <1>1, Invariant, PTL

\* getArguments returns the arguments of the frame it was asked for, however
\* many other callers select frames, time out or replace the GDB meanwhile
\* (GDBBackend.ts:463-487).
THEOREM ArgumentsAreOfTheFrame == Spec => []ArgumentsOfFrame
<1>1. IInv => ArgumentsOfFrame
  <2> SUFFICES ASSUME IInv, NEW n \in Calls, call[n].op = "arguments", call[n].st = "done"
               PROVE  call[n].val = call[n].arg
    BY DEF ArgumentsOfFrame
  <2>1. ~(n > made)
    BY DEF IInv, Honest, NoCall
  <2>2. n \in 1..made
    BY <2>1, ConstantsAssumption DEF Calls, IInv, ChannelOK
  <2> QED
    BY <2>2 DEF IInv, Honest, CallOK
<1> QED
  BY <1>1, Invariant, PTL
-----------------------------------------------------------------------------
(* Breakpoints and resumption.  What the list of breakpoints and running say  *)
(* of GDB depends on how commands and answers move: each call has one command *)
(* under way, and one call at a time has been answered and not yet resumed.   *)

IsAnswer(r) == r.type = "answer"

\* The call whose command has been sent on the channel of g.
Current(g, n) == g \in sent /\ Head(queue[g]) = n

\* The same after the step, for a call that may be named by what changes.
NowCurrent(g, n) == g \in sent' /\ Head(queue'[g]) = n

\* Waiting calls are those of the channels, each there once.
InChannels ==
    /\ \A g \in Gdbs : \A i \in 1..Len(queue[g]) :
           call[queue[g][i]].st = "waiting" /\ call[queue[g][i]].from = g
    /\ \A g \in Gdbs : \A i, j \in 1..Len(queue[g]) : queue[g][i] = queue[g][j] => i = j

\* What GDB has to read is the command of the current call, after those of lost ones.
Commanded ==
    \A g \in Gdbs : \A i \in 1..Len(stdin[g]) :
        LET m == stdin[g][i] IN
        /\ call[m.call].from = g /\ call[m.call].step = m.step /\ call[m.call].arg = m.arg
        /\ call[m.call].st = "lost" \/ (Current(g, m.call) /\ i = Len(stdin[g]))

\* What it has answered is that command, once and after the others, or those.
AnsweredOnce ==
    /\ \A g \in Gdbs : \A i \in 1..Len(pipe[g]) : IsAnswer(pipe[g][i]) =>
           LET c == call[pipe[g][i].call] IN
           /\ c.from = g /\ c.step = pipe[g][i].step
           /\ c.st = "lost" \/ (Current(g, pipe[g][i].call) /\ stdin[g] = <<>>)
    /\ \A g \in Gdbs : \A i, j \in 1..Len(pipe[g]) :
           IsAnswer(pipe[g][i]) /\ IsAnswer(pipe[g][j]) /\ pipe[g][i].call = pipe[g][j].call
           /\ call[pipe[g][i].call].st # "lost" => i = j

\* A line of the pipe that is an answer is of a call that was made.
LEMMA AnswerCalls ==
    ASSUME IInv, NEW g \in Gdbs, NEW i \in 1..Len(pipe[g]), IsAnswer(pipe[g][i])
    PROVE  pipe[g][i].call \in Calls /\ pipe[g][i] \in Lines
<1>1. pipe[g][i] \in GoodLines
  BY DEF IInv, Honest
<1>2. pipe[g][i] \in Lines /\ pipe[g][i].call \in 1..made
  BY <1>1 DEF GoodLines, IsAnswer
<1>3. 1..made \subseteq Calls
  BY ConstantsAssumption DEF IInv, ChannelOK, Calls
<1> QED
  BY <1>2, <1>3

\* A call that was answered resumes before another is answered.
OneReady ==
    /\ \A m, n \in Calls : call[m].st = "ready" /\ call[n].st = "ready" => m = n
    /\ \A n \in Calls : call[n].st = "ready" /\ chunk.left > 0 => chunk.from \notin sent

Orderly == InChannels /\ Commanded /\ AnsweredOnce /\ OneReady

\* The parts of Orderly for one command, for one answer and for two.
LEMMA CommandOf ==
    ASSUME Orderly, NEW g \in Gdbs, NEW i \in 1..Len(stdin[g])
    PROVE  LET c == call[stdin[g][i].call] IN
           /\ c.from = g /\ c.step = stdin[g][i].step /\ c.arg = stdin[g][i].arg
           /\ c.st = "lost" \/ (Current(g, stdin[g][i].call) /\ i = Len(stdin[g]))
BY DEF Orderly, Commanded

LEMMA AnswerOf ==
    ASSUME Orderly, NEW g \in Gdbs, NEW i \in 1..Len(pipe[g]), IsAnswer(pipe[g][i])
    PROVE  LET c == call[pipe[g][i].call] IN
           /\ c.from = g /\ c.step = pipe[g][i].step
           /\ c.st = "lost" \/ (Current(g, pipe[g][i].call) /\ stdin[g] = <<>>)
BY DEF Orderly, AnsweredOnce

LEMMA OneAnswerOf ==
    ASSUME Orderly, NEW g \in Gdbs, NEW i \in 1..Len(pipe[g]), NEW j \in 1..Len(pipe[g]),
           IsAnswer(pipe[g][i]), IsAnswer(pipe[g][j]), pipe[g][i].call = pipe[g][j].call,
           call[pipe[g][i].call].st # "lost"
    PROVE  i = j
BY DEF Orderly, AnsweredOnce

\* The calls that delete a breakpoint, which is the number they hold.
Deleting(c) == c.op = "removeBreakpoint" \/ (c.op = "removeAll" /\ c.step = 2)

\* A deletion that GDB has done and the list has not.
Done(n, g) ==
    \E i \in 1..Len(pipe[g]) : IsAnswer(pipe[g][i]) /\ pipe[g][i].call = n /\ pipe[g][i].ok

\* A deletion that GDB may have done, of a call that has not ended.
AtWork(n, g) ==
    call[n].st \in {"ready", "lost"} \/ (call[n].st = "waiting" /\ Done(n, g))

Deleted(id, g) ==
    \E n \in Calls : /\ Deleting(call[n]) /\ call[n].arg = id /\ call[n].from = g
                     /\ AtWork(n, g)

Has(id, g) == id \in table[g] \/ Deleted(id, g)

\* What is listed, or is about to be, GDB has or is deleting.
ListedIsHeld ==
    /\ \A b \in breakpoints : Has(b.id, b.from)
    /\ \A n \in Calls : call[n].op = "setBreakpoint" /\ call[n].st = "ready" =>
           Has(call[n].val, call[n].from)
    /\ \A g \in Gdbs : \A i \in 1..Len(pipe[g]) :
           LET r == pipe[g][i] IN
           IsAnswer(r) /\ r.ok /\ call[r.call].op = "setBreakpoint" /\ call[r.call].st # "lost"
               => r.val \in table[g]

\* GDB counts the breakpoints it sets.
Numbered ==
    /\ \A g \in Gdbs : \A id \in table[g] : id <= inserted[g]
    /\ \A n \in Calls : call[n].op = "setBreakpoint" /\ call[n].st \in {"ready", "done"} =>
           call[n].val <= inserted[call[n].from]

\* A number that was deleted is never given again.
Spent(id, g) == id \notin table[g] /\ id <= inserted[g]

DeletedIsSpent ==
    /\ \A n \in Calls : Deleting(call[n]) /\ call[n].st = "ready" =>
           Spent(call[n].arg, call[n].from)
    /\ \A g \in Gdbs : \A i \in 1..Len(pipe[g]) :
           LET r == pipe[g][i] IN
           IsAnswer(r) /\ r.ok /\ Deleting(call[r.call]) => Spent(call[r.call].arg, g)

\* Calls on another GDB than the present one are older.
OthersAreEarlier ==
    mi2 # 0 => \E k \in Calls :
        /\ call[k].op = "initialize" /\ call[k].from = mi2
        /\ \A n \in 1..made : call[n].from # mi2 => n < k

\* A process that was not started has no calls and says nothing.
UnusedIsIdle ==
    /\ \A n \in 1..made : gdb[call[n].from] # "unused"
    /\ \A g \in Gdbs : gdb[g] = "unused" => stdin[g] = <<>> /\ pipe[g] = <<>>
    /\ mi2 # 0 => gdb[mi2] # "unused"

Bookkept ==
    /\ Orderly /\ ListedIsHeld /\ Numbered /\ DeletedIsSpent
    /\ OthersAreEarlier /\ UnusedIsIdle /\ SetBreakpointsListed

LEMMA AppendAt ==
    ASSUME NEW S, NEW s \in Seq(S), NEW e \in S
    PROVE  /\ Append(s, e) \in Seq(S) /\ Len(Append(s, e)) = Len(s) + 1 /\ Len(s) \in Nat
           /\ \A i \in 1..Len(s) : Append(s, e)[i] = s[i]
           /\ Append(s, e)[Len(s) + 1] = e
           /\ s # <<>> => Head(Append(s, e)) = Head(s) /\ Len(s) >= 1
           /\ s = <<>> => Head(Append(s, e)) = e /\ Len(s) = 0
OBVIOUS

LEMMA TailAt ==
    ASSUME NEW S, NEW s \in Seq(S), s # <<>>
    PROVE  /\ Tail(s) \in Seq(S) /\ Head(s) \in S /\ Head(s) = s[1]
           /\ Len(s) \in Nat /\ Len(s) >= 1 /\ Len(Tail(s)) = Len(s) - 1
           /\ \A i \in 1..Len(Tail(s)) : Tail(s)[i] = s[i + 1] /\ i + 1 \in 1..Len(s)
OBVIOUS

LEMMA ConcatAt ==
    ASSUME NEW S, NEW s \in Seq(S), NEW u \in Seq(S)
    PROVE  /\ s \o u \in Seq(S) /\ Len(s \o u) = Len(s) + Len(u)
           /\ Len(s) \in Nat /\ Len(u) \in Nat
           /\ \A i \in 1..Len(s) : (s \o u)[i] = s[i]
           /\ \A i \in Len(s) + 1 .. Len(s) + Len(u) :
                  (s \o u)[i] = u[i - Len(s)] /\ i - Len(s) \in 1..Len(u)
OBVIOUS

\* The first call of a channel waits.
LEMMA FirstWaits ==
    ASSUME IInv, InChannels, NEW g \in Gdbs, queue[g] # <<>>
    PROVE  /\ Head(queue[g]) \in Calls /\ call[Head(queue[g])].st = "waiting"
           /\ call[Head(queue[g])].from = g
<1>1. queue[g] \in Seq(Calls)
  BY DEF IInv, ChannelOK
<1>2. Head(queue[g]) = queue[g][1] /\ 1 \in 1..Len(queue[g]) /\ Head(queue[g]) \in Calls
  BY <1>1, TailAt
<1> QED
  BY <1>2 DEF InChannels

LEMMA SentWaits ==
    ASSUME IInv, InChannels, NEW g \in Gdbs, NEW n, Current(g, n)
    PROVE  n \in Calls /\ call[n].st = "waiting" /\ call[n].from = g /\ queue[g] # <<>>
BY FirstWaits DEF Current, IInv, Honest

\* Whose commands and answers are on their way.
LEMMA UnderWay ==
    ASSUME IInv, Orderly, NEW g \in Gdbs
    PROVE  /\ \A i \in 1..Len(stdin[g]) : call[stdin[g][i].call].st \in {"waiting", "lost"}
           /\ \A i \in 1..Len(pipe[g]) : IsAnswer(pipe[g][i]) =>
                  call[pipe[g][i].call].st \in {"waiting", "lost"}
<1>1. ASSUME NEW n, Current(g, n) PROVE call[n].st = "waiting"
  BY <1>1, SentWaits DEF Orderly
<1>2. ASSUME NEW i \in 1..Len(stdin[g])
      PROVE  call[stdin[g][i].call].st \in {"waiting", "lost"}
  BY <1>1, CommandOf
<1>3. ASSUME NEW i \in 1..Len(pipe[g]), IsAnswer(pipe[g][i])
      PROVE  call[pipe[g][i].call].st \in {"waiting", "lost"}
  BY <1>1, <1>3, AnswerOf
<1> QED
  BY <1>2, <1>3

\* A call that is in no channel begins, or goes on, or ends.
LEMMA StatusStep ==
    ASSUME IInv, Orderly, NEW n \in Calls, call[n].st \notin {"waiting", "lost"},
           NEW d \in CallRecords, d.st # "ready", call' = [call EXCEPT ![n] = d],
           UNCHANGED <<sent, stdin, pipe, chunk>>,
           \/ UNCHANGED queue
           \/ /\ d.st = "waiting" /\ d.from \in Gdbs
              /\ queue' = [queue EXCEPT ![d.from] = Append(@, n)]
    PROVE  Orderly'
<1>1. /\ call \in [Calls -> CallRecords] /\ queue \in [Gdbs -> Seq(Calls)]
      /\ sent \subseteq Gdbs /\ \A g \in sent : queue[g] # <<>>
  BY DEF IInv, ChannelOK, Honest
<1>2. \A k \in Calls : call'[k] = IF k = n THEN d ELSE call[k]
  BY <1>1
<1>3. \A g \in Gdbs : \A i \in 1..Len(queue[g]) : queue[g][i] \in Calls /\ queue[g][i] # n
  BY <1>1 DEF Orderly, InChannels
<1>4. \A g \in Gdbs : \A k : Current(g, k) => Current(g, k)'
  <2>1. CASE UNCHANGED queue
    BY <2>1 DEF Current
  <2>2. CASE /\ d.st = "waiting" /\ d.from \in Gdbs
             /\ queue' = [queue EXCEPT ![d.from] = Append(@, n)]
    <3>1. ASSUME NEW g \in sent PROVE Head(queue'[g]) = Head(queue[g])
      BY <1>1, <2>2, AppendAt
    <3> QED
      BY <3>1 DEF Current
  <2> QED
    BY <2>1, <2>2
<1>5. InChannels'
  <2>1. CASE UNCHANGED queue
    BY <2>1, <1>2, <1>3 DEF Orderly, InChannels
  <2>2. CASE /\ d.st = "waiting" /\ d.from \in Gdbs
             /\ queue' = [queue EXCEPT ![d.from] = Append(@, n)]
    <3> SUFFICES ASSUME NEW g \in Gdbs
                 PROVE  /\ \A i \in 1..Len(queue'[g]) :
                               call'[queue'[g][i]].st = "waiting" /\ call'[queue'[g][i]].from = g
                        /\ \A i, j \in 1..Len(queue'[g]) : queue'[g][i] = queue'[g][j] => i = j
      BY DEF InChannels
    <3>1. CASE g # d.from
      <4>1. queue'[g] = queue[g]
        BY <2>2, <3>1, <1>1
      <4> QED
        BY <4>1, <1>2, <1>3 DEF Orderly, InChannels
    <3>2. CASE g = d.from
      <4>1. queue'[g] = Append(queue[g], n)
        BY <2>2, <3>2, <1>1
      <4>2. /\ Len(queue'[g]) = Len(queue[g]) + 1 /\ Len(queue[g]) \in Nat
            /\ \A i \in 1..Len(queue[g]) : queue'[g][i] = queue[g][i]
            /\ queue'[g][Len(queue[g]) + 1] = n
        BY <4>1, <1>1, AppendAt
      <4>3. \A i \in 1..Len(queue'[g]) : i \in 1..Len(queue[g]) \/ i = Len(queue[g]) + 1
        BY <4>2
      <4> QED
        BY <4>2, <4>3, <1>2, <1>3, <2>2, <3>2 DEF Orderly, InChannels
    <3> QED
      BY <3>1, <3>2
  <2> QED
    BY <2>1, <2>2
<1>6. \A g \in Gdbs : \A i \in 1..Len(stdin[g]) :
          call'[stdin[g][i].call] = call[stdin[g][i].call]
  <2> SUFFICES ASSUME NEW g \in Gdbs, NEW i \in 1..Len(stdin[g])
               PROVE  call'[stdin[g][i].call] = call[stdin[g][i].call]
    OBVIOUS
  <2>1. stdin[g][i] \in Messages
    BY DEF IInv, ProcessOK
  <2>2. stdin[g][i].call \in Calls /\ stdin[g][i].call # n
    BY <2>1, UnderWay DEF Messages
  <2> QED
    BY <2>2, <1>2
<1>7. \A g \in Gdbs : \A i \in 1..Len(pipe[g]) : IsAnswer(pipe[g][i]) =>
          call'[pipe[g][i].call] = call[pipe[g][i].call]
  <2> SUFFICES ASSUME NEW g \in Gdbs, NEW i \in 1..Len(pipe[g]), IsAnswer(pipe[g][i])
               PROVE  call'[pipe[g][i].call] = call[pipe[g][i].call]
    OBVIOUS
  <2>1. pipe[g][i].call \in Calls
    BY AnswerCalls
  <2>2. pipe[g][i].call # n
    BY UnderWay
  <2> QED
    BY <2>1, <2>2, <1>2
<1>8. Commanded'
  BY <1>4, <1>6 DEF Orderly, Commanded
<1>9. AnsweredOnce'
  BY <1>4, <1>7 DEF Orderly, AnsweredOnce
<1>10. OneReady'
  BY <1>2 DEF Orderly, OneReady
<1> QED
  BY <1>5, <1>8, <1>9, <1>10 DEF Orderly

\* What is left of the output once its first lines were read.
Remains(s) ==
    \A g \in Gdbs : \A i \in 1..Len(pipe'[g]) :
        pipe'[g][i] = pipe[g][i + s[g]] /\ i + s[g] \in 1..Len(pipe[g])

\* The first call of a channel leaves it: it is lost, or nothing of it is under way.
LEMMA LeaveOrder ==
    ASSUME IInv, Orderly, NEW g \in Gdbs, queue[g] # <<>>,
           NEW c \in CallRecords, c.step = First(g).step, c.arg = First(g).arg,
           c.from = First(g).from, Leave(g, c), stdin' = stdin,
           NEW s \in [Gdbs -> Nat], Remains(s),
           \/ c.st = "lost"
           \/ /\ \A i \in 1..Len(stdin[g]) : stdin[g][i].call # Head(queue[g])
              /\ \A i \in 1..Len(pipe'[g]) :
                     IsAnswer(pipe'[g][i]) => pipe'[g][i].call # Head(queue[g]),
           OneReady'
    PROVE  Orderly'
<1> DEFINE k == Head(queue[g])
<1>1. /\ call \in [Calls -> CallRecords] /\ queue \in [Gdbs -> Seq(Calls)]
      /\ sent \subseteq Gdbs /\ \A h \in sent : queue[h] # <<>>
  BY DEF IInv, ChannelOK, Honest
<1>2. /\ call' = [call EXCEPT ![k] = c] /\ queue' = [queue EXCEPT ![g] = Tail(@)]
      /\ sent' = sent \ {g}
  BY DEF Leave
<1>3. k \in Calls /\ call[k].st = "waiting" /\ call[k].from = g
  BY FirstWaits DEF Orderly
<1>4. \A n \in Calls : call'[n] = IF n = k THEN c ELSE call[n]
  BY <1>1, <1>2
<1>5. c.step = call[k].step /\ c.arg = call[k].arg /\ c.from = call[k].from
  BY DEF First
<1>6. \A h \in Gdbs : h # g => queue'[h] = queue[h]
  BY <1>1, <1>2
<1>7. \A h \in Gdbs : \A n : Current(h, n) => NowCurrent(h, n) \/ (h = g /\ n = k)
  BY <1>2, <1>6 DEF Current, NowCurrent
<1>8. /\ queue'[g] = Tail(queue[g])
      /\ \A i \in 1..Len(queue'[g]) : queue'[g][i] = queue[g][i + 1] /\ i + 1 \in 1..Len(queue[g])
      /\ k = queue[g][1] /\ 1 \in 1..Len(queue[g])
  BY <1>1, <1>2, TailAt
<1>9. InChannels'
  <2>1. ASSUME NEW h \in Gdbs, h # g, NEW i \in 1..Len(queue[h])
        PROVE  call'[queue[h][i]] = call[queue[h][i]]
    <3>1. queue[h][i] \in Calls /\ call[queue[h][i]].from = h
      BY <1>1 DEF Orderly, InChannels
    <3> QED
      BY <3>1, <2>1, <1>3, <1>4
  <2>2. ASSUME NEW i \in 1..Len(queue'[g]) PROVE call'[queue'[g][i]] = call[queue'[g][i]]
    <3>1. queue'[g][i] = queue[g][i + 1] /\ i + 1 \in 1..Len(queue[g]) /\ i + 1 # 1
      BY <1>8
    <3>2. queue[g][i + 1] # queue[g][1] /\ queue[g][i + 1] \in Calls
      BY <3>1, <1>8, <1>1 DEF Orderly, InChannels
    <3> QED
      BY <3>1, <3>2, <1>8, <1>4
  <2>3. ASSUME NEW h \in Gdbs, NEW i \in 1..Len(queue'[h])
        PROVE  call'[queue'[h][i]].st = "waiting" /\ call'[queue'[h][i]].from = h
    <3>1. CASE h = g
      <4>1. queue'[g][i] = queue[g][i + 1] /\ i + 1 \in 1..Len(queue[g])
        BY <2>3, <3>1, <1>8
      <4>2. call[queue[g][i + 1]].st = "waiting" /\ call[queue[g][i + 1]].from = g
        BY <4>1 DEF Orderly, InChannels
      <4>3. call'[queue'[g][i]] = call[queue'[g][i]]
        BY <2>2, <2>3, <3>1
      <4> QED
        BY <4>1, <4>2, <4>3, <3>1
    <3>2. CASE h # g
      BY <2>1, <2>3, <3>2, <1>6 DEF Orderly, InChannels
    <3> QED
      BY <3>1, <3>2
  <2>4. ASSUME NEW h \in Gdbs, NEW i \in 1..Len(queue'[h]), NEW j \in 1..Len(queue'[h]),
               queue'[h][i] = queue'[h][j]
        PROVE  i = j
    <3>1. CASE h = g
      <4>1. /\ queue[g][i + 1] = queue[g][j + 1]
            /\ i + 1 \in 1..Len(queue[g]) /\ j + 1 \in 1..Len(queue[g])
        BY <2>4, <3>1, <1>8
      <4>2. i + 1 = j + 1
        BY <4>1 DEF Orderly, InChannels
      <4> QED
        BY <4>2
    <3>2. CASE h # g
      BY <2>4, <3>2, <1>6 DEF Orderly, InChannels
    <3> QED
      BY <3>1, <3>2
  <2> QED
    BY <2>3, <2>4 DEF InChannels
<1>10. ASSUME NEW h \in Gdbs, NEW n \in Calls, call[n].from = h,
              call[n].st = "lost" \/ Current(h, n), n # k \/ c.st = "lost"
       PROVE  /\ call'[n].from = h /\ call'[n].step = call[n].step /\ call'[n].arg = call[n].arg
              /\ call'[n].st = "lost" \/ NowCurrent(h, n)
              /\ n # k => call'[n] = call[n]
              /\ n = k => call'[n].st = "lost"
  <2>1. CASE n = k
    BY <2>1, <1>10, <1>3, <1>4, <1>5 DEF Current
  <2>2. CASE n # k
    BY <2>2, <1>10, <1>3, <1>4, <1>7 DEF Current
  <2> QED
    BY <2>1, <2>2
<1>11. Commanded'
  <2> SUFFICES ASSUME NEW h \in Gdbs, NEW i \in 1..Len(stdin[h])
               PROVE  /\ call'[stdin[h][i].call].from = h
                      /\ call'[stdin[h][i].call].step = stdin[h][i].step
                      /\ call'[stdin[h][i].call].arg = stdin[h][i].arg
                      /\ \/ call'[stdin[h][i].call].st = "lost"
                         \/ NowCurrent(h, stdin[h][i].call) /\ i = Len(stdin[h])
    BY DEF Commanded, Current, NowCurrent
  <2>1. stdin[h][i].call \in Calls
    <3>1. stdin[h][i] \in Messages
      BY DEF IInv, ProcessOK
    <3> QED
      BY <3>1 DEF Messages
  <2>2. /\ call[stdin[h][i].call].from = h
        /\ call[stdin[h][i].call].step = stdin[h][i].step
        /\ call[stdin[h][i].call].arg = stdin[h][i].arg
        /\ \/ call[stdin[h][i].call].st = "lost"
           \/ Current(h, stdin[h][i].call) /\ i = Len(stdin[h])
    BY CommandOf
  <2>3. stdin[h][i].call # k \/ c.st = "lost"
    BY <2>2, <1>3
  <2> QED
    BY <2>1, <2>2, <2>3, <1>10, <1>3, <1>4
<1>12. ASSUME NEW h \in Gdbs, NEW i \in 1..Len(pipe'[h]), IsAnswer(pipe'[h][i])
       PROVE  /\ pipe'[h][i].call \in Calls
              /\ call[pipe'[h][i].call].from = h
              /\ call[pipe'[h][i].call].step = pipe'[h][i].step
              /\ \/ call[pipe'[h][i].call].st = "lost"
                 \/ Current(h, pipe'[h][i].call) /\ stdin[h] = <<>>
              /\ pipe'[h][i].call # k \/ c.st = "lost"
  <2>1. pipe'[h][i] = pipe[h][i + s[h]] /\ i + s[h] \in 1..Len(pipe[h])
    BY <1>12 DEF Remains
  <2>2. IsAnswer(pipe[h][i + s[h]])
    BY <2>1, <1>12
  <2>3. pipe'[h][i].call \in Calls
    BY <2>1, <2>2, AnswerCalls
  <2>4. /\ call[pipe'[h][i].call].from = h
        /\ call[pipe'[h][i].call].step = pipe'[h][i].step
        /\ \/ call[pipe'[h][i].call].st = "lost"
           \/ Current(h, pipe'[h][i].call) /\ stdin[h] = <<>>
    BY <2>1, <2>2, AnswerOf
  <2>5. pipe'[h][i].call # k \/ c.st = "lost"
    BY <2>4, <1>3, <1>12
  <2> QED
    BY <2>3, <2>4, <2>5
<1>13. AnsweredOnce'
  <2>1. ASSUME NEW h \in Gdbs, NEW i \in 1..Len(pipe'[h]), IsAnswer(pipe'[h][i])
        PROVE  /\ call'[pipe'[h][i].call].from = h
               /\ call'[pipe'[h][i].call].step = pipe'[h][i].step
               /\ \/ call'[pipe'[h][i].call].st = "lost"
                  \/ NowCurrent(h, pipe'[h][i].call) /\ stdin'[h] = <<>>
    <3> DEFINE n == pipe'[h][i].call
    <3>1. /\ n \in Calls /\ call[n].from = h /\ call[n].step = pipe'[h][i].step
          /\ call[n].st = "lost" \/ (Current(h, n) /\ stdin[h] = <<>>)
          /\ n # k \/ c.st = "lost"
      BY <2>1, <1>12
    <3> HIDE DEF n
    <3>2. /\ call'[n].from = h /\ call'[n].step = call[n].step
          /\ call'[n].st = "lost" \/ NowCurrent(h, n)
          /\ n # k => call'[n] = call[n]
      BY <3>1, <1>10
    <3>3. call'[n].st = "lost" \/ stdin'[h] = <<>>
      BY <3>1, <3>2, <1>3
    <3> QED
      BY <3>1, <3>2, <3>3 DEF n
  <2>2. ASSUME NEW h \in Gdbs, NEW i \in 1..Len(pipe'[h]), NEW j \in 1..Len(pipe'[h]),
               IsAnswer(pipe'[h][i]), IsAnswer(pipe'[h][j]), pipe'[h][i].call = pipe'[h][j].call,
               call'[pipe'[h][i].call].st # "lost"
        PROVE  i = j
    <3>1. pipe'[h][i].call # k /\ call[pipe'[h][i].call].st # "lost"
      BY <2>2, <1>12, <1>4
    <3>2. /\ pipe'[h][i] = pipe[h][i + s[h]] /\ i + s[h] \in 1..Len(pipe[h])
          /\ pipe'[h][j] = pipe[h][j + s[h]] /\ j + s[h] \in 1..Len(pipe[h])
      BY DEF Remains
    <3>3. i + s[h] = j + s[h]
      BY <2>2, <3>1, <3>2, OneAnswerOf
    <3> QED
      BY <3>3
  <2>3. \A h \in Gdbs : \A i \in 1..Len(pipe'[h]) : IsAnswer(pipe'[h][i]) =>
            /\ call'[pipe'[h][i].call].from = h
            /\ call'[pipe'[h][i].call].step = pipe'[h][i].step
            /\ \/ call'[pipe'[h][i].call].st = "lost"
               \/ NowCurrent(h, pipe'[h][i].call) /\ stdin'[h] = <<>>
    BY <2>1
  <2>4. \A h \in Gdbs : \A i, j \in 1..Len(pipe'[h]) :
            /\ IsAnswer(pipe'[h][i]) /\ IsAnswer(pipe'[h][j])
            /\ pipe'[h][i].call = pipe'[h][j].call
            /\ call'[pipe'[h][i].call].st # "lost"
            => i = j
    BY <2>2
  <2> QED
    BY <2>3, <2>4 DEF AnsweredOnce, Current, NowCurrent
<1> QED
  BY <1>9, <1>11, <1>13 DEF Orderly

\* The current call is given up.
LEMMA LostOrder ==
    ASSUME IInv, Orderly, NEW g \in Gdbs, g \in sent,
           Leave(g, [First(g) EXCEPT !.st = "lost"]), UNCHANGED <<stdin, pipe, chunk>>
    PROVE  Orderly'
<1> DEFINE c == [First(g) EXCEPT !.st = "lost"]
<1>1. queue[g] # <<>> /\ First(g) \in CallRecords /\ Head(queue[g]) \in Calls
  BY FirstType
<1>2. /\ c \in CallRecords /\ c.step = First(g).step /\ c.arg = First(g).arg
      /\ c.from = First(g).from /\ c.st = "lost"
  BY <1>1 DEF CallRecords
<1> HIDE DEF c
<1>3. Leave(g, c)
  BY DEF c
<1> DEFINE s == [h \in Gdbs |-> 0]
<1>4. s \in [Gdbs -> Nat] /\ Remains(s)
  <2>1. \A h \in Gdbs : \A i \in 1..Len(pipe[h]) : i + 0 = i
    BY DEF IInv, ProcessOK
  <2> QED
    BY <2>1 DEF Remains
<1> HIDE DEF s
<1>5. OneReady'
  <2>1. \A n \in Calls : call'[n].st = "ready" => call[n].st = "ready"
    BY <1>1, <1>2, <1>3 DEF Leave, IInv, ChannelOK
  <2>2. sent' \subseteq sent
    BY <1>3 DEF Leave
  <2> QED
    BY <2>1, <2>2 DEF Orderly, OneReady
<1> QED
  BY <1>1, <1>2, <1>3, <1>4, <1>5, LeaveOrder

LEMMA SendOrder ==
    ASSUME IInv, Orderly, NEW g \in Gdbs, Send(g)
    PROVE  Orderly'
<1>1. g \notin sent /\ queue[g] # <<>> /\ UNCHANGED <<chunk, pipe>> /\ chunk.left = 0
  BY DEF Send
<1>2. /\ call \in [Calls -> CallRecords] /\ queue \in [Gdbs -> Seq(Calls)]
      /\ sent \subseteq Gdbs /\ stdin \in [Gdbs -> Seq(Messages)]
  BY DEF IInv, ChannelOK, ProcessOK
<1>3. /\ Head(queue[g]) \in Calls /\ call[Head(queue[g])].st = "waiting"
      /\ call[Head(queue[g])].from = g
  BY <1>1, FirstWaits DEF Orderly
<1>4. /\ \A i \in 1..Len(stdin[g]) :
             call[stdin[g][i].call].st = "lost" /\ stdin[g][i].call # Head(queue[g])
      /\ \A i \in 1..Len(pipe[g]) : IsAnswer(pipe[g][i]) =>
             call[pipe[g][i].call].st = "lost" /\ pipe[g][i].call # Head(queue[g])
  BY <1>1, <1>3, CommandOf, AnswerOf DEF Current
<1>5. First(g) \in CallRecords
  BY <1>2, <1>3 DEF First
<1>a. CASE g \in killed
  <2> DEFINE c == [First(g) EXCEPT !.st = "failed"]
  <2>1. Leave(g, c) /\ UNCHANGED stdin
    BY <1>a DEF Send
  <2>2. /\ c \in CallRecords /\ c.step = First(g).step /\ c.arg = First(g).arg
        /\ c.from = First(g).from /\ c.st = "failed"
    BY <1>5 DEF CallRecords
  <2> HIDE DEF c
  <2> DEFINE s == [h \in Gdbs |-> 0]
  <2>3. s \in [Gdbs -> Nat] /\ Remains(s)
    <3>1. \A h \in Gdbs : \A i \in 1..Len(pipe[h]) : i + 0 = i
      BY DEF IInv, ProcessOK
    <3> QED
      BY <3>1, <1>1 DEF Remains
  <2> HIDE DEF s
  <2>4. OneReady'
    <3>1. \A n \in Calls : call'[n].st = "ready" => call[n].st = "ready"
      BY <1>2, <1>3, <2>1, <2>2 DEF Leave
    <3>2. sent' \subseteq sent
      BY <2>1 DEF Leave
    <3> QED
      BY <3>1, <3>2, <1>1 DEF Orderly, OneReady
  <2>5. \A i \in 1..Len(pipe'[g]) : IsAnswer(pipe'[g][i]) => pipe'[g][i].call # Head(queue[g])
    BY <1>1, <1>4
  <2> QED
    BY <1>1, <1>4, <2>1, <2>2, <2>3, <2>4, <2>5, LeaveOrder
<1>b. CASE g \notin killed
  <2>1. /\ sent' = sent \cup {g} /\ UNCHANGED <<call, queue>>
        /\ stdin' = IF gdb[g] = "dead" THEN stdin
                    ELSE [stdin EXCEPT ![g] = Append(@, Command(g))]
    BY <1>b DEF Send
  <2>2. InChannels' /\ OneReady'
    BY <1>1, <2>1 DEF Orderly, InChannels, OneReady
  <2>3. \A h \in Gdbs : \A n : Current(h, n) => NowCurrent(h, n)
    BY <2>1 DEF Current, NowCurrent
  <2>4. ASSUME NEW h \in Gdbs, NEW i \in 1..Len(stdin'[h])
        PROVE  /\ call[stdin'[h][i].call].from = h
               /\ call[stdin'[h][i].call].step = stdin'[h][i].step
               /\ call[stdin'[h][i].call].arg = stdin'[h][i].arg
               /\ \/ call[stdin'[h][i].call].st = "lost"
                  \/ NowCurrent(h, stdin'[h][i].call) /\ i = Len(stdin'[h])
    <3>1. CASE h = g /\ gdb[g] # "dead"
      <4>1. stdin'[h] = Append(stdin[g], Command(g))
        BY <2>1, <3>1, <1>2
      <4>2. Command(g) \in Messages
        <5>1. IInv'
          BY SendStep
        <5>2. stdin'[g] \in Seq(Messages) /\ Len(stdin[g]) + 1 \in 1..Len(stdin'[g])
              /\ stdin'[g][Len(stdin[g]) + 1] = Command(g)
          BY <5>1, <4>1, <3>1, <1>2 DEF IInv, ProcessOK
        <5> QED
          BY <5>2
      <4>3. /\ Len(stdin'[h]) = Len(stdin[g]) + 1 /\ Len(stdin[g]) \in Nat
            /\ \A j \in 1..Len(stdin[g]) : stdin'[h][j] = stdin[g][j]
            /\ stdin'[h][Len(stdin[g]) + 1] = Command(g)
        BY <4>1, <4>2, <1>2, AppendAt
      <4>4. CASE i \in 1..Len(stdin[g])
        <5>1. stdin'[h][i] = stdin[g][i]
          BY <4>3, <4>4, <3>1
        <5>2. /\ call[stdin[g][i].call].from = g
              /\ call[stdin[g][i].call].step = stdin[g][i].step
              /\ call[stdin[g][i].call].arg = stdin[g][i].arg
              /\ call[stdin[g][i].call].st = "lost"
          BY <4>4, <1>4, CommandOf
        <5> QED
          BY <5>1, <5>2, <3>1
      <4>5. CASE i = Len(stdin[g]) + 1
        <5>1. /\ Command(g).call = Head(queue[g]) /\ Command(g).step = First(g).step
              /\ Command(g).arg = First(g).arg
          BY DEF Command
        <5> QED
          BY <5>1, <4>3, <4>5, <1>3, <3>1, <2>1 DEF NowCurrent, First
      <4> QED
        BY <4>3, <4>4, <4>5
    <3>2. CASE ~(h = g /\ gdb[g] # "dead")
      <4>1. stdin'[h] = stdin[h]
        BY <2>1, <3>2, <1>2
      <4> QED
        BY <4>1, <2>3, CommandOf
    <3> QED
      BY <3>1, <3>2
  <2>5. Commanded'
    BY <2>4, <2>1 DEF Commanded, Current, NowCurrent
  <2>6. \A h \in Gdbs : \A i \in 1..Len(pipe[h]) :
            IsAnswer(pipe[h][i]) /\ call[pipe[h][i].call].st # "lost" =>
                NowCurrent(h, pipe[h][i].call) /\ stdin'[h] = <<>>
    <3>1. \A h \in Gdbs : h # g => stdin'[h] = stdin[h]
      BY <2>1, <1>2
    <3> QED
      BY <3>1, <2>3, <1>4, AnswerOf
  <2>7. AnsweredOnce'
    <3>1. UNCHANGED <<call, pipe, queue>>
      BY <2>1, <1>1
    <3>2. ASSUME NEW h \in Gdbs, NEW i \in 1..Len(pipe[h]), IsAnswer(pipe[h][i])
          PROVE  /\ call[pipe[h][i].call].from = h
                 /\ call[pipe[h][i].call].step = pipe[h][i].step
                 /\ \/ call[pipe[h][i].call].st = "lost"
                    \/ NowCurrent(h, pipe[h][i].call) /\ stdin'[h] = <<>>
      BY <3>2, <2>6, AnswerOf
    <3>3. \A h \in Gdbs : \A i, j \in 1..Len(pipe[h]) :
              IsAnswer(pipe[h][i]) /\ IsAnswer(pipe[h][j]) /\ pipe[h][i].call = pipe[h][j].call
              /\ call[pipe[h][i].call].st # "lost" => i = j
      BY OneAnswerOf
    <3> QED
      BY <3>1, <3>2, <3>3 DEF AnsweredOnce, Current, NowCurrent
  <2> QED
    BY <2>2, <2>5, <2>7 DEF Orderly
<1> QED
  BY <1>a, <1>b

\* Lines are read of which none settles a call.
LEMMA PipeOrder ==
    ASSUME IInv, Orderly, UNCHANGED <<call, queue, sent, stdin>>,
           NEW s \in [Gdbs -> Nat], Remains(s), OneReady'
    PROVE  Orderly'
<1>1. InChannels' /\ Commanded'
  BY DEF Orderly, InChannels, Commanded, Current
<1>2. AnsweredOnce'
  <2>1. \A h \in Gdbs : \A i \in 1..Len(pipe'[h]) :
            pipe'[h][i] = pipe[h][i + s[h]] /\ i + s[h] \in 1..Len(pipe[h])
    BY DEF Remains
  <2>2. ASSUME NEW h \in Gdbs, NEW i \in 1..Len(pipe'[h]), NEW j \in 1..Len(pipe'[h]),
               IsAnswer(pipe'[h][i]), IsAnswer(pipe'[h][j]), pipe'[h][i].call = pipe'[h][j].call,
               call[pipe'[h][i].call].st # "lost"
        PROVE  i = j
    <3>1. /\ pipe'[h][i] = pipe[h][i + s[h]] /\ i + s[h] \in 1..Len(pipe[h])
          /\ pipe'[h][j] = pipe[h][j + s[h]] /\ j + s[h] \in 1..Len(pipe[h])
      BY <2>1
    <3>2. /\ IsAnswer(pipe[h][i + s[h]]) /\ IsAnswer(pipe[h][j + s[h]])
          /\ pipe[h][i + s[h]].call = pipe[h][j + s[h]].call
          /\ call[pipe[h][i + s[h]].call].st # "lost"
      BY <2>2, <3>1
    <3>3. i + s[h] = j + s[h]
      BY <3>1, <3>2, OneAnswerOf
    <3> QED
      BY <3>3
  <2>3. ASSUME NEW h \in Gdbs, NEW i \in 1..Len(pipe'[h]), IsAnswer(pipe'[h][i])
        PROVE  /\ call[pipe'[h][i].call].from = h
               /\ call[pipe'[h][i].call].step = pipe'[h][i].step
               /\ \/ call[pipe'[h][i].call].st = "lost"
                  \/ Current(h, pipe'[h][i].call) /\ stdin[h] = <<>>
    <3>1. pipe'[h][i] = pipe[h][i + s[h]] /\ i + s[h] \in 1..Len(pipe[h])
      BY <2>1
    <3> QED
      BY <3>1, <2>3, AnswerOf
  <2>4. \A h \in Gdbs : \A i, j \in 1..Len(pipe'[h]) :
            /\ IsAnswer(pipe'[h][i]) /\ IsAnswer(pipe'[h][j])
            /\ pipe'[h][i].call = pipe'[h][j].call
            /\ call[pipe'[h][i].call].st # "lost"
            => i = j
    BY <2>2
  <2> QED
    BY <2>3, <2>4 DEF AnsweredOnce, Current
<1> QED
  BY <1>1, <1>2 DEF Orderly

\* A line is read only when no call of that process is both answered and resuming.
LEMMA ReadyUnsent ==
    ASSUME IInv, OneReady, NEW g \in Gdbs, HandleLine(g), NEW n \in Calls,
           call[n].st = "ready"
    PROVE  g \notin sent
<1>1. PICK k \in 1..Len(pipe[g]) : Drained \/ chunk = [from |-> g, left |-> k]
  BY DEF HandleLine
<1>2. chunk = [from |-> g, left |-> k]
  BY <1>1 DEF Drained
<1>3. chunk.left > 0 /\ chunk.from = g
  BY <1>2, <1>1
<1> QED
  BY <1>3 DEF OneReady

\* What one line less in the pipe of g leaves.
LEMMA TailRemains ==
    ASSUME IInv, NEW g \in Gdbs, pipe[g] # <<>>, pipe' = [pipe EXCEPT ![g] = Tail(@)]
    PROVE  /\ [h \in Gdbs |-> IF h = g THEN 1 ELSE 0] \in [Gdbs -> Nat]
           /\ Remains([h \in Gdbs |-> IF h = g THEN 1 ELSE 0])
           /\ Head(pipe[g]) = pipe[g][1] /\ 1 \in 1..Len(pipe[g])
           /\ pipe'[g] = Tail(pipe[g]) /\ \A h \in Gdbs : h # g => pipe'[h] = pipe[h]
<1>1. pipe \in [Gdbs -> Seq(Lines)]
  BY DEF IInv, ProcessOK
<1>2. /\ pipe'[g] = Tail(pipe[g]) /\ \A h \in Gdbs : h # g => pipe'[h] = pipe[h]
      /\ Head(pipe[g]) = pipe[g][1] /\ 1 \in 1..Len(pipe[g])
      /\ \A i \in 1..Len(pipe'[g]) : pipe'[g][i] = pipe[g][i + 1] /\ i + 1 \in 1..Len(pipe[g])
  BY <1>1, TailAt
<1>3. \A h \in Gdbs : h # g => \A i \in 1..Len(pipe'[h]) :
          pipe'[h][i] = pipe[h][i + 0] /\ i + 0 \in 1..Len(pipe[h])
  BY <1>2
<1> DEFINE s == [h \in Gdbs |-> IF h = g THEN 1 ELSE 0]
<1>4. s \in [Gdbs -> Nat] /\ s[g] = 1 /\ \A h \in Gdbs : h # g => s[h] = 0
  OBVIOUS
<1> HIDE DEF s
<1>5. Remains(s)
  <2> SUFFICES ASSUME NEW h \in Gdbs, NEW i \in 1..Len(pipe'[h])
               PROVE  pipe'[h][i] = pipe[h][i + s[h]] /\ i + s[h] \in 1..Len(pipe[h])
    BY DEF Remains
  <2>1. CASE h = g
    BY <2>1, <1>2, <1>4
  <2>2. CASE h # g
    BY <2>2, <1>3, <1>4
  <2> QED
    BY <2>1, <2>2
<1> QED
  BY <1>2, <1>4, <1>5 DEF s

LEMMA HandleLineOrder ==
    ASSUME IInv, Orderly, NEW g \in Gdbs, HandleLine(g)
    PROVE  Orderly'
<1> DEFINE r == Head(pipe[g])
<1> DEFINE s == [h \in Gdbs |-> IF h = g THEN 1 ELSE 0]
<1>1. pipe[g] # <<>> /\ pipe' = [pipe EXCEPT ![g] = Tail(@)] /\ stdin' = stdin
  BY DEF HandleLine
<1>2. s \in [Gdbs -> Nat] /\ Remains(s) /\ r = pipe[g][1] /\ 1 \in 1..Len(pipe[g])
  BY <1>1, TailRemains
<1>3. chunk'.from = g
  BY DEF HandleLine
<1>4. \A n \in Calls : call[n].st = "ready" => g \notin sent
  BY ReadyUnsent DEF Orderly
<1>a. CASE UNCHANGED <<call, queue, sent>>
  <2>1. OneReady'
    BY <1>a, <1>3, <1>4 DEF Orderly, OneReady
  <2> HIDE DEF s
  <2> QED
    BY <1>a, <1>1, <1>2, <2>1, PipeOrder
<1>b. CASE /\ IsAnswer(r) /\ g \in sent /\ Head(queue[g]) = r.call /\ First(g).step = r.step
           /\ Leave(g, [First(g) EXCEPT !.st = IF r.ok THEN "ready" ELSE "failed",
                                        !.val = r.val, !.todo = @ \cup r.list])
  <2> DEFINE c == [First(g) EXCEPT !.st = IF r.ok THEN "ready" ELSE "failed",
                                   !.val = r.val, !.todo = @ \cup r.list]
  <2>1. queue[g] # <<>> /\ First(g) \in CallRecords /\ Head(queue[g]) \in Calls
    BY <1>b, FirstType
  <2>2. r \in Lines
    BY <1>2 DEF IInv, ProcessOK
  <2>3. /\ c \in CallRecords /\ c.step = First(g).step /\ c.arg = First(g).arg
        /\ c.from = First(g).from
    BY <2>1, <2>2 DEF CallRecords, Lines
  <2>4. Leave(g, c)
    BY <1>b
  <2> HIDE DEF c
  <2>5. call[Head(queue[g])].st = "waiting"
    BY <2>1, FirstWaits DEF Orderly
  <2>6. stdin[g] = <<>>
    BY <1>2, <1>b, <2>5, AnswerOf
  <2>7. \A i \in 1..Len(stdin[g]) : stdin[g][i].call # Head(queue[g])
    BY <2>6
  <2>8. ASSUME NEW i \in 1..Len(pipe'[g]), IsAnswer(pipe'[g][i])
        PROVE  pipe'[g][i].call # Head(queue[g])
    <3>0. s[g] = 1 /\ i + 1 # 1
      OBVIOUS
    <3> HIDE DEF s
    <3>1. pipe'[g][i] = pipe[g][i + 1] /\ i + 1 \in 1..Len(pipe[g]) /\ i + 1 # 1
      BY <3>0, <1>2 DEF Remains
    <3> QED
      BY <3>1, <2>8, <1>2, <1>b, <2>5, OneAnswerOf
  <2>9. OneReady'
    <3>1. \A n \in Calls : call'[n].st = "ready" => n = Head(queue[g])
      BY <2>1, <2>4, <1>b, <1>4 DEF Leave, IInv, ChannelOK
    <3>2. g \notin sent'
      BY <2>4 DEF Leave
    <3> QED
      BY <3>1, <3>2, <1>3 DEF OneReady
  <2> HIDE DEF s
  <2> QED
    BY <1>1, <1>2, <2>1, <2>3, <2>4, <2>7, <2>8, <2>9, LeaveOrder
<1> QED
  BY <1>a, <1>b DEF HandleLine, OnAnswer, IsAnswer

-----------------------------------------------------------------------------
(* What GDB does with a command. *)

\* The lines hold one answer, to the command; the rest are events.
OneAnswer(lines, a, m) ==
    /\ a \in 1..Len(lines)
    /\ \A i \in 1..Len(lines) : IsAnswer(lines[i]) => i = a
    /\ IsAnswer(lines[a]) /\ lines[a].call = m.call /\ lines[a].step = m.step

\* What becomes of the breakpoints.
Inserts(g, m, r) ==
    /\ m.name = "insert" /\ r.val = inserted[g] + 1
    /\ inserted' = [inserted EXCEPT ![g] = @ + 1]
    /\ table' = [table EXCEPT ![g] = @ \cup {inserted[g] + 1}]

Removes(g, m, r) ==
    /\ m.name = "delete" /\ r.ok /\ m.arg \in table[g]
    /\ table' = [table EXCEPT ![g] = @ \ {m.arg}]
    /\ UNCHANGED inserted

Keeps(m, r) == UNCHANGED <<table, inserted>> /\ (r.ok => m.name \notin {"insert", "delete"})

\* What becomes of the program.
Runs(g, m, lines) ==
    /\ m.name \in {"run", "continue"}
    /\ target' = [target EXCEPT ![g] = "running"]
    /\ lines[Len(lines)].type = "running"

Attaches(g, m) == target[g] = "none" /\ m.name = "attach" /\ target' = [target EXCEPT ![g] = "stopped"]

Stays(lines) == UNCHANGED target /\ \A i \in 1..Len(lines) : IsAnswer(lines[i])

LEMMA AnswerIs ==
    ASSUME NEW m \in Messages, NEW ok \in BOOLEAN
    PROVE  /\ Answer(m, ok) \in Lines /\ IsAnswer(Answer(m, ok))
           /\ Answer(m, ok).call = m.call /\ Answer(m, ok).step = m.step /\ Answer(m, ok).ok = ok
BY DEF Answer, NoAnswer, Lines, Messages, IsAnswer

LEMMA EventIs ==
    \A type \in {"running", "stopped", "exited"} :
        Event(type) \in Lines /\ Event(type).type = type /\ ~IsAnswer(Event(type))
BY DEF Event, NoAnswer, Lines, IsAnswer

LEMMA Single ==
    ASSUME NEW m \in Messages, NEW r \in Lines, IsAnswer(r), r.call = m.call, r.step = m.step
    PROVE  <<r>> \in Seq(Lines) /\ OneAnswer(<<r>>, 1, m) /\ <<r>>[1] = r
           /\ Len(<<r>>) = 1 /\ \A i \in 1..Len(<<r>>) : IsAnswer(<<r>>[i])
BY DEF OneAnswer

LEMMA WhatGdbDoes ==
    ASSUME IInv, NEW g \in Gdbs, NEW m \in Messages, Executes(g, m)
    PROVE  \E lines \in Seq(Lines) : \E a \in 1..Len(lines) :
              /\ Output(g, lines) /\ OneAnswer(lines, a, m)
              /\ Inserts(g, m, lines[a]) \/ Removes(g, m, lines[a]) \/ Keeps(m, lines[a])
              /\ Runs(g, m, lines) \/ Attaches(g, m) \/ Stays(lines)
<1> DEFINE yes == Answer(m, TRUE)
<1>1. yes \in Lines /\ IsAnswer(yes) /\ yes.call = m.call /\ yes.step = m.step /\ yes.ok = TRUE
  BY AnswerIs
<1>2. ASSUME NEW r \in Lines, IsAnswer(r), r.call = m.call, r.step = m.step,
             Output(g, <<r>>), UNCHANGED target,
             Inserts(g, m, r) \/ Removes(g, m, r) \/ Keeps(m, r)
      PROVE  \E lines \in Seq(Lines) : \E a \in 1..Len(lines) :
                /\ Output(g, lines) /\ OneAnswer(lines, a, m)
                /\ Inserts(g, m, lines[a]) \/ Removes(g, m, lines[a]) \/ Keeps(m, lines[a])
                /\ Runs(g, m, lines) \/ Attaches(g, m) \/ Stays(lines)
  <2>1. <<r>> \in Seq(Lines) /\ 1 \in 1..Len(<<r>>) /\ OneAnswer(<<r>>, 1, m) /\ <<r>>[1] = r
    BY <1>2, Single
  <2>2. Stays(<<r>>)
    BY <1>2, Single DEF Stays
  <2> QED
    BY <1>2, <2>1, <2>2
<1>a. CASE Output(g, <<Answer(m, FALSE)>>) /\ Idle(g)
  <2> DEFINE no == Answer(m, FALSE)
  <2>1. no \in Lines /\ IsAnswer(no) /\ no.call = m.call /\ no.step = m.step /\ ~no.ok
    BY AnswerIs
  <2>2. Keeps(m, no) /\ UNCHANGED target
    BY <1>a, <2>1 DEF Keeps, Idle
  <2> QED
    BY <1>a, <2>1, <2>2, <1>2
<1>b. CASE /\ m.name \in {"init", "file", "interrupt", "tinsert"}
           /\ Output(g, <<yes>>) /\ Idle(g)
  <2>1. Keeps(m, yes) /\ UNCHANGED target
    BY <1>b DEF Keeps, Idle
  <2> QED
    BY <1>b, <1>1, <2>1, <1>2
<1>c. CASE /\ \/ m.name = "run" /\ target[g] # "running"
              \/ m.name = "continue" /\ target[g] = "stopped"
           /\ target' = [target EXCEPT ![g] = "running"]
           /\ Output(g, IF m.name = "run" /\ target[g] = "stopped"
                        THEN <<Event("exited"), yes, Event("running")>>
                        ELSE <<yes, Event("running")>>)
           /\ UNCHANGED <<selected, table, inserted>>
  <2> DEFINE out == Event("exited")
             on  == Event("running")
  <2>1. /\ out \in Lines /\ ~IsAnswer(out)
        /\ on \in Lines /\ ~IsAnswer(on) /\ on.type = "running"
    BY EventIs
  <2>2. Keeps(m, yes)
    BY <1>c DEF Keeps
  <2> HIDE DEF yes, out, on
  <2>3. CASE Output(g, <<out, yes, on>>)
    <3> DEFINE lines == <<out, yes, on>>
    <3>1. /\ lines \in Seq(Lines) /\ Len(lines) = 3 /\ lines[2] = yes /\ lines[3] = on
          /\ lines[1] = out
      BY <1>1, <2>1
    <3> HIDE DEF lines
    <3>2. OneAnswer(lines, 2, m) /\ 2 \in 1..Len(lines)
      BY <3>1, <1>1, <2>1 DEF OneAnswer
    <3>3. Runs(g, m, lines)
      BY <3>1, <2>1, <1>c DEF Runs
    <3>4. Output(g, lines) /\ Keeps(m, lines[2])
      BY <2>3, <2>2, <3>1 DEF lines
    <3> QED
      BY <3>1, <3>2, <3>3, <3>4
  <2>4. CASE Output(g, <<yes, on>>)
    <3> DEFINE lines == <<yes, on>>
    <3>1. lines \in Seq(Lines) /\ Len(lines) = 2 /\ lines[1] = yes /\ lines[2] = on
      BY <1>1, <2>1
    <3> HIDE DEF lines
    <3>2. OneAnswer(lines, 1, m) /\ 1 \in 1..Len(lines)
      BY <3>1, <1>1, <2>1 DEF OneAnswer
    <3>3. Runs(g, m, lines)
      BY <3>1, <2>1, <1>c DEF Runs
    <3>4. Output(g, lines) /\ Keeps(m, lines[1])
      BY <2>4, <2>2, <3>1 DEF lines
    <3> QED
      BY <3>1, <3>2, <3>3, <3>4
  <2> QED
    BY <1>c, <2>3, <2>4 DEF yes, out, on
<1>d. CASE /\ m.name = "attach" /\ target[g] = "none"
           /\ target' = [target EXCEPT ![g] = "stopped"]
           /\ selected' = [selected EXCEPT ![g] = 0]
           /\ Output(g, <<yes, Event("stopped")>>)
           /\ UNCHANGED <<table, inserted>>
  <2> DEFINE halt == Event("stopped")
             lines == <<yes, halt>>
  <2>1. halt \in Lines /\ ~IsAnswer(halt)
    BY EventIs
  <2> HIDE DEF yes, halt
  <2>2. lines \in Seq(Lines) /\ Len(lines) = 2 /\ lines[1] = yes /\ lines[2] = halt
    BY <1>1, <2>1
  <2>3. Output(g, lines)
    BY <1>d DEF yes, halt
  <2> HIDE DEF lines
  <2>4. OneAnswer(lines, 1, m) /\ 1 \in 1..Len(lines)
    BY <2>1, <2>2, <1>1 DEF OneAnswer
  <2>5. Attaches(g, m) /\ Keeps(m, lines[1])
    BY <1>d, <2>2 DEF Attaches, Keeps
  <2> QED
    BY <2>2, <2>3, <2>4, <2>5
<1>e. CASE /\ m.name \in {"select", "thread"} /\ target[g] = "stopped" /\ m.arg >= 0
           /\ selected' = [selected EXCEPT ![g] = m.arg]
           /\ Output(g, <<yes>>)
           /\ UNCHANGED <<target, table, inserted>>
  <2>1. Keeps(m, yes)
    BY <1>e DEF Keeps
  <2> QED
    BY <1>e, <1>1, <2>1, <1>2
<1>f. CASE /\ m.name \in {"read", "readFrame"} /\ target[g] = "stopped" /\ m.arg >= 0
           /\ Output(g, <<[yes EXCEPT !.val = IF m.name = "read" THEN selected[g] ELSE m.arg]>>)
           /\ Idle(g)
  <2> DEFINE val == IF m.name = "read" THEN selected[g] ELSE m.arg
             r == [yes EXCEPT !.val = val]
  <2>1. val \in Nat
    BY <1>f DEF Messages, IInv, ProcessOK
  <2> HIDE DEF val
  <2>2. r \in Lines /\ IsAnswer(r) /\ r.call = m.call /\ r.step = m.step
    BY <2>1, <1>1 DEF Lines, IsAnswer
  <2>3. Keeps(m, r) /\ UNCHANGED target
    BY <1>f DEF Keeps, Idle
  <2>4. Output(g, <<r>>)
    BY <1>f DEF val
  <2> QED
    BY <2>2, <2>3, <2>4, <1>2
<1>g. CASE /\ m.name = "insert" /\ inserted[g] < MaxBps
           /\ inserted' = [inserted EXCEPT ![g] = @ + 1]
           /\ table' = [table EXCEPT ![g] = @ \cup {inserted[g] + 1}]
           /\ Output(g, <<[yes EXCEPT !.val = inserted[g] + 1]>>)
           /\ UNCHANGED <<target, selected>>
  <2> DEFINE r == [yes EXCEPT !.val = inserted[g] + 1]
  <2>1. inserted[g] + 1 \in Nat
    BY DEF IInv, ProcessOK
  <2>2. r \in Lines /\ IsAnswer(r) /\ r.call = m.call /\ r.step = m.step /\ r.val = inserted[g] + 1
    BY <2>1, <1>1 DEF Lines, IsAnswer
  <2>3. Inserts(g, m, r)
    BY <1>g, <2>2 DEF Inserts
  <2> QED
    BY <1>g, <2>2, <2>3, <1>2
<1>h. CASE /\ m.name = "delete" /\ m.arg \in table[g]
           /\ table' = [table EXCEPT ![g] = @ \ {m.arg}]
           /\ Output(g, <<yes>>)
           /\ UNCHANGED <<target, selected, inserted>>
  <2>1. Removes(g, m, yes)
    BY <1>h, <1>1 DEF Removes
  <2> QED
    BY <1>h, <1>1, <2>1, <1>2
<1>i. CASE /\ m.name = "list"
           /\ \E inFile \in SUBSET table[g] : Output(g, <<[yes EXCEPT !.list = inFile]>>)
           /\ Idle(g)
  <2>1. PICK inFile \in SUBSET table[g] : Output(g, <<[yes EXCEPT !.list = inFile]>>)
    BY <1>i
  <2> DEFINE r == [yes EXCEPT !.list = inFile]
  <2>2. inFile \in SUBSET Bps
    BY <2>1 DEF IInv, ProcessOK
  <2>3. r \in Lines /\ IsAnswer(r) /\ r.call = m.call /\ r.step = m.step
    BY <2>2, <1>1 DEF Lines, IsAnswer
  <2>4. Keeps(m, r) /\ UNCHANGED target
    BY <1>i DEF Keeps, Idle
  <2> QED
    BY <2>1, <2>3, <2>4, <1>2
<1> QED
  BY <1>a, <1>b, <1>c, <1>d, <1>e, <1>f, <1>g, <1>h, <1>i DEF Executes

LEMMA ExecutesOrder ==
    ASSUME IInv, Orderly, NEW g \in Gdbs, GdbExecutes(g)
    PROVE  Orderly'
<1> DEFINE m == Head(stdin[g])
<1>1. /\ stdin[g] # <<>> /\ Executes(g, m) /\ stdin' = [stdin EXCEPT ![g] = Tail(@)]
      /\ UNCHANGED <<call, queue, sent, chunk>>
  BY DEF GdbExecutes, channel
<1>2. stdin \in [Gdbs -> Seq(Messages)] /\ pipe \in [Gdbs -> Seq(Lines)]
  BY DEF IInv, ProcessOK
<1>3. /\ m \in Messages /\ m = stdin[g][1] /\ 1 \in 1..Len(stdin[g])
      /\ stdin'[g] = Tail(stdin[g]) /\ Len(stdin'[g]) = Len(stdin[g]) - 1
      /\ Len(stdin[g]) \in Nat
      /\ \A i \in 1..Len(stdin'[g]) : stdin'[g][i] = stdin[g][i + 1] /\ i + 1 \in 1..Len(stdin[g])
      /\ \A h \in Gdbs : h # g => stdin'[h] = stdin[h]
  BY <1>1, <1>2, TailAt
<1> HIDE DEF m
<1>0. PICK lines \in Seq(Lines) :
          \E b \in 1..Len(lines) : Output(g, lines) /\ OneAnswer(lines, b, m)
  BY <1>1, <1>3, WhatGdbDoes
<1>4. PICK a \in 1..Len(lines) : Output(g, lines) /\ OneAnswer(lines, a, m)
  BY <1>0
<1>5. pipe' = [pipe EXCEPT ![g] = @ \o lines]
  BY <1>4 DEF Output
<1>6. /\ pipe'[g] = pipe[g] \o lines /\ Len(pipe'[g]) = Len(pipe[g]) + Len(lines)
      /\ Len(pipe[g]) \in Nat /\ Len(lines) \in Nat
      /\ \A i \in 1..Len(pipe[g]) : pipe'[g][i] = pipe[g][i]
      /\ \A i \in Len(pipe[g]) + 1 .. Len(pipe'[g]) :
             pipe'[g][i] = lines[i - Len(pipe[g])] /\ i - Len(pipe[g]) \in 1..Len(lines)
      /\ \A h \in Gdbs : h # g => pipe'[h] = pipe[h]
  BY <1>2, <1>5, ConcatAt
<1>7. /\ call[m.call].from = g /\ call[m.call].step = m.step
      /\ call[m.call].st = "lost" \/ (Current(g, m.call) /\ stdin'[g] = <<>>)
  <2>1. /\ call[m.call].from = g /\ call[m.call].step = m.step
        /\ call[m.call].st = "lost" \/ (Current(g, m.call) /\ 1 = Len(stdin[g]))
    BY <1>3, CommandOf
  <2>2. Len(stdin[g]) = 1 => stdin'[g] = <<>>
    BY <1>2, <1>3
  <2> QED
    BY <2>1, <2>2
\* Before it answered a command, all it had said was to calls that are lost.
<1>8. \A i \in 1..Len(pipe[g]) : IsAnswer(pipe[g][i]) => call[pipe[g][i].call].st = "lost"
  BY <1>1 DEF Orderly, AnsweredOnce
<1>9. InChannels' /\ OneReady'
  BY <1>1 DEF Orderly, InChannels, OneReady
<1>10. Commanded'
  <2>1. ASSUME NEW h \in Gdbs, NEW i \in 1..Len(stdin'[h])
        PROVE  /\ call[stdin'[h][i].call].from = h
               /\ call[stdin'[h][i].call].step = stdin'[h][i].step
               /\ call[stdin'[h][i].call].arg = stdin'[h][i].arg
               /\ \/ call[stdin'[h][i].call].st = "lost"
                  \/ Current(h, stdin'[h][i].call) /\ i = Len(stdin'[h])
    <3>1. CASE h = g
      <4>1. stdin'[g][i] = stdin[g][i + 1] /\ i + 1 \in 1..Len(stdin[g])
        BY <1>3, <3>1
      <4>2. i + 1 = Len(stdin[g]) => i = Len(stdin'[g])
        BY <1>3, <3>1
      <4> QED
        <5>1. /\ call[stdin[g][i + 1].call].from = g
              /\ call[stdin[g][i + 1].call].step = stdin[g][i + 1].step
              /\ call[stdin[g][i + 1].call].arg = stdin[g][i + 1].arg
              /\ \/ call[stdin[g][i + 1].call].st = "lost"
                 \/ Current(g, stdin[g][i + 1].call) /\ i + 1 = Len(stdin[g])
          BY <4>1, CommandOf
        <5> QED
          BY <4>1, <4>2, <5>1, <3>1
    <3>2. CASE h # g
      <4>1. stdin'[h] = stdin[h]
        BY <1>3, <3>2
      <4> QED
        BY <4>1, CommandOf
    <3> QED
      BY <3>1, <3>2
  <2>2. \A h \in Gdbs : \A i \in 1..Len(stdin'[h]) :
            /\ call'[stdin'[h][i].call].from = h
            /\ call'[stdin'[h][i].call].step = stdin'[h][i].step
            /\ call'[stdin'[h][i].call].arg = stdin'[h][i].arg
            /\ \/ call'[stdin'[h][i].call].st = "lost"
               \/ NowCurrent(h, stdin'[h][i].call) /\ i = Len(stdin'[h])
    <3>1. call' = call /\ queue' = queue /\ sent' = sent
      BY <1>1
    <3> QED
      BY <2>1, <3>1 DEF Current, NowCurrent
  <2> QED
    BY <2>2 DEF Commanded, Current, NowCurrent
<1>11. ASSUME NEW i \in 1..Len(pipe'[g]), IsAnswer(pipe'[g][i])
       PROVE  /\ i \in 1..Len(pipe[g]) => pipe'[g][i] = pipe[g][i]
              /\ i \notin 1..Len(pipe[g]) => i = Len(pipe[g]) + a /\ pipe'[g][i] = lines[a]
  <2>1. CASE i \in 1..Len(pipe[g])
    BY <2>1, <1>6
  <2>2. CASE i \notin 1..Len(pipe[g])
    <3>1. i \in Len(pipe[g]) + 1 .. Len(pipe'[g])
      BY <2>2, <1>6
    <3>2. pipe'[g][i] = lines[i - Len(pipe[g])] /\ i - Len(pipe[g]) \in 1..Len(lines)
      BY <3>1, <1>6
    <3>3. i - Len(pipe[g]) = a
      BY <3>2, <1>11, <1>4 DEF OneAnswer
    <3> QED
      BY <3>2, <3>3, <1>6, <2>2
  <2> QED
    BY <2>1, <2>2
<1>12. AnsweredOnce'
  <2>1. ASSUME NEW h \in Gdbs, NEW i \in 1..Len(pipe'[h]), IsAnswer(pipe'[h][i])
        PROVE  /\ call[pipe'[h][i].call].from = h
               /\ call[pipe'[h][i].call].step = pipe'[h][i].step
               /\ \/ call[pipe'[h][i].call].st = "lost"
                  \/ Current(h, pipe'[h][i].call) /\ stdin'[h] = <<>>
    <3>1. CASE h # g
      <4>1. pipe'[h] = pipe[h] /\ stdin'[h] = stdin[h]
        BY <1>3, <1>6, <3>1
      <4> QED
        BY <4>1, <2>1, AnswerOf
    <3>2. CASE h = g /\ i \in 1..Len(pipe[g])
      <4>1. pipe'[h][i] = pipe[g][i]
        BY <1>6, <3>2
      <4>2. call[pipe[g][i].call].st = "lost"
        BY <4>1, <1>8, <2>1, <3>2
      <4>3. call[pipe[g][i].call].from = g /\ call[pipe[g][i].call].step = pipe[g][i].step
        BY <4>1, <2>1, <3>2, AnswerOf
      <4> QED
        BY <4>1, <4>2, <4>3, <3>2
    <3>3. CASE h = g /\ i \notin 1..Len(pipe[g])
      BY <1>11, <1>7, <1>4, <2>1, <3>3 DEF OneAnswer
    <3> QED
      BY <3>1, <3>2, <3>3
  <2>2. ASSUME NEW h \in Gdbs, NEW i \in 1..Len(pipe'[h]), NEW j \in 1..Len(pipe'[h]),
               IsAnswer(pipe'[h][i]), IsAnswer(pipe'[h][j]), pipe'[h][i].call = pipe'[h][j].call,
               call[pipe'[h][i].call].st # "lost"
        PROVE  i = j
    <3>1. CASE h # g
      <4>1. pipe'[h] = pipe[h]
        BY <1>6, <3>1
      <4> QED
        BY <4>1, <2>2, OneAnswerOf
    <3>2. CASE h = g
      \* An answer that stood there before is to a lost call: neither of the two is.
      <4>1. i \notin 1..Len(pipe[g])
        <5>1. i \in 1..Len(pipe[g]) => pipe'[g][i] = pipe[g][i]
          BY <1>6
        <5> QED
          BY <5>1, <1>8, <2>2, <3>2
      <4>2. j \notin 1..Len(pipe[g])
        <5>1. j \in 1..Len(pipe[g]) => pipe'[g][j] = pipe[g][j]
          BY <1>6
        <5> QED
          BY <5>1, <1>8, <2>2, <3>2
      <4>3. i = Len(pipe[g]) + a
        BY <4>1, <1>11, <2>2, <3>2
      <4>4. j = Len(pipe[g]) + a
        BY <4>2, <1>11, <2>2, <3>2
      <4> QED
        BY <4>3, <4>4
    <3> QED
      BY <3>1, <3>2
  <2>3. \A h \in Gdbs : \A i, j \in 1..Len(pipe'[h]) :
            /\ IsAnswer(pipe'[h][i]) /\ IsAnswer(pipe'[h][j])
            /\ pipe'[h][i].call = pipe'[h][j].call
            /\ call[pipe'[h][i].call].st # "lost"
            => i = j
    BY <2>2
  <2> QED
    BY <2>1, <2>3, <1>1 DEF AnsweredOnce, Current
<1> QED
  BY <1>9, <1>10, <1>12 DEF Orderly

\* Events go to the end of a pipe.
LEMMA EventsAt ==
    ASSUME IInv, NEW g \in Gdbs, NEW lines \in Seq(Lines), Output(g, lines)
    PROVE  /\ Len(pipe'[g]) = Len(pipe[g]) + Len(lines)
           /\ Len(pipe[g]) \in Nat /\ Len(lines) \in Nat
           /\ \A i \in 1..Len(pipe[g]) : pipe'[g][i] = pipe[g][i]
           /\ \A i \in Len(pipe[g]) + 1 .. Len(pipe'[g]) :
                  pipe'[g][i] = lines[i - Len(pipe[g])] /\ i - Len(pipe[g]) \in 1..Len(lines)
           /\ \A h \in Gdbs : h # g => pipe'[h] = pipe[h]
<1>1. pipe \in [Gdbs -> Seq(Lines)]
  BY DEF IInv, ProcessOK
<1>2. pipe'[g] = pipe[g] \o lines /\ \A h \in Gdbs : h # g => pipe'[h] = pipe[h]
  BY <1>1 DEF Output
<1> QED
  BY <1>1, <1>2, ConcatAt

\* What the halt of a program prints.
LEMMA HaltLines ==
    ASSUME NEW g \in Gdbs, DebuggeeHalts(g)
    PROVE  \E lines \in Seq(Lines) :
              Output(g, lines) /\ \A i \in 1..Len(lines) : ~IsAnswer(lines[i])
<1>1. /\ <<Event("stopped")>> \in Seq(Lines)
      /\ \A i \in 1..Len(<<Event("stopped")>>) : ~IsAnswer(<<Event("stopped")>>[i])
  BY EventIs
<1>2. /\ <<Event("exited"), Event("stopped")>> \in Seq(Lines)
      /\ \A i \in 1..Len(<<Event("exited"), Event("stopped")>>) :
             ~IsAnswer(<<Event("exited"), Event("stopped")>>[i])
  BY EventIs
<1> QED
  BY <1>1, <1>2 DEF DebuggeeHalts

LEMMA HaltsOrder ==
    ASSUME IInv, Orderly, NEW g \in Gdbs, DebuggeeHalts(g)
    PROVE  Orderly'
<1>1. UNCHANGED <<call, queue, sent, chunk, stdin>>
  BY DEF DebuggeeHalts, channel
<1>2. PICK lines \in Seq(Lines) :
          Output(g, lines) /\ \A i \in 1..Len(lines) : ~IsAnswer(lines[i])
  BY HaltLines
<1>3. /\ Len(pipe'[g]) = Len(pipe[g]) + Len(lines)
      /\ Len(pipe[g]) \in Nat /\ Len(lines) \in Nat
      /\ \A i \in 1..Len(pipe[g]) : pipe'[g][i] = pipe[g][i]
      /\ \A i \in Len(pipe[g]) + 1 .. Len(pipe'[g]) :
             pipe'[g][i] = lines[i - Len(pipe[g])] /\ i - Len(pipe[g]) \in 1..Len(lines)
      /\ \A h \in Gdbs : h # g => pipe'[h] = pipe[h]
  BY <1>2, EventsAt
<1>4. ASSUME NEW h \in Gdbs, NEW i \in 1..Len(pipe'[h]), IsAnswer(pipe'[h][i])
      PROVE  i \in 1..Len(pipe[h]) /\ pipe'[h][i] = pipe[h][i]
  <2>1. CASE h # g
    BY <2>1, <1>3, <1>4
  <2>2. CASE h = g
    <3>1. i \in Len(pipe[g]) + 1 .. Len(pipe'[g]) \/ i \in 1..Len(pipe[g])
      BY <2>2, <1>3
    <3> QED
      BY <3>1, <2>2, <1>2, <1>3, <1>4
  <2> QED
    BY <2>1, <2>2
<1>5. InChannels' /\ OneReady' /\ Commanded'
  BY <1>1 DEF Orderly, InChannels, OneReady, Commanded, Current
<1>6. AnsweredOnce'
  <2>1. \A h \in Gdbs : \A i \in 1..Len(pipe'[h]) : IsAnswer(pipe'[h][i]) =>
            /\ call[pipe'[h][i].call].from = h
            /\ call[pipe'[h][i].call].step = pipe'[h][i].step
            /\ \/ call[pipe'[h][i].call].st = "lost"
               \/ Current(h, pipe'[h][i].call) /\ stdin[h] = <<>>
    BY <1>4, AnswerOf
  <2>2. \A h \in Gdbs : \A i, j \in 1..Len(pipe'[h]) :
            /\ IsAnswer(pipe'[h][i]) /\ IsAnswer(pipe'[h][j])
            /\ pipe'[h][i].call = pipe'[h][j].call
            /\ call[pipe'[h][i].call].st # "lost"
            => i = j
    BY <1>4, OneAnswerOf
  <2> QED
    BY <2>1, <2>2, <1>1 DEF AnsweredOnce, Current
<1> QED
  BY <1>5, <1>6 DEF Orderly

LEMMA DiesOrder ==
    ASSUME IInv, Orderly, NEW g \in Gdbs, GdbDies(g)
    PROVE  Orderly'
<1>1. UNCHANGED <<call, queue, sent, chunk, pipe>> /\ stdin' = [stdin EXCEPT ![g] = <<>>]
  BY DEF GdbDies, channel
<1>2. /\ stdin'[g] = <<>> /\ \A h \in Gdbs : h # g => stdin'[h] = stdin[h]
  BY <1>1 DEF IInv, ProcessOK
<1>3. InChannels' /\ OneReady'
  BY <1>1 DEF Orderly, InChannels, OneReady
<1>4. Commanded'
  BY <1>1, <1>2 DEF Orderly, Commanded, Current
<1>5. AnsweredOnce'
  BY <1>1, <1>2 DEF Orderly, AnsweredOnce, Current
<1> QED
  BY <1>3, <1>4, <1>5 DEF Orderly

-----------------------------------------------------------------------------
(* The bookkeeping of breakpoints. *)

\* Which commands delete, and which operations are one command long.
LEMMA ScriptSteps ==
    /\ \A op \in DOMAIN Script : \A s \in 1..Len(Script[op]) :
           Script[op][s] = "delete" <=>
               op = "removeBreakpoint" \/ (op = "removeAll" /\ s = 2)
    /\ \A op \in {"initialize", "setBreakpoint", "removeBreakpoint"} :
           op \in DOMAIN Script /\ Len(Script[op]) = 1
<1>1. /\ Script["initialize"] = <<"init">> /\ Script["launch"] = <<"file", "insert">>
      /\ Script["attach"] = <<"attach">> /\ Script["start"] = <<"run">>
      /\ Script["restart"] = <<"run">> /\ Script["continue"] = <<"continue">>
      /\ Script["until"] = <<"tinsert", "continue">> /\ Script["pause"] = <<"interrupt">>
  BY DEF Script
<1>2. /\ Script["selectFrame"] = <<"select">> /\ Script["switchThread"] = <<"thread">>
      /\ Script["locals"] = <<"read">> /\ Script["evaluate"] = <<"select", "read">>
      /\ Script["arguments"] = <<"select", "readFrame">>
      /\ Script["setBreakpoint"] = <<"insert">>
      /\ Script["removeBreakpoint"] = <<"delete">>
      /\ Script["removeAll"] = <<"list", "delete">>
  BY DEF Script
<1>3. ASSUME NEW op \in {"initialize", "launch", "attach", "start", "restart", "continue",
                         "until", "pause"}, NEW s \in 1..Len(Script[op])
      PROVE  Script[op][s] # "delete"
  BY <1>1, <1>3
<1>4. ASSUME NEW op \in {"selectFrame", "switchThread", "locals", "evaluate", "arguments",
                         "setBreakpoint"}, NEW s \in 1..Len(Script[op])
      PROVE  Script[op][s] # "delete"
  BY <1>2, <1>4
<1>5. \A s \in 1..Len(Script["removeBreakpoint"]) : Script["removeBreakpoint"][s] = "delete"
  BY <1>2
<1>6. \A s \in 1..Len(Script["removeAll"]) : Script["removeAll"][s] = "delete" <=> s = 2
  BY <1>2
<1>7. \A op \in {"initialize", "setBreakpoint", "removeBreakpoint"} :
          op \in DOMAIN Script /\ Len(Script[op]) = 1
  <2>1. /\ Len(Script["initialize"]) = 1 /\ Len(Script["setBreakpoint"]) = 1
        /\ Len(Script["removeBreakpoint"]) = 1
    BY <1>1, <1>2
  <2> QED
    BY <2>1, ScriptType
<1>8. ASSUME NEW op \in DOMAIN Script, NEW s \in 1..Len(Script[op])
      PROVE  Script[op][s] = "delete" <=>
                 op = "removeBreakpoint" \/ (op = "removeAll" /\ s = 2)
  <2>1. CASE op \in {"initialize", "launch", "attach", "start", "restart", "continue",
                     "until", "pause"}
    BY <2>1, <1>3
  <2>2. CASE op \in {"selectFrame", "switchThread", "locals", "evaluate", "arguments",
                     "setBreakpoint"}
    BY <2>2, <1>4
  <2>3. CASE op = "removeBreakpoint"
    BY <2>3, <1>5
  <2>4. CASE op = "removeAll"
    BY <2>4, <1>6
  <2> QED
    BY <2>1, <2>2, <2>3, <2>4, ScriptType
<1> QED
  BY <1>7, <1>8

\* A command of GDB's deletes just when its call does.
LEMMA DeleteCommands ==
    ASSUME IInv, Orderly, NEW g \in Gdbs, NEW i \in 1..Len(stdin[g])
    PROVE  /\ stdin[g][i] \in GoodCommands
           /\ stdin[g][i].name = "delete" <=> Deleting(call[stdin[g][i].call])
<1> DEFINE m == stdin[g][i]
<1>1. m \in GoodCommands /\ m \in Messages
  BY DEF IInv, Honest, ProcessOK
<1>2. m.call \in 1..made
  BY <1>1, CommandNames
<1>3. Named(call[m.call]) /\ call[m.call].step = m.step
  BY <1>2, CommandOf DEF IInv, Honest
<1>4. m.name = Script[call[m.call].op][m.step]
  BY <1>1 DEF GoodCommands
<1>5. m.name = "delete" <=> Deleting(call[m.call])
  BY <1>3, <1>4, ScriptSteps DEF Named, Deleting
<1> QED
  BY <1>1, <1>5

\* A call that was made is one of the first.
LEMMA MadeCalls ==
    ASSUME IInv, NEW n \in Calls, call[n].op # "none"
    PROVE  n \in 1..made /\ Named(call[n])
<1>1. ~(n > made) /\ n \in Nat /\ n >= 1 /\ made \in Nat
  BY ConstantsAssumption DEF IInv, Honest, NoCall, Calls, ChannelOK
<1> QED
  BY <1>1 DEF IInv, Honest

LEMMA InitBookkept == Init => Bookkept
<1> SUFFICES ASSUME Init PROVE Bookkept
  OBVIOUS
<1> USE DEF Init
<1>1. \A n \in Calls : call[n].op = "none" /\ call[n].st = "none"
  BY DEF NoCall
<1>2. Orderly
  BY <1>1 DEF Orderly, InChannels, Commanded, AnsweredOnce, OneReady
<1>3. ListedIsHeld /\ DeletedIsSpent /\ Numbered
  BY <1>1 DEF ListedIsHeld, DeletedIsSpent, Numbered
<1>4. OthersAreEarlier /\ UnusedIsIdle
  BY DEF OthersAreEarlier, UnusedIsIdle
<1>5. SetBreakpointsListed
  BY <1>1 DEF SetBreakpointsListed
<1> QED
  BY <1>2, <1>3, <1>4, <1>5 DEF Bookkept

\* What the list says of GDB is as before when GDB has not moved and no deletion
\* has come further than to wait.
LEMMA HasStays ==
    ASSUME UNCHANGED <<table, pipe>>,
           \A n \in Calls : Deleting(call[n]) => call'[n] = call[n],
           NEW id, NEW g, Has(id, g)
    PROVE  Has(id, g)'
BY DEF Has, Deleted, AtWork, Done

\* A call begins on the GDB of the moment.
LEMMA BeginKept ==
    ASSUME IInv, Bookkept, NEW op, NEW d, Begun(op, d),
           UNCHANGED <<stdin, pipe, table, inserted>>, breakpoints' = breakpoints
    PROVE  Orderly' /\ ListedIsHeld' /\ Numbered' /\ DeletedIsSpent'
<1>0. PICK n : n = made + 1
  OBVIOUS
<1>1. /\ n \in Calls /\ made' = n /\ call[n].op = "none" /\ call[n].st = "none"
      /\ call'[n] = d /\ UNCHANGED <<sent, killed, chunk>>
      /\ \A k \in Calls : k # n => call'[k] = call[k]
  BY <1>0, BegunIs
<1>2. /\ d \in CallRecords /\ d.from \in Gdbs /\ d.st \in {"starting", "waiting"}
      /\ call' = [call EXCEPT ![n] = d]
      /\ \/ queue' = queue
         \/ /\ d.st = "waiting"
            /\ queue' = [queue EXCEPT ![d.from] = Append(@, n)]
  BY <1>0 DEF Begun
<1>3. Orderly'
  BY <1>1, <1>2, StatusStep DEF Bookkept
<1>4. \A k \in Calls : Deleting(call[k]) => call'[k] = call[k]
  BY <1>1, <1>2 DEF Deleting
<1>5. \A h \in Gdbs : \A i \in 1..Len(pipe[h]) : IsAnswer(pipe[h][i]) =>
          call'[pipe[h][i].call] = call[pipe[h][i].call]
  <2> SUFFICES ASSUME NEW h \in Gdbs, NEW i \in 1..Len(pipe[h]), IsAnswer(pipe[h][i])
               PROVE  call'[pipe[h][i].call] = call[pipe[h][i].call]
    OBVIOUS
  <2>1. pipe[h][i].call \in Calls
    BY AnswerCalls
  <2>2. pipe[h][i].call # n
    BY <1>1, UnderWay DEF Bookkept
  <2> QED
    BY <2>1, <2>2, <1>1
<1>6. ListedIsHeld'
  <2>1. \A b \in breakpoints' : Has(b.id, b.from)'
    BY <1>4, HasStays DEF Bookkept, ListedIsHeld
  <2>2. ASSUME NEW k \in Calls, call'[k].op = "setBreakpoint", call'[k].st = "ready"
        PROVE  call'[k] = call[k] /\ Has(call[k].val, call[k].from)'
    <3>1. call'[k] = call[k]
      BY <2>2, <1>1, <1>2
    <3> QED
      BY <3>1, <2>2, <1>4, HasStays DEF Bookkept, ListedIsHeld
  <2>3. \A k \in Calls : call'[k].op = "setBreakpoint" /\ call'[k].st = "ready" =>
            Has(call[k].val, call[k].from)' /\ call'[k] = call[k]
    BY <2>2
  <2> QED
    BY <2>1, <2>3, <1>5 DEF Bookkept, ListedIsHeld, Has, Deleted, AtWork, Done
<1>7. Numbered' /\ DeletedIsSpent'
  BY <1>1, <1>2, <1>5 DEF Bookkept, Numbered, DeletedIsSpent, Deleting, Spent
<1> QED
  BY <1>3, <1>6, <1>7

\* The removals that are older than the present GDB stay so.
LEMMA EarlierStays ==
    ASSUME mi2' = mi2,
           \A n \in Calls : /\ call[n].op # "none" => call'[n].op = call[n].op
                            /\ call[n].op = "initialize" => call'[n].from = call[n].from
    PROVE  Earlier \subseteq Earlier'
BY DEF Earlier, Removals

LEMMA UseKept ==
    ASSUME IInv, Bookkept, NEW op, NEW arg \in Int, Use(op, arg), UNCHANGED <<mi2, breakpoints>>
    PROVE  Bookkept'
<1>1. /\ mi2 \in Gdbs /\ mi2 # 0 /\ UNCHANGED <<gdb, stdin, pipe, table, inserted>>
      /\ \E d \in CallRecords : Begun(op, d) /\ d.st = "waiting" /\ d.from = mi2
  BY UseIs DEF process
<1>2. PICK d \in CallRecords : Begun(op, d) /\ d.st = "waiting" /\ d.from = mi2
  BY <1>1
<1>3. Orderly' /\ ListedIsHeld' /\ Numbered' /\ DeletedIsSpent'
  BY <1>1, <1>2, BeginKept
<1>4. PICK n : n = made + 1
  OBVIOUS
<1>5. /\ n \in Calls /\ made' = n /\ made \in Nat /\ n = made + 1
      /\ call[n].op = "none" /\ call'[n] = d
      /\ \A k \in Calls : k # n => call'[k] = call[k]
      /\ \A k \in 1..made : k \in Calls /\ k # n /\ call'[k] = call[k]
      /\ \A k \in 1..made' : k = n \/ k \in 1..made
  BY <1>2, <1>4, BegunIs
<1>7. OthersAreEarlier'
  <2>1. PICK i \in Calls : /\ call[i].op = "initialize" /\ call[i].from = mi2
                           /\ \A k \in 1..made : call[k].from # mi2 => k < i
    BY <1>1 DEF Bookkept, OthersAreEarlier
  <2>2. call'[i] = call[i]
    BY <2>1, <1>5
  <2> QED
    BY <2>1, <2>2, <1>2, <1>5 DEF OthersAreEarlier
<1>8. UnusedIsIdle'
  BY <1>1, <1>2, <1>5 DEF Bookkept, UnusedIsIdle
<1>9. SetBreakpointsListed'
  <2>1. Earlier \subseteq Earlier'
    BY <1>5, EarlierStays
  <2>2. \A m \in Earlier : call'[m] = call[m]
    BY <1>5 DEF Earlier, Removals
  <2>3. ASSUME NEW k \in Calls, call'[k].op = "setBreakpoint", call'[k].st = "done"
        PROVE  call'[k] = call[k]
    BY <2>3, <1>2, <1>5
  <2> QED
    BY <2>1, <2>2, <2>3, <1>1 DEF Bookkept, SetBreakpointsListed
<1> QED
  BY <1>3, <1>7, <1>8, <1>9 DEF Bookkept

LEMMA InitializeKept ==
    ASSUME IInv, Bookkept, Initialize
    PROVE  Bookkept'
<1>1. PICK g \in Gdbs :
        /\ gdb[g] = "unused" /\ mi2' = g /\ gdb' = [gdb EXCEPT ![g] = "alive"]
        /\ UNCHANGED <<running, currentFrameId, breakpoints, exitSeen, stdin,
                       pipe, target, selected, table, inserted>>
        /\ \E d \in CallRecords : Begun("initialize", d) /\ d.st = "starting" /\ d.from = g
  BY InitializeIs
<1>2. PICK d \in CallRecords : Begun("initialize", d) /\ d.st = "starting" /\ d.from = g
  BY <1>1
<1>3. Orderly' /\ ListedIsHeld' /\ Numbered' /\ DeletedIsSpent'
  BY <1>1, <1>2, BeginKept
<1>4. d.op = "initialize" /\ d.st = "starting" /\ d.from = g
  BY <1>2 DEF Begun
<1>5. PICK n : n = made + 1
  OBVIOUS
<1>6. /\ n \in Calls /\ made' = n /\ made \in Nat
      /\ call[n].op = "none" /\ call'[n] = d
      /\ \A k \in Calls : k # n => call'[k] = call[k]
      /\ \A k \in 1..made : k \in Calls /\ k # n /\ call'[k] = call[k]
      /\ \A k \in 1..made' : k = n \/ (k \in 1..made /\ k < n)
  BY <1>2, <1>5, BegunIs
<1>7. OthersAreEarlier'
  BY <1>1, <1>4, <1>6 DEF OthersAreEarlier
<1>8. gdb'[g] = "alive" /\ \A h \in Gdbs : h # g => gdb'[h] = gdb[h]
  BY <1>1 DEF IInv, ProcessOK
<1>9. UnusedIsIdle'
  <2>1. ASSUME NEW k \in 1..made' PROVE gdb'[call'[k].from] # "unused"
    <3>1. CASE k = n
      BY <3>1, <1>4, <1>6, <1>8
    <3>2. CASE k \in 1..made
      <4>1. call'[k] = call[k] /\ call[k].from \in Gdbs /\ gdb[call[k].from] # "unused"
        BY <3>2, <1>6 DEF Bookkept, UnusedIsIdle, IInv, Honest, Named
      <4> QED
        BY <4>1, <1>1, <1>8
    <3> QED
      BY <2>1, <1>6, <3>1, <3>2
  <2> QED
    BY <2>1, <1>1, <1>8 DEF Bookkept, UnusedIsIdle
<1>10. SetBreakpointsListed'
\* no call was made on the new GDB before
  <2>1. ASSUME NEW k \in Calls, call'[k].op = "setBreakpoint", call'[k].from = g
        PROVE  FALSE
    <3>1. call'[k] = call[k]
      BY <2>1, <1>4, <1>6
    <3>2. k \in 1..made
      BY <2>1, <3>1, MadeCalls
    <3> QED
      BY <2>1, <3>1, <3>2, <1>1 DEF Bookkept, UnusedIsIdle
  <2> QED
    BY <2>1, <1>1 DEF SetBreakpointsListed
<1> QED
  BY <1>3, <1>7, <1>9, <1>10 DEF Bookkept

LEMMA TerminateKept ==
    ASSUME IInv, Bookkept, Terminate
    PROVE  Bookkept'
<1>1. /\ mi2' = 0 /\ breakpoints' = {} /\ UNCHANGED <<made, call, queue, sent, chunk>>
      /\ UNCHANGED <<gdb, stdin, pipe, table, inserted>>
  BY DEF Terminate, channel, process
<1>2. Orderly'
  BY <1>1 DEF Bookkept, Orderly, InChannels, Commanded, AnsweredOnce, OneReady, Current
<1>3. ListedIsHeld'
  BY <1>1 DEF Bookkept, ListedIsHeld, Has, Deleted, AtWork, Done
<1>4. Numbered' /\ DeletedIsSpent' /\ OthersAreEarlier' /\ UnusedIsIdle'
  BY <1>1 DEF Bookkept, Numbered, DeletedIsSpent, OthersAreEarlier, UnusedIsIdle, Spent
<1>5. SetBreakpointsListed'
  <2>1. ASSUME NEW n \in Calls, call[n].op = "setBreakpoint" PROVE call[n].from # 0
    BY <2>1, MadeCalls, FrameInt DEF Named, Gdbs
  <2> QED
    BY <2>1, <1>1 DEF SetBreakpointsListed
<1> QED
  BY <1>2, <1>3, <1>4, <1>5 DEF Bookkept

LEMMA OperationsKept ==
    ASSUME IInv, Bookkept, Operation
    PROVE  Bookkept'
<1>1. ASSUME NEW f \in Frames, SelectFrame(f) PROVE Bookkept'
  <2>1. Use("selectFrame", f) /\ UNCHANGED <<mi2, breakpoints>> /\ f \in Int
    BY <1>1, FrameInt DEF SelectFrame
  <2> QED
    BY <2>1, UseKept
<1>2. CASE Initialize \/ Terminate
  BY <1>2, InitializeKept, TerminateKept
<1>3. CASE Plain
  <2>1. PICK op : Use(op, 0)
    BY <1>3 DEF Plain
  <2>2. UNCHANGED <<mi2, breakpoints>>
    BY <1>3 DEF Plain, fields
  <2> QED
    BY <2>1, <2>2, UseKept
<1>4. CASE Continue
  <2>1. Use("continue", 0) /\ UNCHANGED <<mi2, breakpoints>>
    BY <1>4 DEF Continue
  <2> QED
    BY <2>1, UseKept
<1>5. CASE FrameUp
  <2>1. currentFrameId + 1 \in Frames
    BY <1>5, ConstantsAssumption DEF FrameUp, IInv, FieldsOK, Frames
  <2> QED
    BY <1>1, <1>5, <2>1 DEF FrameUp
<1>6. CASE FrameDown
  <2>1. currentFrameId - 1 \in Frames
    BY <1>6, ConstantsAssumption DEF FrameDown, IInv, FieldsOK, Frames
  <2> QED
    BY <1>1, <1>6, <2>1 DEF FrameDown
<1>7. CASE GotoFrame
  BY <1>1, <1>7 DEF GotoFrame
<1>8. CASE Inspect
  <2>1. PICK op \in {"evaluate", "arguments"}, f \in Frames : Use(op, f)
    BY <1>8 DEF Inspect
  <2>2. UNCHANGED <<mi2, breakpoints>> /\ f \in Int
    BY <1>8, FrameInt DEF Inspect, fields
  <2> QED
    BY <2>1, <2>2, UseKept
<1>9. CASE RemoveBreakpoint
  <2>1. PICK b \in Bps : Use("removeBreakpoint", b)
    BY <1>9 DEF RemoveBreakpoint
  <2>2. UNCHANGED <<mi2, breakpoints>> /\ b \in Int
    BY <1>9, FrameInt DEF RemoveBreakpoint, fields
  <2> QED
    BY <2>1, <2>2, UseKept
<1> QED
  BY <1>2, <1>3, <1>4, <1>5, <1>6, <1>7, <1>8, <1>9 DEF Operation

\* An operation resumes: it sends its next command or it is over.
Resumed(n, d) ==
    /\ call' = [call EXCEPT ![n] = d] /\ call'[n] = d
    /\ \A k \in Calls : k # n => call'[k] = call[k]
    /\ d \in CallRecords /\ d.op = call[n].op /\ d.val = call[n].val
    /\ d.early = call[n].early
    /\ \/ /\ Left(call[n]) /\ mi2 \in Gdbs /\ d.st = "waiting" /\ d.from = mi2
          /\ queue' = [queue EXCEPT ![d.from] = Append(@, n)]
       \/ /\ d.st = IF Left(call[n]) THEN "failed" ELSE "done"
          /\ d.from = call[n].from /\ d.arg = call[n].arg /\ UNCHANGED queue

LEMMA ResumeIs ==
    ASSUME IInv, NEW n \in Calls, Resume(n)
    PROVE  /\ \E d \in CallRecords : Resumed(n, d)
           /\ call[n].st = "ready" /\ call[n] \in CallRecords /\ n \in 1..made
           /\ Named(call[n]) /\ CallOK(call[n]) /\ Effect(call[n]) /\ mi2' = mi2
           /\ UNCHANGED <<made, sent, chunk, gdb, stdin, pipe, table, inserted>>
<1> DEFINE c == call[n]
<1>1. /\ c.st = "ready" /\ Effect(c)
      /\ UNCHANGED <<made, sent, chunk, gdb, stdin, pipe, table, inserted>>
  BY DEF Resume, process
<1>2. c \in CallRecords /\ call \in [Calls -> CallRecords]
  BY DEF IInv, ChannelOK
<1>3. n \in 1..made
  <2>1. ~(n > made) /\ n \in Nat /\ made \in Nat /\ n >= 1
    BY <1>1, ConstantsAssumption DEF IInv, Honest, NoCall, ChannelOK, Calls
  <2> QED
    BY <2>1
<1>4. Named(c) /\ CallOK(c)
  BY <1>3 DEF IInv, Honest
<1>5. mi2' = mi2
  <2>1. CASE c.op \in {"initialize", "start"}
    BY <1>1, <2>1 DEF Effect
  <2>2. CASE c.op \in {"switchThread", "setBreakpoint", "removeBreakpoint"}
    BY <1>1, <2>2 DEF Effect
  <2>3. CASE c.op = "removeAll"
    BY <1>1, <2>3 DEF Effect, fields
  <2>4. CASE c.op \notin {"initialize", "start", "switchThread", "setBreakpoint",
                          "removeBreakpoint", "removeAll"}
    BY <1>1, <2>4 DEF Effect, fields
  <2> QED
    BY <2>1, <2>2, <2>3, <2>4
<1>a. CASE Left(c) /\ mi2 # 0
  <2> DEFINE d == [[Advance(c) EXCEPT !.from = mi2] EXCEPT !.st = "waiting"]
  <2>1. Enqueue(n, [Advance(c) EXCEPT !.from = mi2])
    BY <1>a DEF Resume
  <2>2. mi2 \in Gdbs
    BY <1>a DEF IInv, FieldsOK
  <2>3. Advance(c) \in CallRecords /\ Advance(c).op = c.op
    BY <1>2, <1>4, <1>a, AdvanceStep
  <2>4. Advance(c).val = c.val /\ Advance(c).early = c.early
    BY <1>2 DEF Advance, CallRecords
  <2>5. [Advance(c) EXCEPT !.from = mi2].from = mi2
    BY <2>3 DEF CallRecords
  <2>6. /\ d \in CallRecords /\ d.op = c.op /\ d.val = c.val /\ d.early = c.early
        /\ d.from = mi2 /\ d.st = "waiting"
    BY <2>2, <2>3, <2>4 DEF CallRecords
  <2>7. call' = [call EXCEPT ![n] = d] /\ queue' = [queue EXCEPT ![mi2] = Append(@, n)]
    BY <2>1, <2>5 DEF Enqueue
  <2> HIDE DEF d
  <2>8. call'[n] = d /\ \A k \in Calls : k # n => call'[k] = call[k]
    BY <2>7, <1>2
  <2>9. Resumed(n, d)
    BY <1>a, <2>2, <2>6, <2>7, <2>8 DEF Resumed
  <2> QED
    BY <2>6, <2>9, <1>1, <1>2, <1>3, <1>4, <1>5
<1>b. CASE ~(Left(c) /\ mi2 # 0)
  <2> DEFINE d == [c EXCEPT !.st = IF Left(c) THEN "failed" ELSE "done"]
  <2>1. call' = [call EXCEPT ![n] = d] /\ UNCHANGED queue
    BY <1>b DEF Resume, IInv, ChannelOK
  <2>2. /\ d \in CallRecords /\ d.op = c.op /\ d.arg = c.arg
        /\ d.val = c.val /\ d.from = c.from /\ d.early = c.early
        /\ d.st = (IF Left(c) THEN "failed" ELSE "done")
    BY <1>2 DEF CallRecords
  <2> HIDE DEF d
  <2>3. call'[n] = d /\ \A k \in Calls : k # n => call'[k] = call[k]
    BY <2>1, <1>2
  <2>4. Resumed(n, d)
    BY <2>1, <2>2, <2>3 DEF Resumed
  <2> QED
    BY <2>2, <2>4, <1>1, <1>2, <1>3, <1>4, <1>5
<1> QED
  BY <1>a, <1>b

LEMMA ResumeKept ==
    ASSUME IInv, Bookkept, NEW n \in Calls, Resume(n)
    PROVE  Bookkept'
<1> DEFINE c == call[n]
<1>1. /\ c.st = "ready" /\ c \in CallRecords /\ n \in 1..made
      /\ Named(c) /\ CallOK(c) /\ Effect(c) /\ mi2' = mi2
      /\ UNCHANGED <<made, sent, chunk, gdb, stdin, pipe, table, inserted>>
  BY ResumeIs
<1>2. PICK d \in CallRecords : Resumed(n, d)
  BY ResumeIs
<1>3. /\ call' = [call EXCEPT ![n] = d] /\ call'[n] = d
      /\ \A k \in Calls : k # n => call'[k] = call[k]
      /\ d.op = c.op /\ d.val = c.val /\ d.st \in {"waiting", "failed", "done"}
      /\ d.st = "done" => ~Left(c) /\ d.from = c.from
      /\ \/ d.from = mi2 /\ mi2 \in Gdbs
         \/ d.from = c.from /\ d.arg = c.arg
  BY <1>2 DEF Resumed
\* the operations of one command
<1>4. c.op \in {"initialize", "setBreakpoint", "removeBreakpoint"} =>
          d.from = c.from /\ d.arg = c.arg
  <2>1. c.op \in {"initialize", "setBreakpoint", "removeBreakpoint"} => ~Left(c)
    BY <1>1, ScriptSteps DEF Named, Left
  <2> QED
    BY <2>1, <1>2 DEF Resumed
<1>5. Orderly'
  <2>1. \/ UNCHANGED queue
        \/ /\ d.st = "waiting" /\ d.from \in Gdbs
           /\ queue' = [queue EXCEPT ![d.from] = Append(@, n)]
    BY <1>2 DEF Resumed
  <2> QED
    BY <2>1, <1>1, <1>3, StatusStep DEF Bookkept
<1>6. \A k \in Calls : call[k].st = "ready" => k = n
  BY <1>1 DEF Bookkept, Orderly, OneReady
<1>7. \A k \in Calls : call'[k].st # "ready"
  BY <1>3, <1>6
<1>8. \A h \in Gdbs : \A i \in 1..Len(pipe[h]) : IsAnswer(pipe[h][i]) =>
          call'[pipe[h][i].call] = call[pipe[h][i].call]
  <2> SUFFICES ASSUME NEW h \in Gdbs, NEW i \in 1..Len(pipe[h]), IsAnswer(pipe[h][i])
               PROVE  call'[pipe[h][i].call] = call[pipe[h][i].call]
    OBVIOUS
  <2>1. pipe[h][i] \in GoodLines
    BY DEF IInv, Honest
  <2>2. pipe[h][i].call \in Calls
    BY <2>1, ConstantsAssumption DEF GoodLines, IsAnswer, IInv, ChannelOK, Calls
  <2>3. pipe[h][i].call # n
    BY <1>1, UnderWay DEF Bookkept
  <2> QED
    BY <2>2, <2>3, <1>3
\* what the list had stays good, but for a number that this call has just deleted
<1>9. ASSUME NEW id, NEW g, Has(id, g), ~(Deleting(c) /\ c.arg = id)
      PROVE  Has(id, g)'
  <2>1. CASE id \in table[g]
    BY <2>1, <1>1 DEF Has
  <2>2. CASE Deleted(id, g)
    <3>1. PICK k \in Calls :
             /\ Deleting(call[k]) /\ call[k].arg = id /\ call[k].from = g
             /\ call[k].st \in {"ready", "lost"} \/ (call[k].st = "waiting" /\ Done(k, g))
      BY <2>2 DEF Deleted, AtWork
    <3>2. k # n
      BY <3>1, <1>9
    <3>3. call'[k] = call[k] /\ pipe' = pipe
      BY <3>2, <1>3, <1>1
    <3> QED
      BY <3>1, <3>3 DEF Has, Deleted, AtWork, Done
  <2> QED
    BY <1>9, <2>1, <2>2 DEF Has
\* what the list becomes
<1>10. /\ c.op = "setBreakpoint" =>
              breakpoints' = Forget(c.val) \cup {[id |-> c.val, from |-> c.from]}
       /\ Deleting(c) => breakpoints' = Forget(c.arg)
       /\ c.op # "setBreakpoint" /\ ~Deleting(c) => breakpoints' = breakpoints
  <2>1. CASE c.op \in {"initialize", "start"}
    BY <1>1, <2>1 DEF Effect, Deleting
  <2>2. CASE c.op \in {"switchThread", "setBreakpoint", "removeBreakpoint"}
    BY <1>1, <2>2 DEF Effect, Deleting, Listed
  <2>3. CASE c.op = "removeAll"
    BY <1>1, <2>3 DEF Effect, Deleting, fields
  <2>4. CASE c.op \notin {"initialize", "start", "switchThread", "setBreakpoint",
                          "removeBreakpoint", "removeAll"}
    BY <1>1, <2>4 DEF Effect, Deleting, fields
  <2> QED
    BY <2>1, <2>2, <2>3, <2>4
<1>11. ListedIsHeld'
  <2>1. ASSUME NEW b \in breakpoints' PROVE Has(b.id, b.from)'
    <3>1. CASE c.op = "setBreakpoint"
      <4>1. ~Deleting(c)
        BY <3>1 DEF Deleting
      <4>2. b \in breakpoints \/ b = [id |-> c.val, from |-> c.from]
        BY <2>1, <3>1, <1>10 DEF Forget
      <4>3. Has(b.id, b.from)
        BY <4>2, <3>1, <1>1 DEF Bookkept, ListedIsHeld
      <4> QED
        BY <4>1, <4>3, <1>9
    <3>2. CASE c.op # "setBreakpoint"
      <4>1. b \in breakpoints /\ ~(Deleting(c) /\ c.arg = b.id)
        BY <2>1, <3>2, <1>10 DEF Forget
      <4> QED
        BY <4>1, <1>9 DEF Bookkept, ListedIsHeld
    <3> QED
      BY <3>1, <3>2
  <2> QED
    BY <2>1, <1>1, <1>7, <1>8 DEF Bookkept, ListedIsHeld
<1>12. Numbered'
  <2>1. ASSUME NEW k \in Calls, call'[k].op = "setBreakpoint", call'[k].st \in {"ready", "done"}
        PROVE  call'[k].val <= inserted[call'[k].from]
    <3>1. CASE k = n
      <4>1. d.st = "done" /\ d.from = c.from /\ d.val = c.val /\ c.op = "setBreakpoint"
        BY <2>1, <3>1, <1>3
      <4> QED
        BY <4>1, <3>1, <1>1, <1>3 DEF Bookkept, Numbered
    <3>2. CASE k # n
      BY <2>1, <3>2, <1>3 DEF Bookkept, Numbered
    <3> QED
      BY <3>1, <3>2
  <2> QED
    BY <2>1, <1>1 DEF Bookkept, Numbered
<1>13. DeletedIsSpent'
  BY <1>1, <1>7, <1>8 DEF Bookkept, DeletedIsSpent, Spent
<1>14. OthersAreEarlier'
  <2>1. CASE mi2 # 0
    <3>1. PICK i \in Calls : /\ call[i].op = "initialize" /\ call[i].from = mi2
                             /\ \A k \in 1..made : call[k].from # mi2 => k < i
      BY <2>1 DEF Bookkept, OthersAreEarlier
    <3>2. call'[i].op = "initialize" /\ call'[i].from = mi2
      BY <3>1, <1>3, <1>4
    <3>3. \A k \in 1..made : k \in Calls /\ (call'[k].from # mi2 => call[k].from # mi2)
      <4>1. \A k \in 1..made : k \in Calls
        BY ConstantsAssumption DEF IInv, ChannelOK, Calls
      <4> QED
        BY <4>1, <1>3
    <3> QED
      BY <3>1, <3>2, <3>3, <1>1 DEF OthersAreEarlier
  <2> QED
    BY <2>1, <1>1 DEF OthersAreEarlier
<1>15. UnusedIsIdle'
  <2>1. \A k \in 1..made : k \in Calls
    BY ConstantsAssumption DEF IInv, ChannelOK, Calls
  <2>2. ASSUME NEW k \in 1..made PROVE gdb[call'[k].from] # "unused"
    <3>1. CASE k = n /\ d.from = mi2 /\ mi2 \in Gdbs
      BY <3>1, <1>3, FrameInt DEF Bookkept, UnusedIsIdle, Gdbs
    <3>2. CASE ~(k = n /\ d.from = mi2 /\ mi2 \in Gdbs)
      BY <3>2, <2>1, <2>2, <1>3 DEF Bookkept, UnusedIsIdle
    <3> QED
      BY <3>1, <3>2
  <2> QED
    BY <2>2, <1>1 DEF Bookkept, UnusedIsIdle
<1>16. SetBreakpointsListed'
  <2>1. Earlier \subseteq Earlier'
    BY <1>1, <1>3, <1>4, EarlierStays
  <2>2. \A m \in Earlier : /\ call'[m].op = call[m].op
                           /\ call[m].op = "removeBreakpoint" => call'[m].arg = call[m].arg
    BY <1>3, <1>4 DEF Earlier, Removals
  <2> SUFFICES ASSUME NEW k \in Calls, call'[k].op = "setBreakpoint", call'[k].st = "done",
                      call'[k].from = mi2, call'[k].val \in table[mi2],
                      ~ \E b \in breakpoints' : b.id = call'[k].val
               PROVE  \E m \in Earlier' : call'[m].op = "removeAll" \/ call'[m].arg = call'[k].val
    BY <1>1 DEF SetBreakpointsListed
  <2>3. k # n
    <3>1. SUFFICES ASSUME k = n PROVE FALSE
      OBVIOUS
    <3>2. c.op = "setBreakpoint" /\ call'[k].val = c.val
      BY <3>1, <1>3
    <3>3. [id |-> c.val, from |-> c.from] \in breakpoints'
      BY <3>2, <1>10
    <3> QED
      BY <3>2, <3>3
  <2>4. call'[k] = call[k]
    BY <2>3, <1>3
  <2>5. CASE \E m \in Earlier : call[m].op = "removeAll" \/ call[m].arg = call[k].val
    BY <2>5, <2>4, <2>1, <2>2 DEF Earlier, Removals
  <2>6. CASE \E b \in breakpoints : b.id = call[k].val
    <3>1. PICK b \in breakpoints : b.id = call[k].val
      BY <2>6
    <3>2. b \notin breakpoints'
      BY <3>1, <2>4
    <3>3. c.op = "setBreakpoint" => c.val = b.id /\ [id |-> c.val, from |-> c.from] \in breakpoints'
      BY <3>1, <3>2, <1>10 DEF Forget
    <3>4. c.op # "setBreakpoint"
      BY <3>1, <3>3, <2>4
    <3>5. Deleting(c) /\ c.arg = b.id
      BY <3>1, <3>2, <3>4, <1>10 DEF Forget
    \* what GDB still has this GDB did not delete
    <3>6. c.from # mi2
      BY <3>1, <3>5, <2>4, <1>1 DEF Bookkept, DeletedIsSpent, Spent
    <3>7. mi2 \in Gdbs /\ mi2 # 0
      BY <2>4, MadeCalls, FrameInt DEF Named, Gdbs
    <3>8. PICK i \in Calls : /\ call[i].op = "initialize" /\ call[i].from = mi2
                             /\ \A j \in 1..made : call[j].from # mi2 => j < i
      BY <3>7 DEF Bookkept, OthersAreEarlier
    <3>9. n \in Earlier
      BY <3>5, <3>6, <3>8, <1>1 DEF Earlier, Removals, Deleting
    <3>10. call[n].op = "removeAll" \/ (call[n].op = "removeBreakpoint" /\ call[n].arg = call[k].val)
      BY <3>1, <3>5 DEF Deleting
    <3> QED
      BY <3>9, <3>10, <2>1, <2>2, <2>4
  <2> QED
    BY <2>4, <2>5, <2>6 DEF Bookkept, SetBreakpointsListed
<1> QED
  BY <1>5, <1>11, <1>12, <1>13, <1>14, <1>15, <1>16 DEF Bookkept


\* What a step leaves of the calls that neither begin nor go on.
Alike ==
    \A n \in Calls :
        /\ call'[n].op = call[n].op /\ call'[n].arg = call[n].arg
        /\ call'[n].from = call[n].from /\ call'[n].step = call[n].step
        /\ call'[n].st = "done" => call'[n] = call[n]

\* The promises about older calls and about what was reported need no more than
\* that, if no breakpoint is set that a call had reported.
LEMMA AlikeKept ==
    ASSUME IInv, Bookkept, Alike, UNCHANGED <<mi2, breakpoints, made>>,
           \A n \in Calls :
               call[n].op = "setBreakpoint" /\ call[n].st = "done" /\ call[n].from = mi2
               /\ call[n].val \in table'[mi2] => call[n].val \in table[mi2]
    PROVE  OthersAreEarlier' /\ SetBreakpointsListed'
<1>1. OthersAreEarlier'
  <2>1. CASE mi2 # 0
    <3>1. PICK i \in Calls : /\ call[i].op = "initialize" /\ call[i].from = mi2
                             /\ \A k \in 1..made : call[k].from # mi2 => k < i
      BY <2>1 DEF Bookkept, OthersAreEarlier
    <3>2. \A k \in 1..made : k \in Calls
      BY ConstantsAssumption DEF IInv, ChannelOK, Calls
    <3> QED
      BY <3>1, <3>2 DEF OthersAreEarlier, Alike
  <2> QED
    BY <2>1 DEF OthersAreEarlier
<1>2. SetBreakpointsListed'
  <2>1. Earlier \subseteq Earlier'
    BY EarlierStays DEF Alike
  <2>2. \A m \in Earlier : m \in Calls
    BY DEF Earlier, Removals
  <2> QED
    BY <2>1, <2>2 DEF Bookkept, SetBreakpointsListed, Alike
<1> QED
  BY <1>1, <1>2

\* What a call that is answered may be.
Settled(n) ==
    call'[n].st = "ready" =>
        \/ call'[n] = call[n]
        \/ /\ call[n].op = "setBreakpoint" => call'[n].val \in table[call[n].from]
           /\ Deleting(call[n]) => Spent(call[n].arg, call[n].from)

\* Calls are sent, answered or given up, and lines are read; GDB does nothing.
LEMMA ChannelKept ==
    ASSUME IInv, Bookkept, Orderly', Alike,
           UNCHANGED <<mi2, breakpoints, made, gdb, table, inserted>>,
           NEW s \in [Gdbs -> Nat], Remains(s),
           \A n \in Calls : /\ Settled(n)
                            /\ call[n].st = "lost" => call'[n].st = "lost"
                            /\ \A g \in Gdbs : AtWork(n, g) => AtWork(n, g)',
           \A g \in Gdbs : gdb[g] = "unused" => stdin'[g] = <<>> /\ pipe'[g] = <<>>
    PROVE  Bookkept'
<1>1. ASSUME NEW id, NEW g \in Gdbs, Has(id, g) PROVE Has(id, g)'
  <2>1. CASE id \in table[g]
    BY <2>1 DEF Has
  <2>2. CASE Deleted(id, g)
    <3>1. PICK n \in Calls : Deleting(call[n]) /\ call[n].arg = id /\ call[n].from = g
                             /\ AtWork(n, g)
      BY <2>2 DEF Deleted
    <3>2. AtWork(n, g)'
      BY <3>1
    <3>3. Deleting(call'[n]) /\ call'[n].arg = id /\ call'[n].from = g
      BY <3>1 DEF Alike, Deleting
    <3> QED
      BY <3>2, <3>3 DEF Has, Deleted
  <2> QED
    BY <1>1, <2>1, <2>2 DEF Has
<1>2. ASSUME NEW g \in Gdbs, NEW i \in 1..Len(pipe'[g]), IsAnswer(pipe'[g][i])
      PROVE  \E j \in 1..Len(pipe[g]) :
                 /\ pipe'[g][i] = pipe[g][j] /\ IsAnswer(pipe[g][j]) /\ pipe[g][j].call \in Calls
  <2>1. pipe'[g][i] = pipe[g][i + s[g]] /\ i + s[g] \in 1..Len(pipe[g])
    BY DEF Remains
  <2> QED
    BY <2>1, <1>2, AnswerCalls
<1>3. \A n \in Calls : call[n].op = "setBreakpoint" => call[n].from \in Gdbs
  BY MadeCalls DEF Named
<1>4. ListedIsHeld'
  <2>1. \A b \in breakpoints' : Has(b.id, b.from)'
    BY <1>1 DEF Bookkept, ListedIsHeld, IInv, FieldsOK
  <2>2. ASSUME NEW n \in Calls, call'[n].op = "setBreakpoint", call'[n].st = "ready"
        PROVE  \/ Has(call[n].val, call[n].from)' /\ call'[n] = call[n]
               \/ call'[n].val \in table'[call'[n].from]
    BY <2>2, <1>1, <1>3 DEF Bookkept, ListedIsHeld, Alike, Settled
  <2>4. \A g \in Gdbs : \A i \in 1..Len(pipe'[g]) :
            /\ IsAnswer(pipe'[g][i]) /\ pipe'[g][i].ok
            /\ call'[pipe'[g][i].call].op = "setBreakpoint"
            /\ call'[pipe'[g][i].call].st # "lost"
            => pipe'[g][i].val \in table'[g]
    <3> SUFFICES ASSUME NEW g \in Gdbs, NEW i \in 1..Len(pipe'[g]), IsAnswer(pipe'[g][i]),
                        pipe'[g][i].ok, call'[pipe'[g][i].call].op = "setBreakpoint",
                        call'[pipe'[g][i].call].st # "lost"
                 PROVE  pipe'[g][i].val \in table[g]
      OBVIOUS
    <3>1. PICK j \in 1..Len(pipe[g]) : /\ pipe'[g][i] = pipe[g][j] /\ IsAnswer(pipe[g][j])
                                      /\ pipe[g][j].call \in Calls
      BY <1>2
    <3>2. /\ call[pipe[g][j].call].op = "setBreakpoint"
          /\ call[pipe[g][j].call].st # "lost"
      BY <3>1 DEF Alike
    <3> QED
      BY <3>1, <3>2 DEF Bookkept, ListedIsHeld
  <2> QED
    BY <2>1, <2>2, <2>4 DEF ListedIsHeld, Has, Deleted, AtWork, Done
<1>5. Numbered'
  BY <1>3 DEF Bookkept, Numbered, Alike, Settled
<1>6. DeletedIsSpent'
  <2>1. \A n \in Calls : Deleting(call'[n]) /\ call'[n].st = "ready" =>
            Spent(call'[n].arg, call'[n].from)
    BY DEF Bookkept, DeletedIsSpent, Alike, Settled, Deleting
  <2>2. \A g \in Gdbs : \A i \in 1..Len(pipe'[g]) :
            IsAnswer(pipe'[g][i]) /\ pipe'[g][i].ok /\ Deleting(call'[pipe'[g][i].call]) =>
                Spent(call'[pipe'[g][i].call].arg, g)
    <3> SUFFICES ASSUME NEW g \in Gdbs, NEW i \in 1..Len(pipe'[g]), IsAnswer(pipe'[g][i]),
                        pipe'[g][i].ok, Deleting(call'[pipe'[g][i].call])
                 PROVE  Spent(call'[pipe'[g][i].call].arg, g)
      OBVIOUS
    <3>1. PICK j \in 1..Len(pipe[g]) : /\ pipe'[g][i] = pipe[g][j] /\ IsAnswer(pipe[g][j])
                                      /\ pipe[g][j].call \in Calls
      BY <1>2
    <3>2. /\ Deleting(call[pipe[g][j].call])
          /\ call'[pipe[g][j].call].arg = call[pipe[g][j].call].arg
      BY <3>1 DEF Alike, Deleting
    <3> QED
      BY <3>1, <3>2 DEF Bookkept, DeletedIsSpent
  <2> QED
    BY <2>1, <2>2 DEF DeletedIsSpent, Spent
<1>7. OthersAreEarlier' /\ SetBreakpointsListed'
  BY AlikeKept
<1>8. UnusedIsIdle'
  <2>1. \A n \in 1..made : n \in Calls
    BY ConstantsAssumption DEF IInv, ChannelOK, Calls
  <2> QED
    BY <2>1 DEF Bookkept, UnusedIsIdle, Alike
<1> QED
  BY <1>4, <1>5, <1>6, <1>7, <1>8 DEF Bookkept

\* The first command of a new GDB goes into its channel.
LEMMA OnReadyKept ==
    ASSUME IInv, Bookkept, NEW n \in Calls, OnReady(n)
    PROVE  Bookkept'
<1>1. PICK d : d = [call[n] EXCEPT !.st = "waiting"]
  OBVIOUS
<1>2. /\ call[n].st = "starting" /\ call[n] \in CallRecords /\ call[n].from \in Gdbs
      /\ UNCHANGED <<fields, made, sent, chunk, process>>
      /\ call' = [call EXCEPT ![n] = d]
      /\ queue' = [queue EXCEPT ![call[n].from] = Append(@, n)]
  BY <1>1, StartingIs DEF Named
<1>3. /\ d \in CallRecords /\ d.op = call[n].op /\ d.arg = call[n].arg
      /\ d.from = call[n].from /\ d.step = call[n].step /\ d.st = "waiting"
  BY <1>1, <1>2 DEF CallRecords
<1>4. call'[n] = d /\ \A k \in Calls : k # n => call'[k] = call[k]
  BY <1>2 DEF IInv, ChannelOK
<1>5. UNCHANGED <<mi2, breakpoints, gdb, stdin, pipe, table, inserted>>
  BY <1>2 DEF fields, process
<1>6. Orderly'
  BY <1>2, <1>3, <1>5, StatusStep DEF Bookkept
<1>7. Alike /\ \A k \in Calls : Settled(k)
  BY <1>3, <1>4 DEF Alike, Settled
<1>8. \A k \in Calls : /\ call[k].st = "lost" => call'[k].st = "lost"
                       /\ \A g \in Gdbs : AtWork(k, g) => AtWork(k, g)'
  BY <1>2, <1>4, <1>5 DEF AtWork, Done
<1>9. PICK s \in [Gdbs -> Nat] : \A g \in Gdbs : s[g] = 0
  <2>1. [g \in Gdbs |-> 0] \in [Gdbs -> Nat]
    OBVIOUS
  <2> QED
    BY <2>1
<1>10. Remains(s)
  <2>1. ASSUME NEW g \in Gdbs, NEW i \in 1..Len(pipe'[g])
        PROVE  pipe'[g][i] = pipe[g][i + s[g]] /\ i + s[g] \in 1..Len(pipe[g])
    <3>1. i + s[g] = i /\ pipe' = pipe
      BY <1>5, <1>9
    <3> QED
      BY <3>1
  <2> QED
    BY <2>1 DEF Remains
<1>11. \A g \in Gdbs : gdb[g] = "unused" => stdin'[g] = <<>> /\ pipe'[g] = <<>>
  BY <1>5 DEF Bookkept, UnusedIsIdle
<1> QED
  BY <1>2, <1>5, <1>6, <1>7, <1>8, <1>9, <1>10, <1>11, ChannelKept

\* The first call of a channel leaves it.
LEMMA LeaveIs ==
    ASSUME IInv, Orderly, NEW g \in Gdbs, queue[g] # <<>>, NEW c \in CallRecords, Leave(g, c),
           c.op = First(g).op, c.arg = First(g).arg, c.from = First(g).from,
           c.step = First(g).step, c.st \in {"ready", "failed", "lost"}
    PROVE  /\ Head(queue[g]) \in Calls /\ call[Head(queue[g])].st = "waiting"
           /\ call[Head(queue[g])].from = g /\ call'[Head(queue[g])] = c
           /\ \A n \in Calls : n # Head(queue[g]) => call'[n] = call[n]
           /\ Alike
           /\ \A n \in Calls : call[n].st = "lost" => call'[n].st = "lost"
<1>1. /\ Head(queue[g]) \in Calls /\ call[Head(queue[g])].st = "waiting"
      /\ call[Head(queue[g])].from = g
  BY FirstWaits DEF Orderly
<1>2. call'[Head(queue[g])] = c /\ \A n \in Calls : n # Head(queue[g]) => call'[n] = call[n]
  BY <1>1 DEF Leave, IInv, ChannelOK
<1>3. Alike
  BY <1>1, <1>2 DEF Alike, First
<1> QED
  BY <1>1, <1>2, <1>3

\* A call is refused before GDB heard of it, or given up.
LEMMA GivenUpKept ==
    ASSUME IInv, Bookkept, Orderly', NEW g \in Gdbs, queue[g] # <<>>,
           NEW st \in {"failed", "lost"}, Leave(g, [First(g) EXCEPT !.st = st]),
           st = "failed" => \A h \in Gdbs : ~Done(Head(queue[g]), h),
           UNCHANGED <<mi2, breakpoints, made, gdb, table, inserted, stdin, pipe>>
    PROVE  Bookkept'
<1> DEFINE k == Head(queue[g])
           c == [First(g) EXCEPT !.st = st]
           s == [h \in Gdbs |-> 0]
<1>1. First(g) \in CallRecords
  BY FirstWaits DEF First, IInv, ChannelOK, Bookkept, Orderly
<1>2. /\ c \in CallRecords /\ c.op = First(g).op /\ c.arg = First(g).arg
      /\ c.from = First(g).from /\ c.step = First(g).step /\ c.st = st
  BY <1>1 DEF CallRecords
<1>3. Leave(g, c)
  OBVIOUS
<1> HIDE DEF c
<1>4. /\ k \in Calls /\ call[k].st = "waiting" /\ call'[k] = c
      /\ \A n \in Calls : n # k => call'[n] = call[n]
      /\ Alike
      /\ \A n \in Calls : call[n].st = "lost" => call'[n].st = "lost"
  BY <1>2, <1>3, LeaveIs DEF Bookkept
<1>5. s \in [Gdbs -> Nat] /\ Remains(s)
  <2>1. \A h \in Gdbs : \A i \in 1..Len(pipe[h]) : i + 0 = i
    BY DEF IInv, ProcessOK
  <2> QED
    BY <2>1 DEF Remains
<1> HIDE DEF s, k
<1>6. \A n \in Calls : Settled(n)
  BY <1>2, <1>4 DEF Settled
<1>7. ASSUME NEW n \in Calls, NEW h \in Gdbs, AtWork(n, h) PROVE AtWork(n, h)'
  BY <1>7, <1>2, <1>4 DEF AtWork, Done, k
<1>8. \A h \in Gdbs : gdb[h] = "unused" => stdin'[h] = <<>> /\ pipe'[h] = <<>>
  BY DEF Bookkept, UnusedIsIdle
<1> QED
  BY <1>4, <1>5, <1>6, <1>7, <1>8, ChannelKept

\* Nothing but the commands that GDB has to read changes.
LEMMA StillKept ==
    ASSUME IInv, Bookkept, Orderly', UNCHANGED call,
           UNCHANGED <<mi2, breakpoints, made, gdb, table, inserted, pipe>>,
           \A g \in Gdbs : gdb[g] = "unused" => stdin'[g] = <<>>
    PROVE  Bookkept'
<1>1. ListedIsHeld' /\ Numbered' /\ DeletedIsSpent'
  BY DEF Bookkept, ListedIsHeld, Numbered, DeletedIsSpent, Spent, Has, Deleted, AtWork, Done
<1>2. OthersAreEarlier' /\ UnusedIsIdle' /\ SetBreakpointsListed'
  BY DEF Bookkept, OthersAreEarlier, UnusedIsIdle, SetBreakpointsListed, Earlier, Removals
<1> QED
  BY <1>1, <1>2 DEF Bookkept

LEMMA SendKept ==
    ASSUME IInv, Bookkept, NEW g \in Gdbs, Send(g)
    PROVE  Bookkept'
<1>1. /\ g \notin sent /\ queue[g] # <<>>
      /\ UNCHANGED <<mi2, breakpoints, made, gdb, table, inserted, pipe>>
  BY DEF Send, fields
<1>2. Orderly'
  BY SendOrder DEF Bookkept
<1>3. Head(queue[g]) \in Calls /\ call[Head(queue[g])].st = "waiting"
      /\ call[Head(queue[g])].from = g
  BY <1>1, FirstWaits DEF Bookkept, Orderly
<1>a. CASE g \in killed
  <2>1. Leave(g, [First(g) EXCEPT !.st = "failed"]) /\ UNCHANGED stdin
    BY <1>a DEF Send
  <2>2. ASSUME NEW h \in Gdbs, Done(Head(queue[g]), h) PROVE FALSE
    <3>1. PICK i \in 1..Len(pipe[h]) :
              IsAnswer(pipe[h][i]) /\ pipe[h][i].call = Head(queue[g])
      BY <2>2 DEF Done
    <3>2. Current(h, Head(queue[g]))
      BY <3>1, <1>3, AnswerOf DEF Bookkept
    <3>3. h = g
      BY <3>2, <1>3, SentWaits DEF Bookkept, Orderly
    <3> QED
      BY <3>2, <3>3, <1>1 DEF Current
  <2> QED
    BY <1>1, <1>2, <2>1, <2>2, GivenUpKept
<1>b. CASE g \notin killed
  <2>1. UNCHANGED call /\ \A h \in Gdbs : h # g => stdin'[h] = stdin[h]
    BY <1>b DEF Send, IInv, ProcessOK
  <2>2. gdb[g] # "unused"
    <3>1. Head(queue[g]) \in 1..made
      BY <1>3, MadeCalls DEF IInv, Honest, NoCall, Calls, ChannelOK
    <3> QED
      BY <3>1, <1>3 DEF Bookkept, UnusedIsIdle
  <2>3. \A h \in Gdbs : gdb[h] = "unused" => stdin'[h] = <<>>
    BY <2>1, <2>2 DEF Bookkept, UnusedIsIdle
  <2> QED
    BY <1>1, <1>2, <2>1, <2>3, StillKept
<1> QED
  BY <1>a, <1>b

LEMMA TimeoutKept ==
    ASSUME IInv, Bookkept, NEW g \in Gdbs, Timeout(g) \/ ExitEvent(g)
    PROVE  Bookkept'
<1>1. UNCHANGED <<mi2, breakpoints, made, chunk, gdb, table, inserted, stdin, pipe>>
  BY DEF Timeout, ExitEvent, fields, process
<1>a. CASE g \in sent
  <2>1. Leave(g, [First(g) EXCEPT !.st = "lost"])
    BY <1>a DEF Timeout, ExitEvent
  <2>2. queue[g] # <<>>
    BY <1>a DEF IInv, Honest
  <2>3. Orderly'
    BY <1>a, <1>1, <2>1, LostOrder DEF Bookkept
  <2> QED
    BY <1>1, <2>1, <2>2, <2>3, GivenUpKept
<1>b. CASE g \notin sent
  <2>1. UNCHANGED <<call, queue, sent>>
    BY <1>b DEF Timeout, ExitEvent
  <2>2. Orderly'
    BY <1>1, <2>1 DEF Bookkept, Orderly, InChannels, Commanded, AnsweredOnce, OneReady, Current
  <2>3. \A h \in Gdbs : gdb[h] = "unused" => stdin'[h] = <<>>
    BY <1>1 DEF Bookkept, UnusedIsIdle
  <2> QED
    BY <1>1, <2>1, <2>2, <2>3, StillKept
<1> QED
  BY <1>a, <1>b

\* A deletion that was answered stays so until its answer is read.
LEMMA DoneStays ==
    ASSUME IInv, NEW g \in Gdbs, pipe[g] # <<>>, pipe'[g] = Tail(pipe[g]), NEW n,
           Head(pipe[g]).call # n \/ ~IsAnswer(Head(pipe[g])), Done(n, g)
    PROVE  Done(n, g)'
<1>1. PICK i \in 1..Len(pipe[g]) : IsAnswer(pipe[g][i]) /\ pipe[g][i].call = n /\ pipe[g][i].ok
  BY DEF Done
<1>2. pipe[g] \in Seq(Lines)
  BY DEF IInv, ProcessOK
<1>3. /\ Head(pipe[g]) = pipe[g][1] /\ Len(pipe'[g]) = Len(pipe[g]) - 1 /\ Len(pipe[g]) \in Nat
      /\ \A j \in 1..Len(pipe'[g]) : pipe'[g][j] = pipe[g][j + 1]
  BY <1>2, TailAt
<1>4. i # 1
  BY <1>1, <1>3
<1>5. i - 1 \in 1..Len(pipe'[g]) /\ (i - 1) + 1 = i
  BY <1>3, <1>4
<1>6. pipe'[g][i - 1] = pipe[g][i]
  BY <1>3, <1>5
<1> QED
  BY <1>1, <1>5, <1>6 DEF Done

\* A line that settles no call is read: an event, or an answer that is too late.
LEMMA PassedKept ==
    ASSUME IInv, Bookkept, Orderly', NEW g \in Gdbs, pipe[g] # <<>>,
           pipe' = [pipe EXCEPT ![g] = Tail(@)],
           IsAnswer(Head(pipe[g])) => call[Head(pipe[g]).call].st # "waiting",
           UNCHANGED <<call, mi2, breakpoints, made, gdb, table, inserted, stdin>>
    PROVE  Bookkept'
<1> DEFINE s == [h \in Gdbs |-> IF h = g THEN 1 ELSE 0]
<1>1. /\ s \in [Gdbs -> Nat] /\ Remains(s) /\ Head(pipe[g]) = pipe[g][1]
      /\ pipe'[g] = Tail(pipe[g]) /\ \A h \in Gdbs : h # g => pipe'[h] = pipe[h]
  BY TailRemains
<1> HIDE DEF s
<1>2. Alike /\ \A n \in Calls : Settled(n)
  BY DEF Alike, Settled
<1>3. ASSUME NEW n \in Calls, NEW h \in Gdbs, AtWork(n, h) PROVE AtWork(n, h)'
  <2>1. call[n].st = "waiting" /\ Done(n, g) => Done(n, g)'
    BY <1>1, DoneStays
  <2> QED
    BY <1>3, <2>1, <1>1 DEF AtWork, Done
<1>4. \A h \in Gdbs : gdb[h] = "unused" => stdin'[h] = <<>> /\ pipe'[h] = <<>>
  BY <1>1 DEF Bookkept, UnusedIsIdle
<1> QED
  BY <1>1, <1>2, <1>3, <1>4, ChannelKept

\* The answer of the current call is read.
Answered(c, r) ==
    [c EXCEPT !.st = IF r.ok THEN "ready" ELSE "failed", !.val = r.val, !.todo = @ \cup r.list]

LEMMA AnsweredKept ==
    ASSUME IInv, Bookkept, Orderly', NEW g \in Gdbs, pipe[g] # <<>>, g \in sent,
           pipe' = [pipe EXCEPT ![g] = Tail(@)], NEW r, r = Head(pipe[g]),
           IsAnswer(r), Head(queue[g]) = r.call,
           Leave(g, Answered(First(g), r)),
           UNCHANGED <<mi2, breakpoints, made, gdb, table, inserted, stdin>>
    PROVE  Bookkept'
<1> DEFINE k == Head(queue[g])
           c == Answered(First(g), r)
           s == [h \in Gdbs |-> IF h = g THEN 1 ELSE 0]
<1>1. /\ s \in [Gdbs -> Nat] /\ Remains(s) /\ r = pipe[g][1] /\ 1 \in 1..Len(pipe[g])
      /\ pipe'[g] = Tail(pipe[g]) /\ \A h \in Gdbs : h # g => pipe'[h] = pipe[h]
  BY TailRemains
<1>2. queue[g] # <<>> /\ First(g) \in CallRecords /\ r \in Lines
  BY <1>1, FirstType, AnswerCalls
<1>3. /\ c \in CallRecords /\ c.op = First(g).op /\ c.arg = First(g).arg
      /\ c.from = First(g).from /\ c.step = First(g).step /\ c.val = r.val
      /\ c.st = (IF r.ok THEN "ready" ELSE "failed")
  BY <1>2 DEF CallRecords, Lines, Answered
<1>4. Leave(g, c)
  OBVIOUS
<1> HIDE DEF c
<1>5. /\ k \in Calls /\ call[k].st = "waiting" /\ call[k].from = g /\ call'[k] = c
      /\ \A n \in Calls : n # k => call'[n] = call[n]
      /\ Alike
      /\ \A n \in Calls : call[n].st = "lost" => call'[n].st = "lost"
  BY <1>2, <1>3, <1>4, LeaveIs DEF Bookkept
<1> HIDE DEF s
<1>6. \A n \in Calls : Settled(n)
  <2>1. r.ok /\ call[k].op = "setBreakpoint" => r.val \in table[g]
    BY <1>1, <1>5 DEF Bookkept, ListedIsHeld
  <2>2. r.ok /\ Deleting(call[k]) => Spent(call[k].arg, g)
    BY <1>1 DEF Bookkept, DeletedIsSpent
  <2> QED
    BY <2>1, <2>2, <1>3, <1>5 DEF Settled
<1>7. ASSUME NEW h \in Gdbs, Done(k, h) PROVE r.ok
  <2>1. PICK i \in 1..Len(pipe[h]) : IsAnswer(pipe[h][i]) /\ pipe[h][i].call = k /\ pipe[h][i].ok
    BY <1>7 DEF Done
  <2>2. call[k].from = h
    BY <2>1, AnswerOf DEF Bookkept
  <2>3. h = g
    BY <2>2, <1>5
  <2>4. i = 1
    <3>1. IsAnswer(pipe[g][1]) /\ pipe[g][1].call = k /\ call[k].st # "lost"
      BY <1>1, <1>5
    <3> QED
      BY <2>1, <2>3, <3>1, <1>1, OneAnswerOf DEF Bookkept
  <2> QED
    BY <2>1, <2>3, <2>4, <1>1
<1>8. ASSUME NEW n \in Calls, NEW h \in Gdbs, AtWork(n, h) PROVE AtWork(n, h)'
  <2>1. CASE n = k
    <3>1. Done(k, h)
      BY <2>1, <1>5, <1>8 DEF AtWork
    <3> QED
      BY <2>1, <3>1, <1>3, <1>5, <1>7 DEF AtWork
  <2>2. CASE n # k
    <3>1. Done(n, g) => Done(n, g)'
      BY <2>2, <1>1, DoneStays
    <3>2. Done(n, h) => Done(n, h)'
      BY <3>1, <1>1 DEF Done
    <3>3. call'[n] = call[n]
      BY <2>2, <1>5
    <3> QED
      BY <3>2, <3>3, <1>8 DEF AtWork
  <2> QED
    BY <2>1, <2>2
<1>9. \A h \in Gdbs : gdb[h] = "unused" => stdin'[h] = <<>> /\ pipe'[h] = <<>>
  BY <1>1 DEF Bookkept, UnusedIsIdle
<1> QED
  BY <1>1, <1>5, <1>6, <1>8, <1>9, ChannelKept

LEMMA HandleLineKept ==
    ASSUME IInv, Bookkept, NEW g \in Gdbs, HandleLine(g)
    PROVE  Bookkept'
<1> DEFINE r == Head(pipe[g])
<1>1. /\ pipe[g] # <<>> /\ pipe' = [pipe EXCEPT ![g] = Tail(@)]
      /\ UNCHANGED <<mi2, breakpoints, made, gdb, table, inserted, stdin>>
  BY DEF HandleLine
<1>2. Orderly'
  BY HandleLineOrder DEF Bookkept
<1>3. r = pipe[g][1] /\ 1 \in 1..Len(pipe[g])
  BY <1>1, TailRemains
<1>a. CASE IsAnswer(r) /\ g \in sent /\ Head(queue[g]) = r.call /\ First(g).step = r.step
  <2>1. Leave(g, Answered(First(g), r))
    BY <1>a DEF HandleLine, OnAnswer, IsAnswer, Answered
  <2>2. r = Head(pipe[g])
    OBVIOUS
  <2> HIDE DEF r
  <2> QED
    BY <1>a, <1>1, <1>2, <2>1, <2>2, AnsweredKept
<1>b. CASE ~(IsAnswer(r) /\ g \in sent /\ Head(queue[g]) = r.call /\ First(g).step = r.step)
  <2>1. UNCHANGED call
    BY <1>b DEF HandleLine, OnAnswer, IsAnswer
  \* an answer that finds its call waiting is the current one's
  <2>2. ASSUME IsAnswer(r), call[r.call].st = "waiting" PROVE FALSE
    <3>1. Current(g, r.call) /\ call[r.call].step = r.step
      BY <2>2, <1>3, AnswerOf DEF Bookkept
    <3> QED
      BY <3>1, <2>2, <1>b DEF Current, First
  <2> QED
    BY <1>1, <1>2, <2>1, <2>2, PassedKept
<1> QED
  BY <1>a, <1>b

\* What a command does to the breakpoints of its GDB.
LEMMA TableStep ==
    ASSUME IInv, NEW g \in Gdbs, NEW m \in Messages, NEW r \in Lines,
           Inserts(g, m, r) \/ Removes(g, m, r) \/ Keeps(m, r)
    PROVE  /\ \A h \in Gdbs : h # g => table'[h] = table[h] /\ inserted'[h] = inserted[h]
           /\ \A id \in table'[g] : id \in table[g] \/ (id > inserted[g] /\ id = inserted'[g])
           /\ \A id \in table[g] : id \in table'[g] \/ (id = m.arg /\ Removes(g, m, r))
           /\ inserted[g] \in Nat /\ inserted'[g] \in Nat /\ inserted[g] <= inserted'[g]
           /\ table[g] \subseteq Nat
<1>1. table \in [Gdbs -> SUBSET Bps] /\ inserted \in [Gdbs -> 0..MaxBps] /\ table[g] \subseteq Nat
  BY FrameInt DEF IInv, ProcessOK
<1>2. inserted[g] \in Nat
  BY <1>1
<1>a. CASE Inserts(g, m, r)
  <2>1. /\ \A h \in Gdbs : h # g => table'[h] = table[h] /\ inserted'[h] = inserted[h]
        /\ inserted'[g] = inserted[g] + 1 /\ table'[g] = table[g] \cup {inserted[g] + 1}
    BY <1>a, <1>1 DEF Inserts
  <2> QED
    BY <2>1, <1>1, <1>2
<1>b. CASE Removes(g, m, r)
  <2>1. /\ \A h \in Gdbs : h # g => table'[h] = table[h]
        /\ inserted' = inserted /\ table'[g] = table[g] \ {m.arg}
    BY <1>b, <1>1 DEF Removes
  <2> QED
    BY <2>1, <1>b, <1>1, <1>2
<1>c. CASE Keeps(m, r)
  BY <1>c, <1>1, <1>2 DEF Keeps
<1> QED
  BY <1>a, <1>b, <1>c

\* What a deleted number was it stays.
LEMMA SpentStays ==
    ASSUME IInv, NEW g \in Gdbs, NEW m \in Messages, NEW r \in Lines,
           Inserts(g, m, r) \/ Removes(g, m, r) \/ Keeps(m, r),
           NEW h \in Gdbs, NEW id \in Int, Spent(id, h)
    PROVE  id \notin table'[h] /\ id <= inserted'[h]
<1>1. CASE h = g
  BY <1>1, TableStep DEF Spent
<1>2. CASE h # g
  BY <1>2, TableStep DEF Spent
<1> QED
  BY <1>1, <1>2

\* What GDB says and does, in terms of its pipe before and after.
Says(g, m, r) ==
    /\ IsAnswer(r) /\ r.call = m.call /\ r.step = m.step
    /\ \A h \in Gdbs : \A i \in 1..Len(pipe[h]) :
           i \in 1..Len(pipe'[h]) /\ pipe'[h][i] = pipe[h][i]
    /\ \A h \in Gdbs : \A i \in 1..Len(pipe'[h]) : IsAnswer(pipe'[h][i]) =>
           \/ i \in 1..Len(pipe[h]) /\ pipe'[h][i] = pipe[h][i]
           \/ h = g /\ pipe'[h][i] = r
    /\ \E i \in 1..Len(pipe'[g]) : pipe'[g][i] = r

LEMMA GdbSays ==
    ASSUME IInv, Orderly, NEW g \in Gdbs, GdbExecutes(g)
    PROVE  /\ stdin[g] # <<>> /\ Head(stdin[g]) \in GoodCommands /\ Head(stdin[g]) \in Messages
           /\ Head(stdin[g]).name = "delete" <=> Deleting(call[Head(stdin[g]).call])
           /\ LET c == call[Head(stdin[g]).call] IN
              c.from = g /\ c.arg = Head(stdin[g]).arg /\ c.st \in {"waiting", "lost"}
           /\ \E r \in Lines :
                  /\ Says(g, Head(stdin[g]), r)
                  /\ \/ Inserts(g, Head(stdin[g]), r) \/ Removes(g, Head(stdin[g]), r)
                     \/ Keeps(Head(stdin[g]), r)
<1> DEFINE m == Head(stdin[g])
<1>1. stdin[g] # <<>> /\ Executes(g, m)
  BY DEF GdbExecutes
<1>2. stdin[g] \in Seq(Messages) /\ pipe \in [Gdbs -> Seq(Lines)]
  BY DEF IInv, ProcessOK
<1>3. m \in Messages /\ m = stdin[g][1] /\ 1 \in 1..Len(stdin[g])
  BY <1>1, <1>2, TailAt
<1>4. m \in GoodCommands /\ (m.name = "delete" <=> Deleting(call[m.call]))
  BY <1>3, DeleteCommands
<1>5. call[m.call].from = g /\ call[m.call].arg = m.arg /\ call[m.call].st \in {"waiting", "lost"}
  BY <1>3, UnderWay, CommandOf
<1> HIDE DEF m
<1>6. PICK lines \in Seq(Lines) : \E a \in 1..Len(lines) :
          /\ Output(g, lines) /\ OneAnswer(lines, a, m)
          /\ Inserts(g, m, lines[a]) \/ Removes(g, m, lines[a]) \/ Keeps(m, lines[a])
  BY <1>1, <1>3, WhatGdbDoes
<1>7. PICK a \in 1..Len(lines) :
          /\ Output(g, lines) /\ OneAnswer(lines, a, m)
          /\ Inserts(g, m, lines[a]) \/ Removes(g, m, lines[a]) \/ Keeps(m, lines[a])
  BY <1>6
<1> DEFINE r == lines[a]
<1>8. r \in Lines /\ IsAnswer(r) /\ r.call = m.call /\ r.step = m.step
      /\ \A i \in 1..Len(lines) : IsAnswer(lines[i]) => lines[i] = r
  BY <1>7 DEF OneAnswer
<1>9. /\ Len(pipe'[g]) = Len(pipe[g]) + Len(lines)
      /\ Len(pipe[g]) \in Nat /\ Len(lines) \in Nat
      /\ \A i \in 1..Len(pipe[g]) : pipe'[g][i] = pipe[g][i]
      /\ \A i \in Len(pipe[g]) + 1 .. Len(pipe'[g]) :
             pipe'[g][i] = lines[i - Len(pipe[g])] /\ i - Len(pipe[g]) \in 1..Len(lines)
      /\ \A h \in Gdbs : h # g => pipe'[h] = pipe[h]
  BY <1>7, EventsAt
<1> HIDE DEF r
<1>10. \A h \in Gdbs : \A i \in 1..Len(pipe[h]) :
           i \in 1..Len(pipe'[h]) /\ pipe'[h][i] = pipe[h][i]
  <2>1. ASSUME NEW i \in 1..Len(pipe[g]) PROVE i \in 1..Len(pipe'[g])
    BY <2>1, <1>9
  <2> QED
    BY <2>1, <1>9
<1>11. ASSUME NEW h \in Gdbs, NEW i \in 1..Len(pipe'[h]), IsAnswer(pipe'[h][i])
       PROVE  \/ i \in 1..Len(pipe[h]) /\ pipe'[h][i] = pipe[h][i]
              \/ h = g /\ pipe'[h][i] = r
  <2>1. CASE h # g
    BY <2>1, <1>9
  <2>2. CASE h = g
    <3>1. i \in Len(pipe[g]) + 1 .. Len(pipe'[g]) \/ i \in 1..Len(pipe[g])
      BY <2>2, <1>9
    <3> QED
      BY <3>1, <2>2, <1>8, <1>9, <1>11
  <2> QED
    BY <2>1, <2>2
<1>12. \E i \in 1..Len(pipe'[g]) : pipe'[g][i] = r
  <2>1. /\ Len(pipe[g]) + a \in Len(pipe[g]) + 1 .. Len(pipe'[g])
        /\ (Len(pipe[g]) + a) - Len(pipe[g]) = a
    BY <1>9
  <2>2. pipe'[g][Len(pipe[g]) + a] = r
    BY <2>1, <1>9 DEF r
  <2> QED
    BY <2>1, <2>2, <1>9
<1>13. Says(g, m, r)
  BY <1>8, <1>10, <1>11, <1>12 DEF Says
<1>14. r \in Lines /\ (Inserts(g, m, r) \/ Removes(g, m, r) \/ Keeps(m, r))
  BY <1>7, <1>8 DEF r
<1> QED
  BY <1>1, <1>3, <1>4, <1>5, <1>13, <1>14 DEF m

LEMMA ExecutesKept ==
    ASSUME IInv, Bookkept, NEW g \in Gdbs, GdbExecutes(g)
    PROVE  Bookkept'
<1>0. PICK m, k : m = Head(stdin[g]) /\ k = m.call
  OBVIOUS
<1>1. /\ stdin[g] # <<>> /\ gdb[g] = "alive"
      /\ UNCHANGED <<call, made, queue, sent, chunk, mi2, breakpoints, gdb>>
      /\ stdin' = [stdin EXCEPT ![g] = Tail(@)]
  BY DEF GdbExecutes, channel, fields
<1>2. /\ m \in GoodCommands /\ m \in Messages /\ (m.name = "delete" <=> Deleting(call[k]))
      /\ call[k].from = g /\ call[k].arg = m.arg /\ call[k].st \in {"waiting", "lost"}
  BY <1>0, GdbSays DEF Bookkept
<1>3. PICK r \in Lines : /\ Says(g, m, r)
                         /\ Inserts(g, m, r) \/ Removes(g, m, r) \/ Keeps(m, r)
  BY <1>0, GdbSays DEF Bookkept
<1>4. /\ k \in Calls /\ k \in 1..made
      /\ call[k].op = "setBreakpoint" => m.name = "insert"
  BY <1>0, <1>2, CommandNames
<1>5. IsAnswer(r) /\ r.call = k
  BY <1>0, <1>3 DEF Says
<1>6. ASSUME NEW h \in Gdbs, NEW i \in 1..Len(pipe'[h]), IsAnswer(pipe'[h][i])
      PROVE  \/ i \in 1..Len(pipe[h]) /\ pipe'[h][i] = pipe[h][i]
             \/ h = g /\ pipe'[h][i] = r
  BY <1>3, <1>6 DEF Says
<1>7. /\ \A h \in Gdbs : h # g => table'[h] = table[h] /\ inserted'[h] = inserted[h]
      /\ \A id \in table'[g] : id \in table[g] \/ (id > inserted[g] /\ id = inserted'[g])
      /\ \A id \in table[g] : id \in table'[g] \/ (id = m.arg /\ Removes(g, m, r))
      /\ inserted[g] \in Nat /\ inserted'[g] \in Nat /\ inserted[g] <= inserted'[g]
  BY <1>2, <1>3, TableStep
<1>8. \A h \in Gdbs : \A id \in Int : Spent(id, h) => id \notin table'[h] /\ id <= inserted'[h]
  BY <1>2, <1>3, SpentStays
<1>9. Orderly'
  BY ExecutesOrder DEF Bookkept
<1>10. ASSUME NEW n \in Calls, NEW h \in Gdbs, AtWork(n, h) PROVE AtWork(n, h)'
  <2>1. Done(n, h) => Done(n, h)'
    BY <1>3 DEF Says, Done
  <2> QED
    BY <2>1, <1>1, <1>10 DEF AtWork
\* a number that GDB has just deleted is that of this call
<1>11. ASSUME Removes(g, m, r) PROVE Deleted(m.arg, g)'
  <2>1. Deleting(call[k]) /\ r.ok
    BY <1>2, <1>11 DEF Removes
  <2>2. Done(k, g)'
    BY <2>1, <1>3, <1>5 DEF Says, Done
  <2> QED
    BY <2>1, <2>2, <1>1, <1>2, <1>4 DEF Deleted, AtWork
<1>12. ASSUME NEW id, NEW h \in Gdbs, Has(id, h) PROVE Has(id, h)'
  <2>1. CASE id \in table[h]
    BY <2>1, <1>7, <1>11 DEF Has
  <2>2. CASE Deleted(id, h)
    BY <2>2, <1>1, <1>10 DEF Deleted, Has
  <2> QED
    BY <1>12, <2>1, <2>2 DEF Has
<1>13. \A n \in Calls : call[n].op = "setBreakpoint" => call[n].from \in Gdbs /\ call[n].val \in Nat
  BY MadeCalls DEF Named, IInv, ChannelOK, CallRecords
<1>14. ListedIsHeld'
  <2>1. \A b \in breakpoints' : Has(b.id, b.from)'
    BY <1>1, <1>12 DEF Bookkept, ListedIsHeld, IInv, FieldsOK
  <2>2. ASSUME NEW n \in Calls, call'[n].op = "setBreakpoint", call'[n].st = "ready"
        PROVE  Has(call[n].val, call[n].from)'
    BY <2>2, <1>1, <1>12, <1>13 DEF Bookkept, ListedIsHeld
  <2>3. ASSUME NEW h \in Gdbs, NEW i \in 1..Len(pipe'[h]), IsAnswer(pipe'[h][i]),
               pipe'[h][i].ok, call[pipe'[h][i].call].op = "setBreakpoint",
               call[pipe'[h][i].call].st # "lost"
        PROVE  pipe'[h][i].val \in table'[h]
    <3>1. CASE h = g /\ pipe'[h][i] = r
      <4>1. r.ok /\ m.name = "insert"
        BY <3>1, <2>3, <1>4, <1>5
      <4>2. Inserts(g, m, r)
        BY <4>1, <1>3 DEF Removes, Keeps
      <4>3. r.val \in table'[g]
        BY <4>2 DEF Inserts, IInv, ProcessOK
      <4> QED
        BY <3>1, <4>3
    <3>2. CASE i \in 1..Len(pipe[h]) /\ pipe'[h][i] = pipe[h][i]
      \* GDB had a command to read, so that all it had said was to calls that are lost
      <4>1. h # g
        BY <3>2, <2>3, <1>1, AnswerOf DEF Bookkept
      <4> QED
        BY <4>1, <3>2, <2>3, <1>7 DEF Bookkept, ListedIsHeld
    <3> QED
      BY <3>1, <3>2, <2>3, <1>6
  <2>4. \A n \in Calls : call'[n].op = "setBreakpoint" /\ call'[n].st = "ready" =>
            Has(call[n].val, call[n].from)'
    BY <2>2
  <2>5. \A h \in Gdbs : \A i \in 1..Len(pipe'[h]) :
            /\ IsAnswer(pipe'[h][i]) /\ pipe'[h][i].ok
            /\ call[pipe'[h][i].call].op = "setBreakpoint"
            /\ call[pipe'[h][i].call].st # "lost"
            => pipe'[h][i].val \in table'[h]
    BY <2>3
  <2> QED
    BY <2>1, <2>4, <2>5, <1>1 DEF ListedIsHeld
<1>15. Numbered'
  <2>1. ASSUME NEW h \in Gdbs, NEW id \in table'[h] PROVE id <= inserted'[h]
    <3>1. CASE h # g
      BY <3>1, <2>1, <1>7 DEF Bookkept, Numbered
    <3>2. CASE h = g
      <4>1. table[g] \subseteq Nat
        BY FrameInt DEF IInv, ProcessOK
      <4> QED
        BY <4>1, <3>2, <2>1, <1>7 DEF Bookkept, Numbered
    <3> QED
      BY <3>1, <3>2
  <2>2. ASSUME NEW n \in Calls, call[n].op = "setBreakpoint", call[n].st \in {"ready", "done"}
        PROVE  call[n].val <= inserted'[call[n].from]
    BY <2>2, <1>7, <1>13 DEF Bookkept, Numbered
  <2> QED
    BY <2>1, <2>2, <1>1 DEF Numbered
<1>16. DeletedIsSpent'
  <2>1. \A n \in Calls : call[n].arg \in Int /\ (Deleting(call[n]) => call[n].from \in Gdbs)
    BY MadeCalls DEF Deleting, Named, IInv, ChannelOK, CallRecords
  <2>2. \A n \in Calls : Deleting(call'[n]) /\ call'[n].st = "ready" =>
            call'[n].arg \notin table'[call'[n].from] /\ call'[n].arg <= inserted'[call'[n].from]
    BY <2>1, <1>1, <1>8 DEF Bookkept, DeletedIsSpent
  <2>3. ASSUME NEW h \in Gdbs, NEW i \in 1..Len(pipe'[h]), IsAnswer(pipe'[h][i]),
               pipe'[h][i].ok, Deleting(call[pipe'[h][i].call])
        PROVE  /\ call[pipe'[h][i].call].arg \notin table'[h]
               /\ call[pipe'[h][i].call].arg <= inserted'[h]
    <3>1. CASE h = g /\ pipe'[h][i] = r
      <4>1. r.ok /\ m.name = "delete"
        BY <3>1, <2>3, <1>2, <1>5
      <4>2. Removes(g, m, r)
        BY <4>1, <1>3 DEF Inserts, Keeps
      <4>3. m.arg \notin table'[g] /\ m.arg \in table[g] /\ inserted'[g] = inserted[g]
        BY <4>2 DEF Removes, IInv, ProcessOK
      <4>4. m.arg <= inserted'[g]
        BY <4>3 DEF Bookkept, Numbered
      <4> QED
        BY <3>1, <4>3, <4>4, <1>2, <1>5
    <3>2. CASE i \in 1..Len(pipe[h]) /\ pipe'[h][i] = pipe[h][i]
      <4>1. Spent(call[pipe[h][i].call].arg, h)
        BY <3>2, <2>3 DEF Bookkept, DeletedIsSpent
      <4>2. pipe[h][i].call \in Calls
        BY <3>2, <2>3, AnswerCalls
      <4> QED
        BY <4>1, <4>2, <3>2, <2>1, <1>8
    <3> QED
      BY <3>1, <3>2, <2>3, <1>6
  <2>4. \A h \in Gdbs : \A i \in 1..Len(pipe'[h]) :
            IsAnswer(pipe'[h][i]) /\ pipe'[h][i].ok /\ Deleting(call'[pipe'[h][i].call]) =>
                /\ call'[pipe'[h][i].call].arg \notin table'[h]
                /\ call'[pipe'[h][i].call].arg <= inserted'[h]
    BY <2>3, <1>1
  <2> QED
    BY <2>2, <2>4 DEF DeletedIsSpent, Spent
<1>17. OthersAreEarlier' /\ SetBreakpointsListed'
  <2>1. Alike
    BY <1>1 DEF Alike
  <2>2. ASSUME NEW n \in Calls, call[n].op = "setBreakpoint", call[n].st = "done",
               call[n].from = mi2, call[n].val \in table'[mi2]
        PROVE  call[n].val \in table[mi2]
    <3>1. call[n].val <= inserted[mi2] /\ mi2 \in Gdbs /\ call[n].val \in Nat
      BY <2>2, <1>13 DEF Bookkept, Numbered
    <3> QED
      BY <3>1, <2>2, <1>7
  <2> QED
    BY <2>1, <2>2, <1>1, AlikeKept
<1>18. UnusedIsIdle'
  <2>1. \A h \in Gdbs : h # g => stdin'[h] = stdin[h]
    BY <1>1 DEF IInv, ProcessOK
  <2>2. \A h \in Gdbs : h # g => pipe'[h] = pipe[h]
    BY DEF GdbExecutes, Executes, Output, IInv, ProcessOK
  <2> QED
    BY <2>1, <2>2, <1>1 DEF Bookkept, UnusedIsIdle
<1> QED
  BY <1>9, <1>14, <1>15, <1>16, <1>17, <1>18 DEF Bookkept

\* The program halts, or GDB dies.
LEMMA HaltsKept ==
    ASSUME IInv, Bookkept, NEW g \in Gdbs, DebuggeeHalts(g) \/ GdbDies(g)
    PROVE  Bookkept'
<1>1. /\ UNCHANGED <<call, made, mi2, breakpoints, table, inserted>> /\ gdb[g] = "alive"
      /\ \A h \in Gdbs : gdb'[h] = "unused" <=> gdb[h] = "unused"
  BY DEF DebuggeeHalts, GdbDies, channel, fields, IInv, ProcessOK
<1>2. Orderly'
  BY HaltsOrder, DiesOrder DEF Bookkept
<1>3. /\ \A h \in Gdbs : \A i \in 1..Len(pipe[h]) :
             i \in 1..Len(pipe'[h]) /\ pipe'[h][i] = pipe[h][i]
      /\ \A h \in Gdbs : \A i \in 1..Len(pipe'[h]) : IsAnswer(pipe'[h][i]) =>
             i \in 1..Len(pipe[h]) /\ pipe'[h][i] = pipe[h][i]
      /\ \A h \in Gdbs : h # g => stdin'[h] = stdin[h] /\ pipe'[h] = pipe[h]
  <2>1. CASE GdbDies(g)
    BY <2>1 DEF GdbDies, IInv, ProcessOK
  <2>2. CASE DebuggeeHalts(g)
    <3>1. PICK lines \in Seq(Lines) :
              Output(g, lines) /\ \A i \in 1..Len(lines) : ~IsAnswer(lines[i])
      BY <2>2, HaltLines
    <3>2. /\ Len(pipe'[g]) = Len(pipe[g]) + Len(lines)
          /\ Len(pipe[g]) \in Nat /\ Len(lines) \in Nat
          /\ \A i \in 1..Len(pipe[g]) : pipe'[g][i] = pipe[g][i]
          /\ \A i \in Len(pipe[g]) + 1 .. Len(pipe'[g]) :
                 pipe'[g][i] = lines[i - Len(pipe[g])] /\ i - Len(pipe[g]) \in 1..Len(lines)
          /\ \A h \in Gdbs : h # g => pipe'[h] = pipe[h]
      BY <3>1, EventsAt
    <3>3. \A i \in 1..Len(pipe[g]) : i \in 1..Len(pipe'[g])
      BY <3>2
    <3>4. ASSUME NEW i \in 1..Len(pipe'[g]), IsAnswer(pipe'[g][i]) PROVE i \in 1..Len(pipe[g])
      <4>1. i \in Len(pipe[g]) + 1 .. Len(pipe'[g]) \/ i \in 1..Len(pipe[g])
        BY <3>2
      <4> QED
        BY <4>1, <3>1, <3>2, <3>4
    <3>5. stdin' = stdin
      BY <2>2 DEF DebuggeeHalts
    <3> QED
      BY <3>2, <3>3, <3>4, <3>5
  <2> QED
    BY <2>1, <2>2
<1>4. ASSUME NEW id, NEW h \in Gdbs, Has(id, h) PROVE Has(id, h)'
  <2>1. \A n : Done(n, h) => Done(n, h)'
    BY <1>3 DEF Done
  <2> QED
    BY <2>1, <1>1, <1>4 DEF Has, Deleted, AtWork
<1>5. \A n \in Calls : call[n].op = "setBreakpoint" => call[n].from \in Gdbs
  BY MadeCalls DEF Named
<1>6. ListedIsHeld'
  <2>1. \A b \in breakpoints' : Has(b.id, b.from)'
    BY <1>1, <1>4 DEF Bookkept, ListedIsHeld, IInv, FieldsOK
  <2>2. \A n \in Calls : call'[n].op = "setBreakpoint" /\ call'[n].st = "ready" =>
            Has(call[n].val, call[n].from)'
    BY <1>1, <1>4, <1>5 DEF Bookkept, ListedIsHeld
  <2>3. \A h \in Gdbs : \A i \in 1..Len(pipe'[h]) :
            /\ IsAnswer(pipe'[h][i]) /\ pipe'[h][i].ok
            /\ call[pipe'[h][i].call].op = "setBreakpoint"
            /\ call[pipe'[h][i].call].st # "lost"
            => pipe'[h][i].val \in table[h]
    BY <1>3 DEF Bookkept, ListedIsHeld
  <2> QED
    BY <2>1, <2>2, <2>3, <1>1 DEF ListedIsHeld
<1>7. Numbered'
  BY <1>1 DEF Bookkept, Numbered
<1>8. DeletedIsSpent'
  BY <1>1, <1>3 DEF Bookkept, DeletedIsSpent, Spent
<1>9. OthersAreEarlier' /\ SetBreakpointsListed'
  <2>1. Alike
    BY <1>1 DEF Alike
  <2> QED
    BY <2>1, <1>1, AlikeKept
<1>10. UnusedIsIdle'
  <2>1. \A n \in 1..made : n \in Calls
    BY ConstantsAssumption DEF IInv, ChannelOK, Calls
  <2>2. \A n \in 1..made : call[n].from \in Gdbs
    BY DEF IInv, Honest, Named
  <2>3. \A h \in Gdbs : gdb'[h] = "unused" => stdin'[h] = <<>> /\ pipe'[h] = <<>>
    BY <1>1, <1>3 DEF Bookkept, UnusedIsIdle
  <2>4. mi2' # 0 => gdb'[mi2'] # "unused"
    BY <1>1 DEF Bookkept, UnusedIsIdle, IInv, FieldsOK
  <2>5. \A n \in 1..made' : gdb'[call'[n].from] # "unused"
    BY <2>1, <2>2, <1>1 DEF Bookkept, UnusedIsIdle
  <2> QED
    BY <2>3, <2>4, <2>5 DEF UnusedIsIdle
<1> QED
  BY <1>2, <1>6, <1>7, <1>8, <1>9, <1>10 DEF Bookkept

LEMMA StutterBookkept == Bookkept /\ UNCHANGED vars => Bookkept'
<1> SUFFICES ASSUME Bookkept, UNCHANGED vars PROVE Bookkept'
  OBVIOUS
<1> USE DEF vars, fields, channel, process
<1>1. Orderly'
  BY DEF Bookkept, Orderly, InChannels, Commanded, AnsweredOnce, OneReady, Current
<1>2. ListedIsHeld' /\ Numbered' /\ DeletedIsSpent'
  BY DEF Bookkept, ListedIsHeld, Numbered, DeletedIsSpent, Spent, Has, Deleted, AtWork, Done
<1>3. OthersAreEarlier' /\ UnusedIsIdle' /\ SetBreakpointsListed'
  BY DEF Bookkept, OthersAreEarlier, UnusedIsIdle, SetBreakpointsListed, Earlier, Removals
<1> QED
  BY <1>1, <1>2, <1>3 DEF Bookkept

LEMMA NextBookkept == IInv /\ Bookkept /\ [Next]_vars => Bookkept'
<1> SUFFICES ASSUME IInv, Bookkept, [Next]_vars PROVE Bookkept'
  OBVIOUS
<1>1. CASE Operation
  BY <1>1, OperationsKept
<1>2. ASSUME NEW n \in Calls, OnReady(n) \/ Resume(n) PROVE Bookkept'
  BY <1>2, OnReadyKept, ResumeKept
<1>3. ASSUME NEW g \in Gdbs, Send(g) \/ Timeout(g) \/ HandleLine(g) \/ ExitEvent(g)
      PROVE  Bookkept'
  BY <1>3, SendKept, TimeoutKept, HandleLineKept
<1>4. ASSUME NEW g \in Gdbs, GdbExecutes(g) \/ DebuggeeHalts(g) \/ GdbDies(g)
      PROVE  Bookkept'
  BY <1>4, ExecutesKept, HaltsKept
<1>5. CASE UNCHANGED vars
  BY <1>5, StutterBookkept
<1> QED
  BY <1>1, <1>2, <1>3, <1>4, <1>5 DEF Next

\* Every reachable state keeps its books: calls, commands and answers go one at a
\* time, and what is listed, reported and deleted agrees with the tables of the GDBs
\* (GDBBackend.ts:361-399, 751-778; MI2.ts:218-246, 403-441).
THEOREM BooksAreKept == Spec => []Bookkept
<1>1. Init => Bookkept
  BY InitBookkept
<1>2. IInv /\ Bookkept /\ [Next]_vars => Bookkept'
  BY NextBookkept
<1> QED
  BY <1>1, <1>2, Invariant, PTL DEF Spec

\* The list of breakpoints never names one that the present GDB does not have, but
\* for those whose deletion is at work or was given up waiting for
\* (ADP-001, GDBBackend.ts:388-399).
THEOREM ListedBreakpointsAreOfGdb == Spec => []ListedBreakpointsExist
<1>1. Bookkept => ListedBreakpointsExist
  <2> SUFFICES ASSUME Bookkept, NEW b \in breakpoints, b.from = mi2, b.id \notin table[mi2]
               PROVE  \E n \in Removals : call[n].arg = b.id
                                          /\ call[n].st \in {"waiting", "ready", "lost"}
    BY DEF ListedBreakpointsExist
  <2>1. Deleted(b.id, mi2)
    BY DEF Bookkept, ListedIsHeld, Has
  <2>2. PICK n \in Calls : Deleting(call[n]) /\ call[n].arg = b.id /\ AtWork(n, mi2)
    BY <2>1 DEF Deleted
  <2>3. n \in Removals /\ call[n].st \in {"waiting", "ready", "lost"}
    BY <2>2 DEF Removals, Deleting, AtWork
  <2> QED
    BY <2>2, <2>3
<1> QED
  BY <1>1, BooksAreKept, PTL

\* Every breakpoint that setBreakpoint reported and the present GDB still has is in
\* the list, but for those whose number a removal that was called under another GDB
\* takes out of it (GDBBackend.ts:361-386, 751-778).
THEOREM ReportedBreakpointsAreListed == Spec => []SetBreakpointsListed
<1>1. Bookkept => SetBreakpointsListed
  BY DEF Bookkept
<1> QED
  BY <1>1, BooksAreKept, PTL

-----------------------------------------------------------------------------
(* Running and stopped.  What the backend says of the program is right but for *)
(* an initialize that returns late: it clears running, whatever it is.         *)

\* GDB has said that the program runs, and the backend has not read it.
Resumes(g) == \E i \in 1..Len(pipe[g]) : pipe[g][i].type = "running"

\* Whatever else it said of the program came before it said so.
LastResumes(g) ==
    \A i \in 1..Len(pipe[g]) : pipe[g][i].type \in {"stopped", "exited"} =>
        \E j \in 1..Len(pipe[g]) : j > i /\ pipe[g][j].type = "running"

Alone(g) == \A h \in Gdbs \ {g} : gdb[h] = "unused"

DeadIsIdle == \A g \in Gdbs : gdb[g] # "alive" => target[g] = "none"

\* An initialize that has not returned.
Pending(n) == call[n].op = "initialize" /\ call[n].st \in {"starting", "waiting", "ready"}

\* Until it returns, nobody has resumed the program but early.
EarlyCalls ==
    \A n \in Calls : Pending(n) /\ Alone(call[n].from) =>
        \A k \in Calls : call[k].op \in Resumers => call[k].early

SomeoneResumed ==
    \A g \in Gdbs : target[g] = "running" => \E k \in Calls : call[k].op \in Resumers

RunningIsTold ==
    mi2 # 0 /\ Alone(mi2) /\ target[mi2] = "running" =>
        LastResumes(mi2) /\ (running \/ Resumes(mi2) \/ ResumedEarly)

Told == DeadIsIdle /\ EarlyCalls /\ SomeoneResumed /\ RunningIsTold

LEMMA InitTold == Init => Told
BY DEF Init, Told, DeadIsIdle, EarlyCalls, SomeoneResumed, RunningIsTold, Pending, NoCall

\* A step in which no call begins, and none that is over goes on.
SameCalls ==
    \A n \in Calls :
        /\ call'[n].op = call[n].op /\ call'[n].early = call[n].early
        /\ call[n].op = "initialize" => call'[n].from = call[n].from
        /\ Pending(n)' => Pending(n)
        /\ call[n].st = "done" => call'[n].st = "done"

LEMMA SameCallsTold ==
    ASSUME SameCalls, mi2' = mi2, \A h \in Gdbs : gdb'[h] = "unused" => gdb[h] = "unused"
    PROVE  /\ EarlyCalls => EarlyCalls'
           /\ ResumedEarly => ResumedEarly'
           /\ SomeoneResumed /\ UNCHANGED target => SomeoneResumed'
<1>1. ASSUME EarlyCalls PROVE EarlyCalls'
  <2> SUFFICES ASSUME NEW n \in Calls, Pending(n)', Alone(call[n].from)',
                      NEW k \in Calls, call'[k].op \in Resumers
               PROVE  call'[k].early
    BY DEF EarlyCalls
  <2>1. Pending(n) /\ call'[n].from = call[n].from
    BY DEF SameCalls, Pending
  <2>2. Alone(call[n].from)
    BY <2>1 DEF Alone
  <2> QED
    BY <1>1, <2>1, <2>2 DEF EarlyCalls, SameCalls
<1>2. ASSUME ResumedEarly PROVE ResumedEarly'
  BY <1>2 DEF ResumedEarly, SameCalls
<1>3. ASSUME SomeoneResumed, UNCHANGED target PROVE SomeoneResumed'
  BY <1>3 DEF SomeoneResumed, SameCalls
<1> QED
  BY <1>1, <1>2, <1>3

\* Nothing that GDB says or does, or running, changes.
LEMMA SameTold ==
    ASSUME Told, SameCalls, UNCHANGED <<mi2, running, pipe, target, gdb>>
    PROVE  Told'
<1>1. EarlyCalls' /\ SomeoneResumed' /\ (ResumedEarly => ResumedEarly')
  BY SameCallsTold DEF Told
<1>2. RunningIsTold'
  BY <1>1 DEF Told, RunningIsTold, Alone, Resumes, LastResumes
<1> QED
  BY <1>1, <1>2 DEF Told, DeadIsIdle

\* The first call of a channel leaves it.
LEMMA LeaveSame ==
    ASSUME IInv, Bookkept, NEW g \in Gdbs, queue[g] # <<>>, NEW c \in CallRecords, Leave(g, c),
           c.op = First(g).op, c.arg = First(g).arg, c.from = First(g).from,
           c.step = First(g).step, c.early = First(g).early, c.st \in {"ready", "failed", "lost"}
    PROVE  SameCalls
<1>1. PICK k : k = Head(queue[g])
  OBVIOUS
<1>2. /\ k \in Calls /\ call[k].st = "waiting" /\ call'[k] = c
      /\ \A n \in Calls : n # k => call'[n] = call[n]
  BY <1>1, LeaveIs DEF Bookkept
<1>3. c.op = call[k].op /\ c.early = call[k].early /\ c.from = call[k].from
  BY <1>1 DEF First
<1> QED
  BY <1>2, <1>3 DEF SameCalls, Pending

\* An operation begins on the present GDB: while its initialize is not over it is early.
LEMMA UseTold ==
    ASSUME IInv, Bookkept, Told, NEW op, NEW arg \in Int, Use(op, arg), op # "initialize",
           mi2' = mi2, running' \in {running, TRUE}
    PROVE  Told'
<1>1. /\ mi2 \in Gdbs /\ UNCHANGED <<gdb, pipe, target>>
      /\ \E d \in CallRecords : /\ Begun(op, d)
                                /\ d.early = (op \in Resumers /\ Initializing(mi2))
  BY UseIs DEF process
<1>2. PICK d \in CallRecords : Begun(op, d) /\ d.early = (op \in Resumers /\ Initializing(mi2))
  BY <1>1
<1>3. PICK n : n = made + 1
  OBVIOUS
<1>4. /\ n \in Calls /\ call[n].op = "none" /\ ~call[n].early /\ call'[n] = d /\ d.op = op
      /\ \A k \in Calls : k # n => call'[k] = call[k]
  BY <1>2, <1>3, BegunIs DEF Begun
<1>5. EarlyCalls'
  <2> SUFFICES ASSUME NEW i \in Calls, Pending(i)', Alone(call[i].from)',
                      NEW k \in Calls, call'[k].op \in Resumers
               PROVE  call'[k].early
    BY DEF EarlyCalls
  <2>1. i # n /\ call'[i] = call[i] /\ Pending(i)
    BY <1>4 DEF Pending
  <2>2. Alone(call[i].from)
    BY <2>1, <1>1 DEF Alone
  <2>3. CASE k # n
    BY <2>1, <2>2, <2>3, <1>4 DEF Told, EarlyCalls
  <2>4. CASE k = n
    <3>1. gdb[mi2] # "unused"
      BY <1>1, FrameInt DEF Bookkept, UnusedIsIdle, Use
    <3>2. mi2 = call[i].from
      BY <3>1, <2>2, <1>1 DEF Alone
    <3>3. Initializing(mi2)
      BY <3>2, <2>1 DEF Initializing, Pending
    <3> QED
      BY <3>3, <2>4, <1>2, <1>4
  <2> QED
    BY <2>3, <2>4
<1>6. SomeoneResumed'
  <2>1. ASSUME NEW k \in Calls, call[k].op \in Resumers PROVE call'[k].op \in Resumers
    <3>1. k # n
      BY <2>1, <1>4 DEF Resumers
    <3> QED
      BY <2>1, <3>1, <1>4
  <2> QED
    BY <2>1, <1>1 DEF Told, SomeoneResumed
<1>7. ResumedEarly => ResumedEarly'
  BY <1>4 DEF ResumedEarly
<1>8. RunningIsTold'
  <2>1. running => running'
    OBVIOUS
  <2> QED
    BY <2>1, <1>1, <1>7 DEF Told, RunningIsTold, Alone, Resumes, LastResumes
<1>9. DeadIsIdle'
  BY <1>1 DEF Told, DeadIsIdle
<1> QED
  BY <1>5, <1>6, <1>8, <1>9 DEF Told

LEMMA TerminateTold ==
    ASSUME Told, Terminate
    PROVE  Told'
<1>1. mi2' = 0 /\ UNCHANGED <<call, gdb, target>>
  BY DEF Terminate, channel, process
<1> QED
  BY <1>1 DEF Told, DeadIsIdle, EarlyCalls, SomeoneResumed, RunningIsTold, Pending, Alone

\* A new GDB that is alone is the first: no call was made before its initialize.
LEMMA InitializeTold ==
    ASSUME IInv, Bookkept, Told, Initialize
    PROVE  Told'
<1>1. PICK g \in Gdbs :
        /\ gdb[g] = "unused" /\ mi2' = g /\ gdb' = [gdb EXCEPT ![g] = "alive"]
        /\ UNCHANGED target
        /\ \E d \in CallRecords : Begun("initialize", d) /\ d.from = g
  BY InitializeIs
<1>2. PICK d \in CallRecords : Begun("initialize", d) /\ d.from = g
  BY <1>1
<1>3. PICK n : n = made + 1
  OBVIOUS
<1>4. /\ n \in Calls /\ call[n].op = "none" /\ call'[n] = d /\ d.op = "initialize"
      /\ \A k \in Calls : k # n => call'[k] = call[k]
  BY <1>2, <1>3, BegunIs DEF Begun
<1>5. gdb'[g] = "alive" /\ \A h \in Gdbs : h # g => gdb'[h] = gdb[h]
  BY <1>1 DEF IInv, ProcessOK
<1>6. target[g] = "none"
  BY <1>1 DEF Told, DeadIsIdle
<1>7. ASSUME NEW k \in Calls, call[k].op # "none"
      PROVE  call[k].from \in Gdbs /\ call[k].from # g /\ gdb'[call[k].from] # "unused"
  BY <1>1, <1>5, <1>7, MadeCalls DEF Named, Bookkept, UnusedIsIdle
<1>8. EarlyCalls'
  <2> SUFFICES ASSUME NEW i \in Calls, Pending(i)', Alone(call[i].from)',
                      NEW k \in Calls, call'[k].op \in Resumers
               PROVE  FALSE
    BY DEF EarlyCalls
  <2>1. k # n /\ call[k].op # "none"
    BY <1>4 DEF Resumers
  <2>2. call[k].from \in Gdbs /\ call[k].from # g /\ gdb'[call[k].from] # "unused"
    BY <2>1, <1>7
  <2>3. CASE i = n
    BY <2>2, <2>3, <1>2, <1>4 DEF Alone
  <2>4. CASE i # n
    <3>1. call'[i] = call[i] /\ call[i].op # "none"
      BY <2>4, <1>4 DEF Pending
    <3>2. call'[i].from # g
      BY <3>1, <1>7
    <3> QED
      BY <3>2, <1>5 DEF Alone
  <2> QED
    BY <2>3, <2>4
<1>9. SomeoneResumed'
  <2>1. ASSUME NEW k \in Calls, call[k].op \in Resumers PROVE call'[k].op \in Resumers
    <3>1. k # n
      BY <2>1, <1>4 DEF Resumers
    <3> QED
      BY <2>1, <3>1, <1>4
  <2> QED
    BY <2>1, <1>1 DEF Told, SomeoneResumed
<1>10. RunningIsTold'
  BY <1>1, <1>6 DEF RunningIsTold
<1>11. DeadIsIdle'
  BY <1>1, <1>5 DEF Told, DeadIsIdle
<1> QED
  BY <1>8, <1>9, <1>10, <1>11 DEF Told

LEMMA OnReadyTold ==
    ASSUME IInv, Told, NEW n \in Calls, OnReady(n)
    PROVE  Told'
<1>1. PICK d : d = [call[n] EXCEPT !.st = "waiting"]
  OBVIOUS
<1>2. /\ call[n].st = "starting" /\ call[n] \in CallRecords
      /\ UNCHANGED <<fields, process>> /\ call' = [call EXCEPT ![n] = d]
  BY <1>1, StartingIs
<1>3. /\ d.op = call[n].op /\ d.from = call[n].from /\ d.early = call[n].early
      /\ d.st = "waiting"
  BY <1>1, <1>2 DEF CallRecords
<1>4. call'[n] = d /\ \A k \in Calls : k # n => call'[k] = call[k]
  BY <1>2 DEF IInv, ChannelOK
<1>5. SameCalls
  BY <1>2, <1>3, <1>4 DEF SameCalls, Pending
<1>6. UNCHANGED <<mi2, running, pipe, target, gdb>>
  BY <1>2 DEF fields, process
<1> QED
  BY <1>5, <1>6, SameTold

\* An initialize that returns clears running: whoever had resumed the program was early.
LEMMA ResumeTold ==
    ASSUME IInv, Bookkept, Told, NEW n \in Calls, Resume(n)
    PROVE  Told'
<1>1. /\ call[n].st = "ready" /\ n \in 1..made /\ Named(call[n]) /\ Effect(call[n])
      /\ mi2' = mi2 /\ UNCHANGED <<gdb, pipe>>
  BY ResumeIs
<1>2. PICK d \in CallRecords : Resumed(n, d)
  BY ResumeIs
<1>3. UNCHANGED target
  BY DEF Resume, process
<1>4. call[n].op = "initialize" => ~Left(call[n])
  BY <1>1, ScriptSteps DEF Named, Left
<1>5. /\ call'[n] = d /\ d.op = call[n].op /\ d.early = call[n].early
      /\ call[n].op = "initialize" => d.st = "done" /\ d.from = call[n].from
      /\ \A k \in Calls : k # n => call'[k] = call[k]
  BY <1>2, <1>4 DEF Resumed
<1>6. SameCalls
  BY <1>1, <1>5 DEF SameCalls, Pending
<1>7. EarlyCalls' /\ SomeoneResumed' /\ (ResumedEarly => ResumedEarly')
  BY <1>1, <1>3, <1>6, SameCallsTold DEF Told
<1>8. RunningIsTold'
  <2> SUFFICES ASSUME mi2 # 0, Alone(mi2), target[mi2] = "running"
               PROVE  LastResumes(mi2) /\ (running' \/ Resumes(mi2) \/ ResumedEarly')
    BY <1>1, <1>3 DEF RunningIsTold, Alone, Resumes, LastResumes
  <2>1. LastResumes(mi2) /\ (running \/ Resumes(mi2) \/ ResumedEarly)
    BY DEF Told, RunningIsTold
  <2>2. CASE call[n].op = "initialize"
    <3>1. call[n].from = mi2
      BY <1>1 DEF Named, Bookkept, UnusedIsIdle, Alone
    <3>2. PICK k \in Calls : call[k].op \in Resumers
      BY DEF Told, SomeoneResumed, IInv, FieldsOK
    <3>3. call[k].early
      BY <2>2, <3>1, <3>2, <1>1 DEF Told, EarlyCalls, Pending
    <3>4. ResumedEarly'
      BY <2>2, <3>1, <3>3, <1>1, <1>5, <1>6 DEF ResumedEarly, SameCalls
    <3> QED
      BY <2>1, <3>4
  <2>3. CASE call[n].op # "initialize"
    <3>1. running' = running \/ running' = TRUE
      <4>1. CASE call[n].op = "start"
        BY <4>1, <1>1 DEF Effect
      <4>2. CASE call[n].op \in {"switchThread", "setBreakpoint", "removeBreakpoint"}
        BY <4>2, <1>1 DEF Effect
      <4>3. CASE call[n].op = "removeAll"
        BY <4>3, <1>1 DEF Effect, fields
      <4>4. CASE call[n].op \notin {"start", "switchThread", "setBreakpoint",
                                    "removeBreakpoint", "removeAll"}
        BY <2>3, <4>4, <1>1 DEF Effect, fields
      <4> QED
        BY <4>1, <4>2, <4>3, <4>4
    <3> QED
      BY <2>1, <3>1, <1>7
  <2> QED
    BY <2>2, <2>3
<1>9. DeadIsIdle'
  BY <1>1, <1>3 DEF Told, DeadIsIdle
<1> QED
  BY <1>7, <1>8, <1>9 DEF Told

LEMMA SendTold ==
    ASSUME IInv, Bookkept, Told, NEW g \in Gdbs, Send(g)
    PROVE  Told'
<1>1. queue[g] # <<>> /\ UNCHANGED <<mi2, running, gdb, pipe, target>>
  BY DEF Send, fields
<1>a. CASE g \in killed
  <2> DEFINE c == [First(g) EXCEPT !.st = "failed"]
  <2>1. Leave(g, c)
    BY <1>a DEF Send
  <2>2. First(g) \in CallRecords
    BY <1>1, FirstWaits DEF First, IInv, ChannelOK, Bookkept, Orderly
  <2>3. /\ c \in CallRecords /\ c.op = First(g).op /\ c.arg = First(g).arg
        /\ c.from = First(g).from /\ c.step = First(g).step /\ c.early = First(g).early
        /\ c.st = "failed"
    BY <2>2 DEF CallRecords
  <2> HIDE DEF c
  <2>4. SameCalls
    BY <1>1, <2>1, <2>3, LeaveSame
  <2> QED
    BY <1>1, <2>4, SameTold
<1>b. CASE g \notin killed
  <2>1. UNCHANGED call
    BY <1>b DEF Send
  <2>2. SameCalls
    BY <2>1 DEF SameCalls, Pending
  <2> QED
    BY <1>1, <2>2, SameTold
<1> QED
  BY <1>a, <1>b

\* The exit event clears running of a program that is gone.
LEMMA TimeoutTold ==
    ASSUME IInv, Bookkept, Told, NEW g \in Gdbs, Timeout(g) \/ ExitEvent(g)
    PROVE  Told'
<1>1. UNCHANGED <<mi2, gdb, pipe, target>>
  BY DEF Timeout, ExitEvent, fields, process
<1>2. SameCalls
  <2>1. CASE g \in sent
    <3> DEFINE c == [First(g) EXCEPT !.st = "lost"]
    <3>1. Leave(g, c)
      BY <2>1 DEF Timeout, ExitEvent
    <3>2. queue[g] # <<>> /\ First(g) \in CallRecords
      BY <2>1, FirstType
    <3>3. /\ c \in CallRecords /\ c.op = First(g).op /\ c.arg = First(g).arg
          /\ c.from = First(g).from /\ c.step = First(g).step /\ c.early = First(g).early
          /\ c.st = "lost"
      BY <3>2 DEF CallRecords
    <3> HIDE DEF c
    <3> QED
      BY <3>1, <3>2, <3>3, LeaveSame
  <2>2. CASE g \notin sent
    <3>1. UNCHANGED call
      BY <2>2 DEF Timeout, ExitEvent
    <3> QED
      BY <3>1 DEF SameCalls, Pending
  <2> QED
    BY <2>1, <2>2
<1>3. CASE Timeout(g)
  <2>1. UNCHANGED running
    BY <1>3 DEF Timeout, fields
  <2> QED
    BY <2>1, <1>1, <1>2, SameTold
<1>4. CASE ExitEvent(g)
  <2>1. EarlyCalls' /\ SomeoneResumed'
    BY <1>1, <1>2, SameCallsTold DEF Told
  <2>2. RunningIsTold'
    <3> SUFFICES ASSUME mi2 # 0, Alone(mi2), target[mi2] = "running" PROVE FALSE
      BY <1>1 DEF RunningIsTold, Alone
    <3>1. gdb[g] = "dead"
      BY <1>4 DEF ExitEvent
    <3>2. g = mi2
      BY <3>1 DEF Alone
    <3> QED
      BY <3>1, <3>2 DEF Told, DeadIsIdle
  <2>3. DeadIsIdle'
    BY <1>1 DEF Told, DeadIsIdle
  <2> QED
    BY <2>1, <2>2, <2>3 DEF Told
<1> QED
  BY <1>3, <1>4

\* What is left to read after one line.
LEMMA ReadsOn ==
    ASSUME IInv, NEW g \in Gdbs, HandleLine(g)
    PROVE  /\ pipe[g] # <<>> /\ Head(pipe[g]) = pipe[g][1] /\ pipe'[g] = Tail(pipe[g])
           /\ \A h \in Gdbs : h # g => pipe'[h] = pipe[h]
           /\ \A i \in 1..Len(pipe'[g]) : pipe'[g][i] = pipe[g][i + 1] /\ i + 1 \in 1..Len(pipe[g])
           /\ \A j \in 1..Len(pipe[g]) : j > 1 => /\ j - 1 \in 1..Len(pipe'[g])
                                                  /\ pipe'[g][j - 1] = pipe[g][j]
<1>1. pipe[g] # <<>> /\ pipe' = [pipe EXCEPT ![g] = Tail(@)]
  BY DEF HandleLine
<1>2. /\ Head(pipe[g]) = pipe[g][1] /\ pipe'[g] = Tail(pipe[g])
      /\ \A h \in Gdbs : h # g => pipe'[h] = pipe[h]
  BY <1>1, TailRemains
<1>3. pipe[g] \in Seq(Lines)
  BY DEF IInv, ProcessOK
<1>4. /\ Len(pipe[g]) \in Nat /\ Len(pipe'[g]) = Len(pipe[g]) - 1
      /\ \A i \in 1..Len(pipe'[g]) : pipe'[g][i] = pipe[g][i + 1] /\ i + 1 \in 1..Len(pipe[g])
  <2>1. pipe[g] # <<>> /\ pipe'[g] = Tail(pipe[g])
    BY <1>1, <1>2
  <2> QED
    BY <2>1, <1>3, TailAt
<1>5. ASSUME NEW j \in 1..Len(pipe[g]), j > 1
      PROVE  j - 1 \in 1..Len(pipe'[g]) /\ pipe'[g][j - 1] = pipe[g][j]
  <2>1. j - 1 \in 1..Len(pipe'[g]) /\ (j - 1) + 1 = j
    BY <1>4, <1>5
  <2> QED
    BY <2>1, <1>4
<1> QED
  BY <1>1, <1>2, <1>4, <1>5

LEMMA HandleLineTells ==
    ASSUME IInv, Bookkept, Told, NEW g \in Gdbs, HandleLine(g), ResumedEarly => ResumedEarly'
    PROVE  RunningIsTold'
<1>1. UNCHANGED <<mi2, target, gdb>>
  BY DEF HandleLine
<1> SUFFICES ASSUME mi2 # 0, Alone(mi2), target[mi2] = "running"
             PROVE  (running' \/ Resumes(mi2)' \/ ResumedEarly') /\ LastResumes(mi2)'
  BY <1>1 DEF RunningIsTold, Alone, Resumes, LastResumes
<1>2. /\ pipe[g] # <<>> /\ Head(pipe[g]) = pipe[g][1] /\ pipe'[g] = Tail(pipe[g])
      /\ \A i \in 1..Len(pipe'[g]) : pipe'[g][i] = pipe[g][i + 1] /\ i + 1 \in 1..Len(pipe[g])
      /\ \A j \in 1..Len(pipe[g]) : j > 1 => /\ j - 1 \in 1..Len(pipe'[g])
                                             /\ pipe'[g][j - 1] = pipe[g][j]
  BY ReadsOn
<1>3. g = mi2 /\ mi2' = g
  BY <1>1, <1>2 DEF Bookkept, UnusedIsIdle, Alone
<1>4. (running \/ Resumes(g) \/ ResumedEarly) /\ LastResumes(g)
  BY <1>3 DEF Told, RunningIsTold
<1>5. pipe[g] \in Seq(Lines) /\ 1 \in 1..Len(pipe[g])
  BY <1>2 DEF IInv, ProcessOK
<1>6. (\E j \in 1..Len(pipe[g]) : j > 1 /\ pipe[g][j].type = "running") => Resumes(g)'
  <2> SUFFICES ASSUME NEW j \in 1..Len(pipe[g]), j > 1, pipe[g][j].type = "running"
               PROVE  \E i \in 1..Len(pipe'[g]) : pipe'[g][i].type = "running"
    BY DEF Resumes
  <2>1. j - 1 \in 1..Len(pipe'[g]) /\ pipe'[g][j - 1] = pipe[g][j]
    BY <1>2
  <2> QED
    BY <2>1
<1>7. running' \/ Resumes(g)' \/ ResumedEarly'
  <2> DEFINE r == Head(pipe[g])
  <2>1. CASE r.type \in {"stopped", "exited"}
    BY <2>1, <1>2, <1>4, <1>5, <1>6 DEF LastResumes
  <2>2. CASE r.type = "running"
    BY <2>2 DEF HandleLine, OnRunning
  <2>3. CASE r.type = "answer"
    <3>1. running' = running
      BY <2>3 DEF HandleLine
    <3>2. Resumes(g) => \E j \in 1..Len(pipe[g]) : j > 1 /\ pipe[g][j].type = "running"
      BY <2>3, <1>2, <1>5 DEF Resumes
    <3> QED
      BY <3>1, <3>2, <1>4, <1>6
  <2> QED
    BY <2>1, <2>2, <2>3 DEF HandleLine
<1>8. LastResumes(g)'
  <2> SUFFICES ASSUME NEW i \in 1..Len(pipe'[g]), pipe'[g][i].type \in {"stopped", "exited"}
               PROVE  \E j \in 1..Len(pipe'[g]) : j > i /\ pipe'[g][j].type = "running"
    BY DEF LastResumes
  <2>1. PICK j \in 1..Len(pipe[g]) : j > i + 1 /\ pipe[g][j].type = "running"
    BY <1>2, <1>4 DEF LastResumes
  <2>2. j > 1 /\ j - 1 > i
    BY <2>1, <1>5
  <2> QED
    BY <2>1, <2>2, <1>2
<1> QED
  BY <1>3, <1>7, <1>8

LEMMA HandleLineTold ==
    ASSUME IInv, Bookkept, Told, NEW g \in Gdbs, HandleLine(g)
    PROVE  Told'
<1>1. UNCHANGED <<mi2, target, gdb>>
  BY DEF HandleLine
<1> DEFINE r == Head(pipe[g])
           c == [First(g) EXCEPT !.st = IF r.ok THEN "ready" ELSE "failed",
                                 !.val = r.val, !.todo = @ \cup r.list]
<1>2. SameCalls
  <2>1. CASE UNCHANGED call
    BY <2>1 DEF SameCalls, Pending
  <2>2. CASE g \in sent /\ Leave(g, c)
    <3>1. queue[g] # <<>> /\ First(g) \in CallRecords
      BY <2>2, FirstType
    <3>2. r \in Lines
      BY DEF HandleLine, IInv, ProcessOK
    <3>3. r.val \in Nat /\ r.list \in SUBSET Bps
      BY <3>2 DEF Lines
    <3> HIDE DEF r
    <3>4. /\ c \in CallRecords /\ c.op = First(g).op /\ c.arg = First(g).arg
          /\ c.from = First(g).from /\ c.step = First(g).step /\ c.early = First(g).early
          /\ c.st \in {"ready", "failed"}
      BY <3>1, <3>3 DEF CallRecords
    <3> HIDE DEF c
    <3> QED
      BY <2>2, <3>1, <3>4, LeaveSame
  <2> QED
    BY <2>1, <2>2 DEF HandleLine, OnAnswer
<1> HIDE DEF r, c
<1>3. EarlyCalls' /\ SomeoneResumed' /\ (ResumedEarly => ResumedEarly')
  BY <1>1, <1>2, SameCallsTold DEF Told
<1>4. RunningIsTold' /\ DeadIsIdle'
  BY <1>1, <1>3, HandleLineTells DEF Told, DeadIsIdle
<1> QED
  BY <1>3, <1>4 DEF Told

\* The commands that run the program are those of the operations that resume it.
LEMMA ResumeCommands ==
    ASSUME IInv, NEW m \in GoodCommands, m.name \in {"run", "continue"}
    PROVE  m.call \in Calls /\ call[m.call].op \in Resumers
<1>1. m.call \in Calls /\ m.call \in 1..made
  BY CommandNames
<1>2. PICK op : op = call[m.call].op
  OBVIOUS
<1>3. op \in DOMAIN Script /\ m.step \in 1..Len(Script[op]) /\ m.name = Script[op][m.step]
  BY <1>1, <1>2 DEF GoodCommands, IInv, Honest, Named
<1>4. CASE op \in {"initialize", "launch", "attach", "pause", "selectFrame", "switchThread",
                   "locals"}
  <2>1. /\ Script["initialize"] = <<"init">> /\ Script["launch"] = <<"file", "insert">>
        /\ Script["attach"] = <<"attach">> /\ Script["pause"] = <<"interrupt">>
        /\ Script["selectFrame"] = <<"select">> /\ Script["switchThread"] = <<"thread">>
        /\ Script["locals"] = <<"read">>
    BY DEF Script
  <2> QED
    BY <1>3, <1>4, <2>1
<1>5. CASE op \in {"evaluate", "arguments", "setBreakpoint", "removeBreakpoint", "removeAll"}
  <2>1. /\ Script["evaluate"] = <<"select", "read">>
        /\ Script["arguments"] = <<"select", "readFrame">>
        /\ Script["setBreakpoint"] = <<"insert">>
        /\ Script["removeBreakpoint"] = <<"delete">>
        /\ Script["removeAll"] = <<"list", "delete">>
    BY DEF Script
  <2> QED
    BY <1>3, <1>5, <2>1
<1>6. CASE op \in {"start", "restart", "continue", "until"}
  BY <1>1, <1>2, <1>6 DEF Resumers
<1> QED
  BY <1>3, <1>4, <1>5, <1>6, ScriptType

LEMMA ExecutesTold ==
    ASSUME IInv, Bookkept, Told, NEW g \in Gdbs, GdbExecutes(g)
    PROVE  Told'
<1>1. /\ stdin[g] # <<>> /\ gdb[g] = "alive" /\ stdin' = [stdin EXCEPT ![g] = Tail(@)]
      /\ UNCHANGED <<call, queue, chunk, mi2, running, gdb>> /\ Executes(g, Head(stdin[g]))
  BY DEF GdbExecutes, channel, fields
<1>2. stdin \in [Gdbs -> Seq(Messages)] /\ pipe \in [Gdbs -> Seq(Lines)]
      /\ target \in [Gdbs -> {"none", "stopped", "running"}]
  BY DEF IInv, ProcessOK
<1>3. PICK m : m = Head(stdin[g])
  OBVIOUS
<1>4. /\ m \in Messages /\ m = stdin[g][1] /\ 1 \in 1..Len(stdin[g])
      /\ stdin'[g] = Tail(stdin[g])
      /\ \A i \in 1..Len(stdin'[g]) : stdin'[g][i] = stdin[g][i + 1] /\ i + 1 \in 1..Len(stdin[g])
      /\ \A h \in Gdbs : h # g => stdin'[h] = stdin[h]
  BY <1>1, <1>2, <1>3, TailAt
<1>5. m \in GoodCommands
  BY <1>4 DEF IInv, Honest
<1>6. PICK lines \in Seq(Lines) : \E a \in 1..Len(lines) :
          /\ Output(g, lines) /\ OneAnswer(lines, a, m)
          /\ Runs(g, m, lines) \/ Attaches(g, m) \/ Stays(lines)
  BY <1>1, <1>3, <1>4, WhatGdbDoes
<1>7. PICK a \in 1..Len(lines) :
          /\ Output(g, lines) /\ OneAnswer(lines, a, m)
          /\ Runs(g, m, lines) \/ Attaches(g, m) \/ Stays(lines)
  BY <1>6
<1>8. /\ Len(pipe'[g]) = Len(pipe[g]) + Len(lines)
      /\ Len(pipe[g]) \in Nat /\ Len(lines) \in Nat
      /\ \A i \in 1..Len(pipe[g]) : pipe'[g][i] = pipe[g][i]
      /\ \A i \in Len(pipe[g]) + 1 .. Len(pipe'[g]) :
             pipe'[g][i] = lines[i - Len(pipe[g])] /\ i - Len(pipe[g]) \in 1..Len(lines)
      /\ \A h \in Gdbs : h # g => pipe'[h] = pipe[h]
  BY <1>7, EventsAt
<1>9. \A i \in 1..Len(pipe[g]) : i \in 1..Len(pipe'[g]) /\ pipe'[g][i] = pipe[g][i]
  BY <1>8
<1>10. Resumes(g) => Resumes(g)'
  BY <1>9 DEF Resumes
<1>11. \A h \in Gdbs : h # g => target'[h] = target[h]
  BY <1>2, <1>7 DEF Runs, Attaches, Stays
\* GDB says last that the program runs
<1>12. ASSUME Runs(g, m, lines)
       PROVE  /\ Len(pipe'[g]) \in 1..Len(pipe'[g])
              /\ pipe'[g][Len(pipe'[g])].type = "running"
  <2>1. /\ Len(pipe'[g]) \in Len(pipe[g]) + 1 .. Len(pipe'[g])
        /\ Len(pipe'[g]) - Len(pipe[g]) = Len(lines) /\ Len(pipe'[g]) \in 1..Len(pipe'[g])
    BY <1>8
  <2>2. pipe'[g][Len(pipe'[g])] = lines[Len(lines)]
    BY <2>1, <1>8
  <2> QED
    BY <2>1, <2>2, <1>12 DEF Runs
<1>13. DeadIsIdle'
  BY <1>1, <1>11 DEF Told, DeadIsIdle
<1>14. RunningIsTold'
  <2> SUFFICES ASSUME mi2 # 0, Alone(mi2), target'[mi2] = "running"
               PROVE  (running \/ Resumes(mi2)' \/ ResumedEarly) /\ LastResumes(mi2)'
    BY <1>1 DEF RunningIsTold, Alone, Resumes, LastResumes, ResumedEarly
  <2>1. g = mi2 /\ mi2' = mi2
    BY <1>1 DEF Alone
  <2>2. CASE Runs(g, m, lines)
    <3>1. Resumes(g)'
      BY <2>2, <1>12 DEF Resumes
    <3>2. ASSUME NEW i \in 1..Len(pipe'[g]), pipe'[g][i].type \in {"stopped", "exited"}
          PROVE  \E j \in 1..Len(pipe'[g]) : j > i /\ pipe'[g][j].type = "running"
      <4>1. i # Len(pipe'[g])
        BY <2>2, <3>2, <1>12
      <4>2. Len(pipe'[g]) > i
        BY <4>1, <1>8
      <4> QED
        BY <4>2, <2>2, <1>12
    <3> QED
      BY <2>1, <3>1, <3>2 DEF LastResumes
  <2>3. CASE Stays(lines)
    <3>1. (running \/ Resumes(g) \/ ResumedEarly) /\ LastResumes(g)
      BY <2>1, <2>3 DEF Told, RunningIsTold, Stays
    <3>2. ASSUME NEW i \in 1..Len(pipe'[g]), pipe'[g][i].type \in {"stopped", "exited"}
          PROVE  i \in 1..Len(pipe[g]) /\ pipe'[g][i] = pipe[g][i]
      <4>1. i \in Len(pipe[g]) + 1 .. Len(pipe'[g]) \/ i \in 1..Len(pipe[g])
        BY <1>8
      <4> QED
        BY <4>1, <3>2, <2>3, <1>8 DEF Stays, IsAnswer
    <3>3. LastResumes(g)'
      <4>1. ASSUME NEW i \in 1..Len(pipe'[g]), pipe'[g][i].type \in {"stopped", "exited"}
            PROVE  \E j \in 1..Len(pipe'[g]) : j > i /\ pipe'[g][j].type = "running"
        <5>1. PICK j \in 1..Len(pipe[g]) : j > i /\ pipe[g][j].type = "running"
          BY <4>1, <3>1, <3>2 DEF LastResumes
        <5>2. j \in 1..Len(pipe'[g]) /\ pipe'[g][j] = pipe[g][j]
          BY <1>9
        <5> QED
          BY <5>1, <5>2
      <4> QED
        BY <4>1 DEF LastResumes
    <3> QED
      BY <2>1, <3>1, <3>3, <1>10
  <2>4. CASE Attaches(g, m)
    BY <2>1, <2>4, <1>2 DEF Attaches
  <2> QED
    BY <2>2, <2>3, <2>4, <1>7
<1>15. SameCalls
  BY <1>1 DEF SameCalls, Pending
<1>16. EarlyCalls' /\ (ResumedEarly => ResumedEarly')
  BY <1>1, <1>15, SameCallsTold DEF Told
\* GDB runs the program at the command of an operation that resumes it
<1>17. SomeoneResumed'
  <2>1. CASE Runs(g, m, lines)
    <3>1. m.call \in Calls /\ call[m.call].op \in Resumers
      BY <2>1, <1>5, ResumeCommands DEF Runs
    <3> QED
      BY <3>1, <1>1 DEF SomeoneResumed
  <2>2. CASE Attaches(g, m) \/ Stays(lines)
    <3>1. \A h \in Gdbs : target'[h] = "running" => target[h] = "running"
      BY <2>2, <1>2 DEF Attaches, Stays
    <3> QED
      BY <3>1, <1>1 DEF Told, SomeoneResumed
  <2> QED
    BY <2>1, <2>2, <1>7
<1> QED
  BY <1>13, <1>14, <1>16, <1>17 DEF Told

\* Nothing runs on g any more.
LEMMA HaltsTold ==
    ASSUME IInv, Told, NEW g \in Gdbs, DebuggeeHalts(g) \/ GdbDies(g)
    PROVE  Told'
<1>1. gdb[g] = "alive" /\ UNCHANGED <<call, mi2, running>>
  BY DEF DebuggeeHalts, GdbDies, channel, fields
<1>2. /\ target'[g] # "running" /\ \A h \in Gdbs : h # g => target'[h] = target[h]
      /\ gdb'[g] # "alive" => target'[g] = "none"
      /\ gdb'[g] # "unused" /\ \A h \in Gdbs : h # g => gdb'[h] = gdb[h]
  BY <1>1 DEF DebuggeeHalts, GdbDies, IInv, ProcessOK
<1>3. SameCalls
  BY <1>1 DEF SameCalls, Pending
<1>4. EarlyCalls'
  BY <1>1, <1>2, <1>3, SameCallsTold DEF Told
<1>5. SomeoneResumed'
  BY <1>1, <1>2 DEF Told, SomeoneResumed
<1>6. RunningIsTold'
  <2> SUFFICES ASSUME mi2 # 0, Alone(mi2)', target'[mi2] = "running" PROVE FALSE
    BY <1>1 DEF RunningIsTold
  <2>1. g = mi2
    BY <1>1, <1>2 DEF Alone
  <2> QED
    BY <2>1, <1>2
<1>7. DeadIsIdle'
  BY <1>2 DEF Told, DeadIsIdle
<1> QED
  BY <1>4, <1>5, <1>6, <1>7 DEF Told

LEMMA OperationsTold ==
    ASSUME IInv, Bookkept, Told, Operation
    PROVE  Told'
<1>1. ASSUME NEW f \in Frames, SelectFrame(f) PROVE Told'
  <2>1. Use("selectFrame", f) /\ UNCHANGED <<mi2, running>> /\ f \in Int
    BY <1>1, FrameInt DEF SelectFrame
  <2> QED
    BY <2>1, UseTold
<1>2. CASE Initialize \/ Terminate
  BY <1>2, InitializeTold, TerminateTold
<1>3. CASE Plain
  <2>1. PICK op \in {"launch", "attach", "start", "restart", "pause", "until", "locals",
                     "switchThread", "setBreakpoint", "removeAll"} : Use(op, 0)
    BY <1>3 DEF Plain
  <2>2. UNCHANGED <<mi2, running>>
    BY <1>3 DEF Plain, fields
  <2> QED
    BY <2>1, <2>2, UseTold
<1>4. CASE Continue
  <2>1. Use("continue", 0) /\ UNCHANGED mi2 /\ running' = TRUE
    BY <1>4 DEF Continue
  <2> QED
    BY <2>1, UseTold
<1>5. CASE FrameUp
  <2>1. currentFrameId + 1 \in Frames
    BY <1>5, ConstantsAssumption DEF FrameUp, IInv, FieldsOK, Frames
  <2> QED
    BY <1>1, <1>5, <2>1 DEF FrameUp
<1>6. CASE FrameDown
  <2>1. currentFrameId - 1 \in Frames
    BY <1>6, ConstantsAssumption DEF FrameDown, IInv, FieldsOK, Frames
  <2> QED
    BY <1>1, <1>6, <2>1 DEF FrameDown
<1>7. CASE GotoFrame
  BY <1>1, <1>7 DEF GotoFrame
<1>8. CASE Inspect
  <2>1. PICK op \in {"evaluate", "arguments"}, f \in Frames : Use(op, f)
    BY <1>8 DEF Inspect
  <2>2. UNCHANGED <<mi2, running>> /\ f \in Int
    BY <1>8, FrameInt DEF Inspect, fields
  <2> QED
    BY <2>1, <2>2, UseTold
<1>9. CASE RemoveBreakpoint
  <2>1. PICK b \in Bps : Use("removeBreakpoint", b)
    BY <1>9 DEF RemoveBreakpoint
  <2>2. UNCHANGED <<mi2, running>> /\ b \in Int
    BY <1>9, FrameInt DEF RemoveBreakpoint, fields
  <2> QED
    BY <2>1, <2>2, UseTold
<1> QED
  BY <1>2, <1>3, <1>4, <1>5, <1>6, <1>7, <1>8, <1>9 DEF Operation

LEMMA NextTold == IInv /\ Bookkept /\ Told /\ [Next]_vars => Told'
<1> SUFFICES ASSUME IInv, Bookkept, Told, [Next]_vars PROVE Told'
  OBVIOUS
<1>1. CASE Operation
  BY <1>1, OperationsTold
<1>2. ASSUME NEW n \in Calls, OnReady(n) \/ Resume(n) PROVE Told'
  BY <1>2, OnReadyTold, ResumeTold
<1>3. ASSUME NEW g \in Gdbs, Send(g) \/ Timeout(g) \/ HandleLine(g) \/ ExitEvent(g)
      PROVE  Told'
  BY <1>3, SendTold, TimeoutTold, HandleLineTold
<1>4. ASSUME NEW g \in Gdbs, GdbExecutes(g) \/ DebuggeeHalts(g) \/ GdbDies(g)
      PROVE  Told'
  BY <1>4, ExecutesTold, HaltsTold
<1>5. CASE UNCHANGED vars
  <2>1. SameCalls /\ UNCHANGED <<mi2, running, pipe, target, gdb>>
    BY <1>5 DEF SameCalls, Pending, vars, fields, channel, process
  <2> QED
    BY <2>1, SameTold
<1> QED
  BY <1>1, <1>2, <1>3, <1>4, <1>5 DEF Next

\* A backend with one GDB that says the program does not run is right from the moment
\* it has read that it was resumed: no order of the lines, lost answer or exit makes it
\* miss one.  The exception is a caller that resumed the program before the initialize
\* that started its GDB returned, which clears running (GDBBackend.ts:79, 87-114, 245-286).
THEOREM StoppedReportsAreTrue == Spec => []StoppedReportIsTrue
<1>1. Told => StoppedReportIsTrue
  BY DEF Told, RunningIsTold, StoppedReportIsTrue, Alone, Resumes
<1>2. Init => Told
  BY InitTold
<1>3. IInv /\ Bookkept /\ Told /\ [Next]_vars => Told'
  BY NextTold
<1> QED
  BY <1>1, <1>2, <1>3, Invariant, BooksAreKept, PTL DEF Spec

=============================================================================
