-------------------------- MODULE Subagents_proofs --------------------------
(***************************************************************************)
(* Theorems about Subagents for any number of tasks and workers, and about *)
(* AgentCalls, which makes the call.                                       *)
(***************************************************************************)
EXTENDS AgentCalls, FiniteSetTheorems, TLAPS

\* Tasks are handed out in order; one handed out has its result stored or is
\* awaited by a worker, and no worker is free while tasks remain.
Assignment ==
    /\ phase = "idle" => count = 0
    /\ phase \in {"idle", "refused"} => next = 1
    /\ phase \in {"idle", "refused", "done"} => AllReturned
    /\ phase \in {"running", "done", "failed"} => next <= count + 1 /\ count <= MaxTasks
    /\ phase = "running" /\ next <= count => \A w \in Workers : worker[w] # 0
    /\ phase = "done" => next > count
    /\ \A w \in Workers : worker[w] < next
    /\ OneWorkerPerTask
    /\ \A t \in Tasks : t < next =>
          \/ results[t] # "none"
          \/ \E w \in Workers : worker[w] = t
          \/ phase = "failed" /\ outcome[t] = "thrown"
    /\ \A t \in Tasks : results[t] # "none" => results[t] = outcome[t] /\ results[t] # "thrown"

\* What a task has gone through, from its child, its timer and its outcome.
TaskState(t) ==
    /\ t >= next => child[t] = "none" /\ outcome[t] = "none" /\ t \notin timer
    /\ t \in timer => outcome[t] = "none"
    /\ t < next /\ outcome[t] = "none" => t \in timer
    /\ outcome[t] \in {"ok", "failed"} => child[t] = "closed"
    /\ outcome[t] \in Unspawned => child[t] = "none"
    /\ child[t] = "running" => outcome[t] \in {"none", "error"}

IInv == TypeOK /\ Assignment /\ \A t \in Tasks : TaskState(t)

-----------------------------------------------------------------------------
LEMMA InitIInv == Init => IInv
<1> SUFFICES ASSUME Init PROVE IInv
  OBVIOUS
<1> USE ConstantsAssumption DEF Init
<1>1. TypeOK
  BY DEF TypeOK, Children
<1>2. Assignment
  BY DEF Assignment, AllReturned, OneWorkerPerTask, Tasks
<1>3. \A t \in Tasks : TaskState(t)
  BY DEF TaskState, Tasks
<1> QED
  BY <1>1, <1>2, <1>3 DEF IInv

LEMMA RunSingleType ==
    ASSUME TypeOK, NEW ts \in SUBSET Tasks, NEW verdict \in [ts -> Verdicts],
           RunSingle(ts, verdict)
    PROVE  /\ child' \in [Tasks -> Children]
           /\ timer' \subseteq Tasks
           /\ outcome' \in [Tasks -> Outcomes \cup {"none"}]
BY DEF TypeOK, RunSingle, Alive, Children, Verdicts, Outcomes, Unspawned

\* What RunSingle does to the tasks it starts and to the others.
LEMMA RunSingleTasks ==
    ASSUME IInv, NEW k \in Nat, k <= MaxTasks, NEW ts \in SUBSET Tasks,
           ts = next..k, next' = k + 1, next <= next',
           NEW verdict \in [ts -> Verdicts], RunSingle(ts, verdict)
    PROVE  \A t \in Tasks : TaskState(t)'
<1> SUFFICES ASSUME NEW t \in Tasks PROVE TaskState(t)'
  OBVIOUS
<1>1. next \in Nat /\ next' \in Nat /\ t \in Nat /\ TaskState(t)
  BY ConstantsAssumption DEF IInv, TypeOK, Tasks
<1>2. CASE t \in ts
  <2>1. t >= next /\ t < next' /\ verdict[t] \in Verdicts
    BY <1>1, <1>2
  <2>2. /\ child'[t] = IF verdict[t] \notin Unspawned THEN verdict[t] ELSE child[t]
        /\ t \in timer' <=> verdict[t] \notin Unspawned
        /\ outcome'[t] = IF verdict[t] \in Unspawned THEN verdict[t] ELSE outcome[t]
    BY <1>1, <1>2, <2>1 DEF RunSingle, TaskState
  <2> QED
    BY <1>1, <2>1, <2>2 DEF TaskState, Verdicts, Unspawned
<1>3. CASE t \notin ts
  <2>1. (t >= next' => t >= next) /\ (t < next' => t < next)
    BY <1>1, <1>3
  <2>2. child'[t] = child[t] /\ (t \in timer' <=> t \in timer) /\ outcome'[t] = outcome[t]
    BY <1>3 DEF RunSingle
  <2> QED
    BY <1>1, <2>1, <2>2 DEF TaskState
<1> QED
  BY <1>2, <1>3

\* RunParallel starts the tasks 1..k, and all workers if there are more.
LEMMA StartWorkersStep ==
    ASSUME IInv, phase = "idle", NEW n \in TaskCounts, count' = n, ~TooMany(n),
           StartWorkers(n), UNCHANGED results
    PROVE  IInv'
<1> USE ConstantsAssumption
<1> DEFINE k == IF n < MaxConcurrency THEN n ELSE MaxConcurrency
<1>1. /\ k \in Nat /\ k <= n /\ k <= MaxConcurrency /\ n \in Nat /\ n <= MaxTasks
      /\ k < n => k = MaxConcurrency
  BY DEF TooMany
<1>2. /\ next = 1 /\ AllReturned
      /\ \A t \in Tasks : results[t] = "none" \/ results[t] = outcome[t]
      /\ \A t \in Tasks : outcome[t] = "none"
  BY DEF IInv, Assignment, TaskState, Tasks
<1>3. PICK verdict \in [1..k -> Verdicts] : RunSingle(1..k, verdict)
  BY DEF StartWorkers
<1>4. /\ phase' = "running" /\ next' = k + 1
      /\ worker' = [w \in Workers |-> IF w <= k THEN w ELSE 0]
  BY DEF StartWorkers
<1> HIDE DEF k
<1>5. 1..k \in SUBSET Tasks
  BY <1>1 DEF Tasks
<1>6. \A t \in Tasks : TaskState(t)'
  BY <1>1, <1>2, <1>3, <1>4, <1>5, RunSingleTasks
<1>7. TypeOK'
  <2>1. worker' \in [Workers -> Tasks \cup {0}]
    BY <1>1, <1>4 DEF Workers, Tasks
  <2>2. next' \in 1..(MaxTasks + 1)
    BY <1>1, <1>4
  <2> QED
    BY <1>3, <1>4, <1>5, <2>1, <2>2, RunSingleType DEF IInv, TypeOK
<1>8. Assignment'
  <2>1. \A t \in Tasks : t < next' => \E w \in Workers : worker'[w] = t
    BY <1>1, <1>4 DEF Workers, Tasks
  <2>2. \A t \in Tasks : results'[t] = "none"
    BY <1>2 DEF IInv, TypeOK
  <2>3. next' <= count' => \A w \in Workers : worker'[w] # 0
    BY <1>1, <1>4 DEF Workers
  <2>4. \A w \in Workers : worker'[w] < next'
    BY <1>1, <1>4 DEF Workers
  <2>5. OneWorkerPerTask'
    BY <1>4 DEF OneWorkerPerTask, Workers
  <2> QED
    BY <1>1, <1>4, <2>1, <2>2, <2>3, <2>4, <2>5 DEF Assignment
<1> QED
  BY <1>6, <1>7, <1>8 DEF IInv

LEMMA RunNextStep ==
    ASSUME IInv, NEW w \in Workers, RunNext(w)
    PROVE  IInv'
<1> USE ConstantsAssumption
<1> DEFINE u == worker[w]
<1>1. /\ u \in Tasks /\ outcome[u] \notin {"none", "thrown"} /\ u < next
      /\ phase \in {"running", "failed"}
      /\ results' = [results EXCEPT ![u] = outcome[u]]
      /\ phase' = phase /\ count' = count /\ count \in Nat /\ count <= MaxTasks /\ next \in Nat /\ next >= 1
  BY DEF IInv, TypeOK, Assignment, AllReturned, RunNext, Resumable, Tasks, Workers
<1>2. CASE MoreTasks
  <2>0. next <= count /\ next \in Tasks
    BY <1>1, <1>2 DEF MoreTasks, Tasks
  <2>1. worker' = [worker EXCEPT ![w] = next] /\ next' = next + 1
    BY <1>2 DEF RunNext, TakeNext
  <2>2. PICK verdict \in [{next} -> Verdicts] : RunSingle({next}, verdict)
    BY <1>2 DEF RunNext, TakeNext
  <2>3. {next} = next..next /\ {next} \in SUBSET Tasks
    BY <1>1, <2>0
  <2>4. \A t \in Tasks : TaskState(t)'
    <3>1. next \in Nat /\ next <= MaxTasks /\ next <= next'
      BY <1>1, <2>0, <2>1 DEF Tasks
    <3> QED
      BY <2>1, <2>2, <2>3, <3>1, RunSingleTasks
  <2>5. TypeOK'
    <3>1. worker' \in [Workers -> Tasks \cup {0}] /\ results' \in [Tasks -> Outcomes \cup {"none"}]
      BY <1>1, <2>0, <2>1 DEF IInv, TypeOK
    <3>2. next' \in 1..(MaxTasks + 1)
      BY <1>1, <2>0, <2>1
    <3> QED
      BY <1>1, <2>2, <2>3, <3>1, <3>2, RunSingleType DEF IInv, TypeOK
  <2>6. Assignment'
    <3>1. \A t \in Tasks : t < next => outcome'[t] = outcome[t]
      BY <1>1, <2>2 DEF RunSingle, Tasks
    <3>2. \A t \in Tasks : results'[t] # "none" => results'[t] = outcome'[t] /\ results'[t] # "thrown"
      <4>1. \A t \in Tasks : t >= next => results[t] = "none"
        BY DEF IInv, Assignment, TaskState
      <4> QED
        BY <1>1, <3>1, <4>1 DEF IInv, TypeOK, Assignment, Tasks
    <3>3. \A t \in Tasks : t < next' =>
             \/ results'[t] # "none"
             \/ \E v \in Workers : worker'[v] = t
             \/ phase' = "failed" /\ outcome'[t] = "thrown"
      BY <1>1, <2>1, <3>1 DEF IInv, TypeOK, Assignment, Tasks
    <3>4. \A v \in Workers : worker'[v] < next'
      BY <1>1, <2>0, <2>1 DEF IInv, TypeOK, Assignment, Tasks
    <3>5. phase = "running" => \A v \in Workers : worker'[v] # 0
      BY <1>1, <2>0, <2>1 DEF IInv, TypeOK, Assignment, Tasks
    <3>6. OneWorkerPerTask'
      <4>1. \A v \in Workers : worker[v] # next
        BY <1>1, <2>0 DEF IInv, TypeOK, Assignment, Tasks
      <4> QED
        BY <2>0, <2>1, <4>1 DEF IInv, TypeOK, Assignment, OneWorkerPerTask
    <3> QED
      BY <1>1, <2>0, <2>1, <3>2, <3>3, <3>4, <3>5, <3>6 DEF Assignment
  <2> QED
    BY <2>4, <2>5, <2>6 DEF IInv
<1>3. CASE ~MoreTasks
  <2>1. worker' = [worker EXCEPT ![w] = 0] /\ UNCHANGED <<next, child, timer, outcome>>
    BY <1>3 DEF RunNext
  <2>2. TypeOK'
    BY <1>1, <2>1 DEF IInv, TypeOK
  <2>3. \A t \in Tasks : TaskState(t)'
    BY <2>1 DEF IInv, TaskState
  <2>4. Assignment'
    <3>1. OneWorkerPerTask'
      BY <2>1 DEF IInv, TypeOK, Assignment, OneWorkerPerTask
    <3> QED
      BY <1>1, <1>3, <2>1, <3>1 DEF IInv, TypeOK, Assignment, AllReturned, MoreTasks, Tasks
  <2> QED
    BY <2>2, <2>3, <2>4 DEF IInv
<1> QED
  BY <1>2, <1>3

LEMMA RunNextThrowsStep ==
    ASSUME IInv, NEW w \in Workers, RunNextThrows(w)
    PROVE  IInv'
<1> USE ConstantsAssumption
<1> DEFINE u == worker[w]
<1>1. /\ u \in Tasks /\ outcome[u] = "thrown" /\ phase \in {"running", "failed"}
      /\ phase' = "failed" /\ worker' = [worker EXCEPT ![w] = 0]
      /\ UNCHANGED <<count, next, child, timer, outcome, results>>
  BY DEF IInv, TypeOK, Assignment, AllReturned, RunNextThrows, Resumable
<1>2. TypeOK'
  BY <1>1 DEF IInv, TypeOK
<1>3. \A t \in Tasks : TaskState(t)'
  BY <1>1 DEF IInv, TaskState
<1>4. Assignment'
  <2>1. OneWorkerPerTask'
    BY <1>1 DEF IInv, TypeOK, Assignment, OneWorkerPerTask
  <2> QED
    BY <1>1, <2>1 DEF IInv, TypeOK, Assignment, Tasks
<1> QED
  BY <1>2, <1>3, <1>4 DEF IInv

\* The events of a task leave the assignment of tasks alone, as long as they
\* settle only tasks that have not settled.
LEMMA EventStep ==
    ASSUME IInv, NEW t \in Tasks, UNCHANGED <<phase, count, next, worker, results>>,
           \A u \in Tasks \ {t} : child'[u] = child[u] /\ outcome'[u] = outcome[u],
           timer' \in {timer, timer \ {t}},
           outcome'[t] = outcome[t] \/ outcome[t] = "none",
           TypeOK', TaskState(t)'
    PROVE  IInv'
<1>1. \A u \in Tasks : TaskState(u)'
  BY DEF IInv, TaskState
<1>2. \A u \in Tasks : results[u] # "none" => outcome[u] # "none"
  BY DEF IInv, Assignment
<1>3. Assignment'
  BY <1>2 DEF IInv, Assignment, AllReturned, OneWorkerPerTask
<1> QED
  BY <1>1, <1>3 DEF IInv

LEMMA IInvStep == IInv /\ [Next]_vars => IInv'
<1> SUFFICES ASSUME IInv, [Next]_vars PROVE IInv'
  OBVIOUS
<1> USE ConstantsAssumption
<1>1. CASE RunParallel
  <2> PICK n \in TaskCounts :
          /\ phase = "idle" /\ count' = n /\ UNCHANGED results
          /\ \/ /\ TooMany(n)
                /\ phase' = "refused"
                /\ UNCHANGED <<next, worker, child, timer, outcome>>
             \/ ~TooMany(n) /\ StartWorkers(n)
    BY <1>1 DEF RunParallel
  <2>1. CASE TooMany(n)
    BY <2>1 DEF IInv, TypeOK, Assignment, AllReturned, OneWorkerPerTask, TaskState
  <2>2. CASE ~TooMany(n)
    BY <2>2, StartWorkersStep
  <2> QED
    BY <2>1, <2>2
<1>2. ASSUME NEW w \in Workers, RunNext(w) \/ RunNextThrows(w) PROVE IInv'
  <2>1. CASE RunNext(w)
    BY <2>1, RunNextStep
  <2>2. CASE RunNextThrows(w)
    BY <2>2, RunNextThrowsStep
  <2> QED
    BY <1>2, <2>1, <2>2
<1>3. CASE Finish
  <2>1. next > count
    BY <1>3 DEF Finish, IInv, TypeOK, Assignment, AllReturned, Workers
  <2> QED
    BY <1>3, <2>1 DEF Finish, IInv, TypeOK, Assignment, AllReturned, OneWorkerPerTask, TaskState
<1>4. ASSUME NEW t \in Tasks, Timeout(t) PROVE IInv'
  <2>1. TaskState(t) /\ outcome[t] = "none"
    BY <1>4 DEF Timeout, IInv, TaskState
  <2>2. TypeOK'
    BY <1>4 DEF Timeout, Kill, Resolve, IInv, TypeOK, Children, Alive, Outcomes, Unspawned
  <2>3. TaskState(t)'
    BY <1>4, <2>1 DEF Timeout, Kill, Resolve, IInv, TypeOK, TaskState, Unspawned
  <2> QED
    BY <1>4, <2>1, <2>2, <2>3, EventStep DEF Timeout, Kill, Resolve, IInv, TypeOK
<1>5. ASSUME NEW t \in Tasks, Close(t) PROVE IInv'
  <2>1. TaskState(t)
    BY DEF IInv
  <2>2. TypeOK'
    BY <1>5 DEF Close, ClearTimer, Resolve, IInv, TypeOK, Children, Alive, Outcomes, Unspawned
  <2>3. TaskState(t)'
    BY <1>5, <2>1 DEF Close, ClearTimer, Resolve, IInv, TypeOK, TaskState, Unspawned
  <2> QED
    BY <1>5, <2>1, <2>2, <2>3, EventStep DEF Close, ClearTimer, Resolve, IInv, TypeOK
<1>6. ASSUME NEW t \in Tasks, SpawnError(t) PROVE IInv'
  <2>1. TaskState(t)
    BY DEF IInv
  <2>2. TypeOK'
    BY <1>6 DEF SpawnError, ClearTimer, Resolve, IInv, TypeOK, Children, Alive, Outcomes, Unspawned
  <2>3. TaskState(t)'
    BY <1>6, <2>1 DEF SpawnError, ClearTimer, Resolve, IInv, TypeOK, TaskState, Unspawned
  <2> QED
    BY <1>6, <2>1, <2>2, <2>3, EventStep DEF SpawnError, ClearTimer, Resolve, IInv, TypeOK
<1>7. ASSUME NEW t \in Tasks, ChildEnds(t) PROVE IInv'
  <2>1. TaskState(t)
    BY DEF IInv
  <2>2. TypeOK'
    BY <1>7 DEF ChildEnds, IInv, TypeOK, Children, Alive
  <2>3. TaskState(t)'
    BY <1>7, <2>1 DEF ChildEnds, IInv, TypeOK, TaskState, Alive
  <2> QED
    BY <1>7, <2>1, <2>2, <2>3, EventStep DEF ChildEnds, IInv, TypeOK
<1>8. CASE UNCHANGED vars
  BY <1>8 DEF vars, IInv, TypeOK, Assignment, AllReturned, OneWorkerPerTask, TaskState
<1> QED
  BY <1>1, <1>2, <1>3, <1>4, <1>5, <1>6, <1>7, <1>8 DEF Next, CallProceeds

LEMMA Invariance == Spec => []IInv
<1> QED
  BY InitIInv, IInvStep, PTL DEF Spec

-----------------------------------------------------------------------------
(* The theorems. *)

\* Every variable keeps its type, whatever the children do: a worker awaits a task that
\* exists, and a result is stored in its place (SubagentOrchestrator.ts:113-140).
THEOREM TypeCorrect == Spec => []TypeOK
<1>1. IInv => TypeOK
  BY DEF IInv
<1> QED
  BY <1>1, Invariance, PTL

\* SubagentOrchestrator.ts:123-140: when the call resolves, every task has its
\* own result at its own index.
THEOREM EveryTaskReported == Spec => []ResultsComplete
<1>1. IInv => ResultsComplete
  <2> SUFFICES ASSUME IInv, phase = "done", NEW t \in 1..count
               PROVE  results[t] \notin {"none", "thrown"} /\ results[t] = outcome[t]
    BY DEF ResultsComplete
  <2>1. t \in Tasks /\ t < next /\ AllReturned
    BY ConstantsAssumption DEF IInv, TypeOK, Assignment, Tasks
  <2> QED
    BY <2>1 DEF IInv, Assignment, AllReturned, Tasks
<1> QED
  BY <1>1, Invariance, PTL

\* SubagentOrchestrator.ts:126-137: at most maxConcurrency children are alive
\* that the call still waits for.
THEOREM AwaitedChildrenLimited == Spec => []AwaitedLimit
<1>1. IInv => AwaitedLimit
  <2> SUFFICES ASSUME IInv PROVE AwaitedLimit
    OBVIOUS
  <2> DEFINE S   == {t \in Tasks : child[t] \in Alive /\ outcome[t] \notin {"timeout", "error"}}
             Im  == {worker[w] : w \in Workers}
  <2>1. S \subseteq Im
    <3> SUFFICES ASSUME NEW t \in S PROVE \E w \in Workers : worker[w] = t
      OBVIOUS
    <3>1. outcome[t] = "none" /\ ~(t >= next) /\ t \in Tasks
      BY DEF IInv, TypeOK, TaskState, Alive, Outcomes, Unspawned
    <3>2. t < next
      BY <3>1, ConstantsAssumption DEF IInv, TypeOK, Tasks
    <3> QED
      BY <3>1, <3>2 DEF IInv, Assignment
  <2>2. IsFiniteSet(Workers) /\ Cardinality(Workers) = MaxConcurrency
    BY FS_Interval, ConstantsAssumption DEF Workers
  <2>3. worker \in Surjection(Workers, Im)
    BY DEF IInv, TypeOK, Surjection
  <2>4. IsFiniteSet(Im) /\ Cardinality(Im) <= MaxConcurrency
    BY <2>2, <2>3, FS_Surjection
  <2>5. Cardinality(S) <= Cardinality(Im) /\ IsFiniteSet(S)
    BY <2>1, <2>4, FS_Subset
  <2>6. Cardinality(S) \in Nat /\ Cardinality(Im) \in Nat
    BY <2>4, <2>5, FS_CardinalityType
  <2> QED
    BY <2>4, <2>5, <2>6, ConstantsAssumption DEF AwaitedLimit
<1> QED
  BY <1>1, Invariance, PTL

\* SubagentOrchestrator.ts:208-253: no timer is armed for a settled task.
THEOREM TimersAreOwned == Spec => []TimerOwnsTask
<1>1. IInv => TimerOwnsTask
  BY DEF IInv, TypeOK, TaskState, TimerOwnsTask
<1> QED
  BY <1>1, Invariance, PTL

\* SubagentOrchestrator.ts:123-137: all workers are busy while tasks remain.
THEOREM WorkIsConserved == Spec => []WorkConserving
<1>1. IInv => WorkConserving
  <2> SUFFICES ASSUME IInv, phase = "running", next <= count
               PROVE  Cardinality({w \in Workers : worker[w] # 0}) = MaxConcurrency
    BY DEF WorkConserving
  <2>1. {w \in Workers : worker[w] # 0} = Workers
    BY DEF IInv, Assignment
  <2>2. Cardinality(Workers) = MaxConcurrency
    BY FS_Interval, ConstantsAssumption DEF Workers
  <2> QED
    BY <2>1, <2>2
<1> QED
  BY <1>1, Invariance, PTL

\* SubagentOrchestrator.ts:208-222: a child nobody waits for has been signalled.
THEOREM ChildrenAreKilled == Spec => []NoAbandonedChild
<1>1. IInv => NoAbandonedChild
  BY DEF IInv, TaskState, NoAbandonedChild
<1> QED
  BY <1>1, Invariance, PTL

-----------------------------------------------------------------------------
(* The calls of the routes and of the command (AgentCalls). *)

\* An answer 200 holds the results of the call, which has resolved.
AnswerInv == answer.status = "200" => phase = "done" /\ answer.data = results

LEMMA StepIsOfTheCall == [CallerNext]_allVars => [Next]_vars
BY DEF CallerNext, allVars, callerVars, NotAnArray, RouteCalls, RouteAnswers, HandleCommand,
       InitCommand, CreateAgentCommand, OtherCommand, Command, Next, vars

\* Nothing changes the results of a call that has resolved.
LEMMA ResolvedCallStays ==
    ASSUME IInv, [Next]_vars, phase = "done"
    PROVE  phase' = "done" /\ results' = results
<1>1. AllReturned
  BY DEF IInv, Assignment
<1>2. \A w \in Workers : ~Resumable(w)
  BY <1>1 DEF AllReturned, Resumable
<1> QED
  BY <1>2 DEF Next, CallProceeds, RunParallel, RunNext, RunNextThrows, Finish, Timeout, Close,
     SpawnError, ChildEnds, vars

LEMMA AnswerInvInit == CallerInit => AnswerInv
BY DEF CallerInit, AnswerInv, NoAnswer, Answer

LEMMA AnswerInvStep == IInv /\ AnswerInv /\ [CallerNext]_allVars => AnswerInv'
<1> SUFFICES ASSUME IInv, AnswerInv, [CallerNext]_allVars PROVE AnswerInv'
  OBVIOUS
<1>1. [Next]_vars
  BY StepIsOfTheCall
<1>2. CASE UNCHANGED answer
  BY <1>1, <1>2, ResolvedCallStays DEF AnswerInv
<1>3. CASE NotAnArray \/ HandleCommand
  BY <1>3 DEF NotAnArray, HandleCommand, InitCommand, CreateAgentCommand, OtherCommand, Command,
     Answer, AnswerInv
<1>4. CASE RouteAnswers
  <2>1. answer' = [status |-> Status, data |-> IF Status = "200" THEN results ELSE NoData]
    BY <1>4 DEF RouteAnswers, Answer
  <2>2. UNCHANGED <<phase, results>>
    BY <1>4 DEF RouteAnswers, vars
  <2>3. Status = "200" => phase = "done"
    BY DEF Status
  <2> QED
    BY <2>1, <2>2, <2>3 DEF AnswerInv
<1>5. CASE RouteCalls
  BY <1>2, <1>5 DEF RouteCalls
<1>6. CASE UNCHANGED callerVars
  BY <1>2, <1>6 DEF callerVars
<1> QED
  BY <1>3, <1>4, <1>5, <1>6 DEF CallerNext, allVars

-----------------------------------------------------------------------------
(* The theorems about the callers. *)

\* What the callers see is a call of runParallelSubagents: every behaviour of the
\* composition is one of Subagents (subagents.routes.ts:86).
THEOREM CallersMakeOneCall == CallerSpec => Spec
<1>1. CallerInit => Init
  BY DEF CallerInit
<1> QED
  BY <1>1, StepIsOfTheCall, PTL DEF CallerSpec, Spec

\* subagents.routes.ts:85-104: an answer 200 holds the outcome of every task.
THEOREM AnswersAreTrue == CallerSpec => []AnswerIsTrue
<1>1. IInv /\ AnswerInv => AnswerIsTrue
  <2> SUFFICES ASSUME IInv, AnswerInv, answer.status = "200", NEW t \in 1..count
               PROVE  answer.data[t] \notin {"none", "thrown"} /\ answer.data[t] = outcome[t]
    BY DEF AnswerIsTrue
  <2>1. phase = "done" /\ answer.data = results
    BY DEF AnswerInv
  <2>2. t \in Tasks /\ t < next /\ AllReturned
    BY <2>1, ConstantsAssumption DEF IInv, TypeOK, Assignment, Tasks
  <2> QED
    BY <2>1, <2>2 DEF IInv, Assignment, AllReturned, Tasks
<1>2. CallerSpec => []IInv
  BY CallersMakeOneCall, Invariance, PTL
<1> QED
  BY <1>1, <1>2, AnswerInvInit, AnswerInvStep, PTL DEF CallerSpec

-----------------------------------------------------------------------------
(* What is left of CallerAnswered without fairness: a call that can always *)
(* go on, and does so finitely often.                                      *)

\* SubagentOrchestrator.ts:187-222: no task waits without a timer.
THEOREM WaitingTasksAreTimed == Spec => []WaitingIsTimed
<1>1. IInv => WaitingIsTimed
  BY DEF IInv, TaskState, WaitingIsTimed
<1> QED
  BY <1>1, Invariance, PTL

\* SubagentOrchestrator.ts:126-131: a task has one worker.
THEOREM NoTaskIsTakenTwice == Spec => []OneWorkerPerTask
<1>1. IInv => OneWorkerPerTask
  BY DEF IInv, Assignment
<1> QED
  BY <1>1, Invariance, PTL

\* The call is made by the route only, which answers by itself or makes it.
CallerInv ==
    /\ caller # "route" => phase = "idle"
    /\ caller = "none" => answer = NoAnswer
    /\ caller = "route" /\ phase = "idle" => answer # NoAnswer

LEMMA CallerInvInit == CallerInit => CallerInv
BY DEF CallerInit, Init, CallerInv

LEMMA OnlyARequestCalls ==
    ASSUME IInv, phase = "idle", CallProceeds
    PROVE  FALSE
<1>1. \A w \in Workers : ~Resumable(w)
  BY DEF IInv, Assignment, AllReturned, Resumable
<1>2. \A t \in Tasks : child[t] = "none" /\ t \notin timer
  BY ConstantsAssumption DEF IInv, Assignment, TaskState, Tasks
<1> QED
  BY <1>1, <1>2 DEF CallProceeds, RunNext, RunNextThrows, Finish, Timeout, Close, SpawnError,
     ChildEnds, Alive

LEMMA CallNeverGoesBack ==
    ASSUME IInv, CallProceeds
    PROVE  phase' # "idle"
BY OnlyARequestCalls DEF CallProceeds, RunNext, RunNextThrows, Finish, Timeout, Close,
   SpawnError, ChildEnds

\* An answer that was given is not NoAnswer, by its status.
LEMMA AnswersDiffer ==
    ASSUME NEW status, NEW data, status # "none"
    PROVE  Answer(status, data) # NoAnswer
BY DEF Answer, NoAnswer

LEMMA CallerInvStep == IInv /\ CallerInv /\ [CallerNext]_allVars => CallerInv'
<1> SUFFICES ASSUME IInv, CallerInv, [CallerNext]_allVars PROVE CallerInv'
  OBVIOUS
<1>1. CASE NotAnArray
  BY <1>1, AnswersDiffer DEF NotAnArray, CallerInv
<1>2. CASE RouteCalls
  BY <1>2 DEF RouteCalls, RunParallel, StartWorkers, CallerInv
<1>3. CASE RouteAnswers
  BY <1>3 DEF RouteAnswers, CallerInv, vars
<1>4. CASE HandleCommand
  BY <1>4, AnswersDiffer DEF HandleCommand, InitCommand, CreateAgentCommand, OtherCommand,
     Command, CallerInv, vars
<1>5. CASE CallProceeds /\ UNCHANGED callerVars
  <2>1. phase # "idle" /\ phase' # "idle" /\ caller' = caller
    BY <1>5, OnlyARequestCalls, CallNeverGoesBack DEF callerVars
  <2> QED
    BY <2>1 DEF CallerInv
<1>6. CASE UNCHANGED allVars
  BY <1>6 DEF allVars, vars, callerVars, CallerInv
<1> QED
  BY <1>1, <1>2, <1>3, <1>4, <1>5, <1>6 DEF CallerNext

LEMMA CallerInvariance == CallerSpec => [](IInv /\ CallerInv)
<1>1. CallerSpec => []IInv
  BY CallersMakeOneCall, Invariance, PTL
<1> QED
  BY <1>1, CallerInvInit, CallerInvStep, PTL DEF CallerSpec

\* subagents.routes.ts:71-105, SubagentOrchestrator.ts:126-253: as long as a request waits,
\* a continuation is ready, or a timer is armed, or the answer is due.
THEOREM RequestIsNeverStuck == CallerSpec => []NeverStuck
<1>1. IInv /\ CallerInv => NeverStuck
  <2> SUFFICES ASSUME IInv, CallerInv, caller = "route", answer = NoAnswer,
                      phase \notin {"done", "refused", "failed"}, ~AllReturned, Drained
               PROVE  timer # {}
    BY DEF NeverStuck, IInv, TypeOK, CallerInv, Drained
  <2>1. PICK w \in Workers : worker[w] # 0
    BY DEF AllReturned
  <2>2. worker[w] \in Tasks /\ worker[w] < next /\ outcome[worker[w]] = "none"
    BY <2>1 DEF Drained, Resumable, IInv, TypeOK, Assignment
  <2> QED
    BY <2>2 DEF IInv, TaskState
<1> QED
  BY <1>1, CallerInvariance, PTL

-----------------------------------------------------------------------------
(* Every step of the call says something new and takes nothing back. *)

Left(t) == t < next /\ \A w \in Workers : worker[w] # t
Over(t) == child[t] \in {"ended0", "ended", "closed"}

\* What a step may do to the facts of a task.
Ages(t) ==
    /\ outcome[t] # "none" => outcome'[t] # "none"
    /\ Left(t) => Left(t)'
    /\ Over(t) => Over(t)'
    /\ child[t] = "closed" => child'[t] = "closed"

\* A task that is started has neither settled nor ended before.
LEMMA RunSingleAges ==
    ASSUME IInv, NEW ts \in SUBSET Tasks, \A t \in ts : t >= next,
           NEW verdict \in [ts -> Verdicts], RunSingle(ts, verdict),
           NEW t \in Tasks, Left(t) => Left(t)'
    PROVE  Ages(t)
<1>1. CASE t \in ts
  <2>1. child[t] = "none" /\ outcome[t] = "none"
    BY <1>1 DEF IInv, TaskState
  <2> QED
    BY <2>1 DEF Ages, Over
<1>2. CASE t \notin ts
  <2>1. child'[t] = child[t] /\ outcome'[t] = outcome[t]
    BY <1>2 DEF RunSingle
  <2> QED
    BY <2>1 DEF Ages, Over
<1> QED
  BY <1>1, <1>2

LEMMA RunParallelAges ==
    ASSUME IInv, RunParallel, NEW t \in Tasks
    PROVE  Ages(t)
<1>1. PICK n \in TaskCounts :
          \/ UNCHANGED <<next, worker, child, timer, outcome>>
          \/ ~TooMany(n) /\ StartWorkers(n)
  BY DEF RunParallel
<1>2. CASE UNCHANGED <<next, worker, child, timer, outcome>>
  BY <1>2 DEF Ages, Left, Over
<1>3. CASE ~TooMany(n) /\ StartWorkers(n)
  <2> DEFINE k == IF n < MaxConcurrency THEN n ELSE MaxConcurrency
  <2>1. n \in Nat /\ n <= MaxTasks /\ k \in Nat /\ k <= MaxTasks /\ MaxTasks \in Nat
    BY <1>3, ConstantsAssumption DEF TooMany
  <2>2. next = 1
    BY DEF RunParallel, IInv, Assignment
  <2>3. PICK verdict \in [1..k -> Verdicts] : RunSingle(1..k, verdict)
    BY <1>3 DEF StartWorkers
  <2>4. 1..k \in SUBSET Tasks /\ \A u \in 1..k : u >= next
    BY <2>1, <2>2 DEF Tasks
  <2>5. ~Left(t)
    BY <2>1, <2>2 DEF Left, Tasks
  <2> HIDE DEF k
  <2> QED
    BY <2>3, <2>4, <2>5, RunSingleAges
<1> QED
  BY <1>1, <1>2, <1>3

\* The task of a worker that goes on is left by the only worker it had.
LEMMA WorkerGoesOn ==
    ASSUME IInv, NEW w \in Workers, RunNext(w) \/ RunNextThrows(w),
           NEW u, u = worker[w]
    PROVE  /\ u \in Tasks /\ ~Left(u) /\ Left(u)'
           /\ \A t \in Tasks : Ages(t)
<1> USE ConstantsAssumption
<1>1. /\ worker[w] = u /\ u \in Tasks /\ u < next /\ next \in Nat
      /\ \A v \in Workers : worker[v] = u => v = w
  BY DEF RunNext, RunNextThrows, Resumable, IInv, TypeOK, Assignment, OneWorkerPerTask
<1>2. ~Left(u)
  BY DEF Left
<1>3. CASE UNCHANGED <<next, child, outcome>> /\ worker' = [worker EXCEPT ![w] = 0]
  <2>1. Left(u)'
    BY <1>1, <1>3 DEF Left, IInv, TypeOK, Tasks
  <2>2. \A t \in Tasks : Ages(t)
    BY <1>3 DEF Ages, Left, Over, IInv, TypeOK, Tasks
  <2> QED
    BY <1>1, <1>2, <2>1, <2>2
<1>4. CASE RunNext(w) /\ MoreTasks /\ TakeNext(w)
  <2>1. worker' = [worker EXCEPT ![w] = next] /\ next' = next + 1 /\ next \in Tasks
    BY <1>4 DEF RunNext, TakeNext, MoreTasks, Resumable, IInv, TypeOK, Assignment, AllReturned,
       Tasks
  <2>2. PICK verdict \in [{next} -> Verdicts] : RunSingle({next}, verdict)
    BY <1>4 DEF TakeNext
  <2>3. Left(u)'
    BY <1>1, <2>1 DEF Left, IInv, TypeOK, Tasks
  <2>4. ASSUME NEW t \in Tasks PROVE Left(t) => Left(t)'
    BY <1>1, <2>1 DEF Left, IInv, TypeOK, Tasks
  <2>5. {next} \in SUBSET Tasks /\ \A v \in {next} : v >= next
    BY <1>1, <2>1
  <2>6. ASSUME NEW t \in Tasks PROVE Ages(t)
    BY <2>2, <2>4, <2>5, RunSingleAges
  <2> QED
    BY <1>1, <1>2, <2>3, <2>6
<1>5. CASE RunNextThrows(w)
  BY <1>3, <1>5 DEF RunNextThrows
<1>6. CASE RunNext(w) /\ ~MoreTasks
  BY <1>3, <1>6 DEF RunNext
<1> QED
  BY <1>4, <1>5, <1>6 DEF RunNext

\* An event settles its task, or ends or closes its child.
LEMMA EventHappens ==
    ASSUME IInv, NEW u \in Tasks, Timeout(u) \/ Close(u) \/ SpawnError(u) \/ ChildEnds(u)
    PROVE  /\ \A t \in Tasks : Ages(t)
           /\ \/ outcome[u] = "none" /\ outcome'[u] # "none"
              \/ ~Over(u) /\ Over(u)'
              \/ child[u] # "closed" /\ child'[u] = "closed"
<1>1. UNCHANGED <<next, worker>>
  BY DEF Timeout, Close, SpawnError, ChildEnds
<1>2. CASE Timeout(u)
  <2>1. outcome[u] = "none"
    BY <1>2 DEF Timeout, IInv, TaskState
  <2>2. outcome'[u] # "none"
    BY <1>2, <2>1 DEF Timeout, Resolve, IInv, TypeOK
  <2>3. ASSUME NEW t \in Tasks PROVE Ages(t)
    BY <1>1, <1>2 DEF Timeout, Resolve, Kill, Ages, Left, Over, IInv, TypeOK
  <2> QED
    BY <2>1, <2>2, <2>3
<1>3. CASE Close(u)
  <2>1. ASSUME NEW t \in Tasks PROVE Ages(t)
    BY <1>1, <1>3 DEF Close, Resolve, Ages, Left, Over, IInv, TypeOK
  <2> QED
    BY <1>3, <2>1 DEF Close, IInv, TypeOK
<1>4. CASE SpawnError(u)
  <2>1. ASSUME NEW t \in Tasks PROVE Ages(t)
    BY <1>1, <1>4 DEF SpawnError, Resolve, Ages, Left, Over, IInv, TypeOK
  <2> QED
    BY <1>4, <2>1 DEF SpawnError, Over, IInv, TypeOK
<1>5. CASE ChildEnds(u)
  <2>1. PICK how \in {"ended0", "ended"} : child' = [child EXCEPT ![u] = how]
    BY <1>5 DEF ChildEnds
  <2>2. child[u] \in {"running", "signalled"} /\ outcome' = outcome
    BY <1>5 DEF ChildEnds, Alive
  <2>3. ASSUME NEW t \in Tasks PROVE Ages(t)
    BY <1>1, <2>1, <2>2 DEF Ages, Left, Over, IInv, TypeOK
  <2> QED
    BY <2>1, <2>2, <2>3 DEF Over, IInv, TypeOK
<1> QED
  BY <1>2, <1>3, <1>4, <1>5

LEMMA TaskFactsStay ==
    ASSUME NEW t \in Tasks, Ages(t), NEW f \in TaskFacts, TaskFact(t, f)
    PROVE  TaskFact(t, f)'
<1>1. CASE f = "settled"
  BY <1>1 DEF TaskFact, Ages
<1>2. CASE f = "left"
  BY <1>2 DEF TaskFact, Ages, Left
<1>3. CASE f = "ended"
  BY <1>3 DEF TaskFact, Ages, Over
<1>4. CASE f = "closed"
  BY <1>4 DEF TaskFact, Ages
<1> QED
  BY <1>1, <1>2, <1>3, <1>4 DEF TaskFacts

\* What is said of the call and of its request stays true as well.
LEMMA CallFactsStay ==
    ASSUME IInv, CallerInv, CallerNext, NEW f \in CallFacts, CallFact(f)
    PROVE  CallFact(f)'
<1>1. CASE f = "called"
  BY <1>1 DEF CallFact, CallerNext, NotAnArray, RouteCalls, RouteAnswers, HandleCommand,
     InitCommand, CreateAgentCommand, OtherCommand, Command, callerVars
<1>2. CASE f = "answered"
  BY <1>2 DEF CallFact, CallerNext, CallerInv, NotAnArray, RouteCalls, RouteAnswers,
     HandleCommand, InitCommand, CreateAgentCommand, OtherCommand, Command, callerVars
<1>3. CASE f = "resolved"
  <2>1. phase \in {"done", "refused", "failed"}
    BY <1>3 DEF CallFact
  <2>2. [Next]_vars
    BY StepIsOfTheCall
  <2>3. phase' \in {"done", "refused", "failed"}
    BY <2>1, <2>2 DEF Next, CallProceeds, RunParallel, RunNext, RunNextThrows, Finish, Timeout,
       Close, SpawnError, ChildEnds, vars
  <2> QED
    BY <1>3, <2>3 DEF CallFact
<1> QED
  BY <1>1, <1>2, <1>3 DEF CallFacts

LEMMA TasksAge == ASSUME IInv, CallerNext, NEW t \in Tasks PROVE Ages(t)
<1>1. CASE UNCHANGED vars
  BY <1>1 DEF vars, Ages, Left, Over
<1>2. CASE RouteCalls
  BY <1>2, RunParallelAges DEF RouteCalls
<1>3. CASE CallProceeds
  <2>1. CASE Finish
    BY <2>1 DEF Finish, Ages, Left, Over
  <2>2. ASSUME NEW w \in Workers, RunNext(w) \/ RunNextThrows(w) PROVE Ages(t)
    BY <2>2, WorkerGoesOn
  <2>3. ASSUME NEW u \in Tasks, Timeout(u) \/ Close(u) \/ SpawnError(u) \/ ChildEnds(u)
        PROVE  Ages(t)
    BY <2>3, EventHappens
  <2> QED
    BY <1>3, <2>1, <2>2, <2>3 DEF CallProceeds
<1> QED
  BY <1>1, <1>2, <1>3 DEF CallerNext, NotAnArray, RouteAnswers, HandleCommand, InitCommand,
     CreateAgentCommand, OtherCommand, Command

\* Some fact is new.
New == \/ \E t \in Tasks, f \in TaskFacts : ~TaskFact(t, f) /\ TaskFact(t, f)'
       \/ \E f \in CallFacts : ~CallFact(f) /\ CallFact(f)'

LEMMA SomethingIsNew == ASSUME IInv, CallerInv, CallerNext PROVE New
<1>1. CASE NotAnArray \/ RouteCalls \/ HandleCommand
  <2>1. caller = "none" /\ caller' # "none"
    BY <1>1 DEF NotAnArray, RouteCalls, HandleCommand, InitCommand, CreateAgentCommand,
       OtherCommand, Command
  <2>2. ~CallFact("called") /\ CallFact("called")' /\ "called" \in CallFacts
    BY <2>1 DEF CallFact, CallFacts
  <2> QED
    BY <2>2 DEF New
<1>2. CASE RouteAnswers
  <2>1. answer = NoAnswer /\ answer' # NoAnswer
    BY <1>2, AnswersDiffer DEF RouteAnswers, Status
  <2>2. ~CallFact("answered") /\ CallFact("answered")' /\ "answered" \in CallFacts
    BY <2>1 DEF CallFact, CallFacts
  <2> QED
    BY <2>2 DEF New
<1>3. CASE Finish
  <2>1. ~CallFact("resolved") /\ CallFact("resolved")' /\ "resolved" \in CallFacts
    BY <1>3 DEF Finish, CallFact, CallFacts
  <2> QED
    BY <2>1 DEF New
<1>4. ASSUME NEW w \in Workers, RunNext(w) \/ RunNextThrows(w) PROVE New
  <2>1. PICK u : u = worker[w]
    OBVIOUS
  <2>2. u \in Tasks /\ ~Left(u) /\ Left(u)'
    BY <1>4, <2>1, WorkerGoesOn
  <2>3. ~TaskFact(u, "left") /\ TaskFact(u, "left")' /\ "left" \in TaskFacts
    BY <2>2 DEF TaskFact, TaskFacts, Left
  <2> QED
    BY <2>2, <2>3 DEF New
<1>5. ASSUME NEW u \in Tasks, Timeout(u) \/ Close(u) \/ SpawnError(u) \/ ChildEnds(u)
      PROVE  New
  <2>1. CASE outcome[u] = "none" /\ outcome'[u] # "none"
    <3>1. ~TaskFact(u, "settled") /\ TaskFact(u, "settled")' /\ "settled" \in TaskFacts
      BY <2>1 DEF TaskFact, TaskFacts
    <3> QED
      BY <3>1 DEF New
  <2>2. CASE ~Over(u) /\ Over(u)'
    <3>1. ~TaskFact(u, "ended") /\ TaskFact(u, "ended")' /\ "ended" \in TaskFacts
      BY <2>2 DEF TaskFact, TaskFacts, Over
    <3> QED
      BY <3>1 DEF New
  <2>3. CASE child[u] # "closed" /\ child'[u] = "closed"
    <3>1. ~TaskFact(u, "closed") /\ TaskFact(u, "closed")' /\ "closed" \in TaskFacts
      BY <2>3 DEF TaskFact, TaskFacts
    <3> QED
      BY <3>1 DEF New
  <2> QED
    BY <1>5, <2>1, <2>2, <2>3, EventHappens
<1> QED
  BY <1>1, <1>2, <1>3, <1>4, <1>5 DEF CallerNext, CallProceeds

LEMMA WhatRemainsShrinks ==
    ASSUME IInv, CallerInv, CallerNext
    PROVE  Remaining' \subseteq Remaining /\ Remaining' # Remaining
<1>1. \A t \in Tasks, f \in TaskFacts : TaskFact(t, f) => TaskFact(t, f)'
  BY TasksAge, TaskFactsStay
<1>2. \A f \in CallFacts : CallFact(f) => CallFact(f)'
  BY CallFactsStay
<1>3. Remaining' \subseteq Remaining
  BY <1>1, <1>2 DEF Remaining
<1>4. ASSUME NEW t \in Tasks, NEW f \in TaskFacts, ~TaskFact(t, f), TaskFact(t, f)'
      PROVE  Remaining' # Remaining
  <2>1. <<t, f>> \in Remaining /\ t # 0
    BY <1>4, ConstantsAssumption DEF Remaining, Tasks
  <2>2. <<t, f>> \notin Remaining'
    BY <1>4, <2>1 DEF Remaining
  <2> QED
    BY <2>1, <2>2
<1>5. ASSUME NEW f \in CallFacts, ~CallFact(f), CallFact(f)'
      PROVE  Remaining' # Remaining
  <2>1. <<0, f>> \in Remaining /\ 0 \notin Tasks
    BY <1>5, ConstantsAssumption DEF Remaining, Tasks
  <2>2. <<0, f>> \notin Remaining'
    BY <1>5, <2>1 DEF Remaining
  <2> QED
    BY <2>1, <2>2
<1> QED
  BY <1>3, <1>4, <1>5, SomethingIsNew DEF New

\* subagents.routes.ts:71-105, SubagentOrchestrator.ts:123-253: every continuation, timer and
\* event brings the call, a task or a child further, and none brings anything back.
THEOREM NoStepIsIdle == CallerSpec => EveryStepCounts
<1>1. IInv /\ CallerInv /\ [CallerNext]_allVars
          => [Remaining' \subseteq Remaining /\ Remaining' # Remaining]_allVars
  BY WhatRemainsShrinks
<1> QED
  BY <1>1, CallerInvariance, PTL DEF CallerSpec, EveryStepCounts

LEMMA FactsAreFinite ==
    IsFiniteSet(Remaining) /\ Cardinality(Remaining) \in 0..(4 * MaxTasks + 3)
<1> DEFINE A == Tasks \X TaskFacts
           B == {0} \X CallFacts
<1>1. IsFiniteSet(Tasks) /\ Cardinality(Tasks) = MaxTasks /\ MaxTasks \in Nat
  BY FS_Interval, ConstantsAssumption DEF Tasks
<1>2. IsFiniteSet(TaskFacts) /\ Cardinality(TaskFacts) = 4
  <2>1. IsFiniteSet({"settled"}) /\ Cardinality({"settled"}) = 1
    BY FS_Singleton
  <2>2. IsFiniteSet({"settled", "left"}) /\ Cardinality({"settled", "left"}) = 2
    <3>1. {"settled", "left"} = {"settled"} \cup {"left"}
      OBVIOUS
    <3> QED
      BY <2>1, <3>1, FS_AddElement
  <2>3. /\ IsFiniteSet({"settled", "left", "ended"})
        /\ Cardinality({"settled", "left", "ended"}) = 3
    <3>1. {"settled", "left", "ended"} = {"settled", "left"} \cup {"ended"}
      OBVIOUS
    <3> QED
      BY <2>2, <3>1, FS_AddElement
  <2>4. TaskFacts = {"settled", "left", "ended"} \cup {"closed"}
    BY DEF TaskFacts
  <2> QED
    BY <2>3, <2>4, FS_AddElement
<1>3. IsFiniteSet(CallFacts) /\ Cardinality(CallFacts) = 3
  <2>1. IsFiniteSet({"called"}) /\ Cardinality({"called"}) = 1
    BY FS_Singleton
  <2>2. IsFiniteSet({"called", "resolved"}) /\ Cardinality({"called", "resolved"}) = 2
    <3>1. {"called", "resolved"} = {"called"} \cup {"resolved"}
      OBVIOUS
    <3> QED
      BY <2>1, <3>1, FS_AddElement
  <2>3. CallFacts = {"called", "resolved"} \cup {"answered"}
    BY DEF CallFacts
  <2> QED
    BY <2>2, <2>3, FS_AddElement
<1>4. IsFiniteSet(A) /\ Cardinality(A) = MaxTasks * 4
  BY <1>1, <1>2, FS_Product
<1>5. IsFiniteSet(B) /\ Cardinality(B) = 3
  <2>1. IsFiniteSet({0}) /\ Cardinality({0}) = 1
    BY FS_Singleton
  <2> QED
    BY <1>3, <2>1, FS_Product
<1>6. A \cap B = {}
  BY ConstantsAssumption DEF Tasks
<1>7. Remaining \subseteq A \cup B
  BY DEF Remaining
<1> HIDE DEF A, B
<1>8. IsFiniteSet(A \cup B) /\ Cardinality(A \cup B) = MaxTasks * 4 + 3
  <2>1. Cardinality(A \cap B) = 0
    BY <1>6, FS_EmptySet
  <2>2. IsFiniteSet(A \cup B) /\ Cardinality(A \cup B) = Cardinality(A) + Cardinality(B) - 0
    BY <1>4, <1>5, <2>1, FS_Union
  <2>3. Cardinality(A) + Cardinality(B) - 0 = MaxTasks * 4 + 3
    BY <1>1, <1>4, <1>5
  <2> QED
    BY <2>2, <2>3
<1>9. IsFiniteSet(Remaining) /\ Cardinality(Remaining) <= Cardinality(A \cup B)
  BY <1>7, <1>8, FS_Subset
<1>10. Cardinality(Remaining) \in Nat
  BY <1>9, FS_CardinalityType
<1> QED
  BY <1>1, <1>8, <1>9, <1>10

\* So a call, with its children and its request, takes at most 4 * MaxTasks + 3 steps: with
\* RequestIsNeverStuck, whatever order the event loop takes them in, it comes to its answer
\* as long as the loop takes them at all.
THEOREM CallsAreFinite ==
    CallerSpec => /\ [](Cardinality(Remaining) \in 0..(4 * MaxTasks + 3))
                  /\ [][Cardinality(Remaining') < Cardinality(Remaining)]_allVars
<1>1. Cardinality(Remaining) \in 0..(4 * MaxTasks + 3)
  BY FactsAreFinite
<1>2. IInv /\ CallerInv /\ [CallerNext]_allVars
          => [Cardinality(Remaining') < Cardinality(Remaining)]_allVars
  <2> SUFFICES ASSUME IInv, CallerInv, CallerNext
               PROVE  Cardinality(Remaining') < Cardinality(Remaining)
    OBVIOUS
  <2>1. Remaining' \subseteq Remaining /\ Remaining' # Remaining
    BY WhatRemainsShrinks
  <2>2. IsFiniteSet(Remaining) /\ Cardinality(Remaining) \in Nat
    BY FactsAreFinite, ConstantsAssumption
  <2>3. /\ IsFiniteSet(Remaining') /\ Cardinality(Remaining') <= Cardinality(Remaining)
        /\ Cardinality(Remaining') # Cardinality(Remaining)
    BY <2>1, <2>2, FS_Subset
  <2>4. Cardinality(Remaining') \in Nat
    BY <2>3, FS_CardinalityType
  <2> QED
    BY <2>2, <2>3, <2>4
<1> QED
  BY <1>1, <1>2, CallerInvariance, PTL DEF CallerSpec
=============================================================================
