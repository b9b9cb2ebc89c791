------------------------------ MODULE Subagents ------------------------------
(***************************************************************************)
(* One call of SubagentOrchestrator.runParallelSubagents: a few workers    *)
(* (async functions on one event loop) share nextIndex, each runs one task *)
(* at a time as a child process, and a task is settled by whichever comes  *)
(* first of its whitelist check, its timer, 'close' and 'error'.           *)
(* The children (external) end when they like, or never.                   *)
(***************************************************************************)
EXTENDS Naturals, FiniteSets

CONSTANTS TaskCounts,      \* bound: the numbers of tasks a caller submits
          MaxTasks,        \* MAX_TASKS
          MaxConcurrency   \* the maxConcurrency argument

ASSUME ConstantsAssumption ==
    /\ TaskCounts \subseteq Nat
    /\ MaxTasks \in Nat
    /\ MaxConcurrency \in Nat \ {0}

Tasks   == 1..MaxTasks
Workers == 1..MaxConcurrency

Unspawned == {"blocked", "thrown"}
Outcomes == Unspawned \cup {"ok", "failed", "timeout", "error"}
Alive    == {"running", "signalled"}
Children == Alive \cup {"none", "failed", "ended0", "ended", "closed"}
Verdicts == Unspawned \cup {"running", "failed"}   \* on a task about to start

VARIABLES
    phase,    \* of the call: "idle", "running", or settled as "done", "refused"
              \* (too many tasks) or "failed" (a worker threw)
    count,    \* tasks.length
    next,     \* nextIndex, from 1
    worker,   \* the task each worker awaits, 0 if it has none
    child,    \* the process of each task
    timer,    \* tasks whose timeout is armed
    outcome,  \* how runSingleSubagent settled for each task, "none" until then
    results   \* the results array

vars == <<phase, count, next, worker, child, timer, outcome, results>>

Init ==
    /\ phase = "idle" /\ count = 0 /\ next = 1
    /\ worker = [w \in Workers |-> 0]
    /\ child = [t \in Tasks |-> "none"]
    /\ timer = {}
    /\ outcome = [t \in Tasks |-> "none"]
    /\ results = [t \in Tasks |-> "none"]

-----------------------------------------------------------------------------
(* A definition named Fault... is a plausible bug in the definition after it. *)

\* resolve: the first settlement of a promise counts
Resolve(t, o) ==
    outcome' = [outcome EXCEPT ![t] = IF @ = "none" THEN o ELSE @]

\* runSingleSubagent, up to its first await, for the tasks ts: a task is blocked
\* by the whitelist of the moment, or spawn throws (an argument list too long),
\* or its child runs, or it has failed and 'error' is on its way
RunSingle(ts, verdict) ==
    /\ child' = [t \in Tasks |->
                   IF t \in ts /\ verdict[t] \notin Unspawned THEN verdict[t] ELSE child[t]]
    /\ timer' = timer \cup {t \in ts : verdict[t] \notin Unspawned}
    /\ outcome' = [t \in Tasks |->
                     IF t \in ts /\ verdict[t] \in Unspawned THEN verdict[t] ELSE outcome[t]]

\* a continuation is ready: the task of worker w has settled
Resumable(w) == worker[w] # 0 /\ outcome[worker[w]] # "none"

Drained == \A w \in Workers : ~Resumable(w)

FaultUnlimited(n) == FALSE

TooMany(n) == n > MaxTasks

\* the workers take the first tasks before anything else happens
StartWorkers(n) ==
    LET k == IF n < MaxConcurrency THEN n ELSE MaxConcurrency
    IN  /\ phase' = "running"
        /\ next' = k + 1
        /\ worker' = [w \in Workers |-> IF w <= k THEN w ELSE 0]
        /\ \E verdict \in [1..k -> Verdicts] : RunSingle(1..k, verdict)

RunParallel ==
    /\ phase = "idle"
    /\ \E n \in TaskCounts :
         /\ count' = n
         /\ \/ /\ TooMany(n)
               /\ phase' = "refused"
               /\ UNCHANGED <<next, worker, child, timer, outcome>>
            \/ ~TooMany(n) /\ StartWorkers(n)
    /\ UNCHANGED results

FaultOffByOne == next < count

\* the condition of the loop of runNext
MoreTasks == next <= count

TakeNext(w) ==
    /\ worker' = [worker EXCEPT ![w] = next]
    /\ next' = next + 1
    /\ \E verdict \in [{next} -> Verdicts] : RunSingle({next}, verdict)

\* runNext resumes: store the result, take the next task or return
RunNext(w) ==
    /\ Resumable(w)
    /\ outcome[worker[w]] # "thrown"
    /\ results' = [results EXCEPT ![worker[w]] = outcome[worker[w]]]
    /\ \/ MoreTasks /\ TakeNext(w)
       \/ /\ ~MoreTasks
          /\ worker' = [worker EXCEPT ![w] = 0]
          /\ UNCHANGED <<next, child, timer, outcome>>
    /\ UNCHANGED <<phase, count>>

\* runNext throws what its task threw, and Promise.all rejects with the first
\* such error; the other workers go on
RunNextThrows(w) ==
    /\ Resumable(w)
    /\ outcome[worker[w]] = "thrown"
    /\ worker' = [worker EXCEPT ![w] = 0]
    /\ phase' = "failed"
    /\ UNCHANGED <<count, next, child, timer, outcome, results>>

FaultRace == \E w \in Workers : worker[w] = 0

\* Promise.all: every worker has returned
AllReturned == \A w \in Workers : worker[w] = 0

Finish ==
    /\ phase = "running"
    /\ AllReturned
    /\ phase' = "done"
    /\ UNCHANGED <<count, next, worker, child, timer, outcome, results>>

FaultNoKill(t) == UNCHANGED child

\* kill() sends SIGTERM to a child that has not ended
Kill(t) == child' = [child EXCEPT ![t] = IF @ = "running" THEN "signalled" ELSE @]

FaultNoTimer(t) == FALSE

\* The timer: the task settles without waiting for the child it kills.  If the
\* signal may not be sent, kill() emits 'error' at once, which settles the task.
Timeout(t) ==
    /\ Drained
    /\ t \in timer
    /\ timer' = timer \ {t}
    /\ \/ Kill(t) /\ Resolve(t, "timeout")
       \/ /\ child[t] = "running"
          /\ UNCHANGED child
          /\ Resolve(t, "error")
    /\ UNCHANGED <<phase, count, next, worker, results>>

\* clearTimeout
ClearTimer(t) == timer \ {t}

\* 'close': the child has ended and its pipes are drained; 0 is success
Close(t) ==
    /\ Drained
    /\ child[t] \in {"ended0", "ended"}
    /\ child' = [child EXCEPT ![t] = "closed"]
    /\ timer' = ClearTimer(t)
    /\ Resolve(t, IF child[t] = "ended0" THEN "ok" ELSE "failed")
    /\ UNCHANGED <<phase, count, next, worker, results>>

\* 'error': the command could not be spawned; 'close' still follows
SpawnError(t) ==
    /\ Drained
    /\ child[t] = "failed"
    /\ child' = [child EXCEPT ![t] = "ended"]
    /\ timer' = ClearTimer(t)
    /\ Resolve(t, "error")
    /\ UNCHANGED <<phase, count, next, worker, results>>

\* the child ends (external): by itself, with code 0 or not, or of the signal
ChildEnds(t) ==
    /\ child[t] \in Alive
    /\ \E how \in {"ended0", "ended"} : child' = [child EXCEPT ![t] = how]
    /\ UNCHANGED <<phase, count, next, worker, timer, outcome, results>>

\* The call, once it is made, and its children
CallProceeds ==
    \/ \E w \in Workers : RunNext(w) \/ RunNextThrows(w)
    \/ Finish
    \/ \E t \in Tasks : Timeout(t) \/ Close(t) \/ SpawnError(t) \/ ChildEnds(t)

Next == RunParallel \/ CallProceeds

Spec == Init /\ [][Next]_vars

-----------------------------------------------------------------------------
(* Properties. *)

TypeOK ==
    /\ phase \in {"idle", "running", "done", "refused", "failed"}
    /\ count \in TaskCounts \cup {0}
    /\ next \in 1..(MaxTasks + 1)
    /\ worker \in [Workers -> Tasks \cup {0}]
    /\ child \in [Tasks -> Children]
    /\ timer \subseteq Tasks
    /\ outcome \in [Tasks -> Outcomes \cup {"none"}]
    /\ results \in [Tasks -> Outcomes \cup {"none"}]

\* The promise of the call resolves to an array with the result of every task
\* at the index of that task (SubagentOrchestrator.ts:123-140).
ResultsComplete ==
    phase = "done" =>
        \A t \in 1..count :
            results[t] \notin {"none", "thrown"} /\ results[t] = outcome[t]

\* Of the children alive, those nobody gave up waiting for are within the
\* concurrency limit (SubagentOrchestrator.ts:126-137).
AwaitedLimit ==
    Cardinality({t \in Tasks : child[t] \in Alive /\ outcome[t] \notin {"timeout", "error"}})
        <= MaxConcurrency

\* A timer that is still armed belongs to a task that has not settled, so that
\* kill() never signals a process that is gone (SubagentOrchestrator.ts:208-253).
TimerOwnsTask == \A t \in timer : outcome[t] = "none"

\* And a task that waits has its timer: whatever its child does, something will settle it
\* (SubagentOrchestrator.ts:187-222).
WaitingIsTimed == \A t \in Tasks : t < next /\ outcome[t] = "none" => t \in timer

\* No task is run by two workers, though they share nextIndex
\* (SubagentOrchestrator.ts:126-131).
OneWorkerPerTask ==
    \A v, w \in Workers : worker[v] = worker[w] /\ worker[v] # 0 => v = w

\* No worker returns while tasks remain: the limit is a limit, and also the
\* number of tasks in flight until the queue is empty.
WorkConserving ==
    phase = "running" /\ next <= count =>
        Cardinality({w \in Workers : worker[w] # 0}) = MaxConcurrency

\* A child that is alive after its task settled has been told to end, unless
\* the system refused the signal (SubagentOrchestrator.ts:208-222).
NoAbandonedChild ==
    \A t \in Tasks :
        outcome[t] # "none" /\ child[t] = "running" => outcome[t] = "error"
=============================================================================
