------------------------------ MODULE AgentCalls ------------------------------
(***************************************************************************)
(* Subagents with its callers: the handler of POST /api/subagents, which   *)
(* makes the call and answers with what it resolves to, and the slash      *)
(* commands, none of which gets as far as a call.  One of them is made.    *)
(***************************************************************************)
EXTENDS Subagents

VARIABLES
    caller,       \* "none", "route" or "command"
    answer,       \* what it was answered
    contextFile   \* PROJECT_CONTEXT.md: "none", "partial" or "written"

callerVars == <<caller, answer, contextFile>>
allVars == <<vars, callerVars>>

NoData == [t \in Tasks |-> "none"]

Answer(status, data) == [status |-> status, data |-> data]

NoAnswer == Answer("none", NoData)

CallerInit ==
    /\ Init
    /\ caller = "none" /\ answer = NoAnswer /\ contextFile = "none"

-----------------------------------------------------------------------------
(* handleSubagentsRequest *)

NotAnArray ==
    /\ caller = "none"
    /\ caller' = "route" /\ answer' = Answer("400", NoData)
    /\ UNCHANGED <<vars, contextFile>>

RouteCalls ==
    /\ caller = "none"
    /\ caller' = "route"
    /\ RunParallel
    /\ UNCHANGED <<answer, contextFile>>

\* What is caught becomes a 500.
Status == IF phase = "done" THEN "200" ELSE "500"

RouteAnswers ==
    /\ caller = "route" /\ answer = NoAnswer
    /\ phase \in {"done", "refused", "failed"}
    /\ answer' = Answer(Status, IF Status = "200" THEN results ELSE NoData)
    /\ UNCHANGED <<vars, caller, contextFile>>

-----------------------------------------------------------------------------
(* handleCommand *)

Command(status) ==
    /\ caller = "none"
    /\ caller' = "command" /\ answer' = Answer(status, NoData)
    /\ UNCHANGED vars

\* There is no folder, or it cannot be read; or the file cannot be written whole.
InitCommand ==
    \/ Command("returned") /\ contextFile' = "written"
    \/ Command("thrown") /\ contextFile' \in {"none", "partial"}

\* Arguments are missing; or the modules are, since their paths lead from vscode/commands
\* to vscode/agent, which is not there.
CreateAgentCommand == Command("thrown") /\ UNCHANGED contextFile

\* /debug-crash is a stub, and any other command is unknown.
OtherCommand == Command("thrown") /\ UNCHANGED contextFile

HandleCommand == InitCommand \/ CreateAgentCommand \/ OtherCommand

-----------------------------------------------------------------------------
CallerNext ==
    \/ NotAnArray \/ RouteCalls \/ RouteAnswers \/ HandleCommand
    \/ CallProceeds /\ UNCHANGED callerVars

\* The event loop serves continuations, timers and events; no child need end.
CallerFairness ==
    /\ \A w \in Workers : WF_allVars(RunNext(w) /\ UNCHANGED callerVars)
    /\ \A w \in Workers : WF_allVars(RunNextThrows(w) /\ UNCHANGED callerVars)
    /\ WF_allVars(Finish /\ UNCHANGED callerVars)
    /\ \A t \in Tasks :
         /\ WF_allVars(Timeout(t) /\ UNCHANGED callerVars)
         /\ WF_allVars(Close(t) /\ UNCHANGED callerVars)
         /\ WF_allVars(SpawnError(t) /\ UNCHANGED callerVars)
    /\ WF_allVars(RouteAnswers)

CallerSpec == CallerInit /\ [][CallerNext]_allVars
FairCallerSpec == CallerSpec /\ CallerFairness

-----------------------------------------------------------------------------
(* Properties *)

\* An answer 200 holds the outcome of every task at its own index, and is given only
\* when all have settled, whatever threw or timed out meanwhile
\* (subagents.routes.ts:85-104, SubagentOrchestrator.ts:123-140).
AnswerIsTrue ==
    answer.status = "200" =>
        \A t \in 1..count :
            answer.data[t] \notin {"none", "thrown"} /\ answer.data[t] = outcome[t]

\* A request that is not answered yet has a step before it that the event loop will
\* take: the guard of one of the actions of CallerFairness holds, whatever was thrown,
\* blocked or timed out, and though no child ends (SubagentOrchestrator.ts:126-253).
NeverStuck ==
    caller = "route" /\ answer = NoAnswer =>
        \/ phase \in {"done", "refused", "failed"}
        \/ phase = "running" /\ AllReturned
        \/ \E w \in Workers : Resumable(w)
        \/ Drained /\ timer # {}

\* What can be said of a task that will not be unsaid: it has settled, no worker
\* awaits it any more, its child has ended, and its pipes were closed.
TaskFact(t, fact) ==
    CASE fact = "settled" -> outcome[t] # "none"
      [] fact = "left"    -> t < next /\ \A w \in Workers : worker[w] # t
      [] fact = "ended"   -> child[t] \in {"ended0", "ended", "closed"}
      [] fact = "closed"  -> child[t] = "closed"

CallFact(fact) ==
    CASE fact = "called"   -> caller # "none"
      [] fact = "resolved" -> phase \in {"done", "refused", "failed"}
      [] fact = "answered" -> answer # NoAnswer

TaskFacts == {"settled", "left", "ended", "closed"}
CallFacts == {"called", "resolved", "answered"}

\* What is still to be said.
Remaining ==
    {f \in Tasks \X TaskFacts : ~TaskFact(f[1], f[2])}
        \cup {f \in {0} \X CallFacts : ~CallFact(f[2])}

\* No step is idle and none undoes another: what remains shrinks with every step, so a
\* call, its children and its request are over after finitely many
\* (SubagentOrchestrator.ts:123-253, subagents.routes.ts:71-105).
EveryStepCounts ==
    [][Remaining' \subseteq Remaining /\ Remaining' # Remaining]_allVars

\* Every request is answered, though no child ends and spawn may throw
\* (subagents.routes.ts:71-105).
CallerAnswered == caller = "route" ~> answer # NoAnswer
=============================================================================
