------------------------------ MODULE PlanLoop ------------------------------
(***************************************************************************)
(* One call of AgentLoop.run (agent/loop.py): a task becomes a plan, the   *)
(* plan becomes a list of steps, and a loop executes, observes, reflects   *)
(* on and repairs the steps until the list is settled or a bound is met.   *)
(* The repairs are those of RecoveryStrategy (agent/reflection/recovery.py)*)
(* driven by the verdicts of Reflector (agent/reflection/reflector.py).    *)
(*                                                                         *)
(* The text of observations is abstracted to what the reflector tells      *)
(* apart; the LLM and the browser choose it freely.  Steps are never       *)
(* forgotten: "steps" holds every step ever created and "listed" the       *)
(* indices that are still in state.plan_steps, so that a step keeps its    *)
(* identity when the list is purged.                                       *)
(*                                                                         *)
(* Four names the code uses do not resolve (see Names); "unresolved" says  *)
(* which of them still do not, so that the same module describes the       *)
(* program as it stands and the program its text intends.                  *)
(***************************************************************************)
EXTENDS Integers, Sequences, FiniteSets

CONSTANTS
  Plans,          \* the plans the manager may answer with
  MaxIterations,  \* AgentState.max_iterations
  MaxRetries,     \* PlanStep.max_retries
  MaxReplans,     \* AgentState.max_replans
  PurgeAfter,     \* failed steps replan() keeps in the list (10 in the code)
  NameFaults      \* the sets of unresolved names to consider

\* References that raise when they are reached: random in recovery.py:61,
\* AgentPhase in delegate_executor.py:132, self._recorder in handler.py:74 and
\* AgentState.PlanStep in turbo_handler.py:82 and url_handler.py:59.
Names == {"random", "AgentPhase", "_recorder", "PlanStep"}

Strategy == {"direct", "use_skill", "delegate", "conversational"}

PlanType ==
  [strategy : Strategy,
   text     : STRING,     \* browser_task, "" when the plan has none
   subtasks : Nat,        \* len(plan.subtasks)
   typed    : BOOLEAN,    \* plan.use_subagent is set
   schedule : BOOLEAN]    \* plan.schedule is set

ASSUME PlansAssumption == Plans # {} /\ Plans \subseteq PlanType
ASSUME BoundsAssumption ==
  /\ MaxIterations \in Nat
  /\ MaxRetries \in Nat
  /\ MaxReplans \in Nat
  /\ PurgeAfter \in Nat
ASSUME NamesAssumption == NameFaults \subseteq SUBSET Names

VARIABLES
  pc,          \* where run() stands
  unresolved,  \* the names that do not resolve in this build
  plan,        \* the ManagerPlan of the task
  steps,       \* every PlanStep created, in order of creation
  listed,      \* the steps still in state.plan_steps
  cur,         \* state.current_step_index (0-based position in the list)
  iteration,   \* state.iteration
  replans,     \* state.replan_count
  sigs,        \* state.plan_signatures
  errors,      \* len(state.errors)
  seen,        \* what the last observation held
  verdict,     \* what the last reflection decides
  jobs,        \* cron jobs the run has created
  background,  \* the background post-task was started
  cut,         \* history: what may have left steps unexecuted
  unreported   \* history: parallel delegates that failed

vars == <<pc, unresolved, plan, steps, listed, cur, iteration, replans, sigs,
          errors, seen, verdict, jobs, background, cut, unreported>>

PC == {"start", "delegate", "loop", "execute", "reflect", "recover",
       "assemble", "post", "returned", "raised"}
Status == {"pending", "in_progress", "completed", "failed"}
Settled == {"completed", "failed"}

StepType ==
  [strategy : Strategy, status : Status, retries : Nat, fellBack : BOOLEAN,
   attempts : Nat]      \* history: how often the step was started

-----------------------------------------------------------------------------
(* The list of steps.                                                      *)

\* The place of a step in state.plan_steps.
Position(i) == Cardinality({j \in listed : j < i})

\* state.current_step: empty once the index runs past the list.
Current == {i \in listed : Position(i) = cur}

WithStatus(st) == {i \in listed : steps[i].status = st}

ShouldContinue ==
  /\ iteration < MaxIterations
  /\ WithStatus("pending") # {} \/ Current # {}

\* Mutant: advance_step is called by the handler and by the loop.
NextIndexTwice == cur + 2

\* state.advance_step
NextIndex == cur + 1

NewStep(strategy) ==
  [strategy |-> strategy, status |-> "pending", retries |-> 0,
   fellBack |-> FALSE, attempts |-> 0]

\* Subtasks become delegated steps, a skill plan one skill step, any other
\* plan (decompose and conversational included) one direct step.
BuildSteps(p) ==
  IF p.strategy = "delegate" /\ p.subtasks > 0
  THEN [k \in 1..p.subtasks |-> NewStep("delegate")]
  ELSE IF p.strategy = "use_skill" THEN <<NewStep("use_skill")>>
  ELSE <<NewStep("direct")>>

\* plan_hash ignores the subtasks: the text and the strategy are the identity.
Signature(p) == <<p.text, p.strategy>>

-----------------------------------------------------------------------------
(* Planning and the paths that return without the loop.                    *)

Init ==
  /\ pc = "start"
  /\ unresolved \in NameFaults
  /\ plan \in Plans
  /\ steps = <<>> /\ listed = {} /\ cur = 0
  /\ iteration = 0 /\ replans = 0 /\ sigs = {} /\ errors = 0
  /\ seen = "none" /\ verdict = "none"
  /\ jobs = 0 /\ background = FALSE
  /\ cut = {} /\ unreported = 0

loopVars == <<steps, listed, cur, iteration, replans, sigs, errors, seen,
              verdict, cut, unreported>>

\* Turbo mode and URL-only tasks: one browser run, then the background work.
FastPath ==
  /\ pc = "start"
  /\ IF "PlanStep" \in unresolved
     THEN pc' = "raised" /\ UNCHANGED background
     ELSE pc' = "returned" /\ background' = TRUE
  /\ UNCHANGED <<unresolved, plan, jobs, loopVars>>

\* Mutant: a schedule-only task goes on to the post-task handler.
ScheduleOnlyFallsThrough ==
  /\ pc = "start"
  /\ plan.schedule /\ plan.text = ""
  /\ plan.strategy # "conversational"
  /\ jobs' \in {jobs, jobs + 1}
  /\ pc' = "post"
  /\ UNCHANGED <<unresolved, plan, background, loopVars>>

\* A task that is only a schedule, recognised by the regex planner or by the
\* manager.  An invalid cron expression, or a failure to store the job, is
\* swallowed and the run returns all the same.
ScheduleOnly ==
  /\ pc = "start"
  /\ plan.schedule /\ plan.text = ""
  /\ plan.strategy # "conversational"
  /\ jobs' \in {jobs, jobs + 1}
  /\ pc' = "returned"
  /\ UNCHANGED <<unresolved, plan, background, loopVars>>

Converse ==
  /\ pc = "start"
  /\ plan.strategy = "conversational"
  /\ pc' = "returned"
  /\ UNCHANGED <<unresolved, plan, jobs, background, loopVars>>

\* More than one delegated step: they run in parallel before the loop.
Plan ==
  /\ pc = "start"
  /\ plan.strategy # "conversational"
  /\ ~(plan.schedule /\ plan.text = "")
  /\ steps' = BuildSteps(plan)
  /\ listed' = 1..Len(BuildSteps(plan))
  /\ pc' = IF plan.strategy = "delegate" /\ plan.subtasks > 1
           THEN "delegate" ELSE "loop"
  /\ UNCHANGED <<unresolved, plan, cur, iteration, replans, sigs, errors, seen,
                 verdict, jobs, background, cut, unreported>>

-----------------------------------------------------------------------------
(* Parallel delegation.                                                    *)

ParallelRaises ==
  /\ pc = "delegate"
  /\ "AgentPhase" \in unresolved
  /\ pc' = "raised"
  /\ UNCHANGED <<unresolved, plan, jobs, background, loopVars>>

Outcomes == [1..Len(steps) -> Settled]

\* Typed subagents report success or failure one by one; legacy delegates are
\* taken to have completed.  A failed step adds nothing to state.errors.
ParallelSettles ==
  /\ pc = "delegate"
  /\ "AgentPhase" \notin unresolved
  /\ \E outcome \in Outcomes :
       /\ plan.typed \/ \A i \in 1..Len(steps) : outcome[i] = "completed"
       /\ steps' = [i \in 1..Len(steps) |->
                      [steps[i] EXCEPT !.status = outcome[i]]]
       /\ unreported' =
            Cardinality({i \in 1..Len(steps) : outcome[i] = "failed"})
  /\ cur' = Len(steps)
  /\ pc' = "loop"
  /\ UNCHANGED <<unresolved, plan, listed, iteration, replans, sigs, errors,
                 seen, verdict, jobs, background, cut>>

\* The pool itself fails: every step gets an error text, none gets a status,
\* and the index still moves past them all.
ParallelFails ==
  /\ pc = "delegate"
  /\ "AgentPhase" \notin unresolved
  /\ cur' = Len(steps)
  /\ cut' = cut \cup {"parallel"}
  /\ pc' = "loop"
  /\ UNCHANGED <<unresolved, plan, steps, listed, iteration, replans, sigs,
                 errors, seen, verdict, jobs, background, unreported>>

-----------------------------------------------------------------------------
(* The loop.                                                               *)

Leave ==
  /\ pc = "loop"
  /\ ~ShouldContinue
  /\ pc' = "assemble"
  /\ UNCHANGED <<unresolved, plan, jobs, background, loopVars>>

\* Budget.is_exhausted: wall time, tokens or actions, at any iteration.
BudgetExhausted ==
  /\ pc = "loop"
  /\ ShouldContinue
  /\ pc' = "assemble"
  /\ cut' = cut \cup {"budget"}
  /\ UNCHANGED <<unresolved, plan, steps, listed, cur, iteration, replans, sigs,
                 errors, seen, verdict, jobs, background, unreported>>

\* The index is past the list while some step is still pending.
NoCurrentStep ==
  /\ pc = "loop"
  /\ ShouldContinue
  /\ Current = {}
  /\ iteration' = iteration + 1
  /\ pc' = "assemble"
  /\ UNCHANGED <<unresolved, plan, steps, listed, cur, replans, sigs, errors,
                 seen, verdict, jobs, background, cut, unreported>>

\* A settled step costs an iteration and is passed over.
SkipSettled(i) ==
  /\ pc = "loop"
  /\ ShouldContinue
  /\ i \in Current
  /\ steps[i].status \in Settled
  /\ iteration' = iteration + 1
  /\ cur' = NextIndex
  /\ UNCHANGED <<pc, unresolved, plan, steps, listed, replans, sigs, errors,
                 seen, verdict, jobs, background, cut, unreported>>

StartStep(i) ==
  /\ pc = "loop"
  /\ ShouldContinue
  /\ i \in Current
  /\ steps[i].status \notin Settled
  /\ iteration' = iteration + 1
  /\ steps' = [steps EXCEPT ![i] = [@ EXCEPT !.status = "in_progress",
                                             !.attempts = steps[i].attempts + 1]]
  /\ pc' = "execute"
  /\ UNCHANGED <<unresolved, plan, listed, cur, replans, sigs, errors, seen,
                 verdict, jobs, background, cut, unreported>>

\* The executors turn every exception into a result, and _build_observation
\* turns the result into: a failure, a success too short to be trusted, or a
\* success.
Execute ==
  /\ pc = "execute"
  /\ seen' \in {"failure", "short", "success"}
  /\ pc' = "reflect"
  /\ UNCHANGED <<unresolved, plan, steps, listed, cur, iteration, replans, sigs,
                 errors, verdict, jobs, background, cut, unreported>>

\* The verdicts of Reflector.reflect on step i: "complete" is a finished task
\* with confidence of at least 0.70, "accept" one with at least 0.5.
Verdicts(i) ==
  LET retry  == steps[i].retries < MaxRetries
      single == Cardinality(listed) = 1 /\ errors = 0
  IN CASE seen = "failure" ->
            IF retry THEN {"retry"}
            ELSE IF iteration < MaxIterations THEN {"replan"}
            ELSE {"incomplete"}
       [] seen = "short" ->
            {IF retry THEN "retry" ELSE "incomplete"}
            \cup (IF single THEN {"complete"} ELSE {})
       [] OTHER -> {"complete", "accept", "incomplete"}

Reflect(i) ==
  /\ pc = "reflect"
  /\ i \in Current
  /\ verdict' \in Verdicts(i)
  /\ pc' = "recover"
  /\ UNCHANGED <<unresolved, plan, steps, listed, cur, iteration, replans, sigs,
                 errors, seen, jobs, background, cut, unreported>>

-----------------------------------------------------------------------------
(* RecoveryStrategy.handle_reflection_result: the first branch that applies.*)

SetStatus(i, st) == [steps EXCEPT ![i] = [@ EXCEPT !.status = st]]

Accept(i) ==
  /\ pc = "recover"
  /\ i \in Current
  /\ verdict = "complete"
  /\ steps' = SetStatus(i, "completed")
  /\ cur' = NextIndex
  /\ pc' = "loop"
  /\ UNCHANGED <<unresolved, plan, listed, iteration, replans, sigs, errors,
                 seen, verdict, jobs, background, cut, unreported>>

WantsRetry(i) == verdict = "retry" /\ steps[i].retries < MaxRetries

\* The step is already charged for the retry when the backoff is computed.
Retry(i) ==
  /\ pc = "recover"
  /\ i \in Current
  /\ WantsRetry(i)
  /\ steps' = [steps EXCEPT ![i] = [@ EXCEPT !.status = "pending",
                                             !.retries = steps[i].retries + 1]]
  /\ pc' = IF "random" \in unresolved THEN "raised" ELSE "loop"
  /\ UNCHANGED <<unresolved, plan, listed, cur, iteration, replans, sigs,
                 errors, seen, verdict, jobs, background, cut, unreported>>

\* try_lightweight_recovery would fetch the page over HTTP.  No action: see
\* HttpRecoveryNeverReached.
HttpRecoveryApplies(i) ==
  /\ steps[i].strategy # "use_skill"
  /\ steps[i].retries < MaxRetries
  /\ seen = "failure"

\* Mutant: a direct step falls back to itself and fallback_attempted is not kept.
CanFallBackAgain(i) == steps[i].strategy \in {"use_skill", "delegate", "direct"}

CanFallBack(i) ==
  /\ ~steps[i].fellBack
  /\ steps[i].strategy \in {"use_skill", "delegate"}

FallBack(i) ==
  /\ pc = "recover"
  /\ i \in Current
  /\ verdict # "complete" /\ ~WantsRetry(i)
  /\ CanFallBack(i)
  /\ steps' = [steps EXCEPT ![i] = [@ EXCEPT !.strategy = "direct",
                                             !.fellBack = TRUE,
                                             !.status = "pending",
                                             !.retries = 0]]
  /\ pc' = "loop"
  /\ UNCHANGED <<unresolved, plan, listed, cur, iteration, replans, sigs,
                 errors, seen, verdict, jobs, background, cut, unreported>>

WantsReplan(i) ==
  /\ verdict = "replan"
  /\ ~CanFallBack(i)
  /\ replans < MaxReplans

\* Mutant: the pending steps are counted as errors but keep their status.
DuplicateFailsCurrent(i) == {i}

\* Mutant: every listed step is failed, the completed ones too.
DuplicateFailsAll(i) == listed

\* The steps a duplicate plan fails: the current one and the pending ones.
DuplicateFails(i) == {i} \cup WithStatus("pending")

\* The manager repeats itself: nothing that is still pending will be tried.
ReplanDuplicate(i) ==
  /\ pc = "recover"
  /\ i \in Current
  /\ WantsReplan(i)
  /\ \E p \in Plans : Signature(p) \in sigs
  /\ replans' = replans + 1
  /\ steps' = [j \in 1..Len(steps) |->
                 IF j \in DuplicateFails(i)
                 THEN [steps[j] EXCEPT !.status = "failed"] ELSE steps[j]]
  /\ errors' = errors + Cardinality(WithStatus("pending"))
  /\ pc' = "loop"
  /\ UNCHANGED <<unresolved, plan, listed, cur, iteration, sigs, seen, verdict,
                 jobs, background, cut, unreported>>

\* The new steps go to the end of the list, behind what the old plan still has
\* to do.  With too many failed steps the list drops them, the step that failed
\* last among them, and the index stays where it was.
ReplanNew(i) ==
  /\ pc = "recover"
  /\ i \in Current
  /\ WantsReplan(i)
  /\ replans' = replans + 1
  /\ \E p \in Plans :
       LET dead == WithStatus("failed") \cup {i}
           purge == Cardinality(dead) > PurgeAfter
       IN /\ Signature(p) \notin sigs
          /\ sigs' = sigs \cup {Signature(p)}
          /\ steps' = SetStatus(i, "failed") \o BuildSteps(p)
          /\ listed' = (IF purge THEN listed \ dead ELSE listed)
                       \cup (Len(steps) + 1)..(Len(steps) + Len(BuildSteps(p)))
          /\ cut' = IF purge THEN cut \cup {"purge"} ELSE cut
  /\ pc' = "loop"
  /\ UNCHANGED <<unresolved, plan, cur, iteration, errors, seen, verdict, jobs,
                 background, unreported>>

\* Nothing applies: accept a weak success or give the step up.
Settle(i) ==
  /\ pc = "recover"
  /\ i \in Current
  /\ verdict # "complete" /\ ~WantsRetry(i)
  /\ ~CanFallBack(i) /\ ~WantsReplan(i)
  /\ IF verdict = "accept"
     THEN steps' = SetStatus(i, "completed") /\ UNCHANGED errors
     ELSE steps' = SetStatus(i, "failed") /\ errors' = errors + 1
  /\ cur' = NextIndex
  /\ pc' = "loop"
  /\ UNCHANGED <<unresolved, plan, listed, iteration, replans, sigs, seen,
                 verdict, jobs, background, cut, unreported>>

-----------------------------------------------------------------------------
(* Final assembly and the post-task handler.                               *)

Assemble ==
  /\ pc = "assemble"
  /\ pc' = "post"
  /\ UNCHANGED <<unresolved, plan, jobs, background, loopVars>>

\* The job is on disk before the recorder is looked up.
PostTask ==
  /\ pc = "post"
  /\ jobs' \in IF plan.schedule THEN {jobs, jobs + 1} ELSE {jobs}
  /\ IF "_recorder" \in unresolved
     THEN pc' = "raised" /\ UNCHANGED background
     ELSE pc' = "returned" /\ background' = TRUE
  /\ UNCHANGED <<unresolved, plan, loopVars>>

Finished == pc \in {"returned", "raised"}

Next ==
  \/ FastPath \/ ScheduleOnly \/ Converse \/ Plan
  \/ ParallelRaises \/ ParallelSettles \/ ParallelFails
  \/ Leave \/ BudgetExhausted \/ NoCurrentStep
  \/ \E i \in 1..Len(steps) :
       \/ SkipSettled(i) \/ StartStep(i) \/ Reflect(i)
       \/ Accept(i) \/ Retry(i) \/ FallBack(i)
       \/ ReplanDuplicate(i) \/ ReplanNew(i) \/ Settle(i)
  \/ Execute \/ Assemble \/ PostTask
  \/ Finished /\ UNCHANGED vars

\* Every call run() awaits ends: the executors, the reflector and the manager
\* answer or raise, and raising is an answer.
Spec == Init /\ [][Next]_vars /\ WF_vars(Next)

-----------------------------------------------------------------------------
(* Properties.                                                             *)

\* Type correctness of the run's state; a run stores at most one cron job,
\* although two handlers (schedule_handler.py, post_task/handler.py) may.
TypeOK ==
  /\ pc \in PC
  /\ unresolved \in SUBSET Names
  /\ plan \in Plans
  /\ steps \in Seq(StepType)
  /\ listed \subseteq 1..Len(steps)
  /\ cur \in Nat /\ iteration \in Nat /\ replans \in Nat /\ errors \in Nat
  /\ sigs \subseteq STRING \X Strategy
  /\ seen \in {"none", "failure", "short", "success"}
  /\ verdict \in {"none", "complete", "accept", "retry", "replan", "incomplete"}
  /\ jobs \in {0, 1}
  /\ background \in BOOLEAN
  /\ cut \subseteq {"parallel", "budget", "purge"}
  /\ unreported \in Nat

\* However retries, fallbacks and replans interleave, no step is started more
\* often than its own retries and those of its one fallback allow: a retry
\* count that is reset (try_fallback) must not be reset twice.
AttemptsBounded ==
  \A i \in 1..Len(steps) : steps[i].attempts <= 2 * (MaxRetries + 1)

\* A step that completed or failed is never started, retried or re-judged
\* again, whatever replan() does to the list and the index around it.
SettledStaysSettled ==
  [][\A i \in 1..Len(steps) :
       steps[i].status \in Settled =>
         i \in 1..Len(steps') /\ steps'[i] = steps[i]]_steps

\* Conservation of failures: a failed step is one error the user is told of
\* (_assemble_result counts state.errors), or the step a replan replaced, or a
\* failed parallel delegate; none is counted twice and none is lost.
FailuresAccounted ==
  Cardinality({i \in 1..Len(steps) : steps[i].status = "failed"})
    = errors + replans + unreported

\* As long as replan() has not purged the list and the delegate pool has not
\* failed, the index never passes a step that is not settled.
NoStepPassedOver ==
  cut \cap {"purge", "parallel"} = {} =>
    \A i \in listed : Position(i) < cur => steps[i].status \in Settled

\* The HTTP fallback of try_lightweight_recovery can never run: whenever the
\* reflector's verdict lets control reach it, its own guard is false.
HttpRecoveryNeverReached ==
  pc = "recover" /\ verdict # "complete" =>
    \A i \in Current : ~WantsRetry(i) => ~HttpRecoveryApplies(i)
=============================================================================
