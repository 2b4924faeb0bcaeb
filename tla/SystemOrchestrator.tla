------------------------- MODULE SystemOrchestrator -------------------------
(***************************************************************************)
(* One run of SystemOrchestrator (agent/system/orchestrator.py): subtasks  *)
(* become issues on a SystemBoard, rounds of concurrent workers code,      *)
(* verify and review them, failed ones are retried and, when most issues   *)
(* have failed, the task is decomposed anew; then the resolved branches    *)
(* are integrated.                                                         *)
(*                                                                         *)
(* "issues" holds every issue created, in order; one that _replan deletes  *)
(* stays there with onBoard FALSE.  A worker stands between two awaits at  *)
(* "code", "verify", "review" or "giveUp" (diagnosis and rollback).        *)
(***************************************************************************)
EXTENDS Integers, Sequences, FiniteSets

CONSTANTS
  Decompositions,     \* lists of dependency sets an issue list may have
  Concurrency,        \* WorkflowConfig.concurrency
  MaxRounds,          \* WorkflowConfig.max_rounds
  MaxFailures,        \* Issue.max_failures
  MaxReviewFailures,  \* Issue.max_review_failures
  MaxReplans,         \* WorkflowConfig.max_replans
  Scratchpads,        \* builds to consider: may SharedScratchpad be written?
  Isolations          \* is there a repository to add worktrees to?

ASSUME DecompositionsAssumption ==
  Decompositions # {} /\ Decompositions \subseteq Seq(SUBSET Nat)
ASSUME LimitsAssumption ==
  /\ Concurrency \in Nat \ {0} /\ MaxRounds \in Nat /\ MaxReplans \in Nat
  /\ MaxFailures \in Nat \ {0} /\ MaxReviewFailures \in Nat \ {0}
ASSUME BuildsAssumption ==
  Scratchpads \subseteq BOOLEAN /\ Isolations \subseteq BOOLEAN

VARIABLES
  pc,          \* where run() stands
  writable,    \* _to_scratchpad does not raise in this build
  isolated,    \* isolate_with_worktrees, and repo_root is not None
  issues,      \* every Issue created
  batch,       \* the tasks of this round that have not ended
  round,       \* round_num
  replans,     \* config.replan_count
  integrated,  \* the integrate phase was entered
  stash        \* the user's changes: "tree", "stashed" or "stuck"

build == <<writable, isolated>>
vars == <<pc, build, issues, batch, round, replans, integrated, stash>>

Working == {"in_progress", "verifying", "reviewing"}
Status == Working \cup {"open", "resolved", "failed"}

NewIssue(needs) ==
  [deps |-> needs, status |-> "open", failures |-> 0, reviewFailures |-> 0,
   at |-> "idle", onBoard |-> TRUE,
   inResolved |-> 0, inFailed |-> 0,   \* times in result.resolved, .failed
   attempts |-> 0]     \* history: how often a worker was spawned

-----------------------------------------------------------------------------
(* SystemBoard.                                                            *)

Created == 1..Len(issues)
Board == {i \in Created : issues[i].onBoard}
With(st) == {i \in Board : issues[i].status = st}

\* Mutant: a dependency that is not on the board is taken to be met.
DepsOnBoardResolved(i) ==
  \A d \in issues[i].deps : d \in Board => issues[d].status = "resolved"

\* A dependency that does not exist, or was deleted, is never met.
DepsResolved(i) ==
  \A d \in issues[i].deps : d \in Board /\ issues[d].status = "resolved"

OpenIssues == {i \in With("open") : DepsResolved(i)}
InProgress == UNION {With(st) : st \in Working}
IsDone == With("open") \cup InProgress = {}

\* open_issues()[:concurrency], in order of creation.
NextBatch ==
  {i \in OpenIssues : Cardinality({j \in OpenIssues : j < i}) < Concurrency}

Update(i, issue) == [issues EXCEPT ![i] = issue]

-----------------------------------------------------------------------------
(* run() and _execute_phase.                                               *)

\* The subtasks are on the board and the changes perhaps in the stash.
Prepare ==
  /\ pc = "start"
  /\ \E list \in Decompositions :
       issues' = [k \in 1..Len(list) |-> NewIssue(list[k])]
  /\ stash' \in IF isolated THEN {"tree", "stashed"} ELSE {"tree"}
  /\ UNCHANGED <<build, batch, round, replans, integrated>>

Start == Prepare /\ pc' = "rounds"

\* git is killed after its 15 seconds, with the stash made or not: the error
\* leaves run() before its try.
StashTimesOut == isolated /\ Prepare /\ pc' = "left"

MayRound == pc = "rounds" /\ ~IsDone /\ round < MaxRounds

StartRound ==
  /\ MayRound
  /\ OpenIssues # {}
  /\ round' = round + 1
  /\ batch' = NextBatch
  /\ issues' = [i \in Created |->
                  IF i \in NextBatch THEN [issues[i] EXCEPT !.at = "begin"]
                  ELSE issues[i]]
  /\ pc' = "batch"
  /\ UNCHANGED <<build, replans, integrated, stash>>

\* The issue is failed and appended to result.failed.
Reported(issue) == [issue EXCEPT !.status = "failed", !.inFailed = issue.inFailed + 1]

\* Mutant: the sweep fails what is resolved, too.
UndecidedOrResolved == With("open") \cup InProgress \cup With("resolved")

\* What is neither resolved nor failed when the rounds are over has failed.
Undecided == With("open") \cup InProgress

Sweep ==
  /\ issues' = [i \in Created |->
                  IF i \in Undecided THEN Reported(issues[i]) ELSE issues[i]]
  /\ pc' = "finish"
  /\ UNCHANGED <<build, batch, replans, integrated, stash>>

RoundsOver ==
  /\ pc = "rounds"
  /\ IsDone \/ round >= MaxRounds
  /\ Sweep
  /\ UNCHANGED round

\* Every open issue waits for one that will not be resolved.  (Were one in
\* progress the loop would sleep and go on: see NoWorkBetweenRounds.)
NothingToStart ==
  /\ MayRound
  /\ OpenIssues = {} /\ InProgress = {}
  /\ Sweep
  /\ round' = round + 1

-----------------------------------------------------------------------------
(* _run_issue: one worker per issue of the batch.                          *)

\* The task of issue i ends; gather waits for the others.
Leave(i) == batch \ {i}

\* create_worktree removes the directory of an earlier attempt but git still
\* has it registered and refuses to add it anew.
WorktreeTaken(i) == isolated /\ issues[i].attempts > 0

BeginIssue(i) ==
  /\ issues[i].at = "begin" /\ ~WorktreeTaken(i)
  /\ issues' = Update(i, [issues[i] EXCEPT !.status = "in_progress",
                                           !.at = "code",
                                           !.attempts = issues[i].attempts + 1])
  /\ UNCHANGED <<pc, build, batch, round, replans, integrated, stash>>

WorktreeFails(i) ==
  /\ issues[i].at = "begin" /\ isolated
  /\ issues' = Update(i, Reported([issues[i] EXCEPT !.at = "idle"]))
  /\ batch' = Leave(i)
  /\ UNCHANGED <<pc, build, round, replans, integrated, stash>>

\* _fail up to the diagnosis and the rollback it awaits.
FailedOnce(issue) == [issue EXCEPT !.failures = issue.failures + 1, !.at = "giveUp"]

CodeDone(i) ==
  /\ issues[i].at = "code"
  /\ \/ issues' = Update(i, [issues[i] EXCEPT !.status = "verifying", !.at = "verify"])
     \/ issues' = Update(i, FailedOnce(issues[i]))
  /\ UNCHANGED <<pc, build, batch, round, replans, integrated, stash>>

\* A verifier that raises counts as passed, here and in the review.
Verified(i) ==
  /\ issues[i].at = "verify"
  /\ \/ issues' = Update(i, [issues[i] EXCEPT !.status = "reviewing", !.at = "review"])
     \/ issues' = Update(i, FailedOnce(issues[i]))
  /\ UNCHANGED <<pc, build, batch, round, replans, integrated, stash>>

\* Mutant: a last failure is reported when it happens and when it is given up.
GivenUpTwice(issue) ==
  IF issue.failures < MaxFailures
  THEN [issue EXCEPT !.status = "open", !.at = "idle"]
  ELSE Reported(Reported([issue EXCEPT !.at = "idle"]))

GivenUp(issue) ==
  IF issue.failures < MaxFailures
  THEN [issue EXCEPT !.status = "open", !.at = "idle"]
  ELSE [Reported(issue) EXCEPT !.at = "idle"]

GiveUp(i) ==
  /\ issues[i].at = "giveUp"
  /\ issues' = Update(i, GivenUp(issues[i]))
  /\ batch' = Leave(i)
  /\ UNCHANGED <<pc, build, round, replans, integrated, stash>>

\* Mutant: a rejected issue is reopened without counting the attempt.
ReviewRetriesForFree(issue) == [issue EXCEPT !.status = "open", !.at = "idle"]

\* A rejected issue costs a failure too, but only can_review_retry is asked.
ReviewRetry(issue) ==
  [issue EXCEPT !.status = "open", !.at = "idle", !.failures = issue.failures + 1,
                !.reviewFailures = issue.reviewFailures + 1]

ReviewRejects(i) ==
  /\ issues[i].at = "review"
  /\ issues' = Update(i, IF issues[i].reviewFailures + 1 < MaxReviewFailures
                         THEN ReviewRetry(issues[i])
                         ELSE [Reported(issues[i]) EXCEPT !.at = "idle",
                                                          !.reviewFailures = issues[i].reviewFailures + 1])
  /\ batch' = Leave(i)
  /\ UNCHANGED <<pc, build, round, replans, integrated, stash>>

\* The finally clause of run(); a pop that conflicts leaves the changes behind.
Popped == IF stash = "stashed" THEN {"tree", "stuck"} ELSE {stash}

\* The issue is resolved and in the result when _to_scratchpad raises; gather
\* hands the error to run() and leaves the other workers running.
ReviewPasses(i) ==
  /\ issues[i].at = "review"
  /\ issues' = Update(i, [issues[i] EXCEPT !.status = "resolved", !.at = "idle",
                                           !.inResolved = issues[i].inResolved + 1])
  /\ batch' = Leave(i)
  /\ IF writable \/ pc # "batch"
     THEN UNCHANGED <<pc, stash>>
     ELSE pc' = "raised" /\ stash' \in Popped
  /\ UNCHANGED <<build, round, replans, integrated>>

Worker(i) ==
  \/ BeginIssue(i) \/ WorktreeFails(i) \/ CodeDone(i) \/ Verified(i)
  \/ GiveUp(i) \/ ReviewRejects(i) \/ ReviewPasses(i)

-----------------------------------------------------------------------------
(* Between rounds, and the end.                                            *)

\* Mutant: the number of replans is not limited.
ShouldReplanAlways == 2 * Cardinality(With("failed")) > Cardinality(Board)

ShouldReplan ==
  /\ replans < MaxReplans
  /\ 2 * Cardinality(With("failed")) > Cardinality(Board)

RoundDone ==
  /\ pc = "batch" /\ batch = {}
  /\ pc' = IF ShouldReplan THEN "replan" ELSE "rounds"
  /\ UNCHANGED <<build, issues, batch, round, replans, integrated, stash>>

\* What a replan deletes from the board; result.failed keeps it.
Dropped == With("failed")

\* The new issues get the next numbers; their dependencies are whatever the
\* model answers.
Replan ==
  /\ pc = "replan"
  /\ \E list \in Decompositions :
       issues' = [i \in Created |->
                    IF i \in Dropped THEN [issues[i] EXCEPT !.onBoard = FALSE]
                    ELSE issues[i]]
                 \o [k \in 1..Len(list) |-> NewIssue(list[k])]
  /\ replans' = replans + 1
  /\ pc' = "rounds"
  /\ UNCHANGED <<build, batch, round, integrated, stash>>

\* The call fails, or its answer holds no list.
ReplanFails ==
  /\ pc = "replan"
  /\ replans' = replans + 1
  /\ pc' = "rounds"
  /\ UNCHANGED <<build, issues, batch, round, integrated, stash>>

SomeResolved == \E i \in Created : issues[i].inResolved > 0
NoneFailed == \A i \in Created : issues[i].inFailed = 0

\* Merge when there are branches, something is resolved and nothing has ever
\* failed; red team, learning and the finally clause change nothing else that
\* is modelled, but the git commands of the clause may exceed their time.
Finish ==
  /\ pc = "finish"
  /\ integrated' = (isolated /\ SomeResolved /\ NoneFailed)
  /\ stash' \in Popped
  /\ pc' = "returned" \/ (isolated /\ pc' = "raised")
  /\ UNCHANGED <<build, issues, batch, round, replans>>

Init ==
  /\ pc = "start"
  /\ writable \in Scratchpads /\ isolated \in Isolations
  /\ issues = <<>> /\ batch = {}
  /\ round = 0 /\ replans = 0
  /\ integrated = FALSE /\ stash = "tree"

Over == pc \in {"returned", "raised", "left"} /\ batch = {} /\ UNCHANGED vars

Next ==
  \/ Start \/ StashTimesOut \/ StartRound \/ RoundsOver \/ NothingToStart
  \/ \E i \in batch : Worker(i)
  \/ RoundDone \/ Replan \/ ReplanFails \/ Finish \/ Over

\* Every spawned subagent, verifier and model call returns or raises.
Spec == Init /\ [][Next]_vars /\ WF_vars(Next)

-----------------------------------------------------------------------------
(* Properties.                                                             *)

IssueType ==
  [deps : SUBSET Nat, status : Status, failures : Nat, reviewFailures : Nat,
   at : {"idle", "begin", "code", "verify", "review", "giveUp"},
   onBoard : BOOLEAN, inResolved : Nat, inFailed : Nat, attempts : Nat]

\* Type correctness, and an issue's status agrees with where its worker is.
TypeOK ==
  /\ pc \in {"start", "rounds", "batch", "replan", "finish", "returned", "raised", "left"}
  /\ build \in BOOLEAN \X BOOLEAN /\ integrated \in BOOLEAN
  /\ issues \in Seq(IssueType)
  /\ batch \subseteq Created
  /\ round \in 0..MaxRounds /\ replans \in 0..MaxReplans
  /\ stash \in {"tree", "stashed", "stuck"}

\* Workers exist only for the batch, and between rounds nothing is in progress:
\* the sleep of _execute_phase is dead code.
NoWorkBetweenRounds ==
  /\ {i \in Created : issues[i].at # "idle"} \subseteq batch
  /\ pc \in {"rounds", "replan", "finish"} => InProgress = {}

\* Whatever is being worked on or resolved has its dependencies resolved, on
\* the board, although other workers fail and replans delete issues meanwhile.
DependenciesFirst ==
  \A i \in Created :
    issues[i].at # "idle" \/ issues[i].status = "resolved" =>
      \A d \in issues[i].deps : d \in Board /\ issues[d].status = "resolved"

\* An issue is in exactly one list of the result when it is decided and in none
\* before, deleted issues included.
ResultIsExact ==
  \A i \in Created :
    /\ issues[i].inResolved = IF issues[i].status = "resolved" THEN 1 ELSE 0
    /\ issues[i].inFailed = IF issues[i].status = "failed" THEN 1 ELSE 0

\* The result of a run that returns decides every issue of the run.
ReturnedIsDecided ==
  pc = "returned" => \A i \in Created : issues[i].status \in {"resolved", "failed"}

MostAttempts == IF isolated THEN 1 ELSE MaxFailures + MaxReviewFailures - 1

\* Verification failures and rejected reviews together allow an issue more
\* attempts than max_failures, but never more than this; in worktrees of its
\* own an issue is never attempted again.
AttemptsBounded ==
  \A i \in Created : issues[i].attempts <= MostAttempts

\* However run() ends once its try is entered, the user's changes are not left in
\* the stash, unless git could not apply them.  A stash that took too long to make
\* is left behind: no finally clause follows.
StashReturned == pc \in {"returned", "raised"} => stash # "stashed"

Verdict(i) ==
  IF issues[i].status \in {"resolved", "failed"} THEN issues[i].status ELSE "open"

\* The orchestrator keeps the promise of a dependent task graph.
Graph == INSTANCE TaskGraph
  WITH deps <- [i \in Created |-> issues[i].deps],
       verdict <- [i \in Created |-> Verdict(i)]
ImplementsTaskGraph == Graph!Spec
=============================================================================
