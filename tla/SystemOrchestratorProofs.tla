---------------------- MODULE SystemOrchestratorProofs ----------------------
(***************************************************************************)
(* Theorems about SystemOrchestrator for every decomposition and limit.    *)
(*                                                                         *)
(* The invariants follow from IInv: where a worker stands fixes the status *)
(* of its issue, what it has been charged and in which list of the result  *)
(* the issue is; and the phase of the run says when workers may exist.     *)
(***************************************************************************)
EXTENDS SystemOrchestrator, SequenceTheorems, TLAPS

Attempting == {"code", "verify", "review"}

\* The status of an issue is the one its worker has set.
StatusFits(issue) ==
  \/ issue.at = "idle" /\ issue.status \in {"open", "resolved", "failed"}
  \/ issue.at = "begin" /\ issue.status = "open"
  \/ issue.at = "code" /\ issue.status = "in_progress"
  \/ issue.at = "verify" /\ issue.status = "verifying"
  \/ issue.at = "review" /\ issue.status = "reviewing"
  \/ issue.at = "giveUp" /\ issue.status \in {"in_progress", "verifying"}

\* Every attempt but the one under way has cost a failure, and failures beyond
\* the limit have cost a rejected review each.
Paid(issue) ==
  /\ issue.status = "open" \/ issue.at = "giveUp" => issue.attempts = issue.failures
  /\ issue.at \in Attempting => issue.attempts = issue.failures + 1
  /\ issue.status = "open" \/ issue.at \in Attempting =>
       issue.failures < MaxFailures + issue.reviewFailures
  /\ issue.status \notin {"resolved", "failed"} =>
       issue.reviewFailures < MaxReviewFailures

Listed(issue) ==
  /\ issue.inResolved = IF issue.status = "resolved" THEN 1 ELSE 0
  /\ issue.inFailed = IF issue.status = "failed" THEN 1 ELSE 0

\* Only failed issues are taken from the board, only those on it are worked on.
Placed(issue, working) ==
  /\ issue.at # "idle" => working /\ issue.onBoard
  /\ issue.status # "failed" => issue.onBoard

Sound(issue, working) ==
  StatusFits(issue) /\ Paid(issue) /\ Listed(issue) /\ Placed(issue, working)

IssuesSound == \A i \in Created : Sound(issues[i], i \in batch)

Phase ==
  /\ pc = "start" => issues = <<>>
  /\ batch # {} => pc \in {"batch", "raised"}
  /\ pc = "replan" => replans < MaxReplans
  /\ pc \in {"finish", "returned"} =>
       \A i \in Created : issues[i].status \in {"resolved", "failed"}
  /\ StashReturned

IInv == TypeOK /\ IssuesSound /\ AttemptsBounded /\ Phase /\ DependenciesFirst

-----------------------------------------------------------------------------
(* The list of issues.                                                     *)

\* Replacing one issue of the list leaves the others as they were.
LEMMA EditIssue ==
  ASSUME NEW s \in Seq(IssueType), NEW i \in 1..Len(s), NEW r \in IssueType,
         NEW t, t = [s EXCEPT ![i] = r]
  PROVE  /\ t \in Seq(IssueType)
         /\ Len(t) = Len(s)
         /\ t[i] = r
         /\ \A j \in 1..Len(s) : j # i => t[j] = s[j]
<1>1. t \in Seq(IssueType) /\ Len(t) = Len(s)
  BY ExceptSeq
<1>2. DOMAIN s = 1..Len(s)
  BY LenProperties
<1> QED
  BY <1>1, <1>2

\* A function on 1..n is a list of n issues.
LEMMA MapIssues ==
  ASSUME NEW n \in Nat, NEW t \in [1..n -> IssueType]
  PROVE  t \in Seq(IssueType) /\ Len(t) = n
<1>1. t \in Seq(IssueType)
  OBVIOUS
<1>2. DOMAIN t = 1..n
  OBVIOUS
<1> QED
  BY <1>1, <1>2, LenProperties

\* An issue that nobody has worked on.
Fresh(issue) ==
  /\ issue.attempts = 0 /\ issue.at = "idle" /\ issue.status = "open"
  /\ Sound(issue, TRUE) /\ Sound(issue, FALSE)

LEMMA NewIssueFresh ==
  ASSUME NEW needs \in SUBSET Nat
  PROVE  NewIssue(needs) \in IssueType /\ Fresh(NewIssue(needs))
<1>1. NewIssue(needs) \in IssueType
  BY DEF NewIssue, IssueType, Status
<1>2. Fresh(NewIssue(needs))
  BY LimitsAssumption
     DEF Fresh, NewIssue, Sound, StatusFits, Paid, Listed, Placed, Attempting
<1> QED
  BY <1>1, <1>2

\* A decomposition becomes a list of fresh issues.
LEMMA NewIssues ==
  ASSUME NEW list \in Decompositions,
         NEW t, t = [k \in 1..Len(list) |-> NewIssue(list[k])]
  PROVE  /\ t \in Seq(IssueType)
         /\ Len(t) = Len(list)
         /\ \A k \in 1..Len(t) : Fresh(t[k])
<1>1. list \in Seq(SUBSET Nat)
  BY DecompositionsAssumption
<1>2. Len(list) \in Nat /\ \A k \in 1..Len(list) : list[k] \in SUBSET Nat
  BY <1>1, LenProperties, ElementOfSeq
<1>3. \A k \in 1..Len(list) : NewIssue(list[k]) \in IssueType /\ Fresh(NewIssue(list[k]))
  BY <1>2, NewIssueFresh
<1>4. t \in [1..Len(list) -> IssueType]
  BY <1>3
<1>5. t \in Seq(IssueType) /\ Len(t) = Len(list)
  BY <1>2, <1>4, MapIssues
<1> QED
  BY <1>3, <1>5

-----------------------------------------------------------------------------
(* One worker.                                                             *)

\* What is worked on or resolved keeps its dependencies met as long as issues
\* keep their dependencies, resolved ones stay so on the board, and only issues
\* whose dependencies are met are taken up.
LEMMA DependenciesKept ==
  ASSUME IInv, issues' \in Seq(IssueType),
         \A j \in Created : j \in Created' /\ issues'[j].deps = issues[j].deps,
         \A j \in Created : issues[j].status = "resolved" =>
           issues'[j].status = "resolved" /\ issues'[j].onBoard = issues[j].onBoard,
         \A j \in Created' :
           issues'[j].at # "idle" \/ issues'[j].status = "resolved" =>
             /\ j \in Created
             /\ issues[j].at # "idle" \/ issues[j].status = "resolved" \/ DepsResolved(j)
  PROVE  DependenciesFirst'
<1> SUFFICES ASSUME NEW j \in Created', NEW d \in issues'[j].deps,
                    issues'[j].at # "idle" \/ issues'[j].status = "resolved"
             PROVE  d \in Board' /\ issues'[d].status = "resolved"
  BY Zenon DEF DependenciesFirst
<1>1. j \in Created /\ d \in issues[j].deps
  OBVIOUS
<1>2. d \in Board /\ issues[d].status = "resolved"
  BY <1>1 DEF IInv, DependenciesFirst, DepsResolved
<1>3. d \in Created /\ issues[d].onBoard
  BY <1>2 DEF Board
<1> QED
  BY <1>2, <1>3 DEF Board

\* A worker replaces its own issue only.
LEMMA WorkerStep ==
  ASSUME IInv, NEW i \in batch, NEW r \in IssueType,
         issues' = Update(i, r), batch' \in {batch, batch \ {i}}, build' = build,
         issues[i].at # "idle", r.deps = issues[i].deps,
         Sound(r, i \in batch'), r.attempts <= MostAttempts
  PROVE  /\ issues' \in Seq(IssueType) /\ Created' = Created /\ batch' \subseteq Created'
         /\ IssuesSound' /\ AttemptsBounded' /\ DependenciesFirst'
<1>1. issues \in Seq(IssueType) /\ i \in 1..Len(issues)
  BY DEF IInv, TypeOK, Created
<1>2. /\ issues' \in Seq(IssueType)
      /\ Len(issues') = Len(issues)
      /\ issues'[i] = r
      /\ \A j \in 1..Len(issues) : j # i => issues'[j] = issues[j]
  BY <1>1, EditIssue DEF Update
<1>3. Created' = Created /\ batch' \subseteq Created'
  BY <1>2 DEF Created, IInv, TypeOK
<1>4. IssuesSound'
  <2> SUFFICES ASSUME NEW j \in Created'
               PROVE  Sound(issues'[j], j \in batch')
    BY DEF IssuesSound
  <2>1. CASE j = i
    BY <1>2, <2>1
  <2>2. CASE j # i
    <3>1. issues'[j] = issues[j] /\ (j \in batch' <=> j \in batch) /\ j \in Created
      BY <1>2, <1>3, <2>2 DEF Created
    <3>2. Sound(issues[j], j \in batch)
      BY <3>1 DEF IInv, IssuesSound
    <3> QED
      BY <3>1, <3>2 DEF Sound, Placed
  <2> QED
    BY <2>1, <2>2
<1>5. AttemptsBounded'
  <2> SUFFICES ASSUME NEW j \in Created'
               PROVE  issues'[j].attempts <= MostAttempts'
    BY DEF AttemptsBounded
  <2>1. MostAttempts' = MostAttempts
    BY DEF MostAttempts, build
  <2>2. CASE j = i
    BY <1>2, <2>1, <2>2
  <2>3. CASE j # i
    BY <1>2, <1>3, <2>1, <2>3 DEF Created, IInv, AttemptsBounded
  <2> QED
    BY <2>2, <2>3
<1>6. DependenciesFirst'
  <2>1. Sound(issues[i], i \in batch)
    BY <1>1 DEF IInv, IssuesSound, Created
  <2>2. issues[i].status # "resolved"
    BY <2>1 DEF Sound, StatusFits
  <2> QED
    BY <1>2, <1>3, <2>2, DependenciesKept DEF Created
<1> QED
  BY <1>2, <1>3, <1>4, <1>5, <1>6

\* Wherever the worker of an issue stands, its next step keeps the invariant.
LEMMA WorkerKeepsIssues ==
  ASSUME IInv, NEW i \in batch, Worker(i)
  PROVE  /\ issues' \in Seq(IssueType) /\ Created' = Created /\ batch' \subseteq Created'
         /\ IssuesSound' /\ AttemptsBounded' /\ DependenciesFirst'
<1> DEFINE me == issues[i]
<1>1. /\ me \in IssueType /\ i \in Created
  BY ElementOfSeq DEF IInv, TypeOK, Created
<1>2. Sound(me, TRUE) /\ me.attempts <= MostAttempts
  BY <1>1 DEF IInv, IssuesSound, AttemptsBounded, Sound, Placed
<1>3. MostAttempts \in Nat /\ MostAttempts >= 1
  BY LimitsAssumption DEF MostAttempts
<1>nat. /\ me.attempts \in Nat /\ me.failures \in Nat /\ me.reviewFailures \in Nat
      /\ me.inResolved \in Nat /\ me.inFailed \in Nat
  BY <1>1 DEF IssueType
<1>succ. /\ me.attempts + 1 \in Nat /\ me.failures + 1 \in Nat
       /\ me.reviewFailures + 1 \in Nat
       /\ me.inResolved + 1 \in Nat /\ me.inFailed + 1 \in Nat
  BY <1>nat
<1> HIDE DEF me
<1>4. ASSUME NEW r \in IssueType, issues' = Update(i, r),
             batch' \in {batch, batch \ {i}}, build' = build, me.at # "idle",
             r.deps = me.deps, Sound(r, i \in batch'), r.attempts <= MostAttempts
      PROVE  /\ issues' \in Seq(IssueType) /\ Created' = Created /\ batch' \subseteq Created'
             /\ IssuesSound' /\ AttemptsBounded' /\ DependenciesFirst'
  BY <1>4, WorkerStep DEF me
<1>5. CASE BeginIssue(i)
  <2> DEFINE r == [me EXCEPT !.status = "in_progress", !.at = "code",
                             !.attempts = me.attempts + 1]
  <2>1. /\ issues' = Update(i, r) /\ batch' = batch /\ build' = build
        /\ me.at = "begin" /\ ~WorktreeTaken(i)
    BY <1>5 DEF BeginIssue, me
  <2>2. r \in IssueType /\ r.deps = me.deps
    BY <1>1, <1>succ DEF IssueType, Status, Working
  <2>3. Sound(r, TRUE)
    BY <1>1, <1>2, <2>1
       DEF Sound, StatusFits, Paid, Listed, Placed, Attempting, IssueType
  <2>4. r.attempts <= MostAttempts
    <3>1. me.attempts \in Nat /\ r.attempts = me.attempts + 1
      BY <1>1 DEF IssueType
    <3>2. CASE isolated
      BY <1>3, <2>1, <3>1, <3>2 DEF WorktreeTaken, me
    <3>3. CASE ~isolated
      <4>1. me.attempts = me.failures /\ me.failures < MaxFailures + me.reviewFailures
            /\ me.reviewFailures < MaxReviewFailures
        BY <1>2, <2>1 DEF Sound, StatusFits, Paid
      <4>2. me.failures \in Nat /\ me.reviewFailures \in Nat
        BY <1>1 DEF IssueType
      <4>3. MostAttempts = MaxFailures + MaxReviewFailures - 1
        BY <3>3 DEF MostAttempts
      <4> HIDE DEF r
      <4> QED
        BY <3>1, <4>1, <4>2, <4>3, LimitsAssumption
    <3> QED
      BY <3>2, <3>3
  <2> HIDE DEF r
  <2> QED
    BY <1>4, <2>1, <2>2, <2>3, <2>4
<1>6. CASE WorktreeFails(i)
  <2> DEFINE r == Reported([me EXCEPT !.at = "idle"])
  <2>1. /\ issues' = Update(i, r) /\ batch' = batch \ {i} /\ build' = build
        /\ me.at = "begin"
    BY <1>6 DEF WorktreeFails, me, Leave
  <2>2. r \in IssueType /\ r.deps = me.deps /\ r.attempts = me.attempts
    BY <1>1, <1>succ DEF IssueType, Status, Working, Reported, FailedOnce, GivenUp, ReviewRetry
  <2>3. Sound(r, FALSE)
    BY <1>1, <1>2, <2>1, LimitsAssumption
       DEF Sound, StatusFits, Paid, Listed, Placed, Attempting, IssueType,
           Reported, FailedOnce, GivenUp, ReviewRetry
  <2>4. (i \in batch') = FALSE
    BY <2>1
  <2> HIDE DEF r
  <2> QED
    BY <1>2, <1>4, <2>1, <2>2, <2>3, <2>4
<1>7. CASE CodeDone(i)
  <2>1. /\ \/ issues' = Update(i, [me EXCEPT !.status = "verifying", !.at = "verify"])
           \/ issues' = Update(i, FailedOnce(me))
        /\ batch' = batch /\ build' = build /\ me.at = "code"
    BY <1>7 DEF CodeDone, me
  <2>2. ASSUME NEW r \in {[me EXCEPT !.status = "verifying", !.at = "verify"], FailedOnce(me)}
        PROVE  /\ r \in IssueType /\ r.deps = me.deps /\ r.attempts = me.attempts
               /\ Sound(r, TRUE)
    BY <1>1, <1>2, <2>1, <2>2
       DEF Sound, StatusFits, Paid, Listed, Placed, Attempting, IssueType,
           Status, Working, FailedOnce
  <2>3. PICK r \in {[me EXCEPT !.status = "verifying", !.at = "verify"], FailedOnce(me)} :
          issues' = Update(i, r)
    BY <2>1
  <2> QED
    BY <1>2, <1>4, <2>1, <2>2, <2>3
<1>8. CASE Verified(i)
  <2>1. /\ \/ issues' = Update(i, [me EXCEPT !.status = "reviewing", !.at = "review"])
           \/ issues' = Update(i, FailedOnce(me))
        /\ batch' = batch /\ build' = build /\ me.at = "verify"
    BY <1>8 DEF Verified, me
  <2>2. ASSUME NEW r \in {[me EXCEPT !.status = "reviewing", !.at = "review"], FailedOnce(me)}
        PROVE  /\ r \in IssueType /\ r.deps = me.deps /\ r.attempts = me.attempts
               /\ Sound(r, TRUE)
    BY <1>1, <1>2, <2>1, <2>2
       DEF Sound, StatusFits, Paid, Listed, Placed, Attempting, IssueType,
           Status, Working, FailedOnce
  <2>3. PICK r \in {[me EXCEPT !.status = "reviewing", !.at = "review"], FailedOnce(me)} :
          issues' = Update(i, r)
    BY <2>1
  <2> QED
    BY <1>2, <1>4, <2>1, <2>2, <2>3
<1>9. CASE GiveUp(i)
  <2> DEFINE r == GivenUp(me)
  <2>1. /\ issues' = Update(i, r) /\ batch' = batch \ {i} /\ build' = build
        /\ me.at = "giveUp"
    BY <1>9 DEF GiveUp, me, Leave
  <2>2. r \in IssueType /\ r.deps = me.deps /\ r.attempts = me.attempts
    BY <1>1, <1>succ DEF IssueType, Status, Working, Reported, FailedOnce, GivenUp, ReviewRetry
  <2>3. Sound(r, FALSE)
    BY <1>1, <1>2, <2>1, LimitsAssumption
       DEF Sound, StatusFits, Paid, Listed, Placed, Attempting, IssueType,
           Reported, FailedOnce, GivenUp, ReviewRetry
  <2>4. (i \in batch') = FALSE
    BY <2>1
  <2> HIDE DEF r
  <2> QED
    BY <1>2, <1>4, <2>1, <2>2, <2>3, <2>4
<1>10. CASE ReviewRejects(i)
  <2> DEFINE r == IF me.reviewFailures + 1 < MaxReviewFailures
                   THEN ReviewRetry(me)
                   ELSE [Reported(me) EXCEPT !.at = "idle",
                           !.reviewFailures = me.reviewFailures + 1]
  <2>1. /\ issues' = Update(i, r) /\ batch' = batch \ {i} /\ build' = build
        /\ me.at = "review"
    BY <1>10 DEF ReviewRejects, me, Leave
  <2>2. r \in IssueType /\ r.deps = me.deps /\ r.attempts = me.attempts
    BY <1>1, <1>succ DEF IssueType, Status, Working, Reported, FailedOnce, GivenUp, ReviewRetry
  <2>3. Sound(r, FALSE)
    BY <1>1, <1>2, <2>1, LimitsAssumption
       DEF Sound, StatusFits, Paid, Listed, Placed, Attempting, IssueType,
           Reported, FailedOnce, GivenUp, ReviewRetry
  <2>4. (i \in batch') = FALSE
    BY <2>1
  <2> HIDE DEF r
  <2> QED
    BY <1>2, <1>4, <2>1, <2>2, <2>3, <2>4
<1>11. CASE ReviewPasses(i)
  <2> DEFINE r == [me EXCEPT !.status = "resolved", !.at = "idle",
                             !.inResolved = me.inResolved + 1]
  <2>1. /\ issues' = Update(i, r) /\ batch' = batch \ {i} /\ build' = build
        /\ me.at = "review"
    BY <1>11 DEF ReviewPasses, me, Leave
  <2>2. r \in IssueType /\ r.deps = me.deps /\ r.attempts = me.attempts
    BY <1>1, <1>succ DEF IssueType, Status, Working, Reported, FailedOnce, GivenUp, ReviewRetry
  <2>3. Sound(r, FALSE)
    BY <1>1, <1>2, <2>1, LimitsAssumption
       DEF Sound, StatusFits, Paid, Listed, Placed, Attempting, IssueType,
           Reported, FailedOnce, GivenUp, ReviewRetry
  <2>4. (i \in batch') = FALSE
    BY <2>1
  <2> HIDE DEF r
  <2> QED
    BY <1>2, <1>4, <2>1, <2>2, <2>3, <2>4
<1> QED
  BY <1>5, <1>6, <1>7, <1>8, <1>9, <1>10, <1>11 DEF Worker

-----------------------------------------------------------------------------
(* The whole board.                                                        *)

\* What changes the board keeps every issue sound, takes up only issues whose
\* dependencies are met and attempts none.
LEMMA BoardStep ==
  ASSUME IInv, issues' \in Seq(IssueType), build' = build,
         batch' \subseteq Created', Len(issues) <= Len(issues'),
         \A j \in Created' : Sound(issues'[j], j \in batch'),
         \A j \in Created : issues'[j].deps = issues[j].deps
                            /\ issues'[j].attempts = issues[j].attempts,
         \A j \in Created : issues[j].status = "resolved" =>
           issues'[j].status = "resolved" /\ issues'[j].onBoard = issues[j].onBoard,
         \A j \in Created : issues'[j].status = "resolved" => issues[j].status = "resolved",
         \A j \in Created : issues'[j].at # "idle" => DepsResolved(j) \/ issues[j].at # "idle",
         \A j \in Created' \ Created :
           issues'[j].attempts = 0 /\ issues'[j].at = "idle" /\ issues'[j].status = "open"
  PROVE  IssuesSound' /\ AttemptsBounded' /\ DependenciesFirst'
<1>1. Len(issues) \in Nat /\ Len(issues') \in Nat
  BY LenProperties DEF IInv, TypeOK
<1>2. Created \subseteq Created'
  BY <1>1 DEF Created
<1>3. IssuesSound'
  BY DEF IssuesSound
<1>4. MostAttempts' = MostAttempts /\ 0 <= MostAttempts
  BY LimitsAssumption DEF MostAttempts, build
<1>5. AttemptsBounded'
  <2> SUFFICES ASSUME NEW j \in Created'
               PROVE  issues'[j].attempts <= MostAttempts'
    BY DEF AttemptsBounded
  <2>1. CASE j \in Created
    BY <1>4, <2>1 DEF IInv, AttemptsBounded
  <2>2. CASE j \notin Created
    BY <1>4, <2>2
  <2> QED
    BY <2>1, <2>2
<1>6. DependenciesFirst'
  BY <1>2, DependenciesKept
<1> QED
  BY <1>3, <1>5, <1>6

\* At most the batch is worked on, and outside a batch nothing is.
LEMMA IdleBetweenRounds ==
  ASSUME IInv, batch = {}
  PROVE  /\ \A j \in Created : issues[j].at = "idle" /\ issues[j].status \notin Working
         /\ InProgress = {}
<1>1. \A j \in Created : issues[j].at = "idle" /\ issues[j].status \notin Working
  BY DEF IInv, IssuesSound, Sound, Placed, StatusFits, Working
<1> QED
  BY <1>1 DEF InProgress, With, Board

LEMMA StartKeeps ==
  ASSUME IInv, Start \/ StashTimesOut
  PROVE  /\ IInv' /\ Created = {} /\ Len(issues) = 0
         /\ \A j \in Created' : issues'[j].status = "open"
<1>1. PICK list \in Decompositions :
        issues' = [k \in 1..Len(list) |-> NewIssue(list[k])]
  BY DEF Start, StashTimesOut, Prepare
<1>2. /\ issues' \in Seq(IssueType)
      /\ \A k \in Created' : Fresh(issues'[k])
  BY <1>1, NewIssues DEF Created
<1>3. issues = <<>> /\ Len(issues) = 0 /\ Created = {} /\ batch = {} /\ batch' = {}
      /\ build' = build
  BY DEF Start, StashTimesOut, Prepare, IInv, Phase, Created
<1>4. \A k \in Created' : Sound(issues'[k], k \in batch')
  <2>1. \A k \in Created' : (k \in batch') = FALSE
    BY <1>3
  <2> QED
    BY <1>2, <2>1 DEF Fresh
<1>5. \A j \in Created' \ Created :
        issues'[j].attempts = 0 /\ issues'[j].at = "idle" /\ issues'[j].status = "open"
  BY <1>2 DEF Fresh
<1>6. IssuesSound' /\ AttemptsBounded' /\ DependenciesFirst'
  <2>1. Len(issues) <= Len(issues')
    BY <1>2, <1>3, LenProperties
  <2> QED
    BY <1>2, <1>3, <1>4, <1>5, <2>1, BoardStep
<1>7. TypeOK'
  BY <1>2, <1>3 DEF Start, StashTimesOut, Prepare, IInv, TypeOK, build
<1>8. Phase'
  BY <1>3 DEF Start, StashTimesOut, Prepare, Phase, StashReturned
<1> QED
  BY <1>2, <1>3, <1>6, <1>7, <1>8 DEF IInv, Fresh

LEMMA StartRoundKeeps ==
  ASSUME IInv, StartRound
  PROVE  /\ IInv' /\ Created' = Created
         /\ \A j \in Created : /\ issues'[j].deps = issues[j].deps
                               /\ issues'[j].status = issues[j].status
<1>1. /\ pc = "rounds" /\ batch = {} /\ pc' = "batch" /\ round < MaxRounds
      /\ batch' = NextBatch /\ round' = round + 1 /\ build' = build
      /\ UNCHANGED <<replans, integrated, stash>>
  BY DEF StartRound, MayRound, IInv, Phase
<1>2. Len(issues) \in Nat /\ \A j \in Created : issues[j] \in IssueType
  BY LenProperties, ElementOfSeq DEF IInv, TypeOK, Created
<1>3. issues' = [j \in Created |-> IF j \in NextBatch THEN [issues[j] EXCEPT !.at = "begin"]
                                  ELSE issues[j]]
  BY DEF StartRound
<1>4. issues' \in [1..Len(issues) -> IssueType]
  <2>1. \A j \in Created : [issues[j] EXCEPT !.at = "begin"] \in IssueType
    BY <1>2 DEF IssueType
  <2> QED
    BY <1>2, <1>3, <2>1 DEF Created
<1>5. issues' \in Seq(IssueType) /\ Len(issues') = Len(issues) /\ Created' = Created
  BY <1>2, <1>4, MapIssues DEF Created
<1>6. ASSUME NEW j \in Created
      PROVE  /\ Sound(issues'[j], j \in batch')
             /\ issues'[j].deps = issues[j].deps /\ issues'[j].attempts = issues[j].attempts
             /\ issues'[j].status = issues[j].status /\ issues'[j].onBoard = issues[j].onBoard
             /\ issues'[j].at # "idle" => DepsResolved(j)
  <2>1. Sound(issues[j], FALSE) /\ issues[j].at = "idle"
    BY <1>1, IdleBetweenRounds DEF IInv, IssuesSound, Sound, Placed
  <2>2. CASE j \in NextBatch
    <3>1. issues'[j] = [issues[j] EXCEPT !.at = "begin"]
      BY <1>3, <2>2
    <3>2. issues[j].status = "open" /\ issues[j].onBoard /\ DepsResolved(j)
      BY <2>2 DEF NextBatch, OpenIssues, With, Board
    <3>3. /\ issues'[j].at = "begin" /\ issues'[j].deps = issues[j].deps
          /\ issues'[j].attempts = issues[j].attempts /\ issues'[j].status = issues[j].status
          /\ issues'[j].failures = issues[j].failures
          /\ issues'[j].reviewFailures = issues[j].reviewFailures
          /\ issues'[j].inResolved = issues[j].inResolved
          /\ issues'[j].inFailed = issues[j].inFailed
          /\ issues'[j].onBoard = issues[j].onBoard
      BY <1>2, <3>1 DEF IssueType
    <3> QED
      BY <1>1, <2>1, <2>2, <3>2, <3>3
         DEF Sound, StatusFits, Paid, Listed, Placed, Attempting
  <2>3. CASE j \notin NextBatch
    <3>1. issues'[j] = issues[j]
      BY <1>3, <2>3
    <3> QED
      BY <1>1, <2>1, <2>3, <3>1 DEF Sound, Placed
  <2> QED
    BY <2>2, <2>3
<1>7. NextBatch \subseteq Created'
  BY <1>5 DEF NextBatch, OpenIssues, With, Board
<1>8. IssuesSound' /\ AttemptsBounded' /\ DependenciesFirst'
  BY <1>1, <1>2, <1>5, <1>6, <1>7, BoardStep
<1>9. TypeOK'
  BY <1>1, <1>5, <1>7, LimitsAssumption DEF IInv, TypeOK, build
<1>10. Phase'
  BY <1>1 DEF Phase, StashReturned
<1> QED
  BY <1>5, <1>6, <1>8, <1>9, <1>10 DEF IInv

\* The issues reported when the rounds are over are the undecided ones.
LEMMA SweepKeeps ==
  ASSUME IInv, Sweep, pc = "rounds", round' \in 0..MaxRounds
  PROVE  /\ IInv' /\ Created' = Created
         /\ \A j \in Created : /\ issues'[j].deps = issues[j].deps
                               /\ issues'[j].status \in {"resolved", "failed"}
                               /\ (issues'[j].status = "resolved" <=> issues[j].status = "resolved")
<1>1. /\ batch = {} /\ batch' = {} /\ pc' = "finish" /\ build' = build
      /\ UNCHANGED <<replans, integrated, stash>>
  BY DEF Sweep, IInv, Phase
<1>2. /\ Len(issues) \in Nat /\ \A j \in Created : issues[j] \in IssueType
      /\ InProgress = {} /\ Undecided = With("open")
  BY <1>1, LenProperties, ElementOfSeq, IdleBetweenRounds DEF IInv, TypeOK, Created, Undecided
<1>3. issues' = [j \in Created |-> IF j \in With("open") THEN Reported(issues[j])
                                  ELSE issues[j]]
  BY <1>2 DEF Sweep
<1>4. issues' \in [1..Len(issues) -> IssueType]
  <2>1. \A j \in Created : issues[j].inFailed + 1 \in Nat
    BY <1>2 DEF IssueType
  <2>2. \A j \in Created : Reported(issues[j]) \in IssueType
    BY <1>2, <2>1 DEF IssueType, Reported, Status
  <2> QED
    BY <1>2, <1>3, <2>2 DEF Created
<1>5. issues' \in Seq(IssueType) /\ Len(issues') = Len(issues) /\ Created' = Created
  BY <1>2, <1>4, MapIssues DEF Created
<1>6. ASSUME NEW j \in Created
      PROVE  /\ Sound(issues'[j], FALSE)
             /\ issues'[j].deps = issues[j].deps /\ issues'[j].attempts = issues[j].attempts
             /\ issues'[j].onBoard = issues[j].onBoard
             /\ (issues'[j].status = "resolved" <=> issues[j].status = "resolved")
             /\ issues'[j].at = "idle"
             /\ issues'[j].status \in {"resolved", "failed"}
  <2>1. Sound(issues[j], FALSE) /\ issues[j].at = "idle"
    BY <1>1, IdleBetweenRounds DEF IInv, IssuesSound, Sound, Placed
  <2>2. CASE j \in With("open")
    <3>1. issues'[j] = Reported(issues[j])
      BY <1>3, <2>2
    <3>2. issues[j].status = "open" /\ issues[j].onBoard
      BY <2>2 DEF With, Board
    <3>3. /\ issues'[j].at = issues[j].at /\ issues'[j].deps = issues[j].deps
          /\ issues'[j].attempts = issues[j].attempts /\ issues'[j].status = "failed"
          /\ issues'[j].failures = issues[j].failures
          /\ issues'[j].reviewFailures = issues[j].reviewFailures
          /\ issues'[j].inResolved = issues[j].inResolved
          /\ issues'[j].inFailed = issues[j].inFailed + 1
          /\ issues'[j].onBoard = issues[j].onBoard
      BY <1>2, <3>1 DEF IssueType, Reported
    <3> QED
      BY <2>1, <3>2, <3>3 DEF Sound, StatusFits, Paid, Listed, Placed, Attempting
  <2>3. CASE j \notin With("open")
    <3>1. issues'[j] = issues[j]
      BY <1>3, <2>3
    <3>2. issues[j].status # "open"
      BY <2>1, <2>3 DEF With, Board, Sound, Placed
    <3> QED
      BY <2>1, <3>1, <3>2 DEF Sound, StatusFits
  <2> QED
    BY <2>2, <2>3
<1>7. IssuesSound' /\ AttemptsBounded' /\ DependenciesFirst'
  <2>1. \A j \in Created' : (j \in batch') = FALSE
    BY <1>1
  <2>2. \A j \in Created' : Sound(issues'[j], j \in batch')
    BY <1>5, <1>6, <2>1
  <2>3. /\ \A j \in Created : issues'[j].deps = issues[j].deps
                            /\ issues'[j].attempts = issues[j].attempts
        /\ \A j \in Created : issues[j].status = "resolved" =>
             issues'[j].status = "resolved" /\ issues'[j].onBoard = issues[j].onBoard
        /\ \A j \in Created : issues'[j].status = "resolved" => issues[j].status = "resolved"
        /\ \A j \in Created : issues'[j].at # "idle" => DepsResolved(j) \/ issues[j].at # "idle"
    BY <1>6
  <2>4. Len(issues) <= Len(issues') /\ batch' \subseteq Created' /\ Created' \ Created = {}
    BY <1>1, <1>2, <1>5
  <2> QED
    BY <1>1, <1>5, <2>2, <2>3, <2>4, BoardStep
<1>8. TypeOK'
  BY <1>1, <1>5 DEF IInv, TypeOK, build
<1>9. Phase'
  BY <1>1, <1>5, <1>6 DEF Phase, StashReturned
<1> QED
  BY <1>5, <1>6, <1>7, <1>8, <1>9 DEF IInv

\* A replan takes failed issues from the board and adds fresh ones.
LEMMA ReplanKeeps ==
  ASSUME IInv, Replan
  PROVE  /\ IInv' /\ Len(issues) <= Len(issues') /\ Created \subseteq Created'
         /\ \A j \in Created : /\ issues'[j].deps = issues[j].deps
                               /\ issues'[j].status = issues[j].status
         /\ \A j \in Created' \ Created : issues'[j].status = "open"
<1>1. /\ pc = "replan" /\ batch = {} /\ batch' = {} /\ pc' = "rounds" /\ build' = build
      /\ UNCHANGED <<round, integrated, stash>>
  BY DEF Replan, IInv, Phase
<1>2. /\ Len(issues) \in Nat /\ \A j \in Created : issues[j] \in IssueType
  BY LenProperties, ElementOfSeq DEF IInv, TypeOK, Created
<1> DEFINE old == [j \in Created |-> IF j \in Dropped THEN [issues[j] EXCEPT !.onBoard = FALSE]
                                     ELSE issues[j]]
<1>3. PICK list \in Decompositions :
        issues' = old \o [k \in 1..Len(list) |-> NewIssue(list[k])]
  BY DEF Replan
<1> DEFINE new == [k \in 1..Len(list) |-> NewIssue(list[k])]
<1>4. new \in Seq(IssueType) /\ \A k \in 1..Len(new) : Fresh(new[k])
  BY NewIssues
<1>5. old \in Seq(IssueType) /\ Len(old) = Len(issues)
  <2>1. \A j \in Created : [issues[j] EXCEPT !.onBoard = FALSE] \in IssueType
    BY <1>2 DEF IssueType
  <2>2. old \in [1..Len(issues) -> IssueType]
    BY <1>2, <2>1 DEF Created
  <2> QED
    BY <1>2, <2>2, MapIssues
<1>6. ASSUME NEW j \in Created
      PROVE  /\ Sound(old[j], FALSE)
             /\ old[j].deps = issues[j].deps /\ old[j].attempts = issues[j].attempts
             /\ old[j].status = issues[j].status /\ old[j].at = "idle"
             /\ issues[j].status = "resolved" => old[j].onBoard = issues[j].onBoard
  <2>1. Sound(issues[j], FALSE) /\ issues[j].at = "idle"
    BY <1>1, IdleBetweenRounds DEF IInv, IssuesSound, Sound, Placed
  <2>2. CASE j \in Dropped
    <3>1. issues[j].status = "failed"
      BY <2>2 DEF Dropped, With
    <3>2. old[j] = [issues[j] EXCEPT !.onBoard = FALSE]
      BY <2>2
    <3>3. /\ old[j].at = issues[j].at /\ old[j].deps = issues[j].deps
          /\ old[j].attempts = issues[j].attempts /\ old[j].status = issues[j].status
          /\ old[j].failures = issues[j].failures
          /\ old[j].reviewFailures = issues[j].reviewFailures
          /\ old[j].inResolved = issues[j].inResolved
          /\ old[j].inFailed = issues[j].inFailed
      BY <1>2, <3>2 DEF IssueType
    <3> HIDE DEF old
    <3> QED
      BY <2>1, <3>1, <3>3 DEF Sound, StatusFits, Paid, Listed, Placed, Attempting
  <2>3. CASE j \notin Dropped
    <3>1. old[j] = issues[j]
      BY <2>3
    <3> QED
      BY <2>1, <3>1
  <2> QED
    BY <2>2, <2>3
<1> HIDE DEF old, new
<1>7. /\ issues' \in Seq(IssueType) /\ Len(issues) <= Len(issues')
      /\ Created \subseteq Created'
      /\ \A j \in Created : issues'[j] = old[j]
      /\ \A j \in Created' \ Created : Fresh(issues'[j])
  <2>1. issues' = old \o new
    BY <1>3 DEF old, new
  <2>2. /\ issues' \in Seq(IssueType) /\ Len(issues') = Len(issues) + Len(new)
        /\ \A j \in 1..Len(issues) + Len(new) :
             issues'[j] = IF j <= Len(issues) THEN old[j] ELSE new[j - Len(issues)]
    <3>1. /\ old \o new \in Seq(IssueType) /\ Len(old \o new) = Len(old) + Len(new)
          /\ \A j \in 1..Len(old) + Len(new) :
               (old \o new)[j] = IF j <= Len(old) THEN old[j] ELSE new[j - Len(old)]
      BY <1>4, <1>5, ConcatProperties
    <3> QED
      BY <1>5, <2>1, <3>1
  <2>3. Len(new) \in Nat
    BY <1>4, LenProperties
  <2>4. \A j \in Created' \ Created :
          /\ j \in 1..Len(issues) + Len(new) /\ ~(j <= Len(issues))
          /\ j - Len(issues) \in 1..Len(new)
    BY <1>2, <2>2, <2>3 DEF Created
  <2>5. \A j \in Created : j \in 1..Len(issues) + Len(new) /\ j <= Len(issues)
    BY <1>2, <2>3 DEF Created
  <2>6. Len(issues) <= Len(issues') /\ Created \subseteq Created'
    BY <1>2, <2>2, <2>3 DEF Created
  <2> QED
    BY <1>4, <2>2, <2>4, <2>5, <2>6
<1>8. IssuesSound' /\ AttemptsBounded' /\ DependenciesFirst'
  <2>1. \A j \in Created' : (j \in batch') = FALSE
    BY <1>1
  <2>2. \A j \in Created' : Sound(issues'[j], j \in batch')
    BY <1>6, <1>7, <2>1 DEF Fresh
  <2>3. \A j \in Created' \ Created :
          issues'[j].attempts = 0 /\ issues'[j].at = "idle" /\ issues'[j].status = "open"
    BY <1>7 DEF Fresh
  <2> QED
    BY <1>1, <1>6, <1>7, <2>2, <2>3, BoardStep
<1>9. TypeOK'
  <2>1. replans' \in 0..MaxReplans
    BY LimitsAssumption DEF Replan, IInv, TypeOK, Phase
  <2> QED
    BY <1>1, <1>7, <2>1 DEF IInv, TypeOK, build
<1>10. Phase'
  BY <1>1 DEF Phase, StashReturned
<1> QED
  BY <1>6, <1>7, <1>8, <1>9, <1>10 DEF IInv, Fresh

\* The sweep runs when the rounds are over or nothing can be started.
LEMMA RoundsEnd ==
  ASSUME IInv, RoundsOver \/ NothingToStart
  PROVE  Sweep /\ pc = "rounds" /\ round' \in 0..MaxRounds
<1>1. round \in 0..MaxRounds
  BY DEF IInv, TypeOK
<1>2. CASE RoundsOver
  BY <1>1, <1>2 DEF RoundsOver
<1>3. CASE NothingToStart
  BY <1>1, <1>3, LimitsAssumption DEF NothingToStart, MayRound
<1> QED
  BY <1>2, <1>3

LEMMA WorkerKeeps ==
  ASSUME IInv, NEW i \in batch, Worker(i)
  PROVE  IInv'
<1>1. pc \in {"batch", "raised"}
  BY DEF IInv, Phase
<1>2. /\ UNCHANGED <<build, round, replans, integrated>>
      /\ \/ UNCHANGED <<pc, stash>>
         \/ pc' = "raised" /\ stash' \in Popped
  BY DEF Worker, BeginIssue, WorktreeFails, CodeDone, Verified, GiveUp,
         ReviewRejects, ReviewPasses
<1>3. stash' \in {"tree", "stashed", "stuck"} /\ StashReturned'
  BY <1>2 DEF Popped, IInv, TypeOK, Phase, StashReturned
<1>4. /\ issues' \in Seq(IssueType) /\ batch' \subseteq Created'
      /\ IssuesSound' /\ AttemptsBounded' /\ DependenciesFirst'
  BY WorkerKeepsIssues
<1>5. TypeOK'
  BY <1>2, <1>3, <1>4 DEF IInv, TypeOK, build
<1>6. Phase'
  BY <1>1, <1>2, <1>3 DEF Phase
<1> QED
  BY <1>4, <1>5, <1>6 DEF IInv

\* A step that changes no issue keeps what is said of the issues.
LEMMA IssuesUnchanged ==
  ASSUME IInv, UNCHANGED <<build, issues, batch>>
  PROVE  IssuesSound' /\ AttemptsBounded' /\ DependenciesFirst'
<1>1. IssuesSound'
  BY DEF IInv, IssuesSound, Created
<1>2. AttemptsBounded'
  BY DEF IInv, AttemptsBounded, Created, MostAttempts, build
<1>3. DependenciesFirst'
  BY DEF IInv, DependenciesFirst, Created, Board
<1> QED
  BY <1>1, <1>2, <1>3

LEMMA InvariantStep == IInv /\ [Next]_vars => IInv'
<1> SUFFICES ASSUME IInv, [Next]_vars
             PROVE  IInv'
  OBVIOUS
<1>1. CASE Start \/ StashTimesOut
  BY <1>1, StartKeeps
<1>2. CASE StartRound
  BY <1>2, StartRoundKeeps
<1>3. CASE RoundsOver \/ NothingToStart
  BY <1>3, RoundsEnd, SweepKeeps
<1>4. CASE \E i \in batch : Worker(i)
  BY <1>4, WorkerKeeps
<1>5. CASE RoundDone
  <2>1. IssuesSound' /\ AttemptsBounded' /\ DependenciesFirst'
    BY <1>5, IssuesUnchanged DEF RoundDone
  <2>2. TypeOK' /\ Phase'
    BY <1>5 DEF RoundDone, ShouldReplan, IInv, TypeOK, Phase, Created, StashReturned, build
  <2> QED
    BY <2>1, <2>2 DEF IInv
<1>6. CASE Replan
  BY <1>6, ReplanKeeps
<1>7. CASE ReplanFails
  <2>1. IssuesSound' /\ AttemptsBounded' /\ DependenciesFirst'
    BY <1>7, IssuesUnchanged DEF ReplanFails
  <2>2. replans' \in 0..MaxReplans
    BY <1>7, LimitsAssumption DEF ReplanFails, IInv, TypeOK, Phase
  <2>3. TypeOK' /\ Phase'
    BY <1>7, <2>2 DEF ReplanFails, IInv, TypeOK, Phase, Created, StashReturned, build
  <2> QED
    BY <2>1, <2>3 DEF IInv
<1>8. CASE Finish
  <2>1. IssuesSound' /\ AttemptsBounded' /\ DependenciesFirst'
    BY <1>8, IssuesUnchanged DEF Finish
  <2>2. integrated' \in BOOLEAN /\ stash' \in {"tree", "stuck"}
    BY <1>8 DEF Finish, Popped, IInv, TypeOK
  <2>3. TypeOK' /\ Phase'
    BY <1>8, <2>2 DEF Finish, IInv, TypeOK, Phase, Created, StashReturned, build
  <2> QED
    BY <2>1, <2>3 DEF IInv
<1>9. CASE UNCHANGED vars
  <2>1. IssuesSound' /\ AttemptsBounded' /\ DependenciesFirst'
    BY <1>9, IssuesUnchanged DEF vars
  <2>2. TypeOK' /\ Phase'
    BY <1>9 DEF vars, IInv, TypeOK, Phase, Created, StashReturned, build
  <2> QED
    BY <2>1, <2>2 DEF IInv
<1> QED
  BY <1>1, <1>2, <1>3, <1>4, <1>5, <1>6, <1>7, <1>8, <1>9 DEF Next, Over

LEMMA InvariantInit == Init => IInv
<1> SUFFICES ASSUME Init PROVE IInv
  OBVIOUS
<1>1. issues = <<>> /\ Created = {} /\ Board = {}
  BY LenProperties DEF Init, Created, Board
<1>2. TypeOK
  <2>1. issues \in Seq(IssueType)
    BY <1>1, EmptySeq
  <2>2. round \in 0..MaxRounds /\ replans \in 0..MaxReplans
    BY LimitsAssumption DEF Init
  <2>3. build \in BOOLEAN \X BOOLEAN /\ batch \subseteq Created
    BY BuildsAssumption DEF Init, build
  <2> QED
    BY <2>1, <2>2, <2>3 DEF Init, TypeOK
<1>3. IssuesSound /\ AttemptsBounded /\ DependenciesFirst
  BY <1>1 DEF IssuesSound, AttemptsBounded, DependenciesFirst
<1>4. Phase
  BY DEF Init, Phase, StashReturned
<1> QED
  BY <1>2, <1>3, <1>4 DEF IInv

\* The inductive invariant holds in every reachable state.
THEOREM Invariant == Spec => []IInv
BY InvariantInit, InvariantStep, PTL DEF Spec

-----------------------------------------------------------------------------
(* What follows from it.                                                   *)

\* Type correctness of the orchestrator's state.
THEOREM TypeCorrect == Spec => []TypeOK
<1>1. IInv => TypeOK
  BY DEF IInv
<1> QED
  BY <1>1, Invariant, PTL

\* Workers exist only in a batch; between rounds nothing is in progress, so the
\* waiting branch of _execute_phase (orchestrator.py:255-258) is never taken.
THEOREM NothingRunsBetweenRounds == Spec => []NoWorkBetweenRounds
<1>1. IInv => NoWorkBetweenRounds
  <2> SUFFICES ASSUME IInv PROVE NoWorkBetweenRounds
    OBVIOUS
  <2>1. {i \in Created : issues[i].at # "idle"} \subseteq batch
    BY DEF IInv, IssuesSound, Sound, Placed
  <2>2. pc \in {"rounds", "replan", "finish"} => InProgress = {}
    BY IdleBetweenRounds DEF IInv, Phase
  <2> QED
    BY <2>1, <2>2 DEF NoWorkBetweenRounds
<1> QED
  BY <1>1, Invariant, PTL

\* An issue is worked on or resolved only when its dependencies are resolved,
\* whatever fails or is deleted meanwhile (orchestrator.py:42-53, 500-528).
THEOREM DependenciesComeFirst == Spec => []DependenciesFirst
<1>1. IInv => DependenciesFirst
  BY DEF IInv
<1> QED
  BY <1>1, Invariant, PTL

\* The result lists every decided issue once and no other one.
THEOREM EveryIssueReportedOnce == Spec => []ResultIsExact
<1>1. IInv => ResultIsExact
  BY DEF IInv, IssuesSound, Sound, Listed, ResultIsExact
<1> QED
  BY <1>1, Invariant, PTL

\* run() returns only when every issue is resolved or failed.
THEOREM ReturnDecidesAll == Spec => []ReturnedIsDecided
<1>1. IInv => ReturnedIsDecided
  BY DEF IInv, Phase, ReturnedIsDecided
<1> QED
  BY <1>1, Invariant, PTL

\* No issue is attempted more often than the two limits together allow, nor
\* more than once in a worktree of its own.
THEOREM BoundedAttempts == Spec => []AttemptsBounded
<1>1. IInv => AttemptsBounded
  BY DEF IInv
<1> QED
  BY <1>1, Invariant, PTL

\* The stash is popped on every way out of the try of run() (orchestrator.py:228-
\* 236), whatever a worker raises and git does; only an error of stash_push itself,
\* before the try, leaves run() with the changes stashed.
THEOREM StashComesBack == Spec => []StashReturned
<1>1. IInv => StashReturned
  BY DEF IInv, Phase
<1> QED
  BY <1>1, Invariant, PTL

-----------------------------------------------------------------------------
(* The orchestrator implements TaskGraph.                                  *)

Deps == [i \in Created |-> issues[i].deps]
Verdicts == [i \in Created |-> Verdict(i)]

LEMMA DepsType ==
  ASSUME NEW s \in Seq(IssueType)
  PROVE  Len(s) \in Nat /\ \A j \in 1..Len(s) : s[j].deps \in SUBSET Nat
<1>1. Len(s) \in Nat /\ \A j \in 1..Len(s) : s[j] \in IssueType
  BY LenProperties, ElementOfSeq
<1>2. \A x \in IssueType : x.deps \in SUBSET Nat
  BY DEF IssueType
<1> QED
  BY <1>1, <1>2

\* The abstract issues are the issues created.
LEMMA AbstractIssues ==
  ASSUME TypeOK
  PROVE  /\ Deps \in Seq(SUBSET Nat) /\ Verdicts \in Seq({"open", "resolved", "failed"})
         /\ Len(Deps) = Len(issues) /\ Len(Verdicts) = Len(issues)
         /\ DOMAIN Deps = Created /\ DOMAIN Verdicts = Created
<1>1. Len(issues) \in Nat /\ \A j \in 1..Len(issues) : issues[j].deps \in SUBSET Nat
  BY DepsType DEF TypeOK
<1>2. Deps \in [1..Len(issues) -> SUBSET Nat]
  BY <1>1 DEF Deps, Created
<1>3. Verdicts \in [1..Len(issues) -> {"open", "resolved", "failed"}]
  BY DEF Verdicts, Verdict, Created
<1>4. Deps \in Seq(SUBSET Nat) /\ Verdicts \in Seq({"open", "resolved", "failed"})
  BY <1>1, <1>2, <1>3
<1>5. DOMAIN Deps = 1..Len(issues) /\ DOMAIN Verdicts = 1..Len(issues)
  BY <1>2, <1>3
<1>6. Len(Deps) = Len(issues) /\ Len(Verdicts) = Len(issues)
  BY <1>1, <1>4, <1>5, LenProperties
<1> QED
  BY <1>4, <1>5, <1>6 DEF Created

\* A step that decides nothing stutters.
LEMMA Stutters ==
  ASSUME Created' = Created,
         \A j \in Created : issues'[j].deps = issues[j].deps /\ Verdict(j)' = Verdict(j)
  PROVE  UNCHANGED Graph!vars
<1>1. Deps' = Deps /\ Verdicts' = Verdicts
  BY DEF Deps, Verdicts
<1> QED
  BY <1>1 DEF Graph!vars, Deps, Verdicts

\* A step that gives up on open issues fails them.
LEMMA Fails ==
  ASSUME TypeOK, NEW S \in SUBSET Created, S # {}, Created' = Created,
         \A j \in S : Verdict(j) = "open",
         \A j \in Created : /\ issues'[j].deps = issues[j].deps
                            /\ Verdict(j)' = IF j \in S THEN "failed" ELSE Verdict(j)
  PROVE  Graph!Next
<1>1. Len(Deps) = Len(issues)
  BY AbstractIssues
<1>2. 1..Len(Deps) = Created
  BY <1>1 DEF Created
<1>3. Deps' = Deps
  BY DEF Deps
<1>4. Verdicts' = [j \in Created |-> IF j \in S THEN "failed" ELSE Verdicts[j]]
  BY DEF Verdicts
<1>5. \A j \in S : Verdicts[j] = "open"
  BY DEF Verdicts
<1>6. Graph!Fail(S)
  BY <1>2, <1>3, <1>4, <1>5 DEF Graph!Fail, Graph!Issue, Deps, Verdicts
<1>7. S \in SUBSET Graph!Issue
  BY <1>2 DEF Graph!Issue, Deps
<1> QED
  BY <1>6, <1>7 DEF Graph!Next

\* A step that resolves an issue finds its dependencies resolved.
LEMMA Resolves ==
  ASSUME TypeOK, NEW i \in Created, Created' = Created, Verdict(i) = "open",
         \A d \in issues[i].deps : d \in Created /\ issues[d].status = "resolved",
         \A j \in Created : /\ issues'[j].deps = issues[j].deps
                            /\ Verdict(j)' = IF j = i THEN "resolved" ELSE Verdict(j)
  PROVE  Graph!Next
<1>1. 1..Len(Deps) = Created /\ DOMAIN Verdicts = Created
  BY AbstractIssues DEF Created
<1>2. Deps' = Deps
  BY DEF Deps
<1>3. Verdicts' = [Verdicts EXCEPT ![i] = "resolved"]
  BY DEF Verdicts
<1>4. Verdicts[i] = "open"
  BY DEF Verdicts
<1>5. \A d \in Deps[i] : d \in 1..Len(Deps) /\ Verdicts[d] = "resolved"
  BY <1>1 DEF Deps, Verdicts, Verdict
<1>6. Graph!Resolve(i) /\ i \in Graph!Issue
  BY <1>1, <1>2, <1>3, <1>4, <1>5
     DEF Graph!Resolve, Graph!Ready, Graph!Issue, Deps, Verdicts
<1> QED
  BY <1>6 DEF Graph!Next

\* A step that creates issues adds open ones and leaves the others alone.
LEMMA Adds ==
  ASSUME TypeOK, TypeOK', Len(issues') > Len(issues),
         \A j \in Created : issues'[j].deps = issues[j].deps /\ Verdict(j)' = Verdict(j),
         \A j \in Created' \ Created : Verdict(j)' = "open"
  PROVE  Graph!Next
<1>1. Len(issues) \in Nat /\ Len(issues') \in Nat
  BY LenProperties DEF TypeOK
<1>2. /\ Len(Deps) = Len(issues) /\ DOMAIN Deps = Created /\ DOMAIN Verdicts = Created
  BY AbstractIssues
<1>3. /\ Len(Deps') = Len(issues') /\ Len(Verdicts') = Len(issues')
      /\ 1..Len(issues') = Created' /\ 1..Len(issues) = Created /\ Created \subseteq Created'
  <2>1. \A j \in 1..Len(issues') : issues'[j].deps \in SUBSET Nat
    BY DepsType DEF TypeOK
  <2>2. Deps' \in [1..Len(issues') -> SUBSET Nat]
    BY <2>1 DEF Deps, Created
  <2>3. Verdicts' \in [1..Len(issues') -> {"open", "resolved", "failed"}]
    BY DEF Verdicts, Verdict, Created
  <2>4. /\ Deps' \in Seq(SUBSET Nat) /\ DOMAIN Deps' = 1..Len(issues')
        /\ Verdicts' \in Seq({"open", "resolved", "failed"})
        /\ DOMAIN Verdicts' = 1..Len(issues')
    BY <1>1, <2>2, <2>3
  <2> QED
    BY <1>1, <2>4, LenProperties DEF Created
<1>4. \A j \in Created : Deps'[j] = Deps[j] /\ Verdicts'[j] = Verdicts[j]
  BY <1>3 DEF Deps, Verdicts
<1>5. \A j \in Created' \ Created : Verdicts'[j] = "open"
  BY DEF Verdicts
<1>6. Graph!Add
  BY <1>2, <1>3, <1>4, <1>5 DEF Graph!Add, Graph!Issue, Deps, Verdicts
<1> QED
  BY <1>6 DEF Graph!Next

LEMMA WorkerRefines ==
  ASSUME IInv, NEW i \in batch, Worker(i)
  PROVE  Graph!Next \/ UNCHANGED Graph!vars
<1> DEFINE me == issues[i]
<1>1. me \in IssueType /\ i \in Created /\ issues \in Seq(IssueType) /\ TypeOK
  BY ElementOfSeq DEF IInv, TypeOK, Created
<1>2. StatusFits(me)
  BY <1>1 DEF IInv, IssuesSound, Sound
<1>3. ASSUME NEW r, issues' = Update(i, r), r.deps = me.deps,
             me.status \notin {"resolved", "failed"},
             \/ r.status \notin {"resolved", "failed"}
             \/ r.status = "failed"
             \/ r.status = "resolved" /\ me.at # "idle"
      PROVE  Graph!Next \/ UNCHANGED Graph!vars
  <2>1. /\ Created' = Created /\ issues'[i] = r
        /\ \A j \in Created : j # i => issues'[j] = issues[j]
    BY <1>1, <1>3, ExceptSeq, LenProperties DEF Update, Created
  <2>2. \A j \in Created : issues'[j].deps = issues[j].deps
    BY <1>3, <2>1
  <2>3. \A j \in Created : j # i => Verdict(j)' = Verdict(j)
    BY <2>1 DEF Verdict
  <2>4. Verdict(i) = "open"
    BY <1>3 DEF Verdict
  <2>5. CASE r.status \notin {"resolved", "failed"}
    <3>1. Verdict(i)' = "open"
      BY <2>1, <2>5 DEF Verdict
    <3> QED
      BY <2>1, <2>2, <2>3, <2>4, <3>1, Stutters
  <2>6. CASE r.status = "failed"
    <3>1. Verdict(i)' = "failed"
      BY <2>1, <2>6 DEF Verdict
    <3>2. \A j \in Created : Verdict(j)' = IF j \in {i} THEN "failed" ELSE Verdict(j)
      BY <2>3, <3>1
    <3>3. \A j \in {i} : Verdict(j) = "open"
      BY <2>4
    <3>4. {i} \in SUBSET Created /\ {i} # {}
      BY <1>1
    <3> QED
      BY <1>1, <2>1, <2>2, <3>2, <3>3, <3>4, Fails
  <2>7. CASE r.status = "resolved" /\ me.at # "idle"
    <3>1. Verdict(i)' = "resolved"
      BY <2>1, <2>7 DEF Verdict
    <3>2. \A d \in issues[i].deps : d \in Created /\ issues[d].status = "resolved"
      BY <1>1, <2>7 DEF IInv, DependenciesFirst, Board
    <3>3. \A j \in Created : Verdict(j)' = IF j = i THEN "resolved" ELSE Verdict(j)
      BY <2>3, <3>1
    <3> QED
      BY <1>1, <2>1, <2>2, <2>4, <3>2, <3>3, Resolves
  <2> QED
    BY <1>3, <2>5, <2>6, <2>7
<1>4. me.at # "idle" => me.status \notin {"resolved", "failed"}
  BY <1>2 DEF StatusFits
<1> HIDE DEF me
<1>5. \E r : /\ issues' = Update(i, r) /\ r.deps = me.deps /\ me.at # "idle"
             /\ r.status \in Status
  <2>1. CASE BeginIssue(i)
    <3> DEFINE r == [me EXCEPT !.status = "in_progress", !.at = "code",
                               !.attempts = me.attempts + 1]
    <3>1. issues' = Update(i, r) /\ me.at = "begin"
      BY <2>1 DEF BeginIssue, me
    <3>2. r.deps = me.deps /\ r.status = "in_progress"
      BY <1>1 DEF IssueType
    <3> QED
      BY <3>1, <3>2 DEF Status, Working
  <2>2. CASE WorktreeFails(i)
    <3> DEFINE r == Reported([me EXCEPT !.at = "idle"])
    <3>1. issues' = Update(i, r) /\ me.at = "begin"
      BY <2>2 DEF WorktreeFails, me
    <3>2. r.deps = me.deps /\ r.status = "failed"
      BY <1>1 DEF IssueType, Reported
    <3> QED
      BY <3>1, <3>2 DEF Status
  <2>3. CASE CodeDone(i) \/ Verified(i)
    <3>1. /\ me.at \in {"code", "verify"}
          /\ \E r \in {[me EXCEPT !.status = "verifying", !.at = "verify"],
                       [me EXCEPT !.status = "reviewing", !.at = "review"],
                       FailedOnce(me)} : issues' = Update(i, r)
      BY <2>3 DEF CodeDone, Verified, me
    <3>2. \A r \in {[me EXCEPT !.status = "verifying", !.at = "verify"],
                     [me EXCEPT !.status = "reviewing", !.at = "review"],
                     FailedOnce(me)} : r.deps = me.deps /\ r.status \in Status
      BY <1>1 DEF IssueType, FailedOnce, Status, Working
    <3> QED
      BY <3>1, <3>2
  <2>4. CASE GiveUp(i)
    <3>1. issues' = Update(i, GivenUp(me)) /\ me.at = "giveUp"
      BY <2>4 DEF GiveUp, me
    <3>2. GivenUp(me).deps = me.deps /\ GivenUp(me).status \in Status
      BY <1>1 DEF IssueType, GivenUp, Reported, Status
    <3> QED
      BY <3>1, <3>2
  <2>5. CASE ReviewRejects(i)
    <3> DEFINE r == IF me.reviewFailures + 1 < MaxReviewFailures
                    THEN ReviewRetry(me)
                    ELSE [Reported(me) EXCEPT !.at = "idle",
                            !.reviewFailures = me.reviewFailures + 1]
    <3>1. issues' = Update(i, r) /\ me.at = "review"
      BY <2>5 DEF ReviewRejects, me
    <3>2. r.deps = me.deps /\ r.status \in Status
      BY <1>1 DEF IssueType, ReviewRetry, Reported, Status
    <3> QED
      BY <3>1, <3>2
  <2>6. CASE ReviewPasses(i)
    <3> DEFINE r == [me EXCEPT !.status = "resolved", !.at = "idle",
                               !.inResolved = me.inResolved + 1]
    <3>1. issues' = Update(i, r) /\ me.at = "review"
      BY <2>6 DEF ReviewPasses, me
    <3>2. r.deps = me.deps /\ r.status \in Status
      BY <1>1 DEF IssueType, Status
    <3> QED
      BY <3>1, <3>2
  <2> QED
    BY <2>1, <2>2, <2>3, <2>4, <2>5, <2>6 DEF Worker
<1>6. PICK r : /\ issues' = Update(i, r) /\ r.deps = me.deps /\ me.at # "idle"
               /\ r.status \in Status
  BY <1>5
<1> QED
  BY <1>3, <1>4, <1>6 DEF Status

\* A step that creates issues, or an empty list of them, and decides nothing.
LEMMA GrowthRefines ==
  ASSUME TypeOK, TypeOK', Len(issues) <= Len(issues'),
         \A j \in Created : /\ issues'[j].deps = issues[j].deps
                            /\ issues'[j].status = issues[j].status,
         \A j \in Created' \ Created : issues'[j].status = "open"
  PROVE  Graph!Next \/ UNCHANGED Graph!vars
<1>1. Len(issues) \in Nat /\ Len(issues') \in Nat
  BY LenProperties DEF TypeOK
<1>2. \A j \in Created : Verdict(j)' = Verdict(j)
  BY DEF Verdict
<1>3. \A j \in Created' \ Created : Verdict(j)' = "open"
  BY DEF Verdict
<1>4. CASE Len(issues) = Len(issues')
  BY <1>2, <1>4, Stutters DEF Created
<1>5. CASE Len(issues') > Len(issues)
  BY <1>2, <1>3, <1>5, Adds
<1> QED
  BY <1>1, <1>4, <1>5

LEMMA SweepRefines ==
  ASSUME IInv, RoundsOver \/ NothingToStart
  PROVE  Graph!Next \/ UNCHANGED Graph!vars
<1> DEFINE S == {j \in Created : Verdict(j) = "open"}
<1>1. /\ Created' = Created
      /\ \A j \in Created : /\ issues'[j].deps = issues[j].deps
                            /\ issues'[j].status \in {"resolved", "failed"}
                            /\ (issues'[j].status = "resolved" <=> issues[j].status = "resolved")
  BY RoundsEnd, SweepKeeps
<1>2. ASSUME NEW j \in Created
      PROVE  Verdict(j)' = IF j \in S THEN "failed" ELSE Verdict(j)
  <2>1. j \in S <=> issues[j].status \notin {"resolved", "failed"}
    BY DEF Verdict
  <2>2. Verdict(j)' = issues'[j].status
    BY <1>1 DEF Verdict
  <2>3. CASE issues[j].status = "resolved"
    BY <1>1, <2>1, <2>2, <2>3 DEF Verdict
  <2>4. CASE issues[j].status # "resolved"
    <3>1. issues'[j].status = "failed"
      BY <1>1, <2>4
    <3> QED
      BY <2>1, <2>2, <2>4, <3>1 DEF Verdict
  <2> QED
    BY <2>3, <2>4
<1>3. CASE S = {}
  <2>1. \A j \in Created : Verdict(j)' = Verdict(j)
    BY <1>2, <1>3
  <2> QED
    BY <1>1, <2>1, Stutters
<1>4. CASE S # {}
  <2>1. S \in SUBSET Created /\ \A j \in S : Verdict(j) = "open"
    OBVIOUS
  <2>2. TypeOK
    BY DEF IInv
  <2> HIDE DEF S
  <2> QED
    BY <1>1, <1>2, <1>4, <2>1, <2>2, Fails
<1> QED
  BY <1>3, <1>4

LEMMA RefinementStep == IInv /\ IInv' /\ [Next]_vars => [Graph!Next]_(Graph!vars)
<1> SUFFICES ASSUME IInv, IInv', [Next]_vars
             PROVE  Graph!Next \/ UNCHANGED Graph!vars
  OBVIOUS
<1>0. TypeOK /\ TypeOK'
  BY DEF IInv
<1>1. CASE Start \/ StashTimesOut
  <2>1. /\ Created = {} /\ Len(issues) = 0
        /\ \A j \in Created' : issues'[j].status = "open"
    BY <1>1, StartKeeps
  <2>2. Len(issues') \in Nat
    BY <1>0, LenProperties DEF TypeOK
  <2> QED
    BY <1>0, <2>1, <2>2, GrowthRefines
<1>2. CASE StartRound
  <2>1. /\ Created' = Created
        /\ \A j \in Created : /\ issues'[j].deps = issues[j].deps
                              /\ Verdict(j)' = Verdict(j)
    BY <1>2, StartRoundKeeps DEF Verdict
  <2> QED
    BY <2>1, Stutters
<1>3. CASE RoundsOver \/ NothingToStart
  BY <1>3, SweepRefines
<1>4. CASE \E i \in batch : Worker(i)
  BY <1>4, WorkerRefines
<1>5. CASE Replan
  BY <1>0, <1>5, ReplanKeeps, GrowthRefines
<1>6. CASE RoundDone \/ ReplanFails \/ Finish \/ UNCHANGED vars
  <2>1. issues' = issues
    BY <1>6 DEF RoundDone, ReplanFails, Finish, vars
  <2>2. /\ Created' = Created
        /\ \A j \in Created : /\ issues'[j].deps = issues[j].deps
                              /\ Verdict(j)' = Verdict(j)
    BY <2>1 DEF Created, Verdict
  <2> QED
    BY <2>2, Stutters
<1> QED
  BY <1>1, <1>2, <1>3, <1>4, <1>5, <1>6 DEF Next, Over

\* Every behaviour of the orchestrator is one of the abstract task graph: what
\* is decided stays decided and nothing is resolved before its dependencies.
THEOREM OrchestratorImplementsTaskGraph == Spec => ImplementsTaskGraph
<1>1. Init => Graph!Init
  <2> SUFFICES ASSUME Init PROVE Graph!Init
    OBVIOUS
  <2>1. Created = {}
    BY LenProperties DEF Init, Created
  <2> QED
    BY <2>1 DEF Graph!Init
<1> QED
  BY <1>1, RefinementStep, Invariant, PTL DEF Spec, ImplementsTaskGraph, Graph!Spec
=============================================================================
