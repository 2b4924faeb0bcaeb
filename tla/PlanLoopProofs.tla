--------------------------- MODULE PlanLoopProofs ---------------------------
(***************************************************************************)
(* Theorems about PlanLoop for every set of plans and every bound.         *)
(*                                                                         *)
(* TypeOK, AttemptsBounded, SettledStaysSettled and                        *)
(* HttpRecoveryNeverReached follow from one inductive invariant, IInv,     *)
(* whose conjuncts say what the handlers of the loop take for granted:     *)
(* where a step may be in progress, what a step has been charged for, and  *)
(* which verdict a failure with retries left gets.                         *)
(***************************************************************************)
EXTENDS PlanLoop, FiniteSetTheorems, SequenceTheorems, TLAPS

Working == {"execute", "reflect", "recover"}

\* No cron job is stored before the run is over.
JobsOnce == pc \notin {"returned", "raised"} => jobs = 0

\* Only the current step is in progress, and only between its start and the
\* decision about it; before the loop every step is pending.
Phase ==
  /\ pc = "start" => steps = <<>> /\ listed = {}
  /\ pc = "delegate" => \A i \in 1..Len(steps) : steps[i].status = "pending"
  /\ pc \in Working => \A i \in Current : steps[i].status = "in_progress"
  /\ \A i \in 1..Len(steps) :
       steps[i].status = "in_progress" => pc \in Working /\ i \in Current

\* Every start of a step but the one under way is paid for by a retry of the
\* step or by the retries it had before its fallback.
Charge(s) == s.retries + (IF s.fellBack THEN MaxRetries + 1 ELSE 0)
               + (IF s.status = "pending" THEN 0 ELSE 1)
PaidFor(s) == s.retries <= MaxRetries /\ s.attempts <= Charge(s)
Charged == \A i \in 1..Len(steps) : PaidFor(steps[i])

\* A failure of a step with retries left is judged worth a retry.
VerdictSound ==
  pc = "recover" =>
    \A i \in Current :
      seen = "failure" /\ steps[i].retries < MaxRetries => verdict = "retry"

IInv == TypeOK /\ JobsOnce /\ Phase /\ Charged /\ VerdictSound

-----------------------------------------------------------------------------
(* The list of steps.                                                      *)

\* Replacing one step of the list by a step leaves the rest as it was.
LEMMA EditStep ==
  ASSUME NEW s \in Seq(StepType), NEW i \in 1..Len(s), NEW r \in StepType,
         NEW t, t = [s EXCEPT ![i] = r]
  PROVE  /\ t \in Seq(StepType)
         /\ Len(t) = Len(s)
         /\ t[i] = r
         /\ \A j \in 1..Len(s) : j # i => t[j] = s[j]
<1>1. t \in Seq(StepType) /\ Len(t) = Len(s)
  BY ExceptSeq
<1>2. DOMAIN s = 1..Len(s)
  BY LenProperties
<1> QED
  BY <1>1, <1>2

\* A plan becomes a list of at least one fresh step.
LEMMA BuildStepsFresh ==
  ASSUME NEW p \in PlanType
  PROVE  /\ BuildSteps(p) \in Seq(StepType)
         /\ Len(BuildSteps(p)) > 0
         /\ \A k \in 1..Len(BuildSteps(p)) :
              /\ BuildSteps(p)[k].status = "pending"
              /\ BuildSteps(p)[k].attempts = 0
              /\ BuildSteps(p)[k].retries = 0
              /\ BuildSteps(p)[k].fellBack = FALSE
<1>1. \A s \in Strategy : NewStep(s) \in StepType
  BY DEF NewStep, StepType, Status
<1>2. \A s \in Strategy : <<NewStep(s)>> \in Seq(StepType)
  BY <1>1
<1>3. CASE p.strategy = "delegate" /\ p.subtasks > 0
  <2> DEFINE b == [k \in 1..p.subtasks |-> NewStep("delegate")]
  <2>1. p.subtasks \in Nat
    BY DEF PlanType
  <2>2. b \in Seq(StepType) /\ Len(b) = p.subtasks
    <3>1. \A k \in 1..p.subtasks : NewStep("delegate") \in StepType
      BY <1>1 DEF Strategy
    <3> QED
      BY <2>1, <3>1
  <2>3. BuildSteps(p) = b
    BY <1>3 DEF BuildSteps
  <2> QED
    BY <1>3, <2>1, <2>2, <2>3 DEF NewStep
<1>4. CASE ~(p.strategy = "delegate" /\ p.subtasks > 0)
  <2>1. \E s \in Strategy : BuildSteps(p) = <<NewStep(s)>>
    BY <1>4 DEF BuildSteps, Strategy
  <2> QED
    BY <1>2, <2>1 DEF NewStep
<1> QED
  BY <1>3, <1>4

\* Counting the smaller members of a finite set of naturals is strictly monotone.
LEMMA PlacesGrow ==
  ASSUME NEW n \in Nat, NEW L, L \subseteq 1..n
  PROVE  /\ \A i \in L : Cardinality({k \in L : k < i}) \in Nat
         /\ \A i, j \in L :
              i < j => Cardinality({k \in L : k < i}) < Cardinality({k \in L : k < j})
<1>1. IsFiniteSet(1..n)
  BY FS_Interval
<1>2. ASSUME NEW i
      PROVE  /\ IsFiniteSet({k \in L : k < i})
             /\ Cardinality({k \in L : k < i}) \in Nat
  <2>1. {k \in L : k < i} \in SUBSET (1..n)
    OBVIOUS
  <2> QED
    BY <1>1, <2>1, FS_Subset, FS_CardinalityType
<1>3. ASSUME NEW i \in L, NEW j \in L, i < j
      PROVE  Cardinality({k \in L : k < i}) < Cardinality({k \in L : k < j})
  <2> DEFINE A == {k \in L : k < i}
             B == {k \in L : k < j}
  <2>1. i \in Int /\ j \in Int /\ \A k \in L : k \in Int
    OBVIOUS
  <2>2. i \notin A
    BY <2>1
  <2>3. \A k \in L : k < i => k < j
    BY <1>3, <2>1
  <2>4. A \cup {i} \in SUBSET B
    BY <1>3, <2>3
  <2> HIDE DEF A, B
  <2>5. /\ IsFiniteSet(A) /\ Cardinality(A) \in Nat
        /\ IsFiniteSet(B) /\ Cardinality(B) \in Nat
    BY <1>2 DEF A, B
  <2>6. Cardinality(A \cup {i}) = Cardinality(A) + 1
    BY <2>2, <2>5, FS_AddElement
  <2>7. Cardinality(A \cup {i}) <= Cardinality(B)
    BY <2>4, <2>5, FS_Subset
  <2>8. Cardinality(A) < Cardinality(B)
    BY <2>5, <2>6, <2>7
  <2> QED
    BY <2>8 DEF A, B
<1> QED
  BY <1>2, <1>3

\* Places in the list are counted by natural numbers and grow with the step.
LEMMA PositionGrows ==
  ASSUME TypeOK
  PROVE  /\ \A i \in listed : Position(i) \in Nat
         /\ \A i, j \in listed : i < j => Position(i) < Position(j)
<1>1. Len(steps) \in Nat /\ listed \subseteq 1..Len(steps)
  BY LenProperties DEF TypeOK
<1> QED
  BY <1>1, PlacesGrow DEF Position

\* There is at most one current step.
LEMMA OneCurrent ==
  ASSUME TypeOK
  PROVE  /\ Current \subseteq 1..Len(steps)
         /\ \A i, j \in Current : i = j
<1>1. listed \subseteq 1..Len(steps) /\ Current \subseteq listed
  BY DEF TypeOK, Current
<1>2. ASSUME NEW i \in Current, NEW j \in Current, i # j
      PROVE  FALSE
  <2>1. Position(i) = cur /\ Position(j) = cur
    BY DEF Current
  <2>2. i < j \/ j < i
    BY <1>1, <1>2, LenProperties DEF TypeOK
  <2> QED
    BY <1>1, <2>1, <2>2, PositionGrows
<1> QED
  BY <1>1, <1>2

-----------------------------------------------------------------------------
(* Every step of the run keeps IInv.                                       *)

LEMMA TypeInit == Init => IInv
<1> SUFFICES ASSUME Init PROVE IInv
  OBVIOUS
<1>0. <<>> \in Seq(StepType) /\ Len(<<>>) = 0
  OBVIOUS
<1>1. TypeOK
  <2>1. unresolved \in SUBSET Names
    BY NamesAssumption DEF Init
  <2>2. steps \in Seq(StepType) /\ listed \subseteq 1..Len(steps)
    BY <1>0 DEF Init
  <2> QED
    BY <2>1, <2>2 DEF Init, TypeOK, PC
<1>2. Len(steps) = 0
  BY <1>0 DEF Init
<1> QED
  BY <1>1, <1>2 DEF Init, IInv, JobsOnce, Phase, Working, Charged, VerdictSound

\* Changing the status of one listed step keeps the list well typed.
LEMMA SetStatusTyped ==
  ASSUME TypeOK, NEW i \in 1..Len(steps), NEW st \in Status
  PROVE  /\ SetStatus(i, st) \in Seq(StepType)
         /\ Len(SetStatus(i, st)) = Len(steps)
         /\ SetStatus(i, st)[i] = [steps[i] EXCEPT !.status = st]
         /\ \A j \in 1..Len(steps) : j # i => SetStatus(i, st)[j] = steps[j]
<1> DEFINE r == [steps[i] EXCEPT !.status = st]
<1>1. steps \in Seq(StepType) /\ steps[i] \in StepType
  BY ElementOfSeq DEF TypeOK
<1>2. r \in StepType
  BY <1>1 DEF StepType
<1>3. SetStatus(i, st) = [steps EXCEPT ![i] = r]
  BY DEF SetStatus
<1> HIDE DEF r
<1>4. /\ SetStatus(i, st) \in Seq(StepType)
      /\ Len(SetStatus(i, st)) = Len(steps)
      /\ SetStatus(i, st)[i] = r
      /\ \A j \in 1..Len(steps) : j # i => SetStatus(i, st)[j] = steps[j]
  BY <1>1, <1>2, <1>3, EditStep
<1> QED
  BY <1>4 DEF r

\* The steps of the run that replace one step of the list.
Edit(i) == StartStep(i) \/ Accept(i) \/ Retry(i) \/ FallBack(i) \/ Settle(i)

LEMMA EditTyped ==
  ASSUME TypeOK, NEW i \in 1..Len(steps), Edit(i)
  PROVE  /\ steps' \in Seq(StepType)
         /\ Len(steps') = Len(steps)
         /\ \A j \in 1..Len(steps) : j # i => steps'[j] = steps[j]
<1>1. steps \in Seq(StepType) /\ steps[i] \in StepType
  BY ElementOfSeq DEF TypeOK
<1>2. ASSUME NEW r \in StepType, steps' = [steps EXCEPT ![i] = r]
      PROVE  /\ steps' \in Seq(StepType)
             /\ Len(steps') = Len(steps)
             /\ \A j \in 1..Len(steps) : j # i => steps'[j] = steps[j]
  BY <1>1, <1>2, EditStep
<1>3. CASE StartStep(i)
  <2> DEFINE r == [steps[i] EXCEPT !.status = "in_progress", !.attempts = steps[i].attempts + 1]
  <2>1. r \in StepType
    <3>1. steps[i].attempts \in Nat
      BY <1>1 DEF StepType
    <3>2. steps[i].attempts + 1 \in Nat
      BY <3>1
    <3> QED
      BY <1>1, <3>2 DEF StepType, Status
  <2>2. steps' = [steps EXCEPT ![i] = r]
    BY <1>3 DEF StartStep
  <2> QED
    BY <1>2, <2>1, <2>2
<1>4. CASE Accept(i)
  BY <1>4, SetStatusTyped DEF Accept, Status
<1>5. CASE Retry(i)
  <2> DEFINE r == [steps[i] EXCEPT !.status = "pending", !.retries = steps[i].retries + 1]
  <2>1. r \in StepType
    <3>1. steps[i].retries \in Nat
      BY <1>1 DEF StepType
    <3>2. steps[i].retries + 1 \in Nat
      BY <3>1
    <3> QED
      BY <1>1, <3>2 DEF StepType, Status
  <2>2. steps' = [steps EXCEPT ![i] = r]
    BY <1>5 DEF Retry
  <2> QED
    BY <1>2, <2>1, <2>2
<1>6. CASE FallBack(i)
  <2> DEFINE r == [steps[i] EXCEPT !.strategy = "direct", !.fellBack = TRUE,
                                   !.status = "pending", !.retries = 0]
  <2>1. r \in StepType
    BY <1>1 DEF StepType, Status, Strategy
  <2>2. steps' = [steps EXCEPT ![i] = r]
    BY <1>6 DEF FallBack
  <2> QED
    BY <1>2, <2>1, <2>2
<1>7. CASE Settle(i)
  <2>1. PICK st \in Status : steps' = SetStatus(i, st)
    BY <1>7 DEF Settle, Status
  <2> QED
    BY <2>1, SetStatusTyped
<1> QED
  BY <1>3, <1>4, <1>5, <1>6, <1>7 DEF Edit

\* A duplicate plan fails steps and leaves the others as they were.
LEMMA DuplicateTyped ==
  ASSUME TypeOK, NEW i \in 1..Len(steps), ReplanDuplicate(i)
  PROVE  /\ steps' \in Seq(StepType)
         /\ Len(steps') = Len(steps)
         /\ \A j \in 1..Len(steps) :
              steps'[j] = IF j \in DuplicateFails(i)
                          THEN [steps[j] EXCEPT !.status = "failed"] ELSE steps[j]
<1>1. \A j \in 1..Len(steps) : steps[j] \in StepType
  BY ElementOfSeq DEF TypeOK
<1>2. \A j \in 1..Len(steps) :
        (IF j \in DuplicateFails(i)
         THEN [steps[j] EXCEPT !.status = "failed"] ELSE steps[j]) \in StepType
  BY <1>1 DEF StepType, Status
<1>3. Len(steps) \in Nat
  BY LenProperties DEF TypeOK
<1>4. steps' = [j \in 1..Len(steps) |->
                 IF j \in DuplicateFails(i)
                 THEN [steps[j] EXCEPT !.status = "failed"] ELSE steps[j]]
  BY DEF ReplanDuplicate
<1>5. steps' \in [1..Len(steps) -> StepType]
  BY <1>2, <1>4
<1>6. steps' \in Seq(StepType) /\ Len(steps') = Len(steps)
  BY <1>3, <1>5
<1> QED
  BY <1>4, <1>6

\* A new plan fails the current step and adds fresh steps behind the others.
LEMMA NewPlanTyped ==
  ASSUME TypeOK, NEW i \in 1..Len(steps), ReplanNew(i)
  PROVE  /\ steps' \in Seq(StepType)
         /\ Len(steps') > Len(steps)
         /\ steps'[i] = [steps[i] EXCEPT !.status = "failed"]
         /\ \A j \in 1..Len(steps) : j # i => steps'[j] = steps[j]
         /\ \A j \in (Len(steps) + 1)..Len(steps') :
              /\ steps'[j].status = "pending" /\ steps'[j].attempts = 0
              /\ steps'[j].retries = 0 /\ steps'[j].fellBack = FALSE
         /\ listed' \subseteq 1..Len(steps')
<1> DEFINE old == SetStatus(i, "failed")
<1>1. PICK p \in Plans :
        /\ steps' = old \o BuildSteps(p)
        /\ listed' \subseteq listed \cup (Len(steps) + 1)..(Len(steps) + Len(BuildSteps(p)))
  BY DEF ReplanNew
<1>2. p \in PlanType
  BY PlansAssumption
<1>3. /\ old \in Seq(StepType) /\ Len(old) = Len(steps)
      /\ old[i] = [steps[i] EXCEPT !.status = "failed"]
      /\ \A j \in 1..Len(steps) : j # i => old[j] = steps[j]
  BY SetStatusTyped DEF Status
<1> HIDE DEF old
<1> DEFINE new == BuildSteps(p)
<1>4. /\ new \in Seq(StepType) /\ Len(new) > 0
      /\ \A k \in 1..Len(new) :
           /\ new[k].status = "pending" /\ new[k].attempts = 0
           /\ new[k].retries = 0 /\ new[k].fellBack = FALSE
  BY <1>2, BuildStepsFresh
<1> HIDE DEF new
<1>5. steps' = old \o new
  BY <1>1 DEF new
<1>6. Len(steps) \in Nat /\ Len(new) \in Nat
  BY <1>3, <1>4, LenProperties
<1>7. /\ steps' \in Seq(StepType) /\ Len(steps') = Len(steps) + Len(new)
      /\ \A j \in 1..Len(steps') :
           steps'[j] = IF j <= Len(steps) THEN old[j] ELSE new[j - Len(steps)]
  <2>1. old \o new \in Seq(StepType)
    BY <1>3, <1>4, ConcatProperties, Zenon
  <2>3. Len(old \o new) = Len(old) + Len(new)
    <3>1. \A s1, s2 \in Seq(StepType) : Len(s1 \o s2) = Len(s1) + Len(s2)
      BY ConcatProperties
    <3> QED
      BY <1>3, <1>4, <3>1
  <2>2. \A j \in 1..Len(old) + Len(new) :
          (old \o new)[j] = IF j <= Len(old) THEN old[j] ELSE new[j - Len(old)]
    BY <1>3, <1>4, ConcatProperties
  <2> QED
    BY <1>3, <1>5, <2>1, <2>2, <2>3
<1>8. listed' \subseteq 1..Len(steps')
  BY <1>1, <1>6, <1>7 DEF TypeOK, new
<1>9. \A j \in (Len(steps) + 1)..Len(steps') : steps'[j] = new[j - Len(steps)]
                                               /\ j - Len(steps) \in 1..Len(new)
  BY <1>6, <1>7
<1>10. \A j \in 1..Len(steps) : steps'[j] = old[j]
  BY <1>6, <1>7
<1> QED
  BY <1>3, <1>4, <1>6, <1>7, <1>8, <1>9, <1>10

\* Any set of steps of the run is finite.
LEMMA StepSetsFinite ==
  ASSUME TypeOK, NEW S, S \subseteq 1..Len(steps)
  PROVE  IsFiniteSet(S) /\ Cardinality(S) \in Nat
<1>1. Len(steps) \in Nat
  BY LenProperties DEF TypeOK
<1>2. IsFiniteSet(1..Len(steps))
  BY <1>1, FS_Interval
<1> QED
  BY <1>2, FS_Subset, FS_CardinalityType

LEMMA TypeStep ==
  ASSUME TypeOK, JobsOnce, [Next]_vars
  PROVE  TypeOK' /\ JobsOnce'
<1> USE DEF JobsOnce
<1>1. CASE FastPath
  BY <1>1 DEF FastPath, loopVars, TypeOK, PC
<1>2. CASE ScheduleOnly
  <2>1. jobs = 0
    BY <1>2 DEF ScheduleOnly
  <2>2. jobs' \in {0, 1}
    <3>1. jobs' \in {jobs, jobs + 1}
      BY <1>2, Zenon DEF ScheduleOnly
    <3> QED
      BY <2>1, <3>1
  <2>3. pc' \in {"returned", "raised"} /\ background' \in BOOLEAN
    BY <1>2 DEF ScheduleOnly, TypeOK
  <2> QED
    BY <1>2, <2>2, <2>3 DEF ScheduleOnly, loopVars, TypeOK, PC
<1>3. CASE Converse
  BY <1>3 DEF Converse, loopVars, TypeOK, PC
<1>4. CASE Plan
  <2>1. plan \in PlanType
    BY PlansAssumption DEF TypeOK
  <2>2. steps' \in Seq(StepType) /\ listed' \subseteq 1..Len(steps')
    BY <1>4, <2>1, BuildStepsFresh DEF Plan
  <2>3. pc' \in PC /\ pc \in PC \ {"returned", "raised"}
    BY <1>4 DEF Plan, PC
  <2> QED
    BY <1>4, <2>2, <2>3 DEF Plan, TypeOK
<1>5. CASE ParallelRaises
  BY <1>5 DEF ParallelRaises, loopVars, TypeOK, PC
<1>6. CASE ParallelSettles
  <2>1. PICK outcome \in Outcomes :
          /\ steps' = [i \in 1..Len(steps) |-> [steps[i] EXCEPT !.status = outcome[i]]]
          /\ unreported' = Cardinality({i \in 1..Len(steps) : outcome[i] = "failed"})
    BY <1>6 DEF ParallelSettles
  <2>2. \A i \in 1..Len(steps) : [steps[i] EXCEPT !.status = outcome[i]] \in StepType
    <3>1. \A i \in 1..Len(steps) : steps[i] \in StepType /\ outcome[i] \in Status
      BY ElementOfSeq DEF TypeOK, Outcomes, Settled, Status
    <3> QED
      BY <3>1 DEF StepType
  <2>3. Len(steps) \in Nat
    BY LenProperties DEF TypeOK
  <2>4. steps' \in Seq(StepType) /\ Len(steps') = Len(steps)
    BY <2>1, <2>2, <2>3
  <2>5. unreported' \in Nat
    BY <2>1, StepSetsFinite
  <2> QED
    BY <1>6, <2>3, <2>4, <2>5 DEF ParallelSettles, TypeOK, PC
<1>7. CASE ParallelFails
  <2>1. Len(steps) \in Nat
    BY LenProperties DEF TypeOK
  <2> QED
    BY <1>7, <2>1 DEF ParallelFails, TypeOK, PC
<1>8. CASE Leave
  BY <1>8 DEF Leave, loopVars, TypeOK, PC
<1>9. CASE BudgetExhausted
  BY <1>9 DEF BudgetExhausted, TypeOK, PC
<1>10. CASE NoCurrentStep
  BY <1>10 DEF NoCurrentStep, TypeOK, PC
<1>11. CASE Execute
  BY <1>11 DEF Execute, TypeOK, PC
<1>12. CASE Assemble
  BY <1>12 DEF Assemble, loopVars, TypeOK, PC
<1>13. CASE PostTask
  <2>1. jobs = 0
    BY <1>13 DEF PostTask
  <2>2. jobs' \in {0, 1}
    BY <1>13, <2>1 DEF PostTask
  <2>3. pc' \in {"returned", "raised"} /\ background' \in BOOLEAN
    BY <1>13 DEF PostTask, TypeOK
  <2> QED
    BY <1>13, <2>2, <2>3 DEF PostTask, loopVars, TypeOK, PC
<1>14. CASE UNCHANGED vars
  BY <1>14 DEF vars, TypeOK
<1>15. ASSUME NEW i \in 1..Len(steps), SkipSettled(i)
       PROVE  TypeOK' /\ JobsOnce'
  BY <1>15 DEF SkipSettled, NextIndex, TypeOK
<1>16. ASSUME NEW i \in 1..Len(steps), Edit(i)
       PROVE  TypeOK' /\ JobsOnce'
  <2>1. steps' \in Seq(StepType) /\ Len(steps') = Len(steps)
    BY <1>16, EditTyped
  <2>2. CASE StartStep(i)
    BY <2>1, <2>2 DEF StartStep, TypeOK, PC
  <2>3. CASE Accept(i)
    BY <2>1, <2>3 DEF Accept, NextIndex, TypeOK, PC
  <2>4. CASE Retry(i)
    BY <2>1, <2>4 DEF Retry, TypeOK, PC
  <2>5. CASE FallBack(i)
    BY <2>1, <2>5 DEF FallBack, TypeOK, PC
  <2>6. CASE Settle(i)
    BY <2>1, <2>6 DEF Settle, NextIndex, TypeOK, PC
  <2> QED
    BY <1>16, <2>2, <2>3, <2>4, <2>5, <2>6 DEF Edit
<1>17. ASSUME NEW i \in 1..Len(steps), Reflect(i)
       PROVE  TypeOK' /\ JobsOnce'
  <2>1. Verdicts(i) \subseteq {"complete", "accept", "retry", "replan", "incomplete"}
    BY DEF Verdicts
  <2> QED
    BY <1>17, <2>1 DEF Reflect, TypeOK, PC
<1>18. ASSUME NEW i \in 1..Len(steps), ReplanDuplicate(i)
       PROVE  TypeOK' /\ JobsOnce'
  <2>1. steps' \in Seq(StepType) /\ Len(steps') = Len(steps)
    BY <1>18, DuplicateTyped
  <2>2. Cardinality(WithStatus("pending")) \in Nat
    BY StepSetsFinite DEF WithStatus, TypeOK
  <2> QED
    BY <1>18, <2>1, <2>2 DEF ReplanDuplicate, TypeOK, PC
<1>19. ASSUME NEW i \in 1..Len(steps), ReplanNew(i)
       PROVE  TypeOK' /\ JobsOnce'
  <2>1. steps' \in Seq(StepType) /\ listed' \subseteq 1..Len(steps')
    BY <1>19, NewPlanTyped
  <2>2. sigs' \subseteq STRING \X Strategy
    <3>1. \A p \in Plans : Signature(p) \in STRING \X Strategy
      BY PlansAssumption DEF Signature, PlanType
    <3> QED
      BY <1>19, <3>1 DEF ReplanNew, TypeOK
  <2>3. cut' \subseteq {"parallel", "budget", "purge"}
    BY <1>19 DEF ReplanNew, TypeOK
  <2>4. /\ pc = "recover" /\ pc' = "loop" /\ replans' = replans + 1
        /\ UNCHANGED <<unresolved, plan, cur, iteration, errors, seen, verdict,
                       jobs, background, unreported>>
    BY <1>19 DEF ReplanNew
  <2> QED
    BY <2>1, <2>2, <2>3, <2>4 DEF TypeOK, PC
<1> QED
  BY <1>1, <1>2, <1>3, <1>4, <1>5, <1>6, <1>7, <1>8, <1>9, <1>10, <1>11, <1>12,
     <1>13, <1>14, <1>15, <1>16, <1>17, <1>18, <1>19 DEF Next, Edit

\* Outside the work on a step no step is in progress, and the current one is
\* the only one that ever is.
LEMMA PhaseStep ==
  ASSUME TypeOK, TypeOK', Phase, [Next]_vars
  PROVE  Phase'
<1> DEFINE Quiet == UNCHANGED <<steps, listed, cur>>
<1>0. ASSUME UNCHANGED <<listed, cur>> PROVE Current' = Current
  BY <1>0 DEF Current, Position
<1>1. ASSUME Quiet, pc \notin Working, pc' \notin Working \cup {"start", "delegate"}
      PROVE  Phase'
  BY <1>1 DEF Phase
<1>2. CASE \/ FastPath \/ ScheduleOnly \/ Converse \/ ParallelRaises \/ Leave
           \/ BudgetExhausted \/ NoCurrentStep \/ Assemble \/ PostTask
  <2>1. Quiet /\ pc \notin Working /\ pc' \notin Working \cup {"start", "delegate"}
    BY <1>2 DEF FastPath, ScheduleOnly, Converse, ParallelRaises, Leave,
       BudgetExhausted, NoCurrentStep, Assemble, PostTask, loopVars, Working
  <2> QED
    BY <1>1, <2>1
<1>3. CASE Plan
  <2>1. plan \in PlanType
    BY PlansAssumption DEF TypeOK
  <2>2. \A i \in 1..Len(steps') : steps'[i].status = "pending"
    BY <1>3, <2>1, BuildStepsFresh DEF Plan
  <2>3. pc' \in {"delegate", "loop"}
    BY <1>3 DEF Plan
  <2> QED
    BY <2>2, <2>3 DEF Phase, Working
<1>4. CASE ParallelSettles
  <2>1. PICK outcome \in Outcomes :
          steps' = [i \in 1..Len(steps) |-> [steps[i] EXCEPT !.status = outcome[i]]]
    BY <1>4 DEF ParallelSettles
  <2>2. \A i \in 1..Len(steps) : steps[i] \in StepType /\ outcome[i] \in Settled
    BY ElementOfSeq DEF TypeOK, Outcomes
  <2>3. Len(steps) \in Nat /\ Len(steps') = Len(steps)
    BY <2>1, LenProperties DEF TypeOK
  <2>4. \A i \in 1..Len(steps') : steps'[i].status \in Settled
    BY <2>1, <2>2, <2>3 DEF StepType
  <2>5. pc' = "loop"
    BY <1>4 DEF ParallelSettles
  <2> QED
    BY <2>4, <2>5 DEF Phase, Working, Settled
<1>5. CASE ParallelFails
  BY <1>5 DEF ParallelFails, Phase, Working
<1>6. CASE Execute
  <2>1. Current' = Current
    BY <1>0, <1>6 DEF Execute
  <2> QED
    BY <1>6, <2>1 DEF Execute, Phase, Working
<1>7. CASE UNCHANGED vars
  <2>1. Current' = Current
    BY <1>0, <1>7 DEF vars
  <2> QED
    BY <1>7, <2>1 DEF vars, Phase
<1>8. ASSUME NEW i \in 1..Len(steps), SkipSettled(i)
      PROVE  Phase'
  BY <1>8 DEF SkipSettled, Phase, Working
<1>9. ASSUME NEW i \in 1..Len(steps), Reflect(i)
      PROVE  Phase'
  <2>1. Current' = Current
    BY <1>0, <1>9 DEF Reflect
  <2> QED
    BY <1>9, <2>1 DEF Reflect, Phase, Working
<1>10. ASSUME NEW i \in 1..Len(steps), StartStep(i)
       PROVE  Phase'
  <2>1. Current' = Current /\ i \in Current /\ pc = "loop" /\ pc' = "execute"
    BY <1>0, <1>10 DEF StartStep
  <2>2. Len(steps') = Len(steps) /\ \A j \in 1..Len(steps) : j # i => steps'[j] = steps[j]
    BY <1>10, EditTyped DEF Edit
  <2>3. steps'[i].status = "in_progress"
    <3>1. steps \in [1..Len(steps) -> StepType]
      BY LenProperties DEF TypeOK
    <3> QED
      BY <1>10, <3>1 DEF StartStep, StepType
  <2>4. \A j \in Current : j = i
    BY <2>1, OneCurrent
  <2> QED
    BY <2>1, <2>2, <2>3, <2>4, OneCurrent DEF Phase, Working
\* Every other step leaves the current step settled or pending.
<1>11. ASSUME NEW i \in 1..Len(steps), i \in Current, pc = "recover",
              pc' \notin Working \cup {"start", "delegate"},
              \A j \in 1..Len(steps') :
                steps'[j].status = "in_progress" =>
                  j \in 1..Len(steps) /\ j # i /\ steps[j].status = "in_progress"
       PROVE  Phase'
  <2>1. \A j \in 1..Len(steps) : steps[j].status = "in_progress" => j = i
    BY <1>11, OneCurrent DEF Phase
  <2>2. \A j \in 1..Len(steps') : steps'[j].status # "in_progress"
    BY <1>11, <2>1
  <2> QED
    BY <1>11, <2>2 DEF Phase
<1>12. ASSUME NEW i \in 1..Len(steps),
              Accept(i) \/ Retry(i) \/ FallBack(i) \/ Settle(i)
       PROVE  Phase'
  <2>1. /\ Len(steps') = Len(steps)
        /\ \A j \in 1..Len(steps) : j # i => steps'[j] = steps[j]
    BY <1>12, EditTyped DEF Edit
  <2>2. steps'[i].status # "in_progress"
    <3>1. steps \in [1..Len(steps) -> StepType]
      BY LenProperties DEF TypeOK
    <3> QED
      BY <1>12, <3>1 DEF Accept, Retry, FallBack, Settle, SetStatus, StepType
  <2>3. i \in Current /\ pc = "recover" /\ pc' \in {"loop", "raised"}
    BY <1>12 DEF Accept, Retry, FallBack, Settle
  <2>4. \A j \in 1..Len(steps') :
          steps'[j].status = "in_progress" =>
            j \in 1..Len(steps) /\ j # i /\ steps[j].status = "in_progress"
    BY <2>1, <2>2
  <2> QED
    BY <1>11, <2>3, <2>4 DEF Working
<1>13. ASSUME NEW i \in 1..Len(steps), ReplanDuplicate(i)
       PROVE  Phase'
  <2>1. i \in Current /\ pc = "recover" /\ pc' = "loop"
    BY <1>13 DEF ReplanDuplicate
  <2>2. \A j \in 1..Len(steps') :
          steps'[j].status = "in_progress" =>
            j \in 1..Len(steps) /\ j # i /\ steps[j].status = "in_progress"
    <3>1. \A j \in 1..Len(steps) : steps[j] \in StepType
      BY ElementOfSeq DEF TypeOK
    <3>2. i \in DuplicateFails(i)
      BY DEF DuplicateFails
    <3>3. /\ Len(steps') = Len(steps)
          /\ \A j \in 1..Len(steps) :
               steps'[j] = IF j \in DuplicateFails(i)
                           THEN [steps[j] EXCEPT !.status = "failed"] ELSE steps[j]
      BY <1>13, DuplicateTyped
    <3>4. \A j \in 1..Len(steps) :
            j \in DuplicateFails(i) => steps'[j].status = "failed"
      BY <3>1, <3>3 DEF StepType
    <3> QED
      BY <3>2, <3>3, <3>4
  <2> QED
    BY <1>11, <2>1, <2>2 DEF Working
<1>14. ASSUME NEW i \in 1..Len(steps), ReplanNew(i)
       PROVE  Phase'
  <2>1. i \in Current /\ pc = "recover" /\ pc' = "loop"
    BY <1>14 DEF ReplanNew
  <2>2. steps[i] \in StepType /\ Len(steps) \in Nat
    BY ElementOfSeq, LenProperties DEF TypeOK
  <2>3. steps'[i].status = "failed"
    BY <1>14, <2>2, NewPlanTyped DEF StepType
  <2>4. Len(steps') \in Nat
    BY LenProperties DEF TypeOK
  <2>5. \A j \in 1..Len(steps') :
          j \in 1..Len(steps) \/ j \in (Len(steps) + 1)..Len(steps')
    BY <2>2, <2>4
  <2>6. \A j \in 1..Len(steps') :
          steps'[j].status = "in_progress" =>
            j \in 1..Len(steps) /\ j # i /\ steps[j].status = "in_progress"
    BY <1>14, <2>3, <2>5, NewPlanTyped
  <2> QED
    BY <1>11, <2>1, <2>6 DEF Working
<1> QED
  BY <1>2, <1>3, <1>4, <1>5, <1>6, <1>7, <1>8, <1>9, <1>10, <1>12, <1>13, <1>14
  DEF Next

\* A step is started once for each charge it carries.
LEMMA ChargedStep ==
  ASSUME TypeOK, TypeOK', Phase, Charged, [Next]_vars
  PROVE  Charged'
<1>0. /\ MaxRetries \in Nat /\ Len(steps) \in Nat
      /\ \A j \in 1..Len(steps) : steps[j] \in StepType
  BY BoundsAssumption, ElementOfSeq, LenProperties DEF TypeOK
\* A step that keeps its counters and is no longer pending only pays more.
<1>1. ASSUME NEW s \in StepType, PaidFor(s), NEW t,
             t.retries = s.retries, t.fellBack = s.fellBack,
             t.attempts = s.attempts, t.status # "pending"
      PROVE  PaidFor(t)
  BY <1>0, <1>1 DEF PaidFor, Charge, StepType
<1>2. CASE UNCHANGED steps
  BY <1>2 DEF Charged
<1>3. CASE Plan
  <2>1. plan \in PlanType
    BY PlansAssumption DEF TypeOK
  <2>2. \A i \in 1..Len(steps') :
          /\ steps'[i].attempts = 0 /\ steps'[i].retries = 0
          /\ steps'[i].fellBack = FALSE /\ steps'[i].status = "pending"
    BY <1>3, <2>1, BuildStepsFresh DEF Plan
  <2> QED
    BY <1>0, <2>2 DEF Charged, PaidFor, Charge
<1>4. CASE ParallelSettles
  <2>1. PICK outcome \in Outcomes :
          steps' = [i \in 1..Len(steps) |-> [steps[i] EXCEPT !.status = outcome[i]]]
    BY <1>4 DEF ParallelSettles
  <2>2. Len(steps') = Len(steps) /\ \A i \in 1..Len(steps) : outcome[i] # "pending"
    BY <1>0, <2>1 DEF Outcomes, Settled
  <2>3. \A i \in 1..Len(steps') :
          /\ steps'[i].retries = steps[i].retries
          /\ steps'[i].fellBack = steps[i].fellBack
          /\ steps'[i].attempts = steps[i].attempts
          /\ steps'[i].status = outcome[i]
    BY <1>0, <2>1, <2>2 DEF StepType
  <2> QED
    BY <1>0, <1>1, <2>2, <2>3 DEF Charged
<1>5. ASSUME NEW i \in 1..Len(steps), Edit(i), PaidFor(steps'[i])
      PROVE  Charged'
  BY <1>5, EditTyped DEF Charged
<1>6. ASSUME NEW i \in 1..Len(steps), StartStep(i)
      PROVE  Charged'
  <2>1. steps \in [1..Len(steps) -> StepType]
    BY LenProperties DEF TypeOK
  <2>2. steps[i].status = "pending"
    BY <1>0, <1>6 DEF StartStep, Phase, Working, StepType, Status, Settled
  <2>3. /\ steps'[i].status = "in_progress" /\ steps'[i].attempts = steps[i].attempts + 1
        /\ steps'[i].retries = steps[i].retries /\ steps'[i].fellBack = steps[i].fellBack
    BY <1>6, <2>1 DEF StartStep, StepType
  <2>4. PaidFor(steps'[i])
    BY <1>0, <2>2, <2>3 DEF Charged, PaidFor, Charge, StepType
  <2> QED
    BY <1>5, <1>6, <2>4 DEF Edit
<1>7. ASSUME NEW i \in 1..Len(steps), Accept(i) \/ Settle(i)
      PROVE  Charged'
  <2>1. PICK st \in {"completed", "failed"} : steps' = SetStatus(i, st)
    BY <1>7 DEF Accept, Settle
  <2>2. steps'[i] = [steps[i] EXCEPT !.status = st]
    BY <2>1, SetStatusTyped DEF Status
  <2>3. PaidFor(steps'[i])
    BY <1>0, <1>1, <2>2 DEF Charged, StepType
  <2> QED
    BY <1>5, <1>7, <2>3 DEF Edit
<1>8. ASSUME NEW i \in 1..Len(steps), Retry(i) \/ FallBack(i)
      PROVE  Charged'
  <2>1. steps \in [1..Len(steps) -> StepType]
    BY LenProperties DEF TypeOK
  <2>2. pc = "recover" /\ i \in Current
    BY <1>8 DEF Retry, FallBack
  <2>3. steps[i].status = "in_progress"
    BY <2>2 DEF Phase, Working
  <2>4. CASE Retry(i)
    <3>1. /\ steps'[i].status = "pending" /\ steps'[i].attempts = steps[i].attempts
          /\ steps'[i].retries = steps[i].retries + 1
          /\ steps'[i].fellBack = steps[i].fellBack
          /\ steps[i].retries < MaxRetries
      BY <2>1, <2>4 DEF Retry, WantsRetry, StepType
    <3>2. PaidFor(steps'[i])
      BY <1>0, <2>3, <3>1 DEF Charged, PaidFor, Charge, StepType
    <3> QED
      BY <1>5, <2>4, <3>2 DEF Edit
  <2>5. CASE FallBack(i)
    <3>1. /\ steps'[i].status = "pending" /\ steps'[i].attempts = steps[i].attempts
          /\ steps'[i].retries = 0 /\ steps'[i].fellBack = TRUE
          /\ ~steps[i].fellBack
      BY <2>1, <2>5 DEF FallBack, CanFallBack, StepType
    <3>2. PaidFor(steps'[i])
      BY <1>0, <2>3, <3>1 DEF Charged, PaidFor, Charge, StepType
    <3> QED
      BY <1>5, <2>5, <3>2 DEF Edit
  <2> QED
    BY <1>8, <2>4, <2>5
<1>9. ASSUME NEW i \in 1..Len(steps), ReplanDuplicate(i)
      PROVE  Charged'
  <2>1. /\ Len(steps') = Len(steps)
        /\ \A j \in 1..Len(steps) :
             steps'[j] = IF j \in DuplicateFails(i)
                         THEN [steps[j] EXCEPT !.status = "failed"] ELSE steps[j]
    BY <1>9, DuplicateTyped
  <2>2. \A j \in 1..Len(steps) :
          PaidFor(steps[j]) => PaidFor([steps[j] EXCEPT !.status = "failed"])
    BY <1>0, <1>1 DEF StepType
  <2> QED
    BY <2>1, <2>2 DEF Charged
<1>10. ASSUME NEW i \in 1..Len(steps), ReplanNew(i)
       PROVE  Charged'
  <2>1. Len(steps') \in Nat
    BY LenProperties DEF TypeOK
  <2>2. \A j \in 1..Len(steps') :
          j \in 1..Len(steps) \/ j \in (Len(steps) + 1)..Len(steps')
    BY <1>0, <2>1
  <2>3. PaidFor(steps'[i])
    BY <1>0, <1>1, <1>10, NewPlanTyped DEF Charged, StepType
  <2>4. \A j \in (Len(steps) + 1)..Len(steps') : PaidFor(steps'[j])
    <3>1. \A j \in (Len(steps) + 1)..Len(steps') :
            /\ steps'[j].status = "pending" /\ steps'[j].attempts = 0
            /\ steps'[j].retries = 0 /\ steps'[j].fellBack = FALSE
      BY <1>10, NewPlanTyped
    <3> QED
      BY <1>0, <3>1 DEF PaidFor, Charge
  <2> QED
    BY <1>10, <2>2, <2>3, <2>4, NewPlanTyped DEF Charged
<1>11. ASSUME Next
       PROVE  \/ UNCHANGED steps \/ Plan \/ ParallelSettles
              \/ \E i \in 1..Len(steps) :
                   \/ StartStep(i) \/ Accept(i) \/ Settle(i) \/ Retry(i)
                   \/ FallBack(i) \/ ReplanDuplicate(i) \/ ReplanNew(i)
  BY <1>11 DEF Next, FastPath, ScheduleOnly, Converse, ParallelRaises, ParallelFails,
     Leave, BudgetExhausted, NoCurrentStep, SkipSettled, Reflect, Execute, Assemble,
     PostTask, loopVars, vars
<1> QED
  BY <1>2, <1>3, <1>4, <1>6, <1>7, <1>8, <1>9, <1>10, <1>11 DEF vars

\* The reflector never lets a failure with retries left go without a retry.
LEMMA VerdictStep ==
  ASSUME TypeOK, VerdictSound, [Next]_vars
  PROVE  VerdictSound'
<1>1. CASE UNCHANGED vars
  BY <1>1 DEF vars, VerdictSound, Current, Position
<1>2. ASSUME NEW i \in 1..Len(steps), Reflect(i)
      PROVE  VerdictSound'
  <2>1. /\ i \in Current /\ verdict' \in Verdicts(i)
        /\ UNCHANGED <<steps, listed, cur, seen>>
    BY <1>2 DEF Reflect
  <2>2. Current' = Current /\ \A j \in Current : j = i
    BY <2>1, OneCurrent DEF Current, Position
  <2>3. seen = "failure" /\ steps[i].retries < MaxRetries => Verdicts(i) = {"retry"}
    BY DEF Verdicts
  <2> QED
    BY <2>1, <2>2, <2>3 DEF VerdictSound
<1>3. ASSUME Next, \A i \in 1..Len(steps) : ~Reflect(i), ~UNCHANGED vars
      PROVE  pc' # "recover"
  BY <1>3 DEF Next, FastPath, ScheduleOnly, Converse, Plan, ParallelRaises,
     ParallelSettles, ParallelFails, Leave, BudgetExhausted, NoCurrentStep,
     SkipSettled, StartStep, Accept, Retry, FallBack, ReplanDuplicate, ReplanNew,
     Settle, Execute, Assemble, PostTask
<1> QED
  BY <1>1, <1>2, <1>3 DEF VerdictSound

\* A settled step survives every step of the run as it is.
LEMMA SettledStep ==
  ASSUME TypeOK, TypeOK', Phase, [Next]_vars,
         NEW j \in 1..Len(steps), steps[j].status \in Settled
  PROVE  j \in 1..Len(steps') /\ steps'[j] = steps[j]
<1>1. Len(steps) \in Nat /\ Len(steps') \in Nat
  BY LenProperties DEF TypeOK
<1>2. CASE UNCHANGED steps
  BY <1>2
<1>3. CASE Plan \/ ParallelSettles
  <2>1. pc \in {"start", "delegate"}
    BY <1>3 DEF Plan, ParallelSettles
  <2>2. pc # "start"
    BY <1>1 DEF Phase
  <2> QED
    BY <2>1, <2>2 DEF Phase, Settled
\* The step that is decided about is in progress.
<1>4. ASSUME NEW i \in Current, pc = "recover"
      PROVE  i # j
  BY <1>4 DEF Phase, Working, Settled
<1>5. ASSUME NEW i \in 1..Len(steps), Edit(i)
      PROVE  j \in 1..Len(steps') /\ steps'[j] = steps[j]
  <2>1. CASE StartStep(i)
    <3>1. i # j
      BY <2>1 DEF StartStep
    <3> QED
      BY <1>5, <3>1, EditTyped
  <2>2. CASE Accept(i) \/ Retry(i) \/ FallBack(i) \/ Settle(i)
    <3>1. i # j
      BY <1>4, <2>2 DEF Accept, Retry, FallBack, Settle
    <3> QED
      BY <1>5, <3>1, EditTyped
  <2> QED
    BY <1>5, <2>1, <2>2 DEF Edit
<1>6. ASSUME NEW i \in 1..Len(steps), ReplanDuplicate(i)
      PROVE  j \in 1..Len(steps') /\ steps'[j] = steps[j]
  <2>1. i # j
    BY <1>4, <1>6 DEF ReplanDuplicate
  <2>2. j \notin DuplicateFails(i)
    BY <2>1 DEF DuplicateFails, WithStatus, Settled
  <2> QED
    BY <1>6, <2>2, DuplicateTyped
<1>7. ASSUME NEW i \in 1..Len(steps), ReplanNew(i)
      PROVE  j \in 1..Len(steps') /\ steps'[j] = steps[j]
  <2>1. i # j
    BY <1>4, <1>7 DEF ReplanNew
  <2>2. Len(steps') > Len(steps) /\ steps'[j] = steps[j]
    BY <1>7, <2>1, NewPlanTyped
  <2> QED
    BY <1>1, <2>2
<1> QED
  BY <1>2, <1>3, <1>5, <1>6, <1>7 DEF Next, FastPath, ScheduleOnly, Converse,
     ParallelRaises, ParallelFails, Leave, BudgetExhausted, NoCurrentStep,
     SkipSettled, Reflect, Execute, Assemble, PostTask, loopVars, vars, Edit

\* The inductive invariant of the run.
THEOREM Invariant == Spec => []IInv
<1>1. Init => IInv
  BY TypeInit
<1>2. IInv /\ [Next]_vars => IInv'
  <2> SUFFICES ASSUME IInv, [Next]_vars PROVE IInv'
    OBVIOUS
  <2>1. TypeOK' /\ JobsOnce'
    BY TypeStep DEF IInv
  <2>2. Phase'
    BY <2>1, PhaseStep DEF IInv
  <2>3. Charged'
    BY <2>1, ChargedStep DEF IInv
  <2>4. VerdictSound'
    BY VerdictStep DEF IInv
  <2> QED
    BY <2>1, <2>2, <2>3, <2>4 DEF IInv
<1> QED
  BY <1>1, <1>2, PTL DEF Spec

-----------------------------------------------------------------------------
(* The theorems.                                                           *)

\* The run's state is well typed, and a run stores at most one cron job
\* (handler.py:70, schedule_handler.py:55).
THEOREM TypeCorrect == Spec => []TypeOK
<1>1. IInv => TypeOK
  BY DEF IInv
<1> QED
  BY <1>1, Invariant, PTL

\* No step is started more often than 2 * (max_retries + 1) times: its own
\* retries and those of its one fallback (recovery.py:51-73 and 152-185).
THEOREM StartsAreBounded == Spec => []AttemptsBounded
<1>1. IInv => AttemptsBounded
  <2> SUFFICES ASSUME IInv, NEW i \in 1..Len(steps)
               PROVE  steps[i].attempts <= 2 * (MaxRetries + 1)
    BY DEF AttemptsBounded
  <2>1. steps[i] \in StepType /\ MaxRetries \in Nat
    BY BoundsAssumption, ElementOfSeq DEF IInv, TypeOK
  <2>2. PaidFor(steps[i])
    BY DEF IInv, Charged
  <2> QED
    BY <2>1, <2>2 DEF PaidFor, Charge, StepType
<1> QED
  BY <1>1, Invariant, PTL

\* The HTTP recovery of recovery.py:117-150 is dead code for every bound: a
\* failure with retries left is always judged worth an ordinary retry first.
THEOREM HttpRecoveryIsDead == Spec => []HttpRecoveryNeverReached
<1>1. IInv => HttpRecoveryNeverReached
  BY DEF IInv, VerdictSound, HttpRecoveryNeverReached, HttpRecoveryApplies, WantsRetry
<1> QED
  BY <1>1, Invariant, PTL

\* No retry, fallback, replan or purge touches a step that is settled
\* (loop.py:571-574 skips it; recovery.py only writes the current step and,
\* for a duplicate plan, the pending ones).
THEOREM SettledStepsAreFinal == Spec => SettledStaysSettled
<1>1. IInv /\ IInv' /\ [Next]_vars =>
        [\A i \in 1..Len(steps) :
           steps[i].status \in Settled =>
             i \in 1..Len(steps') /\ steps'[i] = steps[i]]_steps
  BY SettledStep DEF IInv
<1> QED
  BY <1>1, Invariant, PTL DEF Spec, SettledStaysSettled

-----------------------------------------------------------------------------
(* The books of the run: failures and errors.                              *)

Failed == {i \in 1..Len(steps) : steps[i].status = "failed"}

\* FailuresAccounted needs to know that the books are empty before the loop.
Books ==
  /\ FailuresAccounted
  /\ pc \in {"start", "delegate"} => errors = 0 /\ replans = 0 /\ unreported = 0

LEMMA BooksStep ==
  ASSUME TypeOK, TypeOK', Phase, Books, [Next]_vars
  PROVE  Books'
<1>0. /\ Failed \subseteq 1..Len(steps)
      /\ IsFiniteSet(Failed) /\ Cardinality(Failed) = errors + replans + unreported
      /\ errors \in Nat /\ replans \in Nat /\ unreported \in Nat
      /\ \A i \in 1..Len(steps) : steps[i] \in StepType
      /\ Len(steps) \in Nat /\ Len(steps') \in Nat
  BY StepSetsFinite, ElementOfSeq, LenProperties
     DEF Failed, Books, FailuresAccounted, TypeOK
\* Two ways the books stay balanced.
<1>1. ASSUME pc' \notin {"start", "delegate"}, Failed' = Failed,
             errors' + replans' + unreported' = errors + replans + unreported
      PROVE  Books'
  BY <1>0, <1>1 DEF Books, FailuresAccounted, Failed
<1>2. ASSUME NEW S, S \subseteq 1..Len(steps), S \cap Failed = {},
             Failed' = Failed \cup S, pc' \notin {"start", "delegate"},
             errors' + replans' + unreported'
               = errors + replans + unreported + Cardinality(S)
      PROVE  Books'
  <2>1. IsFiniteSet(S) /\ Cardinality(S) \in Nat
    BY <1>2, StepSetsFinite
  <2>2. Cardinality(Failed \cup S)
          = Cardinality(Failed) + Cardinality(S) - Cardinality(Failed \cap S)
    BY <1>0, <2>1, FS_Union
  <2>3. Failed \cap S = {} /\ Cardinality({}) = 0
    BY <1>2, FS_EmptySet
  <2>6. Cardinality(Failed \cap S) = 0 /\ Cardinality(Failed) \in Nat
    BY <1>0, <2>3, StepSetsFinite, Zenon
  <2>4. Cardinality(Failed \cup S) = Cardinality(Failed) + Cardinality(S)
    BY <2>1, <2>2, <2>6
  <2>5. Cardinality(Failed \cup S) = errors' + replans' + unreported'
    BY <1>0, <1>2, <2>4
  <2> QED
    BY <1>2, <2>5 DEF Books, FailuresAccounted, Failed
<1>3. ASSUME pc' \notin {"start", "delegate"},
             UNCHANGED <<steps, errors, replans, unreported>>
      PROVE  Books'
  BY <1>1, <1>3 DEF Failed
<1>4. CASE UNCHANGED vars
  BY <1>4 DEF vars, Books, FailuresAccounted
<1>5. CASE Plan
  <2>1. plan \in PlanType
    BY PlansAssumption DEF TypeOK
  <2>2. \A i \in 1..Len(steps') : steps'[i].status = "pending"
    BY <1>5, <2>1, BuildStepsFresh DEF Plan
  <2>3. {i \in 1..Len(steps') : steps'[i].status = "failed"} = {}
    BY <2>2
  <2>4. errors' = 0 /\ replans' = 0 /\ unreported' = 0
    BY <1>5 DEF Plan, Books
  <2>5. Cardinality({i \in 1..Len(steps') : steps'[i].status = "failed"}) = 0
    BY <2>3, FS_EmptySet
  <2>6. Cardinality({i \in 1..Len(steps') : steps'[i].status = "failed"})
          = errors' + replans' + unreported'
    BY <2>4, <2>5
  <2> QED
    BY <2>4, <2>6 DEF Books, FailuresAccounted
<1>6. CASE ParallelSettles
  <2>1. PICK outcome \in Outcomes :
          /\ steps' = [i \in 1..Len(steps) |-> [steps[i] EXCEPT !.status = outcome[i]]]
          /\ unreported' = Cardinality({i \in 1..Len(steps) : outcome[i] = "failed"})
    BY <1>6 DEF ParallelSettles
  <2>2. Len(steps') = Len(steps)
    BY <1>0, <2>1
  <2>3. \A i \in 1..Len(steps') : steps'[i].status = outcome[i]
    BY <1>0, <2>1, <2>2 DEF StepType
  <2>4. {i \in 1..Len(steps') : steps'[i].status = "failed"}
          = {i \in 1..Len(steps) : outcome[i] = "failed"}
    BY <2>2, <2>3
  <2>5. errors' = 0 /\ replans' = 0 /\ pc' = "loop"
    BY <1>6 DEF ParallelSettles, Books
  <2>6. unreported' \in Nat
    BY DEF TypeOK
  <2>7. Cardinality({i \in 1..Len(steps') : steps'[i].status = "failed"})
          = errors' + replans' + unreported'
    <3>1. Cardinality({i \in 1..Len(steps') : steps'[i].status = "failed"}) = unreported'
      BY <2>1, <2>4, Zenon
    <3>2. \A n \in Nat : 0 + 0 + n = n
      OBVIOUS
    <3> QED
      BY <2>5, <2>6, <3>1, <3>2, Zenon
  <2> QED
    BY <2>5, <2>7 DEF Books, FailuresAccounted
<1>7. ASSUME NEW i \in 1..Len(steps), StartStep(i) \/ Accept(i) \/ Retry(i) \/ FallBack(i)
      PROVE  Books'
  <2>1. steps[i].status # "failed"
    BY <1>7 DEF StartStep, Accept, Retry, FallBack, Phase, Working, Settled
  <2>2. steps'[i].status # "failed"
    <3>1. steps \in [1..Len(steps) -> StepType]
      BY LenProperties DEF TypeOK
    <3> QED
      BY <1>7, <3>1 DEF StartStep, Accept, Retry, FallBack, SetStatus, StepType
  <2>3. Failed' = Failed
    BY <1>7, <2>1, <2>2, EditTyped DEF Failed, Edit
  <2>4. /\ pc' \notin {"start", "delegate"} /\ UNCHANGED <<errors, replans, unreported>>
    BY <1>7 DEF StartStep, Accept, Retry, FallBack
  <2> QED
    BY <1>1, <2>3, <2>4
\* A step given up is one failure more.
<1>8. ASSUME NEW i \in 1..Len(steps), steps[i].status # "failed",
             steps'[i].status = "failed",
             \A j \in 1..Len(steps) : j # i => steps'[j] = steps[j],
             Len(steps') >= Len(steps),
             \A j \in (Len(steps) + 1)..Len(steps') : steps'[j].status # "failed",
             pc' \notin {"start", "delegate"},
             errors' + replans' + unreported' = errors + replans + unreported + 1
      PROVE  Books'
  <2>1. \A j \in 1..Len(steps') :
          j \in 1..Len(steps) \/ j \in (Len(steps) + 1)..Len(steps')
    BY <1>0
  <2>2. 1..Len(steps) \subseteq 1..Len(steps')
    BY <1>0, <1>8
  <2>3. Failed' = Failed \cup {i}
    BY <1>8, <2>1, <2>2 DEF Failed
  <2>4. Cardinality({i}) = 1 /\ {i} \cap Failed = {}
    BY <1>8, FS_Singleton DEF Failed
  <2> QED
    BY <1>2, <1>8, <2>3, <2>4
<1>9. ASSUME NEW i \in 1..Len(steps), Settle(i)
      PROVE  Books'
  <2>1. steps[i].status # "failed"
    BY <1>9 DEF Settle, Phase, Working
  <2>2. PICK st \in Status :
          /\ steps' = SetStatus(i, st)
          /\ \/ st = "completed" /\ errors' = errors
             \/ st = "failed" /\ errors' = errors + 1
    BY <1>9 DEF Settle, Status
  <2>3. /\ Len(steps') = Len(steps)
        /\ steps'[i] = [steps[i] EXCEPT !.status = st]
        /\ \A j \in 1..Len(steps) : j # i => steps'[j] = steps[j]
    BY <2>2, SetStatusTyped
  <2>4. steps'[i].status = st
    BY <1>0, <2>3 DEF StepType
  <2>5. pc' = "loop" /\ UNCHANGED <<replans, unreported>>
    BY <1>9 DEF Settle
  <2>6. CASE st = "completed"
    <3>1. Failed' = Failed
      BY <2>1, <2>3, <2>4, <2>6 DEF Failed
    <3> QED
      BY <1>1, <2>2, <2>5, <2>6, <3>1
  <2>7. CASE st = "failed"
    <3>1. \A j \in (Len(steps) + 1)..Len(steps') : steps'[j].status # "failed"
      BY <1>0, <2>3
    <3>3. Len(steps') >= Len(steps) /\ pc' \notin {"start", "delegate"}
      BY <1>0, <2>3, <2>5
    <3>2. errors' + replans' + unreported' = errors + replans + unreported + 1
      BY <1>0, <2>2, <2>5, <2>7
    <3> QED
      BY <1>8, <2>1, <2>3, <2>4, <2>7, <3>1, <3>2, <3>3
  <2> QED
    BY <2>2, <2>6, <2>7
<1>10. ASSUME NEW i \in 1..Len(steps), ReplanDuplicate(i)
       PROVE  Books'
  <2> DEFINE P == WithStatus("pending")
  <2>1. steps[i].status = "in_progress"
    BY <1>10 DEF ReplanDuplicate, Phase, Working
  <2>2. P \subseteq 1..Len(steps) /\ i \notin P /\ \A j \in P : steps[j].status # "failed"
    BY <2>1 DEF WithStatus, TypeOK
  <2>3. Failed' = Failed \cup (P \cup {i})
    <3>1. /\ Len(steps') = Len(steps)
          /\ \A j \in 1..Len(steps) :
               steps'[j] = IF j \in DuplicateFails(i)
                           THEN [steps[j] EXCEPT !.status = "failed"] ELSE steps[j]
      BY <1>10, DuplicateTyped
    <3>2. \A j \in 1..Len(steps) :
            j \in DuplicateFails(i) => steps'[j].status = "failed"
      BY <1>0, <3>1 DEF StepType
    <3>3. DuplicateFails(i) = P \cup {i}
      BY DEF DuplicateFails
    <3> QED
      BY <2>2, <3>1, <3>2, <3>3 DEF Failed
  <2> HIDE DEF P
  <2>4. (P \cup {i}) \cap Failed = {} /\ P \cup {i} \subseteq 1..Len(steps)
    BY <2>1, <2>2 DEF Failed
  <2>5. IsFiniteSet(P) /\ Cardinality(P) \in Nat
    BY <2>2, StepSetsFinite
  <2>6. Cardinality(P \cup {i}) = Cardinality(P) + 1
    BY <2>2, <2>5, FS_AddElement
  <2>7. /\ errors' = errors + Cardinality(P) /\ replans' = replans + 1
        /\ unreported' = unreported /\ pc' = "loop"
    BY <1>10 DEF ReplanDuplicate, P
  <2>8. errors' + replans' + unreported'
          = errors + replans + unreported + Cardinality(P \cup {i})
    BY <1>0, <2>5, <2>6, <2>7
  <2> QED
    BY <1>2, <2>3, <2>4, <2>7, <2>8
<1>11. ASSUME NEW i \in 1..Len(steps), ReplanNew(i)
       PROVE  Books'
  <2>1. steps[i].status = "in_progress"
    BY <1>11 DEF ReplanNew, Phase, Working
  <2>2. steps'[i].status = "failed"
    BY <1>0, <1>11, NewPlanTyped DEF StepType
  <2>3. /\ replans' = replans + 1 /\ pc' = "loop" /\ UNCHANGED <<errors, unreported>>
    BY <1>11 DEF ReplanNew
  <2>4. errors' + replans' + unreported' = errors + replans + unreported + 1
    BY <1>0, <2>3
  <2>5. /\ \A j \in 1..Len(steps) : j # i => steps'[j] = steps[j]
        /\ Len(steps') > Len(steps)
        /\ \A j \in (Len(steps) + 1)..Len(steps') : steps'[j].status # "failed"
    BY <1>11, NewPlanTyped
  <2> QED
    BY <1>0, <1>8, <2>1, <2>2, <2>3, <2>4, <2>5
<1>12. CASE \/ FastPath \/ ScheduleOnly \/ Converse \/ ParallelRaises \/ ParallelFails
            \/ Leave \/ BudgetExhausted \/ NoCurrentStep \/ Execute \/ Assemble
            \/ PostTask \/ \E i \in 1..Len(steps) : SkipSettled(i) \/ Reflect(i)
  BY <1>3, <1>12 DEF FastPath, ScheduleOnly, Converse, ParallelRaises, ParallelFails,
     Leave, BudgetExhausted, NoCurrentStep, Execute, Assemble, PostTask, SkipSettled,
     Reflect, loopVars
<1> QED
  BY <1>4, <1>5, <1>6, <1>7, <1>9, <1>10, <1>11, <1>12 DEF Next

\* Every failed step is an error the user is told of, the step a replan
\* replaced, or a failed parallel delegate (recovery.py:96-115 and 187-242,
\* delegate_executor.py:123-229).
THEOREM FailuresAreAccounted == Spec => []FailuresAccounted
<1>1. Init => Books
  <2> SUFFICES ASSUME Init PROVE Books
    OBVIOUS
  <2>1. {i \in 1..Len(steps) : steps[i].status = "failed"} = {}
    BY DEF Init
  <2> QED
    BY <2>1, FS_EmptySet DEF Init, Books, FailuresAccounted
<1>2. IInv /\ IInv' /\ Books /\ [Next]_vars => Books'
  BY BooksStep DEF IInv
<1>3. Books => FailuresAccounted
  BY DEF Books
<1> QED
  BY <1>1, <1>2, <1>3, Invariant, PTL DEF Spec

-----------------------------------------------------------------------------
(* The place in the list.                                                  *)

\* NoStepPassedOver needs to know that the list is walked from its start.
InOrder ==
  /\ NoStepPassedOver
  /\ pc \in {"start", "delegate"} => cur = 0

LEMMA InOrderStep ==
  ASSUME TypeOK, TypeOK', Phase, InOrder, [Next]_vars
  PROVE  InOrder'
<1> DEFINE Whole == cut \cap {"purge", "parallel"} = {}
<1>0. /\ Len(steps) \in Nat /\ listed \subseteq 1..Len(steps)
      /\ Len(steps') \in Nat /\ listed' \subseteq 1..Len(steps')
      /\ cur \in Nat /\ \A i \in listed : Position(i) \in Nat
      /\ \A i \in 1..Len(steps) : steps[i] \in StepType
  BY PositionGrows, ElementOfSeq, LenProperties DEF TypeOK
\* Steps of the run that stay where they are in the list.
<1>1. ASSUME UNCHANGED <<listed, cur>>, Whole' => Whole,
             pc' \in {"start", "delegate"} => cur' = 0
      PROVE  InOrder'
  <2>1. \A j \in listed : steps[j].status \in Settled => steps'[j].status \in Settled
    BY <1>0, SettledStep
  <2>2. \A j \in listed : Position(j)' = Position(j)
    BY <1>1 DEF Position
  <2> QED
    BY <1>1, <2>1, <2>2 DEF InOrder, NoStepPassedOver
\* Steps of the run that settle the current step and pass on.
<1>2. ASSUME NEW i \in Current, cur' = cur + 1, UNCHANGED <<listed, cut>>,
             steps'[i].status \in Settled, pc' = "loop"
      PROVE  InOrder'
  <2>1. ASSUME NEW j \in listed, Whole, Position(j) < cur + 1
        PROVE  steps'[j].status \in Settled
    <3>1. CASE Position(j) < cur
      <4>1. steps[j].status \in Settled
        BY <2>1, <3>1 DEF InOrder, NoStepPassedOver
      <4> QED
        BY <1>0, <4>1, SettledStep
    <3>2. CASE Position(j) = cur
      <4>1. j \in Current
        BY <3>2 DEF Current
      <4> QED
        BY <1>2, <4>1, OneCurrent
    <3> QED
      BY <1>0, <2>1, <3>1, <3>2
  <2>2. \A j \in listed : Position(j)' = Position(j)
    BY <1>2 DEF Position
  <2> QED
    BY <1>2, <2>1, <2>2 DEF InOrder, NoStepPassedOver
<1>3. CASE UNCHANGED vars
  BY <1>1, <1>3 DEF vars, InOrder
<1>4. CASE Plan
  <2>1. cur' = 0
    BY <1>4 DEF Plan, InOrder
  <2>2. \A i \in listed' : Position(i)' \in Nat
    BY <1>0, PlacesGrow DEF Position
  <2> QED
    BY <2>1, <2>2 DEF InOrder, NoStepPassedOver
<1>5. CASE ParallelSettles
  <2>1. PICK outcome \in Outcomes :
          steps' = [i \in 1..Len(steps) |-> [steps[i] EXCEPT !.status = outcome[i]]]
    BY <1>5 DEF ParallelSettles
  <2>2. \A i \in 1..Len(steps) : steps'[i].status \in Settled
    BY <1>0, <2>1 DEF StepType, Outcomes
  <2>3. pc' = "loop" /\ listed' = listed
    BY <1>5 DEF ParallelSettles
  <2> QED
    BY <1>0, <2>2, <2>3 DEF InOrder, NoStepPassedOver
<1>6. CASE ParallelFails
  BY <1>6 DEF ParallelFails, InOrder, NoStepPassedOver
<1>7. CASE \/ FastPath \/ ScheduleOnly \/ Converse \/ ParallelRaises \/ Leave
           \/ BudgetExhausted \/ NoCurrentStep \/ Execute \/ Assemble \/ PostTask
           \/ \E i \in 1..Len(steps) :
                StartStep(i) \/ Reflect(i) \/ Retry(i) \/ FallBack(i) \/ ReplanDuplicate(i)
  <2>1. /\ UNCHANGED <<listed, cur>> /\ pc' \notin {"start", "delegate"}
        /\ cut' = cut \/ cut' = cut \cup {"budget"}
    BY <1>7 DEF FastPath, ScheduleOnly, Converse, ParallelRaises, Leave, BudgetExhausted,
       NoCurrentStep, Execute, Assemble, PostTask, StartStep, Reflect, Retry, FallBack,
       ReplanDuplicate, loopVars
  <2> QED
    BY <1>1, <2>1
<1>8. ASSUME NEW i \in 1..Len(steps), SkipSettled(i) \/ Accept(i) \/ Settle(i)
      PROVE  InOrder'
  <2>1. /\ i \in Current /\ cur' = cur + 1 /\ UNCHANGED <<listed, cut>> /\ pc' = "loop"
    BY <1>8 DEF SkipSettled, Accept, Settle, NextIndex
  <2>2. steps'[i].status \in Settled
    <3>1. steps \in [1..Len(steps) -> StepType]
      BY LenProperties DEF TypeOK
    <3> QED
      BY <1>8, <3>1 DEF SkipSettled, Accept, Settle, SetStatus, StepType, Settled
  <2> QED
    BY <1>2, <2>1, <2>2
<1>9. ASSUME NEW i \in 1..Len(steps), ReplanNew(i)
      PROVE  InOrder'
  <2>1. i \in Current /\ pc' = "loop" /\ cur' = cur
    BY <1>9 DEF ReplanNew
  <2>2. CASE "purge" \in cut'
    BY <2>1, <2>2 DEF InOrder, NoStepPassedOver
  <2>3. CASE "purge" \notin cut'
    <3>1. /\ cut' = cut
          /\ \E n \in Nat : listed' = listed \cup (Len(steps) + 1)..n
      <4>1. PICK p \in Plans :
              /\ listed' = (IF Cardinality(WithStatus("failed") \cup {i}) > PurgeAfter
                            THEN listed \ (WithStatus("failed") \cup {i}) ELSE listed)
                           \cup (Len(steps) + 1)..(Len(steps) + Len(BuildSteps(p)))
              /\ cut' = IF Cardinality(WithStatus("failed") \cup {i}) > PurgeAfter
                        THEN cut \cup {"purge"} ELSE cut
        BY <1>9 DEF ReplanNew
      <4>2. BuildSteps(p) \in Seq(StepType)
        BY PlansAssumption, BuildStepsFresh
      <4>3. Len(steps) + Len(BuildSteps(p)) \in Nat
        BY <1>0, <4>2, LenProperties
      <4> QED
        BY <2>3, <4>1, <4>3
    <3>2. PICK n \in Nat : listed' = listed \cup (Len(steps) + 1)..n
      BY <3>1
    <3>3. i \in listed /\ i \in listed' /\ Position(i) = cur
      BY <2>1, <3>2 DEF Current
    \* What was in the list keeps its place ...
    <3>4. \A j \in listed : Position(j)' = Position(j)
      <4> TAKE j \in listed
      <4>1. \A k \in (Len(steps) + 1)..n : ~(k < j)
        BY <1>0
      <4>2. {k \in listed' : k < j} = {k \in listed : k < j}
        BY <3>2, <4>1
      <4> QED
        BY <4>2 DEF Position
    \* ... and what is new comes after the current step.
    <3>5. ASSUME NEW j \in listed', j \notin listed
          PROVE  ~(Position(j)' < cur)
      <4>1. i < j
        BY <1>0, <3>2, <3>5
      <4>2. /\ Position(j)' \in Nat /\ Position(i)' \in Nat
            /\ Position(i)' < Position(j)'
        <5>1. /\ \A k \in listed' : Position(k)' \in Nat
              /\ \A k, m \in listed' : k < m => Position(k)' < Position(m)'
          BY <1>0, PlacesGrow DEF Position
        <5> QED
          BY <3>3, <3>5, <4>1, <5>1
      <4> QED
        BY <1>0, <3>3, <3>4, <4>2
    <3>6. \A j \in listed : steps[j].status \in Settled => steps'[j].status \in Settled
      BY <1>0, SettledStep
    <3> QED
      BY <2>1, <3>1, <3>4, <3>5, <3>6 DEF InOrder, NoStepPassedOver
  <2> QED
    BY <2>2, <2>3
<1> QED
  BY <1>3, <1>4, <1>5, <1>6, <1>7, <1>8, <1>9 DEF Next

\* The index never passes a step that is not settled, unless the list was
\* purged around it or the delegate pool failed (loop.py:571-574,
\* recovery.py:187-242).
THEOREM StepsAreTakenInOrder == Spec => []NoStepPassedOver
<1>1. Init => InOrder
  BY DEF Init, InOrder, NoStepPassedOver
<1>2. IInv /\ IInv' /\ InOrder /\ [Next]_vars => InOrder'
  BY InOrderStep DEF IInv
<1>3. InOrder => NoStepPassedOver
  BY DEF InOrder
<1> QED
  BY <1>1, <1>2, <1>3, Invariant, PTL DEF Spec
=============================================================================
