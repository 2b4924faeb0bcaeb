------------------------------ MODULE RpcProofs ------------------------------
(***************************************************************************)
(* Proofs about the two ends of the JSON-RPC connection.                   *)
(*                                                                         *)
(* RpcServer, for any connections, any lines their clients send and any    *)
(* limits: its types, that a connection has one reader, that the callbacks *)
(* of an agent follow the runs on it, that a cancel hits the runs it was   *)
(* meant for and no later one, how tokens can go astray, and that a client *)
(* that hangs up is not forgotten.                                         *)
(*                                                                         *)
(* Terminal, for any number of tasks and of progress lines: its types,     *)
(* that an interrupt is heard after one more step at the most, and that    *)
(* the message of a task nothing disturbed shows what the task reported.   *)
(***************************************************************************)
EXTENDS RpcServer, Terminal, FiniteSetTheorems, SequenceTheorems, TLAPS

(***************************************************************************)
(* The server.                                                             *)
(***************************************************************************)

\* A connection is "running" because of one run that has no answer yet, and
\* only then does read_cancel wait for a line.
OneRunEach ==
  /\ \A c \in Conns : watch[c] => serve[c] = "running"
  /\ \A c \in Conns : serve[c] = "running" => \E r \in Run : runs[r].conn = c /\ IsActive(r)
  /\ \A r \in Run : IsActive(r) => serve[runs[r].conn] = "running"
  /\ \A r, q \in Run : IsActive(r) /\ IsActive(q) /\ runs[r].conn = runs[q].conn => r = q

\* The runs on an agent that began before run r.
Before(a, r) == {q \in Active(a) : q < r}

\* Callbacks that notify the runs of S, tokens going to the newest of them.
Follow(step, stream, S) ==
  /\ step = S
  /\ stream \in S \cup {Nobody}
  /\ \A q \in S : q <= stream

\* On an agent where every run ended before the earlier ones, what its runs
\* have saved forms a stack: each has the callbacks of those before it.
Stacked ==
  \A a \in 1..Len(agents) : a \notin crossed =>
    /\ Follow(agents[a].onStep, agents[a].onStream, Active(a))
    /\ \A r \in Active(a) : Follow(runs[r].oldStep, runs[r].oldStream, Before(a, r))

\* While the signal is set every active run has been cancelled, it is set for
\* every run a cancel was meant for, and only cancelled runs were interrupted.
SignalIsMeant ==
  /\ signal => \A r \in Run : IsActive(r) => runs[r].cancelled
  /\ \A r \in due : signal /\ IsActive(r)
  /\ \A r \in Run : runs[r].interrupted => runs[r].cancelled

IInv == TypeOK /\ OneRunEach /\ Stacked /\ SignalIsMeant

-----------------------------------------------------------------------------
(* What the steps of a run do.                                             *)

\* A run goes on without an answer: it keeps what it has saved, is interrupted
\* only by the signal, and enters no round under it.
Advanced(r, run) ==
  /\ IsActive(r)
  /\ run \in RunType
  /\ run.conn = runs[r].conn /\ run.agent = runs[r].agent
  /\ run.oldStep = runs[r].oldStep /\ run.oldStream = runs[r].oldStream
  /\ run.cancelled = runs[r].cancelled
  /\ run.at # "answered"
  /\ run.interrupted => runs[r].interrupted \/ signal
  /\ signal => run.at # "call"

\* The agents keep their callbacks.
SameCallbacks ==
  /\ agents' \in Seq(AgentType)
  /\ Len(agents') = Len(agents)
  /\ \A a \in 1..Len(agents) :
       agents'[a].onStep = agents[a].onStep /\ agents'[a].onStream = agents[a].onStream

\* A run that is active has its fields.
LEMMA RunHasType ==
  ASSUME TypeOK, NEW r \in Run
  PROVE  runs[r] \in RunType /\ runs[r].agent \in 1..Len(agents) /\ Agent(r) \in AgentType
<1>1. runs \in Seq(RunType) /\ r \in 1..Len(runs) /\ runs[r].agent \in 1..Len(agents)
  BY DEF TypeOK, Run
<1>2. agents \in Seq(AgentType)
  BY DEF TypeOK
<1> QED
  BY <1>1, <1>2 DEF Agent

\* A round is begun only with the signal unset.
LEMMA EnterType ==
  ASSUME signal \in BOOLEAN, NEW run \in RunType, run.round < MaxRounds
  PROVE  /\ Enter(run) \in RunType
         /\ Enter(run) = [run EXCEPT !.at = Enter(run).at, !.interrupted = Enter(run).interrupted, !.round = Enter(run).round]
         /\ Enter(run).at \in {"work", "call"}
         /\ Enter(run).interrupted => run.interrupted \/ signal
         /\ signal => Enter(run).at = "work"
<1>1. run.round + 1 \in 0..MaxRounds
  BY LimitsAssumption DEF RunType
<1>2. CASE signal
  BY <1>2 DEF Enter, RunType
<1>3. CASE ~signal
  BY <1>1, <1>3 DEF Enter, RunType
<1> QED
  BY <1>2, <1>3

\* Which of its tokens went astray is remembered of runs.
LEMMA StreamedType ==
  ASSUME TypeOK, NEW r \in Run, NEW to, Streamed(r, to)
  PROVE  astray' \subseteq Run
BY DEF Streamed, TypeOK

\* A run that goes on changes neither its connection nor the callbacks.
LEMMA AdvanceStep ==
  ASSUME TypeOK, NEW r \in Run,
         Planned(r) \/ DirectStep(r) \/ DelegatedStep(r)
           \/ CallTools(r) \/ CallAnswers(r) \/ WorkDone(r)
  PROVE  /\ \E run : Advanced(r, run) /\ runs' = Set(r, run)
         /\ SameCallbacks
         /\ astray' \subseteq Run
         /\ UNCHANGED <<connVars, signal, current, due, mixed, crossed>>
<1>1. runs[r] \in RunType /\ runs[r].agent \in 1..Len(agents) /\ Agent(r) \in AgentType
  BY RunHasType
<1>2. signal \in BOOLEAN /\ agents \in Seq(AgentType) /\ astray \subseteq Run
  BY DEF TypeOK
<1>3. UNCHANGED agents => SameCallbacks
  BY <1>2 DEF SameCallbacks
<1>4. MaxSteps \in Nat /\ MaxRounds \in Nat /\ 0 < MaxRounds
  BY LimitsAssumption
<1>5. ASSUME NEW at \in {"steps", "work"}, NEW i \in BOOLEAN, IsActive(r),
             i => runs[r].interrupted \/ signal
      PROVE  Advanced(r, [runs[r] EXCEPT !.at = at, !.interrupted = i])
  BY <1>1, <1>5 DEF Advanced, RunType
<1>6. ASSUME NEW at \in {"steps", "work"}, IsActive(r)
      PROVE  Advanced(r, [runs[r] EXCEPT !.at = at])
  BY <1>1, <1>6 DEF Advanced, RunType
<1>7. ASSUME NEW s \in 0..MaxSteps, NEW k \in 0..MaxRounds, k < MaxRounds, IsActive(r)
      PROVE  Advanced(r, Enter([runs[r] EXCEPT !.steps = s, !.round = k]))
  <2> DEFINE run == [runs[r] EXCEPT !.steps = s, !.round = k]
  <2>0. run \in RunType /\ run.round = k
    BY <1>1, <1>7 DEF RunType
  <2>1. run.conn = runs[r].conn /\ run.agent = runs[r].agent /\ run.oldStep = runs[r].oldStep
        /\ run.oldStream = runs[r].oldStream /\ run.cancelled = runs[r].cancelled
        /\ run.interrupted = runs[r].interrupted
    BY <1>1, <1>7 DEF RunType
  <2> HIDE DEF run
  <2>2. /\ Enter(run) \in RunType
        /\ Enter(run) = [run EXCEPT !.at = Enter(run).at, !.interrupted = Enter(run).interrupted, !.round = Enter(run).round]
        /\ Enter(run).at \in {"work", "call"}
        /\ Enter(run).interrupted => run.interrupted \/ signal
        /\ signal => Enter(run).at = "work"
    BY <1>2, <1>7, <2>0, EnterType
  <2>3. Enter(run).conn = run.conn /\ Enter(run).agent = run.agent /\ Enter(run).oldStep = run.oldStep
        /\ Enter(run).oldStream = run.oldStream /\ Enter(run).cancelled = run.cancelled
    BY <2>0 DEF Enter, RunType
  <2>4. Advanced(r, Enter(run))
    BY <1>7, <2>1, <2>2, <2>3 DEF Advanced
  <2> QED
    BY <2>4 DEF run
<1>8. CASE Planned(r)
  BY <1>3, <1>2, <1>6, <1>8 DEF Planned, IsActive
<1>9. CASE DirectStep(r)
  <2>1. IsActive(r) /\ runs[r].steps + 1 \in 0..MaxSteps
    BY <1>1, <1>4, <1>9 DEF DirectStep, IsActive, RunType
  <2>2. 0 \in 0..MaxRounds
    BY <1>4
  <2>3. Advanced(r, Enter([runs[r] EXCEPT !.steps = runs[r].steps + 1, !.round = 0]))
    BY <1>4, <1>7, <2>1, <2>2
  <2>4. SameCallbacks
    <3>1. CASE Agent(r).captured = NotMade
      <4>1. Agent(r).onStream \in Nat
        BY <1>1 DEF AgentType
      <4>2. [Agent(r) EXCEPT !.captured = Agent(r).onStream] \in AgentType
        BY <1>1, <4>1 DEF AgentType
      <4>3. agents' = [agents EXCEPT ![runs[r].agent] = [Agent(r) EXCEPT !.captured = Agent(r).onStream]]
        BY <1>9, <3>1 DEF DirectStep, Agent
      <4>4. agents' \in Seq(AgentType) /\ Len(agents') = Len(agents)
        BY <1>1, <1>2, <4>2, <4>3
      <4> QED
        BY <1>1, <1>2, <4>3, <4>4 DEF SameCallbacks, AgentType, Agent
    <3>2. CASE Agent(r).captured # NotMade
      BY <1>3, <1>9, <3>2 DEF DirectStep
    <3> QED
      BY <3>1, <3>2
  <2> QED
    BY <1>2, <1>9, <2>3, <2>4 DEF DirectStep
<1>10. CASE DelegatedStep(r)
  <2>1. IsActive(r) /\ runs[r].steps + 1 \in 0..MaxSteps
    BY <1>1, <1>4, <1>10 DEF DelegatedStep, IsActive, RunType
  <2>2. Advanced(r, [runs[r] EXCEPT !.at = "work", !.steps = runs[r].steps + 1])
    BY <1>1, <2>1 DEF Advanced, RunType
  <2> QED
    BY <1>2, <1>3, <1>10, <2>2 DEF DelegatedStep
<1>11. CASE CallTools(r)
  <2>1. IsActive(r) /\ astray' \subseteq Run
    BY <1>11, StreamedType DEF CallTools, IsActive
  <2>2. \E run : Advanced(r, run) /\ runs' = Set(r, run)
    <3>1. CASE RoundsLeft(runs[r]) /\ runs' = Set(r, Enter(runs[r]))
      <4>1. runs[r] = [runs[r] EXCEPT !.steps = runs[r].steps, !.round = runs[r].round]
        BY <1>1 DEF RunType
      <4>2. runs[r].steps \in 0..MaxSteps /\ runs[r].round \in 0..MaxRounds
        BY <1>1 DEF RunType
      <4> QED
        BY <1>7, <2>1, <3>1, <4>1, <4>2 DEF RoundsLeft
    <3>2. CASE runs' = Set(r, [runs[r] EXCEPT !.at = "steps"])
      BY <1>6, <2>1, <3>2
    <3> QED
      BY <1>11, <3>1, <3>2 DEF CallTools
  <2> QED
    BY <1>3, <1>11, <2>1, <2>2 DEF CallTools
<1>12. CASE CallAnswers(r)
  <2>1. IsActive(r) /\ astray' \subseteq Run
    BY <1>12, StreamedType DEF CallAnswers, IsActive
  <2>2. \E run : Advanced(r, run) /\ runs' = Set(r, run)
    <3>1. CASE signal
      BY <1>5, <1>12, <2>1, <3>1 DEF CallAnswers
    <3>2. CASE ~signal
      BY <1>6, <1>12, <2>1, <3>2 DEF CallAnswers
    <3> QED
      BY <3>1, <3>2
  <2> QED
    BY <1>3, <1>12, <2>1, <2>2 DEF CallAnswers
<1>13. CASE WorkDone(r)
  BY <1>2, <1>3, <1>6, <1>13 DEF WorkDone, AfterWork, IsActive
<1> QED
  BY <1>8, <1>9, <1>10, <1>11, <1>12, <1>13

-----------------------------------------------------------------------------
(* Types.                                                                  *)

\* The initial state has the types.
LEMMA TypeInit == Init => TypeOK
<1> SUFFICES ASSUME Init PROVE TypeOK
  OBVIOUS
<1>1. inbox \in [Conns -> Seq(AllKinds)]
  BY WorkloadsAssumption DEF Init
<1>2. agents \in Seq(AgentType) /\ Len(agents) = 0 /\ runs \in Seq(RunType) /\ Run = {}
  BY DEF Init, Run
<1>3. serve \in [Conns -> {"reading", "running", "closed"}] /\ watch \in [Conns -> BOOLEAN]
  BY DEF Init
<1>4. signal \in BOOLEAN
  BY DEF Init
<1>5. current \in 0..Len(agents)
  BY <1>2 DEF Init
<1> QED
  BY <1>1, <1>2, <1>3, <1>4, <1>5 DEF Init, TypeOK

\* Reading a line leaves lines.
LEMMA ConsumedType ==
  ASSUME TypeOK, NEW c \in Conns, inbox[c] # <<>>
  PROVE  Consumed(c) \in [Conns -> Seq(AllKinds)]
<1>1. inbox \in [Conns -> Seq(AllKinds)]
  BY DEF TypeOK
<1>2. Tail(inbox[c]) \in Seq(AllKinds)
  BY <1>1
<1> QED
  BY <1>1, <1>2 DEF Consumed

\* A step that reads, or streams, and touches neither runs nor agents.
Reading ==
  /\ inbox' \in [Conns -> Seq(AllKinds)]
  /\ watch' \in [Conns -> BOOLEAN]
  /\ \A c \in Conns : watch'[c] => watch[c]
  /\ \/ UNCHANGED serve
     \/ \E c \in Conns : serve[c] = "reading" /\ serve' = [serve EXCEPT ![c] = "closed"]
  /\ current' \in 0..Len(agents)
  /\ astray' \subseteq Run
  /\ UNCHANGED <<signal, agents, runs, due, mixed, crossed>>

\* These steps of a connection, and the streaming of a plan, are such steps.
LEMMA ReadingStep ==
  ASSUME TypeOK,
         \/ \E c \in Conns : Answer(c) \/ Break(c) \/ Close(c) \/ Switch(c)
                              \/ WatchOther(c) \/ WatchEof(c)
         \/ \E r \in Run : StreamPlan(r)
         \/ UNCHANGED vars
  PROVE  Reading
<1> USE DEF connVars, agentVars
<1>1. /\ inbox \in [Conns -> Seq(AllKinds)] /\ watch \in [Conns -> BOOLEAN]
      /\ current \in 0..Len(agents) /\ 0 \in 0..Len(agents)
      /\ astray \subseteq Run
  BY DEF TypeOK
<1>2. ASSUME NEW c \in Conns, Answer(c) \/ Switch(c) \/ Break(c)
      PROVE  Reading
  <2>1. inbox' \in [Conns -> Seq(AllKinds)]
    BY <1>2, ConsumedType DEF Answer, Switch, Break, Reads
  <2> QED
    BY <1>1, <1>2, <2>1 DEF Answer, Switch, Break, Reading, Reads
<1>3. ASSUME NEW c \in Conns, Close(c) PROVE Reading
  BY <1>1, <1>3 DEF Close, Reading, Reads
<1>4. ASSUME NEW c \in Conns, WatchOther(c) PROVE Reading
  <2>1. inbox' \in [Conns -> Seq(AllKinds)]
    BY <1>4, ConsumedType DEF WatchOther
  <2> QED
    BY <1>1, <1>4, <2>1 DEF WatchOther, Reading
<1>5. ASSUME NEW c \in Conns, WatchEof(c) PROVE Reading
  BY <1>1, <1>5 DEF WatchEof, Reading
<1>6. ASSUME NEW r \in Run, StreamPlan(r) PROVE Reading
  BY <1>1, <1>6, StreamedType DEF StreamPlan, Reading
<1>7. CASE UNCHANGED vars
  BY <1>1, <1>7 DEF vars, Reading
<1> QED
  BY <1>2, <1>3, <1>4, <1>5, <1>6, <1>7

\* A cancel marks the active runs and leaves everything else of them.
Cancelling ==
  /\ Trigger
  /\ inbox' \in [Conns -> Seq(AllKinds)]
  /\ watch' \in [Conns -> BOOLEAN]
  /\ \A c \in Conns : watch'[c] => watch[c]
  /\ UNCHANGED <<serve, current, agents, astray, mixed, crossed>>

\* Both ways to cancel.
LEMMA CancellingStep ==
  ASSUME TypeOK, NEW c \in Conns, Cancel(c) \/ WatchCancel(c)
  PROVE  Cancelling
<1>1. inbox' \in [Conns -> Seq(AllKinds)]
  BY ConsumedType DEF Cancel, WatchCancel, Reads
<1> QED
  BY <1>1 DEF Cancel, WatchCancel, Cancelling, TypeOK

\* What a cancel does to the runs.
LEMMA TriggerRuns ==
  ASSUME TypeOK, Trigger
  PROVE  /\ runs' \in Seq(RunType) /\ Run' = Run
         /\ \A r \in Run :
              /\ runs'[r] = [runs[r] EXCEPT !.cancelled = runs[r].cancelled \/ IsActive(r)]
              /\ runs'[r].conn = runs[r].conn /\ runs'[r].agent = runs[r].agent
              /\ runs'[r].at = runs[r].at /\ runs'[r].round = runs[r].round
              /\ runs'[r].oldStep = runs[r].oldStep /\ runs'[r].oldStream = runs[r].oldStream
              /\ runs'[r].interrupted = runs[r].interrupted
              /\ runs'[r].cancelled <=> runs[r].cancelled \/ IsActive(r)
<1>1. runs \in Seq(RunType) /\ Run = 1..Len(runs) /\ Len(runs) \in Nat
  BY DEF TypeOK, Run
<1>2. \A r \in Run : runs[r] \in RunType
  BY <1>1
<1>3. \A r \in Run : [runs[r] EXCEPT !.cancelled = runs[r].cancelled \/ IsActive(r)] \in RunType
  BY <1>2 DEF RunType, IsActive
<1> DEFINE marked(r) == [runs[r] EXCEPT !.cancelled = runs[r].cancelled \/ IsActive(r)]
<1>4. runs' = [r \in 1..Len(runs) |-> marked(r)] /\ \A r \in 1..Len(runs) : marked(r) \in RunType
  BY <1>1, <1>3 DEF Trigger
<1> HIDE DEF marked
<1>5. /\ runs' \in Seq(RunType) /\ Len(runs') = Len(runs)
      /\ \A r \in Run : runs'[r] = marked(r)
  BY <1>1, <1>4
<1>6. Run' = Run
  BY <1>1, <1>5 DEF Run
<1>7. \A r \in Run : runs'[r] = [runs[r] EXCEPT !.cancelled = runs[r].cancelled \/ IsActive(r)]
  BY <1>5 DEF marked
<1>8. ASSUME NEW r \in Run
      PROVE  /\ runs'[r].conn = runs[r].conn /\ runs'[r].agent = runs[r].agent
             /\ runs'[r].at = runs[r].at /\ runs'[r].round = runs[r].round
             /\ runs'[r].oldStep = runs[r].oldStep /\ runs'[r].oldStream = runs[r].oldStream
             /\ runs'[r].interrupted = runs[r].interrupted
             /\ runs'[r].cancelled <=> runs[r].cancelled \/ IsActive(r)
  <2>1. runs[r] \in RunType /\ runs'[r] = [runs[r] EXCEPT !.cancelled = runs[r].cancelled \/ IsActive(r)]
    BY <1>2, <1>7
  <2> QED
    BY <2>1 DEF RunType
<1> QED
  BY <1>5, <1>6, <1>7, <1>8

\* The agents a request finds, and the one it takes.
LEMMA PoolType ==
  ASSUME TypeOK
  PROVE  /\ Pool \in Seq(AgentType)
         /\ Chosen \in 1..Len(Pool)
         /\ Len(agents) \in Nat /\ Len(Pool) \in Nat /\ Len(agents) <= Len(Pool)
         /\ \A a \in 1..Len(agents) : Pool[a] = agents[a]
         /\ \A a \in 1..Len(Pool) : a \notin 1..Len(agents) => a = Chosen /\ Pool[a] = NewAgent
<1>1. agents \in Seq(AgentType) /\ Len(agents) \in Nat /\ current \in 0..Len(agents)
  BY DEF TypeOK
<1>2. NewAgent \in AgentType
  BY DEF NewAgent, AgentType, Nobody, NotMade
<1>3. CASE current = 0
  <2>1. Pool = Append(agents, NewAgent) /\ Chosen = Len(agents) + 1
    BY <1>3 DEF Pool, Chosen
  <2>2. Pool \in Seq(AgentType) /\ Len(Pool) = Len(agents) + 1
    BY <1>1, <1>2, <2>1
  <2>3. /\ \A a \in 1..Len(agents) : Pool[a] = agents[a]
        /\ Pool[Len(agents) + 1] = NewAgent
    BY <1>1, <2>1
  <2> QED
    BY <1>1, <2>1, <2>2, <2>3
<1>4. CASE current # 0
  BY <1>1, <1>4 DEF Pool, Chosen
<1> QED
  BY <1>3, <1>4

\* What a run that begins is, and what it leaves in its agent.
LEMMA StartStep ==
  ASSUME TypeOK, NEW c \in Conns, StartRun(c)
  PROVE  /\ NewRun(c) \in RunType
         /\ runs' \in Seq(RunType) /\ Len(runs') = Len(runs) + 1
         /\ Run' = Run \cup {Len(runs) + 1} /\ Len(runs) + 1 \notin Run
         /\ \A r \in Run : r < Len(runs) + 1 /\ r \in Nat
         /\ \A r \in Run : runs'[r] = runs[r]
         /\ runs'[Len(runs) + 1] = NewRun(c)
         /\ agents' \in Seq(AgentType) /\ Len(agents') = Len(Pool)
         /\ \A a \in 1..Len(Pool) : a # Chosen => agents'[a] = Pool[a]
         /\ agents'[Chosen] = Installed(Pool[Chosen], Len(runs) + 1)
         /\ Installed(Pool[Chosen], Len(runs) + 1).onStep = Pool[Chosen].onStep \cup {Len(runs) + 1}
         /\ Installed(Pool[Chosen], Len(runs) + 1).onStream = Len(runs) + 1
<1>1. runs \in Seq(RunType) /\ Len(runs) \in Nat /\ runs' = Append(runs, NewRun(c))
  BY DEF TypeOK, StartRun
<1>2. Pool \in Seq(AgentType) /\ Chosen \in 1..Len(Pool) /\ Len(Pool) \in Nat
  BY PoolType
<1>3. Pool[Chosen] \in AgentType
  BY <1>2
<1>4. NewRun(c) \in RunType
  BY <1>2, <1>3, LimitsAssumption DEF NewRun, RunType, AgentType
<1>5. /\ runs' \in Seq(RunType) /\ Len(runs') = Len(runs) + 1
      /\ \A r \in 1..Len(runs) : runs'[r] = runs[r]
      /\ runs'[Len(runs) + 1] = NewRun(c)
  BY <1>1, <1>4
<1>6. /\ Run' = Run \cup {Len(runs) + 1} /\ Len(runs) + 1 \notin Run
      /\ \A r \in Run : r < Len(runs) + 1 /\ r \in Nat
  BY <1>1, <1>5 DEF Run
<1>7. agents' = [Pool EXCEPT ![Chosen] = Installed(Pool[Chosen], Len(runs) + 1)]
  BY DEF StartRun
<1>8. /\ Installed(Pool[Chosen], Len(runs) + 1) \in AgentType
      /\ Installed(Pool[Chosen], Len(runs) + 1).onStep = Pool[Chosen].onStep \cup {Len(runs) + 1}
      /\ Installed(Pool[Chosen], Len(runs) + 1).onStream = Len(runs) + 1
  <2>1. Len(runs) + 1 \in Nat /\ Pool[Chosen].onStep \cup {Len(runs) + 1} \in SUBSET Nat
    BY <1>1, <1>3 DEF AgentType
  <2> QED
    BY <1>3, <2>1 DEF AgentType, Installed
<1>9. /\ agents' \in Seq(AgentType) /\ Len(agents') = Len(Pool)
      /\ \A a \in 1..Len(Pool) : a # Chosen => agents'[a] = Pool[a]
      /\ agents'[Chosen] = Installed(Pool[Chosen], Len(runs) + 1)
  <2> DEFINE new == Installed(Pool[Chosen], Len(runs) + 1)
  <2>1. new \in AgentType /\ agents' = [Pool EXCEPT ![Chosen] = new]
    BY <1>7, <1>8
  <2> HIDE DEF new
  <2>2. /\ agents' \in Seq(AgentType) /\ Len(agents') = Len(Pool)
        /\ \A a \in 1..Len(Pool) : a # Chosen => agents'[a] = Pool[a]
        /\ agents'[Chosen] = new
    BY <1>2, <2>1
  <2> QED
    BY <2>2 DEF new
<1> QED
  BY <1>4, <1>5, <1>6, <1>8, <1>9 DEF Run

\* A run that ends leaves its agent with the callbacks it had saved.
LEMMA EndStep ==
  ASSUME TypeOK, NEW r \in Run, EndRun(r)
  PROVE  /\ IsActive(r)
         /\ runs' \in Seq(RunType) /\ Run' = Run
         /\ runs'[r].at = "answered" /\ runs'[r].agent = runs[r].agent /\ runs'[r].conn = runs[r].conn
         /\ runs'[r].interrupted = runs[r].interrupted /\ runs'[r].cancelled = runs[r].cancelled
         /\ \A q \in Run : q # r => runs'[q] = runs[q]
         /\ agents' \in Seq(AgentType) /\ Len(agents') = Len(agents)
         /\ \A a \in 1..Len(agents) : a # runs[r].agent => agents'[a] = agents[a]
         /\ agents'[runs[r].agent].onStep = runs[r].oldStep
         /\ agents'[runs[r].agent].onStream = runs[r].oldStream
<1>1. runs[r] \in RunType /\ runs[r].agent \in 1..Len(agents) /\ Agent(r) \in AgentType
  BY RunHasType
<1>2. runs \in Seq(RunType) /\ agents \in Seq(AgentType) /\ Run = 1..Len(runs)
  BY DEF TypeOK, Run
<1> DEFINE done == [runs[r] EXCEPT !.at = "answered", !.steps = 0, !.round = 0,
                                   !.oldStep = {}, !.oldStream = Nobody]
<1>3. 0 \in 0..MaxSteps /\ 0 \in 0..MaxRounds
  BY LimitsAssumption
<1>4. /\ done \in RunType /\ done.at = "answered" /\ done.agent = runs[r].agent
      /\ done.conn = runs[r].conn
      /\ done.interrupted = runs[r].interrupted /\ done.cancelled = runs[r].cancelled
  BY <1>1, <1>3 DEF RunType, Nobody
<1>5. runs' = [runs EXCEPT ![r] = done]
  BY DEF EndRun, Set
<1> HIDE DEF done
<1>6. runs' \in Seq(RunType) /\ Len(runs') = Len(runs) /\ runs'[r] = done
      /\ \A q \in Run : q # r => runs'[q] = runs[q]
  BY <1>2, <1>4, <1>5
<1>7. Restored(r) \in AgentType /\ Restored(r).onStep = runs[r].oldStep
      /\ Restored(r).onStream = runs[r].oldStream
  BY <1>1 DEF Restored, AgentType, RunType
<1>8. agents' = [agents EXCEPT ![runs[r].agent] = Restored(r)]
  BY DEF EndRun
<1>9. agents' \in Seq(AgentType) /\ Len(agents') = Len(agents)
      /\ agents'[runs[r].agent] = Restored(r)
      /\ \A a \in 1..Len(agents) : a # runs[r].agent => agents'[a] = agents[a]
  BY <1>1, <1>2, <1>7, <1>8
<1>10. IsActive(r)
  BY DEF EndRun, IsActive
<1> QED
  BY <1>2, <1>4, <1>6, <1>7, <1>9, <1>10 DEF Run

\* What an advanced run does to the list of runs.
LEMMA AdvancedRuns ==
  ASSUME TypeOK, NEW r \in Run, NEW run, Advanced(r, run), runs' = Set(r, run)
  PROVE  /\ runs' \in Seq(RunType) /\ Run' = Run
         /\ runs'[r] = run
         /\ \A q \in Run : q # r => runs'[q] = runs[q]
         /\ \A q \in Run : IsActive(q)' <=> IsActive(q)
         /\ \A a : Active(a)' = Active(a)
         /\ \A q \in Run : /\ runs'[q].conn = runs[q].conn /\ runs'[q].agent = runs[q].agent
                           /\ runs'[q].oldStep = runs[q].oldStep /\ runs'[q].oldStream = runs[q].oldStream
                           /\ runs'[q].cancelled = runs[q].cancelled
                           /\ runs'[q].interrupted => runs[q].interrupted \/ (signal /\ IsActive(q))
<1>1. runs \in Seq(RunType) /\ Run = 1..Len(runs) /\ run \in RunType
  BY DEF TypeOK, Run, Advanced
<1>2. runs' = [runs EXCEPT ![r] = run]
  BY DEF Set
<1>3. runs' \in Seq(RunType) /\ Len(runs') = Len(runs) /\ runs'[r] = run
      /\ \A q \in Run : q # r => runs'[q] = runs[q]
  BY <1>1, <1>2
<1>4. Run' = Run
  BY <1>1, <1>3 DEF Run
<1>5. \A q \in Run : IsActive(q)' <=> IsActive(q)
  BY <1>3 DEF IsActive, Advanced
<1>6. \A q \in Run : runs'[q].conn = runs[q].conn /\ runs'[q].agent = runs[q].agent
  BY <1>3 DEF Advanced
<1>7. \A a : Active(a)' = Active(a)
  BY <1>4, <1>5, <1>6 DEF Active, IsActive
<1> QED
  BY <1>3, <1>4, <1>5, <1>6, <1>7 DEF Advanced

\* Every step keeps the types.
LEMMA TypeStep == TypeOK /\ [Next]_vars => TypeOK'
<1> SUFFICES ASSUME TypeOK, [Next]_vars PROVE TypeOK'
  OBVIOUS
<1>1. /\ watch \in [Conns -> BOOLEAN] /\ serve \in [Conns -> {"reading", "running", "closed"}]
      /\ signal \in BOOLEAN /\ current \in 0..Len(agents) /\ agents \in Seq(AgentType)
      /\ inbox \in [Conns -> Seq(AllKinds)] /\ runs \in Seq(RunType)
      /\ \A r \in Run : runs[r].agent \in 1..Len(agents)
      /\ due \subseteq Run /\ astray \subseteq Run
      /\ mixed \subseteq 1..Len(agents) /\ crossed \subseteq 1..Len(agents)
  BY DEF TypeOK
<1>2. CASE Reading
  BY <1>1, <1>2 DEF Reading, TypeOK, Run
<1>3. CASE Cancelling
  <2>1. runs' \in Seq(RunType) /\ Run' = Run /\ \A r \in Run : runs'[r].agent = runs[r].agent
    BY <1>3, TriggerRuns DEF Cancelling
  <2> QED
    BY <1>1, <1>3, <2>1 DEF Cancelling, Trigger, TypeOK
<1>4. ASSUME NEW c \in Conns, StartRun(c) PROVE TypeOK'
  <2>1. inbox' \in [Conns -> Seq(AllKinds)]
    BY <1>4, ConsumedType DEF StartRun, Reads
  <2>2. /\ runs' \in Seq(RunType) /\ Run' = Run \cup {Len(runs) + 1}
        /\ \A r \in Run : runs'[r] = runs[r]
        /\ runs'[Len(runs) + 1] = NewRun(c)
        /\ agents' \in Seq(AgentType) /\ Len(agents') = Len(Pool)
    BY <1>4, StartStep
  <2>3. Chosen \in 1..Len(Pool) /\ 1..Len(agents) \subseteq 1..Len(Pool) /\ Chosen \in 0..Len(Pool)
    BY PoolType
  <2>4. \A r \in Run' : runs'[r].agent \in 1..Len(agents')
    BY <1>1, <2>2, <2>3 DEF NewRun
  <2>5. mixed' \subseteq 1..Len(agents') /\ crossed' \subseteq 1..Len(agents')
        /\ astray' \subseteq Run' /\ due' \subseteq Run'
    BY <1>1, <1>4, <2>2, <2>3 DEF StartRun
  <2>6. /\ watch' \in [Conns -> BOOLEAN] /\ serve' \in [Conns -> {"reading", "running", "closed"}]
        /\ signal' \in BOOLEAN /\ current' \in 0..Len(agents')
    BY <1>1, <1>4, <2>2, <2>3 DEF StartRun, Cleared
  <2> QED
    BY <2>1, <2>2, <2>4, <2>5, <2>6 DEF TypeOK
<1>5. ASSUME NEW r \in Run, EndRun(r) PROVE TypeOK'
  <2>1. /\ runs' \in Seq(RunType) /\ Run' = Run
        /\ agents' \in Seq(AgentType) /\ Len(agents') = Len(agents)
        /\ \A q \in Run : runs'[q].agent = runs[q].agent
    BY <1>5, EndStep
  <2>2. runs[r].agent \in 1..Len(agents)
    BY <1>1
  <2> QED
    BY <1>1, <1>5, <2>1, <2>2 DEF EndRun, TypeOK, WatchersLeft, AfterRun
<1>6. ASSUME NEW r \in Run, Planned(r) \/ DirectStep(r) \/ DelegatedStep(r)
                              \/ CallTools(r) \/ CallAnswers(r) \/ WorkDone(r)
      PROVE  TypeOK'
  <2>1. PICK run : Advanced(r, run) /\ runs' = Set(r, run)
    BY <1>6, AdvanceStep
  <2>2. SameCallbacks /\ astray' \subseteq Run
        /\ UNCHANGED <<connVars, signal, current, due, mixed, crossed>>
    BY <1>6, AdvanceStep
  <2>3. runs' \in Seq(RunType) /\ Run' = Run /\ \A q \in Run : runs'[q].agent = runs[q].agent
    BY <2>1, AdvancedRuns
  <2> QED
    BY <1>1, <2>2, <2>3 DEF SameCallbacks, connVars, TypeOK
<1> QED
  BY <1>2, <1>3, <1>4, <1>5, <1>6, ReadingStep, CancellingStep
     DEF Next, MainLoop, Watcher, Progress, Stopped

\* Every variable of the server has its type.
THEOREM TypeCorrect == Spec => []TypeOK
BY TypeInit, TypeStep, PTL DEF Spec

-----------------------------------------------------------------------------
(* One reader per connection.                                              *)

\* Nothing is active at the start.
LEMMA ReadersInit == Init => OneRunEach
BY DEF Init, OneRunEach, Run

\* Reading and cancelling start and end no run.
LEMMA ReadersKeep ==
  ASSUME TypeOK, OneRunEach, Reading \/ Cancelling
  PROVE  OneRunEach'
<1>1. /\ Run' = Run
      /\ \A r \in Run : (IsActive(r)' <=> IsActive(r)) /\ runs'[r].conn = runs[r].conn
  <2>1. CASE Reading
    BY <2>1 DEF Reading, Run, IsActive
  <2>2. CASE Cancelling
    BY <2>2, TriggerRuns DEF Cancelling, IsActive
  <2> QED
    BY <2>1, <2>2
<1>2. \A c \in Conns : watch'[c] => watch[c]
  BY DEF Reading, Cancelling
<1>3. \A r \in Run : runs[r].conn \in Conns
  BY RunHasType DEF RunType
<1>4. serve \in [Conns -> {"reading", "running", "closed"}]
  BY DEF TypeOK
<1>5. \A c \in Conns : serve'[c] = serve[c] \/ (serve[c] = "reading" /\ serve'[c] = "closed")
  BY <1>4 DEF Reading, Cancelling
<1>6. \A c \in Conns : watch'[c] => serve'[c] = "running"
  BY <1>2, <1>5 DEF OneRunEach
<1>7. \A c \in Conns : serve'[c] = "running" => \E r \in Run' : runs'[r].conn = c /\ IsActive(r)'
  BY <1>1, <1>5 DEF OneRunEach
<1>8. \A r \in Run' : IsActive(r)' => serve'[runs'[r].conn] = "running"
  BY <1>1, <1>3, <1>5 DEF OneRunEach
<1>9. \A r, q \in Run' : IsActive(r)' /\ IsActive(q)' /\ runs'[r].conn = runs'[q].conn => r = q
  BY <1>1 DEF OneRunEach
<1> QED
  BY <1>6, <1>7, <1>8, <1>9 DEF OneRunEach

\* A run begins on a connection that has none.
LEMMA ReadersStart ==
  ASSUME TypeOK, OneRunEach, NEW c \in Conns, StartRun(c)
  PROVE  OneRunEach'
<1>0. PICK k : k = Len(runs) + 1
  OBVIOUS
<1>1. /\ Run' = Run \cup {k} /\ k \notin Run
      /\ \A r \in Run : runs'[r] = runs[r]
      /\ runs'[k] = NewRun(c)
  BY <1>0, StartStep
<1>2. runs'[k].conn = c /\ runs'[k].at = "plan"
  BY <1>1 DEF NewRun
<1>3. IsActive(k)' /\ \A r \in Run : IsActive(r)' <=> IsActive(r)
  BY <1>1, <1>2 DEF IsActive
<1>4. \A r \in Run : runs[r].conn \in Conns
  BY RunHasType DEF RunType
<1>5. /\ serve[c] = "reading" /\ serve'[c] = "running" /\ watch'[c]
      /\ \A d \in Conns : d # c => serve'[d] = serve[d] /\ watch'[d] = watch[d]
  BY DEF StartRun, Reads, TypeOK
<1>6. \A r \in Run : IsActive(r) => runs[r].conn # c
  BY <1>5 DEF OneRunEach
<1>7. \A d \in Conns : watch'[d] => serve'[d] = "running"
  BY <1>5 DEF OneRunEach
<1>8. \A d \in Conns : serve'[d] = "running" => \E r \in Run' : runs'[r].conn = d /\ IsActive(r)'
  BY <1>1, <1>2, <1>3, <1>5 DEF OneRunEach
<1>9. \A r \in Run' : IsActive(r)' => serve'[runs'[r].conn] = "running"
  BY <1>1, <1>2, <1>3, <1>4, <1>5, <1>6 DEF OneRunEach
<1>10. \A r, q \in Run' : IsActive(r)' /\ IsActive(q)' /\ runs'[r].conn = runs'[q].conn => r = q
  BY <1>1, <1>2, <1>3, <1>6 DEF OneRunEach
<1> QED
  BY <1>7, <1>8, <1>9, <1>10 DEF OneRunEach

\* A run ends, and its connection reads on.
LEMMA ReadersEnd ==
  ASSUME TypeOK, OneRunEach, NEW r \in Run, EndRun(r)
  PROVE  OneRunEach'
<1>1. /\ IsActive(r) /\ Run' = Run
      /\ runs'[r].at = "answered" /\ runs'[r].conn = runs[r].conn
      /\ \A q \in Run : q # r => runs'[q] = runs[q]
  BY EndStep
<1>2. \A q \in Run : runs'[q].conn = runs[q].conn /\ (IsActive(q)' <=> IsActive(q) /\ q # r)
  BY <1>1 DEF IsActive
<1>3. \A q \in Run : runs[q].conn \in Conns
  BY RunHasType DEF RunType
<1>4. /\ serve'[runs[r].conn] = "reading" /\ ~watch'[runs[r].conn]
      /\ \A d \in Conns : d # runs[r].conn => serve'[d] = serve[d] /\ watch'[d] = watch[d]
  BY <1>3 DEF EndRun, WatchersLeft, TypeOK
<1>5. \A q \in Run : IsActive(q) /\ q # r => runs[q].conn # runs[r].conn
  BY <1>1 DEF OneRunEach
<1> QED
  BY <1>1, <1>2, <1>3, <1>4, <1>5 DEF OneRunEach

\* A run that goes on stays the one of its connection.
LEMMA ReadersAdvance ==
  ASSUME TypeOK, OneRunEach, NEW r \in Run, NEW run, Advanced(r, run), runs' = Set(r, run),
         UNCHANGED connVars
  PROVE  OneRunEach'
<1>1. /\ Run' = Run
      /\ \A q \in Run : (IsActive(q)' <=> IsActive(q)) /\ runs'[q].conn = runs[q].conn
  BY AdvancedRuns
<1> QED
  BY <1>1 DEF OneRunEach, connVars

-----------------------------------------------------------------------------
(* Callbacks.                                                              *)

\* There are no agents at the start.
LEMMA StackedInit == Init => Stacked
BY DEF Init, Stacked

\* Callbacks that nobody touches, of runs that stay active, stay stacked.
LEMMA StackedKeep ==
  ASSUME Stacked, Len(agents') = Len(agents), crossed \subseteq crossed',
         \A a \in 1..Len(agents) :
           agents'[a].onStep = agents[a].onStep /\ agents'[a].onStream = agents[a].onStream,
         \A a : Active(a)' = Active(a),
         \A r \in Run : runs'[r].oldStep = runs[r].oldStep /\ runs'[r].oldStream = runs[r].oldStream
  PROVE  Stacked'
<1>1. \A a, r : Before(a, r)' = Before(a, r) /\ Active(a) \subseteq Run
  BY DEF Before, Active
<1> SUFFICES ASSUME NEW a \in 1..Len(agents), a \notin crossed
             PROVE  /\ Follow(agents'[a].onStep, agents'[a].onStream, Active(a))
                    /\ \A r \in Active(a) : Follow(runs'[r].oldStep, runs'[r].oldStream, Before(a, r))
  BY <1>1 DEF Stacked
<1> QED
  BY <1>1 DEF Stacked

\* The same for steps that only read or cancel.
LEMMA StackedReading ==
  ASSUME TypeOK, Stacked, Reading \/ Cancelling
  PROVE  Stacked'
<1>1. CASE Reading
  BY <1>1, StackedKeep DEF Reading, Active, Run
<1>2. CASE Cancelling
  <2>1. /\ Run' = Run
        /\ \A r \in Run : /\ runs'[r].agent = runs[r].agent /\ runs'[r].at = runs[r].at
                          /\ runs'[r].oldStep = runs[r].oldStep /\ runs'[r].oldStream = runs[r].oldStream
    BY <1>2, TriggerRuns DEF Cancelling
  <2>2. \A a : Active(a)' = Active(a)
    BY <2>1 DEF Active
  <2> QED
    BY <1>2, <2>1, <2>2, StackedKeep DEF Cancelling
<1> QED
  BY <1>1, <1>2

\* A run that begins saves what the active ones of its agent have left.
LEMMA StackedStart ==
  ASSUME TypeOK, Stacked, NEW c \in Conns, StartRun(c)
  PROVE  Stacked'
<1>0. PICK k, ch : k = Len(runs) + 1 /\ ch = Chosen
  OBVIOUS
<1>1. /\ Run' = Run \cup {k} /\ k \notin Run
      /\ \A r \in Run : r < k /\ r \in Nat
      /\ \A r \in Run : runs'[r] = runs[r]
      /\ runs'[k] = NewRun(c)
      /\ Len(agents') = Len(Pool)
      /\ \A a \in 1..Len(Pool) : a # ch => agents'[a] = Pool[a]
      /\ agents'[ch].onStep = Pool[ch].onStep \cup {k}
      /\ agents'[ch].onStream = k
  BY <1>0, StartStep
<1>2. runs'[k].agent = ch /\ runs'[k].at = "plan"
      /\ runs'[k].oldStep = Pool[ch].onStep /\ runs'[k].oldStream = Pool[ch].onStream
  BY <1>0, <1>1 DEF NewRun
<1>3. k \in Nat
  BY <1>0 DEF TypeOK
<1>4. /\ ch \in 1..Len(Pool)
      /\ \A a \in 1..Len(agents) : Pool[a] = agents[a]
      /\ \A a \in 1..Len(Pool) : a \notin 1..Len(agents) => a = ch /\ Pool[a] = NewAgent
  BY <1>0, PoolType
<1>5. \A r \in Run : runs[r].agent \in 1..Len(agents)
  BY DEF TypeOK
<1>6. \A a \in 1..Len(Pool) : a \notin crossed => Follow(Pool[a].onStep, Pool[a].onStream, Active(a))
  <2> SUFFICES ASSUME NEW a \in 1..Len(Pool), a \notin crossed
               PROVE  Follow(Pool[a].onStep, Pool[a].onStream, Active(a))
    OBVIOUS
  <2>1. CASE a \in 1..Len(agents)
    BY <1>4, <2>1 DEF Stacked
  <2>2. CASE a \notin 1..Len(agents)
    <3>1. Active(a) = {}
      BY <1>5, <2>2 DEF Active
    <3> QED
      BY <1>4, <2>2, <3>1 DEF Follow, NewAgent
  <2> QED
    BY <2>1, <2>2
<1>7. \A a : Active(a) \subseteq Run /\ Active(a)' = IF a = ch THEN Active(a) \cup {k} ELSE Active(a)
  BY <1>1, <1>2 DEF Active
<1>8. \A a, r : r \in Active(a) => Before(a, r)' = Before(a, r) /\ r \in Run
  BY <1>1, <1>3, <1>7 DEF Before
<1>9. Before(ch, k)' = Active(ch)
  BY <1>1, <1>3, <1>7 DEF Before
<1>10. UNCHANGED crossed
  BY DEF StartRun
<1>11. ASSUME NEW a \in 1..Len(Pool), a \notin crossed, NEW r \in Active(a)
       PROVE  Follow(runs'[r].oldStep, runs'[r].oldStream, Before(a, r)')
  <2>1. a \in 1..Len(agents) /\ r \in Run
    BY <1>5, <1>11 DEF Active
  <2> QED
    BY <1>1, <1>8, <1>11, <2>1 DEF Stacked
<1>12. ASSUME NEW a \in 1..Len(Pool), a \notin crossed
       PROVE  /\ Follow(agents'[a].onStep, agents'[a].onStream, Active(a)')
              /\ \A r \in Active(a)' : Follow(runs'[r].oldStep, runs'[r].oldStream, Before(a, r)')
  <2>1. CASE a = ch
    <3>1. Follow(agents'[a].onStep, agents'[a].onStream, Active(a)')
      <4>1. agents'[a].onStep = Active(a)' /\ agents'[a].onStream = k /\ k \in Active(a)'
        BY <1>1, <1>6, <1>7, <1>12, <2>1 DEF Follow
      <4>2. \A q \in Active(a)' : q <= k
        BY <1>1, <1>3, <1>7
      <4> QED
        BY <4>1, <4>2 DEF Follow
    <3>2. Follow(runs'[k].oldStep, runs'[k].oldStream, Before(a, k)')
      BY <1>2, <1>6, <1>9, <1>12, <2>1
    <3> QED
      BY <1>7, <1>11, <1>12, <2>1, <3>1, <3>2
  <2>2. CASE a # ch
    BY <1>1, <1>6, <1>7, <1>11, <1>12, <2>2
  <2> QED
    BY <2>1, <2>2
<1> QED
  BY <1>1, <1>10, <1>12 DEF Stacked

\* A run that ends last-in first-out leaves what the earlier ones installed.
LEMMA StackedEnd ==
  ASSUME TypeOK, Stacked, NEW r \in Run, EndRun(r)
  PROVE  Stacked'
<1>1. /\ IsActive(r) /\ Run' = Run
      /\ runs'[r].at = "answered"
      /\ \A q \in Run : q # r => runs'[q] = runs[q]
      /\ Len(agents') = Len(agents)
      /\ \A a \in 1..Len(agents) : a # runs[r].agent => agents'[a] = agents[a]
      /\ agents'[runs[r].agent].onStep = runs[r].oldStep
      /\ agents'[runs[r].agent].onStream = runs[r].oldStream
  BY EndStep
<1>2. \A a : Active(a)' = Active(a) \ {r} /\ Active(a) \subseteq Run
  BY <1>1 DEF Active
<1>3. Run \subseteq Nat
  BY DEF Run, TypeOK
<1>4. crossed' = IF \E q \in Active(runs[r].agent) : q > r
                 THEN crossed \cup {runs[r].agent} ELSE crossed
  BY DEF EndRun
<1>5. ASSUME NEW a \in 1..Len(agents), a \notin crossed'
      PROVE  /\ Follow(agents'[a].onStep, agents'[a].onStream, Active(a)')
             /\ \A q \in Active(a)' : Follow(runs'[q].oldStep, runs'[q].oldStream, Before(a, q)')
  <2>1. a \notin crossed
    BY <1>4, <1>5
  <2>2. CASE a = runs[r].agent
    <3>1. r \in Active(a) /\ \A q \in Active(a) : ~(q > r)
      BY <1>1, <1>4, <1>5, <2>2 DEF Active, IsActive
    <3>0. \A q \in Active(a) : q < r <=> q # r
      BY <1>2, <1>3, <3>1
    <3>2. Before(a, r) = Active(a)'
      BY <1>2, <3>0 DEF Before
    <3>3. \A q \in Active(a)' : Before(a, q)' = Before(a, q)
      BY <1>2, <1>3, <3>1 DEF Before
    <3> QED
      BY <1>1, <1>2, <2>1, <2>2, <3>1, <3>2, <3>3 DEF Stacked
  <2>3. CASE a # runs[r].agent
    <3>1. r \notin Active(a)
      BY <2>3 DEF Active
    <3>2. Active(a)' = Active(a) /\ \A q : Before(a, q)' = Before(a, q)
      BY <1>2, <3>1 DEF Before
    <3> QED
      BY <1>1, <1>2, <2>1, <2>3, <3>1, <3>2 DEF Stacked
  <2> QED
    BY <2>2, <2>3
<1> QED
  BY <1>1, <1>5 DEF Stacked

-----------------------------------------------------------------------------
(* The signal.                                                             *)

\* There is no signal at the start.
LEMMA SignalInit == Init => SignalIsMeant
BY DEF Init, SignalIsMeant, Run

\* No step sets the signal without marking the runs it is for, or interrupts a
\* run without it.
LEMMA SignalStep ==
  ASSUME TypeOK, SignalIsMeant
  PROVE  /\ Reading => SignalIsMeant'
         /\ Cancelling => SignalIsMeant'
         /\ \A c \in Conns : StartRun(c) => SignalIsMeant'
         /\ \A r \in Run : EndRun(r) => SignalIsMeant'
<1>1. ASSUME Reading PROVE SignalIsMeant'
  BY <1>1 DEF Reading, SignalIsMeant, Run, IsActive
<1>2. ASSUME Cancelling PROVE SignalIsMeant'
  <2>1. /\ Run' = Run
        /\ \A r \in Run : /\ IsActive(r)' <=> IsActive(r)
                          /\ runs'[r].interrupted = runs[r].interrupted
                          /\ runs'[r].cancelled <=> runs[r].cancelled \/ IsActive(r)
    BY <1>2, TriggerRuns DEF Cancelling, IsActive
  <2>2. signal' /\ due' = due \cup {r \in Run : IsActive(r)} /\ due \subseteq Run
    BY <1>2 DEF Cancelling, Trigger, TypeOK
  <2> QED
    BY <2>1, <2>2 DEF SignalIsMeant
<1>3. ASSUME NEW c \in Conns, StartRun(c) PROVE SignalIsMeant'
  <2>1. /\ Run' = Run \cup {Len(runs) + 1}
        /\ \A r \in Run : runs'[r] = runs[r]
        /\ runs'[Len(runs) + 1] = NewRun(c)
    BY <1>3, StartStep
  <2>3. ~NewRun(c).interrupted
    BY DEF NewRun
  <2>2. ~signal' /\ due' = {}
    BY <1>3 DEF StartRun, Cleared
  <2> QED
    BY <2>1, <2>2, <2>3 DEF SignalIsMeant
<1>4. ASSUME NEW r \in Run, EndRun(r) PROVE SignalIsMeant'
  <2>1. /\ Run' = Run /\ ~IsActive(r)'
        /\ \A q \in Run : /\ q # r => (IsActive(q)' <=> IsActive(q))
                          /\ runs'[q].interrupted = runs[q].interrupted
                          /\ runs'[q].cancelled = runs[q].cancelled
    BY <1>4, EndStep DEF IsActive
  <2>2. signal' = signal /\ due' = due \ {r} /\ due \subseteq Run
    BY <1>4 DEF EndRun, AfterRun, TypeOK
  <2> QED
    BY <2>1, <2>2 DEF SignalIsMeant
<1> QED
  BY <1>1, <1>2, <1>3, <1>4

-----------------------------------------------------------------------------
(* The invariant, and what follows from it.                                *)

\* The initial state has the invariant.
LEMMA InvInit == Init => IInv
BY TypeInit, ReadersInit, StackedInit, SignalInit DEF IInv

\* A run that goes on keeps the invariant.
LEMMA InvAdvance ==
  ASSUME IInv, NEW r \in Run,
         Planned(r) \/ DirectStep(r) \/ DelegatedStep(r)
           \/ CallTools(r) \/ CallAnswers(r) \/ WorkDone(r)
  PROVE  OneRunEach' /\ Stacked' /\ SignalIsMeant'
<1>1. TypeOK /\ OneRunEach /\ Stacked /\ SignalIsMeant
  BY DEF IInv
<1>2. PICK run : Advanced(r, run) /\ runs' = Set(r, run)
  BY <1>1, AdvanceStep
<1>3. SameCallbacks /\ UNCHANGED <<connVars, signal, current, due, mixed, crossed>>
  BY <1>1, AdvanceStep
<1>4. /\ Run' = Run
      /\ \A q \in Run : IsActive(q)' <=> IsActive(q)
      /\ \A a : Active(a)' = Active(a)
      /\ \A q \in Run : /\ runs'[q].oldStep = runs[q].oldStep /\ runs'[q].oldStream = runs[q].oldStream
                        /\ runs'[q].cancelled = runs[q].cancelled
                        /\ runs'[q].interrupted => runs[q].interrupted \/ (signal /\ IsActive(q))
  BY <1>1, <1>2, AdvancedRuns
<1>5. OneRunEach'
  BY <1>1, <1>2, <1>3, ReadersAdvance
<1>6. Stacked'
  BY <1>1, <1>3, <1>4, StackedKeep DEF SameCallbacks
<1>7. SignalIsMeant'
  <2>1. due \subseteq Run
    BY <1>1 DEF TypeOK
  <2> QED
    BY <1>1, <1>3, <1>4, <2>1 DEF SignalIsMeant
<1> QED
  BY <1>5, <1>6, <1>7

\* Every step keeps the invariant.
LEMMA InvStep == IInv /\ [Next]_vars => IInv'
<1> SUFFICES ASSUME IInv, [Next]_vars PROVE IInv'
  OBVIOUS
<1>1. TypeOK /\ OneRunEach /\ Stacked /\ SignalIsMeant /\ TypeOK'
  BY TypeStep DEF IInv
<1>2. CASE Reading \/ Cancelling
  BY <1>1, <1>2, ReadersKeep, StackedReading, SignalStep DEF IInv
<1>3. ASSUME NEW c \in Conns, StartRun(c) PROVE IInv'
  BY <1>1, <1>3, ReadersStart, StackedStart, SignalStep DEF IInv
<1>4. ASSUME NEW r \in Run, EndRun(r) PROVE IInv'
  BY <1>1, <1>4, ReadersEnd, StackedEnd, SignalStep DEF IInv
<1>5. ASSUME NEW r \in Run, Planned(r) \/ DirectStep(r) \/ DelegatedStep(r)
                              \/ CallTools(r) \/ CallAnswers(r) \/ WorkDone(r)
      PROVE  IInv'
  BY <1>1, <1>5, InvAdvance DEF IInv
<1> QED
  BY <1>1, <1>2, <1>3, <1>4, <1>5, ReadingStep, CancellingStep
     DEF Next, MainLoop, Watcher, Progress, Stopped

\* read_cancel waits for a line only while the one run of its connection is
\* being served.
THEOREM ReadersTakeTurns == Spec => []OneReader
<1>1. IInv => OneReader
  <2> SUFFICES ASSUME IInv, NEW c \in Conns
               PROVE  /\ watch[c] => serve[c] = "running"
                      /\ Cardinality({r \in Run : runs[r].conn = c /\ IsActive(r)})
                           = IF serve[c] = "running" THEN 1 ELSE 0
    BY DEF OneReader
  <2> DEFINE S == {r \in Run : runs[r].conn = c /\ IsActive(r)}
  <2>1. CASE serve[c] = "running"
    <3>1. PICK r \in Run : runs[r].conn = c /\ IsActive(r)
      BY <2>1 DEF IInv, OneRunEach
    <3>2. S = {r}
      BY <3>1 DEF IInv, OneRunEach
    <3> QED
      BY <2>1, <3>2, FS_Singleton
  <2>2. CASE serve[c] # "running"
    <3>1. S = {} /\ ~watch[c]
      BY <2>2 DEF IInv, OneRunEach
    <3> QED
      BY <2>2, <3>1, FS_EmptySet
  <2> QED
    BY <2>1, <2>2
<1> QED
  BY <1>1, InvInit, InvStep, PTL DEF Spec

\* As long as the runs of an agent end last-in first-out, its callbacks notify
\* the runs that are active on it, and tokens go to the newest.
THEOREM CallbacksAreExact == Spec => []CallbacksFollowRuns
<1>1. IInv => CallbacksFollowRuns
  BY DEF IInv, Stacked, Follow, CallbacksFollowRuns
<1> QED
  BY <1>1, InvInit, InvStep, PTL DEF Spec

\* A run is interrupted only by a cancel that was read while it was active.
THEOREM InterruptsAreFresh == Spec => []InterruptIsFresh
<1>1. IInv => InterruptIsFresh
  BY DEF IInv, SignalIsMeant, InterruptIsFresh
<1> QED
  BY <1>1, InvInit, InvStep, PTL DEF Spec

\* What CancelSticks says of one step.
NoNewRound ==
  \A r \in due : runs'[r].at = "call" => UNCHANGED <<runs[r].at, runs[r].round>>

\* Under the signal no step takes a run into a round.
LEMMA NoRoundUnderSignal == IInv /\ [Next]_vars => NoNewRound
<1> SUFFICES ASSUME IInv, [Next]_vars, NEW q \in due, runs'[q].at = "call"
             PROVE  runs'[q].at = runs[q].at /\ runs'[q].round = runs[q].round
  BY DEF NoNewRound
<1>1. TypeOK /\ SignalIsMeant /\ q \in Run /\ signal
  BY DEF IInv, TypeOK, SignalIsMeant
<1>2. CASE Reading
  BY <1>2 DEF Reading
<1>3. CASE Cancelling
  BY <1>1, <1>3, TriggerRuns DEF Cancelling
<1>4. ASSUME NEW c \in Conns, StartRun(c)
      PROVE  runs'[q].at = runs[q].at /\ runs'[q].round = runs[q].round
  BY <1>1, <1>4, StartStep
<1>5. ASSUME NEW r \in Run, EndRun(r)
      PROVE  runs'[q].at = runs[q].at /\ runs'[q].round = runs[q].round
  BY <1>1, <1>5, EndStep
<1>6. ASSUME NEW r \in Run, Planned(r) \/ DirectStep(r) \/ DelegatedStep(r)
                              \/ CallTools(r) \/ CallAnswers(r) \/ WorkDone(r)
      PROVE  runs'[q].at = runs[q].at /\ runs'[q].round = runs[q].round
  <2>1. PICK run : Advanced(r, run) /\ runs' = Set(r, run)
    BY <1>1, <1>6, AdvanceStep
  <2> QED
    BY <1>1, <2>1, AdvancedRuns DEF Advanced
<1> QED
  BY <1>1, <1>2, <1>3, <1>4, <1>5, <1>6, ReadingStep, CancellingStep
     DEF Next, MainLoop, Watcher, Progress, Stopped

\* After a cancel no run it was meant for enters another round, until another
\* run begins.
THEOREM CancelsStick == Spec => CancelSticks
<1>1. NoNewRound => \A r \in due : runs'[r].at = "call" => UNCHANGED <<runs[r].at, runs[r].round>>
  BY DEF NoNewRound
<1> QED
  BY <1>1, InvInit, InvStep, NoRoundUnderSignal, PTL DEF Spec, CancelSticks

-----------------------------------------------------------------------------
(* Tokens that go astray.                                                  *)

\* The tool loop of the agent of run r streams to a client that did not ask
\* for run r: the one of the run in which its executor was made.
StreamsElsewhere(r) ==
  Agent(r).captured \in Run /\ runs[Agent(r).captured].conn # runs[r].conn

\* Tokens reach another client only on an agent that served two runs at a time,
\* or through the callback its executor has captured.
StraysHaveACause == \A r \in astray : runs[r].agent \in mixed \/ StreamsElsewhere(r)

\* An agent with two active runs is mixed, and only on such a one can a run end
\* before a later one.
MixedIsSeen ==
  /\ \A q, r \in Run : IsActive(q) /\ IsActive(r) /\ runs[q].agent = runs[r].agent /\ q # r
       => runs[r].agent \in mixed
  /\ crossed \subseteq mixed

\* Runs stay with their connection and agent, and an executor that is made
\* keeps the callback it has captured.
Attached ==
  /\ Run \subseteq Run'
  /\ \A r \in Run : runs'[r].conn = runs[r].conn /\ runs'[r].agent = runs[r].agent
  /\ \A a \in 1..Len(agents) :
       agents[a].captured # NotMade => agents'[a].captured = agents[a].captured
  /\ mixed \subseteq mixed'

\* A run that ends leaves the executor of its agent alone.
LEMMA AttachedEnd ==
  ASSUME TypeOK, NEW r \in Run, EndRun(r)
  PROVE  Attached
<1>1. /\ Run' = Run
      /\ runs'[r].agent = runs[r].agent /\ runs'[r].conn = runs[r].conn
      /\ \A q \in Run : q # r => runs'[q] = runs[q]
  BY EndStep
<1>2. runs[r].agent \in 1..Len(agents) /\ Agent(r) \in AgentType /\ agents \in Seq(AgentType)
  BY RunHasType DEF TypeOK
<1>3. agents' = [agents EXCEPT ![runs[r].agent] = Restored(r)]
  BY DEF EndRun
<1>4. Restored(r).captured = Agent(r).captured
  BY <1>2 DEF Restored, AgentType
<1> DEFINE restored == Restored(r)
<1> HIDE DEF restored
<1>5. agents' = [agents EXCEPT ![runs[r].agent] = restored] /\ restored.captured = Agent(r).captured
  BY <1>3, <1>4 DEF restored
<1>6. \A a \in 1..Len(agents) : agents'[a].captured = agents[a].captured
  BY <1>2, <1>5 DEF Agent
<1> QED
  BY <1>1, <1>6 DEF Attached, EndRun

\* A run that begins takes its agent with the executor it has.
LEMMA AttachedStart ==
  ASSUME TypeOK, NEW c \in Conns, StartRun(c)
  PROVE  Attached
<1>0. PICK k, ch : k = Len(runs) + 1 /\ ch = Chosen
  OBVIOUS
<1>1. /\ Run' = Run \cup {k}
      /\ \A r \in Run : runs'[r] = runs[r]
      /\ \A a \in 1..Len(Pool) : a # ch => agents'[a] = Pool[a]
      /\ agents'[ch] = Installed(Pool[ch], k)
  BY <1>0, StartStep
<1>2. /\ Pool \in Seq(AgentType) /\ ch \in 1..Len(Pool)
      /\ Len(agents) \in Nat /\ Len(Pool) \in Nat /\ Len(agents) <= Len(Pool)
      /\ \A a \in 1..Len(agents) : Pool[a] = agents[a]
  BY <1>0, PoolType
<1>3. Pool[ch] \in AgentType
  BY <1>2
<1>4. Installed(Pool[ch], k).captured = Pool[ch].captured
  BY <1>3 DEF Installed, AgentType
<1>5. \A a \in 1..Len(agents) : agents'[a].captured = agents[a].captured
  BY <1>1, <1>2, <1>4
<1>6. mixed \subseteq mixed'
  BY DEF StartRun
<1> QED
  BY <1>1, <1>5, <1>6 DEF Attached

\* A direct step makes the executor of an agent that has none.
LEMMA AttachedAdvance ==
  ASSUME TypeOK, NEW r \in Run,
         Planned(r) \/ DirectStep(r) \/ DelegatedStep(r)
           \/ CallTools(r) \/ CallAnswers(r) \/ WorkDone(r)
  PROVE  Attached
<1>1. PICK run : Advanced(r, run) /\ runs' = Set(r, run)
  BY AdvanceStep
<1>2. /\ Run' = Run
      /\ \A q \in Run : runs'[q].conn = runs[q].conn /\ runs'[q].agent = runs[q].agent
  BY <1>1, AdvancedRuns
<1>3. UNCHANGED mixed
  BY AdvanceStep
<1>4. \A a \in 1..Len(agents) : agents[a].captured # NotMade => agents'[a].captured = agents[a].captured
  <2>1. CASE UNCHANGED agents
    BY <2>1
  <2>2. CASE DirectStep(r) /\ Agent(r).captured = NotMade
    <3> DEFINE made == [Agent(r) EXCEPT !.captured = Agent(r).onStream]
    <3>1. agents' = [agents EXCEPT ![runs[r].agent] = made]
      BY <2>2 DEF DirectStep, Agent
    <3> HIDE DEF made
    <3>2. agents \in Seq(AgentType) /\ runs[r].agent \in 1..Len(agents)
      BY RunHasType DEF TypeOK
    <3>3. \A a \in 1..Len(agents) : a # runs[r].agent => agents'[a] = agents[a]
      BY <3>1, <3>2
    <3> QED
      BY <2>2, <3>3 DEF Agent
  <2> QED
    BY <2>1, <2>2 DEF Planned, DirectStep, DelegatedStep, CallTools, CallAnswers, WorkDone
<1> QED
  BY <1>2, <1>3, <1>4 DEF Attached

\* Every step leaves runs and executors where they are.
LEMMA AttachedStep == TypeOK /\ [Next]_vars => Attached
<1> SUFFICES ASSUME TypeOK, [Next]_vars PROVE Attached
  OBVIOUS
<1>1. CASE Reading
  BY <1>1 DEF Reading, Attached, Run
<1>2. CASE Cancelling
  BY <1>2, TriggerRuns DEF Cancelling, Attached
<1> QED
  BY <1>1, <1>2, AttachedStart, AttachedEnd, AttachedAdvance, ReadingStep, CancellingStep
     DEF Next, MainLoop, Watcher, Progress, Stopped

\* No run is active at the start.
LEMMA MixedInit == Init => MixedIsSeen
BY DEF Init, MixedIsSeen, Run

\* A run that begins beside another is noticed.
LEMMA MixedStart ==
  ASSUME TypeOK, MixedIsSeen, NEW c \in Conns, StartRun(c)
  PROVE  MixedIsSeen'
<1>0. PICK k, ch : k = Len(runs) + 1 /\ ch = Chosen
  OBVIOUS
<1>10. /\ Run' = Run \cup {k} /\ k \notin Run
       /\ \A r \in Run : runs'[r] = runs[r]
       /\ runs'[k] = NewRun(c)
  BY <1>0, StartStep
<1>11. runs'[k].agent = ch
  BY <1>0, <1>10 DEF NewRun
<1>1. /\ Run' = Run \cup {k} /\ k \notin Run
      /\ \A r \in Run : runs'[r] = runs[r]
      /\ runs'[k].agent = ch
  BY <1>10, <1>11
<1>2. \A r \in Run : IsActive(r)' <=> IsActive(r)
  BY <1>1 DEF IsActive
<1>3. /\ mixed' = IF Active(ch) # {} THEN mixed \cup {ch} ELSE mixed
      /\ UNCHANGED crossed
  BY <1>0 DEF StartRun
<1>4. \A r \in Run : IsActive(r) /\ runs[r].agent = ch => ch \in mixed'
  BY <1>3 DEF Active, IsActive
<1>5. ASSUME NEW q \in Run', NEW r \in Run', IsActive(q)', IsActive(r)',
             runs'[q].agent = runs'[r].agent, q # r
      PROVE  runs'[r].agent \in mixed'
  <2>1. CASE q \in Run /\ r \in Run
    BY <1>1, <1>2, <1>3, <1>5, <2>1 DEF MixedIsSeen
  <2>2. CASE q = k /\ r \in Run
    BY <1>1, <1>2, <1>4, <1>5, <2>2
  <2>3. CASE r = k /\ q \in Run
    BY <1>1, <1>2, <1>4, <1>5, <2>3
  <2> QED
    BY <1>1, <1>5, <2>1, <2>2, <2>3
<1> QED
  BY <1>3, <1>5 DEF MixedIsSeen

\* A run that ends before a later one has an agent that is mixed.
LEMMA MixedEnd ==
  ASSUME TypeOK, MixedIsSeen, NEW r \in Run, EndRun(r)
  PROVE  MixedIsSeen'
<1>1. /\ IsActive(r) /\ Run' = Run /\ runs'[r].at = "answered" /\ runs'[r].agent = runs[r].agent
      /\ \A q \in Run : q # r => runs'[q] = runs[q]
  BY EndStep
<1>2. \A q \in Run : (IsActive(q)' => IsActive(q)) /\ runs'[q].agent = runs[q].agent
  BY <1>1 DEF IsActive
<1>3. /\ crossed' = IF \E q \in Active(runs[r].agent) : q > r
                    THEN crossed \cup {runs[r].agent} ELSE crossed
      /\ UNCHANGED mixed
  BY DEF EndRun
<1>4. Run \subseteq Nat
  BY DEF Run, TypeOK
<1>5. ASSUME NEW q \in Active(runs[r].agent), q > r PROVE runs[r].agent \in mixed
  <2>1. q \in Run /\ IsActive(q) /\ runs[q].agent = runs[r].agent
    BY DEF Active, IsActive
  <2>2. q # r
    BY <1>4, <1>5, <2>1
  <2> QED
    BY <1>1, <2>1, <2>2 DEF MixedIsSeen
<1> QED
  BY <1>1, <1>2, <1>3, <1>5 DEF MixedIsSeen

\* Every step notices runs that overlap on an agent.
LEMMA MixedStep == TypeOK /\ MixedIsSeen /\ [Next]_vars => MixedIsSeen'
<1> SUFFICES ASSUME TypeOK, MixedIsSeen, [Next]_vars PROVE MixedIsSeen'
  OBVIOUS
<1>1. CASE Reading
  BY <1>1 DEF Reading, MixedIsSeen, Run, IsActive
<1>2. CASE Cancelling
  <2>1. /\ Run' = Run
        /\ \A r \in Run : (IsActive(r)' <=> IsActive(r)) /\ runs'[r].agent = runs[r].agent
    BY <1>2, TriggerRuns DEF Cancelling, IsActive
  <2> QED
    BY <1>2, <2>1 DEF Cancelling, MixedIsSeen
<1>3. ASSUME NEW r \in Run, Planned(r) \/ DirectStep(r) \/ DelegatedStep(r)
                              \/ CallTools(r) \/ CallAnswers(r) \/ WorkDone(r)
      PROVE  MixedIsSeen'
  <2>1. PICK run : Advanced(r, run) /\ runs' = Set(r, run)
    BY <1>3, AdvanceStep
  <2>2. /\ Run' = Run
        /\ \A q \in Run : (IsActive(q)' <=> IsActive(q)) /\ runs'[q].agent = runs[q].agent
    BY <2>1, AdvancedRuns
  <2>3. UNCHANGED <<mixed, crossed>>
    BY <1>3, AdvanceStep
  <2> QED
    BY <2>2, <2>3 DEF MixedIsSeen
<1> QED
  BY <1>1, <1>2, <1>3, MixedStart, MixedEnd, ReadingStep, CancellingStep
     DEF Next, MainLoop, Watcher, Progress, Stopped

\* What was a cause stays one.
LEMMA CausesStay ==
  ASSUME TypeOK, Attached, NEW r \in Run
  PROVE  /\ runs[r].agent \in mixed => runs'[r].agent \in mixed'
         /\ StreamsElsewhere(r) => StreamsElsewhere(r)'
<1>1. runs[r].agent \in mixed => runs'[r].agent \in mixed'
  BY DEF Attached
<1>2. ASSUME StreamsElsewhere(r) PROVE StreamsElsewhere(r)'
  <2>1. runs[r].agent \in 1..Len(agents)
    BY RunHasType
  <2>2. Agent(r).captured # NotMade
    BY <1>2 DEF StreamsElsewhere, Run, NotMade, TypeOK
  <2>3. Agent(r)'.captured = Agent(r).captured
    BY <2>1, <2>2 DEF Attached, Agent
  <2>4. Agent(r).captured \in Run' /\ runs'[Agent(r).captured].conn # runs'[r].conn
    BY <1>2 DEF StreamsElsewhere, Attached
  <2> QED
    BY <2>3, <2>4 DEF StreamsElsewhere
<1> QED
  BY <1>1, <1>2

\* The streaming callback an agent has serves the one run that is active on it.
LEMMA PlanStreams ==
  ASSUME IInv, MixedIsSeen, NEW r \in Run, StreamPlan(r), runs[r].agent \notin mixed
  PROVE  astray' = astray
<1>1. IsActive(r) /\ runs[r].agent \in 1..Len(agents)
  BY RunHasType DEF StreamPlan, IsActive, IInv
<1>2. Active(runs[r].agent) \subseteq {r}
  BY <1>1 DEF MixedIsSeen, Active, IsActive
<1>3. Agent(r).onStream \in {r, Nobody}
  BY <1>1, <1>2 DEF MixedIsSeen, IInv, Stacked, Follow, Agent
<1>4. Nobody \notin Run
  BY DEF Run, Nobody, IInv, TypeOK
<1>5. ~(Agent(r).onStream \in Run /\ runs[Agent(r).onStream].conn # runs[r].conn)
  BY <1>3, <1>4
<1> QED
  BY <1>5 DEF StreamPlan, Streamed

\* A step adds at the most one run to those with tokens astray, for a cause.
LEMMA StraysStep ==
  ASSUME IInv, MixedIsSeen, [Next]_vars
  PROVE  \A r \in astray' \ astray : r \in Run /\ (runs[r].agent \in mixed \/ StreamsElsewhere(r))
<1>1. TypeOK
  BY DEF IInv
<1>2. ASSUME NEW r \in Run, StreamPlan(r)
      PROVE  \A q \in astray' \ astray : q = r /\ runs[r].agent \in mixed
  BY <1>2, PlanStreams DEF StreamPlan, Streamed
<1>3. ASSUME NEW r \in Run, CallTools(r) \/ CallAnswers(r)
      PROVE  \A q \in astray' \ astray : q = r /\ StreamsElsewhere(r)
  BY <1>3 DEF CallTools, CallAnswers, Streamed, StreamsElsewhere
<1>4. CASE UNCHANGED astray
  BY <1>4
<1>5. ASSUME NEW c \in Conns, MainLoop(c) \/ Watcher(c) PROVE UNCHANGED astray
  BY <1>5 DEF MainLoop, Watcher, Answer, Break, Close, Switch, Cancel, StartRun,
     WatchCancel, WatchOther, WatchEof, agentVars
<1>6. ASSUME NEW r \in Run, Planned(r) \/ DirectStep(r) \/ DelegatedStep(r) \/ WorkDone(r) \/ EndRun(r)
      PROVE  UNCHANGED astray
  BY <1>6 DEF Planned, DirectStep, DelegatedStep, WorkDone, EndRun
<1>7. CASE UNCHANGED vars
  BY <1>7 DEF vars, agentVars
<1> QED
  BY <1>2, <1>3, <1>4, <1>5, <1>6, <1>7 DEF Next, Progress, Stopped

\* Every step keeps a cause for the tokens that are astray.
LEMMA CauseStep ==
  IInv /\ MixedIsSeen /\ StraysHaveACause /\ [Next]_vars => StraysHaveACause'
<1> SUFFICES ASSUME IInv, MixedIsSeen, StraysHaveACause, [Next]_vars, NEW r \in astray'
             PROVE  runs'[r].agent \in mixed' \/ StreamsElsewhere(r)'
  BY DEF StraysHaveACause
<1>1. TypeOK /\ Attached /\ astray \subseteq Run
  BY AttachedStep DEF IInv, TypeOK
<1>2. r \in Run /\ (runs[r].agent \in mixed \/ StreamsElsewhere(r))
  BY <1>1, StraysStep DEF StraysHaveACause
<1> QED
  BY <1>1, <1>2, CausesStay

\* As long as the runs of an agent follow one another, the one way tokens reach
\* another client is the callback that the agent's executor has captured.
THEOREM TokensStrayForACause == Spec => []StraysHaveACause
<1>1. Init => StraysHaveACause
  BY DEF Init, StraysHaveACause
<1>2. IInv => TypeOK
  BY DEF IInv
<1> QED
  BY <1>1, <1>2, InvInit, InvStep, MixedInit, MixedStep, CauseStep, PTL DEF Spec

-----------------------------------------------------------------------------
(* Clients that hang up: what HangupCloses rests on.                       *)

\* The end of the stream is the last thing connection c has to read.
HungUp(c) == inbox[c] # <<>> /\ inbox[c][Len(inbox[c])] = "eof"

\* The end of a stream stays to be read, whoever reads the lines before it, and
\* no answer opens a connection again that is closed.
HangupStays ==
  \A c \in Conns : /\ HungUp(c) => HungUp(c)'
                   /\ serve[c] = "closed" => serve'[c] = "closed"

\* Reading a line that is not the end leaves the end.
LEMMA ConsumedHangup ==
  ASSUME TypeOK, NEW c \in Conns, inbox[c] # <<>>, Head(inbox[c]) # "eof", inbox' = Consumed(c)
  PROVE  \A d \in Conns : HungUp(d) => HungUp(d)'
<1>1. inbox \in [Conns -> Seq(AllKinds)]
  BY DEF TypeOK
<1>2. inbox'[c] = Tail(inbox[c]) /\ \A d \in Conns : d # c => inbox'[d] = inbox[d]
  BY <1>1 DEF Consumed
<1> DEFINE s == inbox[c]
<1>3. s \in Seq(AllKinds) /\ s # <<>> /\ Head(s) # "eof"
  BY <1>1
<1>4. ASSUME s[Len(s)] = "eof"
      PROVE  Tail(s) # <<>> /\ Tail(s)[Len(Tail(s))] = "eof"
  <2> HIDE DEF s
  <2>1. Head(s) = s[1] /\ Len(s) \in Nat /\ Len(s) > 0
    BY <1>3
  <2>2. Len(s) > 1
    BY <1>3, <1>4, <2>1
  <2>3. Len(Tail(s)) = Len(s) - 1 /\ Tail(s)[Len(s) - 1] = s[Len(s)]
    BY <1>3, <2>1, <2>2
  <2> QED
    BY <1>3, <1>4, <2>1, <2>2, <2>3
<1>5. HungUp(c) => HungUp(c)'
  BY <1>2, <1>4 DEF HungUp
<1>6. \A d \in Conns : d # c => (HungUp(d) => HungUp(d)')
  BY <1>2 DEF HungUp
<1> QED
  BY <1>5, <1>6

\* Every step of a connection keeps what is hung up and closed.
LEMMA HangupConn ==
  ASSUME IInv, NEW c \in Conns, MainLoop(c) \/ Watcher(c)
  PROVE  HangupStays
<1>1. TypeOK /\ serve \in [Conns -> {"reading", "running", "closed"}]
  BY DEF IInv, TypeOK
<1>2. UNCHANGED inbox \/ (inbox[c] # <<>> /\ Head(inbox[c]) # "eof" /\ inbox' = Consumed(c))
  BY DEF MainLoop, Watcher, Answer, Break, Close, Switch, Cancel, StartRun, Reads,
     WatchCancel, WatchOther, WatchEof
<1>3. \A d \in Conns : HungUp(d) => HungUp(d)'
  BY <1>1, <1>2, ConsumedHangup DEF HungUp
<1>4. \/ UNCHANGED serve
      \/ serve[c] = "reading" /\ \E s \in {"running", "closed"} : serve' = [serve EXCEPT ![c] = s]
  BY DEF MainLoop, Watcher, Answer, Break, Close, Switch, Cancel, StartRun, Reads,
     WatchCancel, WatchOther, WatchEof
<1>5. \A d \in Conns : serve[d] = "closed" => serve'[d] = "closed"
  BY <1>1, <1>4
<1> QED
  BY <1>3, <1>5 DEF HangupStays

\* So does every step of a run: the connection it answers is not closed.
LEMMA HangupRun ==
  ASSUME IInv, NEW r \in Run, Progress(r) \/ StreamPlan(r)
  PROVE  HangupStays
<1>1. UNCHANGED inbox
  BY DEF Progress, StreamPlan, Planned, DirectStep, DelegatedStep, CallTools, CallAnswers,
     WorkDone, EndRun, connVars
<1>2. CASE EndRun(r)
  <2>1. IsActive(r) /\ serve \in [Conns -> {"reading", "running", "closed"}]
    BY <1>2 DEF EndRun, IsActive, IInv, TypeOK
  <2>2. serve[runs[r].conn] = "running"
    BY <2>1 DEF IInv, OneRunEach
  <2>3. \A d \in Conns : serve[d] = "closed" => serve'[d] = "closed"
    BY <1>2, <2>1, <2>2 DEF EndRun
  <2> QED
    BY <1>1, <2>3 DEF HangupStays, HungUp
<1>3. CASE UNCHANGED serve
  BY <1>1, <1>3 DEF HangupStays, HungUp
<1> QED
  BY <1>2, <1>3 DEF Progress, StreamPlan, Planned, DirectStep, DelegatedStep, CallTools,
     CallAnswers, WorkDone, connVars

\* A client that has hung up stays so until the server sees it, and a closed
\* connection is never served again.
THEOREM HangupsStay == Spec => [][HangupStays]_vars
<1>1. IInv /\ [Next]_vars => HangupStays \/ UNCHANGED vars
  BY HangupConn, HangupRun DEF Next, Stopped
<1> QED
  BY <1>1, InvInit, InvStep, PTL DEF Spec

(***************************************************************************)
(* The terminal.                                                           *)
(***************************************************************************)

Places == {"connect", "call", "head", "select", "report", "over"}
Kinds == {"step", "result", "error", "output", "done"}
Ends == {"none", "result", "error"}
Inboxes == Seq({"step"} \cup Final)
Outs == Seq(Kinds)
Shows == Seq(Nat)
TaskType ==
  [at : Places, inbox : Inboxes, out : Outs, sent : Nat, end : Ends, shown : Shows,
   result : Nat, late : Nat, beside : BOOLEAN, disturbed : BOOLEAN]
EventType == [task : Nat, kind : Kinds]

\* Types; the message at the end of the screen is the newest task's or no task's.
TerminalTypeOK ==
  /\ running \in BOOLEAN /\ flag \in BOOLEAN
  /\ queue \in Seq(EventType) /\ \A i \in DOMAIN queue : queue[i].task \in Task
  /\ tasks \in Seq(TaskType) /\ Len(tasks) <= MaxTasks
  /\ last \in {0, Len(tasks)} /\ lines \in 0..MaxLines

-----------------------------------------------------------------------------
(* What the operators return.                                              *)

LEMMA TaskIs ==
  TerminalTypeOK => /\ Task = 1..Len(tasks) /\ Len(tasks) \in Nat
                    /\ \A t \in 1..Len(tasks) : tasks[t] \in TaskType
BY DEF Task, TerminalTypeOK

\* The order in which a task reports.
Rank == [k \in Kinds |-> CASE k = "step" -> 0 [] k \in {"result", "error"} -> 1
                           [] k = "output" -> 2 [] k = "done" -> 3]

LEMMA RankIs ==
  /\ Rank["step"] = 0 /\ Rank["result"] = 1 /\ Rank["error"] = 1
  /\ Rank["output"] = 2 /\ Rank["done"] = 3
  /\ \A k \in Kinds : Rank[k] \in 0..3
BY DEF Rank, Kinds

Increasing(o) == \A i, j \in DOMAIN o : i < j => Rank[o[i]] < Rank[o[j]]

LEMMA EndingType ==
  ASSUME NEW end \in Final
  PROVE  /\ Ending(end) \in Seq(Kinds) /\ Len(Ending(end)) > 0 /\ Ending(end) # <<>>
         /\ Increasing(Ending(end))
         /\ 1 \in DOMAIN Ending(end)
         /\ Ending(end)[1] = IF end \in {"success", "failure"} THEN "result" ELSE "error"
         /\ \A i \in DOMAIN Ending(end) :
              /\ Rank[Ending(end)[i]] > 0
              /\ Ending(end)[i] = "result" => end \in {"success", "failure"}
              /\ Ending(end)[i] = "error" => end \notin {"success", "failure"}
<1> DEFINE Right(o) ==
      /\ o \in Seq(Kinds) /\ Len(o) > 0 /\ o # <<>> /\ Increasing(o) /\ 1 \in DOMAIN o
      /\ \A i \in DOMAIN o : Rank[o[i]] > 0
<1>1. CASE end = "success"
  <2> DEFINE o == <<"result", "output", "done">>
  <2>1. o \in Seq(Kinds) /\ o # <<>> /\ Len(o) = 3 /\ DOMAIN o = 1..3
        /\ o[1] = "result" /\ o[2] = "output" /\ o[3] = "done"
    BY DEF Kinds
  <2>2. Ending(end) = o
    BY <1>1 DEF Ending
  <2> HIDE DEF o
  <2>3. Right(o)
    BY <2>1, RankIs DEF Increasing
  <2> QED
    BY <1>1, <2>1, <2>2, <2>3
<1>2. CASE end = "failure"
  <2> DEFINE o == <<"result", "done">>
  <2>1. o \in Seq(Kinds) /\ o # <<>> /\ Len(o) = 2 /\ DOMAIN o = 1..2 /\ o[1] = "result" /\ o[2] = "done"
    BY DEF Kinds
  <2>2. Ending(end) = o
    BY <1>2 DEF Ending
  <2> HIDE DEF o
  <2>3. Right(o)
    BY <2>1, RankIs DEF Increasing
  <2> QED
    BY <1>2, <2>1, <2>2, <2>3
<1>3. CASE end = "broken"
  <2> DEFINE o == <<"error", "done">>
  <2>1. o \in Seq(Kinds) /\ o # <<>> /\ Len(o) = 2 /\ DOMAIN o = 1..2 /\ o[1] = "error" /\ o[2] = "done"
    BY DEF Kinds
  <2>2. Ending(end) = o
    BY <1>3 DEF Ending
  <2> HIDE DEF o
  <2>3. Right(o)
    BY <2>1, RankIs DEF Increasing
  <2> QED
    BY <1>3, <2>1, <2>2, <2>3
<1> QED
  BY <1>1, <1>2, <1>3 DEF Final

\* The queue grows at its end and shrinks at its head.
LEMMA AppendEvent ==
  ASSUME NEW q \in Seq(EventType), NEW e \in EventType
  PROVE  /\ Append(q, e) \in Seq(EventType)
         /\ DOMAIN Append(q, e) = DOMAIN q \cup {Len(q) + 1}
         /\ Len(q) + 1 \notin DOMAIN q /\ Len(q) \in Nat /\ DOMAIN q = 1..Len(q)
         /\ \A i \in DOMAIN q : Append(q, e)[i] = q[i]
         /\ Append(q, e)[Len(q) + 1] = e
OBVIOUS

LEMMA TailEvents ==
  ASSUME NEW q \in Seq(EventType), q # <<>>
  PROVE  /\ Tail(q) \in Seq(EventType) /\ Head(q) \in EventType
         /\ 1 \in DOMAIN q /\ Head(q) = q[1]
         /\ \A i \in DOMAIN Tail(q) : i \in Nat /\ i >= 1 /\ i + 1 \in DOMAIN q /\ Tail(q)[i] = q[i + 1]
         /\ \A i \in DOMAIN q : i \in Nat /\ (i # 1 => i - 1 \in DOMAIN Tail(q) /\ Tail(q)[i - 1] = q[i])
OBVIOUS

LEMMA TailOut ==
  ASSUME NEW o \in Seq(Kinds), o # <<>>
  PROVE  /\ Tail(o) \in Seq(Kinds) /\ Head(o) \in Kinds
         /\ 1 \in DOMAIN o /\ Head(o) = o[1]
         /\ \A i \in DOMAIN Tail(o) : i \in Nat /\ i >= 1 /\ i + 1 \in DOMAIN o /\ Tail(o)[i] = o[i + 1]
         /\ \A i \in DOMAIN o : i \in Nat /\ (i # 1 => i - 1 \in DOMAIN Tail(o) /\ Tail(o)[i - 1] = o[i])
         /\ Len(o) \in Nat \ {0} /\ Len(Tail(o)) = Len(o) - 1
OBVIOUS

LEMMA InboxTail ==
  ASSUME NEW S, NEW q \in Seq(S), q # <<>>
  PROVE  Tail(q) \in Seq(S) /\ Head(q) \in S
OBVIOUS

LEMMA InboxAppend ==
  ASSUME NEW S, NEW q \in Seq(S), NEW e \in S
  PROVE  Append(q, e) \in Seq(S)
OBVIOUS

-----------------------------------------------------------------------------
(* What the actions do to the tasks.                                       *)

\* Task t becomes x.
LEMMA TaskSet ==
  ASSUME TerminalTypeOK, NEW t \in Task, NEW x \in TaskType, tasks' = [tasks EXCEPT ![t] = x]
  PROVE  /\ tasks' \in Seq(TaskType) /\ Len(tasks') = Len(tasks) /\ Task' = Task
         /\ tasks'[t] = x /\ \A s \in Task : s # t => tasks'[s] = tasks[s]
BY DEF TerminalTypeOK, Task

\* Only its coroutine changes where a task stands: it goes on, ...
LEMMA MoveStep ==
  ASSUME TerminalTypeOK, NEW t \in Task, NEW a \in Places, tasks' = [tasks EXCEPT ![t].at = a]
  PROVE  /\ tasks' \in Seq(TaskType) /\ Len(tasks') = Len(tasks) /\ Task' = Task
         /\ tasks'[t] = [tasks[t] EXCEPT !.at = a]
         /\ \A s \in Task : s # t => tasks'[s] = tasks[s]
<1> DEFINE x == [tasks[t] EXCEPT !.at = a]
<1>1. tasks[t] \in TaskType
  BY DEF TerminalTypeOK, Task
<1>2. x \in TaskType
  BY <1>1 DEF TaskType
<1>3. tasks' = [tasks EXCEPT ![t] = x]
  OBVIOUS
<1> QED
  BY <1>2, <1>3, TaskSet

\* ... its stream brings something, ...
LEMMA ReaderStep ==
  ASSUME TerminalTypeOK, NEW t \in Task, Reader(t)
  PROVE  /\ tasks' \in Seq(TaskType) /\ Len(tasks') = Len(tasks) /\ Task' = Task
         /\ \E i \in Inboxes : tasks'[t] = [tasks[t] EXCEPT !.inbox = i]
         /\ \A s \in Task : s # t => tasks'[s] = tasks[s]
         /\ lines' \in 0..MaxLines
<1>1. PICK msg \in {"step"} \cup Final :
        /\ msg = "step" => lines < MaxLines
        /\ lines' = IF msg = "step" THEN lines + 1 ELSE lines
        /\ tasks' = [tasks EXCEPT ![t].inbox = Append(tasks[t].inbox, msg)]
  BY DEF Reader
<1> DEFINE i == Append(tasks[t].inbox, msg)
           x == [tasks[t] EXCEPT !.inbox = i]
<1>2. tasks[t] \in TaskType
  BY DEF TerminalTypeOK, Task
<1>3. i \in Inboxes
  BY <1>2, InboxAppend DEF TaskType, Inboxes
<1> HIDE DEF i
<1>4. x \in TaskType
  BY <1>2, <1>3 DEF TaskType
<1>5. tasks' = [tasks EXCEPT ![t] = x]
  BY <1>1 DEF i
<1>6. lines' \in 0..MaxLines
  BY <1>1, TerminalAssumption DEF TerminalTypeOK
<1> HIDE DEF x
<1>7. tasks'[t] = x
  BY <1>4, <1>5, TaskSet
<1> QED
  BY <1>3, <1>4, <1>5, <1>6, <1>7, TaskSet DEF x

\* ... it ends, ...
LEMMA TaskEndStep ==
  ASSUME TerminalTypeOK, NEW t \in Task, NEW end \in Final, EndWith(t, end)
  PROVE  /\ tasks' \in Seq(TaskType) /\ Len(tasks') = Len(tasks) /\ Task' = Task
         /\ tasks'[t] = [tasks[t] EXCEPT !.at = "report", !.inbox = <<>>, !.out = Ending(end),
              !.end = IF end \in {"success", "failure"} THEN "result" ELSE "error"]
         /\ \A s \in Task : s # t => tasks'[s] = tasks[s]
<1> DEFINE x == [tasks[t] EXCEPT !.at = "report", !.inbox = <<>>, !.out = Ending(end),
                   !.end = IF end \in {"success", "failure"} THEN "result" ELSE "error"]
<1>1. tasks[t] \in TaskType
  BY DEF TerminalTypeOK, Task
<1>2. Ending(end) \in Outs /\ Ending(end) # <<>>
  BY EndingType DEF Outs
<1>5. "report" \in Places /\ <<>> \in Inboxes /\ "result" \in Ends /\ "error" \in Ends
  BY DEF Places, Inboxes, Ends
<1>3. x \in TaskType
  BY <1>1, <1>2, <1>5 DEF TaskType
<1>4. tasks' = [tasks EXCEPT ![t] = x]
  BY <1>2 DEF EndWith
<1> QED
  BY <1>3, <1>4, TaskSet

\* ... it reports a step, ...
LEMMA ForwardStepStep ==
  ASSUME TerminalTypeOK, NEW t \in Task, ForwardStep(t)
  PROVE  /\ tasks' \in Seq(TaskType) /\ Len(tasks') = Len(tasks) /\ Task' = Task
         /\ tasks'[t] = [tasks[t] EXCEPT !.at = "head", !.inbox = Tail(tasks[t].inbox),
              !.sent = tasks[t].sent + 1,
              !.late = IF flag THEN tasks[t].late + 1 ELSE tasks[t].late]
         /\ \A s \in Task : s # t => tasks'[s] = tasks[s]
         /\ [task |-> t, kind |-> "step"] \in EventType
         /\ queue' = Append(queue, [task |-> t, kind |-> "step"])
<1> DEFINE x == [tasks[t] EXCEPT !.at = "head", !.inbox = Tail(tasks[t].inbox),
                   !.sent = tasks[t].sent + 1,
                   !.late = IF flag THEN tasks[t].late + 1 ELSE tasks[t].late]
<1>1. tasks[t] \in TaskType /\ t \in Nat
  BY DEF TerminalTypeOK, Task
<1>2. Tail(tasks[t].inbox) \in Inboxes
  BY <1>1, InboxTail DEF TaskType, ForwardStep, Inboxes
<1>6. /\ (IF flag THEN tasks[t].late + 1 ELSE tasks[t].late) \in Nat
      /\ tasks[t].sent + 1 \in Nat
  BY <1>1 DEF TaskType
<1>7. "head" \in Places
  BY DEF Places
<1>3. x \in TaskType
  BY <1>1, <1>2, <1>6, <1>7 DEF TaskType
<1>4. tasks' = [tasks EXCEPT ![t] = x]
  BY DEF ForwardStep
<1>5. [task |-> t, kind |-> "step"] \in EventType
  BY <1>1 DEF EventType, Kinds
<1> QED
  BY <1>3, <1>4, <1>5, TaskSet DEF ForwardStep

\* ... or the next thing of its end.
LEMMA ReportStep ==
  ASSUME TerminalTypeOK, NEW t \in Task, Report(t), tasks[t].out # <<>>
  PROVE  /\ tasks' \in Seq(TaskType) /\ Len(tasks') = Len(tasks) /\ Task' = Task
         /\ tasks'[t] = [tasks[t] EXCEPT !.out = Tail(tasks[t].out),
              !.at = IF Len(tasks[t].out) = 1 THEN "over" ELSE "report"]
         /\ \A s \in Task : s # t => tasks'[s] = tasks[s]
         /\ [task |-> t, kind |-> Head(tasks[t].out)] \in EventType
         /\ queue' = Append(queue, [task |-> t, kind |-> Head(tasks[t].out)])
<1> DEFINE x == [tasks[t] EXCEPT !.out = Tail(tasks[t].out),
                   !.at = IF Len(tasks[t].out) = 1 THEN "over" ELSE "report"]
<1>1. tasks[t] \in TaskType /\ t \in Nat
  BY DEF TerminalTypeOK, Task
<1>2. Tail(tasks[t].out) \in Outs /\ Head(tasks[t].out) \in Kinds
  BY <1>1, TailOut DEF TaskType, Outs
<1>6. "over" \in Places /\ "report" \in Places
  BY DEF Places
<1>3. x \in TaskType
  BY <1>1, <1>2, <1>6 DEF TaskType
<1>4. tasks' = [tasks EXCEPT ![t] = x]
  BY DEF Report
<1>5. [task |-> t, kind |-> Head(tasks[t].out)] \in EventType
  BY <1>1, <1>2 DEF EventType
<1> QED
  BY <1>3, <1>4, <1>5, TaskSet DEF Report

Placing(q, p, i, x) == p = [q EXCEPT ![i] = x]

LEMMA TasksSet ==
  ASSUME NEW q \in Seq(TaskType), NEW i \in DOMAIN q, NEW x \in TaskType, NEW p,
         Placing(q, p, i, x)
  PROVE  /\ p \in Seq(TaskType) /\ Len(p) = Len(q) /\ DOMAIN p = DOMAIN q
         /\ p[i] = x /\ \A j \in DOMAIN q : j # i => p[j] = q[j]
BY DEF Placing

\* What a step put behind those shown (q) leaves to be shown (p).
Pushed(q, w, p) ==
  /\ Len(p) = Least(Len(q) + 1, StepsCap)
  /\ \A i \in DOMAIN p : p[i] = w \/ \E j \in DOMAIN q : p[i] = q[j]

Over(n) == IF n > StepsCap THEN n - StepsCap ELSE 0

LEMMA PushIs ==
  ASSUME NEW q \in Shows, NEW w \in Nat
  PROVE  LET steps == Append(q, w)
             p == SubSeq(steps, Over(Len(steps)) + 1, Len(steps))
         IN  p \in Shows /\ Pushed(q, w, p)
<1> DEFINE steps == Append(q, w)
           n == Len(steps)
           m == Over(n) + 1
           p == SubSeq(steps, m, n)
<1>1. /\ n = Len(q) + 1 /\ n \in Nat /\ DOMAIN q = 1..Len(q)
      /\ \A i \in 1..n : steps[i] \in Nat /\ (steps[i] = w \/ \E j \in DOMAIN q : steps[i] = q[j])
  BY DEF Shows
<1>2. StepsCap \in Nat /\ StepsCap > 0 /\ Len(q) \in Nat
  BY TerminalAssumption DEF Shows
<1> HIDE DEF n, steps
<1>3. m \in Nat /\ 1 <= m /\ m <= n /\ n - m + 1 = Least(n, StepsCap)
  <2>1. n \in Nat /\ n > 0
    BY <1>1, <1>2
  <2>2. CASE n > StepsCap
    <3>1. Over(n) = n - StepsCap /\ Least(n, StepsCap) = StepsCap
      BY <1>2, <2>1, <2>2 DEF Over, Least
    <3> QED
      BY <1>2, <2>1, <2>2, <3>1
  <2>3. CASE ~(n > StepsCap)
    <3>1. Over(n) = 0 /\ Least(n, StepsCap) = n
      BY <1>2, <2>1, <2>3 DEF Over, Least
    <3> QED
      BY <2>1, <3>1
  <2> QED
    BY <2>2, <2>3
<1> HIDE DEF m
<1>4. \A i \in m..n : steps[i] \in Nat
  BY <1>1, <1>3
<1>5. /\ p \in Seq(Nat)
      /\ Len(p) = IF m <= n THEN n - m + 1 ELSE 0
      /\ \A i \in 1..(n - m + 1) : p[i] = steps[m + i - 1]
  <2>1. m \in Int /\ n \in Int
    BY <1>1, <1>3
  <2> QED
    BY <1>4, <2>1, SubSeqProperties
<1> HIDE DEF p
<1>6. Len(p) = Least(Len(q) + 1, StepsCap)
  BY <1>1, <1>3, <1>5
<1>7. ASSUME NEW i \in DOMAIN p PROVE p[i] = w \/ \E j \in DOMAIN q : p[i] = q[j]
  <2>1. i \in 1..(n - m + 1)
    BY <1>3, <1>5
  <2>2. p[i] = steps[m + i - 1]
    BY <1>5, <2>1
  <2>3. m + i - 1 \in 1..n
    <3>1. n \in Nat /\ m \in Nat /\ m >= 1 /\ m <= n
      BY <1>1, <1>3
    <3> QED
      BY <2>1, <3>1
  <2> QED
    BY <1>1, <2>2, <2>3
<1> QED
  BY <1>5, <1>6, <1>7 DEF Pushed, Shows, p, m, n, steps

\* A step is put into the last message, if that is one of the agent.
LEMMA AppendStepIs ==
  ASSUME TerminalTypeOK, NEW w \in Nat
  PROVE  /\ AppendStep(w) \in Seq(TaskType) /\ Len(AppendStep(w)) = Len(tasks)
         /\ last = 0 => AppendStep(w) = tasks
         /\ \A s \in Task : s # last => AppendStep(w)[s] = tasks[s]
         /\ last # 0 => \E p \in Shows :
              /\ Pushed(tasks[last].shown, w, p)
              /\ AppendStep(w)[last] = [tasks[last] EXCEPT !.shown = p]
<1>1. CASE last = 0
  BY <1>1 DEF AppendStep, TerminalTypeOK
<1>2. CASE last # 0
  <2>1. /\ last \in DOMAIN tasks /\ tasks \in Seq(TaskType) /\ DOMAIN tasks = Task
        /\ tasks[last] \in TaskType
    BY <1>2 DEF TerminalTypeOK, Task
  <2> DEFINE steps == Append(tasks[last].shown, w)
             p == SubSeq(steps, Over(Len(steps)) + 1, Len(steps))
             x == [tasks[last] EXCEPT !.shown = p]
  <2>2. tasks[last].shown \in Shows
    BY <2>1 DEF TaskType
  <2>3. p \in Shows /\ Pushed(tasks[last].shown, w, p)
    BY <2>2, PushIs
  <2>4. AppendStep(w) = [tasks EXCEPT ![last] = x]
    BY <1>2 DEF AppendStep, Over
  <2> HIDE DEF p
  <2>5. x \in TaskType
    BY <2>1, <2>3 DEF TaskType
  <2> HIDE DEF x
  <2>6. Placing(tasks, AppendStep(w), last, x)
    BY <2>4 DEF Placing
  <2>7. /\ AppendStep(w) \in Seq(TaskType) /\ Len(AppendStep(w)) = Len(tasks)
        /\ AppendStep(w)[last] = x /\ \A s \in Task : s # last => AppendStep(w)[s] = tasks[s]
    BY <2>1, <2>5, <2>6, TasksSet
  <2> QED
    BY <1>2, <2>3, <2>7 DEF x
<1> QED
  BY <1>1, <1>2

\* What is put behind the last message disturbs the tasks that are alive.
LEMMA DisturbStep ==
  ASSUME TerminalTypeOK, NEW T \in Seq(TaskType), Len(T) = Len(tasks),
         NEW S, tasks' = Disturb(T, S)
  PROVE  /\ tasks' \in Seq(TaskType) /\ Len(tasks') = Len(tasks) /\ Task' = Task
         /\ \A s \in Task : tasks'[s] = IF s \in S THEN [T[s] EXCEPT !.disturbed = TRUE] ELSE T[s]
<1>0. \A x \in TaskType : [x EXCEPT !.disturbed = TRUE] \in TaskType
  BY DEF TaskType
<1>1. \A s \in 1..Len(T) : T[s] \in TaskType /\ [T[s] EXCEPT !.disturbed = TRUE] \in TaskType
  BY <1>0
<1>2. DOMAIN T = 1..Len(T) /\ Len(T) \in Nat /\ Task = 1..Len(T)
  BY DEF TerminalTypeOK, Task
<1>3. tasks' = [s \in 1..Len(T) |-> IF s \in S THEN [T[s] EXCEPT !.disturbed = TRUE] ELSE T[s]]
  BY <1>2 DEF Disturb
<1>4. tasks' \in [1..Len(T) -> TaskType]
  BY <1>1, <1>3
<1>5. tasks' \in Seq(TaskType) /\ Len(tasks') = Len(T)
  BY <1>2, <1>4
<1> QED
  BY <1>2, <1>3, <1>5 DEF Task

\* Another task is started.
LEMMA StartedStep ==
  ASSUME TerminalTypeOK, NEW place \in Places
  PROVE  LET n == Len(tasks) + 1  new == Started(place) IN
         /\ new \in Seq(TaskType) /\ Len(new) = n /\ n \in Nat
         /\ Task = 1..Len(tasks) /\ n \notin Task /\ DOMAIN new = Task \cup {n}
         /\ new[n] = NewTask(place, AliveTasks # {})
         /\ \A s \in Task : new[s] =
              IF s \in AliveTasks
              THEN [tasks[s] EXCEPT !.disturbed = TRUE, !.late = 0, !.beside = TRUE]
              ELSE [tasks[s] EXCEPT !.late = 0]
<1> DEFINE n == Len(tasks) + 1
           new == Started(place)
           Old(s) == IF s \in AliveTasks
                     THEN [tasks[s] EXCEPT !.disturbed = TRUE, !.late = 0, !.beside = TRUE]
                     ELSE [tasks[s] EXCEPT !.late = 0]
           old == Disturb(tasks, AliveTasks)
           Renewed(s) == [old[s] EXCEPT !.late = 0, !.beside = old[s].beside \/ s \in AliveTasks]
           front == [s \in 1..Len(tasks) |-> Old(s)]
           x == NewTask(place, AliveTasks # {})
<1>1. DOMAIN tasks = 1..Len(tasks) /\ Len(tasks) \in Nat
  BY DEF TerminalTypeOK
<1>2. \A s \in 1..Len(tasks) : Old(s) \in TaskType
  <2>1. \A y \in TaskType : [y EXCEPT !.disturbed = TRUE, !.late = 0, !.beside = TRUE] \in TaskType
                            /\ [y EXCEPT !.late = 0] \in TaskType
    BY DEF TaskType
  <2>2. \A s \in 1..Len(tasks) : tasks[s] \in TaskType
    BY TaskIs
  <2> QED
    BY <2>1, <2>2
<1>3. x \in TaskType
  <2>1. <<>> \in Inboxes /\ <<>> \in Outs /\ <<>> \in Shows /\ "none" \in Ends
    BY DEF Inboxes, Outs, Shows, Ends
  <2> QED
    BY <2>1 DEF NewTask, TaskType
<1>4. new = Append(front, x)
  <2>1. DOMAIN old = 1..Len(tasks)
    BY <1>1 DEF Disturb
  <2>2. ASSUME NEW s \in 1..Len(tasks) PROVE Renewed(s) = Old(s)
    <3>1. tasks[s] \in TaskType /\ old[s] = IF s \in AliveTasks THEN [tasks[s] EXCEPT !.disturbed = TRUE]
                                                             ELSE tasks[s]
      BY <1>1, TaskIs DEF Disturb
    <3>2. CASE s \in AliveTasks
      BY <3>1, <3>2 DEF TaskType
    <3>3. CASE s \notin AliveTasks
      BY <3>1, <3>3 DEF TaskType
    <3> QED
      BY <3>2, <3>3
  <2>3. new = Append([s \in DOMAIN old |-> Renewed(s)], x)
    BY DEF Started
  <2> HIDE DEF old, Old, Renewed, x, new
  <2>4. [s \in DOMAIN old |-> Renewed(s)] = [s \in 1..Len(tasks) |-> Old(s)]
    BY <2>1, <2>2
  <2> QED
    BY <2>3, <2>4
<1>5. front \in Seq(TaskType) /\ Len(front) = Len(tasks)
  <2>1. front \in [1..Len(tasks) -> TaskType]
    BY <1>2
  <2> HIDE DEF front
  <2> QED
    BY <1>1, <2>1
<1>6. \A s \in 1..Len(tasks) : front[s] = Old(s)
  OBVIOUS
<1> HIDE DEF front, x, new, Old
<1>7. /\ new \in Seq(TaskType) /\ Len(new) = n /\ n \in Nat
      /\ \A s \in 1..Len(tasks) : new[s] = front[s]
      /\ new[n] = x
  BY <1>1, <1>3, <1>4, <1>5
<1>8. Task = 1..Len(tasks) /\ n \notin Task /\ DOMAIN new = Task \cup {n}
  BY <1>1, <1>7 DEF Task
<1> QED
  BY <1>1, <1>6, <1>7, <1>8 DEF new, Old, x

-----------------------------------------------------------------------------
(* The coroutine of a task by what it comes to.                            *)

Going == {"connect", "call", "head", "select"}

Goes(t) ==
  /\ \/ tasks[t].at = "connect" /\ tasks' = [tasks EXCEPT ![t].at = "head"]
     \/ tasks[t].at = "head" /\ ~flag /\ tasks' = [tasks EXCEPT ![t].at = "select"]
  /\ UNCHANGED <<running, flag, queue, last, lines>>

EndsNow(t) ==
  /\ tasks[t].at \in Going
  /\ \E end \in Final : EndWith(t, end)
  /\ UNCHANGED <<running, flag, queue, last, lines>>

LEMMA CoroutineIs ==
  ASSUME NEW t \in Task, Coroutine(t)
  PROVE  Goes(t) \/ EndsNow(t) \/ ForwardStep(t) \/ Report(t)
<1>1. CASE Connect(t)
  BY <1>1 DEF Connect, Goes, EndsNow, Going, Final
<1>2. CASE LoopHead(t)
  BY <1>2 DEF LoopHead, Goes, EndsNow, Going, Final
<1>3. CASE TakeEnd(t)
  BY <1>3 DEF TakeEnd, EndsNow, Going
<1>4. CASE Timeout(t)
  BY <1>4 DEF Timeout, EndsNow, Going, Final
<1>5. CASE SkillAnswers(t)
  BY <1>5 DEF SkillAnswers, EndsNow, Going, Final
<1> QED
  BY <1>1, <1>2, <1>3, <1>4, <1>5 DEF Coroutine

\* The main loop changes what messages show, and nothing of a coroutine.
LEMMA HandleMessageStep ==
  ASSUME TerminalTypeOK, HandleMessage
  PROVE  /\ queue # <<>> /\ queue' = Tail(queue) /\ flag' = flag /\ lines' = lines
         /\ running' \in BOOLEAN /\ (running' => running) /\ last' \in {0, last}
         /\ tasks' \in Seq(TaskType) /\ Len(tasks') = Len(tasks) /\ Task' = Task
         /\ \A s \in Task :
              /\ tasks'[s].at = tasks[s].at /\ tasks'[s].out = tasks[s].out
              /\ tasks'[s].sent = tasks[s].sent /\ tasks'[s].end = tasks[s].end
              /\ tasks'[s].late = tasks[s].late /\ tasks'[s].disturbed = tasks[s].disturbed
              /\ tasks'[s].beside = tasks[s].beside
              /\ s # last => tasks'[s] = tasks[s]
<1> DEFINE Like(x, y) ==
      /\ y.at = x.at /\ y.out = x.out /\ y.sent = x.sent /\ y.end = x.end
      /\ y.late = x.late /\ y.disturbed = x.disturbed /\ y.beside = x.beside
<1>0. /\ Task = 1..Len(tasks) /\ Len(tasks) \in Nat /\ \A s \in Task : tasks[s] \in TaskType
      /\ last # 0 => last \in Task
  BY TaskIs DEF TerminalTypeOK
<1>1. /\ queue # <<>> /\ queue' = Tail(queue) /\ flag' = flag /\ lines' = lines
      /\ running' \in BOOLEAN /\ (running' => running) /\ last' \in {0, last}
      /\ Head(queue).task \in Nat
  <2>1. queue # <<>> /\ queue' = Tail(queue) /\ flag' = flag
    BY DEF HandleMessage, TakeStep, TakeResult, TakeError, TakeOutput, TakeDone, Take
  <2>2. Head(queue) \in EventType
    BY <2>1, TailEvents DEF TerminalTypeOK
  <2>3. lines' = lines /\ last' \in {0, last}
    BY DEF HandleMessage, TakeStep, TakeResult, TakeError, TakeOutput, TakeDone
  <2>4. running' = FALSE \/ running' = running
    BY DEF HandleMessage, TakeStep, TakeResult, TakeError, TakeOutput, TakeDone
  <2>5. running' \in BOOLEAN /\ (running' => running)
    <3>1. running \in BOOLEAN
      BY DEF TerminalTypeOK
    <3>2. CASE running' = FALSE
      BY <3>2
    <3>3. CASE running' = running
      BY <3>1, <3>3
    <3> QED
      BY <2>4, <3>2, <3>3
  <2> QED
    BY <2>1, <2>2, <2>3, <2>5 DEF EventType
<1>2. \/ UNCHANGED tasks
      \/ /\ last # 0 /\ tasks' \in Seq(TaskType) /\ Len(tasks') = Len(tasks)
         /\ Like(tasks[last], tasks'[last]) /\ \A s \in Task : s # last => tasks'[s] = tasks[s]
  <2>1. CASE TakeStep
    <3>1. CASE ~running \/ last = 0
      BY <2>1, <3>1 DEF TakeStep, AppendStep
    <3>2. CASE running /\ last # 0
      <4>1. tasks' = AppendStep(Head(queue).task)
        BY <2>1, <3>2 DEF TakeStep
      <4>2. /\ tasks' \in Seq(TaskType) /\ Len(tasks') = Len(tasks)
            /\ \A s \in Task : s # last => tasks'[s] = tasks[s]
            /\ \E p \in Shows : tasks'[last] = [tasks[last] EXCEPT !.shown = p]
        BY <1>1, <3>2, <4>1, AppendStepIs
      <4>3. Like(tasks[last], tasks'[last])
        BY <1>0, <3>2, <4>2 DEF TaskType
      <4> QED
        BY <3>2, <4>2, <4>3
    <3> QED
      BY <3>1, <3>2 DEF TerminalTypeOK
  <2>2. CASE TakeResult
    <3>1. CASE last = 0
      BY <2>2, <3>1 DEF TakeResult
    <3>2. CASE last # 0
      <4> DEFINE x == [tasks[last] EXCEPT !.result = Head(queue).task]
      <4>1. tasks[last] \in TaskType
        BY <1>0, <3>2
      <4>2. x \in TaskType /\ Like(tasks[last], x)
        BY <1>1, <4>1 DEF TaskType
      <4>3. tasks' = [tasks EXCEPT ![last] = x]
        BY <2>2, <3>2 DEF TakeResult
      <4> HIDE DEF x
      <4> QED
        BY <1>0, <3>2, <4>2, <4>3, TaskSet
    <3> QED
      BY <3>1, <3>2
  <2>3. CASE TakeError \/ TakeOutput \/ TakeDone
    BY <2>3 DEF TakeError, TakeOutput, TakeDone
  <2> QED
    BY <2>1, <2>2, <2>3 DEF HandleMessage
<1>3. CASE UNCHANGED tasks
  BY <1>0, <1>1, <1>3 DEF TerminalTypeOK, Task
<1>4. CASE /\ last # 0 /\ tasks' \in Seq(TaskType) /\ Len(tasks') = Len(tasks)
           /\ Like(tasks[last], tasks'[last]) /\ \A s \in Task : s # last => tasks'[s] = tasks[s]
  <2>1. Task' = Task
    BY <1>0, <1>4 DEF Task
  <2> QED
    BY <1>1, <1>4, <2>1
<1> QED
  BY <1>2, <1>3, <1>4

-----------------------------------------------------------------------------
(* Types, where tasks stand, and the interrupt.                            *)

\* Where a task stands fits what it has to report.
Placed(x) ==
  /\ x.end = "none" <=> x.at \in Going
  /\ Len(x.out) > 0 <=> x.at = "report"

\* Since the flag was set a task has reported nothing, or one step, and then it has
\* still to look at the flag.
Heard(x, f) == x.late <= 1 /\ (~f \/ x.at \in {"connect", "select"} => x.late = 0)

Basic == TerminalTypeOK /\ \A t \in Task : Placed(tasks[t]) /\ Heard(tasks[t], flag)

LEMMA BasicInit == TerminalInit => Basic
<1> SUFFICES ASSUME TerminalInit PROVE Basic
  OBVIOUS
<1>1. queue = <<>> /\ tasks = <<>> /\ last = 0 /\ lines = 0 /\ running = FALSE /\ flag = FALSE
  BY DEF TerminalInit
<1>2. Task = {} /\ DOMAIN queue = {} /\ Len(tasks) = 0
  BY <1>1 DEF Task
<1>3. queue \in Seq(EventType) /\ tasks \in Seq(TaskType)
  BY <1>1
<1>4. last \in {0, Len(tasks)} /\ lines \in 0..MaxLines /\ Len(tasks) <= MaxTasks
  BY <1>1, <1>2, TerminalAssumption
<1>5. running \in BOOLEAN /\ flag \in BOOLEAN
  BY <1>1
<1> QED
  BY <1>2, <1>3, <1>4, <1>5 DEF Basic, TerminalTypeOK

\* One task changes, the queue perhaps grows.
LEMMA BasicOne ==
  ASSUME Basic, NEW t \in Task, tasks' \in Seq(TaskType), Len(tasks') = Len(tasks), Task' = Task,
         \A s \in Task : s # t => tasks'[s] = tasks[s],
         Placed(tasks'[t]), Heard(tasks'[t], flag),
         \/ UNCHANGED queue
         \/ \E e \in EventType : e.task = t /\ queue' = Append(queue, e),
         lines' \in 0..MaxLines, UNCHANGED <<running, flag, last>>
  PROVE  Basic'
<1>1. queue' \in Seq(EventType) /\ \A i \in DOMAIN queue' : queue'[i].task \in Task
  <2>1. CASE UNCHANGED queue
    BY <2>1 DEF Basic, TerminalTypeOK
  <2>2. ASSUME NEW e \in EventType, e.task = t, queue' = Append(queue, e)
        PROVE  queue' \in Seq(EventType) /\ \A i \in DOMAIN queue' : queue'[i].task \in Task
    <3>1. queue \in Seq(EventType) /\ \A i \in DOMAIN queue : queue[i].task \in Task
      BY DEF Basic, TerminalTypeOK
    <3> QED
      BY <2>2, <3>1, AppendEvent
  <2> QED
    BY <2>1, <2>2
<1>2. TerminalTypeOK'
  BY <1>1 DEF Basic, TerminalTypeOK
<1>3. \A s \in Task : Placed(tasks'[s]) /\ Heard(tasks'[s], flag)
  BY DEF Basic
<1> QED
  BY <1>2, <1>3 DEF Basic

LEMMA BasicCoroutine ==
  ASSUME Basic, NEW t \in Task, Coroutine(t)
  PROVE  Basic'
<1>0. /\ TerminalTypeOK /\ tasks[t] \in TaskType /\ Placed(tasks[t]) /\ Heard(tasks[t], flag)
      /\ lines \in 0..MaxLines
  BY TaskIs DEF Basic, TerminalTypeOK
<1>1. CASE Goes(t)
  <2>1. PICK a \in {"head", "select"} :
          /\ tasks' = [tasks EXCEPT ![t].at = a] /\ tasks[t].at \in {"connect", "head"}
          /\ a = "select" => ~flag
          /\ tasks[t].at = "connect" => a = "head"
    BY <1>1 DEF Goes
  <2>2. a \in Places
    BY DEF Places
  <2>3. /\ tasks' \in Seq(TaskType) /\ Len(tasks') = Len(tasks) /\ Task' = Task
        /\ tasks'[t] = [tasks[t] EXCEPT !.at = a]
        /\ \A s \in Task : s # t => tasks'[s] = tasks[s]
    BY <1>0, <2>1, <2>2, MoveStep
  <2>4. /\ tasks'[t].at = a /\ tasks'[t].end = tasks[t].end /\ tasks'[t].out = tasks[t].out
        /\ tasks'[t].late = tasks[t].late
    BY <1>0, <2>3 DEF TaskType
  <2>5. Placed(tasks'[t])
    BY <1>0, <2>1, <2>4 DEF Placed, Going
  <2>6. tasks[t].late = 0 \/ (tasks[t].late <= 1 /\ flag /\ a = "head")
    BY <1>0, <2>1 DEF Heard, TerminalTypeOK
  <2>7. Heard(tasks'[t], flag)
    BY <2>4, <2>6 DEF Heard
  <2> QED
    BY <1>0, <1>1, <2>3, <2>7, <2>5, BasicOne DEF Goes
<1>2. CASE EndsNow(t)
  <2>1. PICK end \in Final : EndWith(t, end)
    BY <1>2 DEF EndsNow
  <2>2. /\ tasks' \in Seq(TaskType) /\ Len(tasks') = Len(tasks) /\ Task' = Task
        /\ tasks'[t] = [tasks[t] EXCEPT !.at = "report", !.inbox = <<>>, !.out = Ending(end),
              !.end = IF end \in {"success", "failure"} THEN "result" ELSE "error"]
        /\ \A s \in Task : s # t => tasks'[s] = tasks[s]
    BY <1>0, <2>1, TaskEndStep
  <2>3. /\ tasks'[t].at = "report" /\ tasks'[t].end \in {"result", "error"}
        /\ tasks'[t].out = Ending(end) /\ tasks'[t].late = tasks[t].late
    BY <1>0, <2>2 DEF TaskType
  <2>4. Len(Ending(end)) > 0
    BY EndingType
  <2>5. Placed(tasks'[t])
    BY <2>3, <2>4 DEF Placed, Going
  <2>6. tasks[t].late <= 1 /\ (~flag => tasks[t].late = 0)
    BY <1>0 DEF Heard
  <2>7. Heard(tasks'[t], flag)
    BY <2>3, <2>6 DEF Heard
  <2> QED
    BY <1>0, <1>2, <2>2, <2>5, <2>7, BasicOne DEF EndsNow
<1>3. CASE ForwardStep(t)
  <2>1. /\ tasks' \in Seq(TaskType) /\ Len(tasks') = Len(tasks) /\ Task' = Task
        /\ tasks'[t] = [tasks[t] EXCEPT !.at = "head", !.inbox = Tail(tasks[t].inbox),
              !.sent = tasks[t].sent + 1,
              !.late = IF flag THEN tasks[t].late + 1 ELSE tasks[t].late]
        /\ \A s \in Task : s # t => tasks'[s] = tasks[s]
        /\ [task |-> t, kind |-> "step"] \in EventType
        /\ queue' = Append(queue, [task |-> t, kind |-> "step"])
    BY <1>0, <1>3, ForwardStepStep
  <2>2. /\ tasks'[t].at = "head" /\ tasks'[t].end = tasks[t].end /\ tasks'[t].out = tasks[t].out
        /\ tasks'[t].late = IF flag THEN tasks[t].late + 1 ELSE tasks[t].late
    BY <1>0, <2>1 DEF TaskType
  <2>3. tasks[t].at = "select" /\ UNCHANGED <<running, flag, last, lines>>
    BY <1>3 DEF ForwardStep
  <2>4. Placed(tasks'[t])
    BY <1>0, <2>2, <2>3 DEF Placed, Going
  <2>6. tasks[t].late = 0
    BY <1>0, <2>3 DEF Heard
  <2>7. Heard(tasks'[t], flag)
    BY <2>2, <2>6 DEF Heard
  <2>5. \E e \in EventType : e.task = t /\ queue' = Append(queue, e)
    BY <2>1
  <2> QED
    BY <1>0, <2>1, <2>3, <2>4, <2>5, <2>7, BasicOne
<1>4. CASE Report(t)
  <2>1. Len(tasks[t].out) > 0 /\ tasks[t].out # <<>> /\ tasks[t].out \in Seq(Kinds)
        /\ tasks[t].at = "report" /\ UNCHANGED <<running, flag, last, lines>>
    BY <1>0, <1>4 DEF Report, Placed, TaskType, Outs
  <2>2. /\ tasks' \in Seq(TaskType) /\ Len(tasks') = Len(tasks) /\ Task' = Task
        /\ tasks'[t] = [tasks[t] EXCEPT !.out = Tail(tasks[t].out),
              !.at = IF Len(tasks[t].out) = 1 THEN "over" ELSE "report"]
        /\ \A s \in Task : s # t => tasks'[s] = tasks[s]
        /\ [task |-> t, kind |-> Head(tasks[t].out)] \in EventType
        /\ queue' = Append(queue, [task |-> t, kind |-> Head(tasks[t].out)])
    BY <1>0, <1>4, <2>1, ReportStep
  <2>3. /\ tasks'[t].at = IF Len(tasks[t].out) = 1 THEN "over" ELSE "report"
        /\ tasks'[t].end = tasks[t].end /\ tasks'[t].out = Tail(tasks[t].out)
        /\ tasks'[t].late = tasks[t].late
    BY <1>0, <2>2 DEF TaskType
  <2>4. Len(tasks'[t].out) = Len(tasks[t].out) - 1 /\ Len(tasks[t].out) \in Nat
    BY <2>1, <2>3, TailOut
  <2>8. tasks[t].end # "none"
    BY <1>0, <2>1 DEF Placed, Going
  <2>9. tasks'[t].end # "none" /\ tasks'[t].at \notin Going
    BY <2>3, <2>8 DEF Going
  <2>10. Len(tasks'[t].out) > 0 <=> tasks'[t].at = "report"
    <3>0. tasks'[t].at = IF Len(tasks[t].out) = 1 THEN "over" ELSE "report"
      BY <2>3
    <3> DEFINE n == Len(tasks[t].out)
               m == Len(tasks'[t].out)
    <3>4. n \in Nat /\ n > 0 /\ m = n - 1
      BY <2>1, <2>4
    <3> HIDE DEF n, m
    <3>5. m > 0 <=> n # 1
      BY <3>4
    <3>1. Len(tasks'[t].out) > 0 <=> Len(tasks[t].out) # 1
      BY <3>5 DEF n, m
    <3>2. tasks'[t].at = "report" <=> Len(tasks[t].out) # 1
      BY <3>0
    <3> QED
      BY <3>1, <3>2
  <2>5. Placed(tasks'[t])
    BY <2>9, <2>10 DEF Placed
  <2>7. Heard(tasks'[t], flag)
    BY <1>0, <2>1, <2>3 DEF Heard
  <2>6. \E e \in EventType : e.task = t /\ queue' = Append(queue, e)
    BY <2>2
  <2> QED
    BY <1>0, <2>1, <2>2, <2>5, <2>6, <2>7, BasicOne
<1> QED
  BY <1>1, <1>2, <1>3, <1>4, CoroutineIs

LEMMA BasicReader ==
  ASSUME Basic, NEW t \in Task, Reader(t)
  PROVE  Basic'
<1>0. TerminalTypeOK /\ tasks[t] \in TaskType /\ Placed(tasks[t]) /\ Heard(tasks[t], flag)
  BY TaskIs DEF Basic
<1>1. /\ tasks' \in Seq(TaskType) /\ Len(tasks') = Len(tasks) /\ Task' = Task
      /\ \E i \in Inboxes : tasks'[t] = [tasks[t] EXCEPT !.inbox = i]
      /\ \A s \in Task : s # t => tasks'[s] = tasks[s]
      /\ lines' \in 0..MaxLines
  BY <1>0, ReaderStep
<1>2. /\ tasks'[t].at = tasks[t].at /\ tasks'[t].end = tasks[t].end
      /\ tasks'[t].out = tasks[t].out /\ tasks'[t].late = tasks[t].late
  BY <1>0, <1>1 DEF TaskType
<1>3. Placed(tasks'[t])
  BY <1>0, <1>2 DEF Placed
<1>4. Heard(tasks'[t], flag)
  BY <1>0, <1>2 DEF Heard
<1>5. UNCHANGED <<running, flag, queue, last>>
  BY DEF Reader
<1> QED
  BY <1>1, <1>3, <1>4, <1>5, BasicOne

\* Nothing of a coroutine changes.
LEMMA BasicSame ==
  ASSUME Basic, tasks' \in Seq(TaskType), Len(tasks') = Len(tasks), Task' = Task,
         \A s \in Task :
           /\ tasks'[s].at = tasks[s].at /\ tasks'[s].out = tasks[s].out
           /\ tasks'[s].end = tasks[s].end /\ tasks'[s].late = tasks[s].late,
         UNCHANGED queue \/ (queue # <<>> /\ queue' = Tail(queue)),
         running' \in BOOLEAN, flag' \in BOOLEAN, flag' = flag \/ flag' = TRUE,
         last' \in {0, last}, lines' = lines
  PROVE  Basic'
<1>0. queue \in Seq(EventType) /\ \A i \in DOMAIN queue : queue[i].task \in Task
  BY DEF Basic, TerminalTypeOK
<1>1. queue' \in Seq(EventType) /\ \A i \in DOMAIN queue' : queue'[i].task \in Task
  <2>1. CASE UNCHANGED queue
    BY <1>0, <2>1
  <2>2. CASE queue # <<>> /\ queue' = Tail(queue)
    BY <1>0, <2>2, TailEvents
  <2> QED
    BY <2>1, <2>2
<1>2. last' \in {0, Len(tasks')} /\ lines' \in 0..MaxLines /\ Len(tasks') <= MaxTasks
  BY DEF Basic, TerminalTypeOK
<1>3. TerminalTypeOK'
  BY <1>1, <1>2 DEF TerminalTypeOK
<1>4. ASSUME NEW s \in Task PROVE Placed(tasks'[s]) /\ Heard(tasks'[s], flag')
  <2>1. Placed(tasks[s]) /\ Heard(tasks[s], flag)
    BY DEF Basic
  <2>2. Placed(tasks'[s])
    BY <2>1 DEF Placed
  <2>3. Heard(tasks'[s], flag')
    BY <2>1 DEF Heard
  <2> QED
    BY <2>2, <2>3
<1> QED
  BY <1>3, <1>4 DEF Basic

LEMMA BasicHandleMessage ==
  ASSUME Basic, HandleMessage
  PROVE  Basic'
<1>1. TerminalTypeOK /\ flag \in BOOLEAN
  BY DEF Basic, TerminalTypeOK
<1> QED
  BY <1>1, HandleMessageStep, BasicSame

LEMMA BasicDisturb ==
  ASSUME Basic, NEW T \in Seq(TaskType), Len(T) = Len(tasks),
         \A s \in Task : /\ T[s].at = tasks[s].at /\ T[s].out = tasks[s].out
                         /\ T[s].end = tasks[s].end /\ T[s].late = tasks[s].late,
         tasks' = Disturb(T, AliveTasks), running' \in BOOLEAN, last' \in {0, last},
         flag' = flag \/ flag' = TRUE, UNCHANGED <<queue, lines>>
  PROVE  Basic'
<1>1. TerminalTypeOK /\ flag \in BOOLEAN /\ \A s \in Task : T[s] \in TaskType
  BY TaskIs DEF Basic, TerminalTypeOK
<1>2. /\ tasks' \in Seq(TaskType) /\ Len(tasks') = Len(tasks) /\ Task' = Task
      /\ \A s \in Task : tasks'[s] =
           IF s \in AliveTasks THEN [T[s] EXCEPT !.disturbed = TRUE] ELSE T[s]
  BY <1>1, DisturbStep
<1>3. ASSUME NEW s \in Task
      PROVE  /\ tasks'[s].at = tasks[s].at /\ tasks'[s].out = tasks[s].out
             /\ tasks'[s].end = tasks[s].end /\ tasks'[s].late = tasks[s].late
  <2>1. /\ tasks'[s].at = T[s].at /\ tasks'[s].out = T[s].out
        /\ tasks'[s].end = T[s].end /\ tasks'[s].late = T[s].late
    BY <1>1, <1>2 DEF TaskType
  <2> QED
    BY <2>1
<1>4. flag' \in BOOLEAN
  <2>1. CASE flag' = flag
    BY <1>1, <2>1
  <2>2. CASE flag' = TRUE
    BY <2>2
  <2> QED
    BY <2>1, <2>2
<1> QED
  BY <1>2, <1>3, <1>4, BasicSame

\* What a start changes of the tasks there are.
LateCleared(y, z) ==
  z = [y EXCEPT !.disturbed = TRUE, !.late = 0, !.beside = TRUE] \/ z = [y EXCEPT !.late = 0]

LEMMA ClearedIs ==
  ASSUME NEW y \in TaskType, NEW z, LateCleared(y, z)
  PROVE  /\ z.at = y.at /\ z.inbox = y.inbox /\ z.out = y.out /\ z.sent = y.sent /\ z.end = y.end
         /\ z.shown = y.shown /\ z.result = y.result /\ z.late = 0
         /\ y.beside => z.beside
<1>1. CASE z = [y EXCEPT !.disturbed = TRUE, !.late = 0, !.beside = TRUE]
  BY <1>1 DEF TaskType
<1>2. CASE z = [y EXCEPT !.late = 0]
  BY <1>2 DEF TaskType
<1> QED
  BY <1>1, <1>2 DEF LateCleared

LEMMA BasicStarted ==
  ASSUME Basic, NEW place \in Places, Len(tasks) < MaxTasks,
         NEW x \in TaskType, Placed(x), x.late = 0,
         Placing(Started(place), tasks', Len(tasks) + 1, x),
         last' \in {0, Len(tasks) + 1}, running' \in BOOLEAN, flag' = FALSE,
         UNCHANGED <<queue, lines>>
  PROVE  Basic'
<1> DEFINE n == Len(tasks) + 1
           new == Started(place)
<1>0. TerminalTypeOK /\ Len(tasks) \in Nat /\ \A s \in Task : tasks[s] \in TaskType
  BY TaskIs DEF Basic
<1>1. /\ new \in Seq(TaskType) /\ Len(new) = n /\ n \in Nat
      /\ Task = 1..Len(tasks) /\ n \notin Task /\ DOMAIN new = Task \cup {n}
      /\ \A s \in Task : new[s] =
           IF s \in AliveTasks
           THEN [tasks[s] EXCEPT !.disturbed = TRUE, !.late = 0, !.beside = TRUE]
           ELSE [tasks[s] EXCEPT !.late = 0]
  BY <1>0, StartedStep
<1> HIDE DEF n, new
<1>2. Placing(new, tasks', n, x)
  BY DEF n, new
<1>3. /\ tasks' \in Seq(TaskType) /\ Len(tasks') = n /\ Task' = Task \cup {n}
      /\ tasks'[n] = x /\ \A s \in Task : tasks'[s] = new[s]
  <2>1. n \in DOMAIN new /\ new \in Seq(TaskType)
    BY <1>1
  <2>2. /\ tasks' \in Seq(TaskType) /\ Len(tasks') = Len(new) /\ DOMAIN tasks' = DOMAIN new
        /\ tasks'[n] = x /\ \A j \in DOMAIN new : j # n => tasks'[j] = new[j]
    BY <1>2, <2>1, TasksSet
  <2> QED
    BY <1>1, <2>2 DEF Task
<1>4. n <= MaxTasks
  BY <1>0, TerminalAssumption DEF n
<1>5. last' \in {0, n}
  BY DEF n
<1>6. /\ queue \in Seq(EventType) /\ \A i \in DOMAIN queue : queue[i].task \in Task
      /\ lines \in 0..MaxLines
  BY DEF Basic, TerminalTypeOK
<1>7. TerminalTypeOK'
  BY <1>3, <1>4, <1>5, <1>6 DEF TerminalTypeOK
<1>8. ASSUME NEW s \in Task' PROVE Placed(tasks'[s]) /\ Heard(tasks'[s], flag')
  <2>1. CASE s = n
    BY <1>3, <2>1 DEF Heard
  <2>2. CASE s \in Task
    <3>1. Placed(tasks[s])
      BY <2>2 DEF Basic
    <3>2. /\ tasks'[s].at = tasks[s].at /\ tasks'[s].out = tasks[s].out
          /\ tasks'[s].end = tasks[s].end /\ tasks'[s].late = 0
      <4>1. LateCleared(tasks[s], tasks'[s])
        BY <1>1, <1>3, <2>2 DEF LateCleared
      <4> QED
        BY <1>0, <2>2, <4>1, ClearedIs
    <3>3. Placed(tasks'[s])
      BY <3>1, <3>2 DEF Placed
    <3>4. Heard(tasks'[s], flag')
      BY <3>2 DEF Heard
    <3> QED
      BY <3>3, <3>4
  <2> QED
    BY <1>3, <2>1, <2>2
<1> QED
  BY <1>7, <1>8 DEF Basic

\* What the key that starts a task puts at the end of the list.
NewOne(place) == NewTask(place, AliveTasks # {})
NewCoder == [NewOne("over") EXCEPT !.result = Len(tasks) + 1, !.end = "result"]

LEMMA NewOneIs ==
  ASSUME TerminalTypeOK, NEW place \in {"connect", "call"}
  PROVE  /\ NewOne(place) \in TaskType /\ Placed(NewOne(place)) /\ NewOne(place).late = 0
         /\ Placing(Started(place), Started(place), Len(tasks) + 1, NewOne(place))
<1>1. /\ <<>> \in Inboxes /\ <<>> \in Outs /\ <<>> \in Shows /\ "none" \in Ends
      /\ place \in Places /\ Len(<<>>) = 0
  BY DEF Inboxes, Outs, Shows, Ends, Places
<1>2. NewOne(place) \in TaskType
  BY <1>1 DEF NewOne, NewTask, TaskType
<1>3. Placed(NewOne(place)) /\ NewOne(place).late = 0
  BY <1>1 DEF NewOne, NewTask, Placed, Going
<1>4. /\ Started(place) \in Seq(TaskType)
      /\ Started(place)[Len(tasks) + 1] = NewOne(place)
  BY <1>1, StartedStep DEF NewOne
<1> QED
  BY <1>2, <1>3, <1>4 DEF Placing

LEMMA NewCoderIs ==
  ASSUME TerminalTypeOK, SubmitCoder
  PROVE  /\ NewCoder \in TaskType /\ Placed(NewCoder) /\ NewCoder.late = 0
         /\ Placing(Started("over"), tasks', Len(tasks) + 1, NewCoder)
<1>1. /\ <<>> \in Inboxes /\ <<>> \in Outs /\ <<>> \in Shows /\ "result" \in Ends
      /\ "over" \in Places /\ Len(<<>>) = 0 /\ Len(tasks) + 1 \in Nat
  BY DEF Inboxes, Outs, Shows, Ends, Places, TerminalTypeOK
<1>2. NewCoder \in TaskType
  BY <1>1 DEF NewCoder, NewOne, NewTask, TaskType
<1>3. Placed(NewCoder) /\ NewCoder.late = 0
  BY <1>1 DEF NewCoder, NewOne, NewTask, Placed, Going
<1>4. Started("over") \in Seq(TaskType) /\ Started("over")[Len(tasks) + 1] = NewOne("over")
      /\ Len(tasks) + 1 \in DOMAIN Started("over")
  BY <1>1, StartedStep DEF NewOne
<1>5. tasks' = [Started("over") EXCEPT ![Len(tasks) + 1].result = Len(tasks) + 1,
                                       ![Len(tasks) + 1].end = "result"]
  BY DEF SubmitCoder
<1> QED
  BY <1>2, <1>3, <1>4, <1>5 DEF NewCoder, Placing

LEMMA BasicKey ==
  ASSUME Basic, Key
  PROVE  Basic'
<1>0. TerminalTypeOK /\ running \in BOOLEAN
  BY DEF Basic, TerminalTypeOK
<1>1. ASSUME NEW place \in {"connect", "call"}, Submit(place) PROVE Basic'
  <2>1. place \in Places
    BY DEF Places
  <2> QED
    BY <1>0, <1>1, <2>1, NewOneIs, BasicStarted DEF Submit
<1>2. CASE SubmitCoder
  <2>1. "over" \in Places
    BY DEF Places
  <2> QED
    BY <1>0, <1>2, <2>1, NewCoderIs, BasicStarted DEF SubmitCoder
<1>6. tasks \in Seq(TaskType)
  BY DEF Basic, TerminalTypeOK
<1>3. CASE Interrupt
  <2> DEFINE T == AppendStep(0)
  <2>1. /\ T \in Seq(TaskType) /\ Len(T) = Len(tasks)
        /\ \A s \in Task : T[s] = tasks[s] \/ \E p \in Shows : T[s] = [tasks[s] EXCEPT !.shown = p]
    BY <1>0, AppendStepIs
  <2>2. tasks' = Disturb(T, AliveTasks)
    BY <1>3 DEF Interrupt
  <2> HIDE DEF T
  <2>3. \A s \in Task : /\ T[s].at = tasks[s].at /\ T[s].out = tasks[s].out
                        /\ T[s].end = tasks[s].end /\ T[s].late = tasks[s].late
    BY <1>0, <2>1, TaskIs DEF TaskType
  <2>4. running' \in BOOLEAN /\ flag' = TRUE /\ last' = last /\ UNCHANGED <<queue, lines>>
    BY <1>3 DEF Interrupt
  <2> QED
    BY <2>1, <2>2, <2>3, <2>4, BasicDisturb
<1>4. CASE Reset
  BY <1>4, <1>6, BasicDisturb DEF Reset
<1>5. CASE Notice
  BY <1>0, <1>5, <1>6, BasicDisturb DEF Notice
<1> QED
  BY <1>1, <1>2, <1>3, <1>4, <1>5 DEF Key

LEMMA BasicStep == Basic /\ [TerminalNext]_terminalVars => Basic'
<1> SUFFICES ASSUME Basic, [TerminalNext]_terminalVars PROVE Basic'
  OBVIOUS
<1>1. CASE UNCHANGED terminalVars
  BY <1>1 DEF terminalVars, Basic, TerminalTypeOK, Task
<1>2. CASE \E t \in Task : Coroutine(t) \/ Reader(t)
  BY <1>2, BasicCoroutine, BasicReader
<1> QED
  BY <1>1, <1>2, BasicHandleMessage, BasicKey DEF TerminalNext

\* The records of tasks and the events keep their types, and the message at
\* the end of the screen is the newest task's or none.
THEOREM TerminalTypeCorrect == TerminalSpec => []TerminalTypeOK
<1>1. Basic => TerminalTypeOK
  BY DEF Basic
<1> QED
  BY <1>1, BasicInit, BasicStep, PTL DEF TerminalSpec

\* An interrupted task reports one more step at the most: between two reports
\* it looks at the flag.
THEOREM InterruptsAreHeard == TerminalSpec => []InterruptIsHeard
<1>1. Basic => InterruptIsHeard
  BY DEF Basic, Heard, InterruptIsHeard
<1> QED
  BY <1>1, BasicInit, BasicStep, PTL DEF TerminalSpec

-----------------------------------------------------------------------------
(* What is under way of a task: its events in a queue q and what its record *)
(* x still has to report.                                                   *)

Follows(k, l) == Rank[k] < Rank[l] \/ (k = "step" /\ l = "step")

\* Its events are in the order of an ending, behind its steps.
Ordered(q, t, x) ==
  /\ \A i, j \in DOMAIN q : i < j /\ q[i].task = t /\ q[j].task = t => Follows(q[i].kind, q[j].kind)
  /\ \A i \in DOMAIN q, j \in DOMAIN x.out : q[i].task = t => Rank[q[i].kind] < Rank[x.out[j]]
  /\ \A j \in DOMAIN x.out : Rank[x.out[j]] > 0
  /\ Increasing(x.out)

Queued(q, t, k) == \E i \in DOMAIN q : q[i].task = t /\ q[i].kind = k
Waits(q, t, x, k) == Queued(q, t, k) \/ \E j \in DOMAIN x.out : x.out[j] = k

\* What is under way fits how the task ended.
Fits(q, t, x) ==
  /\ x.end = "none" => \A i \in DOMAIN q : q[i].task = t => q[i].kind = "step"
  /\ x.end # "result" => ~Waits(q, t, x, "result")
  /\ x.end # "error" => ~Waits(q, t, x, "error")

Lives(q, t, x) == x.at # "over" \/ \E i \in DOMAIN q : q[i].task = t
Steps(q, t) == {i \in DOMAIN q : q[i].task = t /\ q[i].kind = "step"}

\* The main loop has still to hear how the task ended.
Ahead(q, t, x) == x.end = "none" \/ Waits(q, t, x, "result") \/ Waits(q, t, x, "error")

\* A message that is exact so far; while the end is ahead it is the last of a
\* busy screen.
Taken(q, t, x) == x.sent - Cardinality(Steps(q, t))
Shown(q, t, x, busy, bottom) ==
  /\ \A i \in DOMAIN x.shown : x.shown[i] = t
  /\ Len(x.shown) = Least(Taken(q, t, x), StepsCap)
  /\ Ahead(q, t, x) => busy /\ bottom = t /\ x.result = 0
  /\ ~Ahead(q, t, x) => /\ Steps(q, t) = {}
                        /\ x.result = IF x.end = "result" THEN t ELSE 0

LEMMA StepsAreFinite ==
  ASSUME NEW q \in Seq(EventType), NEW t
  PROVE  IsFiniteSet(Steps(q, t)) /\ Cardinality(Steps(q, t)) \in Nat
<1>1. IsFiniteSet(DOMAIN q)
  <2>1. DOMAIN q = 1..Len(q) /\ Len(q) \in Nat
    OBVIOUS
  <2> QED
    BY <2>1, FS_Interval
<1>2. Steps(q, t) \in SUBSET (DOMAIN q)
  BY DEF Steps
<1>3. IsFiniteSet(Steps(q, t))
  BY <1>1, <1>2, FS_Subset
<1> QED
  BY <1>3, FS_CardinalityType

\* An event of another task changes nothing.
LEMMA AppendOther ==
  ASSUME NEW q \in Seq(EventType), NEW e \in EventType, NEW s, e.task # s
  PROVE  /\ Steps(Append(q, e), s) = Steps(q, s)
         /\ \A i \in DOMAIN Append(q, e) :
              Append(q, e)[i].task = s => i \in DOMAIN q /\ Append(q, e)[i] = q[i]
         /\ \A i \in DOMAIN q : i \in DOMAIN Append(q, e) /\ Append(q, e)[i] = q[i]
<1> DEFINE p == Append(q, e)
<1>1. /\ DOMAIN p = DOMAIN q \cup {Len(q) + 1} /\ Len(q) + 1 \notin DOMAIN q
      /\ \A i \in DOMAIN q : p[i] = q[i]
      /\ p[Len(q) + 1] = e
  BY AppendEvent
<1> HIDE DEF p
<1>2. Steps(p, s) = Steps(q, s)
  BY <1>1 DEF Steps
<1>3. \A i \in DOMAIN p : p[i].task = s => i \in DOMAIN q /\ p[i] = q[i]
  BY <1>1
<1> QED
  BY <1>1, <1>2, <1>3 DEF p

\* A step more.
LEMMA AppendedStep ==
  ASSUME NEW q \in Seq(EventType), NEW e \in EventType, e.kind = "step", NEW p, p = Append(q, e)
  PROVE  Cardinality(Steps(p, e.task)) = Cardinality(Steps(q, e.task)) + 1
<1>1. /\ DOMAIN p = DOMAIN q \cup {Len(q) + 1} /\ Len(q) + 1 \notin DOMAIN q
      /\ \A i \in DOMAIN q : p[i] = q[i]
      /\ p[Len(q) + 1] = e
  BY AppendEvent
<1>2. Steps(p, e.task) = Steps(q, e.task) \cup {Len(q) + 1} /\ Len(q) + 1 \notin Steps(q, e.task)
  BY <1>1 DEF Steps
<1> QED
  BY <1>2, StepsAreFinite, FS_AddElement

\* The head is taken: the steps behind it stay.
LEMMA TailSteps ==
  ASSUME NEW q \in Seq(EventType), q # <<>>, NEW p, p = Tail(q), NEW s
  PROVE  Cardinality(Steps(p, s)) = Cardinality(Steps(q, s) \ {1})
<1>1. /\ \A i \in DOMAIN p : i \in Nat /\ i >= 1 /\ i + 1 \in DOMAIN q /\ p[i] = q[i + 1]
      /\ \A i \in DOMAIN q : i \in Nat /\ (i # 1 => i - 1 \in DOMAIN p /\ p[i - 1] = q[i])
      /\ p \in Seq(EventType)
  BY TailEvents
<1> DEFINE S == Steps(p, s)
           T == Steps(q, s) \ {1}
           f == [i \in S |-> i + 1]
<1>2. \A i \in S : i \in Nat /\ i + 1 \in T
  BY <1>1 DEF Steps
<1>3. \A i \in T : i \in Nat /\ i - 1 \in S /\ (i - 1) + 1 = i
  BY <1>1 DEF Steps
<1> HIDE DEF S, T
<1>4. f \in [S -> T] /\ \A i \in S : f[i] = i + 1
  BY <1>2
<1> HIDE DEF f
<1>5. f \in Surjection(S, T)
  BY <1>3, <1>4 DEF Surjection
<1>6. f \in Injection(S, T)
  BY <1>2, <1>4 DEF Injection, IsInjective
<1>7. ExistsBijection(S, T)
  BY <1>5, <1>6 DEF ExistsBijection, Bijection
<1>8. IsFiniteSet(S)
  BY <1>1, StepsAreFinite DEF S
<1>9. Cardinality(T) = Cardinality(S)
  BY <1>7, <1>8, FS_Bijection
<1> QED
  BY <1>9 DEF S, T

LEMMA TailStep ==
  ASSUME NEW q \in Seq(EventType), q # <<>>, NEW p, p = Tail(q), NEW s
  PROVE  Cardinality(Steps(p, s)) =
           IF Head(q).task = s /\ Head(q).kind = "step"
           THEN Cardinality(Steps(q, s)) - 1 ELSE Cardinality(Steps(q, s))
<1>1. 1 \in Steps(q, s) <=> Head(q).task = s /\ Head(q).kind = "step"
  BY TailEvents DEF Steps
<1>2. Cardinality(Steps(p, s)) = Cardinality(Steps(q, s) \ {1})
  BY TailSteps
<1>3. IsFiniteSet(Steps(q, s))
  BY StepsAreFinite
<1>4. Cardinality(Steps(q, s) \ {1}) =
        IF 1 \in Steps(q, s) THEN Cardinality(Steps(q, s)) - 1 ELSE Cardinality(Steps(q, s))
  BY <1>3, FS_RemoveElement
<1> QED
  BY <1>1, <1>2, <1>4

\* What an event of another task leaves of what is under way.
LEMMA AppendKeeps ==
  ASSUME NEW q \in Seq(EventType), NEW e \in EventType, NEW s, e.task # s, NEW p, p = Append(q, e),
         NEW x, NEW busy, NEW bottom
  PROVE  /\ Ordered(q, s, x) => Ordered(p, s, x)
         /\ Fits(q, s, x) => Fits(p, s, x)
         /\ Lives(p, s, x) => Lives(q, s, x)
         /\ Shown(q, s, x, busy, bottom) => Shown(p, s, x, busy, bottom)
<1>1. /\ Steps(p, s) = Steps(q, s)
      /\ \A i \in DOMAIN p : p[i].task = s => i \in DOMAIN q /\ p[i] = q[i]
      /\ \A i \in DOMAIN q : i \in DOMAIN p /\ p[i] = q[i]
  BY AppendOther
<1>2. \A k : Queued(p, s, k) <=> Queued(q, s, k)
  BY <1>1 DEF Queued
<1>3. Ordered(q, s, x) => Ordered(p, s, x)
  BY <1>1 DEF Ordered
<1>4. Fits(q, s, x) => Fits(p, s, x)
  BY <1>1, <1>2 DEF Fits, Waits
<1>5. Lives(p, s, x) => Lives(q, s, x)
  BY <1>1 DEF Lives
<1>6. Ahead(p, s, x) <=> Ahead(q, s, x)
  BY <1>2 DEF Ahead, Waits
<1>7. Shown(q, s, x, busy, bottom) => Shown(p, s, x, busy, bottom)
  BY <1>1, <1>6 DEF Shown, Taken
<1> QED
  BY <1>3, <1>4, <1>5, <1>7

\* What is left when the main loop has taken an event, of any task ...
LEMMA TailQueued ==
  ASSUME NEW q \in Seq(EventType), q # <<>>, NEW p, p = Tail(q), NEW s
  PROVE  /\ \A k : Queued(p, s, k) => Queued(q, s, k)
         /\ \A k : Queued(q, s, k) => Queued(p, s, k) \/ (Head(q).task = s /\ Head(q).kind = k)
<1>1. /\ \A i \in DOMAIN p : i \in Nat /\ i >= 1 /\ i + 1 \in DOMAIN q /\ p[i] = q[i + 1]
      /\ \A i \in DOMAIN q : i \in Nat /\ (i # 1 => i - 1 \in DOMAIN p /\ p[i - 1] = q[i])
      /\ 1 \in DOMAIN q /\ Head(q) = q[1]
  BY TailEvents
<1>2. \A k : Queued(p, s, k) => Queued(q, s, k)
  BY <1>1 DEF Queued
<1>3. \A k : Queued(q, s, k) => Queued(p, s, k) \/ (Head(q).task = s /\ Head(q).kind = k)
  BY <1>1 DEF Queued
<1> QED
  BY <1>2, <1>3

LEMMA TailKeeps ==
  ASSUME NEW q \in Seq(EventType), q # <<>>, NEW p, p = Tail(q), NEW s, NEW x
  PROVE  /\ Ordered(q, s, x) => Ordered(p, s, x)
         /\ Fits(q, s, x) => Fits(p, s, x)
         /\ Lives(p, s, x) => Lives(q, s, x)
<1>1. /\ \A i \in DOMAIN p : i \in Nat /\ i >= 1 /\ i + 1 \in DOMAIN q /\ p[i] = q[i + 1]
      /\ \A i \in DOMAIN q : i \in Nat /\ (i # 1 => i - 1 \in DOMAIN p /\ p[i - 1] = q[i])
      /\ 1 \in DOMAIN q /\ Head(q) = q[1]
  BY TailEvents
<1>2. \A k : Queued(p, s, k) => Queued(q, s, k)
  BY TailQueued
<1>4. Ordered(q, s, x) => Ordered(p, s, x)
  <2> SUFFICES ASSUME Ordered(q, s, x) PROVE Ordered(p, s, x)
    OBVIOUS
  <2>1. ASSUME NEW i \in DOMAIN p, NEW j \in DOMAIN p, i < j, p[i].task = s, p[j].task = s
        PROVE  Follows(p[i].kind, p[j].kind)
    <3>1. i + 1 \in DOMAIN q /\ j + 1 \in DOMAIN q /\ i + 1 < j + 1 /\ p[i] = q[i + 1] /\ p[j] = q[j + 1]
      BY <1>1, <2>1
    <3> QED
      BY <2>1, <3>1 DEF Ordered
  <2>2. ASSUME NEW i \in DOMAIN p, NEW j \in DOMAIN x.out, p[i].task = s
        PROVE  Rank[p[i].kind] < Rank[x.out[j]]
    <3>1. i + 1 \in DOMAIN q /\ p[i] = q[i + 1]
      BY <1>1
    <3> QED
      BY <2>2, <3>1 DEF Ordered
  <2> QED
    BY <2>1, <2>2 DEF Ordered
<1>5. Fits(q, s, x) => Fits(p, s, x)
  BY <1>1, <1>2 DEF Fits, Waits
<1>6. Lives(p, s, x) => Lives(q, s, x)
  BY <1>1 DEF Lives
<1> QED
  BY <1>4, <1>5, <1>6

\* ... and of a task that has no part in the event.
LEMMA TailShows ==
  ASSUME NEW q \in Seq(EventType), q # <<>>, NEW p, p = Tail(q), NEW s, Head(q).task # s,
         NEW x, ~Ahead(q, s, x), NEW b, NEW l, Shown(q, s, x, b, l), NEW busy, NEW bottom
  PROVE  Shown(p, s, x, busy, bottom)
<1>1. \A k : Queued(p, s, k) <=> Queued(q, s, k)
  BY TailQueued
<1>2. ~Ahead(p, s, x)
  BY <1>1 DEF Ahead, Waits
<1>3. Steps(q, s) = {}
  BY DEF Shown
<1>4. Steps(p, s) = {}
  BY <1>1, <1>3 DEF Steps, Queued
<1> QED
  BY <1>2, <1>3, <1>4 DEF Shown, Taken

\* The first event is before all others of its task.
LEMMA HeadFirst ==
  ASSUME NEW q \in Seq(EventType), q # <<>>, NEW p, p = Tail(q), NEW s, NEW x, Head(q).task = s,
         Ordered(q, s, x), Head(q).kind # "step"
  PROVE  /\ \A k \in Kinds : Queued(p, s, k) => Rank[Head(q).kind] < Rank[k]
         /\ \A j \in DOMAIN x.out : Rank[Head(q).kind] < Rank[x.out[j]]
         /\ Steps(p, s) = {} /\ Steps(q, s) = {}
<1>1. /\ \A i \in DOMAIN p : i \in Nat /\ i >= 1 /\ i + 1 \in DOMAIN q /\ p[i] = q[i + 1]
      /\ \A i \in DOMAIN q : i \in Nat /\ (i # 1 => i - 1 \in DOMAIN p /\ p[i - 1] = q[i])
      /\ 1 \in DOMAIN q /\ Head(q) = q[1]
  BY TailEvents
<1>2. ASSUME NEW i \in DOMAIN p, p[i].task = s
      PROVE  Rank[Head(q).kind] < Rank[p[i].kind]
  <2>1. i + 1 \in DOMAIN q /\ 1 < i + 1 /\ p[i] = q[i + 1]
    BY <1>1
  <2>2. Follows(q[1].kind, q[i + 1].kind)
    BY <1>1, <1>2, <2>1 DEF Ordered
  <2> QED
    BY <1>1, <2>1, <2>2 DEF Follows
<1>3. \A k \in Kinds : Queued(p, s, k) => Rank[Head(q).kind] < Rank[k]
  BY <1>2 DEF Queued
<1>4. \A j \in DOMAIN x.out : Rank[Head(q).kind] < Rank[x.out[j]]
  BY <1>1 DEF Ordered
<1>5. Head(q).kind \in Kinds /\ "step" \in Kinds
  BY TailEvents DEF EventType, Kinds
<1>6. Rank[Head(q).kind] \in 0..3 /\ Rank["step"] = 0
  BY <1>5, RankIs
<1>7. Steps(p, s) = {}
  <2>1. ~Queued(p, s, "step")
    BY <1>3, <1>5, <1>6
  <2> QED
    BY <2>1 DEF Steps, Queued
<1>8. Steps(q, s) = {}
  <2>1. ~Queued(q, s, "step")
    <3>1. Queued(q, s, "step") => Queued(p, s, "step") \/ (Head(q).task = s /\ Head(q).kind = "step")
      BY TailQueued
    <3>2. Rank["step"] = 0 /\ ~(Rank[Head(q).kind] < 0)
      BY <1>6
    <3> QED
      BY <1>3, <1>5, <3>1, <3>2
  <2> QED
    BY <2>1 DEF Steps, Queued
<1> QED
  BY <1>3, <1>4, <1>7, <1>8

-----------------------------------------------------------------------------
(* What SpinnerStops rests on: whoever keeps the terminal busy will tell it *)
(* of its end.                                                              *)

\* Of a task the main loop has still to hear "done".
Owes(q, t, x) == x.end = "none" \/ Waits(q, t, x, "done")

\* A terminal that is busy is so for the newest task, and has still to hear
\* the end of that one.
BusyForATask ==
  running => Len(tasks) \in Task /\ Owes(queue, Len(tasks), tasks[Len(tasks)])

LEMMA EndingHasDone == ASSUME NEW end \in Final PROVE \E i \in DOMAIN Ending(end) : Ending(end)[i] = "done"
<1>1. CASE end = "success"
  <2>1. 3 \in DOMAIN <<"result", "output", "done">> /\ <<"result", "output", "done">>[3] = "done"
    OBVIOUS
  <2> QED
    BY <1>1, <2>1 DEF Ending
<1>2. CASE end = "failure"
  <2>1. 2 \in DOMAIN <<"result", "done">> /\ <<"result", "done">>[2] = "done"
    OBVIOUS
  <2> QED
    BY <1>2, <2>1 DEF Ending
<1>3. CASE end = "broken"
  <2>1. 2 \in DOMAIN <<"error", "done">> /\ <<"error", "done">>[2] = "done"
    OBVIOUS
  <2> QED
    BY <1>3, <2>1 DEF Ending
<1> QED
  BY <1>1, <1>2, <1>3 DEF Final

\* A queue that grows owes no less.
LEMMA AppendOwes ==
  ASSUME NEW q \in Seq(EventType), NEW e \in EventType, NEW s, NEW x, Owes(q, s, x)
  PROVE  Owes(Append(q, e), s, x)
<1>1. \A i \in DOMAIN q : i \in DOMAIN Append(q, e) /\ Append(q, e)[i] = q[i]
  BY AppendEvent
<1> QED
  BY <1>1 DEF Owes, Waits, Queued

\* No coroutine takes back what its task owes.
LEMMA CoroutineOwes ==
  ASSUME Basic, NEW t \in Task, Coroutine(t) \/ Reader(t), NEW s \in Task, Owes(queue, s, tasks[s])
  PROVE  Len(tasks') = Len(tasks) /\ Task' = Task /\ running' = running /\ Owes(queue', s, tasks'[s])
<1>0. /\ TerminalTypeOK /\ queue \in Seq(EventType) /\ Placed(tasks[t])
      /\ tasks[t] \in TaskType
  BY TaskIs DEF Basic, TerminalTypeOK
<1> DEFINE x == tasks[t]
           y == tasks'[t]
           Kept == /\ Len(tasks') = Len(tasks) /\ Task' = Task
                   /\ \A r \in Task : r # t => tasks'[r] = tasks[r]
<1>1. CASE Reader(t)
  <2>1. Kept /\ \E i \in Inboxes : y = [x EXCEPT !.inbox = i]
    BY <1>0, <1>1, ReaderStep
  <2>2. y.end = x.end /\ y.out = x.out
    BY <1>0, <2>1 DEF TaskType
  <2>3. UNCHANGED <<queue, running>>
    BY <1>1 DEF Reader
  <2> QED
    BY <2>1, <2>2, <2>3 DEF Owes, Waits
<1>2. CASE Goes(t)
  <2>1. PICK a \in Places : tasks' = [tasks EXCEPT ![t].at = a]
    BY <1>2 DEF Goes, Places
  <2>2. Kept /\ y = [x EXCEPT !.at = a]
    BY <1>0, <2>1, MoveStep
  <2>3. y.end = x.end /\ y.out = x.out
    BY <1>0, <2>2 DEF TaskType
  <2>4. UNCHANGED <<queue, running>>
    BY <1>2 DEF Goes
  <2> QED
    BY <2>2, <2>3, <2>4 DEF Owes, Waits
<1>3. CASE EndsNow(t)
  <2>1. PICK end \in Final : EndWith(t, end)
    BY <1>3 DEF EndsNow
  <2>2. /\ Kept
        /\ y = [x EXCEPT !.at = "report", !.inbox = <<>>, !.out = Ending(end),
                  !.end = IF end \in {"success", "failure"} THEN "result" ELSE "error"]
    BY <1>0, <2>1, TaskEndStep
  <2>3. y.out = Ending(end)
    BY <1>0, <2>2 DEF TaskType
  <2>4. UNCHANGED <<queue, running>>
    BY <1>3 DEF EndsNow
  <2>5. Owes(queue, t, y)
    BY <2>3, EndingHasDone DEF Owes, Waits
  <2> QED
    BY <2>2, <2>4, <2>5
<1>4. CASE ForwardStep(t)
  <2> DEFINE e == [task |-> t, kind |-> "step"]
  <2>1. /\ Kept /\ queue' = Append(queue, e) /\ e \in EventType
        /\ y = [x EXCEPT !.at = "head", !.inbox = Tail(x.inbox), !.sent = x.sent + 1,
                         !.late = IF flag THEN x.late + 1 ELSE x.late]
    BY <1>0, <1>4, ForwardStepStep
  <2>2. y.end = x.end /\ y.out = x.out
    BY <1>0, <2>1 DEF TaskType
  <2>3. running' = running
    BY <1>4 DEF ForwardStep
  <2> HIDE DEF e
  <2>4. Owes(queue', s, tasks[s])
    BY <1>0, <2>1, AppendOwes
  <2> QED
    BY <2>1, <2>2, <2>3, <2>4 DEF Owes, Waits
<1>5. CASE Report(t)
  <2> DEFINE k == Head(x.out)
             e == [task |-> t, kind |-> k]
  <2>1. x.out \in Seq(Kinds) /\ x.out # <<>> /\ x.end # "none" /\ running' = running
    BY <1>0, <1>5 DEF Report, Placed, Going, TaskType, Outs
  <2>2. /\ Kept /\ queue' = Append(queue, e) /\ e \in EventType
        /\ y = [x EXCEPT !.out = Tail(x.out), !.at = IF Len(x.out) = 1 THEN "over" ELSE "report"]
    BY <1>0, <1>5, <2>1, ReportStep
  <2>3. y.out = Tail(x.out) /\ y.end = x.end /\ e.task = t /\ e.kind = k
    BY <1>0, <2>2 DEF TaskType
  <2>9. /\ k = x.out[1]
        /\ \A i \in DOMAIN x.out : i # 1 => i - 1 \in DOMAIN y.out /\ y.out[i - 1] = x.out[i]
    BY <2>1, <2>3, TailOut
  <2> HIDE DEF e, k, x, y
  <2>4. \A i \in DOMAIN x.out : x.out[i] = k \/ \E j \in DOMAIN y.out : y.out[j] = x.out[i]
    BY <2>9
  <2>5. Owes(queue', s, tasks[s])
    BY <1>0, <2>2, AppendOwes
  <2>6. Queued(queue', t, k)
    <3>1. Len(queue) + 1 \in DOMAIN queue' /\ queue'[Len(queue) + 1] = e
      BY <1>0, <2>2, AppendEvent
    <3> QED
      BY <2>3, <3>1 DEF Queued
  <2>7. CASE s = t
    <3>1. Waits(queue', t, x, "done")
      BY <2>1, <2>5, <2>7 DEF Owes, x
    <3>2. Waits(queue', t, y, "done")
      BY <2>4, <2>6, <3>1 DEF Waits
    <3> QED
      BY <2>1, <2>2, <2>7, <3>2 DEF Owes, y
  <2>8. CASE s # t
    BY <2>1, <2>2, <2>5, <2>8
  <2> QED
    BY <2>7, <2>8
<1> QED
  BY <1>1, <1>2, <1>3, <1>4, <1>5, CoroutineIs

LEMMA BusyStep == Basic /\ BusyForATask /\ [TerminalNext]_terminalVars => BusyForATask'
<1> SUFFICES ASSUME Basic, BusyForATask, [TerminalNext]_terminalVars, running'
             PROVE  Len(tasks') \in Task' /\ Owes(queue', Len(tasks'), tasks'[Len(tasks')])
  BY DEF BusyForATask
<1>0. TerminalTypeOK /\ Len(tasks) \in Nat /\ \A s \in Task : tasks[s] \in TaskType
  BY TaskIs DEF Basic
<1> DEFINE n == Len(tasks)
<1>1. CASE UNCHANGED terminalVars
  BY <1>1 DEF terminalVars, BusyForATask, Task
<1>2. CASE \E t \in Task : Coroutine(t) \/ Reader(t)
  <2>1. PICK t \in Task : Coroutine(t) \/ Reader(t)
    BY <1>2
  <2>2. UNCHANGED running
    BY <2>1, CoroutineIs DEF Goes, EndsNow, ForwardStep, Report, Reader
  <2>3. n \in Task /\ Owes(queue, n, tasks[n])
    BY <2>2 DEF BusyForATask
  <2>4. Len(tasks') = n /\ Task' = Task /\ Owes(queue', n, tasks'[n])
    BY <2>1, <2>3, CoroutineOwes
  <2> QED
    BY <2>3, <2>4
<1>3. CASE HandleMessage
  <2>1. /\ queue # <<>> /\ queue' = Tail(queue) /\ (running' => running) /\ Len(tasks') = n /\ Task' = Task
        /\ \A s \in Task : tasks'[s].out = tasks[s].out /\ tasks'[s].end = tasks[s].end
    BY <1>0, <1>3, HandleMessageStep
  <2>2. n \in Task /\ Owes(queue, n, tasks[n]) /\ queue \in Seq(EventType)
    BY <2>1 DEF BusyForATask, Basic, TerminalTypeOK
  <2>3. Head(queue).kind # "done"
    BY <1>3 DEF HandleMessage, TakeStep, TakeResult, TakeError, TakeOutput, TakeDone, Take
  <2>4. Queued(queue, n, "done") => Queued(queue', n, "done")
    BY <2>1, <2>2, <2>3, TailQueued
  <2> QED
    BY <2>1, <2>2, <2>4 DEF Owes, Waits
<1>4. ASSUME NEW place \in {"connect", "call"}, Submit(place)
      PROVE  Len(tasks') \in Task' /\ Owes(queue', Len(tasks'), tasks'[Len(tasks')])
  <2>1. place \in Places /\ tasks' = Started(place)
    BY <1>4 DEF Places, Submit
  <2>2. Len(tasks') \in Task' /\ tasks'[Len(tasks')] = NewTask(place, AliveTasks # {})
    BY <1>0, <2>1, StartedStep DEF Task
  <2> QED
    BY <2>2 DEF NewTask, Owes
<1>5. CASE SubmitCoder \/ Interrupt \/ Reset
  BY <1>5 DEF SubmitCoder, Interrupt, Reset
<1>6. CASE Notice
  <2>1. tasks' = Disturb(tasks, AliveTasks) /\ UNCHANGED <<running, queue>>
    BY <1>6 DEF Notice
  <2>2. /\ Len(tasks') = n /\ Task' = Task
        /\ \A s \in Task : tasks'[s] =
             IF s \in AliveTasks THEN [tasks[s] EXCEPT !.disturbed = TRUE] ELSE tasks[s]
    BY <1>0, <2>1, DisturbStep DEF TerminalTypeOK
  <2>3. \A s \in Task : tasks'[s].out = tasks[s].out /\ tasks'[s].end = tasks[s].end
    BY <1>0, <2>2 DEF TaskType
  <2>4. n \in Task /\ Owes(queue, n, tasks[n])
    BY <2>1 DEF BusyForATask
  <2> QED
    BY <2>1, <2>2, <2>3, <2>4 DEF Owes, Waits
<1> QED
  BY <1>1, <1>2, <1>3, <1>4, <1>5, <1>6 DEF TerminalNext, Key

\* A busy terminal has still to hear "done" from the newest task: the spinner is
\* never left to turn with nobody to stop it.
THEOREM SpinnerHasACause == TerminalSpec => []BusyForATask
<1>1. TerminalInit => BusyForATask
  BY DEF TerminalInit, BusyForATask
<1> QED
  BY <1>1, BasicInit, BasicStep, BusyStep, PTL DEF TerminalSpec
-----------------------------------------------------------------------------
(* The messages of tasks.                                                  *)

\* Of two tasks of which the earlier is still under way, both are alive beside
\* another and disturbed.
Apart == \A s, t \in Task :
  s < t /\ Lives(queue, s, tasks[s]) =>
    /\ tasks[s].disturbed /\ tasks[s].beside
    /\ tasks[t].disturbed /\ tasks[t].beside

\* A task that was never alive beside another: its message has nothing of others.
Unmixed(t, x) == x.beside \/ ((\A i \in DOMAIN x.shown : x.shown[i] \in {0, t}) /\ x.result \in {0, t})

Messages ==
  /\ \A t \in Task : Ordered(queue, t, tasks[t]) /\ Fits(queue, t, tasks[t])
  /\ Apart
  /\ \A t \in Task : tasks[t].disturbed \/ Shown(queue, t, tasks[t], running, last)
  /\ \A t \in Task : Unmixed(t, tasks[t])

\* The fields these are about.
Alike(x, y) ==
  /\ y.out = x.out /\ y.end = x.end /\ y.sent = x.sent
  /\ y.shown = x.shown /\ y.result = x.result /\ (x.beside => y.beside)

LEMMA AlikeKeeps ==
  ASSUME NEW x, NEW y, Alike(x, y), NEW q, NEW t, NEW busy, NEW bottom
  PROVE  /\ Ordered(q, t, x) => Ordered(q, t, y)
         /\ Fits(q, t, x) => Fits(q, t, y)
         /\ Ahead(q, t, x) <=> Ahead(q, t, y)
         /\ Shown(q, t, x, busy, bottom) => Shown(q, t, y, busy, bottom)
         /\ Unmixed(t, x) => Unmixed(t, y)
<1>1. Ordered(q, t, x) => Ordered(q, t, y)
  BY DEF Alike, Ordered
<1>2. \A k : Waits(q, t, x, k) <=> Waits(q, t, y, k)
  BY DEF Alike, Waits
<1>3. Fits(q, t, x) => Fits(q, t, y)
  BY <1>2 DEF Alike, Fits
<1>4. Ahead(q, t, x) <=> Ahead(q, t, y)
  BY <1>2 DEF Alike, Ahead
<1>5. Shown(q, t, x, busy, bottom) => Shown(q, t, y, busy, bottom)
  BY <1>4 DEF Alike, Shown, Taken
<1>6. Unmixed(t, x) => Unmixed(t, y)
  BY DEF Alike, Unmixed
<1> QED
  BY <1>1, <1>3, <1>4, <1>5, <1>6

LEMMA MessagesInit == TerminalInit => Messages
BY DEF TerminalInit, Messages, Apart, Task

\* One coroutine acts.
LEMMA MessagesOne ==
  ASSUME Basic, Messages, NEW t \in Task, Task' = Task, \A s \in Task : s # t => tasks'[s] = tasks[s],
         UNCHANGED queue \/ \E e \in EventType : e.task = t /\ queue' = Append(queue, e),
         UNCHANGED <<running, last>>,
         tasks'[t].disturbed = tasks[t].disturbed, tasks'[t].beside = tasks[t].beside,
         tasks'[t].shown = tasks[t].shown, tasks'[t].result = tasks[t].result,
         Lives(queue, t, tasks[t]),
         Ordered(queue', t, tasks'[t]), Fits(queue', t, tasks'[t]),
         tasks[t].disturbed \/ Shown(queue', t, tasks'[t], running, last)
  PROVE  Messages'
<1>1. ASSUME NEW s \in Task, s # t
      PROVE  /\ Ordered(queue', s, tasks'[s]) /\ Fits(queue', s, tasks'[s])
             /\ Lives(queue', s, tasks'[s]) => Lives(queue, s, tasks[s])
             /\ tasks'[s].disturbed \/ Shown(queue', s, tasks'[s], running', last')
  <2>1. /\ Ordered(queue, s, tasks[s]) /\ Fits(queue, s, tasks[s])
        /\ tasks[s].disturbed \/ Shown(queue, s, tasks[s], running, last)
        /\ tasks'[s] = tasks[s]
    BY <1>1 DEF Messages
  <2>2. CASE UNCHANGED queue
    BY <2>1, <2>2
  <2>3. ASSUME NEW e \in EventType, e.task = t, queue' = Append(queue, e)
        PROVE  /\ Ordered(queue', s, tasks[s]) /\ Fits(queue', s, tasks[s])
               /\ Lives(queue', s, tasks[s]) => Lives(queue, s, tasks[s])
               /\ tasks[s].disturbed \/ Shown(queue', s, tasks[s], running, last)
    <3>1. queue \in Seq(EventType) /\ e.task # s
      BY <1>1, <2>3 DEF Basic, TerminalTypeOK
    <3> QED
      BY <2>1, <2>3, <3>1, AppendKeeps
  <2> QED
    BY <2>1, <2>2, <2>3
<1>2. \A s \in Task : tasks'[s].disturbed = tasks[s].disturbed /\ tasks'[s].beside = tasks[s].beside
  OBVIOUS
<1>3. \A s \in Task : Lives(queue', s, tasks'[s]) => Lives(queue, s, tasks[s])
  BY <1>1
<1>4. Apart'
  BY <1>2, <1>3 DEF Messages, Apart
<1>5. \A s \in Task : Ordered(queue', s, tasks'[s]) /\ Fits(queue', s, tasks'[s])
  BY <1>1
<1>6. \A s \in Task : tasks'[s].disturbed \/ Shown(queue', s, tasks'[s], running', last')
  BY <1>1
<1>7. \A s \in Task : Unmixed(s, tasks'[s])
  BY DEF Messages, Unmixed
<1> QED
  BY <1>4, <1>5, <1>6, <1>7 DEF Messages

\* It goes on, or its stream brings something.
LEMMA MessagesAlike ==
  ASSUME Basic, Messages, NEW t \in Task, Task' = Task, \A s \in Task : s # t => tasks'[s] = tasks[s],
         UNCHANGED <<queue, running, last>>,
         tasks'[t].disturbed = tasks[t].disturbed, tasks'[t].beside = tasks[t].beside,
         tasks[t].at # "over", Alike(tasks[t], tasks'[t])
  PROVE  Messages'
<1>1. /\ Ordered(queue, t, tasks[t]) /\ Fits(queue, t, tasks[t])
      /\ tasks[t].disturbed \/ Shown(queue, t, tasks[t], running, last)
  BY DEF Messages
<1>2. /\ Ordered(queue, t, tasks'[t]) /\ Fits(queue, t, tasks'[t])
      /\ tasks[t].disturbed \/ Shown(queue, t, tasks'[t], running, last)
  BY <1>1, AlikeKeeps
<1>3. Lives(queue, t, tasks[t])
  BY DEF Lives
<1> QED
  BY <1>2, <1>3, MessagesOne DEF Alike

LEMMA MessagesReader ==
  ASSUME Basic, Messages, NEW t \in Task, Reader(t)
  PROVE  Messages'
<1>1. TerminalTypeOK /\ tasks[t] \in TaskType
  BY TaskIs DEF Basic
<1>2. /\ Task' = Task /\ \E i \in Inboxes : tasks'[t] = [tasks[t] EXCEPT !.inbox = i]
      /\ \A s \in Task : s # t => tasks'[s] = tasks[s]
  BY <1>1, ReaderStep
<1>3. Alike(tasks[t], tasks'[t]) /\ tasks'[t].disturbed = tasks[t].disturbed
      /\ tasks'[t].beside = tasks[t].beside
  BY <1>1, <1>2 DEF TaskType, Alike
<1>4. tasks[t].at # "over" /\ UNCHANGED <<queue, running, last>>
  BY DEF Reader
<1> QED
  BY <1>2, <1>3, <1>4, MessagesAlike

LEMMA MessagesGoes ==
  ASSUME Basic, Messages, NEW t \in Task, Goes(t)
  PROVE  Messages'
<1>1. TerminalTypeOK /\ tasks[t] \in TaskType
  BY TaskIs DEF Basic
<1>2. PICK a \in Places : tasks' = [tasks EXCEPT ![t].at = a]
  BY DEF Goes, Places
<1>3. /\ Task' = Task /\ tasks'[t] = [tasks[t] EXCEPT !.at = a]
      /\ \A s \in Task : s # t => tasks'[s] = tasks[s]
  BY <1>1, <1>2, MoveStep
<1>4. Alike(tasks[t], tasks'[t]) /\ tasks'[t].disturbed = tasks[t].disturbed
      /\ tasks'[t].beside = tasks[t].beside
  BY <1>1, <1>3 DEF TaskType, Alike
<1>5. tasks[t].at # "over" /\ UNCHANGED <<queue, running, last>>
  BY DEF Goes
<1> QED
  BY <1>3, <1>4, <1>5, MessagesAlike

\* It ends: only steps of it are in the queue.
LEMMA MessagesEnds ==
  ASSUME Basic, Messages, NEW t \in Task, EndsNow(t)
  PROVE  Messages'
<1>1. TerminalTypeOK /\ tasks[t] \in TaskType /\ queue \in Seq(EventType) /\ Placed(tasks[t])
  BY TaskIs DEF Basic, TerminalTypeOK
<1>2. PICK end \in Final : EndWith(t, end)
  BY DEF EndsNow
<1>3. /\ Task' = Task
      /\ tasks'[t] = [tasks[t] EXCEPT !.at = "report", !.inbox = <<>>, !.out = Ending(end),
            !.end = IF end \in {"success", "failure"} THEN "result" ELSE "error"]
      /\ \A s \in Task : s # t => tasks'[s] = tasks[s]
  BY <1>1, <1>2, TaskEndStep
<1> DEFINE x == tasks[t]
           y == tasks'[t]
<1>4. /\ y.end = IF end \in {"success", "failure"} THEN "result" ELSE "error"
      /\ y.out = Ending(end) /\ y.sent = x.sent /\ y.shown = x.shown
      /\ y.result = x.result /\ y.disturbed = x.disturbed /\ y.beside = x.beside
  BY <1>1, <1>3 DEF TaskType
<1>5. x.at \in Going /\ UNCHANGED <<queue, running, last>>
  BY DEF EndsNow
<1>6. x.end = "none" /\ Lives(queue, t, x)
  BY <1>1, <1>5 DEF Placed, Lives, Going
<1>7. \A i \in DOMAIN queue : queue[i].task = t => queue[i].kind = "step"
  BY <1>6 DEF Messages, Fits
<1>8. Ordered(queue, t, x)
  BY DEF Messages
<1> HIDE DEF x, y
<1>9. Ordered(queue, t, y)
  <2>1. \A i \in DOMAIN queue, j \in DOMAIN y.out :
          queue[i].task = t => Rank[queue[i].kind] < Rank[y.out[j]]
    BY <1>4, <1>7, EndingType, RankIs
  <2>2. (\A j \in DOMAIN y.out : Rank[y.out[j]] > 0) /\ Increasing(y.out)
    BY <1>4, EndingType
  <2> QED
    BY <1>8, <2>1, <2>2 DEF Ordered
<1>10. Fits(queue, t, y)
  <2>1. ~Queued(queue, t, "result") /\ ~Queued(queue, t, "error")
    BY <1>7 DEF Queued
  <2> QED
    BY <1>4, <2>1, EndingType DEF Fits, Waits
<1>11. Shown(queue, t, x, running, last) => Shown(queue, t, y, running, last)
  <2>1. Ahead(queue, t, x)
    BY <1>6 DEF Ahead
  <2>2. Ahead(queue, t, y)
    BY <1>4, EndingType DEF Ahead, Waits
  <2> QED
    BY <1>4, <2>1, <2>2 DEF Shown, Taken
<1>12. x.disturbed \/ Shown(queue, t, x, running, last)
  BY DEF Messages, x
<1> QED
  BY <1>3, <1>4, <1>5, <1>6, <1>9, <1>10, <1>11, <1>12, MessagesOne DEF x, y

\* It reports a step: what is in the queue of it are steps.
LEMMA MessagesForwardStep ==
  ASSUME Basic, Messages, NEW t \in Task, ForwardStep(t)
  PROVE  Messages'
<1> DEFINE x == tasks[t]
           y == tasks'[t]
           e == [task |-> t, kind |-> "step"]
<1>1. TerminalTypeOK /\ x \in TaskType /\ queue \in Seq(EventType) /\ Placed(x)
  BY TaskIs DEF Basic, TerminalTypeOK
<1>2. /\ Task' = Task
      /\ y = [x EXCEPT !.at = "head", !.inbox = Tail(x.inbox), !.sent = x.sent + 1,
                       !.late = IF flag THEN x.late + 1 ELSE x.late]
      /\ \A s \in Task : s # t => tasks'[s] = tasks[s]
      /\ e \in EventType /\ queue' = Append(queue, e)
  BY <1>1, ForwardStepStep
<1>3. /\ y.end = x.end /\ y.out = x.out /\ y.sent = x.sent + 1 /\ y.shown = x.shown
      /\ y.result = x.result /\ y.disturbed = x.disturbed /\ y.beside = x.beside
      /\ x.sent \in Nat
  BY <1>1, <1>2 DEF TaskType
<1>4. x.at = "select" /\ UNCHANGED <<running, last>>
  BY DEF ForwardStep
<1>5. x.end = "none" /\ Lives(queue, t, x) /\ ~(Len(x.out) > 0) /\ x.out \in Seq(Kinds)
  BY <1>1, <1>4 DEF Placed, Lives, Going, TaskType, Outs
<1>6. /\ \A i \in DOMAIN queue : queue[i].task = t => queue[i].kind = "step"
      /\ Ordered(queue, t, x) /\ (x.disturbed \/ Shown(queue, t, x, running, last))
  BY <1>5 DEF Messages, Fits
<1>7. e.task = t /\ e.kind = "step"
  OBVIOUS
<1> HIDE DEF x, y, e
<1>8. DOMAIN y.out = {}
  BY <1>3, <1>5
<1>9. /\ DOMAIN queue' = DOMAIN queue \cup {Len(queue) + 1}
      /\ \A i \in DOMAIN queue : queue'[i] = queue[i]
      /\ queue'[Len(queue) + 1] = e
  BY <1>1, <1>2, AppendEvent
<1>10. \A i \in DOMAIN queue' : queue'[i].task = t => queue'[i].kind = "step"
  BY <1>6, <1>7, <1>9
<1>11. Ordered(queue', t, y)
  BY <1>8, <1>10 DEF Ordered, Follows, Increasing
<1>12. Fits(queue', t, y)
  BY <1>8, <1>10 DEF Fits, Waits, Queued
<1>13. Shown(queue, t, x, running, last) => Shown(queue', t, y, running, last)
  <2> SUFFICES ASSUME Shown(queue, t, x, running, last) PROVE Shown(queue', t, y, running, last)
    OBVIOUS
  <2>1. Cardinality(Steps(queue', t)) = Cardinality(Steps(queue, t)) + 1
    BY <1>1, <1>2, <1>7, AppendedStep
  <2>2. Cardinality(Steps(queue, t)) \in Nat
    BY <1>1, StepsAreFinite
  <2>3. Taken(queue', t, y) = Taken(queue, t, x)
    BY <1>3, <2>1, <2>2 DEF Taken
  <2>4. Ahead(queue, t, x) /\ Ahead(queue', t, y)
    BY <1>3, <1>5 DEF Ahead
  <2> QED
    BY <1>3, <2>3, <2>4 DEF Shown
<1>14. \E f \in EventType : f.task = t /\ queue' = Append(queue, f)
  BY <1>2, <1>7
<1> QED
  BY <1>2, <1>3, <1>4, <1>5, <1>6, <1>11, <1>12, <1>13, <1>14, MessagesOne DEF x, y

\* What is reported goes from what it has to report to the end of the queue.
LEMMA MessagesReport ==
  ASSUME Basic, Messages, NEW t \in Task, Report(t)
  PROVE  Messages'
<1> DEFINE x == tasks[t]
           y == tasks'[t]
           k == Head(x.out)
           e == [task |-> t, kind |-> k]
<1>1. /\ TerminalTypeOK /\ x \in TaskType /\ queue \in Seq(EventType) /\ Placed(x)
      /\ Ordered(queue, t, x) /\ Fits(queue, t, x)
      /\ x.disturbed \/ Shown(queue, t, x, running, last)
  BY TaskIs DEF Basic, TerminalTypeOK, Messages
<1>2. x.at = "report" /\ UNCHANGED <<running, last>>
  BY DEF Report
<1>3. x.out \in Seq(Kinds) /\ x.out # <<>> /\ Lives(queue, t, x) /\ x.end # "none"
  BY <1>1, <1>2 DEF Placed, Lives, Going, TaskType, Outs
<1>4. /\ Task' = Task
      /\ y = [x EXCEPT !.out = Tail(x.out), !.at = IF Len(x.out) = 1 THEN "over" ELSE "report"]
      /\ \A s \in Task : s # t => tasks'[s] = tasks[s]
      /\ e \in EventType /\ queue' = Append(queue, e)
  BY <1>1, <1>3, ReportStep
<1>5. /\ y.end = x.end /\ y.out = Tail(x.out) /\ y.sent = x.sent /\ y.shown = x.shown
      /\ y.result = x.result /\ y.disturbed = x.disturbed /\ y.beside = x.beside
  BY <1>1, <1>4 DEF TaskType
<1>6. e.task = t /\ e.kind = k
  OBVIOUS
<1> HIDE DEF x, y, e
<1>7. /\ DOMAIN queue' = DOMAIN queue \cup {Len(queue) + 1} /\ DOMAIN queue = 1..Len(queue)
      /\ Len(queue) \in Nat
      /\ \A i \in DOMAIN queue : queue'[i] = queue[i]
      /\ queue'[Len(queue) + 1] = e
  BY <1>1, <1>4, AppendEvent
<1>8. /\ 1 \in DOMAIN x.out /\ k = x.out[1]
      /\ \A i \in DOMAIN y.out : i \in Nat /\ i >= 1 /\ i + 1 \in DOMAIN x.out /\ y.out[i] = x.out[i + 1]
      /\ \A i \in DOMAIN x.out : i \in Nat /\ (i # 1 => i - 1 \in DOMAIN y.out /\ y.out[i - 1] = x.out[i])
  BY <1>3, <1>5, TailOut
<1> HIDE DEF k
<1>9. Ordered(queue', t, y)
  <2>1. ASSUME NEW i \in DOMAIN queue', NEW j \in DOMAIN queue', i < j,
               queue'[i].task = t, queue'[j].task = t
        PROVE  Follows(queue'[i].kind, queue'[j].kind)
    <3>1. i \in DOMAIN queue
      BY <1>7, <2>1
    <3>2. CASE j \in DOMAIN queue
      BY <1>1, <1>7, <2>1, <3>1, <3>2 DEF Ordered
    <3>3. CASE j = Len(queue) + 1
      <4>1. Rank[queue[i].kind] < Rank[x.out[1]]
        BY <1>1, <1>7, <1>8, <2>1, <3>1 DEF Ordered
      <4> QED
        BY <1>6, <1>7, <1>8, <3>1, <3>3, <4>1 DEF Follows
    <3> QED
      BY <1>7, <3>2, <3>3
  <2>2. ASSUME NEW i \in DOMAIN queue', NEW j \in DOMAIN y.out, queue'[i].task = t
        PROVE  Rank[queue'[i].kind] < Rank[y.out[j]]
    <3>1. j + 1 \in DOMAIN x.out /\ 1 < j + 1 /\ y.out[j] = x.out[j + 1]
      BY <1>8
    <3>2. CASE i \in DOMAIN queue
      BY <1>1, <1>7, <2>2, <3>1, <3>2 DEF Ordered
    <3>3. CASE i = Len(queue) + 1
      BY <1>1, <1>6, <1>7, <1>8, <3>1, <3>3 DEF Ordered, Increasing
    <3> QED
      BY <1>7, <3>2, <3>3
  <2>3. \A j \in DOMAIN y.out : Rank[y.out[j]] > 0
    BY <1>1, <1>8 DEF Ordered
  <2>4. Increasing(y.out)
    <3> SUFFICES ASSUME NEW i \in DOMAIN y.out, NEW j \in DOMAIN y.out, i < j
                 PROVE  Rank[y.out[i]] < Rank[y.out[j]]
      BY DEF Increasing
    <3>1. /\ i + 1 \in DOMAIN x.out /\ j + 1 \in DOMAIN x.out /\ i + 1 < j + 1
          /\ y.out[i] = x.out[i + 1] /\ y.out[j] = x.out[j + 1]
      BY <1>8
    <3> QED
      BY <1>1, <3>1 DEF Ordered, Increasing
  <2> QED
    BY <2>1, <2>2, <2>3, <2>4 DEF Ordered
<1>10. \A l : Waits(queue', t, y, l) <=> Waits(queue, t, x, l)
  <2>1. \A l : Queued(queue', t, l) <=> Queued(queue, t, l) \/ l = k
    BY <1>6, <1>7 DEF Queued
  <2>2. \A l : (\E j \in DOMAIN x.out : x.out[j] = l) <=> (l = k \/ \E j \in DOMAIN y.out : y.out[j] = l)
    BY <1>8
  <2> QED
    BY <2>1, <2>2 DEF Waits
<1>11. Fits(queue', t, y)
  BY <1>1, <1>3, <1>5, <1>10 DEF Fits
<1>12. Steps(queue', t) = Steps(queue, t)
  <2>1. k # "step"
    BY <1>1, <1>8, RankIs DEF Ordered
  <2> QED
    BY <1>6, <1>7, <2>1 DEF Steps
<1>13. Shown(queue, t, x, running, last) => Shown(queue', t, y, running, last)
  BY <1>5, <1>10, <1>12 DEF Shown, Ahead, Taken
<1>14. \E f \in EventType : f.task = t /\ queue' = Append(queue, f)
  BY <1>4, <1>6
<1> QED
  BY <1>1, <1>2, <1>3, <1>4, <1>5, <1>9, <1>11, <1>13, <1>14, MessagesOne DEF x, y

LEMMA MessagesCoroutine ==
  ASSUME Basic, Messages, NEW t \in Task, Coroutine(t)
  PROVE  Messages'
BY CoroutineIs, MessagesGoes, MessagesEnds, MessagesForwardStep, MessagesReport

\* The main loop takes an event: a message that may still change is that of the
\* event's task, or of a task that is disturbed.
LEMMA MessagesHandle ==
  ASSUME Basic, Messages, HandleMessage
  PROVE  Messages'
<1> DEFINE u == Head(queue).task
           k == Head(queue).kind
<1>1. /\ queue # <<>> /\ queue' = Tail(queue) /\ Task' = Task
      /\ last' \in {0, last}
      /\ \A s \in Task :
           /\ tasks'[s].at = tasks[s].at /\ tasks'[s].out = tasks[s].out
           /\ tasks'[s].sent = tasks[s].sent /\ tasks'[s].end = tasks[s].end
           /\ tasks'[s].disturbed = tasks[s].disturbed /\ tasks'[s].beside = tasks[s].beside
           /\ s # last => tasks'[s] = tasks[s]
  BY HandleMessageStep DEF Basic
<1>2. /\ queue \in Seq(EventType) /\ last \in {0, Len(tasks)} /\ Task = 1..Len(tasks) /\ Len(tasks) \in Nat
      /\ \A i \in DOMAIN queue : queue[i].task \in Task
      /\ \A s \in Task : tasks[s] \in TaskType
  BY TaskIs DEF Basic, TerminalTypeOK
<1>3. u \in Task /\ k \in Kinds /\ \E i \in DOMAIN queue : queue[i].task = u /\ queue[i].kind = k
  BY <1>1, <1>2, TailEvents DEF EventType
<1>4. Lives(queue, u, tasks[u]) /\ Queued(queue, u, k)
  BY <1>3 DEF Lives, Queued
<1> HIDE DEF u, k
<1>5. ASSUME NEW s \in Task
      PROVE  /\ Ordered(queue', s, tasks'[s]) /\ Fits(queue', s, tasks'[s])
             /\ Lives(queue', s, tasks'[s]) => Lives(queue, s, tasks[s])
  <2>1. Ordered(queue, s, tasks[s]) /\ Fits(queue, s, tasks[s])
    BY DEF Messages
  <2>2. /\ Ordered(queue', s, tasks[s]) /\ Fits(queue', s, tasks[s])
        /\ Lives(queue', s, tasks[s]) => Lives(queue, s, tasks[s])
    BY <1>1, <1>2, <2>1, TailKeeps
  <2>3. Lives(queue', s, tasks'[s]) => Lives(queue', s, tasks[s])
    BY <1>1 DEF Lives
  <2>4. Ordered(queue', s, tasks'[s])
    BY <1>1, <2>2 DEF Ordered
  <2>5. Fits(queue', s, tasks'[s])
    BY <1>1, <2>2 DEF Fits, Waits
  <2> QED
    BY <2>2, <2>3, <2>4, <2>5
<1>6. Apart'
  BY <1>1, <1>5 DEF Messages, Apart
<1>7. ASSUME NEW s \in Task, s # u, ~tasks[s].disturbed
      PROVE  Shown(queue', s, tasks'[s], running', last')
  <2>1. Shown(queue, s, tasks[s], running, last)
    BY <1>7 DEF Messages
  <2>2. s # last
    <3> SUFFICES ASSUME s = last PROVE FALSE
      OBVIOUS
    <3>1. u < s
      BY <1>2, <1>3, <1>7
    <3> QED
      BY <1>3, <1>4, <1>7, <3>1 DEF Messages, Apart
  <2>3. ~Ahead(queue, s, tasks[s])
    BY <2>1, <2>2 DEF Shown
  <2>4. tasks'[s] = tasks[s] /\ Head(queue).task # s
    BY <1>1, <1>7, <2>2 DEF u
  <2> QED
    BY <1>1, <1>2, <2>1, <2>3, <2>4, TailShows
<1>8. ASSUME ~tasks[u].disturbed
      PROVE  Shown(queue', u, tasks'[u], running', last')
  <2> DEFINE x == tasks[u]
             y == tasks'[u]
  <2>1. /\ Shown(queue, u, x, running, last) /\ Ordered(queue, u, x) /\ Fits(queue, u, x) /\ x \in TaskType
        /\ y.out = x.out /\ y.sent = x.sent /\ y.end = x.end
    BY <1>1, <1>2, <1>3, <1>8 DEF Messages
  <2>2. /\ x.sent \in Nat /\ Cardinality(Steps(queue, u)) \in Nat
        /\ u \in DOMAIN tasks /\ u # 0
    BY <1>2, <1>3, <2>1, StepsAreFinite DEF TaskType
  <2>3. Cardinality(Steps(queue', u)) =
          IF k = "step" THEN Cardinality(Steps(queue, u)) - 1 ELSE Cardinality(Steps(queue, u))
    BY <1>1, <1>2, TailStep DEF u, k
  <2>4. /\ \A l : Queued(queue', u, l) => Queued(queue, u, l)
        /\ \A l : Queued(queue, u, l) => Queued(queue', u, l) \/ k = l
    BY <1>1, <1>2, TailQueued DEF k
  <2> HIDE DEF x, y
  <2>5. CASE TakeStep
    <3>1. k = "step" /\ running' = running /\ last' = last
      BY <2>5 DEF TakeStep, Take, k
    <3>2. Ahead(queue, u, x)
      <4>1. Steps(queue, u) # {}
        BY <1>4, <3>1 DEF Queued, Steps
      <4> QED
        BY <2>1, <4>1 DEF Shown
    <3>3. running /\ last = u
      BY <2>1, <3>2 DEF Shown
    <3>4. PICK p \in Shows : Pushed(x.shown, u, p) /\ y = [x EXCEPT !.shown = p]
      <4>1. tasks' = AppendStep(u) /\ u \in Nat /\ TerminalTypeOK
        BY <1>2, <1>3, <2>5, <3>3 DEF TakeStep, u, Basic
      <4> QED
        BY <2>2, <3>3, <4>1, AppendStepIs DEF x, y
    <3>5. y.shown = p /\ y.result = x.result
      BY <2>1, <3>4 DEF TaskType
    <3>6. Ahead(queue', u, y)
      BY <2>1, <2>4, <3>1, <3>2 DEF Ahead, Waits
    <3>7. Len(p) = Least(Taken(queue', u, y), StepsCap)
      <4> DEFINE a == Taken(queue, u, x)
                 b == Taken(queue', u, y)
      <4>1. a \in Int /\ b = a + 1
        BY <2>1, <2>2, <2>3, <3>1 DEF Taken
      <4>2. Len(x.shown) = Least(a, StepsCap) /\ Len(p) = Least(Len(x.shown) + 1, StepsCap)
        BY <2>1, <3>4 DEF Shown, Pushed
      <4> HIDE DEF a, b
      <4>3. Len(p) = Least(b, StepsCap)
        BY <4>1, <4>2, TerminalAssumption DEF Least
      <4> QED
        BY <4>3 DEF b
    <3>8. \A i \in DOMAIN p : p[i] = u
      BY <2>1, <3>4 DEF Shown, Pushed
    <3> QED
      BY <2>1, <3>1, <3>2, <3>3, <3>5, <3>6, <3>7, <3>8 DEF Shown, y
  <2>6. ASSUME k # "step"
        PROVE  /\ \A l \in Kinds : Queued(queue', u, l) => Rank[k] < Rank[l]
               /\ \A j \in DOMAIN y.out : Rank[k] < Rank[y.out[j]]
               /\ Steps(queue', u) = {} /\ Steps(queue, u) = {}
               /\ x.end # "none"
    <3>1. Head(queue).task = u /\ Head(queue).kind # "step"
      BY <2>6 DEF u, k
    <3>2. /\ \A l \in Kinds : Queued(queue', u, l) => Rank[Head(queue).kind] < Rank[l]
          /\ \A j \in DOMAIN x.out : Rank[Head(queue).kind] < Rank[x.out[j]]
          /\ Steps(queue', u) = {} /\ Steps(queue, u) = {}
      BY <1>1, <1>2, <2>1, <3>1, HeadFirst
    <3>3. x.end # "none"
      BY <1>3, <2>1, <2>6 DEF Fits
    <3> QED
      BY <2>1, <3>2, <3>3 DEF k
  <2>7. ASSUME k # "step", Rank[k] >= 1
        PROVE  ~Ahead(queue', u, y)
    <3>1. Rank["result"] = 1 /\ Rank["error"] = 1 /\ "result" \in Kinds /\ "error" \in Kinds
          /\ Rank[k] \in 0..3
      BY <1>3, RankIs DEF Kinds
    <3>2. ~Queued(queue', u, "result") /\ ~Queued(queue', u, "error")
      BY <2>6, <2>7, <3>1
    <3>3. \A j \in DOMAIN y.out : y.out[j] # "result" /\ y.out[j] # "error"
      BY <2>6, <2>7, <3>1
    <3> QED
      BY <2>1, <2>6, <2>7, <3>2, <3>3 DEF Ahead, Waits
  <2>8. CASE TakeResult
    <3>1. k = "result" /\ running' = FALSE /\ last' = last
      BY <2>8 DEF TakeResult, Take, k
    <3>2. Ahead(queue, u, x) /\ x.end = "result"
      BY <1>4, <2>1, <3>1 DEF Ahead, Waits, Fits
    <3>3. last = u
      BY <2>1, <3>2 DEF Shown
    <3>4. tasks' = [tasks EXCEPT ![u].result = u]
      BY <2>2, <2>8, <3>3 DEF TakeResult, u
    <3>5. y.shown = x.shown /\ y.result = u
      BY <2>1, <2>2, <3>4 DEF TaskType, x, y
    <3>6. ~Ahead(queue', u, y)
      BY <2>7, <3>1, RankIs
    <3> QED
      BY <2>1, <2>3, <2>6, <3>1, <3>2, <3>5, <3>6 DEF Shown, Taken, y
  <2>9. CASE TakeError
    <3>1. k = "error" /\ y = x
      BY <2>9 DEF TakeError, Take, k, x, y
    <3>2. Ahead(queue, u, x) /\ x.end = "error"
      BY <1>4, <2>1, <3>1 DEF Ahead, Waits, Fits
    <3>3. ~Ahead(queue', u, y)
      BY <2>7, <3>1, RankIs
    <3>4. x.result = 0
      BY <2>1, <3>2 DEF Shown
    <3> QED
      BY <2>1, <2>3, <2>6, <3>1, <3>2, <3>3, <3>4 DEF Shown, Taken, y
  <2>10. CASE TakeOutput \/ TakeDone
    <3>1. k \in {"output", "done"} /\ y = x
      BY <2>10 DEF TakeOutput, TakeDone, Take, k, x, y
    <3>2. ~Ahead(queue', u, y)
      BY <2>7, <3>1, RankIs
    <3>3. ~Ahead(queue, u, x)
      BY <2>1, <2>4, <3>1, <3>2 DEF Ahead, Waits
    <3> QED
      BY <2>1, <2>3, <2>6, <3>1, <3>2, <3>3 DEF Shown, Taken, y
  <2> QED
    BY <2>5, <2>8, <2>9, <2>10 DEF HandleMessage
<1>9. \A s \in Task : tasks'[s].disturbed \/ Shown(queue', s, tasks'[s], running', last')
  BY <1>1, <1>7, <1>8
<1>10. \A s \in Task : Ordered(queue', s, tasks'[s]) /\ Fits(queue', s, tasks'[s])
  BY <1>5
<1>11. ASSUME NEW s \in Task PROVE Unmixed(s, tasks'[s])
  <2>0. Unmixed(s, tasks[s]) /\ tasks[s] \in TaskType
    BY <1>2 DEF Messages
  <2>1. CASE tasks'[s] = tasks[s]
    BY <2>0, <2>1
  <2>2. CASE s = last /\ u # s
    <3>1. u < s
      BY <1>2, <1>3, <2>2
    <3>2. tasks[s].beside
      BY <1>3, <1>4, <3>1 DEF Messages, Apart
    <3> QED
      BY <1>1, <3>2 DEF Unmixed
  <2>3. CASE s = last /\ u = s /\ TakeStep /\ running
    <3>1. tasks' = AppendStep(s) /\ s \in Nat /\ s # 0 /\ TerminalTypeOK
      BY <1>2, <2>3 DEF TakeStep, u, Basic
    <3>2. PICK p \in Shows : Pushed(tasks[s].shown, s, p) /\ tasks'[s] = [tasks[s] EXCEPT !.shown = p]
      BY <2>3, <3>1, AppendStepIs
    <3>3. tasks'[s].shown = p /\ tasks'[s].result = tasks[s].result /\ tasks'[s].beside = tasks[s].beside
      BY <2>0, <3>2 DEF TaskType
    <3> QED
      BY <2>0, <3>2, <3>3 DEF Unmixed, Pushed
  <2>4. CASE s = last /\ u = s /\ TakeResult
    <3>0. s # 0 /\ s \in DOMAIN tasks
      <4>1. s \in 1..Len(tasks) /\ Len(tasks) \in Nat
        BY <1>2
      <4> QED
        BY <4>1 DEF Task
    <3>1. tasks' = [tasks EXCEPT ![s].result = s]
      BY <2>4, <3>0 DEF TakeResult, u
    <3>2. tasks'[s].shown = tasks[s].shown /\ tasks'[s].result = s /\ tasks'[s].beside = tasks[s].beside
      BY <2>0, <3>0, <3>1 DEF TaskType
    <3> QED
      BY <2>0, <3>2 DEF Unmixed
  <2>5. s # last \/ TakeResult \/ (TakeStep /\ running) \/ tasks' = tasks
    BY DEF HandleMessage, TakeStep, TakeError, TakeOutput, TakeDone
  <2> QED
    BY <1>1, <2>1, <2>2, <2>3, <2>4, <2>5
<1> QED
  BY <1>1, <1>6, <1>9, <1>10, <1>11 DEF Messages

\* The tasks under way are disturbed: what is left has all been shown.
LEMMA QuietIsOver ==
  ASSUME Basic, Messages, NEW s \in Task, ~tasks[s].disturbed, ~Lives(queue, s, tasks[s])
  PROVE  /\ ~Ahead(queue, s, tasks[s])
         /\ \A y, busy, bottom : Alike(tasks[s], y) => Shown(queue, s, y, busy, bottom)
<1>1. Placed(tasks[s]) /\ tasks[s] \in TaskType /\ Shown(queue, s, tasks[s], running, last)
  BY TaskIs DEF Basic, Messages
<1>2. tasks[s].end # "none" /\ DOMAIN tasks[s].out = {}
  <2>1. tasks[s].at = "over"
    BY DEF Lives
  <2>2. tasks[s].end # "none" /\ ~(Len(tasks[s].out) > 0) /\ tasks[s].out \in Seq(Kinds)
    BY <1>1, <2>1 DEF Placed, Going, TaskType, Outs
  <2> QED
    BY <2>2
<1>3. \A k : ~Waits(queue, s, tasks[s], k)
  BY <1>2 DEF Waits, Queued, Lives
<1>4. ~Ahead(queue, s, tasks[s])
  BY <1>2, <1>3 DEF Ahead
<1>5. \A busy, bottom : Shown(queue, s, tasks[s], busy, bottom)
  BY <1>1, <1>4 DEF Shown
<1> QED
  BY <1>4, <1>5, AlikeKeeps

LEMMA AliveIs ==
  ASSUME NEW s \in Task
  PROVE  s \in AliveTasks <=> Lives(queue, s, tasks[s])
BY DEF AliveTasks, Alive, Lives

LEMMA MessagesDisturb ==
  ASSUME Basic, Messages, NEW T \in Seq(TaskType), Len(T) = Len(tasks),
         \A s \in Task : /\ T[s].at = tasks[s].at /\ T[s].out = tasks[s].out
                         /\ T[s].end = tasks[s].end /\ T[s].beside = tasks[s].beside
                         /\ T[s].disturbed = tasks[s].disturbed
                         /\ s \notin AliveTasks => T[s] = tasks[s]
                         /\ Unmixed(s, T[s]),
         tasks' = Disturb(T, AliveTasks), UNCHANGED queue
  PROVE  Messages'
<1>1. /\ Task' = Task
      /\ \A s \in Task : tasks'[s] =
           IF s \in AliveTasks THEN [T[s] EXCEPT !.disturbed = TRUE] ELSE T[s]
      /\ \A s \in Task : T[s] \in TaskType
  BY DisturbStep, TaskIs DEF Basic
<1>2. ASSUME NEW s \in Task
      PROVE  /\ tasks'[s].at = tasks[s].at /\ tasks'[s].out = tasks[s].out
             /\ tasks'[s].end = tasks[s].end /\ tasks'[s].beside = tasks[s].beside
             /\ s \in AliveTasks => tasks'[s].disturbed
             /\ s \notin AliveTasks => tasks'[s] = tasks[s]
             /\ tasks[s].disturbed => tasks'[s].disturbed
             /\ Unmixed(s, tasks'[s])
  <2>1. /\ tasks'[s].at = T[s].at /\ tasks'[s].out = T[s].out /\ tasks'[s].end = T[s].end
        /\ tasks'[s].beside = T[s].beside /\ tasks'[s].shown = T[s].shown
        /\ tasks'[s].result = T[s].result
        /\ s \in AliveTasks => tasks'[s].disturbed
        /\ T[s].disturbed => tasks'[s].disturbed
    BY <1>1 DEF TaskType
  <2>2. Unmixed(s, tasks'[s])
    BY <2>1 DEF Unmixed
  <2>3. s \notin AliveTasks => tasks'[s] = tasks[s]
    BY <1>1
  <2> QED
    BY <2>1, <2>2, <2>3
<1>3. \A s \in Task : Ordered(queue', s, tasks'[s]) /\ Fits(queue', s, tasks'[s])
  <2> SUFFICES ASSUME NEW s \in Task PROVE Ordered(queue, s, tasks'[s]) /\ Fits(queue, s, tasks'[s])
    OBVIOUS
  <2>1. Ordered(queue, s, tasks[s]) /\ Fits(queue, s, tasks[s])
    BY DEF Messages
  <2>2. Ordered(queue, s, tasks'[s])
    BY <1>2, <2>1 DEF Ordered
  <2>3. Fits(queue, s, tasks'[s])
    BY <1>2, <2>1 DEF Fits, Waits
  <2> QED
    BY <2>2, <2>3
<1>4. \A s \in Task : Lives(queue', s, tasks'[s]) => Lives(queue, s, tasks[s])
  BY <1>2 DEF Lives
<1>5. Apart'
  BY <1>1, <1>2, <1>4 DEF Messages, Apart
<1>6. ASSUME NEW s \in Task, ~tasks'[s].disturbed
      PROVE  Shown(queue', s, tasks'[s], running', last')
  <2>1. ~Lives(queue, s, tasks[s]) /\ ~tasks[s].disturbed /\ tasks'[s] = tasks[s]
    BY <1>2, <1>6, AliveIs
  <2>2. Alike(tasks[s], tasks'[s])
    BY <2>1 DEF Alike
  <2> QED
    BY <2>1, <2>2, QuietIsOver
<1>7. \A s \in Task : Unmixed(s, tasks'[s])
  BY <1>2
<1> QED
  BY <1>1, <1>3, <1>5, <1>6, <1>7 DEF Messages

\* Another task starts, with nothing in the queue.
LEMMA MessagesStarted ==
  ASSUME Basic, Messages, NEW place \in Places, NEW x \in TaskType, DOMAIN x.out = {},
         Placing(Started(place), tasks', Len(tasks) + 1, x),
         x.disturbed <=> AliveTasks # {}, x.beside <=> AliveTasks # {},
         x.shown = <<>>, x.sent = 0,
         \/ x.end = "none" /\ x.result = 0 /\ running' = TRUE /\ last' = Len(tasks) + 1
         \/ x.end = "result" /\ x.result = Len(tasks) + 1,
         UNCHANGED queue
  PROVE  Messages'
<1> DEFINE n == Len(tasks) + 1
           new == Started(place)
<1>0. TerminalTypeOK /\ Len(tasks) \in Nat /\ \A s \in Task : tasks[s] \in TaskType
  BY TaskIs DEF Basic
<1>1. /\ new \in Seq(TaskType) /\ Len(new) = n /\ n \in Nat
      /\ Task = 1..Len(tasks) /\ n \notin Task /\ DOMAIN new = Task \cup {n}
      /\ \A s \in Task : new[s] =
           IF s \in AliveTasks
           THEN [tasks[s] EXCEPT !.disturbed = TRUE, !.late = 0, !.beside = TRUE]
           ELSE [tasks[s] EXCEPT !.late = 0]
  BY <1>0, StartedStep
<1>2. Placing(new, tasks', n, x)
  OBVIOUS
<1>3. \/ x.end = "none" /\ x.result = 0 /\ running' = TRUE /\ last' = n
      \/ x.end = "result" /\ x.result = n
  OBVIOUS
<1>4. n > 0 /\ n \in Nat /\ \A s \in Task : s \in Nat /\ s < n
  <2>1. n \in Nat /\ Len(tasks) \in Nat /\ Task = 1..Len(tasks)
    BY <1>0, <1>1
  <2> QED
    BY <2>1
<1> HIDE DEF n, new
<1>5. Task' = Task \cup {n} /\ tasks'[n] = x /\ \A s \in Task : tasks'[s] = new[s]
  <2>1. n \in DOMAIN new /\ new \in Seq(TaskType)
    BY <1>1
  <2>2. /\ DOMAIN tasks' = DOMAIN new
        /\ tasks'[n] = x /\ \A j \in DOMAIN new : j # n => tasks'[j] = new[j]
    BY <1>2, <2>1, TasksSet
  <2> QED
    BY <1>1, <2>2 DEF Task
<1>6. ASSUME NEW s \in Task
      PROVE  /\ Alike(tasks[s], tasks'[s]) /\ tasks'[s].at = tasks[s].at
             /\ s \in AliveTasks => tasks'[s].disturbed /\ tasks'[s].beside
             /\ tasks[s].disturbed => tasks'[s].disturbed
             /\ tasks[s].beside => tasks'[s].beside
             /\ ~tasks'[s].disturbed => ~tasks[s].disturbed
  <2>1. LateCleared(tasks[s], tasks'[s])
    BY <1>1, <1>5 DEF LateCleared
  <2>2. Alike(tasks[s], tasks'[s]) /\ tasks'[s].at = tasks[s].at
    BY <1>0, <2>1, ClearedIs DEF Alike
  <2>5. tasks[s].beside => tasks'[s].beside
    BY <2>2 DEF Alike
  <2>3. CASE s \in AliveTasks
    <3>1. tasks'[s] = [tasks[s] EXCEPT !.disturbed = TRUE, !.late = 0, !.beside = TRUE]
      BY <1>1, <1>5, <2>3
    <3>2. tasks'[s].disturbed /\ tasks'[s].beside
      BY <1>0, <3>1 DEF TaskType
    <3> QED
      BY <2>2, <2>5, <3>2
  <2>4. CASE s \notin AliveTasks
    <3>1. tasks'[s] = [tasks[s] EXCEPT !.late = 0]
      BY <1>1, <1>5, <2>4
    <3>2. tasks'[s].disturbed = tasks[s].disturbed
      BY <1>0, <3>1 DEF TaskType
    <3> QED
      BY <2>2, <2>4, <2>5, <3>2
  <2> QED
    BY <2>3, <2>4
<1>7. \A i \in DOMAIN queue : queue[i].task # n
  BY <1>0, <1>1 DEF TerminalTypeOK
<1>8. /\ \A k : ~Waits(queue, n, x, k)
      /\ Steps(queue, n) = {} /\ Cardinality(Steps(queue, n)) = 0
  BY <1>7, FS_EmptySet DEF Waits, Queued, Steps
<1>9. Ordered(queue', n, tasks'[n]) /\ Fits(queue', n, tasks'[n])
  BY <1>5, <1>7, <1>8 DEF Ordered, Fits, Increasing
<1>10. Shown(queue', n, tasks'[n], running', last')
  <2>0. /\ \A i \in DOMAIN x.shown : x.shown[i] = n
        /\ Len(x.shown) = Least(Taken(queue, n, x), StepsCap)
    BY <1>8, TerminalAssumption DEF Taken, Least
  <2>1. CASE x.end = "none" /\ x.result = 0 /\ running' = TRUE /\ last' = n
    <3>1. Ahead(queue, n, x)
      BY <2>1 DEF Ahead
    <3> QED
      BY <1>5, <1>8, <2>0, <2>1, <3>1 DEF Shown
  <2>2. CASE x.end = "result" /\ x.result = n
    <3>1. ~Ahead(queue, n, x)
      BY <1>8, <2>2 DEF Ahead
    <3> QED
      BY <1>5, <1>8, <2>0, <2>2, <3>1 DEF Shown
  <2> QED
    BY <1>3, <2>1, <2>2
<1>11. \A s \in Task' : Ordered(queue', s, tasks'[s]) /\ Fits(queue', s, tasks'[s])
  <2>1. \A s \in Task : Ordered(queue', s, tasks'[s]) /\ Fits(queue', s, tasks'[s])
    BY <1>6, AlikeKeeps DEF Messages
  <2> QED
    BY <1>5, <1>9, <2>1
<1>12. \A s \in Task : Lives(queue', s, tasks'[s]) => s \in AliveTasks
  BY <1>6, AliveIs DEF Lives
<1>13. Apart'
  <2> SUFFICES ASSUME NEW s \in Task', NEW t \in Task', s < t, Lives(queue', s, tasks'[s])
               PROVE  /\ tasks'[s].disturbed /\ tasks'[s].beside
                      /\ tasks'[t].disturbed /\ tasks'[t].beside
    BY DEF Apart
  <2>1. s \in Task
    <3>1. CASE t = n
      BY <1>4, <1>5, <3>1
    <3>2. CASE t \in Task
      BY <1>4, <1>5, <3>2
    <3> QED
      BY <1>5, <3>1, <3>2
  <2>2. s \in AliveTasks /\ tasks'[s].disturbed /\ tasks'[s].beside
    BY <1>6, <1>12, <2>1
  <2>3. CASE t = n
    BY <1>5, <2>2, <2>3
  <2>4. CASE t \in Task
    BY <1>6, <2>1, <2>2, <2>4, AliveIs DEF Messages, Apart
  <2> QED
    BY <1>5, <2>2, <2>3, <2>4
<1>14. ASSUME NEW s \in Task', ~tasks'[s].disturbed
       PROVE  Shown(queue', s, tasks'[s], running', last')
  <2>1. CASE s \in Task
    <3>1. ~tasks[s].disturbed /\ ~Lives(queue, s, tasks[s])
      BY <1>6, <1>14, <2>1, AliveIs
    <3> QED
      BY <1>6, <2>1, <3>1, QuietIsOver
  <2> QED
    BY <1>5, <1>10, <2>1
<1>15. ASSUME NEW s \in Task' PROVE Unmixed(s, tasks'[s])
  <2>1. CASE s \in Task
    BY <1>6, <2>1, AlikeKeeps DEF Messages
  <2>2. CASE s = n
    BY <1>3, <1>5, <2>2 DEF Unmixed
  <2> QED
    BY <1>5, <2>1, <2>2
<1> QED
  BY <1>11, <1>13, <1>14, <1>15 DEF Messages

\* An interrupt is written into the message of a task that is alive, if any.
LEMMA MessagesInterrupt ==
  ASSUME Basic, Messages, BusyForATask, Interrupt
  PROVE  Messages'
<1>0. /\ TerminalTypeOK /\ \A s \in Task : tasks[s] \in TaskType
      /\ last # 0 => last = Len(tasks) /\ last \in Task
  BY TaskIs DEF Basic, TerminalTypeOK
<1> DEFINE T == AppendStep(0)
<1>1. /\ T \in Seq(TaskType) /\ Len(T) = Len(tasks)
      /\ \A s \in Task : T[s] = tasks[s] \/
           /\ s = last /\ last # 0
           /\ \E p \in Shows : Pushed(tasks[s].shown, 0, p) /\ T[s] = [tasks[s] EXCEPT !.shown = p]
  BY <1>0, AppendStepIs
<1>2. tasks' = Disturb(T, AliveTasks) /\ UNCHANGED queue /\ running
  BY DEF Interrupt
<1> HIDE DEF T
<1>3. Len(tasks) \in AliveTasks
  <2> DEFINE x == tasks[Len(tasks)]
  <2>1. Len(tasks) \in Task /\ Owes(queue, Len(tasks), x) /\ Placed(x)
    BY <1>2 DEF BusyForATask, Basic
  <2>2. CASE x.end = "none"
    BY <2>1, <2>2 DEF Placed, Going, AliveTasks, Alive
  <2>3. CASE Queued(queue, Len(tasks), "done")
    BY <2>1, <2>3 DEF Queued, AliveTasks, Alive
  <2>4. CASE DOMAIN x.out # {}
    <3>1. x.out \in Seq(Kinds)
      BY <1>0, <2>1 DEF TaskType, Outs
    <3>2. Len(x.out) > 0
      BY <2>4, <3>1
    <3> QED
      BY <2>1, <3>2 DEF Placed, AliveTasks, Alive
  <2> QED
    BY <2>1, <2>2, <2>3, <2>4 DEF Owes, Waits
<1>4. ASSUME NEW s \in Task
      PROVE  /\ T[s].at = tasks[s].at /\ T[s].out = tasks[s].out
             /\ T[s].end = tasks[s].end /\ T[s].beside = tasks[s].beside
             /\ T[s].disturbed = tasks[s].disturbed
             /\ s \notin AliveTasks => T[s] = tasks[s]
             /\ Unmixed(s, T[s])
  <2>0. Unmixed(s, tasks[s])
    BY DEF Messages
  <2>1. CASE T[s] = tasks[s]
    BY <2>0, <2>1
  <2>2. CASE T[s] # tasks[s]
    <3>1. PICK p \in Shows : Pushed(tasks[s].shown, 0, p) /\ T[s] = [tasks[s] EXCEPT !.shown = p]
      BY <1>1, <2>2
    <3>2. s \in AliveTasks
      BY <1>0, <1>1, <1>3, <2>2
    <3>3. /\ T[s].at = tasks[s].at /\ T[s].out = tasks[s].out
          /\ T[s].end = tasks[s].end /\ T[s].beside = tasks[s].beside
          /\ T[s].disturbed = tasks[s].disturbed
          /\ T[s].shown = p /\ T[s].result = tasks[s].result
      BY <1>0, <3>1 DEF TaskType
    <3>4. Unmixed(s, T[s])
      BY <2>0, <3>1, <3>3 DEF Unmixed, Pushed
    <3> QED
      BY <3>2, <3>3, <3>4
  <2> QED
    BY <2>1, <2>2
<1> QED
  BY <1>1, <1>2, <1>4, MessagesDisturb

LEMMA MessagesKey ==
  ASSUME Basic, Messages, BusyForATask, Key
  PROVE  Messages'
<1>0. TerminalTypeOK
  BY DEF Basic
<1>1. ASSUME NEW place \in {"connect", "call"}, Submit(place) PROVE Messages'
  <2> DEFINE x == NewOne(place)
  <2>1. x \in TaskType /\ Placing(Started(place), Started(place), Len(tasks) + 1, x)
    BY <1>0, NewOneIs
  <2>2. /\ DOMAIN x.out = {} /\ x.disturbed = (AliveTasks # {}) /\ x.beside = (AliveTasks # {})
        /\ x.shown = <<>> /\ x.sent = 0 /\ x.end = "none" /\ x.result = 0
    BY DEF NewOne, NewTask
  <2>3. place \in Places
    BY DEF Places
  <2>4. /\ tasks' = Started(place) /\ running' = TRUE /\ last' = Len(tasks) + 1 /\ UNCHANGED queue
    BY <1>1 DEF Submit
  <2> HIDE DEF x
  <2> QED
    BY <2>1, <2>2, <2>3, <2>4, MessagesStarted
<1>2. CASE SubmitCoder
  <2> DEFINE x == NewCoder
  <2>1. x \in TaskType /\ Placing(Started("over"), tasks', Len(tasks) + 1, x)
    BY <1>0, <1>2, NewCoderIs
  <2>2. /\ DOMAIN x.out = {} /\ x.disturbed = (AliveTasks # {}) /\ x.beside = (AliveTasks # {})
        /\ x.shown = <<>> /\ x.sent = 0 /\ x.end = "result" /\ x.result = Len(tasks) + 1
    BY DEF NewCoder, NewOne, NewTask
  <2>3. "over" \in Places /\ UNCHANGED queue
    BY <1>2 DEF Places, SubmitCoder
  <2> HIDE DEF x
  <2> QED
    BY <2>1, <2>2, <2>3, MessagesStarted
<1>3. CASE Reset \/ Notice
  <2>1. tasks \in Seq(TaskType) /\ tasks' = Disturb(tasks, AliveTasks) /\ UNCHANGED queue
    BY <1>3 DEF Basic, TerminalTypeOK, Reset, Notice
  <2>2. \A s \in Task : Unmixed(s, tasks[s])
    BY DEF Messages
  <2> QED
    BY <2>1, <2>2, MessagesDisturb
<1> QED
  BY <1>1, <1>2, <1>3, MessagesInterrupt DEF Key

LEMMA MessagesStep == Basic /\ Messages /\ BusyForATask /\ [TerminalNext]_terminalVars => Messages'
<1> SUFFICES ASSUME Basic, Messages, BusyForATask, [TerminalNext]_terminalVars PROVE Messages'
  OBVIOUS
<1>1. CASE UNCHANGED terminalVars
  BY <1>1 DEF terminalVars, Messages, Apart, Task
<1>2. CASE \E t \in Task : Coroutine(t) \/ Reader(t)
  BY <1>2, MessagesCoroutine, MessagesReader
<1> QED
  BY <1>1, <1>2, MessagesHandle, MessagesKey DEF TerminalNext

\* A message has nothing of another task if its own was never alive beside one;
\* if nothing else disturbed the task, it shows as many of the steps reported as
\* the cap allows, and the result, and the terminal is busy until it hears of the
\* end: for any number of tasks and lines and any cap.
THEOREM MessagesOfTasks == TerminalSpec => []MessagesAreExact
<1>1. Basic /\ Messages => MessagesAreExact
  <2> SUFFICES ASSUME Basic, Messages, NEW t \in Task
               PROVE  LET x == tasks[t] IN
                      /\ ~x.beside => /\ \A i \in DOMAIN x.shown : x.shown[i] \in {0, t}
                                      /\ x.result \in {0, t}
                      /\ ~x.disturbed =>
                           /\ \A i \in DOMAIN x.shown : x.shown[i] = t
                           /\ Len(x.shown) = Least(x.sent - Cardinality(InQueue(t, "step")), StepsCap)
                           /\ ~Alive(t) => (x.result = t <=> x.end = "result")
                           /\ x.end = "none" => running
    BY DEF MessagesAreExact
  <2>1. Unmixed(t, tasks[t])
    BY DEF Messages
  <2>2. InQueue(t, "step") = Steps(queue, t)
    BY DEF InQueue, Steps
  <2>3. ASSUME ~tasks[t].disturbed
        PROVE  /\ \A i \in DOMAIN tasks[t].shown : tasks[t].shown[i] = t
               /\ Len(tasks[t].shown) = Least(Taken(queue, t, tasks[t]), StepsCap)
               /\ ~Alive(t) => (tasks[t].result = t <=> tasks[t].end = "result")
               /\ tasks[t].end = "none" => running
    <3>1. Shown(queue, t, tasks[t], running, last) /\ t # 0
      BY <2>3, TaskIs DEF Basic, Messages
    <3>2. ~Alive(t) => ~Ahead(queue, t, tasks[t])
      BY <2>3, QuietIsOver DEF Alive, Lives
    <3>3. tasks[t].end = "none" => Ahead(queue, t, tasks[t])
      BY DEF Ahead
    <3> QED
      BY <3>1, <3>2, <3>3 DEF Shown
  <2> QED
    BY <2>1, <2>2, <2>3 DEF Unmixed, Taken
<1>2. TerminalInit => BusyForATask
  BY DEF TerminalInit, BusyForATask
<1> QED
  BY <1>1, <1>2, BasicInit, BasicStep, BusyStep, MessagesInit, MessagesStep, PTL DEF TerminalSpec
=============================================================================
