--------------------------- MODULE GatewayProofs ---------------------------
(***************************************************************************)
(* Proofs about Gateway, for any platforms, messages and sessions: its     *)
(* types, that a session has one agent at work exactly while both the      *)
(* adapter and the runner hold it, which messages the cursor of a polled   *)
(* platform leaves without a task or brings twice, that no message is      *)
(* confirmed unhandled, and that what became of a delivery is decided      *)
(* once.                                                                   *)
(***************************************************************************)
EXTENDS Gateway, FiniteSetTheorems, TLAPS

\* The copies of a message come one after the other.
CopiesInOrder ==
  \A m \in Messages : \E k \in 0..MaxDeliveries :
    \A i \in 1..MaxDeliveries : stage[<<m, i>>] # "none" <=> i <= k

IInv == TypeOK /\ CopiesInOrder /\ OneAgentPerSession

-----------------------------------------------------------------------------
(* Deliveries.                                                             *)

\* The constants of a delivery.
LEMMA DeliveryType ==
  ASSUME NEW d \in Deliveries
  PROVE  d[1] \in Messages /\ Platform(d) \in Platforms /\ Session(d) \in Sessions
BY GatewayAssumption DEF Deliveries, Platform, Session

\* How many copies of a message there are.
LEMMA CopyCount ==
  ASSUME CopiesInOrder, NEW m \in Messages
  PROVE  /\ IsFiniteSet(Begun(m))
         /\ \E k \in 0..MaxDeliveries :
              /\ Copies(m) = k
              /\ \A i \in 1..MaxDeliveries : stage[<<m, i>>] # "none" <=> i <= k
<1>1. PICK k \in 0..MaxDeliveries : \A i \in 1..MaxDeliveries : stage[<<m, i>>] # "none" <=> i <= k
  BY DEF CopiesInOrder
<1> DEFINE f == [i \in 1..k |-> <<m, i>>]
<1>2. MaxDeliveries \in Nat /\ k \in Nat /\ k <= MaxDeliveries
  BY GatewayAssumption
<1>3. Begun(m) = {<<m, i>> : i \in 1..k}
  <2>1. \A d : d \in Begun(m) <=> \E i \in 1..MaxDeliveries : d = <<m, i>> /\ stage[<<m, i>>] # "none"
    <3>1. \A d : d \in Deliveries <=> \E n \in Messages, i \in 1..MaxDeliveries : d = <<n, i>>
      BY DEF Deliveries
    <3>2. \A n, i : <<n, i>>[1] = n
      OBVIOUS
    <3>3. ASSUME NEW d, d \in Begun(m)
          PROVE  \E i \in 1..MaxDeliveries : d = <<m, i>> /\ stage[<<m, i>>] # "none"
      <4>1. d \in Deliveries /\ d[1] = m /\ stage[d] # "none"
        BY <3>3 DEF Begun
      <4>2. PICK n \in Messages, i \in 1..MaxDeliveries : d = <<n, i>>
        BY <3>1, <4>1
      <4>3. n = m
        BY <3>2, <4>1, <4>2
      <4> QED
        BY <4>1, <4>2, <4>3
    <3>4. ASSUME NEW i \in 1..MaxDeliveries, stage[<<m, i>>] # "none"
          PROVE  <<m, i>> \in Begun(m)
      BY <3>1, <3>2, <3>4 DEF Begun
    <3> QED
      BY <3>3, <3>4
  <2>2. \A i \in 1..MaxDeliveries : stage[<<m, i>>] # "none" <=> i \in 1..k
    BY <1>1, <1>2
  <2>3. 1..k \subseteq 1..MaxDeliveries
    BY <1>2
  <2> QED
    BY <2>1, <2>2, <2>3
<1>4. f \in Bijection(1..k, Begun(m))
  BY <1>3 DEF Bijection, Injection, Surjection, IsInjective
<1>5. IsFiniteSet(1..k) /\ Cardinality(1..k) = k
  <2>1. IsFiniteSet(1..k) /\ Cardinality(1..k) = IF 1 > k THEN 0 ELSE k - 1 + 1
    BY <1>2, FS_Interval
  <2> QED
    BY <1>2, <2>1
<1>6. IsFiniteSet(Begun(m)) /\ Cardinality(Begun(m)) = k
  <2> HIDE DEF f
  <2>1. ExistsBijection(1..k, Begun(m))
    BY <1>4 DEF ExistsBijection
  <2> QED
    BY <1>5, <2>1, FS_Bijection
<1>7. Copies(m) = k
  BY <1>6 DEF Copies
<1> QED
  BY <1>1, <1>6, <1>7

\* The next copy of a message is one that was not there.
LEMMA NextCopyIsNew ==
  ASSUME TypeOK, CopiesInOrder, NEW m \in Messages, Copies(m) < MaxDeliveries
  PROVE  /\ NextCopy(m) \in Deliveries /\ stage[NextCopy(m)] = "none"
         /\ \E k \in 0..(MaxDeliveries - 1) :
              /\ NextCopy(m) = <<m, k + 1>>
              /\ \A i \in 1..MaxDeliveries : stage[<<m, i>>] # "none" <=> i <= k
<1>1. PICK k \in 0..MaxDeliveries :
        Copies(m) = k /\ \A i \in 1..MaxDeliveries : stage[<<m, i>>] # "none" <=> i <= k
  BY CopyCount
<1>2. k \in 0..(MaxDeliveries - 1) /\ k + 1 \in 1..MaxDeliveries /\ NextCopy(m) = <<m, k + 1>>
  BY <1>1, GatewayAssumption DEF NextCopy
<1> QED
  BY <1>1, <1>2 DEF Deliveries

\* A delivery comes to another stage.
LEMMA StageSet ==
  ASSUME TypeOK, NEW d \in Deliveries, NEW s \in Stages, Goes(d, s)
  PROVE  /\ stage' \in [Deliveries -> Stages] /\ stage'[d] = s
         /\ \A e \in Deliveries : e # d => stage'[e] = stage[e]
BY DEF TypeOK, Goes

\* The handling of a delivery is over.
LEMMA EndsStep ==
  ASSUME TypeOK, NEW d \in Deliveries, NEW o \in Outcomes, NEW reply, Ends(d, o, reply)
  PROVE  /\ stage' \in [Deliveries -> Stages] /\ stage'[d] \in {"acking", "echo", "done"}
         /\ \A e \in Deliveries : e # d => stage'[e] = stage[e]
         /\ outcome' \in [Deliveries -> Outcomes] /\ outcome'[d] = o
         /\ \A e \in Deliveries : e # d => outcome'[e] = outcome[e]
<1>1. /\ AfterHandling(d, reply) \in {"acking", "echo", "done"}
      /\ AfterHandling(d, reply) \in Stages
  BY DEF AfterHandling, Stages, SendStages
<1>2. /\ outcome' \in [Deliveries -> Outcomes] /\ outcome'[d] = o
      /\ \A e \in Deliveries : e # d => outcome'[e] = outcome[e]
  BY DEF Ends, TypeOK
<1> QED
  BY <1>1, <1>2, StageSet DEF Ends

\* The counter of failures and the circuits.
LEMMA HandlerStep ==
  ASSUME TypeOK, NEW d \in Deliveries, HandlerReturned(d) \/ HandlerRaised(d)
  PROVE  failures' \in [Platforms -> Nat] /\ tripped' \subseteq Platforms
<1>1. Platform(d) \in Platforms
  BY DeliveryType
<1>2. failures[Platform(d)] \in Nat
  BY <1>1 DEF TypeOK
<1> QED
  BY <1>1, <1>2 DEF TypeOK, HandlerReturned, HandlerRaised

\* What a step makes of one delivery: nothing to do with its agent, ...
Quiet(d) ==
  /\ stage[d] \notin RunStages /\ stage'[d] \notin RunStages
  /\ UNCHANGED <<active, running>>

\* ... or its agent starts, goes on, or ends.
Starts(d) ==
  /\ stage[d] \notin RunStages /\ stage'[d] \in RunStages
  /\ Session(d) \notin running
  /\ active' = active \cup {Session(d)} /\ running' = running \cup {Session(d)}
GoesOn(d) ==
  /\ stage[d] \in RunStages /\ stage'[d] \in RunStages
  /\ UNCHANGED <<active, running>>
Leaves(d) ==
  /\ stage[d] \in RunStages /\ stage'[d] \notin RunStages
  /\ active' = active \ {Session(d)} /\ running' = running \ {Session(d)}

\* What such a step changes, and never undoes.
StepTypes(d) ==
  /\ stage' \in [Deliveries -> Stages]
  /\ stage[d] # "none" /\ stage'[d] \notin {"none", "created"}
  /\ \A e \in Deliveries : e # d => stage'[e] = stage[e] /\ outcome'[e] = outcome[e]
  /\ outcome' \in [Deliveries -> Outcomes]
  /\ outcome[d] # "none" \/ stage'[d] = "acking" => outcome'[d] # "none"
  /\ pending' \subseteq Deliveries
  /\ failures' \in [Platforms -> Nat] /\ tripped' \subseteq Platforms

\* It does not make a duplicate.
Clean(d) == outcome'[d] = "duplicate" => outcome[d] = "duplicate"

\* What can become of a message that was handled.
Ended == Outcomes \ {"none"}

\* The end of a handling, counted or not.
LEMMA OverStep ==
  ASSUME TypeOK, NEW d \in Deliveries, NEW o \in Ended, NEW reply,
         Returns(d, o, reply) \/ Raises(d) \/ (Ends(d, o, reply) /\ UNCHANGED <<failures, tripped>>),
         stage[d] # "none", pending' \subseteq Deliveries
  PROVE  StepTypes(d) /\ stage'[d] \notin RunStages /\ (o # "duplicate" => Clean(d))
<1>1. "raised" \in Outcomes
  BY DEF Outcomes
<1>2. Ends(d, o, reply) \/ Ends(d, "raised", FALSE)
  BY DEF Returns, Raises
<1>3. /\ stage' \in [Deliveries -> Stages] /\ stage'[d] \in {"acking", "echo", "done"}
      /\ \A e \in Deliveries : e # d => stage'[e] = stage[e] /\ outcome'[e] = outcome[e]
      /\ outcome' \in [Deliveries -> Outcomes] /\ outcome'[d] \in {o, "raised"}
  BY <1>1, <1>2, EndsStep DEF Ended
<1>4. failures' \in [Platforms -> Nat] /\ tripped' \subseteq Platforms
  <2>1. CASE HandlerReturned(d) \/ HandlerRaised(d)
    BY <2>1, HandlerStep
  <2>2. CASE UNCHANGED <<failures, tripped>>
    BY <2>2 DEF TypeOK
  <2> QED
    BY <2>1, <2>2 DEF Returns, Raises
<1> QED
  BY <1>3, <1>4 DEF StepTypes, RunStages, Clean, Ended

\* A send begins.
LEMMA WaitsStep ==
  ASSUME TypeOK, NEW d \in Deliveries, NEW s \in SendStages, s # "acking", Waits(d, s),
         stage[d] # "none", pending' \subseteq Deliveries
  PROVE  StepTypes(d) /\ stage'[d] = s /\ Clean(d)
<1>1. s \in Stages /\ s \notin {"none", "created"}
  BY DEF Stages, SendStages, RunStages
<1> QED
  BY <1>1, StageSet DEF Waits, StepTypes, TypeOK, Clean

-----------------------------------------------------------------------------
(* What each action does to a delivery.                                    *)

\* The kinds of outcome and of stage the actions name.
LEMMA Names ==
  /\ {"skipped", "duplicate", "dropped", "queued", "unhandled", "denied", "silent", "replied",
      "helped", "busy", "answered", "noticed", "raised"} \subseteq Ended
  /\ RunStages \cup {"denied", "help", "busy", "echo", "acking"} \subseteq SendStages
  /\ \A s \in {"created", "denied", "help", "busy", "echo", "acking", "done"} : s \notin RunStages
  /\ {"processing", "result", "error"} \subseteq RunStages
BY DEF Ended, Outcomes, SendStages, RunStages

\* The runner takes a message up to its first send.
LEMMA HandleStep ==
  ASSUME TypeOK, NEW d \in Deliveries, stage[d] = "created", HandleMessage(d),
         pending' \subseteq Deliveries
  PROVE  StepTypes(d) /\ (Quiet(d) \/ Starts(d)) /\ Clean(d)
<1> USE Names
<1>1. stage[d] # "none" /\ stage[d] \notin RunStages
  OBVIOUS
<1>2. CASE Unauthorized(d)
  <2>1. CASE Waits(d, "denied")
    BY <1>1, <1>2, <2>1, WaitsStep DEF Unauthorized, Quiet
  <2>2. CASE Returns(d, "silent", FALSE)
    BY <1>1, <1>2, <2>2, OverStep DEF Unauthorized, Quiet
  <2> QED
    BY <1>2, <2>1, <2>2 DEF Unauthorized
<1>3. CASE Command(d)
  <2>1. CASE Waits(d, "help")
    BY <1>1, <1>3, <2>1, WaitsStep DEF Command, Quiet
  <2>2. CASE Returns(d, "silent", FALSE) \/ Returns(d, "replied", TRUE)
    BY <1>1, <1>3, <2>2, OverStep DEF Command, Quiet
  <2> QED
    BY <1>3, <2>1, <2>2 DEF Command
<1>4. CASE Busy(d)
  <2>1. CASE Waits(d, "busy")
    BY <1>1, <1>4, <2>1, WaitsStep DEF Busy, Quiet
  <2>2. CASE Returns(d, "silent", FALSE)
    BY <1>1, <1>4, <2>2, OverStep DEF Busy, Quiet
  <2> QED
    BY <1>4, <2>1, <2>2 DEF Busy
<1>5. CASE RunAgent(d)
  <2>1. CASE RunnerKnows(d)
    <3>1. Waits(d, "processing") /\ Session(d) \notin running
      BY <1>5, <2>1 DEF RunAgent
    <3>2. active' = active \cup {Session(d)} /\ running' = running \cup {Session(d)}
      BY <1>5, <2>1 DEF RunAgent
    <3>3. StepTypes(d) /\ stage'[d] = "processing" /\ Clean(d)
      BY <1>1, <3>1, WaitsStep
    <3> QED
      BY <1>1, <3>1, <3>2, <3>3 DEF Starts
  <2>2. CASE ~RunnerKnows(d)
    BY <1>1, <1>5, <2>2, OverStep DEF RunAgent, Quiet
  <2> QED
    BY <2>1, <2>2
<1> QED
  BY <1>2, <1>3, <1>4, <1>5 DEF HandleMessage

\* A delivery begins.
LEMMA BeginStep ==
  ASSUME TypeOK, NEW d \in Deliveries, Begin(d)
  PROVE  /\ StepTypes(d) /\ (Quiet(d) \/ Starts(d)) /\ stage[d] = "created"
         /\ seen' \subseteq Messages /\ seen' \subseteq seen \cup {d[1]}
         /\ Clean(d) \/ (d[1] \in seen /\ seen' = seen)
         /\ UNCHANGED <<processVars, cursor, saved, acked, forgot, missed>>
<1> USE Names
<1>1. stage[d] = "created" /\ stage[d] # "none" /\ stage[d] \notin RunStages
  BY DEF Begin
<1>2. seen' \subseteq Messages /\ seen' \subseteq seen \cup {d[1]}
  <2>1. d[1] \in Messages
    BY DeliveryType
  <2> QED
    BY <2>1 DEF Begin, Ignore, DropDuplicate, Forward, TypeOK
<1>3. CASE Ignore(d) \/ DropDuplicate(d)
  <2>0. Ignore(d) \/ (d[1] \in seen /\ seen' = seen)
    BY <1>3 DEF DropDuplicate
  <2>1. pending' \subseteq Deliveries /\ UNCHANGED <<failures, tripped, active, running>>
    BY <1>3 DEF Ignore, DropDuplicate, adapterVars, TypeOK
  <2>2. Ends(d, "skipped", FALSE) \/ Ends(d, "duplicate", FALSE)
    BY <1>3 DEF Ignore, DropDuplicate
  <2>3. StepTypes(d) /\ stage'[d] \notin RunStages /\ (Ignore(d) => Clean(d))
    <3>1. CASE Ends(d, "skipped", FALSE)
      BY <1>1, <2>1, <3>1, OverStep
    <3>2. CASE ~Ignore(d) /\ Ends(d, "duplicate", FALSE)
      BY <1>1, <2>1, <3>2, OverStep
    <3> QED
      BY <2>2, <3>1, <3>2 DEF Ignore
  <2> QED
    BY <1>1, <1>2, <2>0, <2>1, <2>3 DEF Quiet, Begin
<1>4. CASE CircuitIsOpen(d)
  <2>1. pending' \subseteq Deliveries /\ UNCHANGED <<failures, tripped, active, running>>
    BY <1>4 DEF CircuitIsOpen, adapterVars, TypeOK
  <2>2. StepTypes(d) /\ stage'[d] \notin RunStages /\ Clean(d)
    BY <1>1, <1>4, <2>1, OverStep DEF CircuitIsOpen
  <2> QED
    BY <1>1, <1>2, <2>1, <2>2 DEF Quiet, Begin
<1>5. CASE Queue(d)
  <2>1. pending' \subseteq Deliveries /\ UNCHANGED <<failures, tripped, active, running>>
    BY <1>5 DEF Queue, TypeOK
  <2>2. StepTypes(d) /\ stage'[d] \notin RunStages /\ Clean(d)
    BY <1>1, <1>5, <2>1, OverStep DEF Queue
  <2> QED
    BY <1>1, <1>2, <2>1, <2>2 DEF Quiet, Begin
<1>6. CASE Pass(d)
  <2>1. pending' \subseteq Deliveries
    BY <1>6 DEF Pass, Dispatch, TypeOK
  <2>2. CASE HandleMessage(d)
    BY <1>1, <1>2, <2>1, <2>2, HandleStep DEF Begin
  <2>3. CASE Ends(d, "unhandled", FALSE) /\ UNCHANGED <<active, running, failures, tripped>>
    <3>1. StepTypes(d) /\ stage'[d] \notin RunStages /\ Clean(d)
      BY <1>1, <2>1, <2>3, OverStep
    <3> QED
      BY <1>1, <1>2, <2>3, <3>1 DEF Quiet, Begin
  <2> QED
    BY <1>6, <2>2, <2>3 DEF Pass, Dispatch
<1> QED
  BY <1>3, <1>4, <1>5, <1>6 DEF Begin, Forward, OnMessage

\* A send ends.
LEMMA SendStep ==
  ASSUME TypeOK, NEW d \in Deliveries, SendEnds(d)
  PROVE  StepTypes(d) /\ (Quiet(d) \/ GoesOn(d) \/ Leaves(d)) /\ Clean(d)
<1> USE Names
<1>1. CASE Notified(d)
  <2>1. pending' \subseteq Deliveries /\ UNCHANGED <<active, running>>
    BY <1>1 DEF Notified, TypeOK
  <2>2. PICK s \in {"denied", "help", "busy"} :
          stage[d] = s /\ (Returns(d, IF s = "help" THEN "helped" ELSE s, FALSE) \/ Raises(d))
    BY <1>1 DEF Notified
  <2>3. (IF s = "help" THEN "helped" ELSE s) \in Ended \ {"duplicate"} /\ s \notin RunStages /\ s # "none"
    OBVIOUS
  <2>4. StepTypes(d) /\ stage'[d] \notin RunStages /\ Clean(d)
    BY <2>1, <2>2, <2>3, OverStep
  <2> QED
    BY <2>1, <2>2, <2>3, <2>4 DEF Quiet
<1>2. CASE Processing(d)
  <2>1. pending' \subseteq Deliveries /\ UNCHANGED <<active, running>>
    BY <1>2 DEF Processing, TypeOK
  <2>2. stage[d] = "processing" /\ (Waits(d, "result") \/ Waits(d, "error"))
    BY <1>2 DEF Processing
  <2>3. StepTypes(d) /\ stage'[d] \in RunStages /\ Clean(d)
    BY <2>1, <2>2, WaitsStep
  <2> QED
    BY <2>1, <2>2, <2>3 DEF GoesOn
<1>3. CASE Result(d)
  <2>1. stage[d] = "result"
    BY <1>3 DEF Result
  <2>2. CASE Returns(d, "answered", TRUE) /\ RunOver(d)
    <3>1. pending' \subseteq Deliveries
      BY <2>2 DEF RunOver, TypeOK
    <3>2. StepTypes(d) /\ stage'[d] \notin RunStages /\ Clean(d)
      BY <2>1, <2>2, <3>1, OverStep
    <3> QED
      BY <2>1, <2>2, <3>2 DEF Leaves, RunOver
  <2>3. CASE Waits(d, "error") /\ UNCHANGED <<active, running, pending>>
    <3>1. pending' \subseteq Deliveries
      BY <2>3 DEF TypeOK
    <3>2. StepTypes(d) /\ stage'[d] \in RunStages /\ Clean(d)
      BY <2>1, <2>3, <3>1, WaitsStep
    <3> QED
      BY <2>1, <2>3, <3>2 DEF GoesOn
  <2> QED
    BY <1>3, <2>2, <2>3 DEF Result
<1>4. CASE Error(d)
  <2>1. stage[d] = "error" /\ RunOver(d) /\ (Returns(d, "noticed", FALSE) \/ Raises(d))
    BY <1>4 DEF Error
  <2>2. pending' \subseteq Deliveries
    BY <2>1 DEF RunOver, TypeOK
  <2>3. StepTypes(d) /\ stage'[d] \notin RunStages /\ Clean(d)
    BY <2>1, <2>2, OverStep
  <2> QED
    BY <2>1, <2>3 DEF Leaves, RunOver
<1>5. CASE Echo(d)
  <2>1. stage[d] = "echo" /\ Goes(d, "done") /\ UNCHANGED <<adapterVars, outcome>>
    BY <1>5 DEF Echo
  <2>2. "done" \in Stages
    BY DEF Stages
  <2>3. /\ stage' \in [Deliveries -> Stages] /\ stage'[d] = "done"
        /\ \A e \in Deliveries : e # d => stage'[e] = stage[e]
    BY <2>1, <2>2, StageSet
  <2> QED
    BY <2>1, <2>3 DEF Quiet, StepTypes, Clean, adapterVars, TypeOK
<1> QED
  BY <1>1, <1>2, <1>3, <1>4, <1>5 DEF SendEnds

-----------------------------------------------------------------------------
(* The invariant: what keeps its parts.                                    *)

\* No delivery begins or ends to have an agent.
LEMMA SameAtWork ==
  ASSUME OneAgentPerSession, UNCHANGED <<active, running>>,
         \A e \in Deliveries : stage'[e] \in RunStages <=> stage[e] \in RunStages
  PROVE  OneAgentPerSession'
<1>1. \A s : AtWork(s)' = AtWork(s)
  BY DEF AtWork, Session
<1> QED
  BY <1>1 DEF OneAgentPerSession

\* One delivery begins, or ends, or goes on.
LEMMA OneAtWork ==
  ASSUME TypeOK, OneAgentPerSession, NEW d \in Deliveries, StepTypes(d),
         Quiet(d) \/ Starts(d) \/ GoesOn(d) \/ Leaves(d)
  PROVE  OneAgentPerSession'
<1>1. CASE Quiet(d) \/ GoesOn(d)
  <2>1. \A e \in Deliveries : stage'[e] \in RunStages <=> stage[e] \in RunStages
    BY <1>1 DEF Quiet, GoesOn, StepTypes
  <2> QED
    BY <1>1, <2>1, SameAtWork DEF Quiet, GoesOn
<1>2. CASE Starts(d)
  <2>1. AtWork(Session(d)) = {}
    BY <1>2, DeliveryType DEF Starts, OneAgentPerSession
  <2>2. \A s \in Sessions : AtWork(s)' = IF s = Session(d) THEN {d} ELSE AtWork(s)
    BY <1>2, <2>1 DEF Starts, StepTypes, AtWork, Session
  <2> QED
    BY <1>2, <2>2 DEF Starts, OneAgentPerSession
<1>3. CASE Leaves(d)
  <2>1. AtWork(Session(d)) = {d}
    BY <1>3, DeliveryType DEF Leaves, OneAgentPerSession, AtWork
  <2>2. \A s \in Sessions : AtWork(s)' = IF s = Session(d) THEN {} ELSE AtWork(s)
    BY <1>3, <2>1 DEF Leaves, StepTypes, AtWork, Session
  <2> QED
    BY <1>3, <2>2 DEF Leaves, OneAgentPerSession
<1> QED
  BY <1>1, <1>2, <1>3

\* No delivery is made.
LEMMA SameCopies ==
  ASSUME CopiesInOrder,
         \A e \in Deliveries : stage'[e] = "none" <=> stage[e] = "none"
  PROVE  CopiesInOrder'
<1> SUFFICES ASSUME NEW m \in Messages
             PROVE  \E k \in 0..MaxDeliveries :
                      \A i \in 1..MaxDeliveries : stage'[<<m, i>>] # "none" <=> i <= k
  BY DEF CopiesInOrder
<1>1. PICK k \in 0..MaxDeliveries : \A i \in 1..MaxDeliveries : stage[<<m, i>>] # "none" <=> i <= k
  BY DEF CopiesInOrder
<1>2. \A i \in 1..MaxDeliveries : <<m, i>> \in Deliveries
  BY DEF Deliveries
<1> QED
  BY <1>1, <1>2

\* The next delivery of a message, or of many, is made.
LEMMA MoreCopies ==
  ASSUME TypeOK, CopiesInOrder, NEW M \in SUBSET Messages,
         \A m \in M : Copies(m) < MaxDeliveries,
         \A d \in Deliveries :
           stage'[d] = IF \E m \in M : d = NextCopy(m) THEN "created" ELSE stage[d]
  PROVE  CopiesInOrder' /\ \A d \in Deliveries : stage'[d] # stage[d] => stage[d] = "none"
<1>1. \A d \in Deliveries : stage'[d] # stage[d] => stage[d] = "none"
  BY NextCopyIsNew
<1>2. ASSUME NEW m \in Messages
      PROVE  \E k \in 0..MaxDeliveries :
               \A i \in 1..MaxDeliveries : stage'[<<m, i>>] # "none" <=> i <= k
  <2>1. \A i \in 1..MaxDeliveries : <<m, i>> \in Deliveries
    BY DEF Deliveries
  <2>2. \A n, i : <<n, i>>[1] = n /\ <<n, i>>[2] = i
    OBVIOUS
  <2>3. CASE m \in M
    <3>1. PICK k \in 0..(MaxDeliveries - 1) :
            /\ NextCopy(m) = <<m, k + 1>>
            /\ \A i \in 1..MaxDeliveries : stage[<<m, i>>] # "none" <=> i <= k
      BY <2>3, NextCopyIsNew
    <3>2. ASSUME NEW i \in 1..MaxDeliveries
          PROVE  (\E n \in M : <<m, i>> = NextCopy(n)) <=> i = k + 1
      BY <2>2, <2>3, <3>1 DEF NextCopy
    <3>3. k + 1 \in 0..MaxDeliveries
      BY GatewayAssumption
    <3>4. \A i \in 1..MaxDeliveries : stage'[<<m, i>>] # "none" <=> i <= k + 1
      BY <2>1, <3>1, <3>2, GatewayAssumption
    <3> QED
      BY <3>3, <3>4
  <2>4. CASE m \notin M
    <3>1. PICK k \in 0..MaxDeliveries :
            \A i \in 1..MaxDeliveries : stage[<<m, i>>] # "none" <=> i <= k
      BY DEF CopiesInOrder
    <3>2. \A i \in 1..MaxDeliveries : stage'[<<m, i>>] = stage[<<m, i>>]
      BY <2>1, <2>2, <2>4 DEF NextCopy
    <3> QED
      BY <3>1, <3>2
  <2> QED
    BY <2>3, <2>4
<1> QED
  BY <1>1, <1>2 DEF CopiesInOrder

-----------------------------------------------------------------------------
(* The invariant: one step per action.                                     *)

\* A coroutine begins or goes on.
LEMMA BeginInv ==
  ASSUME IInv, NEW d \in Deliveries, Begin(d)
  PROVE  IInv'
<1> USE DEF IInv
<1>1. /\ StepTypes(d) /\ (Quiet(d) \/ Starts(d)) /\ seen' \subseteq Messages
      /\ UNCHANGED <<processVars, cursor, saved, acked, forgot, missed>>
  BY BeginStep
<1>2. active' \subseteq Sessions /\ running' \subseteq Sessions
  BY <1>1, DeliveryType DEF TypeOK, Quiet, Starts
<1>3. TypeOK'
  BY <1>1, <1>2 DEF TypeOK, StepTypes, processVars
<1>4. CopiesInOrder'
  BY <1>1, SameCopies DEF StepTypes
<1> QED
  BY <1>1, <1>3, <1>4, OneAtWork

LEMMA SendInv ==
  ASSUME IInv, NEW d \in Deliveries, SendEnds(d)
  PROVE  IInv'
<1> USE DEF IInv
<1>1. StepTypes(d) /\ (Quiet(d) \/ GoesOn(d) \/ Leaves(d)) /\ UNCHANGED <<processVars, listenerVars>>
  BY SendStep DEF SendEnds
<1>2. active' \subseteq Sessions /\ running' \subseteq Sessions
  BY <1>1 DEF TypeOK, Quiet, GoesOn, Leaves
<1>3. TypeOK'
  BY <1>1, <1>2 DEF TypeOK, StepTypes, processVars, listenerVars
<1>4. CopiesInOrder'
  BY <1>1, SameCopies DEF StepTypes
<1> QED
  BY <1>1, <1>3, <1>4, OneAtWork

LEMMA AcknowledgeInv ==
  ASSUME IInv, NEW d \in Deliveries, Acknowledge(d)
  PROVE  IInv'
<1> USE DEF IInv
<1>1. /\ stage[d] = "acking" /\ Goes(d, "done") /\ acked' \in {acked, acked \cup {d[1]}}
      /\ UNCHANGED <<processVars, cursor, saved, seen, forgot, missed, adapterVars, outcome>>
  BY DEF Acknowledge
<1>2. "done" \in Stages /\ "done" \notin RunStages /\ "acking" \notin RunStages
  BY DEF Stages, RunStages
<1>3. /\ stage' \in [Deliveries -> Stages] /\ stage'[d] = "done"
      /\ \A e \in Deliveries : e # d => stage'[e] = stage[e]
  BY <1>1, <1>2, StageSet
<1>4. d[1] \in Messages
  BY DeliveryType
<1>5. TypeOK'
  BY <1>1, <1>3, <1>4 DEF TypeOK, processVars, adapterVars
<1>6. CopiesInOrder'
  BY <1>1, <1>3, SameCopies
<1>7. OneAgentPerSession'
  <2>1. \A e \in Deliveries : stage'[e] \in RunStages <=> stage[e] \in RunStages
    BY <1>1, <1>2, <1>3
  <2> QED
    BY <1>1, <2>1, SameAtWork DEF adapterVars
<1> QED
  BY <1>5, <1>6, <1>7

\* A platform hands out a message, a listener takes it.
LEMMA ArriveInv ==
  ASSUME IInv, NEW m \in Messages, Arrive(m) \/ Expire(m)
  PROVE  IInv'
<1> USE DEF IInv
<1>1. UNCHANGED <<active, running, stage>>
  BY DEF Arrive, Expire, adapterVars
<1>2. TypeOK'
  BY DEF TypeOK, Arrive, Expire, listenerVars, processVars, adapterVars
<1> QED
  BY <1>1, <1>2, SameAtWork, SameCopies

LEMMA PushInv ==
  ASSUME IInv, NEW m \in Messages, Push(m)
  PROVE  IInv'
<1> USE DEF IInv
<1>1. /\ Copies(m) < MaxDeliveries /\ Goes(NextCopy(m), "created")
      /\ UNCHANGED <<processVars, listenerVars, adapterVars, outcome>>
  BY DEF Push
<1>2. "created" \in Stages /\ "created" \notin RunStages /\ "none" \notin RunStages
  BY DEF Stages, RunStages
<1>3. NextCopy(m) \in Deliveries
  BY <1>1, NextCopyIsNew
<1>4. /\ stage' \in [Deliveries -> Stages] /\ stage'[NextCopy(m)] = "created"
      /\ \A e \in Deliveries : e # NextCopy(m) => stage'[e] = stage[e]
  BY <1>1, <1>2, <1>3, StageSet
<1>5. \A d \in Deliveries : stage'[d] = IF \E n \in {m} : d = NextCopy(n) THEN "created" ELSE stage[d]
  BY <1>4
<1>6. CopiesInOrder' /\ \A d \in Deliveries : stage'[d] # stage[d] => stage[d] = "none"
  BY <1>1, <1>5, MoreCopies
<1>7. TypeOK'
  BY <1>1, <1>4 DEF TypeOK, processVars, listenerVars, adapterVars
<1>8. \A e \in Deliveries : stage'[e] \in RunStages <=> stage[e] \in RunStages
  BY <1>2, <1>4, <1>6
<1> QED
  BY <1>1, <1>6, <1>7, <1>8, SameAtWork DEF adapterVars

\* What has arrived behind a cursor.
LEMMA BeyondType ==
  ASSUME TypeOK, NEW p \in Platforms
  PROVE  /\ \A c : Beyond(p, c) \subseteq Messages
         /\ Unfetched(p) \in SUBSET Messages
         /\ \A m \in Unfetched(p) : m \in arrived /\ PlatformOf[m] = p
BY DEF Beyond, Unfetched, TypeOK

\* The newest of a round, and what a save of it leaves in the file.
LEMMA SaveStep ==
  ASSUME TypeOK, NEW p \in Platforms, NEW n \in Newest(p), SaveCursor(p, n)
  PROVE  \E kept \in {n, saved[p], 0} :
           /\ n \in Nat /\ kept \in Nat
           /\ saved' = [saved EXCEPT ![p] = kept] /\ saved' \in [Platforms -> Nat]
           /\ forgot' = forgot \cup Beyond(p, kept) /\ forgot' \subseteq Messages
<1>1. PICK kept \in {n, saved[p], 0} :
        saved' = [saved EXCEPT ![p] = kept] /\ forgot' = forgot \cup Beyond(p, kept)
  BY DEF SaveCursor
<1>2. n \in Nat
  BY GatewayAssumption, BeyondType DEF Newest
<1>3. kept \in Nat
  BY <1>1, <1>2 DEF TypeOK
<1>4. saved' \in [Platforms -> Nat] /\ forgot' \subseteq Messages
  BY <1>1, <1>3, BeyondType DEF TypeOK
<1> QED
  BY <1>1, <1>2, <1>3, <1>4

\* What a round of polling does to the cursors.
LEMMA CursorStep ==
  ASSUME TypeOK, NEW p \in Platforms, Poll(p)
  PROVE  /\ cursor' \in [Platforms -> Nat] /\ saved' \in [Platforms -> Nat]
         /\ forgot' \subseteq Messages
<1>1. CASE Advance(p)
  <2>1. PICK n \in Newest(p) : cursor' = [cursor EXCEPT ![p] = n] /\ SaveCursor(p, n)
    BY <1>1 DEF Advance
  <2>2. n \in Nat /\ saved' \in [Platforms -> Nat] /\ forgot' \subseteq Messages
    BY <2>1, SaveStep
  <2> QED
    BY <2>1, <2>2 DEF TypeOK
<1>2. CASE StandStill(p)
  BY <1>2, BeyondType DEF StandStill, TypeOK
<1> QED
  BY <1>1, <1>2 DEF Poll

LEMMA PollInv ==
  ASSUME IInv, NEW p \in Platforms, Poll(p)
  PROVE  IInv'
<1> USE DEF IInv
<1>1. /\ \A m \in Unfetched(p) : Copies(m) < MaxDeliveries
      /\ stage' = [d \in Deliveries |-> IF \E m \in Unfetched(p) : d = NextCopy(m)
                                        THEN "created" ELSE stage[d]]
      /\ UNCHANGED <<processVars, seen, acked, missed, adapterVars, outcome>>
  BY DEF Poll
<1>2. "created" \in Stages /\ "created" \notin RunStages /\ "none" \notin RunStages
  BY DEF Stages, RunStages
<1>3. Unfetched(p) \in SUBSET Messages
  BY BeyondType
<1>4. CopiesInOrder' /\ \A d \in Deliveries : stage'[d] # stage[d] => stage[d] = "none"
  <2>1. \A d \in Deliveries :
          stage'[d] = IF \E m \in Unfetched(p) : d = NextCopy(m) THEN "created" ELSE stage[d]
    BY <1>1
  <2> QED
    BY <1>1, <1>3, <2>1, MoreCopies
<1>5. stage' \in [Deliveries -> Stages] /\ \A d \in Deliveries : stage'[d] \in {"created", stage[d]}
  BY <1>1, <1>2 DEF TypeOK
<1>6. TypeOK'
  BY <1>1, <1>5, CursorStep DEF TypeOK, processVars, adapterVars
<1>7. \A e \in Deliveries : stage'[e] \in RunStages <=> stage[e] \in RunStages
  BY <1>2, <1>4, <1>5
<1> QED
  BY <1>1, <1>4, <1>6, <1>7, SameAtWork DEF adapterVars

\* The process starts, and dies.
LEMMA StartInv ==
  ASSUME IInv, Start
  PROVE  IInv'
<1> USE DEF IInv
<1>1. UNCHANGED <<active, running, stage>>
  BY DEF Start, adapterVars
<1>2. TypeOK'
  BY DEF TypeOK, Start, adapterVars
<1> QED
  BY <1>1, <1>2, SameAtWork, SameCopies

LEMMA HaltInv ==
  ASSUME IInv, Die, saved' \in [Platforms -> Nat], forgot' \subseteq Messages,
         missed' \subseteq Messages
  PROVE  IInv'
<1> USE DEF IInv
<1>1. "lost" \in Stages /\ \A s \in {"lost", "none", "done"} : s \notin RunStages
  BY DEF Stages, RunStages
<1>2. /\ stage' \in [Deliveries -> Stages]
      /\ \A d \in Deliveries : stage'[d] \in {"none", "done", "lost"}
      /\ \A d \in Deliveries : stage'[d] = "none" <=> stage[d] = "none"
  BY <1>1 DEF Die, TypeOK
<1>3. halts' \in 0..MaxHalts
  BY GatewayAssumption DEF Die, TypeOK
<1>4. TypeOK'
  BY <1>2, <1>3 DEF Die, TypeOK
<1>5. CopiesInOrder'
  BY <1>2, SameCopies
<1>6. OneAgentPerSession'
  <2>1. \A s : AtWork(s)' = {}
    BY <1>1, <1>2 DEF AtWork
  <2> QED
    BY <2>1 DEF Die, OneAgentPerSession
<1> QED
  BY <1>4, <1>5, <1>6

LEMMA HaltsInv ==
  ASSUME IInv, Halt \/ \E p \in Platforms : HaltInPoll(p)
  PROVE  IInv'
<1>1. CASE Halt
  BY <1>1, HaltInv DEF Halt, IInv, TypeOK
<1>2. ASSUME NEW p \in Platforms, HaltInPoll(p)
      PROVE  IInv'
  <2>1. PICK n \in Newest(p) : SaveCursor(p, n)
    BY <1>2 DEF HaltInPoll
  <2>2. saved' \in [Platforms -> Nat] /\ forgot' \subseteq Messages
    BY <2>1, SaveStep DEF IInv
  <2>3. missed' \subseteq Messages
    BY <1>2, BeyondType DEF HaltInPoll, IInv, TypeOK
  <2> QED
    BY <1>2, <2>2, <2>3, HaltInv DEF HaltInPoll
<1> QED
  BY <1>1, <1>2

\* The invariant holds of every reachable state.
LEMMA Invariant == Spec => []IInv
<1>1. Init => IInv
  <2> SUFFICES ASSUME Init PROVE IInv
    OBVIOUS
  <2>1. TypeOK
    <3>1. sent \in SUBSET Messages /\ arrived \in SUBSET sent /\ halts \in 0..MaxHalts
      BY GatewayAssumption DEF Init
    <3>2. "none" \in Stages /\ "none" \in Outcomes
      BY DEF Stages, Outcomes
    <3> QED
      BY <3>1, <3>2 DEF Init, TypeOK
  <2>2. CopiesInOrder
    <3>1. 0 \in 0..MaxDeliveries /\ \A i \in 1..MaxDeliveries : ~(i <= 0)
      BY GatewayAssumption
    <3>2. \A m \in Messages : \A i \in 1..MaxDeliveries : stage[<<m, i>>] = "none"
      BY DEF Init, Deliveries
    <3> QED
      BY <3>1, <3>2 DEF CopiesInOrder
  <2>3. OneAgentPerSession
    <3>1. "none" \notin RunStages
      BY DEF RunStages
    <3> QED
      BY <3>1 DEF Init, OneAgentPerSession, AtWork
  <2> QED
    BY <2>1, <2>2, <2>3 DEF IInv
<1>2. IInv /\ [Next]_vars => IInv'
  <2> SUFFICES ASSUME IInv, [Next]_vars PROVE IInv'
    OBVIOUS
  <2>1. ASSUME NEW d \in Deliveries, Begin(d) \/ SendEnds(d) \/ Acknowledge(d) PROVE IInv'
    BY <2>1, BeginInv, SendInv, AcknowledgeInv
  <2>2. ASSUME NEW m \in Messages, Arrive(m) \/ Push(m) \/ Expire(m) PROVE IInv'
    BY <2>2, ArriveInv, PushInv
  <2>3. ASSUME NEW p \in Platforms, Poll(p) PROVE IInv'
    BY <2>3, PollInv
  <2>4. CASE UNCHANGED vars
    <3>1. TypeOK'
      BY <2>4 DEF IInv, TypeOK, vars, processVars, listenerVars, adapterVars
    <3>2. UNCHANGED <<active, running, stage>>
      BY <2>4 DEF vars, adapterVars
    <3> QED
      BY <3>1, <3>2, SameAtWork, SameCopies DEF IInv
  <2> QED
    BY <2>1, <2>2, <2>3, <2>4, StartInv, HaltsInv DEF Next
<1> QED
  BY <1>1, <1>2, PTL DEF Spec

-----------------------------------------------------------------------------
(* Polled platforms: the tasks of what a cursor has passed, or not.        *)

\* A cursor of platform p is 0 or the number of a message that has arrived.
IsCursor(p, c) == c = 0 \/ \E n \in arrived : PlatformOf[n] = p /\ Number[n] = c

\* Whatever the cursor c has passed has a copy, or the process died before.
IsCovered(p, c) ==
  \A m \in arrived : PlatformOf[m] = p /\ Number[m] <= c => Copies(m) > 0 \/ m \in missed

ArriveInOrder ==
  \A n \in arrived, m \in sent \ arrived : PlatformOf[n] = PlatformOf[m] => Number[n] < Number[m]

\* What the file and the cursor have held on to all the time has one copy, and
\* neither stands before it.
IsSingle(m, p) ==
  /\ m \notin arrived => Copies(m) = 0
  /\ m \notin forgot =>
       /\ Copies(m) <= 1
       /\ Copies(m) > 0 => Number[m] <= saved[p] /\ (up => Number[m] <= cursor[p])

Singles(p) == \A m \in Messages : PlatformOf[m] = p => IsSingle(m, p)

\* What holds of a polled platform.
Fetched(p) ==
  /\ IsCursor(p, cursor[p]) /\ IsCovered(p, cursor[p])
  /\ IsCursor(p, saved[p]) /\ IsCovered(p, saved[p])
  /\ Singles(p)

Fetching == ArriveInOrder /\ \A p \in Platforms : KindOf[p] = "poll" => Fetched(p)

\* A step that makes no delivery leaves the numbers of copies alone.
LEMMA SameCount ==
  ASSUME \A e \in Deliveries : stage'[e] = "none" <=> stage[e] = "none"
  PROVE  \A m : Copies(m)' = Copies(m)
<1>1. \A m : Begun(m)' = Begun(m)
  BY DEF Begun
<1> QED
  BY <1>1 DEF Copies

\* One that makes the next copies of the messages in M adds one to each.
LEMMA MoreCount ==
  ASSUME TypeOK, CopiesInOrder, NEW M \in SUBSET Messages,
         \A m \in M : Copies(m) < MaxDeliveries,
         \A d \in Deliveries :
           stage'[d] = IF \E m \in M : d = NextCopy(m) THEN "created" ELSE stage[d],
         NEW m \in Messages
  PROVE  Copies(m) \in Nat /\ Copies(m)' = IF m \in M THEN Copies(m) + 1 ELSE Copies(m)
<1>1. Copies(m) \in Nat /\ IsFiniteSet(Begun(m))
  BY CopyCount, GatewayAssumption
<1>2. \A n : NextCopy(n)[1] = n
  BY DEF NextCopy
<1>3. CASE m \in M
  <2>1. NextCopy(m) \in Deliveries /\ stage[NextCopy(m)] = "none"
    BY <1>3, NextCopyIsNew
  <2>2. Begun(m)' = Begun(m) \cup {NextCopy(m)}
    BY <1>2, <1>3, <2>1 DEF Begun
  <2>3. NextCopy(m) \notin Begun(m)
    BY <2>1 DEF Begun
  <2>4. Cardinality(Begun(m) \cup {NextCopy(m)}) = Cardinality(Begun(m)) + 1
    BY <1>1, <2>3, FS_AddElement
  <2> QED
    BY <1>1, <1>3, <2>2, <2>4 DEF Copies
<1>4. CASE m \notin M
  <2>1. Begun(m)' = Begun(m)
    BY <1>2, <1>4 DEF Begun
  <2> QED
    BY <1>1, <1>4, <2>1 DEF Copies
<1> QED
  BY <1>3, <1>4

\* A step that does not touch cursors, arrivals or polled messages.
LEMMA FetchingKept ==
  ASSUME Fetching, UNCHANGED <<sent, arrived, up, cursor, saved, forgot, missed>>,
         \A m \in Messages : KindOf[PlatformOf[m]] = "poll" => Copies(m)' = Copies(m),
         arrived \subseteq Messages
  PROVE  Fetching'
<1>1. ArriveInOrder'
  BY DEF Fetching, ArriveInOrder
<1>2. ASSUME NEW p \in Platforms, KindOf[p] = "poll"
      PROVE  Fetched(p)'
  <2>1. Fetched(p)
    BY <1>2 DEF Fetching
  <2>2. \A m \in Messages : PlatformOf[m] = p => Copies(m)' = Copies(m)
    BY <1>2
  <2>3. IsCovered(p, cursor[p])' /\ IsCovered(p, saved[p])'
    BY <2>1, <2>2 DEF Fetched, IsCovered
  <2>4. IsCursor(p, cursor[p])' /\ IsCursor(p, saved[p])'
    BY <2>1 DEF Fetched, IsCursor
  <2>5. Singles(p)'
    BY <2>1, <2>2 DEF Fetched, Singles, IsSingle
  <2> QED
    BY <2>3, <2>4, <2>5 DEF Fetched
<1> QED
  BY <1>1, <1>2 DEF Fetching

\* A platform hands out its next message: no cursor has passed it.
LEMMA ArriveFetching ==
  ASSUME TypeOK, Fetching, NEW n \in Messages, Arrive(n)
  PROVE  Fetching'
<1>1. /\ n \in sent \ arrived /\ arrived' = arrived \cup {n}
      /\ \A m \in sent \ arrived : PlatformOf[m] = PlatformOf[n] => Number[n] <= Number[m]
      /\ UNCHANGED <<sent, up, cursor, saved, forgot, missed, stage>>
  BY DEF Arrive, listenerVars
<1>2. \A m : Copies(m)' = Copies(m)
  BY <1>1, SameCount
<1>3. \A m \in Messages : Number[m] \in Nat /\ Number[m] > 0
  BY GatewayAssumption
<1>4. \A m \in sent \ arrived :
        PlatformOf[m] = PlatformOf[n] /\ Number[m] = Number[n] => m = n
  BY GatewayAssumption DEF TypeOK
<1>5. ArriveInOrder'
  <2> SUFFICES ASSUME NEW k \in arrived', NEW m \in (sent \ arrived)', PlatformOf[k] = PlatformOf[m]
               PROVE  Number[k] < Number[m]
    BY DEF ArriveInOrder
  <2>1. m \in sent \ arrived /\ m # n /\ m \in Messages
    BY <1>1 DEF TypeOK
  <2>2. CASE k \in arrived
    BY <1>1, <2>1, <2>2 DEF Fetching, ArriveInOrder
  <2>3. CASE k = n
    BY <1>1, <1>3, <1>4, <2>1, <2>3
  <2> QED
    BY <1>1, <2>2, <2>3
<1>6. ASSUME NEW p \in Platforms, KindOf[p] = "poll"
      PROVE  Fetched(p)'
  <2>1. Fetched(p)
    BY <1>6 DEF Fetching
  <2>2. cursor[p] \in Nat /\ saved[p] \in Nat
    BY DEF TypeOK
  <2>3. ASSUME NEW c \in Nat, IsCursor(p, c), PlatformOf[n] = p
        PROVE  Number[n] > c
    BY <1>1, <1>3, <2>3 DEF IsCursor, Fetching, ArriveInOrder, TypeOK
  <2>4. IsCovered(p, cursor[p])' /\ IsCovered(p, saved[p])'
    <3>1. ASSUME NEW c \in Nat, IsCursor(p, c), IsCovered(p, c),
                 NEW m \in arrived', PlatformOf[m] = p, Number[m] <= c
          PROVE  Copies(m)' > 0 \/ m \in missed'
      <4>1. m # n
        BY <1>3, <2>3, <3>1
      <4> QED
        BY <1>1, <1>2, <3>1, <4>1 DEF IsCovered
    <3> QED
      BY <1>1, <2>1, <2>2, <3>1 DEF Fetched, IsCovered
  <2>5. IsCursor(p, cursor[p])' /\ IsCursor(p, saved[p])'
    BY <1>1, <2>1 DEF Fetched, IsCursor
  <2>6. Singles(p)'
    <3> SUFFICES ASSUME NEW m \in Messages, PlatformOf[m] = p PROVE IsSingle(m, p)'
      BY DEF Singles
    <3>1. IsSingle(m, p)
      BY <2>1 DEF Fetched, Singles
    <3>2. m \notin arrived' => m \notin arrived
      BY <1>1
    <3> QED
      BY <1>1, <1>2, <3>1, <3>2 DEF IsSingle
  <2> QED
    BY <2>4, <2>5, <2>6 DEF Fetched
<1> QED
  BY <1>5, <1>6 DEF Fetching

\* The save of a round puts the file at its newest message, or leaves it behind,
\* or loses it: what is then before the cursor is covered if the round is.
LEMMA SaveFetching ==
  ASSUME TypeOK, Fetching, NEW q \in Platforms, KindOf[q] = "poll",
         NEW n \in Newest(q), SaveCursor(q, n), UNCHANGED arrived
  PROVE  /\ IsCursor(q, n)' /\ IsCursor(q, saved[q])'
         /\ \A m \in arrived : PlatformOf[m] = q =>
              /\ Number[m] <= n
              /\ m \notin Unfetched(q) => Copies(m) > 0 \/ m \in missed
              /\ m \notin forgot' => Number[m] <= saved'[q]
         /\ n \in Nat /\ n > cursor[q] /\ saved'[q] \in Nat
         /\ \A p \in Platforms : p # q => saved'[p] = saved[p]
         /\ forgot \subseteq forgot'
<1>1. PICK kept \in {n, saved[q], 0} :
        /\ n \in Nat /\ kept \in Nat
        /\ saved' = [saved EXCEPT ![q] = kept]
        /\ forgot' = forgot \cup Beyond(q, kept)
  BY SaveStep
<1>2. /\ saved'[q] = kept /\ \A p \in Platforms : p # q => saved'[p] = saved[p]
  BY <1>1 DEF TypeOK
<1>3. PICK top \in Unfetched(q) : Number[top] = n /\ \A m \in Unfetched(q) : Number[m] <= n
  BY DEF Newest
<1>4. /\ cursor[q] \in Nat /\ arrived \subseteq Messages
      /\ \A m \in Messages : Number[m] \in Nat
  BY GatewayAssumption DEF TypeOK
<1>5. n > cursor[q]
  BY <1>3 DEF Unfetched, Beyond
<1>6. Fetched(q)
  BY DEF Fetching
<1>7. top \in arrived /\ PlatformOf[top] = q
  BY <1>3, BeyondType
<1>8. IsCursor(q, n)' /\ IsCursor(q, saved[q])'
  BY <1>2, <1>3, <1>6, <1>7 DEF IsCursor, Fetched
<1>9. ASSUME NEW m \in arrived, PlatformOf[m] = q
      PROVE  /\ Number[m] <= n
             /\ m \notin Unfetched(q) => Copies(m) > 0 \/ m \in missed
             /\ m \notin forgot' => Number[m] <= saved'[q]
  <2>1. Number[m] \in Nat
    BY <1>4
  <2>2. m \notin forgot' => Number[m] <= saved'[q]
    <3>1. m \notin Beyond(q, kept) => ~(Number[m] > kept)
      BY <1>9 DEF Beyond
    <3>2. m \notin forgot' => m \notin Beyond(q, kept)
      BY <1>1
    <3> QED
      BY <1>1, <1>2, <2>1, <3>1, <3>2
  <2>3. CASE m \in Unfetched(q)
    BY <1>3, <2>2, <2>3
  <2>4. CASE m \notin Unfetched(q)
    <3>1. ~(Number[m] > cursor[q])
      BY <1>9, <2>4 DEF Unfetched, Beyond
    <3>2. Number[m] <= cursor[q]
      BY <1>4, <2>1, <3>1
    <3>3. Copies(m) > 0 \/ m \in missed
      BY <1>6, <1>9, <3>2 DEF Fetched, IsCovered
    <3>4. Number[m] <= n
      BY <1>1, <1>4, <1>5, <2>1, <3>2
    <3> QED
      BY <2>2, <3>3, <3>4
  <2> QED
    BY <2>3, <2>4
<1> QED
  BY <1>1, <1>2, <1>5, <1>8, <1>9

\* A step leaves the other platforms alone.
LEMMA OtherFetched ==
  ASSUME TypeOK, NEW p \in Platforms, Fetched(p), UNCHANGED arrived,
         saved'[p] = saved[p], up' => up /\ cursor'[p] = cursor[p],
         cursor'[p] \in {cursor[p], 0},
         forgot \subseteq forgot', missed \subseteq missed',
         \A m \in Messages : PlatformOf[m] = p => Copies(m)' = Copies(m)
  PROVE  Fetched(p)'
<1>1. IsCursor(p, 0) /\ IsCovered(p, 0)
  BY GatewayAssumption DEF IsCursor, IsCovered, TypeOK
<1>2. IsCursor(p, cursor[p])' /\ IsCursor(p, saved[p])'
  BY <1>1 DEF Fetched, IsCursor
<1>3. IsCovered(p, cursor[p])' /\ IsCovered(p, saved[p])'
  <2>1. ASSUME NEW c, IsCovered(p, c), NEW m \in arrived', PlatformOf[m] = p, Number[m] <= c
        PROVE  Copies(m)' > 0 \/ m \in missed'
    <3>1. m \in arrived /\ m \in Messages
      BY <2>1 DEF TypeOK
    <3> QED
      BY <2>1, <3>1 DEF IsCovered
  <2>2. IsCovered(p, cursor'[p]) /\ IsCovered(p, saved'[p])
    BY <1>1 DEF Fetched
  <2> QED
    BY <2>1, <2>2 DEF IsCovered
<1>4. Singles(p)'
  <2> SUFFICES ASSUME NEW m \in Messages, PlatformOf[m] = p PROVE IsSingle(m, p)'
    BY DEF Singles
  <2>1. IsSingle(m, p) /\ Copies(m)' = Copies(m)
    BY DEF Fetched, Singles
  <2>2. m \notin forgot' => m \notin forgot
    OBVIOUS
  <2> QED
    BY <2>1, <2>2 DEF IsSingle
<1> QED
  BY <1>2, <1>3, <1>4 DEF Fetched

\* A round that brings a cursor: a copy more of each of its messages.
LEMMA AdvanceFetched ==
  ASSUME TypeOK, Fetching, NEW q \in Platforms, KindOf[q] = "poll", Advance(q), up,
         UNCHANGED <<arrived, up, missed>>,
         \A m \in Messages :
           Copies(m) \in Nat /\ Copies(m)' = IF m \in Unfetched(q) THEN Copies(m) + 1 ELSE Copies(m)
  PROVE  /\ Fetched(q)' /\ forgot \subseteq forgot'
         /\ \A p \in Platforms : p # q => saved'[p] = saved[p] /\ cursor'[p] = cursor[p]
<1>1. PICK n \in Newest(q) : cursor' = [cursor EXCEPT ![q] = n] /\ SaveCursor(q, n)
  BY DEF Advance
<1>2. /\ IsCursor(q, n)' /\ IsCursor(q, saved[q])'
      /\ \A m \in arrived : PlatformOf[m] = q =>
           /\ Number[m] <= n
           /\ m \notin Unfetched(q) => Copies(m) > 0 \/ m \in missed
           /\ m \notin forgot' => Number[m] <= saved'[q]
      /\ n \in Nat /\ n > cursor[q] /\ saved'[q] \in Nat
      /\ \A p \in Platforms : p # q => saved'[p] = saved[p]
      /\ forgot \subseteq forgot'
  BY <1>1, SaveFetching
<1>3. /\ cursor'[q] = n /\ \A p \in Platforms : p # q => cursor'[p] = cursor[p]
  BY <1>1 DEF TypeOK
<1>4. /\ cursor[q] \in Nat /\ arrived \subseteq Messages
      /\ \A m \in Messages : Number[m] \in Nat
  BY GatewayAssumption DEF TypeOK
<1>5. Fetched(q)
  BY DEF Fetching
<1>6. IsCovered(q, cursor[q])' /\ IsCovered(q, saved[q])'
  <2>1. ASSUME NEW m \in arrived, PlatformOf[m] = q
        PROVE  Copies(m)' > 0 \/ m \in missed'
    <3>1. m \in Messages
      BY <1>4
    <3>2. CASE m \in Unfetched(q)
      BY <3>1, <3>2
    <3>3. CASE m \notin Unfetched(q)
      BY <1>2, <2>1, <3>1, <3>3
    <3> QED
      BY <3>2, <3>3
  <2> QED
    BY <2>1 DEF IsCovered
<1>7. Singles(q)'
  <2> SUFFICES ASSUME NEW m \in Messages, PlatformOf[m] = q PROVE IsSingle(m, q)'
    BY DEF Singles
  <2>1. IsSingle(m, q) /\ Number[m] \in Nat /\ Copies(m) \in Nat
    BY <1>4, <1>5 DEF Fetched, Singles
  <2>2. m \notin arrived => m \notin Unfetched(q)
    BY BeyondType
  <2>3. m \notin arrived => Copies(m)' = 0
    BY <2>1, <2>2 DEF IsSingle
  <2>4. ASSUME m \notin forgot', m \in arrived
        PROVE  /\ Copies(m)' <= 1
               /\ Number[m] <= saved'[q] /\ Number[m] <= n
    <3>1. m \notin forgot /\ Number[m] <= saved'[q] /\ Number[m] <= n
      BY <1>2, <2>4
    <3>2. CASE m \in Unfetched(q)
      <4>1. Number[m] > cursor[q]
        BY <3>2 DEF Unfetched, Beyond
      <4>2. ~(Number[m] <= cursor[q])
        BY <1>4, <2>1, <4>1
      <4>3. Copies(m) = 0
        BY <2>1, <3>1, <4>2 DEF IsSingle
      <4> QED
        BY <3>1, <3>2, <4>3
    <3>3. CASE m \notin Unfetched(q)
      BY <2>1, <3>1, <3>3 DEF IsSingle
    <3> QED
      BY <3>2, <3>3
  <2>5. m \notin arrived => ~(Copies(m)' > 0) /\ Copies(m)' <= 1
    BY <2>3
  <2> QED
    BY <1>3, <2>3, <2>4, <2>5 DEF IsSingle
<1> QED
  BY <1>2, <1>3, <1>6, <1>7 DEF Fetched

\* One that brings none: its messages are forgotten.
LEMMA StandStillFetched ==
  ASSUME TypeOK, Fetching, NEW q \in Platforms, KindOf[q] = "poll", StandStill(q),
         UNCHANGED <<arrived, up, missed>>,
         \A m \in Messages :
           Copies(m) \in Nat /\ Copies(m)' = IF m \in Unfetched(q) THEN Copies(m) + 1 ELSE Copies(m)
  PROVE  Fetched(q)'
<1>1. UNCHANGED <<cursor, saved>> /\ forgot' = forgot \cup Unfetched(q)
  BY DEF StandStill
<1>2. Fetched(q)
  BY DEF Fetching
<1>3. IsCursor(q, cursor[q])' /\ IsCursor(q, saved[q])'
  BY <1>1, <1>2 DEF Fetched, IsCursor
<1>4. IsCovered(q, cursor[q])' /\ IsCovered(q, saved[q])'
  <2>1. \A m \in arrived : m \in Messages /\ (Copies(m) > 0 => Copies(m)' > 0)
    BY DEF TypeOK
  <2> QED
    BY <1>1, <1>2, <2>1 DEF Fetched, IsCovered
<1>5. Singles(q)'
  <2> SUFFICES ASSUME NEW m \in Messages, PlatformOf[m] = q PROVE IsSingle(m, q)'
    BY DEF Singles
  <2>1. IsSingle(m, q)
    BY <1>2 DEF Fetched, Singles
  <2>2. m \notin forgot' => m \notin Unfetched(q) /\ m \notin forgot
    BY <1>1
  <2>3. m \notin arrived => m \notin Unfetched(q)
    BY BeyondType
  <2> QED
    BY <1>1, <2>1, <2>2, <2>3 DEF IsSingle
<1> QED
  BY <1>3, <1>4, <1>5 DEF Fetched

\* A round of polling.
LEMMA PollFetching ==
  ASSUME TypeOK, CopiesInOrder, Fetching, NEW q \in Platforms, Poll(q)
  PROVE  Fetching'
<1>1. /\ up /\ KindOf[q] = "poll"
      /\ \A m \in Unfetched(q) : Copies(m) < MaxDeliveries
      /\ \A d \in Deliveries :
           stage'[d] = IF \E m \in Unfetched(q) : d = NextCopy(m) THEN "created" ELSE stage[d]
      /\ UNCHANGED <<sent, arrived, up, missed>>
  BY DEF Poll, IsListening, processVars
<1>2. \A m \in Messages :
        Copies(m) \in Nat /\ Copies(m)' = IF m \in Unfetched(q) THEN Copies(m) + 1 ELSE Copies(m)
  BY <1>1, BeyondType, MoreCount
<1>3. ArriveInOrder'
  BY <1>1 DEF Fetching, ArriveInOrder
<1>4. /\ Fetched(q)' /\ forgot \subseteq forgot'
      /\ \A p \in Platforms : p # q => saved'[p] = saved[p] /\ cursor'[p] = cursor[p]
  <2>1. CASE Advance(q)
    BY <1>1, <1>2, <2>1, AdvanceFetched
  <2>2. CASE StandStill(q)
    <3>1. Fetched(q)'
      BY <1>1, <1>2, <2>2, StandStillFetched
    <3> QED
      BY <2>2, <3>1 DEF StandStill
  <2> QED
    BY <2>1, <2>2 DEF Poll
<1>5. ASSUME NEW p \in Platforms, KindOf[p] = "poll", p # q
      PROVE  Fetched(p)'
  <2>1. \A m \in Messages : PlatformOf[m] = p => Copies(m)' = Copies(m)
    BY <1>2, <1>5, BeyondType
  <2>2. Fetched(p)
    BY <1>5 DEF Fetching
  <2> QED
    BY <1>1, <1>4, <1>5, <2>1, <2>2, OtherFetched
<1> QED
  BY <1>3, <1>4, <1>5 DEF Fetching

\* A process that dies makes no copies.
LEMMA DieCount ==
  ASSUME Die
  PROVE  /\ \A m : Copies(m)' = Copies(m)
         /\ \A p \in Platforms : cursor'[p] = 0
         /\ ~up' /\ UNCHANGED <<sent, arrived>>
<1>1. \A e \in Deliveries : stage'[e] = "none" <=> stage[e] = "none"
  BY DEF Die
<1> QED
  BY <1>1, SameCount DEF Die

\* The process starts from the file, or dies and keeps nothing else.
LEMMA RestartFetching ==
  ASSUME TypeOK, Fetching, Start \/ Halt
  PROVE  Fetching'
<1>1. UNCHANGED <<sent, arrived, saved, forgot, missed>>
  BY DEF Start, Halt, Die
<1>2. \A m : Copies(m)' = Copies(m)
  BY SameCount, DieCount DEF Start, Halt
<1>3. \A p \in Platforms : cursor'[p] = saved[p] \/ (cursor'[p] = 0 /\ ~up')
  BY DieCount DEF Start, Halt, TypeOK
<1>4. ArriveInOrder'
  BY <1>1 DEF Fetching, ArriveInOrder
<1>5. ASSUME NEW p \in Platforms, KindOf[p] = "poll"
      PROVE  Fetched(p)'
  <2>1. Fetched(p)
    BY <1>5 DEF Fetching
  <2>2. IsCursor(p, 0) /\ IsCovered(p, 0)
    BY GatewayAssumption DEF IsCursor, IsCovered, TypeOK
  <2>3. IsCovered(p, cursor[p])' /\ IsCovered(p, saved[p])'
    BY <1>1, <1>2, <1>3, <2>1, <2>2 DEF Fetched, IsCovered
  <2>4. IsCursor(p, cursor[p])' /\ IsCursor(p, saved[p])'
    BY <1>1, <1>3, <2>1, <2>2 DEF Fetched, IsCursor
  <2>5. Singles(p)'
    BY <1>1, <1>2, <1>3, <2>1 DEF Fetched, Singles, IsSingle
  <2> QED
    BY <2>3, <2>4, <2>5 DEF Fetched
<1> QED
  BY <1>4, <1>5 DEF Fetching

\* It dies in a round, between the cursor and the tasks.
LEMMA HaltInPollFetching ==
  ASSUME TypeOK, Fetching, NEW q \in Platforms, HaltInPoll(q)
  PROVE  Fetching'
<1>1. PICK n \in Newest(q) : SaveCursor(q, n)
  BY DEF HaltInPoll
<1>2. /\ KindOf[q] = "poll" /\ UNCHANGED <<sent, arrived>> /\ ~up'
      /\ \A m : Copies(m)' = Copies(m)
      /\ \A p \in Platforms : cursor'[p] = 0
      /\ missed' = missed \cup {m \in Unfetched(q) : Number[m] <= saved'[q]}
  BY DieCount DEF HaltInPoll
<1>3. /\ IsCursor(q, saved[q])'
      /\ \A m \in arrived : PlatformOf[m] = q =>
           /\ m \notin Unfetched(q) => Copies(m) > 0 \/ m \in missed
           /\ m \notin forgot' => Number[m] <= saved'[q]
      /\ \A p \in Platforms : p # q => saved'[p] = saved[p]
      /\ forgot \subseteq forgot'
  BY <1>1, <1>2, SaveFetching
<1>4. ArriveInOrder'
  BY <1>2 DEF Fetching, ArriveInOrder
<1>5. Fetched(q)'
  <2>1. Fetched(q)
    BY <1>2 DEF Fetching
  <2>2. IsCursor(q, cursor[q])' /\ IsCovered(q, cursor[q])'
    BY <1>2, GatewayAssumption DEF IsCursor, IsCovered, TypeOK
  <2>3. IsCovered(q, saved[q])'
    <3>1. ASSUME NEW m \in arrived, PlatformOf[m] = q, Number[m] <= saved'[q]
          PROVE  Copies(m) > 0 \/ m \in missed'
      BY <1>2, <1>3, <3>1
    <3> QED
      BY <1>2, <3>1 DEF IsCovered
  <2>4. Singles(q)'
    <3> SUFFICES ASSUME NEW m \in Messages, PlatformOf[m] = q PROVE IsSingle(m, q)'
      BY DEF Singles
    <3>1. IsSingle(m, q)
      BY <2>1 DEF Fetched, Singles
    <3>2. m \notin forgot' => m \notin forgot
      BY <1>3
    <3>3. CASE m \in arrived
      BY <1>2, <1>3, <3>1, <3>2, <3>3 DEF IsSingle
    <3>4. CASE m \notin arrived
      BY <1>2, <3>1, <3>4 DEF IsSingle
    <3> QED
      BY <3>3, <3>4
  <2> QED
    BY <1>3, <2>2, <2>3, <2>4 DEF Fetched
<1>6. ASSUME NEW p \in Platforms, KindOf[p] = "poll", p # q
      PROVE  Fetched(p)'
  <2>1. Fetched(p)
    BY <1>6 DEF Fetching
  <2>2. saved'[p] = saved[p] /\ cursor'[p] = 0 /\ missed \subseteq missed'
    BY <1>2, <1>3, <1>6
  <2> QED
    BY <1>2, <1>3, <2>1, <2>2, OtherFetched
<1> QED
  BY <1>4, <1>5, <1>6 DEF Fetching

LEMMA FetchingInvariant == Spec => []Fetching
<1>1. Init => Fetching
  <2> SUFFICES ASSUME Init PROVE Fetching
    OBVIOUS
  <2>1. \A m : Copies(m) = 0
    <3>1. \A m : Begun(m) = {}
      BY DEF Init, Begun
    <3> QED
      BY <3>1, FS_EmptySet DEF Copies
  <2> QED
    BY <2>1 DEF Init, Fetching, ArriveInOrder, Fetched, IsCursor, IsCovered, Singles, IsSingle
<1>2. IInv /\ Fetching /\ [Next]_vars => Fetching'
  <2> SUFFICES ASSUME TypeOK, CopiesInOrder, Fetching, [Next]_vars PROVE Fetching'
    BY DEF IInv
  <2>1. arrived \subseteq Messages
    BY DEF TypeOK
  <2>2. ASSUME NEW d \in Deliveries, Begin(d) \/ SendEnds(d)
        PROVE  Fetching'
    <3>1. StepTypes(d) /\ UNCHANGED <<processVars, cursor, saved, forgot, missed>>
      BY <2>2, BeginStep, SendStep DEF SendEnds, listenerVars
    <3>2. \A m : Copies(m)' = Copies(m)
      BY <3>1, SameCount DEF StepTypes
    <3> QED
      BY <2>1, <3>1, <3>2, FetchingKept DEF processVars
  <2>3. ASSUME NEW d \in Deliveries, Acknowledge(d)
        PROVE  Fetching'
    <3>1. "done" \in Stages
      BY DEF Stages
    <3>2. \A e \in Deliveries : stage'[e] = "none" <=> stage[e] = "none"
      BY <2>3, <3>1, StageSet DEF Acknowledge
    <3>3. \A m : Copies(m)' = Copies(m)
      BY <3>2, SameCount
    <3> QED
      BY <2>1, <2>3, <3>3, FetchingKept DEF Acknowledge, processVars
  <2>4. ASSUME NEW m \in Messages, Push(m)
        PROVE  Fetching'
    <3>1. /\ KindOf[PlatformOf[m]] # "poll" /\ Copies(m) < MaxDeliveries
          /\ Goes(NextCopy(m), "created")
      BY <2>4 DEF Push
    <3>2. NextCopy(m) \in Deliveries /\ "created" \in Stages
      BY <3>1, NextCopyIsNew DEF Stages
    <3>3. \A d \in Deliveries :
            stage'[d] = IF \E n \in {m} : d = NextCopy(n) THEN "created" ELSE stage[d]
      BY <3>1, <3>2, StageSet
    <3>4. \A n \in Messages : Copies(n)' = IF n \in {m} THEN Copies(n) + 1 ELSE Copies(n)
      BY <3>1, <3>3, MoreCount
    <3>5. \A n \in Messages : KindOf[PlatformOf[n]] = "poll" => Copies(n)' = Copies(n)
      BY <3>1, <3>4
    <3> QED
      BY <2>1, <2>4, <3>5, FetchingKept DEF Push, processVars, listenerVars
  <2>5. ASSUME NEW m \in Messages, Expire(m)
        PROVE  Fetching'
    <3>1. \A n : Copies(n)' = Copies(n)
      BY <2>5, SameCount DEF Expire
    <3> QED
      BY <2>1, <2>5, <3>1, FetchingKept DEF Expire, processVars
  <2>6. CASE UNCHANGED vars
    <3>1. \A n : Copies(n)' = Copies(n)
      BY <2>6, SameCount DEF vars
    <3> QED
      BY <2>1, <2>6, <3>1, FetchingKept DEF vars, processVars, listenerVars
  <2> QED
    BY <2>2, <2>3, <2>4, <2>5, <2>6, ArriveFetching, PollFetching, RestartFetching,
       HaltInPollFetching DEF Next
<1> QED
  BY <1>1, <1>2, Invariant, PTL DEF Spec

-----------------------------------------------------------------------------
(* Confirmed envelopes.                                                    *)

\* A delivery that got to the adapter, and is no duplicate.
Original(d) == stage[d] \notin {"none", "created"} /\ outcome[d] # "duplicate"
HasOriginal(m) == \E d \in Deliveries : d[1] = m /\ Original(d)

Confirming ==
  /\ \A d \in Deliveries : stage[d] \in {"none", "created"} => outcome[d] = "none"
  /\ \A d \in Deliveries : stage[d] = "acking" => outcome[d] # "none"
  /\ \A d \in Deliveries : outcome[d] = "duplicate" => HasOriginal(d[1])
  /\ \A m \in seen : HasOriginal(m)
  /\ \A m \in acked : \E d \in Deliveries : d[1] = m /\ outcome[d] # "none"

\* A step that changes no outcome, makes only new deliveries, and brings nothing
\* back that was created.
LEMMA ConfirmingKept ==
  ASSUME Confirming, outcome' = outcome, seen' \subseteq seen,
         \A m \in acked' : m \in acked \/ \E d \in Deliveries : d[1] = m /\ outcome[d] # "none",
         \A d \in Deliveries :
           /\ stage'[d] \in {"none", "created"} => stage[d] \in {"none", "created"}
           /\ stage'[d] = "acking" => stage[d] = "acking"
  PROVE  Confirming'
<1>1. \A d \in Deliveries : Original(d) => Original(d)'
  BY DEF Original
<1>2. \A m : HasOriginal(m) => HasOriginal(m)'
  BY <1>1 DEF HasOriginal
<1>3. \A d \in Deliveries : (stage[d] \in {"none", "created"} => outcome[d] = "none")'
  BY DEF Confirming
<1>4. \A d \in Deliveries : (stage[d] = "acking" => outcome[d] # "none")'
  BY DEF Confirming
<1>5. \A d \in Deliveries : (outcome[d] = "duplicate" => HasOriginal(d[1]))'
  BY <1>2 DEF Confirming
<1>6. \A m \in seen' : HasOriginal(m)'
  BY <1>2 DEF Confirming
<1>7. \A m \in acked' : \E d \in Deliveries : d[1] = m /\ outcome'[d] # "none"
  BY DEF Confirming
<1> QED
  BY <1>3, <1>4, <1>5, <1>6, <1>7 DEF Confirming

\* A coroutine begins or goes on.
LEMMA ConfirmingStep ==
  ASSUME Confirming, NEW d \in Deliveries, StepTypes(d), acked' = acked,
         seen' \subseteq seen \cup {d[1]}, stage[d] = "created" \/ seen' = seen,
         Clean(d) \/ (stage[d] = "created" /\ d[1] \in seen /\ seen' = seen)
  PROVE  Confirming'
<1>1. \A e \in Deliveries : e # d => (Original(e) <=> Original(e)')
  BY DEF Original, StepTypes
<1>2. Original(d) => Original(d)'
  BY DEF Original, StepTypes, Clean
<1>3. \A m : HasOriginal(m) => HasOriginal(m)'
  BY <1>1, <1>2 DEF HasOriginal
<1>4. stage[d] = "created" /\ Clean(d) => Original(d)'
  BY DEF Original, StepTypes, Clean, Confirming
<1>5. \A e \in Deliveries : (stage[e] \in {"none", "created"} => outcome[e] = "none")'
  BY DEF Confirming, StepTypes
<1>6. \A e \in Deliveries : (stage[e] = "acking" => outcome[e] # "none")'
  BY DEF Confirming, StepTypes
<1>7. \A m \in seen' : HasOriginal(m)'
  <2> SUFFICES ASSUME NEW m \in seen' PROVE HasOriginal(m)'
    OBVIOUS
  <2>1. CASE m \in seen
    BY <1>3, <2>1 DEF Confirming
  <2>2. CASE m \notin seen
    <3>1. m = d[1] /\ stage[d] = "created" /\ Clean(d)
      BY <2>2
    <3> QED
      BY <1>4, <3>1 DEF HasOriginal
  <2> QED
    BY <2>1, <2>2
<1>8. \A e \in Deliveries : (outcome[e] = "duplicate" => HasOriginal(e[1]))'
  <2> SUFFICES ASSUME NEW e \in Deliveries, outcome'[e] = "duplicate" PROVE HasOriginal(e[1])'
    OBVIOUS
  <2>1. CASE outcome[e] = "duplicate"
    BY <1>3, <2>1 DEF Confirming
  <2>2. CASE outcome[e] # "duplicate"
    <3>1. e = d /\ ~Clean(d)
      BY <2>2 DEF StepTypes, Clean
    <3> QED
      BY <1>7, <3>1
  <2> QED
    BY <2>1, <2>2
<1>9. \A m \in acked' : \E e \in Deliveries : e[1] = m /\ outcome'[e] # "none"
  BY DEF Confirming, StepTypes
<1> QED
  BY <1>5, <1>6, <1>7, <1>8, <1>9 DEF Confirming

LEMMA ConfirmingInvariant == Spec => []Confirming
<1>1. Init => Confirming
  BY DEF Init, Confirming
<1>2. IInv /\ Confirming /\ [Next]_vars => Confirming'
  <2> SUFFICES ASSUME TypeOK, CopiesInOrder, Confirming, [Next]_vars PROVE Confirming'
    BY DEF IInv
  <2>1. ASSUME NEW d \in Deliveries, Begin(d)
        PROVE  Confirming'
    BY <2>1, BeginStep, ConfirmingStep
  <2>2. ASSUME NEW d \in Deliveries, SendEnds(d)
        PROVE  Confirming'
    <3>1. seen' = seen /\ acked' = acked
      BY <2>2 DEF SendEnds, listenerVars
    <3> QED
      BY <2>2, <3>1, SendStep, ConfirmingStep
  <2>3. ASSUME NEW d \in Deliveries, Acknowledge(d)
        PROVE  Confirming'
    <3>1. "done" \in Stages
      BY DEF Stages
    <3>2. stage[d] = "acking" /\ Goes(d, "done") /\ UNCHANGED <<outcome, seen>>
          /\ acked' \in {acked, acked \cup {d[1]}}
      BY <2>3 DEF Acknowledge
    <3>3. stage'[d] = "done" /\ \A e \in Deliveries : e # d => stage'[e] = stage[e]
      BY <3>1, <3>2, StageSet
    <3>4. outcome[d] # "none"
      BY <3>2 DEF Confirming
    <3>5. \A m \in acked' : m \in acked \/ \E e \in Deliveries : e[1] = m /\ outcome[e] # "none"
      BY <3>2, <3>4
    <3> QED
      BY <3>2, <3>3, <3>5, ConfirmingKept
  <2>4. ASSUME NEW m \in Messages, Push(m)
        PROVE  Confirming'
    <3>1. Copies(m) < MaxDeliveries /\ Goes(NextCopy(m), "created")
          /\ UNCHANGED <<outcome, seen, acked>>
      BY <2>4 DEF Push, listenerVars
    <3>2. NextCopy(m) \in Deliveries /\ stage[NextCopy(m)] = "none" /\ "created" \in Stages
      BY <3>1, NextCopyIsNew DEF Stages
    <3>3. /\ stage'[NextCopy(m)] = "created"
          /\ \A e \in Deliveries : e # NextCopy(m) => stage'[e] = stage[e]
      BY <3>1, <3>2, StageSet
    <3> QED
      BY <3>1, <3>2, <3>3, ConfirmingKept
  <2>5. ASSUME NEW p \in Platforms, Poll(p)
        PROVE  Confirming'
    <3>1. /\ \A m \in Unfetched(p) : Copies(m) < MaxDeliveries
          /\ \A d \in Deliveries :
               stage'[d] = IF \E m \in Unfetched(p) : d = NextCopy(m) THEN "created" ELSE stage[d]
          /\ UNCHANGED <<outcome, seen, acked>>
      BY <2>5 DEF Poll
    <3>2. Unfetched(p) \in SUBSET Messages
      BY BeyondType
    <3>3. \A d \in Deliveries : stage'[d] # stage[d] => stage[d] = "none" /\ stage'[d] = "created"
      BY <3>1, <3>2, MoreCopies
    <3> QED
      BY <3>1, <3>3, ConfirmingKept
  <2>6. ASSUME NEW m \in Messages, Arrive(m) \/ Expire(m)
        PROVE  Confirming'
    BY <2>6, ConfirmingKept DEF Arrive, Expire, listenerVars
  <2>7. CASE Start
    BY <2>7, ConfirmingKept DEF Start
  <2>8. CASE Die
    <3>1. \A d \in Deliveries :
            /\ stage'[d] \in {"none", "created"} => stage[d] \in {"none", "created"}
            /\ stage'[d] = "acking" => stage[d] = "acking"
      BY <2>8 DEF Die
    <3> QED
      BY <2>8, <3>1, ConfirmingKept DEF Die
  <2>9. CASE UNCHANGED vars
    BY <2>9, ConfirmingKept DEF vars, listenerVars
  <2> QED
    BY <2>1, <2>2, <2>3, <2>4, <2>5, <2>6, <2>7, <2>8, <2>9 DEF Next, Halt, HaltInPoll
<1> QED
  BY <1>1, <1>2, Invariant, PTL DEF Spec

-----------------------------------------------------------------------------
(* One outcome for each delivery.                                          *)

\* The stages in which nothing has become of a delivery yet, and those in
\* which something has.
Waiting == {"none", "created", "denied", "help", "busy"} \cup RunStages
Over == {"acking", "echo", "done"}

\* A delivery has an outcome exactly if its handling is over; one that a crash
\* has taken may have one or not.
Decided ==
  \A d \in Deliveries : /\ stage[d] \in Waiting => outcome[d] = "none"
                        /\ stage[d] \in Over => outcome[d] # "none"

\* What became of a delivery is never decided again: not by the error notice
\* after a result that could not be sent, not by the confirmation, and not by
\* the next process, which knows nothing of what the last one was at.
OutcomesStand ==
  \A d \in Deliveries :
    /\ outcome[d] # "none" \/ stage[d] = "lost" => outcome'[d] = outcome[d]
    /\ stage[d] \in {"done", "lost"} => stage'[d] = stage[d]

\* The stages by their names.
LEMMA StagesApart ==
  /\ Waiting \cap Over = {}
  /\ "lost" \notin Waiting \cup Over
  /\ {"none", "created", "denied", "help", "busy", "processing", "result", "error"} = Waiting
  /\ {"acking", "echo", "done"} = Over
BY DEF Waiting, Over, RunStages

\* A coroutine that begins or goes on comes to an end, or waits for a send.
Deciding(d) ==
  /\ stage[d] \in Waiting
  /\ \/ \E o \in Ended, reply \in BOOLEAN : Ends(d, o, reply)
     \/ \E s \in Waiting : Goes(d, s) /\ UNCHANGED outcome

\* The runner ends a delivery or waits for its first send.
LEMMA HandleDecides ==
  ASSUME NEW d \in Deliveries, stage[d] = "created", HandleMessage(d)
  PROVE  Deciding(d)
<1> USE Names, StagesApart
<1>1. stage[d] \in Waiting
  OBVIOUS
<1>2. ASSUME NEW s \in {"denied", "help", "busy", "processing"}, Waits(d, s) PROVE Deciding(d)
  BY <1>1, <1>2 DEF Waits, Deciding
<1>3. ASSUME NEW o \in {"silent", "replied"}, NEW reply \in BOOLEAN, Returns(d, o, reply)
      PROVE  Deciding(d)
  BY <1>1, <1>3 DEF Returns, Deciding
<1>4. \/ \E s \in {"denied", "help", "busy", "processing"} : Waits(d, s)
      \/ \E o \in {"silent", "replied"}, reply \in BOOLEAN : Returns(d, o, reply)
  BY DEF HandleMessage, Unauthorized, Command, Busy, RunAgent
<1> QED
  BY <1>2, <1>3, <1>4

\* So do the listener and the adapter before it.
LEMMA BeginDecides ==
  ASSUME NEW d \in Deliveries, Begin(d)
  PROVE  Deciding(d)
<1> USE Names, StagesApart
<1>1. stage[d] = "created" /\ stage[d] \in Waiting
  BY DEF Begin
<1>2. ASSUME NEW o \in {"skipped", "duplicate", "dropped", "queued", "unhandled"}, Ends(d, o, FALSE)
      PROVE  Deciding(d)
  BY <1>1, <1>2 DEF Deciding
<1>3. CASE HandleMessage(d)
  BY <1>1, <1>3, HandleDecides
<1>4. \/ \E o \in {"skipped", "duplicate", "dropped", "queued", "unhandled"} : Ends(d, o, FALSE)
      \/ HandleMessage(d)
  BY DEF Begin, Ignore, DropDuplicate, Forward, OnMessage, CircuitIsOpen, Queue, Pass, Dispatch
<1> QED
  BY <1>2, <1>3, <1>4

\* So does every send that ends, but for the one after the handling.
LEMMA SendDecides ==
  ASSUME NEW d \in Deliveries, SendEnds(d)
  PROVE  Deciding(d) \/ Echo(d)
<1> USE Names, StagesApart
<1>1. ASSUME NEW o \in Ended, NEW reply \in BOOLEAN, Returns(d, o, reply) \/ Raises(d),
             stage[d] \in Waiting
      PROVE  Deciding(d)
  BY <1>1 DEF Returns, Raises, Deciding
<1>2. ASSUME NEW s \in {"result", "error"}, Waits(d, s), stage[d] \in Waiting
      PROVE  Deciding(d)
  BY <1>2 DEF Waits, Deciding
<1>3. CASE Notified(d)
  <2>1. PICK s \in {"denied", "help", "busy"} :
          stage[d] = s /\ (Returns(d, IF s = "help" THEN "helped" ELSE s, FALSE) \/ Raises(d))
    BY <1>3 DEF Notified
  <2>2. (IF s = "help" THEN "helped" ELSE s) \in Ended
    OBVIOUS
  <2> QED
    BY <1>1, <2>1, <2>2
<1>4. CASE Processing(d)
  BY <1>2, <1>4 DEF Processing
<1>5. CASE Result(d)
  BY <1>1, <1>2, <1>5 DEF Result
<1>6. CASE Error(d)
  BY <1>1, <1>6 DEF Error
<1> QED
  BY <1>3, <1>4, <1>5, <1>6 DEF SendEnds

\* The end of a coroutine is decided once.
LEMMA DecidingStep ==
  ASSUME TypeOK, Decided, NEW d \in Deliveries, Deciding(d)
  PROVE  Decided' /\ OutcomesStand
<1> USE StagesApart
<1>1. CASE \E o \in Ended, reply \in BOOLEAN : Ends(d, o, reply)
  <2>1. PICK o \in Ended, reply \in BOOLEAN : Ends(d, o, reply)
    BY <1>1
  <2>2. o \in Outcomes /\ o # "none"
    BY DEF Ended
  <2>3. /\ stage'[d] \in Over /\ outcome'[d] = o
        /\ \A e \in Deliveries : e # d => stage'[e] = stage[e] /\ outcome'[e] = outcome[e]
    BY <2>1, <2>2, EndsStep
  <2> QED
    BY <2>2, <2>3 DEF Deciding, Decided, OutcomesStand
<1>2. CASE \E s \in Waiting : Goes(d, s) /\ UNCHANGED outcome
  <2>1. PICK s \in Waiting : Goes(d, s) /\ UNCHANGED outcome
    BY <1>2
  <2>2. s \in Stages
    BY DEF Stages, SendStages, RunStages
  <2>3. stage'[d] = s /\ \A e \in Deliveries : e # d => stage'[e] = stage[e]
    BY <2>1, <2>2, StageSet
  <2> QED
    BY <2>1, <2>3 DEF Deciding, Decided, OutcomesStand
<1> QED
  BY <1>1, <1>2 DEF Deciding

\* Steps that decide nothing: deliveries are made, confirmed, echoed or lost.
LEMMA UndecidingStep ==
  ASSUME Decided, UNCHANGED outcome,
         \A d \in Deliveries : \/ stage'[d] = stage[d]
                               \/ stage[d] = "none" /\ stage'[d] = "created"
                               \/ stage[d] \in {"echo", "acking"} /\ stage'[d] = "done"
                               \/ stage[d] \notin {"none", "done", "lost"} /\ stage'[d] = "lost"
  PROVE  Decided' /\ OutcomesStand
<1> USE StagesApart
<1>1. ASSUME NEW d \in Deliveries
      PROVE  /\ stage'[d] \in Waiting => outcome'[d] = "none"
             /\ stage'[d] \in Over => outcome'[d] # "none"
             /\ stage[d] \in {"done", "lost"} => stage'[d] = stage[d]
  BY DEF Decided
<1> QED
  BY <1>1 DEF Decided, OutcomesStand

\* Every step decides an outcome once at the most.
LEMMA DecidedStep ==
  ASSUME IInv, Decided, [Next]_vars
  PROVE  Decided' /\ OutcomesStand
<1> USE DEF IInv
<1>1. ASSUME NEW d \in Deliveries, Begin(d) \/ SendEnds(d), ~Echo(d)
      PROVE  Decided' /\ OutcomesStand
  BY <1>1, BeginDecides, SendDecides, DecidingStep
<1>2. ASSUME NEW d \in Deliveries, Echo(d) \/ Acknowledge(d)
      PROVE  Decided' /\ OutcomesStand
  <2>1. stage[d] \in {"echo", "acking"} /\ Goes(d, "done") /\ UNCHANGED outcome /\ "done" \in Stages
    BY <1>2 DEF Echo, Acknowledge, Stages
  <2> QED
    BY <2>1, StageSet, UndecidingStep
<1>3. ASSUME NEW m \in Messages, Push(m)
      PROVE  Decided' /\ OutcomesStand
  <2>1. NextCopy(m) \in Deliveries /\ stage[NextCopy(m)] = "none" /\ Goes(NextCopy(m), "created")
        /\ UNCHANGED outcome /\ "created" \in Stages
    BY <1>3, NextCopyIsNew DEF Push, Stages
  <2> QED
    BY <2>1, StageSet, UndecidingStep
<1>4. ASSUME NEW p \in Platforms, Poll(p)
      PROVE  Decided' /\ OutcomesStand
  <2>1. Unfetched(p) \subseteq Messages /\ \A m \in Unfetched(p) : Copies(m) < MaxDeliveries
    BY <1>4, BeyondType DEF Poll
  <2>2. \A m \in Unfetched(p) : stage[NextCopy(m)] = "none"
    BY <2>1, NextCopyIsNew
  <2>3. \A d \in Deliveries :
          stage'[d] = stage[d] \/ (stage[d] = "none" /\ stage'[d] = "created")
    BY <1>4, <2>2 DEF Poll
  <2>4. UNCHANGED outcome
    BY <1>4 DEF Poll
  <2> QED
    BY <2>3, <2>4, UndecidingStep
<1>5. ASSUME Die PROVE Decided' /\ OutcomesStand
  BY <1>5, UndecidingStep DEF Die
<1>6. CASE Start \/ (\E m \in Messages : Arrive(m) \/ Expire(m)) \/ UNCHANGED vars
  BY <1>6, UndecidingStep DEF Start, Arrive, Expire, vars
<1>7. \A d \in Deliveries : Echo(d) \/ ~Echo(d)
  OBVIOUS
<1> QED
  BY <1>1, <1>2, <1>3, <1>4, <1>5, <1>6, <1>7 DEF Next, Halt, HaltInPoll

-----------------------------------------------------------------------------
(* The theorems.                                                           *)

\* Every variable of the gateway keeps its type.
THEOREM TypeCorrect == Spec => []TypeOK
<1>1. IInv => TypeOK
  BY DEF IInv
<1> QED
  BY <1>1, Invariant, PTL

\* A session has one agent at work, exactly while the adapter calls it active
\* and the runner holds it (base.py on_message, runner.py _run_agent), whatever
\* the sends do and however often the process dies.
THEOREM OneAgent == Spec => []OneAgentPerSession
<1>1. IInv => OneAgentPerSession
  BY DEF IInv
<1> QED
  BY <1>1, Invariant, PTL

\* A message that the cursor in the file has passed was given a task, unless the
\* process died between the save and the tasks of its round; and one message has
\* one task, unless its response brought no cursor or a cursor past it missed the
\* file or was lost there (wechat/listener.py _poll_loop, _save_sync_buf), over
\* every crash and restart.
THEOREM FetchedExactlyOnce == Spec => []FetchedOnce
<1>1. IInv /\ Fetching => FetchedOnce
  <2> SUFFICES ASSUME TypeOK, Fetching, NEW m \in arrived, KindOf[PlatformOf[m]] = "poll"
               PROVE  /\ Number[m] <= saved[PlatformOf[m]] => Copies(m) > 0 \/ m \in missed
                      /\ m \notin forgot => Copies(m) <= 1
    BY DEF IInv, FetchedOnce
  <2>1. m \in Messages /\ PlatformOf[m] \in Platforms
    BY GatewayAssumption DEF TypeOK
  <2>2. Fetched(PlatformOf[m])
    BY <2>1 DEF Fetching
  <2>3. IsSingle(m, PlatformOf[m])
    BY <2>1, <2>2 DEF Fetched, Singles
  <2> QED
    BY <2>1, <2>2, <2>3 DEF Fetched, IsCovered, IsSingle
<1> QED
  BY <1>1, Invariant, FetchingInvariant, PTL

\* A confirmed message was handled to its end, or a copy of it was dropped as the
\* duplicate of one still at work (slack/listener.py _handle_event), over every
\* crash, restart and second delivery.
THEOREM ConfirmedAfterHandling == Spec => []ConfirmedWasHandled
<1>1. Confirming => ConfirmedWasHandled
  <2> SUFFICES ASSUME Confirming, NEW m \in acked
               PROVE  \/ \E d \in Begun(m) : outcome[d] \notin {"none", "duplicate"}
                      \/ /\ \E d \in Begun(m) : outcome[d] = "duplicate"
                         /\ \E d \in Begun(m) : outcome[d] = "none"
    BY DEF ConfirmedWasHandled
  <2>1. PICK d \in Deliveries : d[1] = m /\ outcome[d] # "none"
    BY DEF Confirming
  <2>2. d \in Begun(m)
    BY <2>1 DEF Confirming, Begun
  <2>3. CASE outcome[d] = "duplicate"
    <3>1. PICK e \in Deliveries : e[1] = m /\ Original(e)
      BY <2>1, <2>3 DEF Confirming, HasOriginal
    <3>2. e \in Begun(m) /\ outcome[e] # "duplicate"
      BY <3>1 DEF Original, Begun
    <3> QED
      BY <2>2, <2>3, <3>2
  <2> QED
    BY <2>1, <2>2, <2>3
<1> QED
  BY <1>1, ConfirmingInvariant, PTL

\* A delivery has one outcome, which no notice, confirmation or new process
\* changes (base.py _dispatch_message, runner.py _run_agent).
THEOREM HandledOnce == Spec => [][OutcomesStand]_vars
<1>1. Init => Decided
  BY StagesApart DEF Init, Decided
<1> QED
  BY <1>1, Invariant, DecidedStep, PTL DEF Spec
=============================================================================
