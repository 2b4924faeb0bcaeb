-------------------------- MODULE ApiServerProofs --------------------------
(***************************************************************************)
(* Proofs about ApiServer, for any tasks, names and requests: its types,   *)
(* that a recording can be stopped unless requests for its name            *)
(* overlapped, that no recording is converted for two requests, and that   *)
(* every accepted task is kept, and moves up in order, until it is         *)
(* answered.                                                               *)
(***************************************************************************)
EXTENDS ApiServer, TLAPS

\* The manager files a recorder under its own name.
FiledByName == \A n \in Names : byName[n] # 0 => rec[byName[n]].name = n

\* A request that starts a recording and any other for its name overlap.
OverlapsAreSeen ==
  \A c, d \in Calls :
    c # d /\ call[c].at = "starting" /\ call[d].at # "idle" /\ call[c].name = call[d].name
      => call[c].name \in overlapped

\* While a request for a name is at work, nothing of that name records, unless
\* requests overlapped: a start found nothing, and a stop ended what there was.
QuietWhileAtWork ==
  \A c \in Calls : call[c].at # "idle" /\ call[c].name \notin overlapped =>
    \A r \in Recorders : rec[r].name = call[c].name => ~rec[r].recording

\* What a request stops has stopped recording, and is its own.
StoppedIsOwned ==
  \A c \in Calls : call[c].at \in {"stopping", "converting"} =>
    /\ call[c].of \in Recorders
    /\ ~rec[call[c].of].recording
    /\ call[c].at = "converting" => rec[call[c].of].capture = "off"
    /\ \A d \in Calls : d # c => call[d].of # call[c].of

\* Only a request that stops a recording names one.
OfIsOfStops == \A c \in Calls : call[c].at \in {"idle", "starting"} => call[c].of = 0

IInv ==
  /\ TypeOK
  /\ FiledByName
  /\ OverlapsAreSeen
  /\ QuietWhileAtWork
  /\ StoppedIsOwned
  /\ OfIsOfStops
  /\ RecordingsCanBeStopped

-----------------------------------------------------------------------------
(* Types.                                                                  *)

LEMMA IdleType == Idle \in [at : {"idle", "starting", "stopping", "converting"}, name : Names, of : {0}]
                  /\ Idle.at = "idle" /\ Idle.of = 0
<1>1. PICK m \in Names : TRUE
  BY NamesAssumption
<1>2. (CHOOSE n \in Names : TRUE) \in Names
  BY <1>1
<1> QED
  BY <1>2 DEF Idle

\* The initial state has the types.
LEMMA TypeInit == Init => TypeOK
<1> SUFFICES ASSUME Init PROVE TypeOK
  OBVIOUS
<1>1. Len(rec) = 0 /\ rec \in Seq([name : Names, recording : BOOLEAN, capture : {"on", "cancelled", "off"}])
  BY DEF Init
<1>2. call \in [Calls -> [at : {"idle", "starting", "stopping", "converting"}, name : Names, of : 0..0]]
  <2>1. Idle \in [at : {"idle", "starting", "stopping", "converting"}, name : Names, of : 0..0]
    BY IdleType
  <2> QED
    BY <2>1 DEF Init
<1>3. byName \in [Names -> 0..0] /\ active \in 0..0
  BY DEF Init
<1>4. queue \in Seq(Tasks)
  BY DEF Init
<1> QED
  BY <1>1, <1>2, <1>3, <1>4 DEF Init, TypeOK

\* A task step keeps the types.
LEMMA TypeTasks ==
  ASSUME TypeOK, UseBrowser \/ (\E t \in Tasks : Submit(t)) \/ Take \/ RunEnds \/ Look
  PROVE  TypeOK'
<1> USE DEF TypeOK
<1>1. CASE UseBrowser
  BY <1>1 DEF UseBrowser, BrowserRaises, BrowserGiven, taskVars, recVars
<1>2. CASE \E t \in Tasks : Submit(t)
  BY <1>2 DEF Submit, recVars
<1>3. CASE Take
  <2>1. Head(queue) \in Tasks /\ queue' \in Seq(Tasks)
    BY <1>3 DEF Take
  <2>2. status' \in [Tasks -> {"new", "queued", "running", "completed", "failed"}]
    BY <1>3, <2>1 DEF Take
  <2>3. browser' \in {"none", "unstarted", "started"} /\ loop' \in BOOLEAN
    BY <1>3 DEF Take, AgentLoopGiven, AgentLoopRaises, BrowserGiven, BrowserRaises
  <2>4. worker' \in Tasks \cup {Nobody}
    BY <1>3, <2>1 DEF Take
  <2> QED
    BY <1>3, <2>1, <2>2, <2>3, <2>4 DEF Take, recVars
<1>4. CASE RunEnds
  BY <1>4 DEF RunEnds, recVars
<1>5. CASE Look
  <2>1. active' \in 0..Len(rec)
    BY <1>5 DEF Look
  <2> QED
    BY <1>5, <2>1 DEF Look, taskVars
<1> QED
  BY <1>1, <1>2, <1>3, <1>4, <1>5

Recorder == [name : Names, recording : BOOLEAN, capture : {"on", "cancelled", "off"}]
Call(k) == [at : {"idle", "starting", "stopping", "converting"}, name : Names, of : 0..k]

\* What the type invariant says of the recordings.
LEMMA TypeParts ==
  TypeOK <=>
    /\ browser \in {"none", "unstarted", "started"}
    /\ loop \in BOOLEAN
    /\ status \in [Tasks -> {"new", "queued", "running", "completed", "failed"}]
    /\ queue \in Seq(Tasks)
    /\ worker \in Tasks \cup {Nobody}
    /\ rec \in Seq(Recorder)
    /\ byName \in [Names -> 0..Len(rec)]
    /\ active \in 0..Len(rec)
    /\ call \in [Calls -> Call(Len(rec))]
    /\ overlapped \in SUBSET Names
BY DEF TypeOK, Recorder, Call

\* One recorder changes, and only in whether it records and captures.
LEMMA Updated ==
  ASSUME TypeOK, NEW r \in Recorders, NEW x \in Recorder, rec' = [rec EXCEPT ![r] = x]
  PROVE  /\ rec' \in Seq(Recorder)
         /\ Len(rec') = Len(rec)
         /\ Recorders' = Recorders
         /\ rec'[r] = x
         /\ \A q \in Recorders : q # r => rec'[q] = rec[q]
<1>1. rec \in Seq(Recorder)
  BY TypeParts
<1> QED
  BY <1>1 DEF Recorders

\* A request changes.
LEMMA CallSet ==
  ASSUME TypeOK, NEW c \in Calls, NEW x, call' = [call EXCEPT ![c] = x]
  PROVE  call'[c] = x /\ \A d \in Calls : d # c => call'[d] = call[d]
BY DEF TypeOK

\* A name is no longer filed.
LEMMA CleanupType ==
  ASSUME TypeOK, NEW n \in Names, NEW a \in 0..Len(rec), Cleanup(n, a)
  PROVE  byName' \in [Names -> 0..Len(rec)] /\ active' \in 0..Len(rec)
BY DEF Cleanup, TypeOK

\* The requests keep the types.
LEMMA TypeCalls ==
  ASSUME TypeOK, NEW c \in Calls,
         \/ \E n \in Names : StartBegins(c, n)
         \/ StartEnds(c) \/ StartFails(c) \/ StopEnds(c) \/ ConvertEnds(c)
  PROVE  TypeOK'
<1> DEFINE k == Len(rec)
<1>0. Idle \in Call(k) /\ k \in Nat
  BY IdleType, TypeParts DEF Call
<1>1. CASE \E n \in Names : StartBegins(c, n)
  <2>1. PICK n \in Names : StartBegins(c, n)
    BY <1>1
  <2>2. [at |-> "starting", name |-> n, of |-> 0] \in Call(k)
    BY <1>0 DEF Call
  <2>3. call' \in [Calls -> Call(k)]
    BY <2>1, <2>2, TypeParts DEF StartBegins
  <2>4. overlapped' \in SUBSET Names
    BY <2>1, TypeParts DEF StartBegins
  <2> QED
    BY <2>1, <2>3, <2>4, TypeParts DEF StartBegins, taskVars, TypeOK, Call
<1>2. CASE StartEnds(c)
  <2> DEFINE n == call[c].name
             x == [name |-> n, recording |-> TRUE, capture |-> "on"]
  <2>1. n \in Names /\ x \in Recorder
    BY TypeParts DEF Call, Recorder
  <2>2. rec' = Append(rec, x)
    BY <1>2 DEF StartEnds
  <2>3. rec' \in Seq(Recorder) /\ Len(rec') = k + 1
    BY <2>1, <2>2, TypeParts
  <2>4. byName' \in [Names -> 0..Len(rec')]
    BY <2>1, <2>3, <1>2, <1>0, TypeParts DEF StartEnds
  <2>5. active' \in 0..Len(rec')
    BY <2>3, <1>2, <1>0 DEF StartEnds
  <2>6. call' \in [Calls -> Call(Len(rec'))]
    <3>1. \A d \in Calls : call[d] \in Call(k + 1)
      BY TypeParts, <1>0 DEF Call
    <3>2. Idle \in Call(k + 1)
      BY IdleType, <1>0 DEF Call
    <3> QED
      BY <3>1, <3>2, <2>3, <1>2, TypeParts DEF StartEnds
  <2> QED
    BY <2>3, <2>4, <2>5, <2>6, <1>2, TypeParts DEF StartEnds, taskVars, TypeOK, Call, Recorder
<1>3. CASE StartFails(c)
  <2>1. call' \in [Calls -> Call(k)]
    BY <1>3, <1>0, TypeParts DEF StartFails
  <2> QED
    BY <2>1, <1>3, TypeParts DEF StartFails, taskVars, TypeOK, Call
<1>4. CASE StopEnds(c)
  <2> DEFINE a == IF active = call[c].of THEN 0 ELSE active
  <2>1. a \in 0..k
    BY <1>0, TypeParts
  <2>2. call[c].name \in Names
    BY TypeParts DEF Call
  <2>3. byName' \in [Names -> 0..k] /\ active' \in 0..k
    BY <2>1, <2>2, <1>4, CleanupType, TypeParts DEF StopEnds
  <2>4. call' \in [Calls -> Call(k)]
    <3>1. [call[c] EXCEPT !.at = "converting"] \in Call(k)
      BY TypeParts DEF Call
    <3> QED
      BY <3>1, <1>4, <1>0, TypeParts DEF StopEnds
  <2> QED
    BY <2>3, <2>4, <1>4, TypeParts DEF StopEnds, taskVars, TypeOK, Call
<1>5. CASE ConvertEnds(c)
  <2>1. call[c].name \in Names
    BY TypeParts DEF Call
  <2>2. byName' \in [Names -> 0..k] /\ active' \in 0..k
    BY <2>1, <1>5, CleanupType, TypeParts DEF ConvertEnds
  <2>3. call' \in [Calls -> Call(k)]
    BY <1>5, <1>0, TypeParts DEF ConvertEnds
  <2> QED
    BY <2>2, <2>3, <1>5, TypeParts DEF ConvertEnds, taskVars, TypeOK, Call
<1> QED
  BY <1>1, <1>2, <1>3, <1>4, <1>5

\* A capture ends: nothing else changes.
LEMMA CaptureStep ==
  ASSUME TypeOK, NEW r \in Recorders, Expire(r) \/ CaptureEnds(r)
  PROVE  /\ rec' \in Seq(Recorder) /\ Len(rec') = Len(rec) /\ Recorders' = Recorders
         /\ rec'[r] = [rec[r] EXCEPT !.capture = "off"]
         /\ rec'[r].name = rec[r].name /\ rec'[r].recording = rec[r].recording
         /\ rec'[r].capture = "off"
         /\ \A q \in Recorders : q # r => rec'[q] = rec[q]
         /\ UNCHANGED <<browser, taskVars, byName, active, call, overlapped>>
<1> DEFINE x == [rec[r] EXCEPT !.capture = "off"]
<1>1. rec[r] \in Recorder
  BY TypeParts DEF Recorders
<1>2. x \in Recorder /\ x.name = rec[r].name /\ x.recording = rec[r].recording /\ x.capture = "off"
  BY <1>1 DEF Recorder
<1>3. rec' = [rec EXCEPT ![r] = x]
  BY DEF Expire, CaptureEnds
<1> HIDE DEF x
<1>4. /\ rec' \in Seq(Recorder) /\ Len(rec') = Len(rec) /\ Recorders' = Recorders
      /\ rec'[r] = x /\ \A q \in Recorders : q # r => rec'[q] = rec[q]
  BY <1>2, <1>3, Updated
<1>5. UNCHANGED <<browser, taskVars, byName, active, call, overlapped>>
  BY DEF Expire, CaptureEnds
<1> QED
  BY <1>2, <1>4, <1>5 DEF x

\* A stop begins: the recorder filed under the name no longer records.
LEMMA StopStep ==
  ASSUME TypeOK, NEW c \in Calls, NEW s \in Recorders, StopBegins(c, s),
         NEW n, n = rec[s].name, NEW r, r = byName[n]
  PROVE  /\ n \in Names /\ r \in Recorders /\ rec[r].recording
         /\ rec' \in Seq(Recorder) /\ Len(rec') = Len(rec) /\ Recorders' = Recorders
         /\ rec'[r].name = rec[r].name /\ ~rec'[r].recording
         /\ \A q \in Recorders : q # r => rec'[q] = rec[q]
         /\ call[c].at = "idle"
         /\ call'[c] = [at |-> "stopping", name |-> n, of |-> r]
         /\ \A d \in Calls : d # c => call'[d] = call[d]
         /\ call' \in [Calls -> Call(Len(rec))]
         /\ overlapped' = overlapped \cup IF Starting(n) THEN {n} ELSE {}
         /\ UNCHANGED <<browser, taskVars, byName, active>>
<1> DEFINE x == [rec[r] EXCEPT !.recording = FALSE,
                               !.capture = IF @ = "on" THEN "cancelled" ELSE @]
           y == [at |-> "stopping", name |-> n, of |-> r]
<1>1. n \in Names
  <2>1. rec[s] \in Recorder
    BY TypeParts DEF Recorders
  <2> QED
    BY <2>1 DEF Recorder
<1>2. r \in 0..Len(rec) /\ r # 0 /\ rec[r].recording
  BY <1>1, TypeParts DEF StopBegins, IsRecording
<1>3. r \in Recorders
  BY <1>2, TypeParts DEF Recorders
<1>4. rec[r] \in Recorder
  BY <1>3, TypeParts DEF Recorders
<1>5. x \in Recorder /\ x.name = rec[r].name /\ ~x.recording
  BY <1>4 DEF Recorder
<1>6. rec' = [rec EXCEPT ![r] = x]
  BY DEF StopBegins
<1>7. call' = [call EXCEPT ![c] = y] /\ call[c].at = "idle"
  BY DEF StopBegins
<1>8. y \in Call(Len(rec))
  BY <1>1, <1>2 DEF Call
<1> HIDE DEF x
<1>9. /\ rec' \in Seq(Recorder) /\ Len(rec') = Len(rec) /\ Recorders' = Recorders
      /\ rec'[r] = x /\ \A q \in Recorders : q # r => rec'[q] = rec[q]
  BY <1>3, <1>5, <1>6, Updated
<1>10. call'[c] = y /\ (\A d \in Calls : d # c => call'[d] = call[d])
       /\ call' \in [Calls -> Call(Len(rec))]
  BY <1>7, <1>8, TypeParts
<1>11. /\ overlapped' = overlapped \cup IF Starting(n) THEN {n} ELSE {}
       /\ UNCHANGED <<browser, taskVars, byName, active>>
  BY DEF StopBegins
<1> QED
  BY <1>1, <1>2, <1>3, <1>5, <1>7, <1>9, <1>10, <1>11

\* The recorders keep the types.
LEMMA TypeRecorders ==
  ASSUME TypeOK, NEW r \in Recorders,
         Expire(r) \/ CaptureEnds(r) \/ \E c \in Calls : StopBegins(c, r)
  PROVE  TypeOK'
<1>1. CASE Expire(r) \/ CaptureEnds(r)
  BY <1>1, CaptureStep, TypeParts DEF TypeOK, Recorder, Call, taskVars
<1>2. CASE \E c \in Calls : StopBegins(c, r)
  <2>1. PICK c \in Calls : StopBegins(c, r)
    BY <1>2
  <2> DEFINE n == rec[r].name
  <2>2. /\ n \in Names
        /\ rec' \in Seq(Recorder) /\ Len(rec') = Len(rec)
        /\ call' \in [Calls -> Call(Len(rec))]
        /\ overlapped' = overlapped \cup IF Starting(n) THEN {n} ELSE {}
        /\ UNCHANGED <<browser, taskVars, byName, active>>
    BY <2>1, StopStep
  <2>3. overlapped' \in SUBSET Names
    BY <2>2, TypeParts
  <2> QED
    BY <2>2, <2>3, TypeParts DEF TypeOK, Recorder, Call, taskVars
<1> QED
  BY <1>1, <1>2

\* Every step keeps the types.
LEMMA TypeStep == TypeOK /\ [Next]_vars => TypeOK'
<1> SUFFICES ASSUME TypeOK, [Next]_vars PROVE TypeOK'
  OBVIOUS
<1>1. CASE UNCHANGED vars
  BY <1>1 DEF TypeOK, vars, taskVars, recVars
<1> QED
  BY <1>1, TypeTasks, TypeCalls, TypeRecorders DEF Next

\* Every variable has its type.
THEOREM TypeCorrect == Spec => []TypeOK
<1> QED
  BY TypeInit, TypeStep, PTL DEF Spec

-----------------------------------------------------------------------------
(* The invariant.                                                          *)

\* It holds at first.
LEMMA InvInit == Init => IInv
<1> SUFFICES ASSUME Init PROVE IInv
  OBVIOUS
<1>1. TypeOK
  BY TypeInit
<1>2. Recorders = {} /\ active = 0 /\ \A n \in Names : byName[n] = 0
  BY DEF Init, Recorders
<1>3. \A c \in Calls : call[c].at = "idle" /\ call[c].of = 0
  BY IdleType DEF Init
<1> QED
  BY <1>1, <1>2, <1>3 DEF IInv, FiledByName, OverlapsAreSeen, QuietWhileAtWork, StoppedIsOwned,
     OfIsOfStops, RecordingsCanBeStopped

\* A step that leaves the recordings alone.
LEMMA InvTasks ==
  ASSUME IInv, TypeOK', UNCHANGED recVars
  PROVE  IInv'
BY DEF IInv, recVars, FiledByName, OverlapsAreSeen, QuietWhileAtWork, StoppedIsOwned,
   OfIsOfStops, RecordingsCanBeStopped, Recorders

\* The agent looks for the recording to mark.
LEMMA InvLook ==
  ASSUME IInv, TypeOK', Look
  PROVE  IInv'
<1>1. UNCHANGED <<rec, byName, call, overlapped>> /\ Recorders' = Recorders
  BY DEF Look, Recorders
<1>2. PICK n \in Names : IsRecording(n) /\ active' = byName[n]
  BY DEF Look
<1>3. rec[active'].name = n
  BY <1>2 DEF IInv, FiledByName, IsRecording
<1>4. RecordingsCanBeStopped'
  BY <1>1, <1>2, <1>3 DEF IInv, RecordingsCanBeStopped
<1>5. FiledByName' /\ OverlapsAreSeen' /\ QuietWhileAtWork' /\ StoppedIsOwned' /\ OfIsOfStops'
  BY <1>1 DEF IInv, FiledByName, OverlapsAreSeen, QuietWhileAtWork, StoppedIsOwned, OfIsOfStops
<1> QED
  BY <1>4, <1>5 DEF IInv

\* A capture ends.
LEMMA InvCapture ==
  ASSUME IInv, TypeOK', NEW r \in Recorders, Expire(r) \/ CaptureEnds(r)
  PROVE  IInv'
<1>1. /\ Recorders' = Recorders
      /\ \A q \in Recorders : rec'[q].name = rec[q].name /\ rec'[q].recording = rec[q].recording
      /\ \A q \in Recorders : rec[q].capture = "off" => rec'[q].capture = "off"
      /\ UNCHANGED <<byName, active, call, overlapped>>
  BY CaptureStep DEF IInv
<1>2. \A n \in Names : byName[n] # 0 => byName[n] \in Recorders
  BY TypeParts DEF IInv, Recorders
<1>3. active # 0 => active \in Recorders
  BY TypeParts DEF IInv, Recorders
<1>4. FiledByName' /\ RecordingsCanBeStopped'
  BY <1>1, <1>2, <1>3 DEF IInv, FiledByName, RecordingsCanBeStopped
<1>5. OverlapsAreSeen' /\ QuietWhileAtWork' /\ OfIsOfStops'
  BY <1>1 DEF IInv, OverlapsAreSeen, QuietWhileAtWork, OfIsOfStops
<1>6. StoppedIsOwned'
  BY <1>1 DEF IInv, StoppedIsOwned
<1> QED
  BY <1>4, <1>5, <1>6 DEF IInv

\* A start begins: nothing of its name records, or requests overlapped before.
LEMMA InvStartBegins ==
  ASSUME IInv, TypeOK', NEW c \in Calls, NEW n \in Names, StartBegins(c, n)
  PROVE  IInv'
<1> DEFINE x == [at |-> "starting", name |-> n, of |-> 0]
<1>1. /\ call[c].at = "idle" /\ MayStart(n)
      /\ call' = [call EXCEPT ![c] = x]
      /\ overlapped' = overlapped \cup IF AtWork(n) THEN {n} ELSE {}
      /\ UNCHANGED <<rec, byName, active>> /\ Recorders' = Recorders
  BY DEF StartBegins, Recorders
<1>2. call'[c] = x /\ \A d \in Calls : d # c => call'[d] = call[d]
  BY <1>1, CallSet DEF IInv
<1>3. OverlapsAreSeen'
  <2> SUFFICES ASSUME NEW d \in Calls, NEW e \in Calls, d # e, call'[d].at = "starting",
                      call'[e].at # "idle", call'[d].name = call'[e].name
               PROVE  call'[d].name \in overlapped'
    BY DEF OverlapsAreSeen
  <2>1. CASE d = c
    BY <1>1, <1>2, <2>1 DEF AtWork
  <2>2. CASE e = c
    BY <1>1, <1>2, <2>2 DEF AtWork
  <2>3. CASE d # c /\ e # c
    BY <1>1, <1>2, <2>3 DEF IInv, OverlapsAreSeen
  <2> QED
    BY <2>1, <2>2, <2>3
<1>4. QuietWhileAtWork'
  <2> SUFFICES ASSUME NEW d \in Calls, call'[d].at # "idle", call'[d].name \notin overlapped',
                      NEW r \in Recorders, rec[r].name = call'[d].name
               PROVE  ~rec[r].recording
    BY <1>1 DEF QuietWhileAtWork
  <2>1. CASE d = c
    <3>1. rec[r].name = n /\ n \notin overlapped
      BY <1>1, <1>2, <2>1
    <3>2. rec[r].recording => byName[n] = r
      BY <3>1 DEF IInv, RecordingsCanBeStopped
    <3>3. r # 0
      BY TypeParts DEF IInv, Recorders
    <3> QED
      BY <1>1, <3>2, <3>3 DEF MayStart, IsRecording
  <2>2. CASE d # c
    BY <1>1, <1>2, <2>2 DEF IInv, QuietWhileAtWork
  <2> QED
    BY <2>1, <2>2
<1>5. OfIsOfStops'
  BY <1>2 DEF IInv, OfIsOfStops
<1>6. StoppedIsOwned'
  <2>1. \A r \in Recorders : r # 0
    BY TypeParts DEF IInv, Recorders
  <2> QED
    BY <1>1, <1>2, <2>1 DEF IInv, StoppedIsOwned
<1>7. FiledByName' /\ RecordingsCanBeStopped'
  BY <1>1 DEF IInv, FiledByName, RecordingsCanBeStopped
<1> QED
  BY <1>3, <1>4, <1>5, <1>6, <1>7 DEF IInv

\* A start fails.
LEMMA InvStartFails ==
  ASSUME IInv, TypeOK', NEW c \in Calls, StartFails(c)
  PROVE  IInv'
<1>1. /\ call' = [call EXCEPT ![c] = Idle] /\ UNCHANGED <<rec, byName, active, overlapped>>
      /\ Recorders' = Recorders
  BY DEF StartFails, Recorders
<1>2. call'[c].at = "idle" /\ call'[c].of = 0 /\ \A d \in Calls : d # c => call'[d] = call[d]
  BY <1>1, CallSet, IdleType DEF IInv
<1>3. \A r \in Recorders : r # 0
  BY TypeParts DEF IInv, Recorders
<1>4. OverlapsAreSeen' /\ QuietWhileAtWork' /\ OfIsOfStops'
  BY <1>1, <1>2 DEF IInv, OverlapsAreSeen, QuietWhileAtWork, OfIsOfStops
<1>5. StoppedIsOwned'
  BY <1>1, <1>2, <1>3 DEF IInv, StoppedIsOwned
<1>6. FiledByName' /\ RecordingsCanBeStopped'
  BY <1>1 DEF IInv, FiledByName, RecordingsCanBeStopped
<1> QED
  BY <1>4, <1>5, <1>6 DEF IInv

\* A recorder is filed: whatever of its name records elsewhere, the overlap of
\* the requests was seen.
LEMMA InvStartEnds ==
  ASSUME IInv, TypeOK', NEW c \in Calls, StartEnds(c)
  PROVE  IInv'
<1> DEFINE n == call[c].name
           k == Len(rec) + 1
           x == [name |-> n, recording |-> TRUE, capture |-> "on"]
<1>1. /\ call[c].at = "starting"
      /\ rec' = Append(rec, x)
      /\ byName' = [byName EXCEPT ![n] = Len(rec')] /\ active' = Len(rec')
      /\ call' = [call EXCEPT ![c] = Idle] /\ UNCHANGED overlapped
  BY DEF StartEnds
<1>2. /\ rec \in Seq(Recorder) /\ n \in Names /\ x \in Recorder
      /\ byName \in [Names -> 0..Len(rec)] /\ active \in 0..Len(rec)
  BY TypeParts DEF IInv, Call, Recorder
<1>3. /\ Len(rec') = k /\ rec'[k] = x /\ Recorders' = Recorders \cup {k} /\ k \notin Recorders
      /\ \A r \in Recorders : rec'[r] = rec[r] /\ r # 0
  BY <1>1, <1>2 DEF Recorders
<1>4. x.name = n /\ k # 0
  BY <1>2
<1>5. byName'[n] = k /\ (\A q \in Names : q # n => byName'[q] = byName[q]) /\ active' = k
  BY <1>1, <1>2, <1>3
<1>6. call'[c].at = "idle" /\ call'[c].of = 0 /\ \A d \in Calls : d # c => call'[d] = call[d]
  BY <1>1, CallSet, IdleType DEF IInv
<1>7. \A q \in Names : byName[q] # 0 => byName[q] \in Recorders
  BY <1>2 DEF Recorders
<1> HIDE DEF n, k, x
<1>8. FiledByName'
  BY <1>3, <1>4, <1>5, <1>7 DEF IInv, FiledByName
<1>9. OverlapsAreSeen' /\ OfIsOfStops'
  BY <1>1, <1>6 DEF IInv, OverlapsAreSeen, OfIsOfStops
<1>10. \A d \in Calls : d # c /\ call[d].at # "idle" /\ call[d].name = n => n \in overlapped
  BY <1>1 DEF IInv, OverlapsAreSeen, n
<1>11. QuietWhileAtWork'
  <2> SUFFICES ASSUME NEW d \in Calls, call'[d].at # "idle", call'[d].name \notin overlapped,
                      NEW r \in Recorders', rec'[r].name = call'[d].name
               PROVE  ~rec'[r].recording
    BY <1>1 DEF QuietWhileAtWork
  <2>1. d # c /\ call'[d] = call[d]
    BY <1>6
  <2>2. CASE r = k
    BY <1>3, <1>4, <1>10, <2>1, <2>2
  <2>3. CASE r \in Recorders
    BY <1>3, <2>1, <2>3 DEF IInv, QuietWhileAtWork
  <2> QED
    BY <1>3, <2>2, <2>3
<1>12. StoppedIsOwned'
  BY <1>3, <1>6 DEF IInv, StoppedIsOwned
<1>13. \A r \in Recorders : rec[r].name = n /\ n \notin overlapped => ~rec[r].recording
  BY <1>1 DEF IInv, QuietWhileAtWork, n
<1>14. \A r \in Recorders : rec[r].name \in Names
  <2>1. \A r \in Recorders : rec[r] \in Recorder
    BY <1>2 DEF Recorders
  <2> QED
    BY <2>1 DEF Recorder
<1>15. RecordingsCanBeStopped'
  <2>1. ASSUME NEW r \in Recorders', rec'[r].recording, rec'[r].name \notin overlapped
        PROVE  byName'[rec'[r].name] = r
    <3>1. CASE r = k
      BY <1>3, <1>4, <1>5, <3>1
    <3>2. CASE r \in Recorders
      <4>1. rec[r].name # n
        BY <1>3, <1>13, <2>1, <3>2
      <4> QED
        BY <1>3, <1>5, <1>14, <2>1, <3>2, <4>1 DEF IInv, RecordingsCanBeStopped
    <3> QED
      BY <1>3, <3>1, <3>2
  <2>2. byName'[rec'[active'].name] = active'
    BY <1>3, <1>4, <1>5
  <2> QED
    BY <1>1, <2>1, <2>2 DEF RecordingsCanBeStopped
<1> QED
  BY <1>8, <1>9, <1>11, <1>12, <1>15 DEF IInv

\* A stop begins: it takes the one recorder of its name that records.
LEMMA InvStopBegins ==
  ASSUME IInv, TypeOK', NEW c \in Calls, NEW s \in Recorders, StopBegins(c, s)
  PROVE  IInv'
<1> DEFINE n == rec[s].name
           r == byName[n]
<1>1. /\ n \in Names /\ r \in Recorders /\ rec[r].recording
      /\ Recorders' = Recorders
      /\ rec'[r].name = rec[r].name /\ ~rec'[r].recording
      /\ \A q \in Recorders : q # r => rec'[q] = rec[q]
      /\ call[c].at = "idle"
      /\ call'[c] = [at |-> "stopping", name |-> n, of |-> r]
      /\ \A d \in Calls : d # c => call'[d] = call[d]
      /\ overlapped' = overlapped \cup IF Starting(n) THEN {n} ELSE {}
      /\ UNCHANGED <<byName, active>>
  BY StopStep DEF IInv
<1>2. call'[c].at = "stopping" /\ call'[c].name = n /\ call'[c].of = r
  BY <1>1
<1>3. r # 0
  BY <1>1, TypeParts DEF IInv, Recorders
<1>4. rec[r].name = n
  BY <1>1, <1>3 DEF IInv, FiledByName
<1> HIDE DEF n, r
<1>5. \A q \in Recorders : rec'[q].name = rec[q].name /\ (rec'[q].recording => rec[q].recording)
  BY <1>1
<1>6. \A q \in Names : byName[q] # 0 => byName[q] \in Recorders
  BY TypeParts DEF IInv, Recorders
<1>7. active # 0 => active \in Recorders
  BY TypeParts DEF IInv, Recorders
<1>8. FiledByName'
  BY <1>1, <1>5, <1>6 DEF IInv, FiledByName
<1>9. OverlapsAreSeen'
  <2> SUFFICES ASSUME NEW d \in Calls, NEW e \in Calls, d # e, call'[d].at = "starting",
                      call'[e].at # "idle", call'[d].name = call'[e].name
               PROVE  call'[d].name \in overlapped'
    BY DEF OverlapsAreSeen
  <2>1. d # c /\ call'[d] = call[d]
    BY <1>1, <1>2
  <2>2. CASE e = c
    BY <1>1, <1>2, <2>1, <2>2 DEF Starting
  <2>3. CASE e # c
    BY <1>1, <2>1, <2>3 DEF IInv, OverlapsAreSeen
  <2> QED
    BY <2>2, <2>3
<1>10. QuietWhileAtWork'
  <2> SUFFICES ASSUME NEW d \in Calls, call'[d].at # "idle", call'[d].name \notin overlapped',
                      NEW q \in Recorders, rec'[q].name = call'[d].name
               PROVE  ~rec'[q].recording
    BY <1>1 DEF QuietWhileAtWork
  <2>1. CASE d = c
    <3>1. rec[q].name = n /\ n \notin overlapped
      BY <1>1, <1>2, <1>5, <2>1
    <3>2. rec[q].recording => q = r
      BY <3>1 DEF IInv, RecordingsCanBeStopped, r
    <3> QED
      BY <1>1, <1>5, <3>2
  <2>2. CASE d # c
    BY <1>1, <1>5, <2>2 DEF IInv, QuietWhileAtWork
  <2> QED
    BY <2>1, <2>2
<1>11. OfIsOfStops'
  BY <1>1, <1>2 DEF IInv, OfIsOfStops
<1>12. \A d \in Calls : d # c => call[d].of # r
  <2>1. \A d \in Calls : call[d].at \in {"idle", "starting", "stopping", "converting"}
    BY TypeParts DEF IInv, Call
  <2> QED
    BY <1>1, <1>3, <2>1 DEF IInv, StoppedIsOwned, OfIsOfStops
<1>13. StoppedIsOwned'
  BY <1>1, <1>2, <1>12 DEF IInv, StoppedIsOwned
<1>14. RecordingsCanBeStopped'
  BY <1>1, <1>5, <1>7 DEF IInv, RecordingsCanBeStopped
<1> QED
  BY <1>8, <1>9, <1>10, <1>11, <1>13, <1>14 DEF IInv

\* A name is no longer filed, at the end of a request that stopped a recording
\* of it: none of it records, and if it was the active one there is none now.
LEMMA InvCleanup ==
  ASSUME IInv, NEW c \in Calls, call[c].at \in {"stopping", "converting"},
         NEW a, a \in {0, active}, Cleanup(call[c].name, a),
         call' = [call EXCEPT ![c] = Idle], UNCHANGED <<rec, overlapped>>
  PROVE  /\ FiledByName' /\ OverlapsAreSeen' /\ QuietWhileAtWork' /\ StoppedIsOwned'
         /\ OfIsOfStops' /\ RecordingsCanBeStopped'
<1> DEFINE n == call[c].name
<1>1. n \in Names /\ Recorders' = Recorders /\ \A r \in Recorders : r # 0 /\ rec[r].name \in Names
  <2>1. rec \in Seq(Recorder) /\ call[c] \in Call(Len(rec))
    BY TypeParts DEF IInv
  <2>2. \A r \in Recorders : rec[r] \in Recorder /\ r # 0
    BY <2>1 DEF Recorders
  <2> QED
    BY <2>1, <2>2 DEF Call, Recorder, Recorders
<1>2. /\ byName'[n] = 0 /\ \A q \in Names : q # n => byName'[q] = byName[q]
      /\ active' = IF a = byName[n] THEN 0 ELSE a
  BY <1>1, TypeParts DEF IInv, Cleanup
<1>3. call'[c].at = "idle" /\ call'[c].of = 0 /\ \A d \in Calls : d # c => call'[d] = call[d]
  BY CallSet, IdleType DEF IInv
<1>4. n \notin overlapped => \A r \in Recorders : rec[r].name = n => ~rec[r].recording
  BY DEF IInv, QuietWhileAtWork
<1>5. active # 0 => active \in Recorders
  BY TypeParts DEF IInv, Recorders
<1> HIDE DEF n
<1>6. FiledByName'
  BY <1>2 DEF IInv, FiledByName
<1>7. OverlapsAreSeen' /\ QuietWhileAtWork' /\ OfIsOfStops'
  BY <1>1, <1>3 DEF IInv, OverlapsAreSeen, QuietWhileAtWork, OfIsOfStops
<1>8. StoppedIsOwned'
  BY <1>1, <1>3 DEF IInv, StoppedIsOwned
<1>9. active' # 0 => byName'[rec[active'].name] = active'
  BY <1>1, <1>2, <1>5 DEF IInv, RecordingsCanBeStopped
<1>10. RecordingsCanBeStopped'
  BY <1>1, <1>2, <1>4, <1>9 DEF IInv, RecordingsCanBeStopped
<1> QED
  BY <1>6, <1>7, <1>8, <1>10

\* A request moves on or ends without a clean-up.
LEMMA InvMoveOn ==
  ASSUME IInv, NEW c \in Calls, call[c].at \in {"stopping", "converting"},
         call[c].at = "stopping" => rec[call[c].of].capture = "off",
         \/ call' = [call EXCEPT ![c] = Idle]
         \/ call' = [call EXCEPT ![c].at = "converting"],
         active' \in {0, active}, UNCHANGED <<rec, byName, overlapped>>
  PROVE  /\ FiledByName' /\ OverlapsAreSeen' /\ QuietWhileAtWork' /\ StoppedIsOwned'
         /\ OfIsOfStops' /\ RecordingsCanBeStopped'
<1>1. Recorders' = Recorders /\ \A r \in Recorders : r # 0
  BY TypeParts DEF IInv, Recorders
<1>2. \A d \in Calls : d # c => call'[d] = call[d]
  BY TypeParts DEF IInv
<1>3. \/ call'[c].at = "idle" /\ call'[c].of = 0
      \/ call'[c].at = "converting" /\ call'[c].name = call[c].name /\ call'[c].of = call[c].of
  <2>1. CASE call' = [call EXCEPT ![c] = Idle]
    BY <2>1, CallSet, IdleType DEF IInv
  <2>2. CASE call' = [call EXCEPT ![c].at = "converting"]
    BY <2>2, TypeParts DEF IInv, Call
  <2> QED
    BY <2>1, <2>2
<1>4. FiledByName' /\ RecordingsCanBeStopped'
  BY <1>1 DEF IInv, FiledByName, RecordingsCanBeStopped
<1>5. OverlapsAreSeen' /\ QuietWhileAtWork' /\ OfIsOfStops'
  BY <1>1, <1>2, <1>3 DEF IInv, OverlapsAreSeen, QuietWhileAtWork, OfIsOfStops
<1>6. StoppedIsOwned'
  BY <1>1, <1>2, <1>3 DEF IInv, StoppedIsOwned
<1> QED
  BY <1>4, <1>5, <1>6

\* A stop or a conversion ends.
LEMMA InvStopEnds ==
  ASSUME IInv, TypeOK', NEW c \in Calls, StopEnds(c) \/ ConvertEnds(c)
  PROVE  IInv'
<1> DEFINE a == IF active = call[c].of THEN 0 ELSE active
<1>1. CASE StopEnds(c) /\ call' = [call EXCEPT ![c].at = "converting"] /\ active' = a /\ UNCHANGED byName
  BY <1>1, InvMoveOn DEF StopEnds, IInv
<1>2. CASE StopEnds(c) /\ call' = [call EXCEPT ![c] = Idle] /\ Cleanup(call[c].name, a)
  BY <1>2, InvCleanup DEF StopEnds, IInv
<1>3. CASE ConvertEnds(c) /\ Cleanup(call[c].name, active)
  BY <1>3, InvCleanup DEF ConvertEnds, IInv
<1>4. CASE ConvertEnds(c) /\ UNCHANGED <<byName, active>>
  BY <1>4, InvMoveOn DEF ConvertEnds, IInv
<1> QED
  BY <1>1, <1>2, <1>3, <1>4 DEF StopEnds, ConvertEnds

\* Every step keeps the invariant.
LEMMA InvStep == IInv /\ [Next]_vars => IInv'
<1> SUFFICES ASSUME IInv, [Next]_vars PROVE IInv'
  OBVIOUS
<1>1. TypeOK'
  BY TypeStep DEF IInv
<1>2. CASE UNCHANGED vars
  BY <1>1, <1>2, InvTasks DEF vars
<1>3. CASE UseBrowser \/ (\E t \in Tasks : Submit(t)) \/ Take \/ RunEnds
  BY <1>1, <1>3, InvTasks DEF UseBrowser, Submit, Take, RunEnds
<1> QED
  BY <1>1, <1>2, <1>3, InvLook, InvCapture, InvStartBegins, InvStartFails, InvStartEnds,
     InvStopBegins, InvStopEnds DEF Next

\* A recording that goes on can be stopped, unless requests for its name
\* overlapped.
THEOREM RecordingsAreInReach == Spec => []RecordingsCanBeStopped
<1>1. IInv => RecordingsCanBeStopped
  BY DEF IInv
<1> QED
  BY <1>1, InvInit, InvStep, PTL DEF Spec

\* What is converted has stopped, and is converted for one request.
THEOREM ConvertedOnce == Spec => []ConvertsWhatItStopped
<1>1. IInv => ConvertsWhatItStopped
  BY DEF IInv, StoppedIsOwned, ConvertsWhatItStopped
<1> QED
  BY <1>1, InvInit, InvStep, PTL DEF Spec
-----------------------------------------------------------------------------
(* Tasks: what TasksAreAnswered rests on.                                  *)

\* A task is queued exactly if it is in the queue, and once; the one that is
\* running is the one the worker has.
TasksInPlace ==
  /\ \A t \in Tasks : status[t] = "queued" <=> \E i \in DOMAIN queue : queue[i] = t
  /\ \A i, j \in DOMAIN queue : queue[i] = queue[j] => i = j
  /\ \A t \in Tasks : status[t] = "running" <=> worker = t

\* A step moves the tasks that wait by one place at the most, keeps those that
\* are answered, and lets the one that runs come to nothing but an answer.
TasksMoveUp ==
  /\ \A i \in DOMAIN queue :
       \/ i \in DOMAIN queue' /\ queue'[i] = queue[i]
       \/ i > 1 /\ i - 1 \in DOMAIN queue' /\ queue'[i - 1] = queue[i]
       \/ i = 1 /\ status'[queue[i]] \in {"running", "failed"}
  /\ \A t \in Tasks : status[t] \in {"completed", "failed"} => status'[t] = status[t]
  /\ \A t \in Tasks : status[t] = "running" => status'[t] \in {"running", "completed", "failed"}

\* What the types say of the queue.
LEMMA TaskType ==
  ASSUME TypeOK
  PROVE  /\ \A i \in DOMAIN queue : queue[i] \in Tasks
         /\ DOMAIN queue = 1..Len(queue) /\ Len(queue) \in Nat
         /\ queue # <<>> => Head(queue) = queue[1] /\ 1 \in DOMAIN queue
BY DEF TypeOK

\* The first of the queue is taken.
LEMMA TailQueue ==
  ASSUME TypeOK, queue # <<>>, queue' = Tail(queue)
  PROVE  /\ DOMAIN queue' = 1..(Len(queue) - 1)
         /\ \A i \in DOMAIN queue' : i + 1 \in DOMAIN queue /\ queue'[i] = queue[i + 1]
         /\ \A i \in DOMAIN queue : i # 1 => i - 1 \in DOMAIN queue' /\ queue'[i - 1] = queue[i]
BY DEF TypeOK

\* A task joins the queue.
LEMMA AppendQueue ==
  ASSUME TypeOK, NEW t \in Tasks, queue' = Append(queue, t)
  PROVE  /\ DOMAIN queue' = DOMAIN queue \cup {Len(queue) + 1}
         /\ \A i \in DOMAIN queue : queue'[i] = queue[i] /\ i # Len(queue) + 1
         /\ queue'[Len(queue) + 1] = t
BY DEF TypeOK

\* Who is at no task's work has none.
LEMMA NobodyRuns == ASSUME worker = Nobody PROVE \A t \in Tasks : worker # t
BY NamesAssumption

\* A task is accepted.
LEMMA PlaceSubmit ==
  ASSUME TypeOK, TasksInPlace, NEW t \in Tasks, Submit(t)
  PROVE  TasksInPlace' /\ TasksMoveUp
<1>1. status[t] = "new" /\ status' = [status EXCEPT ![t] = "queued"] /\ UNCHANGED worker
  BY DEF Submit
<1>2. status'[t] = "queued" /\ \A u \in Tasks : u # t => status'[u] = status[u]
  BY <1>1 DEF TypeOK
<1>3. /\ DOMAIN queue' = DOMAIN queue \cup {Len(queue) + 1}
      /\ \A i \in DOMAIN queue : queue'[i] = queue[i] /\ i # Len(queue) + 1
      /\ queue'[Len(queue) + 1] = t
  BY AppendQueue DEF Submit
<1>4. \A i \in DOMAIN queue : queue[i] # t
  BY <1>1 DEF TasksInPlace
<1> DEFINE z == Len(queue) + 1
<1>5. /\ DOMAIN queue' = DOMAIN queue \cup {z}
      /\ \A i \in DOMAIN queue : queue'[i] = queue[i] /\ i # z
      /\ queue'[z] = t
  BY <1>3
<1> HIDE DEF z
<1>6. \A u \in Tasks : status'[u] = "queued" <=> \E i \in DOMAIN queue' : queue'[i] = u
  BY <1>2, <1>4, <1>5 DEF TasksInPlace
<1>7. \A i, j \in DOMAIN queue' : queue'[i] = queue'[j] => i = j
  BY <1>4, <1>5 DEF TasksInPlace
<1>8. \A u \in Tasks : status'[u] = "running" <=> worker' = u
  BY <1>1, <1>2 DEF TasksInPlace
<1>9. TasksMoveUp
  BY <1>1, <1>2, <1>5 DEF TasksMoveUp
<1> QED
  BY <1>6, <1>7, <1>8, <1>9 DEF TasksInPlace

\* The worker takes the first task, or it fails at once.
LEMMA PlaceTake ==
  ASSUME TypeOK, TasksInPlace, Take
  PROVE  TasksInPlace' /\ TasksMoveUp
<1> DEFINE h == queue[1]
<1>1. worker = Nobody /\ queue # <<>> /\ queue' = Tail(queue)
  BY DEF Take
<1>2. h \in Tasks /\ 1 \in DOMAIN queue /\ Head(queue) = h
  BY <1>1, TaskType
<1>3. \/ status' = [status EXCEPT ![h] = "running"] /\ worker' = h
      \/ status' = [status EXCEPT ![h] = "failed"] /\ worker' = Nobody
  BY <1>1, <1>2 DEF Take
<1>4. /\ \A u \in Tasks : u # h => status'[u] = status[u]
      /\ \/ status'[h] = "running" /\ worker' = h
         \/ status'[h] = "failed" /\ worker' = Nobody
  BY <1>2, <1>3 DEF TypeOK
<1>5. status[h] = "queued" /\ \A i \in DOMAIN queue : queue[i] = h => i = 1
  BY <1>2 DEF TasksInPlace
<1>6. \A u \in Tasks : status[u] # "running"
  BY <1>1, NobodyRuns DEF TasksInPlace
<1>7. \A i \in DOMAIN queue' : i + 1 \in DOMAIN queue /\ queue'[i] = queue[i + 1] /\ i + 1 # 1
  BY <1>1, TailQueue, TaskType
<1>8. \A i \in DOMAIN queue : i # 1 => i - 1 \in DOMAIN queue' /\ queue'[i - 1] = queue[i]
  BY <1>1, TailQueue
<1>9. \A u \in Tasks : status'[u] = "queued" <=> \E i \in DOMAIN queue' : queue'[i] = u
  <2> TAKE u \in Tasks
  <2>1. CASE u = h
    BY <2>1, <1>4, <1>5, <1>7
  <2>2. CASE u # h
    <3>1. status'[u] = "queued" <=> \E i \in DOMAIN queue : queue[i] = u
      BY <2>2, <1>4 DEF TasksInPlace
    <3>2. (\E i \in DOMAIN queue : queue[i] = u) <=> \E i \in DOMAIN queue' : queue'[i] = u
      BY <2>2, <1>7, <1>8
    <3> QED
      BY <3>1, <3>2
  <2> QED
    BY <2>1, <2>2
<1>10. \A i, j \in DOMAIN queue' : queue'[i] = queue'[j] => i = j
  <2> TAKE i, j \in DOMAIN queue'
  <2>1. queue'[i] = queue'[j] => i + 1 = j + 1
    BY <1>7 DEF TasksInPlace
  <2>2. i \in Nat /\ j \in Nat
    BY <1>1, TailQueue, TaskType
  <2> QED
    BY <2>1, <2>2
<1>11. \A u \in Tasks : status'[u] = "running" <=> worker' = u
  <2>1. \A u \in Tasks : u # Nobody
    BY NamesAssumption
  <2> QED
    BY <2>1, <1>2, <1>4, <1>6
<1>12. TasksMoveUp
  <2>1. \A i \in DOMAIN queue :
          \/ i > 1 /\ i - 1 \in DOMAIN queue' /\ queue'[i - 1] = queue[i]
          \/ i = 1 /\ status'[queue[i]] \in {"running", "failed"}
    <3> TAKE i \in DOMAIN queue
    <3>1. i = 1 \/ i > 1
      BY TaskType
    <3> QED
      BY <3>1, <1>4, <1>8
  <2>2. \A u \in Tasks : status[u] \in {"completed", "failed"} => status'[u] = status[u]
    BY <1>4, <1>5
  <2> QED
    BY <2>1, <2>2, <1>6 DEF TasksMoveUp
<1> QED
  BY <1>9, <1>10, <1>11, <1>12 DEF TasksInPlace

\* The task of the worker is answered.
LEMMA PlaceRunEnds ==
  ASSUME TypeOK, TasksInPlace, RunEnds
  PROVE  TasksInPlace' /\ TasksMoveUp
<1>1. worker \in Tasks /\ status[worker] = "running" /\ UNCHANGED queue
  BY DEF RunEnds, TypeOK, TasksInPlace
<1>2. status'[worker] \in {"completed", "failed"} /\ \A u \in Tasks : u # worker => status'[u] = status[u]
  BY <1>1 DEF RunEnds, TypeOK
<1>3. \A u \in Tasks : worker' # u
  BY NamesAssumption DEF RunEnds
<1>4. \A u \in Tasks : status[u] = "running" => u = worker
  BY DEF TasksInPlace
<1>5. TasksMoveUp
  BY <1>1, <1>2, <1>4 DEF TasksMoveUp
<1>6. TasksInPlace'
  BY <1>1, <1>2, <1>3, <1>4 DEF TasksInPlace
<1> QED
  BY <1>5, <1>6

\* Recordings and the browser touch no task.
LEMMA PlaceSame ==
  ASSUME TypeOK, TasksInPlace, UNCHANGED <<status, queue, worker>>
  PROVE  TasksInPlace' /\ TasksMoveUp
BY DEF TasksInPlace, TasksMoveUp

\* Nothing is accepted at first.
LEMMA PlaceInit == Init => TasksInPlace
<1> SUFFICES ASSUME Init PROVE TasksInPlace
  OBVIOUS
<1>1. DOMAIN queue = {} /\ \A t \in Tasks : status[t] = "new" /\ worker # t
  BY NamesAssumption DEF Init
<1> QED
  BY <1>1 DEF TasksInPlace

\* Every step keeps the tasks in their places, and moves them up.
LEMMA PlaceStep == TypeOK /\ TasksInPlace /\ [Next]_vars => TasksInPlace' /\ TasksMoveUp
<1> SUFFICES ASSUME TypeOK, TasksInPlace, [Next]_vars PROVE TasksInPlace' /\ TasksMoveUp
  OBVIOUS
<1>1. CASE (\E t \in Tasks : Submit(t)) \/ Take \/ RunEnds
  BY <1>1, PlaceSubmit, PlaceTake, PlaceRunEnds
<1>2. CASE UseBrowser \/ Look \/ UNCHANGED vars
  BY <1>2, PlaceSame DEF UseBrowser, Look, vars, taskVars
<1>3. CASE \E r \in Recorders : Expire(r) \/ CaptureEnds(r)
  BY <1>3, PlaceSame DEF Expire, CaptureEnds, taskVars
<1>4. CASE \E c \in Calls :
            \/ \E n \in Names : StartBegins(c, n)
            \/ \E s \in Recorders : StopBegins(c, s)
            \/ StartEnds(c) \/ StartFails(c) \/ StopEnds(c) \/ ConvertEnds(c)
  BY <1>4, PlaceSame DEF StartBegins, StopBegins, StartEnds, StartFails, StopEnds, ConvertEnds, taskVars
<1> QED
  BY <1>1, <1>2, <1>3, <1>4 DEF Next

\* No accepted task is lost or taken twice: it is in the queue, once, or the
\* worker has it, or it is answered.
THEOREM TasksAreKept == Spec => []TasksInPlace
<1> QED
  BY TypeInit, TypeStep, PlaceInit, PlaceStep, PTL DEF Spec

\* Tasks are run in the order of their requests, and an answer stands.
THEOREM TasksAreInOrder == Spec => [][TasksMoveUp]_vars
<1> QED
  BY TypeInit, TypeStep, PlaceInit, PlaceStep, PTL DEF Spec
=============================================================================
