----------------------------- MODULE ApiServer -----------------------------
(***************************************************************************)
(* The HTTP server of sediman (api/app.py): the one worker that takes      *)
(* tasks from a queue and runs them on the one agent, the requests that    *)
(* start and stop screen recordings (agent/recording_manager.py,           *)
(* agent/screen_recorder.py), and the one browser they all share, which    *)
(* whoever needs it first makes.  All of it runs on one event loop: an     *)
(* action is what happens between two awaits that may suspend.             *)
(***************************************************************************)
EXTENDS Naturals, Sequences, FiniteSets

CONSTANTS
  Tasks,          \* tasks clients submit
  Calls,          \* requests about recordings at work at a time
  Names,          \* names of recordings
  Nobody,         \* no task, no recording
  MaxRecordings   \* bound: recordings ever started

ASSUME NamesAssumption == Nobody \notin Tasks /\ Names # {}
ASSUME BoundAssumption == MaxRecordings \in Nat

VARIABLES
  browser,     \* _browser: "none", made but "unstarted", or "started"
  loop,        \* whether _agent_loop is made
  status,      \* the entries of _task_store: "new" before the request
  queue,       \* _task_queue
  worker,      \* the task _queue_worker runs
  rec,         \* the recorders, in the order they began; a session is its index
  byName,      \* RecordingManager._recorders: the recorder of each name, or 0
  active,      \* _active_recorder, or 0
  call,        \* where each request about a recording is
  overlapped   \* names on which a start was at work beside another request

taskVars == <<loop, status, queue, worker>>
recVars == <<rec, byName, active, call, overlapped>>
vars == <<browser, taskVars, recVars>>

-----------------------------------------------------------------------------
(* The browser.  BrowserSession.start never suspends: its lock is free, as *)
(* nobody waits while holding it.                                          *)

\* What _get_browser leaves, and whether it raises: it sets _browser before
\* the start, so that a start that fails leaves an unstarted one for good.
BrowserRaises == browser = "none" /\ browser' = "unstarted"
BrowserGiven == browser' = IF browser = "none" THEN "started" ELSE browser

\* A skill runs, a viewport looks, or a recording asks first.
UseBrowser ==
  /\ browser = "none"
  /\ BrowserRaises \/ BrowserGiven
  /\ UNCHANGED <<taskVars, recVars>>

-----------------------------------------------------------------------------
(* Tasks.                                                                  *)

\* POST /api/task: entry and queue are written without an await between.
Submit(t) ==
  /\ status[t] = "new"
  /\ status' = [status EXCEPT ![t] = "queued"]
  /\ queue' = Append(queue, t)
  /\ UNCHANGED <<browser, loop, worker, recVars>>

AgentLoopGiven == loop' = TRUE /\ IF loop THEN UNCHANGED browser ELSE BrowserGiven

\* _get_agent_loop raises: no browser, or no language model.
AgentLoopRaises == ~loop /\ UNCHANGED loop /\ (BrowserRaises \/ BrowserGiven)

\* Mutant: an error before the run leaves the entry as it is.
TakeForgets ==
  /\ worker = Nobody /\ queue # <<>>
  /\ queue' = Tail(queue)
  /\ status' = [status EXCEPT ![Head(queue)] = "running"]
  /\ \/ AgentLoopGiven /\ worker' = Head(queue)
     \/ AgentLoopRaises /\ UNCHANGED worker
  /\ UNCHANGED recVars

\* The worker takes the next task.
Take ==
  /\ worker = Nobody /\ queue # <<>>
  /\ queue' = Tail(queue)
  /\ \/ /\ AgentLoopGiven
        /\ status' = [status EXCEPT ![Head(queue)] = "running"]
        /\ worker' = Head(queue)
     \/ /\ AgentLoopRaises
        /\ status' = [status EXCEPT ![Head(queue)] = "failed"]
        /\ UNCHANGED worker
  /\ UNCHANGED recVars

\* Mutant: the code of the error is written where its status belongs.
RunEndsWithCode ==
  /\ worker # Nobody
  /\ \E s \in {"completed", "BROWSER_ERROR"} : status' = [status EXCEPT ![worker] = s]
  /\ worker' = Nobody
  /\ UNCHANGED <<browser, loop, queue, recVars>>

\* agent.run returns or raises.
RunEnds ==
  /\ worker # Nobody
  /\ \E s \in {"completed", "failed"} : status' = [status EXCEPT ![worker] = s]
  /\ worker' = Nobody
  /\ UNCHANGED <<browser, loop, queue, recVars>>

-----------------------------------------------------------------------------
(* Recordings.                                                             *)

Idle == [at |-> "idle", name |-> CHOOSE n \in Names : TRUE, of |-> 0]
Recorders == DOMAIN rec
IsRecording(n) == byName[n] # 0 /\ rec[byName[n]].recording

Starting(n) == \E c \in Calls : call[c].at = "starting" /\ call[c].name = n
AtWork(n) == \E c \in Calls : call[c].at # "idle" /\ call[c].name = n

\* Mutant: neither the request nor the manager asks for a recording of that name.
MayStartAlways(n) == TRUE

\* Neither the request nor the manager finds a recording of that name.
MayStart(n) == ~IsRecording(n)

\* record/start up to the await for a page; a browser that is not started is
\* started.  (If it cannot be, that is all the request does: UseBrowser.)
StartBegins(c, n) ==
  /\ call[c].at = "idle"
  /\ Len(rec) + Cardinality({d \in Calls : call[d].at = "starting"}) < MaxRecordings
  /\ MayStart(n)
  /\ browser' = "started"
  /\ call' = [call EXCEPT ![c] = [at |-> "starting", name |-> n, of |-> 0]]
  /\ overlapped' = overlapped \cup IF AtWork(n) THEN {n} ELSE {}
  /\ UNCHANGED <<taskVars, rec, byName, active>>

\* The page is there: the capture begins, and the manager writes down the
\* recorder, over any other of that name.
StartEnds(c) ==
  LET n == call[c].name IN
  /\ call[c].at = "starting"
  /\ rec' = Append(rec, [name |-> n, recording |-> TRUE, capture |-> "on"])
  /\ byName' = [byName EXCEPT ![n] = Len(rec')]
  /\ active' = Len(rec')
  /\ call' = [call EXCEPT ![c] = Idle]
  /\ UNCHANGED <<browser, taskVars, overlapped>>

\* There is no page: the request fails, and nothing was written down.
StartFails(c) ==
  /\ call[c].at = "starting"
  /\ call' = [call EXCEPT ![c] = Idle]
  /\ UNCHANGED <<browser, taskVars, rec, byName, active, overlapped>>

\* The capture loop leaves at the longest duration; the recorder goes on to
\* call itself recording.
Expire(r) ==
  /\ rec[r].capture = "on"
  /\ rec' = [rec EXCEPT ![r].capture = "off"]
  /\ UNCHANGED <<browser, taskVars, byName, active, call, overlapped>>

\* Mutant: the recorder calls itself stopped only once its capture is over.
StopBeginsLate(c, s) ==
  LET n == rec[s].name
      r == byName[n] IN
  /\ call[c].at = "idle"
  /\ IsRecording(n)
  /\ rec' = [rec EXCEPT ![r].capture = IF @ = "on" THEN "cancelled" ELSE @]
  /\ call' = [call EXCEPT ![c] = [at |-> "stopping", name |-> n, of |-> r]]
  /\ overlapped' = overlapped \cup IF Starting(n) THEN {n} ELSE {}
  /\ UNCHANGED <<browser, taskVars, byName, active>>

\* record/{s}/stop: it stops whichever recorder has the name of session s now,
\* and waits for the end of its capture.
StopBegins(c, s) ==
  LET n == rec[s].name
      r == byName[n] IN
  /\ call[c].at = "idle"
  /\ IsRecording(n)
  /\ rec' = [rec EXCEPT ![r].recording = FALSE,
                        ![r].capture = IF @ = "on" THEN "cancelled" ELSE @]
  /\ call' = [call EXCEPT ![c] = [at |-> "stopping", name |-> n, of |-> r]]
  /\ overlapped' = overlapped \cup IF Starting(n) THEN {n} ELSE {}
  /\ UNCHANGED <<browser, taskVars, byName, active>>

\* The cancelled capture loop comes to an end.
CaptureEnds(r) ==
  /\ rec[r].capture = "cancelled"
  /\ rec' = [rec EXCEPT ![r].capture = "off"]
  /\ UNCHANGED <<browser, taskVars, byName, active, call, overlapped>>

\* RecordingManager.cleanup: whatever recorder has the name now.
Cleanup(n, a) ==
  /\ byName' = [byName EXCEPT ![n] = 0]
  /\ active' = IF a = byName[n] THEN 0 ELSE a

\* The recorder has stopped.  A recording too short for a skill is cleaned up
\* at once, any other when the language model has read it.
StopEnds(c) ==
  LET r == call[c].of
      a == IF active = r THEN 0 ELSE active IN
  /\ call[c].at = "stopping"
  /\ rec[r].capture = "off"
  /\ \/ /\ call' = [call EXCEPT ![c].at = "converting"]
        /\ active' = a
        /\ UNCHANGED byName
     \/ /\ call' = [call EXCEPT ![c] = Idle]
        /\ Cleanup(call[c].name, a)
  /\ UNCHANGED <<browser, taskVars, rec, overlapped>>

\* The skill is written, or there is none, or the conversion failed.  An error
\* of the skill engine leaves before the clean-up.
ConvertEnds(c) ==
  /\ call[c].at = "converting"
  /\ call' = [call EXCEPT ![c] = Idle]
  /\ Cleanup(call[c].name, active) \/ UNCHANGED <<byName, active>>
  /\ UNCHANGED <<browser, taskVars, rec, overlapped>>

\* The task that runs asks for the recording to mark: the active one if it is
\* recording, or else one of those that are, which becomes the active one.
Look ==
  /\ worker # Nobody
  /\ ~(active # 0 /\ rec[active].recording)
  /\ \E n \in Names : IsRecording(n) /\ active' = byName[n]
  /\ UNCHANGED <<browser, taskVars, rec, byName, call, overlapped>>

-----------------------------------------------------------------------------
Init ==
  /\ browser = "none"
  /\ loop = FALSE
  /\ status = [t \in Tasks |-> "new"]
  /\ queue = <<>>
  /\ worker = Nobody
  /\ rec = <<>>
  /\ byName = [n \in Names |-> 0]
  /\ active = 0
  /\ call = [c \in Calls |-> Idle]
  /\ overlapped = {}

Next ==
  \/ UseBrowser
  \/ \E t \in Tasks : Submit(t)
  \/ Take
  \/ RunEnds
  \/ Look
  \/ \E r \in Recorders : Expire(r) \/ CaptureEnds(r)
  \/ \E c \in Calls :
       \/ \E n \in Names : StartBegins(c, n)
       \/ \E s \in Recorders : StopBegins(c, s)
       \/ StartEnds(c) \/ StartFails(c) \/ StopEnds(c) \/ ConvertEnds(c)

\* The worker goes on, and a run of the agent ends: its budgets bound it.
Spec == Init /\ [][Next]_vars /\ WF_vars(Take) /\ WF_vars(RunEnds)

-----------------------------------------------------------------------------
(* Properties.                                                             *)

\* Every variable has its type.
TypeOK ==
  /\ browser \in {"none", "unstarted", "started"}
  /\ loop \in BOOLEAN
  /\ status \in [Tasks -> {"new", "queued", "running", "completed", "failed"}]
  /\ queue \in Seq(Tasks)
  /\ worker \in Tasks \cup {Nobody}
  /\ rec \in Seq([name : Names, recording : BOOLEAN, capture : {"on", "cancelled", "off"}])
  /\ byName \in [Names -> 0..Len(rec)]
  /\ active \in 0..Len(rec)
  /\ call \in [Calls -> [at : {"idle", "starting", "stopping", "converting"},
                         name : Names, of : 0..Len(rec)]]
  /\ overlapped \in SUBSET Names

\* A recording that goes on can be stopped: its name leads to it, and so does
\* the name of the recording the agent marks.  The exception is a name on which
\* a start was at work beside another request: the check of start_recording
\* and its entry have an await between them, and so have stop and cleanup, and
\* then a recorder that nothing leads to records on until its time is over.
RecordingsCanBeStopped ==
  /\ \A r \in Recorders :
       rec[r].recording /\ rec[r].name \notin overlapped => byName[rec[r].name] = r
  /\ active # 0 => byName[rec[active].name] = active

\* A stop that is repeated while the first one waits finds nothing to stop: no
\* recording is converted for two requests, and none before its capture is over.
ConvertsWhatItStopped ==
  \A c \in Calls : call[c].at = "converting" =>
    /\ ~rec[call[c].of].recording
    /\ rec[call[c].of].capture = "off"
    /\ \A d \in Calls \ {c} : call[d].of # call[c].of

\* A task that was accepted is completed or failed, whatever became of the
\* tasks before it and of the browser: the one worker outlives every error.
TasksAreAnswered ==
  \A t \in Tasks : status[t] = "queued" ~> status[t] \in {"completed", "failed"}
=============================================================================
