------------------------------ MODULE Terminal ------------------------------
(***************************************************************************)
(* The terminal program (src/crates/sediman-tui): one main loop takes the  *)
(* events of its queue in turn, keys and what the coroutines of the tasks  *)
(* report alike.  An event does not say which task it is from: what it     *)
(* brings is put into the last message of the screen, if that is one of    *)
(* the agent.  All tasks share one interrupt flag.                         *)
(*                                                                         *)
(* A key is an action of its own, at any time: it is one that was pressed  *)
(* after the last event taken and before those now in the queue.           *)
(***************************************************************************)
EXTENDS Integers, Sequences, FiniteSets

CONSTANTS
  StepsCap,     \* AGENT_STEPS_CAP: steps a message shows at the most
  MaxTasks,     \* tasks the user starts (bound of the model)
  MaxLines      \* progress lines the server sends in all (bound of the model)

ASSUME TerminalAssumption == StepsCap \in Nat \ {0} /\ MaxTasks \in Nat /\ MaxLines \in Nat

VARIABLES
  running,      \* app.agent_running
  flag,         \* the shared interrupt flag
  queue,        \* events sent to the main loop: a task and what it reports
  tasks,        \* the tasks in the order they were started, each with its message
  last,         \* the task whose message is the last of the screen, or 0
  lines         \* progress lines the server has sent (counts to MaxLines)

terminalVars == <<running, flag, queue, tasks, last, lines>>

-----------------------------------------------------------------------------
(* A task: where its coroutine stands (at), what the stream has brought and *)
(* it has not taken (inbox), what it has still to report (out), the steps   *)
(* it reported (sent), how it ended; of its message, which tasks the steps  *)
(* it shows are from (shown; 0 for the terminal itself) and whose result it *)
(* has (result).  History: steps reported since the flag was set (late),    *)
(* whether another task was ever started while this one was alive, or this  *)
(* one while another was (beside), and whether that is so or it was         *)
(* interrupted or had a message put behind its own (disturbed).             *)

Task == DOMAIN tasks
NewTask(place, beside) ==
  [at |-> place, inbox |-> <<>>, out |-> <<>>, sent |-> 0, end |-> "none", shown |-> <<>>,
   result |-> 0, late |-> 0, beside |-> beside, disturbed |-> beside]

InQueue(t, kind) == {i \in DOMAIN queue : queue[i].task = t /\ queue[i].kind = kind}

\* Task t has something to report, or the main loop something of it to take.
Alive(t) == tasks[t].at # "over" \/ \E i \in DOMAIN queue : queue[i].task = t

Disturb(T, S) == [t \in DOMAIN T |-> IF t \in S THEN [T[t] EXCEPT !.disturbed = TRUE] ELSE T[t]]
AliveTasks == {t \in Task : Alive(t)}

TerminalInit ==
  /\ running = FALSE
  /\ flag = FALSE
  /\ queue = <<>>
  /\ tasks = <<>>
  /\ last = 0
  /\ lines = 0

-----------------------------------------------------------------------------
(* Keys.                                                                    *)

\* A step is put into the last message, which drops its oldest above the cap.
AppendStep(who) ==
  IF last = 0 THEN tasks
  ELSE LET steps == Append(tasks[last].shown, who)
           excess == IF Len(steps) > StepsCap THEN Len(steps) - StepsCap ELSE 0
       IN  [tasks EXCEPT ![last].shown = SubSeq(steps, excess + 1, Len(steps))]

\* A task is started: the interrupt flag is cleared for all.
Started(place) ==
  LET old == Disturb(tasks, AliveTasks)
  IN  Append([t \in DOMAIN old |-> [old[t] EXCEPT !.late = 0,
                                                  !.beside = old[t].beside \/ t \in AliveTasks]],
             NewTask(place, AliveTasks # {}))

Submit(place) ==
  /\ ~running
  /\ Len(tasks) < MaxTasks
  /\ tasks' = Started(place)
  /\ last' = Len(tasks) + 1
  /\ running' = TRUE
  /\ flag' = FALSE
  /\ UNCHANGED <<queue, lines>>

\* A task of the external coder: the main loop itself waits for the program,
\* writes the result and a line behind it.
SubmitCoder ==
  /\ ~running
  /\ Len(tasks) < MaxTasks
  /\ tasks' = [Started("over") EXCEPT ![Len(tasks) + 1].result = Len(tasks) + 1,
                                      ![Len(tasks) + 1].end = "result"]
  /\ last' = 0
  /\ flag' = FALSE
  /\ UNCHANGED <<running, queue, lines>>

\* Esc or Ctrl+C: the message says so.
Interrupt ==
  /\ running
  /\ running' = FALSE
  /\ flag' = TRUE
  /\ tasks' = Disturb(AppendStep(0), AliveTasks)
  /\ UNCHANGED <<queue, last, lines>>

\* /reset: the coroutine is not told.
Reset ==
  /\ running \/ last # 0
  /\ running' = FALSE
  /\ last' = 0
  /\ tasks' = Disturb(tasks, AliveTasks)
  /\ UNCHANGED <<flag, queue, lines>>

\* A line of the system: an input while the agent is busy, most commands, the
\* health check of the server.
Notice ==
  /\ last # 0
  /\ last' = 0
  /\ tasks' = Disturb(tasks, AliveTasks)
  /\ UNCHANGED <<running, flag, queue, lines>>

-----------------------------------------------------------------------------
(* The coroutines of task t: the reader of its stream, and the task itself. *)

\* How a stream ends: with a result, or broken - an error of the server, 120
\* seconds of silence, or closed without a result.
Final == {"success", "failure", "broken"}

\* Mutant: a stream that ends without a result is not reported.
EndingSilentIfBroken(end) ==
  CASE end = "success" -> <<"result", "output", "done">>
    [] end = "failure" -> <<"result", "done">>
    [] OTHER -> <<>>

\* Mutant: the closing line is reported before the result.
EndingOutputFirst(end) ==
  CASE end = "success" -> <<"output", "result", "done">>
    [] end = "failure" -> <<"result", "done">>
    [] OTHER -> <<"error", "done">>

\* What a task reports when it has ended so.
Ending(end) ==
  CASE end = "success" -> <<"result", "output", "done">>
    [] end = "failure" -> <<"result", "done">>
    [] OTHER -> <<"error", "done">>

\* Task t ends: its stream is dropped.
EndWith(t, end) ==
  tasks' = [tasks EXCEPT ![t].at = IF Ending(end) = <<>> THEN "over" ELSE "report",
                         ![t].inbox = <<>>,
                         ![t].out = Ending(end),
                         ![t].end = IF end \in {"success", "failure"} THEN "result" ELSE "error"]

\* A line of the server, or the end.
Reader(t) ==
  /\ tasks[t].at \in {"head", "select"}
  /\ \A i \in DOMAIN tasks[t].inbox : tasks[t].inbox[i] = "step"
  /\ \E msg \in {"step"} \cup Final :
       /\ msg = "step" => lines < MaxLines
       /\ lines' = IF msg = "step" THEN lines + 1 ELSE lines
       /\ tasks' = [tasks EXCEPT ![t].inbox = Append(tasks[t].inbox, msg)]
  /\ UNCHANGED <<running, flag, queue, last>>

Connect(t) ==
  /\ tasks[t].at = "connect"
  /\ \/ tasks' = [tasks EXCEPT ![t].at = "head"]
     \/ EndWith(t, "broken")
  /\ UNCHANGED <<running, flag, queue, last, lines>>

\* Mutant: only a silent stream looks at the flag.
LoopHeadUnchecked(t) ==
  /\ tasks[t].at = "head"
  /\ tasks' = [tasks EXCEPT ![t].at = "select"]
  /\ UNCHANGED <<running, flag, queue, last, lines>>

LoopHead(t) ==
  /\ tasks[t].at = "head"
  /\ IF flag THEN EndWith(t, "broken") ELSE tasks' = [tasks EXCEPT ![t].at = "select"]
  /\ UNCHANGED <<running, flag, queue, last, lines>>

ForwardStep(t) ==
  /\ tasks[t].at = "select"
  /\ tasks[t].inbox # <<>>
  /\ Head(tasks[t].inbox) = "step"
  /\ queue' = Append(queue, [task |-> t, kind |-> "step"])
  /\ tasks' = [tasks EXCEPT ![t].at = "head",
                            ![t].inbox = Tail(tasks[t].inbox),
                            ![t].sent = tasks[t].sent + 1,
                            ![t].late = IF flag THEN tasks[t].late + 1 ELSE tasks[t].late]
  /\ UNCHANGED <<running, flag, last, lines>>

TakeEnd(t) ==
  /\ tasks[t].at = "select"
  /\ tasks[t].inbox # <<>>
  /\ Head(tasks[t].inbox) \in Final
  /\ EndWith(t, Head(tasks[t].inbox))
  /\ UNCHANGED <<running, flag, queue, last, lines>>

\* 100 milliseconds without a message; with the flag down it only begins again.
Timeout(t) ==
  /\ tasks[t].at = "select"
  /\ flag
  /\ EndWith(t, "broken")
  /\ UNCHANGED <<running, flag, queue, last, lines>>

\* A skill is one call without an interrupt, and has no closing line.
SkillAnswers(t) ==
  /\ tasks[t].at = "call"
  /\ \E end \in {"failure", "broken"} : EndWith(t, end)
  /\ UNCHANGED <<running, flag, queue, last, lines>>

Report(t) ==
  /\ tasks[t].at = "report"
  /\ queue' = Append(queue, [task |-> t, kind |-> Head(tasks[t].out)])
  /\ tasks' = [tasks EXCEPT ![t].out = Tail(tasks[t].out),
                            ![t].at = IF Len(tasks[t].out) = 1 THEN "over" ELSE "report"]
  /\ UNCHANGED <<running, flag, last, lines>>

-----------------------------------------------------------------------------
(* The main loop takes the next event; e.task is not in it, and only tells  *)
(* what the message shows.                                                  *)

Take(kind) ==
  /\ queue # <<>>
  /\ Head(queue).kind = kind
  /\ queue' = Tail(queue)
  /\ UNCHANGED flag

TakeStep ==
  /\ Take("step")
  /\ tasks' = IF running THEN AppendStep(Head(queue).task) ELSE tasks
  /\ UNCHANGED <<running, last, lines>>

TakeResult ==
  /\ Take("result")
  /\ tasks' = IF last = 0 THEN tasks ELSE [tasks EXCEPT ![last].result = Head(queue).task]
  /\ running' = FALSE
  /\ UNCHANGED <<last, lines>>

TakeError ==
  /\ Take("error")
  /\ running' = FALSE
  /\ last' = 0
  /\ UNCHANGED <<tasks, lines>>

TakeOutput ==
  /\ Take("output")
  /\ last' = 0
  /\ UNCHANGED <<running, tasks, lines>>

TakeDone ==
  /\ Take("done")
  /\ running' = FALSE
  /\ UNCHANGED <<tasks, last, lines>>

HandleMessage == TakeStep \/ TakeResult \/ TakeError \/ TakeOutput \/ TakeDone

Coroutine(t) ==
  /\ t \in Task
  /\ \/ Connect(t) \/ LoopHead(t) \/ ForwardStep(t) \/ TakeEnd(t) \/ Timeout(t)
     \/ SkillAnswers(t) \/ Report(t)

Key ==
  \/ Submit("connect") \/ Submit("call") \/ SubmitCoder
  \/ Interrupt \/ Reset \/ Notice

TerminalNext == HandleMessage \/ Key \/ \E t \in Task : Coroutine(t) \/ Reader(t)

\* The main loop takes what is in its queue and coroutines go on.  A reader
\* hears from the server, which ends every run, or gives up after 120 seconds.
TerminalFairness ==
  /\ WF_terminalVars(HandleMessage)
  /\ \A t \in 1..MaxTasks : WF_terminalVars(Coroutine(t)) /\ WF_terminalVars(t \in Task /\ Reader(t))

TerminalSpec == TerminalInit /\ [][TerminalNext]_terminalVars /\ TerminalFairness

-----------------------------------------------------------------------------
(* Properties.                                                              *)

Least(a, b) == IF a < b THEN a ELSE b

\* Whatever was interrupted, reset or put behind it, the message of a task that
\* was never alive beside another shows steps and a result of no other.  If the
\* task was left alone besides, it shows as many of the steps the task reported
\* as the cap allows, and its result once it is done; and the terminal is busy
\* until it is told of the end (append_step, complete_agent_message, the order
\* in which handle_task sends its events).
MessagesAreExact ==
  \A t \in Task :
    LET x == tasks[t] IN
    /\ ~x.beside => /\ \A i \in DOMAIN x.shown : x.shown[i] \in {0, t}
                    /\ x.result \in {0, t}
    /\ ~x.disturbed =>
         /\ \A i \in DOMAIN x.shown : x.shown[i] = t
         /\ Len(x.shown) = Least(x.sent - Cardinality(InQueue(t, "step")), StepsCap)
         /\ ~Alive(t) => (x.result = t <=> x.end = "result")
         /\ x.end = "none" => running

\* However much the stream of a task has brought, an interrupted task reports
\* one more step at the most, unless the start of another task cleared the flag
\* (the loop of run_agent_task_inner).
InterruptIsHeard == \A t \in Task : tasks[t].late <= 1

\* The terminal does not stay busy for ever, whatever events of earlier tasks
\* are still under way (handle_message).
SpinnerStops == running ~> ~running
=============================================================================
