----------------------------- MODULE RpcServer -----------------------------
(***************************************************************************)
(* The Unix-socket JSON-RPC server (rpc_server.py) and what its requests   *)
(* share: one AgentLoop with its callbacks and its cached DirectExecutor   *)
(* (agent/loop.py), and the process-wide InterruptSignal                   *)
(* (agent/interrupt.py) the tool loop checks (agent/tool_dispatch.py).     *)
(*                                                                         *)
(* Every connection has a coroutine that reads one line at a time and      *)
(* answers it, and, while an agent.run is being served, a second coroutine *)
(* (read_cancel) that reads the same stream.  Everything between two       *)
(* awaits that can suspend is one action.  Only the lines of a client and  *)
(* the end of its stream are external.                                     *)
(*                                                                         *)
(* A callback is the set of runs it notifies: the on_step that run r       *)
(* installs notifies r and whatever the one it replaces notifies.          *)
(***************************************************************************)
EXTENDS Integers, Sequences, FiniteSets

CONSTANTS
  Conns,      \* client connections
  Workloads,  \* what the clients may send: each a sequence of lines
  MaxSteps,   \* plan steps one run executes (bound of PlanLoop)
  MaxRounds   \* ToolLoop.max_rounds

\* "call" stands for every request that neither runs the agent nor touches the
\* state modelled here, one that fails included; "switch" is model.switch;
\* "junk" is not JSON; "array" is JSON, but not an object; "eof" is the end of
\* the stream, which stays to be read again.  A line is read at any time after
\* the one before it: that stands for its being sent at any time.
AllKinds == {"run", "cancel", "switch", "call", "junk", "array", "eof"}

ASSUME WorkloadsAssumption == Workloads \subseteq [Conns -> Seq(AllKinds)]
ASSUME LimitsAssumption ==
  /\ MaxSteps \in Nat
  /\ MaxRounds \in Nat \ {0}

VARIABLES
  inbox,      \* per connection: what the client sends and is not yet read
  serve,      \* per connection: what handle_connection does
  watch,      \* per connection: read_cancel is waiting for a line
  signal,     \* InterruptSignal is set
  current,    \* _agent_loop: an index of agents, 0 when None
  agents,     \* every AgentLoop created
  runs,       \* every agent.run started
  due,        \* history: runs a cancel was meant for
  astray,     \* history: runs some of whose tokens another client received
  mixed,      \* history: agents that served two runs at a time
  crossed     \* history: agents where a run ended before a later one

connVars == <<inbox, serve, watch>>
agentVars == <<signal, current, agents, runs, due, astray, mixed, crossed>>
vars == <<connVars, agentVars>>

Nobody == 0     \* no callback installed
NotMade == -1   \* no DirectExecutor yet

-----------------------------------------------------------------------------
(* Runs and agents.                                                        *)

Run == 1..Len(runs)

Active(a) == {r \in Run : runs[r].agent = a /\ runs[r].at # "answered"}

NewAgent == [onStep |-> {}, onStream |-> Nobody, captured |-> NotMade]

\* The agents a request finds: _get_agent_loop makes one if there is none.
Pool == IF current = 0 THEN Append(agents, NewAgent) ELSE agents
Chosen == IF current = 0 THEN Len(agents) + 1 ELSE current

\* What handle_agent_run keeps on its stack, and where agent.run stands.
NewRun(c) ==
  [conn |-> c, agent |-> Chosen, at |-> "plan", steps |-> 0, round |-> 0,
   oldStep |-> Pool[Chosen].onStep, oldStream |-> Pool[Chosen].onStream,
   interrupted |-> FALSE, cancelled |-> FALSE]

Agent(r) == agents[runs[r].agent]

-----------------------------------------------------------------------------
(* handle_connection: the main loop.                                       *)

Reads(c, k) == serve[c] = "reading" /\ inbox[c] # <<>> /\ Head(inbox[c]) = k

Consumed(c) == [inbox EXCEPT ![c] = Tail(inbox[c])]

\* An ordinary request, or a parse error: answered before the next line.
Answer(c) ==
  /\ Reads(c, "call") \/ Reads(c, "junk")
  /\ inbox' = Consumed(c)
  /\ UNCHANGED <<serve, watch, agentVars>>

\* A line that is not an object raises outside dispatch_request: the
\* connection is closed.
Break(c) ==
  /\ Reads(c, "array")
  /\ inbox' = Consumed(c)
  /\ serve' = [serve EXCEPT ![c] = "closed"]
  /\ UNCHANGED <<watch, agentVars>>

Close(c) ==
  /\ Reads(c, "eof")
  /\ serve' = [serve EXCEPT ![c] = "closed"]
  /\ UNCHANGED <<inbox, watch, agentVars>>

\* model.switch: the next run gets an agent of its own.
Switch(c) ==
  /\ Reads(c, "switch")
  /\ inbox' = Consumed(c)
  /\ current' = 0
  /\ UNCHANGED <<serve, watch, signal, agents, runs, due,
                 astray, mixed, crossed>>

IsActive(r) == runs[r].at # "answered"

\* The signal is one for all runs: every run that is active sees it.
Trigger ==
  /\ signal' = TRUE
  /\ due' = due \cup {r \in Run : IsActive(r)}
  /\ runs' = [r \in Run |-> [runs[r] EXCEPT !.cancelled = @ \/ IsActive(r)]]

\* agent.cancel on a connection that is not serving a run.
Cancel(c) ==
  /\ Reads(c, "cancel")
  /\ inbox' = Consumed(c)
  /\ Trigger
  /\ UNCHANGED <<serve, watch, current, agents, astray, mixed,
                 crossed>>

\* Mutant: the signal is left as the previous cancel left it.
ClearedNever == signal

\* InterruptSignal.clear, before agent.run is entered.
Cleared == FALSE

\* The on_step of run r calls the one it replaces; its on_streaming does not.
Installed(agent, r) ==
  [agent EXCEPT !.onStep = agent.onStep \cup {r}, !.onStream = r]

\* agent.run up to its first suspension: save and install the callbacks, clear
\* the signal, and leave read_cancel reading the rest of the stream.
StartRun(c) ==
  /\ Reads(c, "run")
  /\ inbox' = Consumed(c)
  /\ serve' = [serve EXCEPT ![c] = "running"]
  /\ watch' = [watch EXCEPT ![c] = TRUE]
  /\ runs' = Append(runs, NewRun(c))
  /\ agents' = [Pool EXCEPT ![Chosen] = Installed(Pool[Chosen], Len(runs) + 1)]
  /\ current' = Chosen
  /\ signal' = Cleared
  /\ due' = {}
  /\ mixed' = IF Active(Chosen) # {} THEN mixed \cup {Chosen} ELSE mixed
  /\ UNCHANGED <<astray, crossed>>

-----------------------------------------------------------------------------
(* read_cancel, while the run of connection c is active.                   *)

\* The first agent.cancel ends the task; what follows waits for the main loop.
WatchCancel(c) ==
  /\ watch[c] /\ inbox[c] # <<>> /\ Head(inbox[c]) = "cancel"
  /\ inbox' = Consumed(c)
  /\ watch' = [watch EXCEPT ![c] = FALSE]
  /\ Trigger
  /\ UNCHANGED <<serve, current, agents, astray, mixed, crossed>>

\* Any other line is read and dropped, a request like any other line.
WatchOther(c) ==
  /\ watch[c] /\ inbox[c] # <<>> /\ Head(inbox[c]) \notin {"cancel", "eof"}
  /\ inbox' = Consumed(c)
  /\ UNCHANGED <<serve, watch, agentVars>>

WatchEof(c) ==
  /\ watch[c] /\ inbox[c] # <<>> /\ Head(inbox[c]) = "eof"
  /\ watch' = [watch EXCEPT ![c] = FALSE]
  /\ UNCHANGED <<inbox, serve, agentVars>>

-----------------------------------------------------------------------------
(* agent.run, seen through its callbacks and the signal (see PlanLoop).    *)

Set(r, run) == [runs EXCEPT ![r] = run]

\* The tokens of run r go to the client of run "to", if there is a callback.
Streamed(r, to) ==
  astray' = IF to \in Run /\ runs[to].conn # runs[r].conn
            THEN astray \cup {r} ELSE astray

\* Planning and replies stream through the callback the agent has now.
StreamPlan(r) ==
  /\ runs[r].at = "plan"
  /\ Streamed(r, Agent(r).onStream)
  /\ UNCHANGED <<connVars, signal, current, agents, runs, due, mixed, crossed>>

Planned(r) ==
  /\ runs[r].at = "plan"
  /\ runs' = Set(r, [runs[r] EXCEPT !.at = "steps"])
  /\ UNCHANGED <<connVars, signal, current, agents, due, astray, mixed, crossed>>

\* The head of a tool loop round: AgentInterruptedError is an Exception like
\* any other to DirectExecutor, which falls back to the browser agent.
Enter(run) ==
  IF signal
  THEN [run EXCEPT !.at = "work", !.interrupted = TRUE]
  ELSE [run EXCEPT !.at = "call", !.round = @ + 1]

\* A direct step: the executor is made once per agent, with the streaming
\* callback the agent has at that moment.
DirectStep(r) ==
  /\ runs[r].at = "steps" /\ runs[r].steps < MaxSteps
  /\ agents' = IF Agent(r).captured = NotMade
               THEN [agents EXCEPT ![runs[r].agent] =
                       [@ EXCEPT !.captured = Agent(r).onStream]]
               ELSE agents
  /\ runs' = Set(r, Enter([runs[r] EXCEPT !.steps = @ + 1, !.round = 0]))
  /\ UNCHANGED <<connVars, signal, current, due, astray, mixed, crossed>>

\* A delegated step: subagent sessions do not look at the signal.
DelegatedStep(r) ==
  /\ runs[r].at = "steps" /\ runs[r].steps < MaxSteps
  /\ runs' = Set(r, [runs[r] EXCEPT !.at = "work", !.steps = @ + 1])
  /\ UNCHANGED <<connVars, signal, current, agents, due, astray, mixed, crossed>>

\* Mutant: the last round is counted one too late.
RoundsLeftPlusOne(run) == run.round <= MaxRounds

RoundsLeft(run) == run.round < MaxRounds

\* The model asked for tools: another round, unless rounds or budget are spent.
CallTools(r) ==
  /\ runs[r].at = "call"
  /\ Streamed(r, Agent(r).captured)
  /\ \/ RoundsLeft(runs[r]) /\ runs' = Set(r, Enter(runs[r]))
     \/ runs' = Set(r, [runs[r] EXCEPT !.at = "steps"])
  /\ UNCHANGED <<connVars, signal, current, agents, due, mixed, crossed>>

\* The model answered: the signal is checked once more.  An answer too short,
\* or a failed call, sends the step to the browser agent.
CallAnswers(r) ==
  /\ runs[r].at = "call"
  /\ Streamed(r, Agent(r).captured)
  /\ IF signal
     THEN runs' = Set(r, [runs[r] EXCEPT !.at = "work", !.interrupted = TRUE])
     ELSE \E next \in {"steps", "work"} :
            runs' = Set(r, [runs[r] EXCEPT !.at = next])
  /\ UNCHANGED <<connVars, signal, current, agents, due, mixed, crossed>>

\* Mutant: an interrupted step is tried again by the tool loop.
AfterWorkRetries(run) == IF run.interrupted THEN Enter(run) ELSE [run EXCEPT !.at = "steps"]

\* The browser agent or the subagent is done: neither looks at the signal.
AfterWork(run) == [run EXCEPT !.at = "steps"]

WorkDone(r) ==
  /\ runs[r].at = "work"
  /\ runs' = Set(r, AfterWork(runs[r]))
  /\ UNCHANGED <<connVars, signal, current, agents, due, astray, mixed, crossed>>

\* Mutant: the streaming callback is not restored.
RestoredStepOnly(r) == [Agent(r) EXCEPT !.onStep = runs[r].oldStep]

\* The finally clause of handle_agent_run.
Restored(r) ==
  [Agent(r) EXCEPT !.onStep = runs[r].oldStep, !.onStream = runs[r].oldStream]

\* Mutant: the signal is cleared when a run ends instead of when one begins.
AfterRunCleared == FALSE

AfterRun == signal

\* Mutant: the answer is written without cancelling read_cancel first.
WatchersKept(c) == watch

WatchersLeft(c) == [watch EXCEPT ![c] = FALSE]

\* agent.run returns or raises: restore the callbacks, end read_cancel, answer.
EndRun(r) ==
  /\ runs[r].at \in {"plan", "steps"}
  /\ runs' = Set(r, [runs[r] EXCEPT !.at = "answered", !.steps = 0, !.round = 0,
                                    !.oldStep = {}, !.oldStream = Nobody])
  /\ agents' = [agents EXCEPT ![runs[r].agent] = Restored(r)]
  /\ signal' = AfterRun
  /\ serve' = [serve EXCEPT ![runs[r].conn] = "reading"]
  /\ watch' = WatchersLeft(runs[r].conn)
  /\ due' = due \ {r}
  /\ crossed' = IF \E q \in Active(runs[r].agent) : q > r
                THEN crossed \cup {runs[r].agent} ELSE crossed
  /\ UNCHANGED <<inbox, current, astray, mixed>>

-----------------------------------------------------------------------------
Init ==
  /\ inbox \in Workloads
  /\ serve = [c \in Conns |-> "reading"]
  /\ watch = [c \in Conns |-> FALSE]
  /\ signal = FALSE /\ current = 0
  /\ agents = <<>> /\ runs = <<>>
  /\ due = {} /\ astray = {} /\ mixed = {} /\ crossed = {}

MainLoop(c) ==
  \/ Answer(c) \/ Break(c) \/ Close(c)
  \/ Switch(c) \/ Cancel(c) \/ StartRun(c)

Watcher(c) == WatchCancel(c) \/ WatchOther(c) \/ WatchEof(c)

Progress(r) ==
  \/ Planned(r) \/ DirectStep(r) \/ DelegatedStep(r)
  \/ CallTools(r) \/ CallAnswers(r) \/ WorkDone(r) \/ EndRun(r)

\* The server waits for clients that are gone, or have nothing to say.
Stopped ==
  /\ \A c \in Conns : serve[c] = "closed" \/ (serve[c] = "reading" /\ inbox[c] = <<>>)
  /\ UNCHANGED vars

Next ==
  \/ \E c \in Conns : MainLoop(c) \/ Watcher(c)
  \/ \E r \in Run : Progress(r) \/ StreamPlan(r)
  \/ Stopped


\* Every coroutine that can go on goes on: the LLM, the browser and the
\* subagents answer or raise.  Nothing is assumed of the clients.
Fairness ==
  /\ \A c \in Conns : WF_vars(MainLoop(c)) /\ WF_vars(Watcher(c))
  /\ \A c \in Conns : WF_vars(\E r \in Run : runs[r].conn = c /\ Progress(r))

Spec == Init /\ [][Next]_vars /\ Fairness

-----------------------------------------------------------------------------
(* Properties.                                                             *)

AgentType == [onStep : SUBSET Nat, onStream : Nat, captured : Nat \cup {NotMade}]

RunType ==
  [conn : Conns, agent : Nat, at : {"plan", "steps", "call", "work", "answered"},
   steps : 0..MaxSteps, round : 0..MaxRounds, oldStep : SUBSET Nat, oldStream : Nat,
   interrupted : BOOLEAN, cancelled : BOOLEAN]

\* Type correctness of the server's state: every agent and every run it names
\* exists.
TypeOK ==
  /\ inbox \in [Conns -> Seq(AllKinds)]
  /\ watch \in [Conns -> BOOLEAN]
  /\ serve \in [Conns -> {"reading", "running", "closed"}]
  /\ signal \in BOOLEAN
  /\ current \in 0..Len(agents)
  /\ agents \in Seq(AgentType)
  /\ runs \in Seq(RunType)
  /\ \A r \in Run : runs[r].agent \in 1..Len(agents)
  /\ due \subseteq Run
  /\ astray \subseteq Run
  /\ mixed \subseteq 1..Len(agents) /\ crossed \subseteq 1..Len(agents)

\* One coroutine reads a connection: read_cancel waits for a line only while
\* the main loop is in the one run it serves on it (asyncio forbids two
\* readers of a stream).
OneReader ==
  \A c \in Conns :
    /\ watch[c] => serve[c] = "running"
    /\ Cardinality({r \in Run : runs[r].conn = c /\ IsActive(r)})
         = IF serve[c] = "running" THEN 1 ELSE 0

\* Unless runs on an agent ended in another order than last-in first-out, its
\* callbacks notify exactly the runs that are active on it, the newest one
\* gets the tokens, and an idle agent notifies nobody.
CallbacksFollowRuns ==
  \A a \in 1..Len(agents) \ crossed :
    /\ agents[a].onStep = Active(a)
    /\ agents[a].onStream \in Active(a) \cup {Nobody}
    /\ \A r \in Active(a) : r <= agents[a].onStream

\* A run is interrupted only by a cancel that was read after it started: a
\* cancel that came too late for one run does not kill the next.
InterruptIsFresh == \A r \in Run : runs[r].interrupted => runs[r].cancelled

\* After a cancel no run it was meant for gets another round of its tool loop,
\* whoever else ends in between; only the start of another run lifts it.
CancelSticks ==
  [][\A r \in due : runs'[r].at = "call" => UNCHANGED <<runs[r].at, runs[r].round>>]_vars

\* A client that hangs up is let go, whatever its run and the others' do.
HangupCloses ==
  \A c \in Conns :
    inbox[c] # <<>> /\ inbox[c][Len(inbox[c])] = "eof" ~> serve[c] = "closed"

\* Nobody but the client that asked for a run receives its tokens, as long as
\* runs follow one another.
TokensReachTheirClient == \A r \in astray : runs[r].agent \in mixed

\* A run whose tool loop was interrupted is not answered like any other.
CancelledRunSaysSo == \A r \in Run : ~(runs[r].interrupted /\ runs[r].at = "answered")
=============================================================================
