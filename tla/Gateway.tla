------------------------------ MODULE Gateway ------------------------------
(***************************************************************************)
(* The messaging gateway: the listener of each platform                    *)
(* (integrations/<platform>/listener.py), the BaseAdapter it hands every   *)
(* message to (gateway/base.py) and the one GatewayRunner behind all the   *)
(* adapters (gateway/runner.py).                                           *)
(*                                                                         *)
(* A listener works in one of three ways.  "poll" (WeChat) fetches what    *)
(* comes after a cursor, keeps the cursor in a file and starts a task per  *)
(* message.  "ack" (Slack) is handed an envelope again until it confirms   *)
(* it, and remembers the messages it has seen.  "plain" (Discord) is       *)
(* handed a message once, and sends the answer it gets back once more.     *)
(*                                                                         *)
(* A delivery is one handling of a message, a coroutine of its own.  It    *)
(* can be suspended only while something is being sent, so everything from *)
(* one send to the next is one action.                                     *)
(***************************************************************************)
EXTENDS Integers, FiniteSets

CONSTANTS
  Platforms, Messages, Sessions,
  KindOf,          \* how the listener of a platform works
  PlatformOf,      \* the platform of a message
  Number,          \* its place in what the platform sends
  SessionOf,       \* MessageEvent.session_key
  CommandOf,       \* what the message asks for
  Allowed,         \* messages of senders on the whitelist
  Skipped,         \* messages of bots, edits, threads the bot has no part in
  Traffic,         \* what may be sent in one behaviour: sets of messages
  MaxFailures,     \* BaseAdapter._max_failures
  MaxDeliveries,   \* bound: deliveries of one message
  MaxHalts         \* bound: crashes and shutdowns

Kinds == {"poll", "ack", "plain"}

\* "stop" stands for /stop and /new, "approve" for /approve and /deny, "help"
\* for /help and /status; "text" is no command.
Commands == {"text", "stop", "reset", "approve", "help"}
Bypassing == {"stop", "approve"}

ASSUME GatewayAssumption ==
  /\ KindOf \in [Platforms -> Kinds]
  /\ PlatformOf \in [Messages -> Platforms]
  /\ SessionOf \in [Messages -> Sessions]
  /\ CommandOf \in [Messages -> Commands]
  /\ Number \in [Messages -> Nat \ {0}]
  /\ \A m, n \in Messages :
       /\ SessionOf[m] = SessionOf[n] => PlatformOf[m] = PlatformOf[n]
       /\ PlatformOf[m] = PlatformOf[n] /\ Number[m] = Number[n] => m = n
  /\ Traffic \subseteq SUBSET Messages
  /\ MaxFailures \in Nat \ {0}
  /\ MaxDeliveries \in Nat \ {0}
  /\ MaxHalts \in Nat

VARIABLES
  sent,       \* the messages the platforms send in this behaviour
  arrived,    \* those a platform has to hand out by now
  up,         \* the process is running
  wired,      \* platforms whose adapter is registered with the runner
  cursor,     \* WeChatListener._sync_buf: messages up to this number are fetched
  saved,      \* the cursor in the file, 0 when it cannot be read
  stage,      \* what each delivery is waiting for
  outcome,    \* what became of it
  active,     \* BaseAdapter._active_sessions of all the adapters
  running,    \* GatewayRunner._running_agents
  pending,    \* BaseAdapter._pending_messages: the deliveries queued
  failures,   \* BaseAdapter._failure_count
  tripped,    \* platforms whose circuit is open
  seen,       \* MessageDeduplicator._seen
  acked,      \* messages the listener has confirmed
  halts,      \* history: crashes and shutdowns so far
  forgot,     \* history: messages given a task though the cursor in the file had
              \* not passed them, or had been lost after
  missed      \* history: messages the cursor in the file had passed when the process
              \* died, before their tasks

adapterVars == <<active, running, pending, failures, tripped>>
listenerVars == <<cursor, saved, seen, acked, forgot, missed>>
processVars == <<sent, arrived, up, wired, halts>>
vars == <<processVars, listenerVars, adapterVars, stage, outcome>>

Deliveries == Messages \X (1..MaxDeliveries)
Platform(d) == PlatformOf[d[1]]
Session(d) == SessionOf[d[1]]
Kind(d) == KindOf[Platform(d)]

RunStages == {"processing", "result", "error"}
SendStages == RunStages \cup {"denied", "help", "busy", "echo", "acking"}
Stages == SendStages \cup {"none", "created", "done", "lost"}
Outcomes == {"none", "skipped", "duplicate", "dropped", "queued", "unhandled", "denied",
             "silent", "replied", "helped", "busy", "answered", "noticed", "raised"}

IsListening(p) == up /\ (p \in wired \/ KindOf[p] = "plain")
Begun(m) == {d \in Deliveries : d[1] = m /\ stage[d] # "none"}
Copies(m) == Cardinality(Begun(m))

-----------------------------------------------------------------------------
(* The end of a delivery.  A reply is what on_message returns: the plain   *)
(* listener sends it, the others ignore it.                                *)

AfterHandling(d, reply) ==
  IF Kind(d) = "ack" THEN "acking"
  ELSE IF Kind(d) = "plain" /\ reply THEN "echo"
  ELSE "done"

Goes(d, s) == stage' = [stage EXCEPT ![d] = s]

Ends(d, o, reply) ==
  /\ Goes(d, AfterHandling(d, reply))
  /\ outcome' = [outcome EXCEPT ![d] = o]

\* Mutant: a success takes one off the count instead of resetting it.
HandlerCountsDown(d) ==
  /\ failures' = [failures EXCEPT ![Platform(d)] = @ - 1]
  /\ UNCHANGED tripped

\* _dispatch_message when the handler returned, and when it raised.
HandlerReturned(d) ==
  /\ failures' = [failures EXCEPT ![Platform(d)] = 0]
  /\ UNCHANGED tripped

HandlerRaised(d) ==
  LET count == failures[Platform(d)] + 1
  IN  /\ failures' = [failures EXCEPT ![Platform(d)] = count]
      /\ tripped' = IF count >= MaxFailures THEN tripped \cup {Platform(d)} ELSE tripped

Returns(d, o, reply) == Ends(d, o, reply) /\ HandlerReturned(d)
Raises(d) == Ends(d, "raised", FALSE) /\ HandlerRaised(d)

Waits(d, s) ==
  /\ Goes(d, s)
  /\ UNCHANGED <<outcome, failures, tripped>>

\* Without a registered adapter nothing can be sent, and no agent runs.
RunnerKnows(d) == Platform(d) \in wired

-----------------------------------------------------------------------------
(* GatewayRunner._handle_message, up to its first send.                    *)

Unauthorized(d) ==
  /\ d[1] \notin Allowed
  /\ IF RunnerKnows(d) THEN Waits(d, "denied") ELSE Returns(d, "silent", FALSE)
  /\ UNCHANGED <<active, running>>

Command(d) ==
  /\ d[1] \in Allowed
  /\ CommandOf[d[1]] # "text"
  /\ IF ~RunnerKnows(d) \/ CommandOf[d[1]] = "approve" THEN Returns(d, "silent", FALSE)
     ELSE IF CommandOf[d[1]] = "help" THEN Waits(d, "help")
     ELSE Returns(d, "replied", TRUE)
  /\ UNCHANGED <<active, running>>

Busy(d) ==
  /\ d[1] \in Allowed
  /\ CommandOf[d[1]] = "text"
  /\ Session(d) \in running
  /\ IF RunnerKnows(d) THEN Waits(d, "busy") ELSE Returns(d, "silent", FALSE)
  /\ UNCHANGED <<active, running>>

RunAgent(d) ==
  /\ d[1] \in Allowed
  /\ CommandOf[d[1]] = "text"
  /\ Session(d) \notin running
  /\ IF RunnerKnows(d)
     THEN /\ Waits(d, "processing")
          /\ active' = active \cup {Session(d)}
          /\ running' = running \cup {Session(d)}
     ELSE Returns(d, "silent", FALSE) /\ UNCHANGED <<active, running>>

HandleMessage(d) == Unauthorized(d) \/ Command(d) \/ Busy(d) \/ RunAgent(d)

\* The handler is None on an adapter nobody registered.
Dispatch(d) ==
  /\ UNCHANGED pending
  /\ IF Platform(d) \in wired THEN HandleMessage(d)
     ELSE Ends(d, "unhandled", FALSE) /\ UNCHANGED <<active, running, failures, tripped>>

-----------------------------------------------------------------------------
(* BaseAdapter.on_message.                                                 *)

CircuitIsOpen(d) ==
  /\ Platform(d) \in tripped
  /\ Ends(d, "dropped", FALSE)
  /\ UNCHANGED adapterVars

Queue(d) ==
  /\ Platform(d) \notin tripped
  /\ Session(d) \in active
  /\ CommandOf[d[1]] \notin Bypassing
  /\ pending' = pending \cup {d}
  /\ Ends(d, "queued", FALSE)
  /\ UNCHANGED <<active, running, failures, tripped>>

Pass(d) ==
  /\ Platform(d) \notin tripped
  /\ Session(d) \in active => CommandOf[d[1]] \in Bypassing
  /\ Dispatch(d)

OnMessage(d) == CircuitIsOpen(d) \/ Queue(d) \/ Pass(d)

-----------------------------------------------------------------------------
(* What a listener does with a message before the adapter sees it.         *)

Ignore(d) ==
  /\ d[1] \in Skipped
  /\ Ends(d, "skipped", FALSE)
  /\ UNCHANGED <<adapterVars, seen>>

DropDuplicate(d) ==
  /\ d[1] \notin Skipped
  /\ Kind(d) = "ack" /\ d[1] \in seen
  /\ Ends(d, "duplicate", FALSE)
  /\ UNCHANGED <<adapterVars, seen>>

Forward(d) ==
  /\ d[1] \notin Skipped
  /\ Kind(d) = "ack" => d[1] \notin seen
  /\ seen' = IF Kind(d) = "ack" THEN seen \cup {d[1]} ELSE seen
  /\ OnMessage(d)

Begin(d) ==
  /\ stage[d] = "created"
  /\ Ignore(d) \/ DropDuplicate(d) \/ Forward(d)
  /\ UNCHANGED <<processVars, cursor, saved, acked, forgot, missed>>

-----------------------------------------------------------------------------
(* One send returns, or raises.                                            *)

Notified(d) ==       \* the notice was the whole handling
  \E s \in {"denied", "help", "busy"} :
    /\ stage[d] = s
    /\ \/ Returns(d, IF s = "help" THEN "helped" ELSE s, FALSE)
       \/ Raises(d)
    /\ UNCHANGED <<active, running, pending>>

Processing(d) ==     \* the queue is taken, and dropped
  /\ stage[d] = "processing"
  /\ \/ /\ pending' = {e \in pending : Session(e) # Session(d)}
        /\ Waits(d, "result")
     \/ Waits(d, "error") /\ UNCHANGED pending
  /\ UNCHANGED <<active, running>>

\* Mutant: the end of a run forgets the entry in _running_agents.
RunOverForAdapter(d) ==
  /\ active' = active \ {Session(d)}
  /\ UNCHANGED <<running, pending>>

RunOver(d) ==
  /\ active' = active \ {Session(d)}
  /\ running' = running \ {Session(d)}
  /\ UNCHANGED pending

Result(d) ==
  /\ stage[d] = "result"
  /\ \/ Returns(d, "answered", TRUE) /\ RunOver(d)
     \/ Waits(d, "error") /\ UNCHANGED <<active, running, pending>>

\* Mutant: a failing error notice leaves without the finally.
ErrorWithoutFinally(d) ==
  /\ stage[d] = "error"
  /\ \/ Returns(d, "noticed", FALSE) /\ RunOver(d)
     \/ Raises(d) /\ UNCHANGED <<active, running, pending>>

Error(d) ==
  /\ stage[d] = "error"
  /\ Returns(d, "noticed", FALSE) \/ Raises(d)
  /\ RunOver(d)

\* Sending the reply once more; a failure is logged.
Echo(d) ==
  /\ stage[d] = "echo"
  /\ Goes(d, "done")
  /\ UNCHANGED <<adapterVars, outcome>>

SendEnds(d) ==
  /\ Notified(d) \/ Processing(d) \/ Result(d) \/ Error(d) \/ Echo(d)
  /\ UNCHANGED <<processVars, listenerVars>>

\* The confirmation arrives, or it does not.
Acknowledge(d) ==
  /\ stage[d] = "acking"
  /\ Goes(d, "done")
  /\ acked' \in {acked, acked \cup {d[1]}}
  /\ UNCHANGED <<processVars, cursor, saved, seen, forgot, missed, adapterVars, outcome>>

-----------------------------------------------------------------------------
(* Platforms and listeners.                                                *)

NextCopy(m) == <<m, Copies(m) + 1>>     \* the next delivery of m

\* A platform hands out its messages in order.
Arrive(m) ==
  /\ m \in sent \ arrived
  /\ \A n \in sent \ arrived : PlatformOf[n] = PlatformOf[m] => Number[m] <= Number[n]
  /\ arrived' = arrived \cup {m}
  /\ UNCHANGED <<sent, up, wired, halts, listenerVars, adapterVars, stage, outcome>>

Beyond(p, c) == {m \in arrived : PlatformOf[m] = p /\ Number[m] > c}

Unfetched(p) == Beyond(p, cursor[p])

\* The one number that is the greatest of them, if there are any.
Newest(p) ==
  {n \in {Number[m] : m \in Unfetched(p)} : \A m \in Unfetched(p) : Number[m] <= n}

\* Mutant: the cursor is written before it is advanced.
SaveOldCursor(p, n) ==
  /\ saved' = [saved EXCEPT ![p] = cursor[p]]
  /\ forgot' = forgot

\* write_text truncates the file first, and an error is swallowed.
SaveCursor(p, n) ==
  \E kept \in {n, saved[p], 0} :
    /\ saved' = [saved EXCEPT ![p] = kept]
    /\ forgot' = forgot \cup Beyond(p, kept)

\* A response that brings a cursor: it is kept first.
Advance(p) ==
  \E n \in Newest(p) : cursor' = [cursor EXCEPT ![p] = n] /\ SaveCursor(p, n)

\* One that brings none: the next round asks for the same messages.
StandStill(p) ==
  /\ forgot' = forgot \cup Unfetched(p)
  /\ UNCHANGED <<cursor, saved>>

\* One round of _poll_loop that brings messages.  Whether it finds them at the
\* first try or after failures, waits and empty rounds changes nothing else.
Poll(p) ==
  /\ IsListening(p)
  /\ KindOf[p] = "poll"
  /\ Unfetched(p) # {}
  /\ \A m \in Unfetched(p) : Copies(m) < MaxDeliveries
  /\ Advance(p) \/ StandStill(p)
  /\ stage' = [d \in Deliveries |-> IF \E m \in Unfetched(p) : d = NextCopy(m)
                                    THEN "created" ELSE stage[d]]
  /\ UNCHANGED <<processVars, seen, acked, missed, adapterVars, outcome>>

\* Mutant: an envelope is confirmed before it is handled.
PushConfirmed(m) ==
  /\ m \in arrived
  /\ IsListening(PlatformOf[m])
  /\ KindOf[PlatformOf[m]] = "ack" /\ m \notin acked
  /\ Copies(m) < MaxDeliveries
  /\ Goes(NextCopy(m), "created")
  /\ acked' = acked \cup {m}
  /\ UNCHANGED <<processVars, cursor, saved, seen, forgot, missed, adapterVars, outcome>>

\* An envelope that is not confirmed comes again, also while it is at work.
Push(m) ==
  /\ m \in arrived
  /\ IsListening(PlatformOf[m])
  /\ \/ KindOf[PlatformOf[m]] = "ack" /\ m \notin acked
     \/ KindOf[PlatformOf[m]] = "plain" /\ Copies(m) = 0
  /\ Copies(m) < MaxDeliveries
  /\ Goes(NextCopy(m), "created")
  /\ UNCHANGED <<processVars, listenerVars, adapterVars, outcome>>

\* MessageDeduplicator forgets what is old or one too many.
Expire(m) ==
  /\ m \in seen
  /\ seen' = seen \ {m}
  /\ UNCHANGED <<processVars, cursor, saved, acked, forgot, missed, adapterVars, stage, outcome>>

\* The process starts.  Whether the adapters get a handler depends on who
\* registers them: see the README.
Start ==
  /\ ~up
  /\ up' = TRUE
  /\ wired' \in SUBSET Platforms
  /\ cursor' = saved
  /\ UNCHANGED <<sent, arrived, halts, saved, seen, acked, forgot, missed, adapterVars, stage,
                 outcome>>

\* All of a process is gone but the cursor file.
Die ==
  /\ up
  /\ halts < MaxHalts
  /\ halts' = halts + 1
  /\ up' = FALSE
  /\ wired' = {}
  /\ cursor' = [p \in Platforms |-> 0]
  /\ seen' = {}
  /\ active' = {} /\ running' = {} /\ pending' = {} /\ tripped' = {}
  /\ failures' = [p \in Platforms |-> 0]
  /\ stage' = [d \in Deliveries |->
                 IF stage[d] \in {"none", "done"} THEN stage[d] ELSE "lost"]
  /\ UNCHANGED <<sent, arrived, acked, outcome>>

\* The process dies, or shuts down without waiting for the messages at work, ...
Halt ==
  /\ Die
  /\ UNCHANGED <<saved, forgot, missed>>

\* ... or it dies in a round, when the cursor is written and no task is made.
HaltInPoll(p) ==
  /\ IsListening(p)
  /\ KindOf[p] = "poll"
  /\ \E n \in Newest(p) : SaveCursor(p, n)
  /\ missed' = missed \cup {m \in Unfetched(p) : Number[m] <= saved'[p]}
  /\ Die

Init ==
  /\ sent \in Traffic
  /\ arrived = {}
  /\ up = FALSE
  /\ wired = {}
  /\ cursor = [p \in Platforms |-> 0]
  /\ saved = [p \in Platforms |-> 0]
  /\ stage = [d \in Deliveries |-> "none"]
  /\ outcome = [d \in Deliveries |-> "none"]
  /\ active = {} /\ running = {} /\ pending = {} /\ tripped = {}
  /\ failures = [p \in Platforms |-> 0]
  /\ seen = {} /\ acked = {} /\ forgot = {} /\ missed = {}
  /\ halts = 0

Next ==
  \/ \E d \in Deliveries : Begin(d) \/ SendEnds(d) \/ Acknowledge(d)
  \/ \E m \in Messages : Arrive(m) \/ Push(m) \/ Expire(m)
  \/ \E p \in Platforms : Poll(p) \/ HaltInPoll(p)
  \/ Start
  \/ Halt

\* A coroutine goes on and a send ends, if only by its timeout; a listener
\* that runs fetches.  Nothing is assumed of what a platform sends, of starts,
\* or of how a send ends.
Fairness ==
  /\ \A d \in Deliveries : WF_vars(Begin(d) \/ SendEnds(d) \/ Acknowledge(d))
  /\ \A p \in Platforms : WF_vars(Poll(p))

Spec == Init /\ [][Next]_vars /\ Fairness

-----------------------------------------------------------------------------
(* Properties.                                                             *)

\* Every variable has its type.
TypeOK ==
  /\ sent \in SUBSET Messages /\ arrived \in SUBSET sent
  /\ up \in BOOLEAN
  /\ wired \in SUBSET Platforms
  /\ cursor \in [Platforms -> Nat] /\ saved \in [Platforms -> Nat]
  /\ stage \in [Deliveries -> Stages]
  /\ outcome \in [Deliveries -> Outcomes]
  /\ active \in SUBSET Sessions /\ running \in SUBSET Sessions
  /\ pending \in SUBSET Deliveries
  /\ failures \in [Platforms -> Nat]
  /\ tripped \in SUBSET Platforms
  /\ seen \in SUBSET Messages /\ acked \in SUBSET Messages
  /\ halts \in 0..MaxHalts
  /\ forgot \in SUBSET Messages /\ missed \in SUBSET Messages

AtWork(s) == {d \in Deliveries : Session(d) = s /\ stage[d] \in RunStages}

\* A session has at most one agent at work, and has one exactly while the
\* adapter calls it active and the runner holds it: the two sets
\* (base.py _active_sessions, runner.py _running_agents) are kept by different
\* classes and never apart, whatever a send does.
OneAgentPerSession ==
  /\ active = running
  /\ \A s \in Sessions :
       /\ \A d, e \in AtWork(s) : d = e
       /\ s \in active <=> AtWork(s) # {}

\* Over every crash and restart, each message that the cursor in the file of a
\* polled platform has passed was given a task, unless the process died between
\* the save of the cursor and the tasks of the very round that fetched it
\* (wechat/listener.py saves first).  And it was given one task only, unless the
\* response that brought it brought no cursor, or a cursor past it failed to
\* reach the file or was lost there: it stays one whatever happens about others.
FetchedOnce ==
  \A m \in arrived :
    KindOf[PlatformOf[m]] = "poll" =>
      /\ Number[m] <= saved[PlatformOf[m]] => Copies(m) > 0 \/ m \in missed
      /\ m \notin forgot => Copies(m) <= 1

\* A confirmed message was handled to its end, with one exception: a second
\* copy, dropped as a duplicate of one still at work, confirms for both
\* (slack/listener.py confirms duplicates too), and a crash then loses it.
ConfirmedWasHandled ==
  \A m \in acked :
    \/ \E d \in Begun(m) : outcome[d] \notin {"none", "duplicate"}
    \/ /\ \E d \in Begun(m) : outcome[d] = "duplicate"
       /\ \E d \in Begun(m) : outcome[d] = "none"

\* Nothing keeps a session busy: an agent that runs comes to its end, also when
\* the answer and the error notice both fail, and the session accepts again.
SessionsBecomeFree == \A s \in Sessions : s \in active ~> s \notin active
=============================================================================
