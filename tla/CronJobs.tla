------------------------------ MODULE CronJobs ------------------------------
(***************************************************************************)
(* The scheduled jobs of scheduler/cron.py: one JSON file per job in a     *)
(* directory that every process of the program reads and writes without a  *)
(* lock (the API and RPC servers and the cron daemon, each with a          *)
(* CronScheduler of its own, and the command line tools).                  *)
(*                                                                         *)
(* CronManager is synchronous, so the operations of one process never      *)
(* interleave; those of two processes do, between any two accesses to the  *)
(* directory.  A job is a number, its place in the sorted directory.       *)
(***************************************************************************)
EXTENDS Integers

CONSTANTS
  Jobs,         \* ids uuid4 may return
  Processes,    \* running programs
  Daemons,      \* those that live on and start a CronScheduler; the others
                \* are commands, whose lists change nothing
  MaxRuns,      \* bound: recorded runs of a job
  MaxChanges,   \* bound: updates of a job by the cronjob tool
  MaxCrashes,   \* bound: processes that die
  Absent,       \* there is no file
  Empty,        \* a file write_text has truncated and not yet filled
  Garbled,      \* two texts written over one another
  Unused,       \* an id that was not given out yet
  Cold          \* no list is cached

ASSUME JobsAssumption == Jobs \subseteq Nat
ASSUME DaemonsAssumption == Daemons \subseteq Processes
ASSUME BoundsAssumption == MaxRuns \in Nat /\ MaxChanges \in Nat /\ MaxCrashes \in Nat
ASSUME MarksAssumption ==
  /\ \A text \in [on : BOOLEAN, cron : {"good", "refused", "short"}, runs : 0..MaxRuns] :
       text \notin {Absent, Empty, Garbled, Unused}
  /\ Absent \notin {Empty, Garbled, Unused} /\ Unused \notin {Empty, Garbled}
  /\ Empty # Garbled
  /\ \A set \in SUBSET Jobs : Cold # set

VARIABLES
  file,      \* file[j]: the file of job j
  op,        \* op[p]: the operation p is in
  cache,     \* cache[p]: the jobs in _list_jobs_cache, or Cold
  serving,   \* the processes whose CronScheduler runs
  loaded,    \* loaded[p]: jobs added to p's AsyncIOScheduler
  active,    \* active[p]: jobs p is executing
  load,      \* load[p]: how p's last _load_jobs ended
  table,     \* history: what the files would be, were operations atomic
  clashed,   \* history: jobs two processes worked on at once, or a writer died on
  touched,   \* history: touched[p]: jobs whose file changed since p's load began
  gone,      \* history: gone[p]: jobs p removed
  changes,   \* how many updates were begun
  crashes    \* how many processes have died

scheduler == <<serving, loaded, active, load>>
history == <<table, clashed, touched, gone, changes, crashes>>
vars == <<file, op, cache, scheduler, history>>

\* The fields that matter: "enabled", what becomes of the "cron" text, and how
\* many results were recorded.  CronTrigger refuses some texts of five fields
\* (validate_cron_expr lets 99 99 * * * through); a text that is "short", not of
\* five fields, comes from the command line, which validates nothing.
Contents == [on : BOOLEAN, cron : {"good", "refused", "short"}, runs : 0..MaxRuns]
Unreadable == {Empty, Garbled}
Idle == [stage |-> "idle"]

Present(j) == file[j] # Absent
Readable(j) == file[j] \in Contents
Writers(j) == {p \in Processes : op[p].stage \in {"open", "fill", "lost"} /\ op[p].job = j}
Filling(j) == {p \in Processes : op[p].stage = "fill" /\ op[p].job = j}

\* Job j's file is changed: whoever loaded it earlier may be out of date.
Touch(j) == touched' = [p \in Daemons |-> touched[p] \cup {j}]

-----------------------------------------------------------------------------
(* list_jobs and CronScheduler.                                            *)

\* list_jobs globs the directory, then reads the files one after the other.
Glob(then) ==
  [stage |-> "read", then |-> then, files |-> {j \in Jobs : Present(j)},
   todo |-> {j \in Jobs : Present(j)}, tried |-> {}, misfits |-> {}]

\* Mutant: the jobs already scheduled are kept.
RemoveNoJobs(p) == loaded[p]

\* remove_all_jobs.
RemoveAllJobs(p) == {}

\* Mutant: a process without a scheduler is not sent back.
ReloadAlways(p) ==
  /\ op' = [op EXCEPT ![p] = Glob("load")]
  /\ UNCHANGED <<loaded, touched>>

\* reload(), when this process has a scheduler.
Reload(p) ==
  IF p \in serving
  THEN /\ op' = [op EXCEPT ![p] = Glob("load")]
       /\ loaded' = [loaded EXCEPT ![p] = RemoveAllJobs(p)]
       /\ touched' = [touched EXCEPT ![p] = {}]
  ELSE /\ op' = [op EXCEPT ![p] = Idle]
       /\ UNCHANGED <<loaded, touched>>

\* CronScheduler.start in a process that has none.
StartScheduler(p) ==
  /\ op[p] = Idle /\ p \in Daemons \ serving
  /\ op' = [op EXCEPT ![p] = Glob("load")]
  /\ cache' = [cache EXCEPT ![p] = Cold]
  /\ touched' = [touched EXCEPT ![p] = {}]
  /\ UNCHANGED <<file, scheduler, table, clashed, gone, changes, crashes>>

\* A list is served from a cache that is not older than _CACHE_TTL, or read.
List(p) ==
  /\ op[p] = Idle /\ p \in Daemons /\ cache[p] = Cold
  /\ op' = [op EXCEPT ![p] = Glob("show")]
  /\ UNCHANGED <<file, cache, scheduler, history>>

CacheExpires(p) ==
  /\ op[p] = Idle /\ p \in Daemons /\ cache[p] # Cold
  /\ cache' = [cache EXCEPT ![p] = Cold]
  /\ UNCHANGED <<file, op, scheduler, history>>

\* _load_jobs makes a trigger for an enabled job of five fields and passes over
\* the others; CronTrigger raises for a misfit.
Triggers(job) == job.on /\ job.cron # "short"
Misfit(job) == Triggers(job) /\ job.cron = "refused"

First(j, set) == j \in set /\ \A k \in set : j <= k

ReadNext(p) ==
  /\ op[p].stage = "read"
  /\ \E j \in op[p].todo :
       /\ First(j, op[p].todo) /\ Readable(j)
       /\ op' = [op EXCEPT ![p] = [op[p] EXCEPT
                 !.todo = op[p].todo \ {j},
                 !.tried = op[p].tried \cup {k \in {j} : Triggers(file[k])},
                 !.misfits = op[p].misfits \cup {k \in {j} : Misfit(file[k])}]]
  /\ UNCHANGED <<file, cache, scheduler, history>>

\* A file that is gone or cannot be parsed ends the whole list.  A scheduler
\* that was starting is abandoned; one that was reloading is left empty.
ReadRaises(p) ==
  /\ op[p].stage = "read"
  /\ \E j \in op[p].todo : First(j, op[p].todo) /\ ~Readable(j)
  /\ op' = [op EXCEPT ![p] = Idle]
  /\ load' = IF op[p].then = "load" THEN [load EXCEPT ![p] = "unreadable"] ELSE load
  /\ UNCHANGED <<file, cache, serving, loaded, active, history>>

\* The jobs added before CronTrigger refuses an expression.
Due(p) ==
  {j \in op[p].tried : \A k \in op[p].misfits : j < k}

ListRead(p) ==
  /\ op[p].stage = "read" /\ op[p].todo = {}
  /\ op' = [op EXCEPT ![p] = Idle]
  /\ cache' = [cache EXCEPT ![p] = op[p].files]
  /\ IF op[p].then = "show" THEN UNCHANGED scheduler
     ELSE /\ load' = [load EXCEPT ![p] = IF op[p].misfits = {} THEN "ok" ELSE "misfit"]
          /\ serving' = IF op[p].misfits = {} THEN serving \cup {p} ELSE serving
          /\ loaded' = [loaded EXCEPT ![p] =
                          IF p \in serving \/ op[p].misfits = {}
                          THEN loaded[p] \cup Due(p) ELSE {}]
          /\ UNCHANGED active
  /\ UNCHANGED <<file, history>>

-----------------------------------------------------------------------------
(* Operations that write a job's file with write_text: "open" has read what *)
(* it will overwrite and not yet opened the file, "fill" has truncated it, *)
(* "lost" has it open but another process unlinked it.                     *)

Begin(p, j, new, what, reload) ==
  /\ op' = [op EXCEPT ![p] = [stage |-> "open", job |-> j, new |-> new,
                              what |-> what, reload |-> reload]]
  /\ clashed' = IF Writers(j) # {} THEN clashed \cup {j} ELSE clashed

\* add_job.  The API server reloads afterwards; the command line, the agent's
\* tools, the fast path and the planner's schedules do not.  All but the command
\* line count the fields.
Create(p, j) ==
  /\ op[p] = Idle /\ table[j] = Unused /\ Writers(j) = {} /\ ~Present(j)
  /\ \E cron \in {"good", "refused", "short"}, reload \in BOOLEAN :
       /\ reload => cron # "short"
       /\ Begin(p, j, [on |-> TRUE, cron |-> cron, runs |-> 0], "create", reload)
  /\ UNCHANGED <<file, cache, scheduler, table, touched, gone, changes, crashes>>

\* The cronjob tool's "update": get_job, then write_text.  A new expression has
\* five fields, the old one may be anything.
Change(p, j) ==
  /\ op[p] = Idle /\ Readable(j)
  /\ changes < MaxChanges /\ changes' = changes + 1
  /\ \E on \in BOOLEAN, cron \in {"good", "refused", file[j].cron} :
       Begin(p, j, [on |-> on, cron |-> cron, runs |-> file[j].runs], "change", FALSE)
  /\ UNCHANGED <<file, cache, scheduler, table, touched, gone, crashes>>

Open(p) ==
  /\ op[p].stage = "open"
  /\ file' = [file EXCEPT ![op[p].job] = Empty]
  /\ op' = [op EXCEPT ![p] = [op[p] EXCEPT !.stage = "fill"]]
  /\ Touch(op[p].job)
  /\ UNCHANGED <<cache, scheduler, table, clashed, gone, changes, crashes>>

\* What the operation would have made of the job, had it been alone.
Intended(o) ==
  IF o.what = "create" THEN o.new
  ELSE IF table[o.job] \notin Contents THEN table[o.job]
  ELSE IF o.what = "change" THEN [o.new EXCEPT !.runs = table[o.job].runs]
  ELSE [table[o.job] EXCEPT !.runs = o.new.runs]

\* A second writer's text over a first one's leaves the tail of the longer.
Filled(p) ==
  IF file[op[p].job] = Empty THEN {op[p].new} ELSE {op[p].new, Garbled}

\* The list cache is dropped, except by the tool's "update".
CacheAfter(p) == IF op[p].what = "change" THEN cache[p] ELSE Cold

Fill(p) ==
  /\ op[p].stage \in {"fill", "lost"}
  /\ LET j == op[p].job IN
       /\ IF op[p].stage = "lost" THEN UNCHANGED file
          ELSE \E text \in Filled(p) : file' = [file EXCEPT ![j] = text]
       /\ table' = [table EXCEPT ![j] = Intended(op[p])]
       /\ cache' = [cache EXCEPT ![p] = CacheAfter(p)]
       /\ Touch(j)
  /\ op' = [op EXCEPT ![p] = IF op[p].reload THEN [stage |-> "reload"] ELSE Idle]
  /\ UNCHANGED <<scheduler, clashed, gone, changes, crashes>>

Reloads(p) ==
  /\ op[p].stage = "reload"
  /\ Reload(p)
  /\ cache' = IF p \in serving THEN [cache EXCEPT ![p] = Cold] ELSE cache
  /\ UNCHANGED <<file, serving, active, load, table, clashed, gone, changes, crashes>>

-----------------------------------------------------------------------------
(* remove_job and the execution of a job.                                  *)

CacheAfterRemoval(p) == Cold

\* A server reloads afterwards, whoever else calls it does not.
Remove(p, j) ==
  /\ op[p] = Idle /\ Present(j)
  /\ file' = [file EXCEPT ![j] = Absent]
  /\ clashed' = IF Writers(j) # {} THEN clashed \cup {j} ELSE clashed
  /\ \E reload \in BOOLEAN :
       op' = [q \in Processes |->
                IF q = p THEN (IF reload THEN [stage |-> "reload"] ELSE Idle)
                ELSE IF q \in Filling(j) THEN [op[q] EXCEPT !.stage = "lost"]
                ELSE op[q]]
  /\ cache' = [cache EXCEPT ![p] = CacheAfterRemoval(p)]
  /\ table' = [table EXCEPT ![j] = Absent]
  /\ gone' = [gone EXCEPT ![p] = gone[p] \cup {j}]
  /\ Touch(j)
  /\ UNCHANGED <<scheduler, changes, crashes>>

\* The RPC server reloads when there was nothing to remove, too.
RemoveMissing(p, j) ==
  /\ op[p] = Idle /\ ~Present(j)
  /\ op' = [op EXCEPT ![p] = [stage |-> "reload"]]
  /\ UNCHANGED <<file, cache, scheduler, history>>

\* The trigger fires; APScheduler runs one instance of a job at a time.
Fire(p, j) ==
  /\ op[p] = Idle /\ p \in serving /\ j \in loaded[p] \ active[p]
  /\ active' = [active EXCEPT ![p] = active[p] \cup {j}]
  /\ UNCHANGED <<file, op, cache, serving, loaded, load, history>>

EndRun(p, j) == active' = [active EXCEPT ![p] = active[p] \ {j}]

\* Mutant: recording a result switches the job back on.
RecordedOn(job) == [job EXCEPT !.runs = job.runs + 1, !.on = TRUE]

Recorded(job) == [job EXCEPT !.runs = job.runs + 1]

\* update_job_result, when get_job finds the job.
Record(p, j) ==
  /\ op[p] = Idle /\ p \in Daemons /\ j \in active[p]
  /\ Readable(j) /\ file[j].runs < MaxRuns
  /\ Begin(p, j, Recorded(file[j]), "record", FALSE)
  /\ EndRun(p, j)
  /\ UNCHANGED <<file, cache, serving, loaded, load, table, touched, gone, changes, crashes>>

\* The run raised, or its job is gone or unreadable: nothing is recorded.
EndUnrecorded(p, j) ==
  /\ op[p] = Idle /\ p \in Daemons /\ j \in active[p]
  /\ EndRun(p, j)
  /\ UNCHANGED <<file, op, cache, serving, loaded, load, history>>

\* The process ends, whatever it is doing; another may be started in its place.
Crash(p) ==
  /\ crashes < MaxCrashes
  /\ crashes' = crashes + 1
  /\ op' = [op EXCEPT ![p] = Idle]
  /\ cache' = [cache EXCEPT ![p] = Cold]
  /\ serving' = serving \ {p}
  /\ loaded' = [loaded EXCEPT ![p] = {}]
  /\ active' = [active EXCEPT ![p] = {}]
  /\ load' = [load EXCEPT ![p] = "none"]
  /\ clashed' = IF op[p].stage \in {"fill", "lost"} THEN clashed \cup {op[p].job} ELSE clashed
  /\ gone' = [gone EXCEPT ![p] = {}]
  /\ UNCHANGED <<file, table, touched, changes>>

-----------------------------------------------------------------------------
Init ==
  /\ file = [j \in Jobs |-> Absent]
  /\ op = [p \in Processes |-> Idle]
  /\ cache = [p \in Daemons |-> Cold]
  /\ serving = {}
  /\ loaded = [p \in Daemons |-> {}] /\ active = [p \in Daemons |-> {}]
  /\ load = [p \in Daemons |-> "none"]
  /\ table = [j \in Jobs |-> Unused] /\ clashed = {}
  /\ touched = [p \in Daemons |-> {}] /\ gone = [p \in Daemons |-> {}]
  /\ changes = 0 /\ crashes = 0

Next ==
  \E p \in Processes :
    \/ StartScheduler(p) \/ List(p) \/ CacheExpires(p)
    \/ ReadNext(p) \/ ReadRaises(p) \/ ListRead(p)
    \/ Open(p) \/ Fill(p) \/ Reloads(p) \/ Crash(p)
    \/ \E j \in Jobs : \/ Create(p, j) \/ Change(p, j) \/ Remove(p, j) \/ RemoveMissing(p, j)
                       \/ Fire(p, j) \/ Record(p, j) \/ EndUnrecorded(p, j)

Spec == Init /\ [][Next]_vars

-----------------------------------------------------------------------------
(* Properties.                                                             *)

Resting == [stage : {"idle", "reload"}]
Writing ==
  [stage : {"open", "fill", "lost"}, job : Jobs, new : Contents,
   what : {"create", "change", "record"}, reload : BOOLEAN]
Reading ==
  [stage : {"read"}, then : {"show", "load"}, files : SUBSET Jobs,
   todo : SUBSET Jobs, tried : SUBSET Jobs, misfits : SUBSET Jobs]

\* Type correctness; only daemons have schedulers and cached lists.
TypeOK ==
  /\ file \in [Jobs -> Contents \cup Unreadable \cup {Absent}]
  /\ op \in [Processes -> Resting \cup Writing \cup Reading]
  /\ \A p \in Processes : op[p].stage = "read" => p \in Daemons
  /\ cache \in [Daemons -> {Cold} \cup SUBSET Jobs]
  /\ serving \subseteq Daemons
  /\ loaded \in [Daemons -> SUBSET Jobs] /\ active \in [Daemons -> SUBSET Jobs]
  /\ load \in [Daemons -> {"none", "ok", "unreadable", "misfit"}]
  /\ table \in [Jobs -> Contents \cup {Absent, Unused}] /\ clashed \subseteq Jobs
  /\ touched \in [Daemons -> SUBSET Jobs] /\ gone \in [Daemons -> SUBSET Jobs]
  /\ changes \in 0..MaxChanges /\ crashes \in 0..MaxCrashes

\* Unless two processes work on the same job at once or one dies while writing
\* it, every file reads as if the operations had been atomic: none is torn, no
\* change or result is lost and no removed job comes back, although job runs
\* outlive the removal of their job.
TableIsSerial ==
  \A j \in Jobs \ clashed :
    Filling(j) = {} =>
      file[j] = IF table[j] = Unused THEN Absent ELSE table[j]

Loading(p) == op[p].stage = "read" /\ op[p].then = "load"
Settled(p) == p \in serving /\ ~Loading(p)

\* A job that a scheduler must run: enabled, with an expression that is accepted.
Runnable(job) == job.on /\ job.cron = "good"

\* A running scheduler agrees with every file nobody has changed since its last
\* load began: each of its jobs is there and runnable, whatever the others did
\* while it read the directory, and after a load that came to its end it has
\* every runnable job, whatever expressions it passed over.
SchedulerFollowsFiles ==
  \A p \in Daemons : Settled(p) =>
    \A j \in Jobs \ touched[p] :
      /\ j \in loaded[p] => Readable(j) /\ Runnable(file[j])
      /\ load[p] = "ok" /\ Readable(j) => (Runnable(file[j]) => j \in loaded[p])

\* A list never shows a job that the same process has removed, within the
\* lifetime of the cache or after, unless another process's write revived it.
ListForgetsRemoved ==
  \A p \in Daemons : cache[p] # Cold => cache[p] \cap gone[p] \subseteq clashed
=============================================================================
