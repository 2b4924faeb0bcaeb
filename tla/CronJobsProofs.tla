--------------------------- MODULE CronJobsProofs ---------------------------
(***************************************************************************)
(* What TLAPS proves about CronJobs, for any sets of jobs, processes and   *)
(* daemons and any bounds.                                                 *)
(*                                                                         *)
(* The invariant says, for a job nobody clashed on, that its one writer    *)
(* still finds what it started from (Serial); for a daemon, that what its  *)
(* load has read so far agrees with the files (Follows) and that neither a *)
(* list nor a read in progress holds a job it removed (Forgets).           *)
(***************************************************************************)
EXTENDS CronJobs, TLAPS

\* What a file would read were its operations atomic.
Tabled(j) == IF table[j] = Unused THEN Absent ELSE table[j]

\* The one writer of a job nobody clashed on will write what it was meant to,
\* and found what it started from still there.
Sound(p, j) ==
  /\ op[p].stage # "lost"
  /\ op[p].stage = "fill" => file[j] = Empty
  /\ op[p].what = "create" => table[j] = Unused
  /\ op[p].what # "create" => table[j] \in Contents
  /\ op[p].new = Intended(op[p])

Serial(j) ==
  /\ \A p, q \in Writers(j) : p = q
  /\ \A p \in Writers(j) : Sound(p, j)
  /\ Filling(j) = {} => file[j] = Tabled(j)

Serials == \A j \in Jobs \ clashed : Serial(j)

\* What a load has read so far, of the files nobody has changed since.
LoadFollows(p) ==
  /\ loaded[p] = {}
  /\ \A j \in Jobs \ touched[p] :
       /\ j \in op[p].tried \ op[p].misfits => Readable(j) /\ Runnable(file[j])
       /\ Readable(j) /\ j \notin op[p].todo => (Runnable(file[j]) => j \in op[p].tried)

LoadedFollows(p) ==
  \A j \in Jobs \ touched[p] :
    /\ j \in loaded[p] => Readable(j) /\ Runnable(file[j])
    /\ load[p] = "ok" /\ Readable(j) => (Runnable(file[j]) => j \in loaded[p])

Follows(p) ==
  /\ p \notin serving => loaded[p] = {}
  /\ Loading(p) => LoadFollows(p)
  /\ Settled(p) => LoadedFollows(p)

Removed(p) == \A j \in gone[p] \ clashed : table[j] = Absent

Forgets(p) ==
  /\ Removed(p)
  /\ op[p].stage = "read" => op[p].files \cap gone[p] \subseteq clashed
  /\ cache[p] # Cold => cache[p] \cap gone[p] \subseteq clashed

IInv == TypeOK /\ Serials /\ \A p \in Daemons : Follows(p) /\ Forgets(p)

-----------------------------------------------------------------------------
(* Types.                                                                  *)

Ops == Resting \cup Writing \cup Reading

Typed(o) ==
  /\ o \in [Processes -> Ops]
  /\ \A p \in Processes : o[p].stage = "read" => p \in Daemons

LEMMA OpKinds ==
  ASSUME NEW o \in Ops
  PROVE  /\ o.stage = "read" => o \in Reading
         /\ o.stage \in {"open", "fill", "lost"} => o \in Writing
         /\ o.stage \in {"idle", "reload"} => o \in Resting
BY DEF Ops, Resting, Writing, Reading

LEMMA ReadRecord ==
  ASSUME NEW o \in Reading
  PROVE  /\ o.files \in SUBSET Jobs /\ o.todo \in SUBSET Jobs
         /\ o.tried \in SUBSET Jobs /\ o.misfits \in SUBSET Jobs
         /\ o.stage = "read" /\ o.then \in {"show", "load"}
BY DEF Reading

LEMMA WriteRecord ==
  ASSUME NEW o \in Writing
  PROVE  /\ o.job \in Jobs /\ o.new \in Contents /\ o.reload \in BOOLEAN
         /\ o.what \in {"create", "change", "record"}
         /\ o.stage \in {"open", "fill", "lost"}
BY DEF Writing

\* Reading or writing on does not change what kind of operation it is.
LEMMA MoreRead ==
  ASSUME NEW o \in Reading, NEW t \in SUBSET Jobs, NEW s \in SUBSET Jobs, NEW m \in SUBSET Jobs
  PROVE  LET n == [o EXCEPT !.todo = t, !.tried = s, !.misfits = m]
         IN  /\ n \in Reading /\ n.todo = t /\ n.tried = s /\ n.misfits = m
             /\ n.files = o.files /\ n.stage = "read" /\ n.then = o.then
BY DEF Reading

LEMMA NextStage ==
  ASSUME NEW o \in Writing, NEW s \in {"open", "fill", "lost"}
  PROVE  LET n == [o EXCEPT !.stage = s]
         IN  /\ n \in Writing /\ n.stage = s /\ n.job = o.job /\ n.new = o.new
             /\ n.what = o.what /\ n.reload = o.reload
BY DEF Writing

LEMMA GlobRead ==
  ASSUME NEW then \in {"show", "load"}
  PROVE  Glob(then) \in Reading
BY DEF Glob, Reading

LEMMA Rests ==
  /\ Idle \in Resting /\ [stage |-> "reload"] \in Resting
  /\ Idle.stage = "idle" /\ [stage |-> "reload"].stage = "reload"
BY DEF Idle, Resting

LEMMA BeginWrites ==
  ASSUME NEW j \in Jobs, NEW new \in Contents, NEW reload \in BOOLEAN,
         NEW what \in {"create", "change", "record"}
  PROVE  LET o == [stage |-> "open", job |-> j, new |-> new, what |-> what, reload |-> reload]
         IN  o \in Writing /\ o.stage = "open"
BY DEF Writing

LEMMA Marks ==
  /\ \A text \in Contents : text \notin {Absent, Empty, Garbled, Unused}
  /\ Absent \notin {Empty, Garbled, Unused} /\ Unused \notin {Empty, Garbled}
  /\ Empty # Garbled
  /\ \A set \in SUBSET Jobs : Cold # set
BY MarksAssumption DEF Contents

LEMMA RunsRecorded ==
  ASSUME NEW text \in Contents, text.runs < MaxRuns
  PROVE  Recorded(text) \in Contents
BY BoundsAssumption DEF Contents, Recorded

LEMMA IntendedContents ==
  ASSUME NEW o \in Writing, table \in [Jobs -> Contents \cup {Absent, Unused}]
  PROVE  Intended(o) \in Contents \cup {Absent, Unused}
<1>1. CASE o.what = "create"
  BY <1>1 DEF Intended, Writing
<1>2. CASE o.what # "create" /\ table[o.job] \notin Contents
  BY <1>2 DEF Intended, Writing
<1>3. CASE o.what # "create" /\ table[o.job] \in Contents
  BY <1>3 DEF Intended, Writing, Contents
<1>. QED  BY <1>1, <1>2, <1>3

LEMMA InitType == Init => TypeOK
BY Rests, BoundsAssumption DEF Init, TypeOK, Idle, Ops

LEMMA OpsType ==
  ASSUME TypeOK
  PROVE  Typed(op)
BY DEF TypeOK, Ops, Typed

\* A step that puts p in operation o keeps the type of op.
LEMMA OpSet ==
  ASSUME TypeOK, NEW p \in Processes, NEW o \in Ops, o.stage = "read" => p \in Daemons
  PROVE  Typed([op EXCEPT ![p] = o])
BY OpsType DEF Typed

LEMMA TypeBegin ==
  ASSUME TypeOK, NEW p \in Processes, NEW j \in Jobs, NEW new \in Contents,
         NEW what \in {"create", "change", "record"}, NEW reload \in BOOLEAN,
         Begin(p, j, new, what, reload)
  PROVE  Typed(op') /\ clashed' \subseteq Jobs
<1>1. LET o == [stage |-> "open", job |-> j, new |-> new, what |-> what, reload |-> reload]
      IN  o \in Ops /\ o.stage = "open"
  BY BeginWrites DEF Ops
<1>2. Typed(op')
  BY <1>1, OpSet DEF Begin
<1>3. clashed' \subseteq Jobs
  BY DEF Begin, TypeOK
<1>. QED  BY <1>2, <1>3

LEMMA TypeTouch ==
  ASSUME TypeOK, NEW j \in Jobs, Touch(j)
  PROVE  touched' \in [Daemons -> SUBSET Jobs]
BY DEF TypeOK, Touch

LEMMA TypeStep == TypeOK /\ [Next]_vars => TypeOK'
<1>. SUFFICES ASSUME TypeOK, Next PROVE TypeOK'
  BY DEF TypeOK, vars, scheduler, history
<1>. USE OpsType
<1>1. ASSUME NEW p \in Processes, StartScheduler(p) PROVE TypeOK'
  <2>1. Glob("load") \in Ops
    BY GlobRead DEF Ops
  <2>2. Typed(op')
    BY <1>1, <2>1, OpSet DEF StartScheduler
  <2>. QED  BY <1>1, <2>2 DEF StartScheduler, TypeOK, scheduler, Ops, Typed
<1>2. ASSUME NEW p \in Processes, List(p) PROVE TypeOK'
  <2>1. Glob("show") \in Ops
    BY GlobRead DEF Ops
  <2>2. Typed(op')
    BY <1>2, <2>1, OpSet DEF List
  <2>. QED  BY <1>2, <2>2 DEF List, TypeOK, scheduler, history, Ops, Typed
<1>3. ASSUME NEW p \in Processes, CacheExpires(p) PROVE TypeOK'
  BY <1>3 DEF CacheExpires, TypeOK, scheduler, history
<1>4. ASSUME NEW p \in Processes, ReadNext(p) PROVE TypeOK'
  <2>1. op[p] \in Reading
    BY <1>4, OpKinds DEF ReadNext, Typed
  <2>2. PICK j \in op[p].todo :
          op' = [op EXCEPT ![p] = [op[p] EXCEPT
                 !.todo = op[p].todo \ {j},
                 !.tried = op[p].tried \cup {k \in {j} : Triggers(file[k])},
                 !.misfits = op[p].misfits \cup {k \in {j} : Misfit(file[k])}]]
    BY <1>4 DEF ReadNext
  <2>3. [op[p] EXCEPT
          !.todo = op[p].todo \ {j},
          !.tried = op[p].tried \cup {k \in {j} : Triggers(file[k])},
          !.misfits = op[p].misfits \cup {k \in {j} : Misfit(file[k])}] \in Reading
    <3>1. /\ op[p].todo \ {j} \in SUBSET Jobs
          /\ op[p].tried \cup {k \in {j} : Triggers(file[k])} \in SUBSET Jobs
          /\ op[p].misfits \cup {k \in {j} : Misfit(file[k])} \in SUBSET Jobs
      BY <2>1, ReadRecord
    <3>. QED  BY <2>1, <3>1, MoreRead
  <2>4. Typed(op')
    <3>1. p \in Daemons
      BY <1>4 DEF ReadNext, TypeOK
    <3>. QED  BY <2>2, <2>3, <3>1, OpSet DEF Ops
  <2>. QED  BY <1>4, <2>4 DEF ReadNext, TypeOK, scheduler, history, Ops, Typed
<1>5. ASSUME NEW p \in Processes, ReadRaises(p) PROVE TypeOK'
  <2>1. Typed(op')
    BY <1>5, Rests, OpSet DEF ReadRaises, Ops
  <2>. QED  BY <1>5, <2>1 DEF ReadRaises, TypeOK, history, Ops, Typed
<1>6. ASSUME NEW p \in Processes, ListRead(p) PROVE TypeOK'
  <2>1. op[p] \in Reading
    BY <1>6, OpKinds DEF ListRead, Typed
  <2>2. op[p].files \in SUBSET Jobs /\ Due(p) \in SUBSET Jobs
    BY <2>1, ReadRecord DEF Due
  <2>3. Typed(op')
    BY <1>6, Rests, OpSet DEF ListRead, Ops
  <2>4. cache' \in [Daemons -> {Cold} \cup SUBSET Jobs]
    BY <1>6, <2>2 DEF ListRead, TypeOK
  <2>5. /\ load' \in [Daemons -> {"none", "ok", "unreadable", "misfit"}]
        /\ loaded' \in [Daemons -> SUBSET Jobs]
        /\ active' \in [Daemons -> SUBSET Jobs]
    BY <1>6, <2>2 DEF ListRead, TypeOK, scheduler
  <2>6. serving' \subseteq Daemons
    <3>1. CASE op[p].then = "show"
      BY <1>6, <3>1 DEF ListRead, TypeOK, scheduler
    <3>2. CASE op[p].then # "show"
      <4>1. p \in Daemons
        BY <1>6 DEF ListRead, TypeOK
      <4>. QED  BY <1>6, <3>2, <4>1 DEF ListRead, TypeOK
    <3>. QED  BY <3>1, <3>2
  <2>. QED  BY <1>6, <2>3, <2>4, <2>5, <2>6 DEF ListRead, TypeOK, history, Ops, Typed
<1>7. ASSUME NEW p \in Processes, Open(p) PROVE TypeOK'
  <2>1. op[p] \in Writing
    BY <1>7, OpKinds DEF Open, Typed
  <2>2. Typed(op')
    BY <1>7, <2>1, NextStage, OpSet DEF Open, Ops
  <2>3. touched' \in [Daemons -> SUBSET Jobs]
    BY <1>7, <2>1, WriteRecord, TypeTouch DEF Open
  <2>4. file' \in [Jobs -> Contents \cup Unreadable \cup {Absent}]
    BY <1>7 DEF Open, TypeOK, Unreadable
  <2>. QED  BY <1>7, <2>2, <2>3, <2>4 DEF Open, TypeOK, scheduler, Ops, Typed
<1>8. ASSUME NEW p \in Processes, Fill(p) PROVE TypeOK'
  <2>1. op[p] \in Writing
    BY <1>8, OpKinds DEF Fill, Typed
  <2>2. op[p].job \in Jobs /\ op[p].new \in Contents
    BY <2>1, WriteRecord
  <2>3. Typed(op')
    BY <1>8, Rests, OpSet DEF Fill, Ops
  <2>4. file' \in [Jobs -> Contents \cup Unreadable \cup {Absent}]
    BY <1>8, <2>2 DEF Fill, Filled, TypeOK, Unreadable
  <2>5. Intended(op[p]) \in Contents \cup {Absent, Unused}
    BY <2>1, IntendedContents DEF TypeOK
  <2>6. table' \in [Jobs -> Contents \cup {Absent, Unused}]
    BY <1>8, <2>5 DEF Fill, TypeOK
  <2>7. cache' \in [Daemons -> {Cold} \cup SUBSET Jobs]
    BY <1>8 DEF Fill, CacheAfter, TypeOK
  <2>8. touched' \in [Daemons -> SUBSET Jobs]
    BY <1>8, <2>2, TypeTouch DEF Fill
  <2>. QED  BY <1>8, <2>3, <2>4, <2>6, <2>7, <2>8 DEF Fill, TypeOK, scheduler, Ops, Typed
<1>9. ASSUME NEW p \in Processes, Reloads(p) PROVE TypeOK'
  <2>1. Glob("load") \in Ops
    BY GlobRead DEF Ops
  <2>2. Typed(op')
    BY <1>9, <2>1, Rests, OpSet DEF Reloads, Reload, Ops, TypeOK
  <2>3. /\ loaded' \in [Daemons -> SUBSET Jobs] /\ touched' \in [Daemons -> SUBSET Jobs]
        /\ cache' \in [Daemons -> {Cold} \cup SUBSET Jobs]
    BY <1>9 DEF Reloads, Reload, RemoveAllJobs, TypeOK
  <2>. QED  BY <1>9, <2>2, <2>3 DEF Reloads, TypeOK, Ops, Typed
<1>10. ASSUME NEW p \in Processes, Crash(p) PROVE TypeOK'
  <2>1. Typed(op')
    BY <1>10, Rests, OpSet DEF Crash, Ops
  <2>2. clashed' \subseteq Jobs
    BY <1>10, OpKinds, WriteRecord DEF Crash, TypeOK, Typed
  <2>3. crashes' \in 0..MaxCrashes
    BY <1>10, BoundsAssumption DEF Crash, TypeOK
  <2>. QED  BY <1>10, <2>1, <2>2, <2>3 DEF Crash, TypeOK, Ops, Typed
<1>11. ASSUME NEW p \in Processes, NEW j \in Jobs, Create(p, j) PROVE TypeOK'
  <2>1. PICK cron \in {"good", "refused", "short"}, reload \in BOOLEAN :
          Begin(p, j, [on |-> TRUE, cron |-> cron, runs |-> 0], "create", reload)
    BY <1>11 DEF Create
  <2>2. [on |-> TRUE, cron |-> cron, runs |-> 0] \in Contents
    BY BoundsAssumption DEF Contents
  <2>3. Typed(op') /\ clashed' \subseteq Jobs
    BY <2>1, <2>2, TypeBegin
  <2>. QED  BY <1>11, <2>3 DEF Create, TypeOK, scheduler, Ops, Typed
<1>12. ASSUME NEW p \in Processes, NEW j \in Jobs, Change(p, j) PROVE TypeOK'
  <2>1. PICK on \in BOOLEAN, cron \in {"good", "refused", file[j].cron} :
          Begin(p, j, [on |-> on, cron |-> cron, runs |-> file[j].runs], "change", FALSE)
    BY <1>12 DEF Change
  <2>2. [on |-> on, cron |-> cron, runs |-> file[j].runs] \in Contents
    BY <1>12 DEF Change, Readable, Contents
  <2>3. Typed(op') /\ clashed' \subseteq Jobs
    BY <2>1, <2>2, TypeBegin
  <2>4. changes' \in 0..MaxChanges
    BY <1>12, BoundsAssumption DEF Change, TypeOK
  <2>. QED  BY <1>12, <2>3, <2>4 DEF Change, TypeOK, scheduler, Ops, Typed
<1>13. ASSUME NEW p \in Processes, NEW j \in Jobs, Remove(p, j) PROVE TypeOK'
  <2>1. ASSUME NEW q \in Processes, q \in Filling(j)
        PROVE  LET o == [op[q] EXCEPT !.stage = "lost"] IN o \in Ops /\ o.stage = "lost"
    <3>1. op[q] \in Writing
      BY <2>1, OpKinds DEF Filling, Typed
    <3>. QED  BY <3>1, NextStage DEF Ops
  <2>2. Typed(op')
    BY <1>13, <2>1, Rests DEF Remove, Ops, Typed
  <2>3. touched' \in [Daemons -> SUBSET Jobs]
    BY <1>13, TypeTouch DEF Remove
  <2>4. /\ file' \in [Jobs -> Contents \cup Unreadable \cup {Absent}]
        /\ table' \in [Jobs -> Contents \cup {Absent, Unused}]
    BY <1>13 DEF Remove, TypeOK
  <2>5. /\ cache' \in [Daemons -> {Cold} \cup SUBSET Jobs]
        /\ gone' \in [Daemons -> SUBSET Jobs] /\ clashed' \subseteq Jobs
    BY <1>13 DEF Remove, CacheAfterRemoval, TypeOK
  <2>. QED  BY <1>13, <2>2, <2>3, <2>4, <2>5 DEF Remove, TypeOK, scheduler, Ops, Typed
<1>14. ASSUME NEW p \in Processes, NEW j \in Jobs, RemoveMissing(p, j) PROVE TypeOK'
  <2>1. Typed(op')
    BY <1>14, Rests, OpSet DEF RemoveMissing, Ops
  <2>. QED  BY <1>14, <2>1 DEF RemoveMissing, TypeOK, scheduler, history, Ops, Typed
<1>15. ASSUME NEW p \in Processes, NEW j \in Jobs, Fire(p, j) PROVE TypeOK'
  BY <1>15 DEF Fire, TypeOK, history
<1>16. ASSUME NEW p \in Processes, NEW j \in Jobs, Record(p, j) PROVE TypeOK'
  <2>1. file[j] \in Contents /\ file[j].runs < MaxRuns
    BY <1>16 DEF Record, Readable
  <2>2. Typed(op') /\ clashed' \subseteq Jobs
    BY <1>16, <2>1, RunsRecorded, TypeBegin DEF Record
  <2>. QED  BY <1>16, <2>2 DEF Record, EndRun, TypeOK, Ops, Typed
<1>17. ASSUME NEW p \in Processes, NEW j \in Jobs, EndUnrecorded(p, j) PROVE TypeOK'
  BY <1>17 DEF EndUnrecorded, EndRun, TypeOK, history
<1>. QED
  BY <1>1, <1>2, <1>3, <1>4, <1>5, <1>6, <1>7, <1>8, <1>9, <1>10, <1>11, <1>12,
     <1>13, <1>14, <1>15, <1>16, <1>17 DEF Next

\* Every variable keeps its type in every reachable state, whatever the number
\* of jobs, processes and daemons.
THEOREM TypeCorrect == Spec => []TypeOK
<1>. QED  BY InitType, TypeStep, PTL DEF Spec

-----------------------------------------------------------------------------
(* Serial: the files of jobs nobody clashed on.                            *)

\* Serial(j) holds on when j's file, entry and writers stay as they are.
LEMMA SerialFrame ==
  ASSUME NEW j \in Jobs, Serial(j), file'[j] = file[j], table'[j] = table[j],
         Writers(j)' \subseteq Writers(j), Filling(j)' = Filling(j),
         \A p \in Writers(j)' : op'[p] = op[p]
  PROVE  Serial(j)'
<1>1. \A p, q \in Writers(j)' : p = q
  BY DEF Serial
<1>2. ASSUME NEW p \in Writers(j)' PROVE Sound(p, j)'
  <2>1. Sound(p, j) /\ op'[p] = op[p] /\ op[p].job = j
    BY <1>2 DEF Serial, Writers
  <2>2. Intended(op[p])' = Intended(op[p])
    BY <2>1 DEF Intended
  <2>. QED  BY <2>1, <2>2 DEF Sound
<1>3. Filling(j)' = {} => file'[j] = Tabled(j)'
  BY DEF Serial, Tabled
<1>. QED  BY <1>1, <1>2, <1>3 DEF Serial

\* A step that writes no file and no operation of a writer, unless it clashes.
LEMMA SerialQuiet ==
  ASSUME TypeOK, Serials, UNCHANGED <<file, table>>, clashed \subseteq clashed',
         \A q \in Processes : op'[q] = op[q] \/
           /\ op'[q].stage \notin {"open", "fill", "lost"}
           /\ op[q].stage = "fill" => op[q].job \in clashed'
  PROVE  Serials'
<1>. SUFFICES ASSUME NEW j \in Jobs, j \notin clashed' PROVE Serial(j)'
  BY DEF Serials
<1>1. Serial(j)
  BY DEF Serials
<1>2. Writers(j)' \subseteq Writers(j) /\ \A p \in Writers(j)' : op'[p] = op[p]
  BY DEF Writers
<1>3. Filling(j)' = Filling(j)
  BY DEF Filling
<1>. QED  BY <1>1, <1>2, <1>3, SerialFrame

\* A job nobody clashed on has a writer with an entry that is not Absent, and
\* one without a writer has the file its entry says.
LEMMA SerialFile ==
  ASSUME TypeOK, NEW j \in Jobs, Serial(j)
  PROVE  /\ Readable(j) /\ Writers(j) = {} => table[j] = file[j]
         /\ Writers(j) # {} => table[j] # Absent
         /\ table[j] = Absent => ~Present(j)
<1>. USE Marks
<1>1. Writers(j) = {} => Filling(j) = {}
  BY DEF Writers, Filling
<1>2. Readable(j) /\ Writers(j) = {} => table[j] = file[j]
  BY <1>1 DEF Serial, Tabled, Readable
<1>3. Writers(j) # {} => table[j] # Absent
  BY DEF Serial, Sound
<1>4. table[j] = Absent => ~Present(j)
  BY <1>1, <1>3 DEF Serial, Tabled, Present
<1>. QED  BY <1>2, <1>3, <1>4

\* A writer that begins on j alone, with what it is meant to write.
LEMMA SerialBegin ==
  ASSUME TypeOK, Serials, UNCHANGED <<file, table>>,
         NEW p \in Processes, NEW j \in Jobs, NEW new \in Contents, op[p] = Idle,
         NEW what \in {"create", "change", "record"}, NEW reload \in BOOLEAN,
         Begin(p, j, new, what, reload),
         j \notin clashed' /\ what = "create" => table[j] = Unused,
         j \notin clashed' /\ what # "create" => Readable(j),
         what = "change" => new.runs = file[j].runs,
         what = "record" => new = Recorded(file[j])
  PROVE  Serials'
<1>. DEFINE o == [stage |-> "open", job |-> j, new |-> new, what |-> what, reload |-> reload]
<1>1. op' = [op EXCEPT ![p] = o] /\ op \in [Processes -> Ops]
  BY DEF Begin, TypeOK, Ops
<1>2. clashed \subseteq clashed' /\ (Writers(j) # {} => j \in clashed')
  BY DEF Begin
<1>3. ASSUME NEW k \in Jobs \ {j}, k \notin clashed' PROVE Serial(k)'
  <2>1. Serial(k)
    BY <1>2, <1>3 DEF Serials
  <2>2. Writers(k)' = Writers(k) /\ Filling(k)' = Filling(k)
    BY <1>1 DEF Writers, Filling, Idle
  <2>3. \A q \in Writers(k)' : op'[q] = op[q]
    BY <1>1 DEF Writers
  <2>. QED  BY <2>1, <2>2, <2>3, SerialFrame
<1>4. ASSUME j \notin clashed' PROVE Serial(j)'
  <2>1. Writers(j) = {} /\ Serial(j)
    BY <1>2, <1>4 DEF Serials
  <2>2. Writers(j)' = {p} /\ Filling(j)' = {} /\ op'[p] = o
    BY <1>1, <2>1 DEF Writers, Filling
  <2>3. what # "create" => table[j] = file[j] /\ file[j] \in Contents
    BY <1>4, <2>1, SerialFile DEF Readable
  <2>4. Intended(o)' = new
    <3>1. CASE what = "create"
      BY <3>1 DEF Intended
    <3>2. CASE what = "change"
      <4>1. table'[j] \in Contents /\ new.runs = table'[j].runs
        BY <2>3, <3>2
      <4>. QED  BY <3>2, <4>1 DEF Intended, Contents
    <3>3. CASE what = "record"
      <4>1. table'[j] \in Contents /\ new = [table'[j] EXCEPT !.runs = table'[j].runs + 1]
        BY <2>3, <3>3 DEF Recorded
      <4>. QED  BY <3>3, <4>1 DEF Intended, Contents
    <3>. QED  BY <3>1, <3>2, <3>3
  <2>5. Sound(p, j)'
    BY <1>4, <2>2, <2>3, <2>4 DEF Sound
  <2>6. file'[j] = Tabled(j)'
    <3>1. Filling(j) = {}
      BY <2>1 DEF Writers, Filling
    <3>. QED  BY <2>1, <3>1 DEF Serial, Tabled
  <2>. QED  BY <2>2, <2>5, <2>6 DEF Serial
<1>. QED  BY <1>3, <1>4 DEF Serials

LEMMA SerialOpen ==
  ASSUME TypeOK, Serials, NEW p \in Processes, Open(p)
  PROVE  Serials'
<1>. DEFINE o == op[p]
            n == [op[p] EXCEPT !.stage = "fill"]
<1>1. op' = [op EXCEPT ![p] = n] /\ op \in [Processes -> Ops] /\ UNCHANGED <<table, clashed>>
  BY DEF Open, TypeOK, Ops
<1>2. o \in Writing /\ o.stage = "open"
  BY <1>1, OpKinds DEF Open
<1>3. /\ o.job \in Jobs /\ n.stage = "fill" /\ n.job = o.job /\ n.new = o.new /\ n.what = o.what
      /\ file' = [file EXCEPT ![o.job] = Empty]
  BY <1>2, WriteRecord, NextStage DEF Open
<1>. SUFFICES ASSUME NEW k \in Jobs, k \notin clashed PROVE Serial(k)'
  BY <1>1 DEF Serials
<1>4. Serial(k)
  BY DEF Serials
<1>5. CASE k # o.job
  <2>1. Writers(k)' = Writers(k) /\ Filling(k)' = Filling(k)
    BY <1>1, <1>2, <1>3, <1>5 DEF Writers, Filling
  <2>2. (\A q \in Writers(k)' : op'[q] = op[q]) /\ file'[k] = file[k]
    BY <1>1, <1>3, <1>5 DEF Writers, TypeOK
  <2>. QED  BY <1>1, <1>4, <2>1, <2>2, SerialFrame
<1>6. CASE k = o.job
  <2>1. p \in Writers(k)
    BY <1>2, <1>6 DEF Writers
  <2>2. Writers(k) = {p} /\ Sound(p, k)
    BY <1>4, <2>1 DEF Serial
  <2>3. Writers(k)' = {p} /\ p \in Filling(k)'
    BY <1>1, <1>3, <1>6, <2>2 DEF Writers, Filling
  <2>4. Intended(n)' = Intended(o)
    BY <1>1, <1>3 DEF Intended
  <2>5. op'[p] = n /\ file'[k] = Empty
    BY <1>1, <1>3, <1>6 DEF TypeOK
  <2>6. Sound(p, k)'
    BY <1>1, <1>3, <2>2, <2>4, <2>5 DEF Sound
  <2>. QED  BY <2>3, <2>6 DEF Serial
<1>. QED  BY <1>5, <1>6

LEMMA SerialFill ==
  ASSUME TypeOK, Serials, NEW p \in Processes, Fill(p)
  PROVE  Serials'
<1>. DEFINE o == op[p]
<1>1. /\ op \in [Processes -> Ops] /\ UNCHANGED clashed
      /\ op' = [op EXCEPT ![p] = IF o.reload THEN [stage |-> "reload"] ELSE Idle]
      /\ op'[p].stage \in {"reload", "idle"}
  BY Rests DEF Fill, TypeOK, Ops
<1>2. o \in Writing /\ o.stage \in {"fill", "lost"} /\ o.job \in Jobs /\ o.new \in Contents
  BY <1>1, OpKinds, WriteRecord DEF Fill
<1>3. /\ \A k \in Jobs \ {o.job} : file'[k] = file[k] /\ table'[k] = table[k]
      /\ table'[o.job] = Intended(o)
      /\ o.stage = "fill" => file'[o.job] \in Filled(p)
  BY <1>2 DEF Fill, TypeOK
<1>. SUFFICES ASSUME NEW k \in Jobs, k \notin clashed PROVE Serial(k)'
  BY <1>1 DEF Serials
<1>4. Serial(k)
  BY DEF Serials
<1>5. CASE k # o.job
  <2>1. Writers(k)' = Writers(k) /\ Filling(k)' = Filling(k)
    BY <1>1, <1>2, <1>5 DEF Writers, Filling
  <2>2. \A q \in Writers(k)' : op'[q] = op[q]
    BY <1>1, <1>2, <1>5, <2>1 DEF Writers
  <2>. QED  BY <1>3, <1>4, <1>5, <2>1, <2>2, SerialFrame
<1>6. CASE k = o.job
  <2>1. p \in Writers(k)
    BY <1>2, <1>6 DEF Writers
  <2>2. Writers(k) = {p} /\ Sound(p, k)
    BY <1>4, <2>1 DEF Serial
  <2>3. o.stage = "fill" /\ file[k] = Empty /\ Intended(o) = o.new
    BY <1>2, <2>2 DEF Sound
  <2>4. file'[k] = o.new /\ table'[k] = o.new
    BY <1>3, <1>6, <2>3 DEF Filled
  <2>5. Writers(k)' = {}
    BY <1>1, <2>2 DEF Writers
  <2>6. file'[k] = Tabled(k)'
    BY <1>2, <2>4, Marks DEF Tabled
  <2>. QED  BY <2>5, <2>6 DEF Serial
<1>. QED  BY <1>5, <1>6

LEMMA SerialRemove ==
  ASSUME TypeOK, Serials, NEW p \in Processes, NEW j \in Jobs, Remove(p, j)
  PROVE  Serials'
<1>1. /\ clashed \subseteq clashed' /\ (Writers(j) # {} => j \in clashed')
      /\ file'[j] = Absent /\ table'[j] = Absent
      /\ \A k \in Jobs \ {j} : file'[k] = file[k] /\ table'[k] = table[k]
  BY DEF Remove, TypeOK
<1>2. \A q \in Processes : q \notin Filling(j) =>
        \/ op'[q] = op[q]
        \/ op'[q].stage \in {"reload", "idle"} /\ op[q] = Idle
  <2>. SUFFICES ASSUME NEW q \in Processes, q \notin Filling(j)
                PROVE  op'[q] = op[q] \/ (op'[q].stage \in {"reload", "idle"} /\ op[q] = Idle)
    OBVIOUS
  <2>1. CASE q = p
    <3>1. op'[q] \in {Idle, [stage |-> "reload"]} /\ op[q] = Idle
      BY <2>1 DEF Remove
    <3>. QED  BY <3>1, Rests
  <2>2. CASE q # p
    BY <2>2 DEF Remove
  <2>. QED  BY <2>1, <2>2
<1>3. \A q \in Filling(j) : op'[q].job = op[q].job /\ op'[q].stage = "lost"
  <2>. SUFFICES ASSUME NEW q \in Filling(j)
                PROVE  op'[q].job = op[q].job /\ op'[q].stage = "lost"
    OBVIOUS
  <2>1. q \in Processes /\ op[q] \in Writing /\ q # p
    BY OpKinds, Rests DEF Filling, TypeOK, Ops, Remove
  <2>2. op'[q] = [op[q] EXCEPT !.stage = "lost"]
    BY <2>1 DEF Remove
  <2>. QED  BY <2>1, <2>2, NextStage
<1>4. ASSUME NEW k \in Jobs \ {j}, k \notin clashed' PROVE Serial(k)'
  <2>1. Serial(k)
    BY <1>1, <1>4 DEF Serials
  <2>2. \A q \in Filling(j) : q \notin Writers(k) /\ q \notin Writers(k)'
    BY <1>3, <1>4 DEF Filling, Writers
  <2>3. Writers(k)' = Writers(k) /\ Filling(k)' = Filling(k)
    BY <1>2, <2>2, Rests DEF Filling, Writers
  <2>4. \A q \in Writers(k)' : op'[q] = op[q]
    BY <1>2, <2>2 DEF Writers
  <2>. QED  BY <1>1, <1>4, <2>1, <2>3, <2>4, SerialFrame
<1>5. ASSUME j \notin clashed' PROVE Serial(j)'
  <2>1. Writers(j) = {} /\ Filling(j) = {}
    BY <1>1, <1>5 DEF Writers, Filling
  <2>2. Writers(j)' = {}
    BY <1>2, <2>1 DEF Writers
  <2>3. file'[j] = Tabled(j)'
    BY <1>1, Marks DEF Tabled
  <2>. QED  BY <2>2, <2>3 DEF Serial
<1>. QED  BY <1>4, <1>5 DEF Serials

LEMMA SerialStep == TypeOK /\ Serials /\ [Next]_vars => Serials'
<1>. SUFFICES ASSUME TypeOK, Serials, [Next]_vars PROVE Serials'
  OBVIOUS
<1>. USE Rests
<1>1. CASE UNCHANGED vars
  BY <1>1, SerialQuiet DEF vars, history
<1>2. ASSUME NEW p \in Processes,
             StartScheduler(p) \/ List(p) \/ CacheExpires(p) \/ ReadNext(p) \/ ReadRaises(p)
             \/ ListRead(p) \/ Reloads(p)
      PROVE  Serials'
  <2>1. UNCHANGED <<file, table, clashed>>
    BY <1>2 DEF StartScheduler, List, CacheExpires, ReadNext, ReadRaises, ListRead, Reloads, history
  <2>2. \A q \in Processes : op'[q] = op[q] \/
          /\ op'[q].stage \notin {"open", "fill", "lost"}
          /\ op[q].stage # "fill"
    <3>1. op \in [Processes -> Ops]
      BY DEF TypeOK, Ops
    <3>2. CASE StartScheduler(p)
      BY <3>1, <3>2, GlobRead, ReadRecord DEF StartScheduler
    <3>3. CASE List(p)
      BY <3>1, <3>3, GlobRead, ReadRecord DEF List
    <3>4. CASE CacheExpires(p)
      BY <3>4 DEF CacheExpires
    <3>5. CASE ReadNext(p)
      BY <3>1, <3>5 DEF ReadNext
    <3>6. CASE ReadRaises(p)
      BY <3>1, <3>6 DEF ReadRaises
    <3>7. CASE ListRead(p)
      BY <3>1, <3>7 DEF ListRead
    <3>8. CASE Reloads(p)
      BY <3>1, <3>8, GlobRead, ReadRecord DEF Reloads, Reload
    <3>. QED  BY <1>2, <3>2, <3>3, <3>4, <3>5, <3>6, <3>7, <3>8
  <2>. QED  BY <2>1, <2>2, SerialQuiet
<1>3. ASSUME NEW p \in Processes, NEW j \in Jobs,
             RemoveMissing(p, j) \/ Fire(p, j) \/ EndUnrecorded(p, j)
      PROVE  Serials'
  <2>1. UNCHANGED <<file, table, clashed>>
    BY <1>3 DEF RemoveMissing, Fire, EndUnrecorded, history
  <2>2. \A q \in Processes : op'[q] = op[q] \/
          /\ op'[q].stage \notin {"open", "fill", "lost"}
          /\ op[q].stage # "fill"
    BY <1>3 DEF RemoveMissing, Fire, EndUnrecorded, TypeOK
  <2>. QED  BY <2>1, <2>2, SerialQuiet
<1>4. ASSUME NEW p \in Processes, Crash(p) PROVE Serials'
  <2>1. UNCHANGED <<file, table>> /\ clashed \subseteq clashed'
    BY <1>4 DEF Crash
  <2>2. \A q \in Processes : op'[q] = op[q] \/
          /\ op'[q].stage \notin {"open", "fill", "lost"}
          /\ op[q].stage = "fill" => op[q].job \in clashed'
    BY <1>4 DEF Crash, TypeOK
  <2>. QED  BY <2>1, <2>2, SerialQuiet
<1>5. ASSUME NEW p \in Processes, NEW j \in Jobs, Create(p, j) PROVE Serials'
  <2>1. PICK cron \in {"good", "refused", "short"}, reload \in BOOLEAN :
          Begin(p, j, [on |-> TRUE, cron |-> cron, runs |-> 0], "create", reload)
    BY <1>5 DEF Create
  <2>2. [on |-> TRUE, cron |-> cron, runs |-> 0] \in Contents
    BY BoundsAssumption DEF Contents
  <2>3. UNCHANGED <<file, table>> /\ op[p] = Idle /\ table[j] = Unused
    BY <1>5 DEF Create
  <2>. QED  BY <2>1, <2>2, <2>3, SerialBegin
<1>6. ASSUME NEW p \in Processes, NEW j \in Jobs, Change(p, j) PROVE Serials'
  <2>1. PICK on \in BOOLEAN, cron \in {"good", "refused", file[j].cron} :
          Begin(p, j, [on |-> on, cron |-> cron, runs |-> file[j].runs], "change", FALSE)
    BY <1>6 DEF Change
  <2>2. [on |-> on, cron |-> cron, runs |-> file[j].runs] \in Contents
    BY <1>6 DEF Change, Readable, Contents
  <2>3. UNCHANGED <<file, table>> /\ op[p] = Idle /\ Readable(j)
    BY <1>6 DEF Change
  <2>4. [on |-> on, cron |-> cron, runs |-> file[j].runs].runs = file[j].runs
    OBVIOUS
  <2>. QED  BY <2>1, <2>2, <2>3, <2>4, SerialBegin
<1>7. ASSUME NEW p \in Processes, NEW j \in Jobs, Record(p, j) PROVE Serials'
  <2>1. UNCHANGED <<file, table>> /\ op[p] = Idle /\ Readable(j) /\ file[j].runs < MaxRuns
    BY <1>7 DEF Record
  <2>2. Recorded(file[j]) \in Contents
    BY <2>1, RunsRecorded DEF Readable
  <2>3. Begin(p, j, Recorded(file[j]), "record", FALSE)
    BY <1>7 DEF Record
  <2>. QED  BY <2>1, <2>2, <2>3, SerialBegin
<1>. QED
  BY <1>1, <1>2, <1>3, <1>4, <1>5, <1>6, <1>7, SerialOpen, SerialFill, SerialRemove DEF Next

LEMMA InitSerial == Init => Serials
<1>. SUFFICES ASSUME Init, NEW j \in Jobs PROVE Serial(j)
  BY DEF Serials
<1>1. Writers(j) = {} /\ Filling(j) = {}
  BY Rests DEF Init, Writers, Filling
<1>2. file[j] = Tabled(j)
  BY DEF Init, Tabled
<1>. QED  BY <1>1, <1>2 DEF Serial

-----------------------------------------------------------------------------
(* Follows: a load and a loaded scheduler agree with the untouched files.  *)

\* A step that moves neither p's load nor any file outside p's touched ones.
LEMMA FollowsFrame ==
  ASSUME TypeOK, NEW p \in Daemons, Follows(p),
         p \in serving' <=> p \in serving,
         op'[p] = op[p] \/ (~Loading(p) /\ ~Loading(p)'),
         loaded'[p] = loaded[p], load'[p] = load[p], touched[p] \subseteq touched'[p],
         \A j \in Jobs \ touched'[p] : file'[j] = file[j]
  PROVE  Follows(p)'
<1>1. Loading(p)' <=> Loading(p)
  BY DEF Loading
<1>2. Loading(p) => LoadFollows(p)'
  <2>. SUFFICES ASSUME Loading(p) PROVE LoadFollows(p)'
    OBVIOUS
  <2>1. LoadFollows(p) /\ op'[p] = op[p]
    BY DEF Follows
  <2>. QED  BY <2>1 DEF LoadFollows, Readable
<1>3. Settled(p) => LoadedFollows(p)'
  BY DEF Follows, LoadedFollows, Readable
<1>4. Settled(p)' <=> Settled(p)
  BY <1>1 DEF Settled
<1>. QED  BY <1>1, <1>2, <1>3, <1>4 DEF Follows

\* A load that begins has read nothing.
LEMMA LoadBegins ==
  ASSUME NEW p \in Daemons, op'[p] = Glob("load"), UNCHANGED file,
         loaded'[p] = {}, touched'[p] = {}
  PROVE  Follows(p)'
<1>1. /\ op'[p].tried = {} /\ op'[p].todo = {j \in Jobs : Present(j)}
      /\ op'[p].stage = "read" /\ op'[p].then = "load"
  BY DEF Glob
<1>2. Loading(p)' /\ ~Settled(p)'
  BY <1>1 DEF Loading, Settled
<1>3. \A j \in Jobs : Readable(j)' => Present(j)
  BY Marks DEF Readable, Present
<1>4. LoadFollows(p)'
  BY <1>1, <1>3 DEF LoadFollows
<1>. QED  BY <1>2, <1>4 DEF Follows

\* The operation of a daemon other than the one that moves stays.
LEMMA OthersStay ==
  ASSUME TypeOK, NEW p \in Processes, NEW o, op' = [op EXCEPT ![p] = o]
  PROVE  op'[p] = o /\ \A q \in Processes \ {p} : op'[q] = op[q]
BY DEF TypeOK

LEMMA FollowsRead ==
  ASSUME TypeOK, NEW p \in Daemons, Follows(p), Loading(p), ReadNext(p)
  PROVE  Follows(p)'
<1>1. PICK j \in op[p].todo :
        /\ Readable(j)
        /\ op' = [op EXCEPT ![p] = [op[p] EXCEPT
                 !.todo = op[p].todo \ {j},
                 !.tried = op[p].tried \cup {k \in {j} : Triggers(file[k])},
                 !.misfits = op[p].misfits \cup {k \in {j} : Misfit(file[k])}]]
  BY DEF ReadNext
<1>2. p \in Processes /\ op[p] \in Reading
  BY DaemonsAssumption, OpKinds DEF TypeOK, Ops, Loading
<1>3. /\ op'[p].todo = op[p].todo \ {j}
      /\ op'[p].tried = op[p].tried \cup {k \in {j} : Triggers(file[k])}
      /\ op'[p].misfits = op[p].misfits \cup {k \in {j} : Misfit(file[k])}
      /\ op'[p].stage = "read" /\ op'[p].then = "load"
  <2>. DEFINE t == op[p].todo \ {j}
              s == op[p].tried \cup {k \in {j} : Triggers(file[k])}
              m == op[p].misfits \cup {k \in {j} : Misfit(file[k])}
  <2>1. t \in SUBSET Jobs /\ s \in SUBSET Jobs /\ m \in SUBSET Jobs
    BY <1>2, ReadRecord
  <2>2. op[p].then = "load"
    BY DEF Loading
  <2>3. op'[p] = [op[p] EXCEPT !.todo = t, !.tried = s, !.misfits = m]
    BY <1>1, <1>2, OthersStay
  <2>. HIDE DEF t, s, m
  <2>4. /\ op'[p].todo = t /\ op'[p].tried = s /\ op'[p].misfits = m
        /\ op'[p].stage = "read" /\ op'[p].then = "load"
    BY <1>2, <2>2, <2>3 DEF Reading
  <2>. QED  BY <2>4 DEF t, s, m
<1>4. UNCHANGED <<file, loaded, touched>>
  BY DEF ReadNext, scheduler, history
<1>5. LoadFollows(p)'
  <2>1. LoadFollows(p) /\ file[j] \in Contents
    BY <1>1 DEF Follows, Readable
  <2>2. ASSUME NEW k \in Jobs \ touched[p], k \in op'[p].tried, k \notin op'[p].misfits
        PROVE  Readable(k) /\ Runnable(file[k])
    <3>1. k # j => k \in op[p].tried /\ k \notin op[p].misfits
      BY <1>3, <2>2
    <3>2. CASE k = j /\ k \notin op[p].tried
      <4>1. Triggers(file[k]) /\ ~Misfit(file[k])
        BY <1>3, <2>2, <3>2
      <4>. QED  BY <1>1, <2>1, <3>2, <4>1 DEF Triggers, Misfit, Runnable, Contents
    <3>3. CASE k = j /\ k \in op[p].tried
      BY <1>3, <2>1, <2>2, <3>3 DEF LoadFollows
    <3>. QED  BY <2>1, <2>2, <3>1, <3>2, <3>3 DEF LoadFollows
  <2>3. ASSUME NEW k \in Jobs \ touched[p], Readable(k), k \notin op'[p].todo, Runnable(file[k])
        PROVE  k \in op'[p].tried
    <3>1. CASE k = j
      BY <1>3, <2>3, <3>1 DEF Runnable, Triggers
    <3>2. CASE k # j
      BY <1>3, <2>1, <2>3, <3>2 DEF LoadFollows
    <3>. QED  BY <3>1, <3>2
  <2>. QED  BY <1>4, <2>1, <2>2, <2>3 DEF LoadFollows, Readable
<1>6. Loading(p)' /\ ~Settled(p)'
  BY <1>3 DEF Loading, Settled
<1>7. loaded'[p] = {}
  BY <1>4 DEF Follows, LoadFollows
<1>. QED  BY <1>5, <1>6, <1>7 DEF Follows

LEMMA FollowsListed ==
  ASSUME TypeOK, NEW p \in Daemons, Follows(p), Loading(p), ListRead(p)
  PROVE  Follows(p)'
<1>1. p \in Processes /\ op[p].todo = {} /\ op[p].then = "load" /\ UNCHANGED <<file, touched>>
  BY DaemonsAssumption DEF ListRead, Loading, history
<1>2. ~Loading(p)'
  BY <1>1, Rests, OthersStay DEF ListRead, Loading
<1>3. /\ load'[p] = IF op[p].misfits = {} THEN "ok" ELSE "misfit"
      /\ serving' = IF op[p].misfits = {} THEN serving \cup {p} ELSE serving
      /\ loaded'[p] = IF p \in serving \/ op[p].misfits = {} THEN loaded[p] \cup Due(p) ELSE {}
  BY <1>1 DEF ListRead, TypeOK
<1>4. LoadFollows(p)
  BY DEF Follows
<1>5. /\ Due(p) \subseteq op[p].tried \ op[p].misfits
      /\ op[p].misfits = {} => Due(p) = op[p].tried
  <2>1. op[p] \in Reading
    BY <1>1, OpKinds DEF Loading, TypeOK, Ops
  <2>2. ASSUME NEW k \in op[p].misfits PROVE ~(k < k)
    <3>1. k \in Nat
      BY <2>1, ReadRecord, JobsAssumption
    <3>. QED  BY <3>1
  <2>. QED  BY <2>2 DEF Due
<1>6. p \notin serving' => loaded'[p] = {}
  BY <1>3
<1>7. LoadedFollows(p)'
  <2>1. loaded'[p] \subseteq op[p].tried \ op[p].misfits
    BY <1>3, <1>4, <1>5 DEF LoadFollows
  <2>2. load'[p] = "ok" => loaded'[p] = op[p].tried
    BY <1>3, <1>4, <1>5 DEF LoadFollows
  <2>. QED  BY <1>1, <1>4, <2>1, <2>2 DEF LoadFollows, LoadedFollows, Readable
<1>. QED  BY <1>2, <1>6, <1>7 DEF Follows

LEMMA FollowsRaised ==
  ASSUME TypeOK, NEW p \in Daemons, Follows(p), Loading(p), ReadRaises(p)
  PROVE  Follows(p)'
<1>1. p \in Processes /\ UNCHANGED <<serving, loaded>> /\ load'[p] = "unreadable"
  BY DaemonsAssumption DEF ReadRaises, Loading, TypeOK
<1>2. ~Loading(p)'
  BY <1>1, Rests, OthersStay DEF ReadRaises, Loading
<1>3. loaded'[p] = {}
  BY <1>1 DEF Follows, LoadFollows
<1>4. LoadedFollows(p)'
  BY <1>1, <1>3 DEF LoadedFollows
<1>. QED  BY <1>2, <1>3, <1>4 DEF Follows

\* Steps after which a daemon that was not loading is not, and files, loads and
\* schedulers stay.
LEMMA FollowsQuiet ==
  ASSUME TypeOK, NEW q \in Daemons, Follows(q),
         UNCHANGED <<file, serving, loaded, touched>>, load'[q] = load[q],
         op'[q] = op[q] \/ (~Loading(q) /\ ~Loading(q)')
  PROVE  Follows(q)'
BY FollowsFrame

\* Steps that change the file of one job, which becomes touched.
LEMMA FollowsWrite ==
  ASSUME TypeOK, NEW q \in Daemons, Follows(q), NEW j \in Jobs,
         UNCHANGED scheduler, Touch(j), \A k \in Jobs \ {j} : file'[k] = file[k],
         op'[q] = op[q] \/ (~Loading(q) /\ ~Loading(q)')
  PROVE  Follows(q)'
<1>1. touched'[q] = touched[q] \cup {j}
  BY DEF Touch
<1>. QED  BY <1>1, FollowsFrame DEF scheduler

LEMMA FollowsStep ==
  ASSUME TypeOK, [Next]_vars, NEW q \in Daemons, Follows(q)
  PROVE  Follows(q)'
<1>. USE Rests, DaemonsAssumption
<1>0. CASE UNCHANGED vars
  BY <1>0, FollowsQuiet DEF vars, scheduler, history
<1>1. ASSUME NEW p \in Processes, StartScheduler(p) PROVE Follows(q)'
  <2>1. op'[p] = Glob("load") /\ \A r \in Processes \ {p} : op'[r] = op[r]
    BY <1>1, OthersStay DEF StartScheduler
  <2>2. CASE q = p
    <3>1. loaded'[p] = {} /\ touched'[p] = {} /\ UNCHANGED file
      BY <1>1, <2>2 DEF StartScheduler, Follows, scheduler, TypeOK
    <3>. QED  BY <2>1, <2>2, <3>1, LoadBegins
  <2>3. CASE q # p
    BY <1>1, <2>1, <2>3, FollowsFrame DEF StartScheduler, scheduler, TypeOK
  <2>. QED  BY <2>2, <2>3
<1>2. ASSUME NEW p \in Processes, List(p) PROVE Follows(q)'
  <2>1. op'[p] = Glob("show") /\ op[p] = Idle /\ \A r \in Processes \ {p} : op'[r] = op[r]
    BY <1>2, OthersStay DEF List
  <2>2. op'[q] = op[q] \/ (~Loading(q) /\ ~Loading(q)')
    BY <2>1 DEF Glob, Loading
  <2>. QED  BY <1>2, <2>2, FollowsQuiet DEF List, scheduler, history
<1>3. ASSUME NEW p \in Processes, CacheExpires(p) PROVE Follows(q)'
  BY <1>3, FollowsQuiet DEF CacheExpires, scheduler, history
<1>4. ASSUME NEW p \in Processes, ReadNext(p) PROVE Follows(q)'
  <2>1. CASE q = p /\ Loading(q)
    BY <1>4, <2>1, FollowsRead
  <2>2. CASE q # p \/ ~Loading(q)
    <3>1. op[p] \in Reading
      BY <1>4, OpKinds DEF ReadNext, TypeOK, Ops
    <3>2. op'[p].then = op[p].then /\ \A r \in Processes \ {p} : op'[r] = op[r]
      <4>1. PICK j \in op[p].todo :
              op' = [op EXCEPT ![p] = [op[p] EXCEPT
                 !.todo = op[p].todo \ {j},
                 !.tried = op[p].tried \cup {k \in {j} : Triggers(file[k])},
                 !.misfits = op[p].misfits \cup {k \in {j} : Misfit(file[k])}]]
        BY <1>4 DEF ReadNext
      <4>. DEFINE t == op[p].todo \ {j}
                  s == op[p].tried \cup {k \in {j} : Triggers(file[k])}
                  m == op[p].misfits \cup {k \in {j} : Misfit(file[k])}
      <4>2. op'[p] = [op[p] EXCEPT !.todo = t, !.tried = s, !.misfits = m]
        BY <4>1, OthersStay
      <4>. HIDE DEF t, s, m
      <4>3. op'[p].then = op[p].then
        BY <3>1, <4>2 DEF Reading
      <4>. QED  BY <4>1, <4>3, OthersStay
    <3>3. op'[q] = op[q] \/ (~Loading(q) /\ ~Loading(q)')
      BY <1>4, <2>2, <3>2 DEF ReadNext, Loading
    <3>. QED  BY <1>4, <3>3, FollowsQuiet DEF ReadNext, scheduler, history
  <2>. QED  BY <2>1, <2>2
<1>5. ASSUME NEW p \in Processes, ReadRaises(p) PROVE Follows(q)'
  <2>1. CASE q = p /\ Loading(q)
    BY <1>5, <2>1, FollowsRaised
  <2>2. CASE q # p \/ ~Loading(q)
    <3>1. op'[p] = Idle /\ \A r \in Processes \ {p} : op'[r] = op[r]
      BY <1>5, OthersStay DEF ReadRaises
    <3>2. op'[q] = op[q] \/ (~Loading(q) /\ ~Loading(q)')
      BY <2>2, <3>1 DEF Loading
    <3>3. load'[q] = load[q]
      BY <1>5, <2>2 DEF ReadRaises, Loading, TypeOK
    <3>. QED  BY <1>5, <3>2, <3>3, FollowsQuiet DEF ReadRaises, history
  <2>. QED  BY <2>1, <2>2
<1>6. ASSUME NEW p \in Processes, ListRead(p) PROVE Follows(q)'
  <2>1. CASE q = p /\ Loading(q)
    BY <1>6, <2>1, FollowsListed
  <2>2. CASE q # p \/ ~Loading(q)
    <3>1. op'[p] = Idle /\ \A r \in Processes \ {p} : op'[r] = op[r]
      BY <1>6, OthersStay DEF ListRead
    <3>2. op'[q] = op[q] \/ (~Loading(q) /\ ~Loading(q)')
      BY <2>2, <3>1 DEF Loading
    <3>3. load'[q] = load[q] /\ loaded'[q] = loaded[q] /\ (q \in serving' <=> q \in serving)
      <4>1. op[p].then \in {"show", "load"}
        BY <1>6, OpKinds, ReadRecord DEF ListRead, TypeOK, Ops
      <4>2. CASE op[p].then = "show"
        BY <1>6, <4>2 DEF ListRead, scheduler
      <4>3. CASE op[p].then = "load"
        <5>1. q # p
          BY <1>6, <2>2, <4>3 DEF ListRead, Loading
        <5>. QED  BY <1>6, <4>3, <5>1 DEF ListRead, TypeOK
      <4>. QED  BY <4>1, <4>2, <4>3
    <3>4. UNCHANGED <<file, touched>>
      BY <1>6 DEF ListRead, history
    <3>. QED  BY <3>2, <3>3, <3>4, FollowsFrame
  <2>. QED  BY <2>1, <2>2
<1>7. ASSUME NEW p \in Processes, Open(p) PROVE Follows(q)'
  <2>1. op[p] \in Writing
    BY <1>7, OpKinds DEF Open, TypeOK, Ops
  <2>2. op[p].job \in Jobs /\ op'[p].stage = "fill" /\ \A r \in Processes \ {p} : op'[r] = op[r]
    <3>1. op' = [op EXCEPT ![p] = [op[p] EXCEPT !.stage = "fill"]]
      BY <1>7 DEF Open
    <3>2. op'[p] = [op[p] EXCEPT !.stage = "fill"] /\ \A r \in Processes \ {p} : op'[r] = op[r]
      BY <3>1, OthersStay
    <3>. QED  BY <2>1, <3>2, WriteRecord, NextStage
  <2>3. op'[q] = op[q] \/ (~Loading(q) /\ ~Loading(q)')
    BY <1>7, <2>2 DEF Open, Loading
  <2>4. \A k \in Jobs \ {op[p].job} : file'[k] = file[k]
    BY <1>7 DEF Open, TypeOK
  <2>5. UNCHANGED scheduler /\ Touch(op[p].job)
    BY <1>7 DEF Open
  <2>. QED  BY <2>2, <2>3, <2>4, <2>5, FollowsWrite
<1>8. ASSUME NEW p \in Processes, Fill(p) PROVE Follows(q)'
  <2>1. op[p].job \in Jobs
    BY <1>8, OpKinds, WriteRecord DEF Fill, TypeOK, Ops
  <2>2. op'[p].stage \in {"idle", "reload"} /\ \A r \in Processes \ {p} : op'[r] = op[r]
    BY <1>8, OthersStay DEF Fill
  <2>3. op'[q] = op[q] \/ (~Loading(q) /\ ~Loading(q)')
    BY <1>8, <2>2 DEF Fill, Loading
  <2>4. \A k \in Jobs \ {op[p].job} : file'[k] = file[k]
    BY <1>8 DEF Fill, TypeOK
  <2>5. UNCHANGED scheduler /\ Touch(op[p].job)
    BY <1>8 DEF Fill
  <2>. QED  BY <2>1, <2>3, <2>4, <2>5, FollowsWrite
<1>9. ASSUME NEW p \in Processes, Reloads(p) PROVE Follows(q)'
  <2>1. CASE q = p /\ p \in serving
    <3>1. loaded'[p] = {} /\ touched'[p] = {} /\ op'[p] = Glob("load") /\ UNCHANGED file
      BY <1>9, <2>1 DEF Reloads, Reload, RemoveAllJobs, TypeOK
    <3>. QED  BY <2>1, <3>1, LoadBegins
  <2>2. CASE q # p \/ p \notin serving
    <3>1. op'[q] = op[q] \/ (~Loading(q) /\ ~Loading(q)')
      <4>1. CASE q # p
        BY <1>9, <4>1, OthersStay DEF Reloads, Reload
      <4>2. CASE q = p /\ p \notin serving
        BY <1>9, <4>2, OthersStay DEF Reloads, Reload, Loading
      <4>. QED  BY <2>2, <4>1, <4>2
    <3>2. loaded'[q] = loaded[q] /\ touched'[q] = touched[q]
      BY <1>9, <2>2 DEF Reloads, Reload, TypeOK
    <3>3. UNCHANGED <<file, serving, load>>
      BY <1>9 DEF Reloads
    <3>. QED  BY <3>1, <3>2, <3>3, FollowsFrame
  <2>. QED  BY <2>1, <2>2
<1>10. ASSUME NEW p \in Processes, Crash(p) PROVE Follows(q)'
  <2>1. op'[p] = Idle /\ \A r \in Processes \ {p} : op'[r] = op[r]
    BY <1>10, OthersStay DEF Crash
  <2>2. CASE q = p
    <3>1. loaded'[q] = {} /\ q \notin serving' /\ ~Loading(q)'
      BY <1>10, <2>1, <2>2 DEF Crash, Loading, TypeOK
    <3>. QED  BY <3>1 DEF Follows, Settled
  <2>3. CASE q # p
    <3>1. loaded'[q] = loaded[q] /\ load'[q] = load[q] /\ (q \in serving' <=> q \in serving)
      BY <1>10, <2>3 DEF Crash, TypeOK
    <3>2. UNCHANGED <<file, touched>>
      BY <1>10 DEF Crash
    <3>. QED  BY <2>1, <2>3, <3>1, <3>2, FollowsFrame
  <2>. QED  BY <2>2, <2>3
<1>11. ASSUME NEW p \in Processes, NEW j \in Jobs,
              Create(p, j) \/ Change(p, j) \/ Record(p, j)
       PROVE  Follows(q)'
  <2>1. op[p] = Idle /\ UNCHANGED <<file, serving, loaded, load, touched>>
    BY <1>11 DEF Create, Change, Record, scheduler
  <2>2. op'[p].stage = "open" /\ \A r \in Processes \ {p} : op'[r] = op[r]
    BY <1>11 DEF Create, Change, Record, Begin, TypeOK
  <2>3. op'[q] = op[q] \/ (~Loading(q) /\ ~Loading(q)')
    BY <2>1, <2>2 DEF Loading
  <2>. QED  BY <2>1, <2>3, FollowsQuiet
<1>12. ASSUME NEW p \in Processes, NEW j \in Jobs, Remove(p, j) PROVE Follows(q)'
  <2>1. op'[q] = op[q] \/ (~Loading(q) /\ ~Loading(q)')
    <3>1. CASE q = p
      <4>1. op'[q].stage \in {"idle", "reload"} /\ op[q].stage = "idle"
        BY <1>12, <3>1 DEF Remove
      <4>. QED  BY <4>1 DEF Loading
    <3>2. CASE q # p /\ q \in Filling(j)
      <4>1. op[q] \in Writing
        BY <3>2, OpKinds DEF Filling, TypeOK, Ops
      <4>2. op'[q] = [op[q] EXCEPT !.stage = "lost"]
        BY <1>12, <3>2 DEF Remove
      <4>3. op'[q].stage = "lost" /\ op[q].stage = "fill"
        BY <3>2, <4>1, <4>2, NextStage DEF Filling
      <4>. QED  BY <4>3 DEF Loading
    <3>3. CASE q # p /\ q \notin Filling(j)
      BY <1>12, <3>3 DEF Remove
    <3>. QED  BY <3>1, <3>2, <3>3
  <2>2. \A k \in Jobs \ {j} : file'[k] = file[k]
    BY <1>12 DEF Remove, TypeOK
  <2>3. UNCHANGED scheduler /\ Touch(j)
    BY <1>12 DEF Remove
  <2>. QED  BY <2>1, <2>2, <2>3, FollowsWrite
<1>13. ASSUME NEW p \in Processes, NEW j \in Jobs,
              RemoveMissing(p, j) \/ Fire(p, j) \/ EndUnrecorded(p, j)
       PROVE  Follows(q)'
  <2>1. UNCHANGED <<file, serving, loaded, load, touched>>
    BY <1>13 DEF RemoveMissing, Fire, EndUnrecorded, scheduler, history
  <2>2. op'[q] = op[q] \/ (~Loading(q) /\ ~Loading(q)')
    BY <1>13 DEF RemoveMissing, Fire, EndUnrecorded, Loading, TypeOK
  <2>. QED  BY <2>1, <2>2, FollowsQuiet
<1>. QED
  BY <1>0, <1>1, <1>2, <1>3, <1>4, <1>5, <1>6, <1>7, <1>8, <1>9, <1>10, <1>11, <1>12, <1>13
  DEF Next

-----------------------------------------------------------------------------
(* Forgets: no list shows what its process removed.                        *)

LEMMA ForgetsFrame ==
  ASSUME TypeOK, NEW q \in Daemons, Forgets(q), clashed \subseteq clashed',
         gone'[q] = gone[q],
         \A j \in Jobs \ clashed' : table[j] = Absent => table'[j] = Absent,
         op'[q] = op[q] \/ op'[q].stage # "read" \/
           (op[q].stage = "read" /\ op'[q].files = op[q].files),
         cache'[q] = cache[q] \/ cache'[q] = Cold
  PROVE  Forgets(q)'
<1>1. gone[q] \subseteq Jobs
  BY DEF TypeOK
<1>2. Removed(q)'
  BY <1>1 DEF Forgets, Removed
<1>3. op'[q].stage = "read" => op'[q].files \cap gone'[q] \subseteq clashed'
  BY DEF Forgets
<1>4. cache'[q] # Cold => cache'[q] \cap gone'[q] \subseteq clashed'
  BY DEF Forgets
<1>. QED  BY <1>2, <1>3, <1>4 DEF Forgets

\* A list that begins holds no removed job: its file is not there.
LEMMA GlobForgets ==
  ASSUME TypeOK, Serials, NEW q \in Daemons, Forgets(q), NEW then
  PROVE  Glob(then).files \cap gone[q] \subseteq clashed
<1>. SUFFICES ASSUME NEW j \in Jobs, Present(j), j \in gone[q], j \notin clashed
              PROVE  FALSE
  BY DEF Glob
<1>1. table[j] = Absent /\ Serial(j)
  BY DEF Forgets, Removed, Serials
<1>. QED  BY <1>1, SerialFile

LEMMA ForgetsGlob ==
  ASSUME TypeOK, Serials, NEW q \in Daemons, Forgets(q), NEW then,
         op'[q] = Glob(then), UNCHANGED <<table, clashed, gone>>,
         cache'[q] = cache[q] \/ cache'[q] = Cold
  PROVE  Forgets(q)'
<1>1. op'[q].files \cap gone[q] \subseteq clashed
  BY GlobForgets
<1>. QED  BY <1>1 DEF Forgets, Removed

LEMMA ForgetsStep ==
  ASSUME TypeOK, Serials, [Next]_vars, NEW q \in Daemons, Forgets(q)
  PROVE  Forgets(q)'
<1>. USE Rests, DaemonsAssumption
<1>0. CASE UNCHANGED vars
  BY <1>0, ForgetsFrame DEF vars, history
<1>1. ASSUME NEW p \in Processes, StartScheduler(p) PROVE Forgets(q)'
  <2>1. op'[p] = Glob("load") /\ \A r \in Processes \ {p} : op'[r] = op[r]
    BY <1>1, OthersStay DEF StartScheduler
  <2>2. UNCHANGED <<table, clashed, gone>> /\ (cache'[q] = cache[q] \/ cache'[q] = Cold)
    BY <1>1 DEF StartScheduler, TypeOK
  <2>. QED  BY <2>1, <2>2, ForgetsGlob, ForgetsFrame
<1>2. ASSUME NEW p \in Processes, List(p) PROVE Forgets(q)'
  <2>1. op'[p] = Glob("show") /\ \A r \in Processes \ {p} : op'[r] = op[r]
    BY <1>2, OthersStay DEF List
  <2>2. UNCHANGED <<table, clashed, gone, cache>>
    BY <1>2 DEF List, history
  <2>. QED  BY <2>1, <2>2, ForgetsGlob, ForgetsFrame
<1>3. ASSUME NEW p \in Processes, CacheExpires(p) PROVE Forgets(q)'
  <2>1. UNCHANGED <<table, clashed, gone, op>> /\ (cache'[q] = cache[q] \/ cache'[q] = Cold)
    BY <1>3 DEF CacheExpires, history, TypeOK
  <2>. QED  BY <2>1, ForgetsFrame
<1>4. ASSUME NEW p \in Processes, ReadNext(p) PROVE Forgets(q)'
  <2>1. op[p] \in Reading
    BY <1>4, OpKinds DEF ReadNext, TypeOK, Ops
  <2>2. op'[p].files = op[p].files /\ \A r \in Processes \ {p} : op'[r] = op[r]
    <3>1. PICK j \in op[p].todo :
            op' = [op EXCEPT ![p] = [op[p] EXCEPT
                 !.todo = op[p].todo \ {j},
                 !.tried = op[p].tried \cup {k \in {j} : Triggers(file[k])},
                 !.misfits = op[p].misfits \cup {k \in {j} : Misfit(file[k])}]]
      BY <1>4 DEF ReadNext
    <3>. DEFINE t == op[p].todo \ {j}
                s == op[p].tried \cup {k \in {j} : Triggers(file[k])}
                m == op[p].misfits \cup {k \in {j} : Misfit(file[k])}
    <3>2. op'[p] = [op[p] EXCEPT !.todo = t, !.tried = s, !.misfits = m]
      BY <3>1, OthersStay
    <3>. HIDE DEF t, s, m
    <3>3. op'[p].files = op[p].files
      BY <2>1, <3>2 DEF Reading
    <3>. QED  BY <3>1, <3>3, OthersStay
  <2>3. UNCHANGED <<table, clashed, gone, cache>> /\ op[p].stage = "read"
    BY <1>4 DEF ReadNext, history
  <2>. QED  BY <2>2, <2>3, ForgetsFrame
<1>5. ASSUME NEW p \in Processes, ReadRaises(p) PROVE Forgets(q)'
  <2>1. op'[p] = Idle /\ \A r \in Processes \ {p} : op'[r] = op[r]
    BY <1>5, OthersStay DEF ReadRaises
  <2>2. UNCHANGED <<table, clashed, gone, cache>>
    BY <1>5 DEF ReadRaises, history
  <2>. QED  BY <2>1, <2>2, ForgetsFrame
<1>6. ASSUME NEW p \in Processes, ListRead(p) PROVE Forgets(q)'
  <2>1. op'[p] = Idle /\ \A r \in Processes \ {p} : op'[r] = op[r]
    BY <1>6, OthersStay DEF ListRead
  <2>2. UNCHANGED <<table, clashed, gone>> /\ op[p].stage = "read"
    BY <1>6 DEF ListRead, history
  <2>3. cache' = [cache EXCEPT ![p] = op[p].files]
    BY <1>6 DEF ListRead
  <2>4. CASE q = p
    <3>1. cache'[q] \cap gone[q] \subseteq clashed
      BY <2>2, <2>3, <2>4 DEF Forgets, TypeOK
    <3>. QED  BY <2>1, <2>2, <2>4, <3>1 DEF Forgets, Removed
  <2>5. CASE q # p
    BY <2>1, <2>2, <2>3, <2>5, ForgetsFrame DEF TypeOK
  <2>. QED  BY <2>4, <2>5
<1>7. ASSUME NEW p \in Processes, Open(p) PROVE Forgets(q)'
  <2>1. op[p] \in Writing /\ op' = [op EXCEPT ![p] = [op[p] EXCEPT !.stage = "fill"]]
    BY <1>7, OpKinds DEF Open, TypeOK, Ops
  <2>2. op'[p] = [op[p] EXCEPT !.stage = "fill"] /\ \A r \in Processes \ {p} : op'[r] = op[r]
    BY <2>1, OthersStay
  <2>3. op'[p].stage = "fill"
    BY <2>1, <2>2 DEF Writing
  <2>4. UNCHANGED <<table, clashed, gone, cache>>
    BY <1>7 DEF Open
  <2>. QED  BY <2>2, <2>3, <2>4, ForgetsFrame
<1>8. ASSUME NEW p \in Processes, Fill(p) PROVE Forgets(q)'
  <2>1. op[p].job \in Jobs
    BY <1>8, OpKinds, WriteRecord DEF Fill, TypeOK, Ops
  <2>2. op'[p].stage # "read" /\ \A r \in Processes \ {p} : op'[r] = op[r]
    BY <1>8, OthersStay DEF Fill
  <2>3. \A j \in Jobs \ {op[p].job} : table'[j] = table[j]
    BY <1>8 DEF Fill, TypeOK
  <2>4. op[p].job \notin clashed => table[op[p].job] # Absent
    <3>1. p \in Writers(op[p].job)
      BY <1>8 DEF Fill, Writers
    <3>. QED  BY <2>1, <3>1, SerialFile DEF Serials
  <2>5. UNCHANGED <<clashed, gone>> /\ (cache'[q] = cache[q] \/ cache'[q] = Cold)
    BY <1>8 DEF Fill, CacheAfter, TypeOK
  <2>. QED  BY <2>2, <2>3, <2>4, <2>5, ForgetsFrame
<1>9. ASSUME NEW p \in Processes, Reloads(p) PROVE Forgets(q)'
  <2>1. UNCHANGED <<table, clashed, gone>> /\ (cache'[q] = cache[q] \/ cache'[q] = Cold)
    BY <1>9 DEF Reloads, TypeOK
  <2>2. op'[p] \in {Glob("load"), Idle} /\ \A r \in Processes \ {p} : op'[r] = op[r]
    BY <1>9, OthersStay DEF Reloads, Reload
  <2>. QED  BY <2>1, <2>2, ForgetsGlob, ForgetsFrame
<1>10. ASSUME NEW p \in Processes, Crash(p) PROVE Forgets(q)'
  <2>1. op'[p] = Idle /\ \A r \in Processes \ {p} : op'[r] = op[r]
    BY <1>10, OthersStay DEF Crash
  <2>2. UNCHANGED table /\ clashed \subseteq clashed'
    BY <1>10 DEF Crash
  <2>3. CASE q = p
    <3>1. gone'[q] = {} /\ cache'[q] = Cold
      BY <1>10, <2>3 DEF Crash, TypeOK
    <3>. QED  BY <2>1, <2>3, <3>1 DEF Forgets, Removed
  <2>4. CASE q # p
    <3>1. gone'[q] = gone[q] /\ cache'[q] = cache[q]
      BY <1>10, <2>4 DEF Crash, TypeOK
    <3>. QED  BY <2>1, <2>2, <2>4, <3>1, ForgetsFrame
  <2>. QED  BY <2>3, <2>4
<1>11. ASSUME NEW p \in Processes, NEW j \in Jobs,
              Create(p, j) \/ Change(p, j) \/ Record(p, j)
       PROVE  Forgets(q)'
  <2>1. UNCHANGED <<table, gone, cache>> /\ clashed \subseteq clashed'
    BY <1>11 DEF Create, Change, Record, Begin
  <2>2. op'[p].stage = "open" /\ \A r \in Processes \ {p} : op'[r] = op[r]
    BY <1>11 DEF Create, Change, Record, Begin, TypeOK
  <2>. QED  BY <2>1, <2>2, ForgetsFrame
<1>12. ASSUME NEW p \in Processes, NEW j \in Jobs, Remove(p, j) PROVE Forgets(q)'
  <2>1. clashed \subseteq clashed' /\ table' = [table EXCEPT ![j] = Absent]
    BY <1>12 DEF Remove
  <2>2. op'[q] = op[q] \/ op'[q].stage # "read"
    <3>1. CASE q = p
      BY <1>12, <3>1 DEF Remove
    <3>2. CASE q # p /\ q \in Filling(j)
      <4>1. op[q] \in Writing
        BY <3>2, OpKinds DEF Filling, TypeOK, Ops
      <4>2. op'[q] = [op[q] EXCEPT !.stage = "lost"]
        BY <1>12, <3>2 DEF Remove
      <4>. QED  BY <4>1, <4>2, NextStage
    <3>3. CASE q # p /\ q \notin Filling(j)
      BY <1>12, <3>3 DEF Remove
    <3>. QED  BY <3>1, <3>2, <3>3
  <2>3. CASE q = p
    <3>1. op'[q].stage # "read" /\ cache'[q] = Cold /\ gone'[q] = gone[q] \cup {j}
      BY <1>12, <2>3 DEF Remove, CacheAfterRemoval, TypeOK
    <3>2. Removed(q)'
      BY <2>1, <3>1 DEF Forgets, Removed, TypeOK
    <3>. QED  BY <3>1, <3>2 DEF Forgets
  <2>4. CASE q # p
    <3>1. gone'[q] = gone[q] /\ cache'[q] = cache[q]
      BY <1>12, <2>4 DEF Remove, TypeOK
    <3>2. \A k \in Jobs : table[k] = Absent => table'[k] = Absent
      BY <2>1 DEF TypeOK
    <3>. QED  BY <2>1, <2>2, <3>1, <3>2, ForgetsFrame
  <2>. QED  BY <2>3, <2>4
<1>13. ASSUME NEW p \in Processes, NEW j \in Jobs,
              RemoveMissing(p, j) \/ Fire(p, j) \/ EndUnrecorded(p, j)
       PROVE  Forgets(q)'
  <2>1. UNCHANGED <<table, clashed, gone, cache>>
    BY <1>13 DEF RemoveMissing, Fire, EndUnrecorded, history
  <2>2. op'[q] = op[q] \/ op'[q].stage # "read"
    BY <1>13 DEF RemoveMissing, Fire, EndUnrecorded, TypeOK
  <2>. QED  BY <2>1, <2>2, ForgetsFrame
<1>. QED
  BY <1>0, <1>1, <1>2, <1>3, <1>4, <1>5, <1>6, <1>7, <1>8, <1>9, <1>10, <1>11, <1>12, <1>13
  DEF Next

-----------------------------------------------------------------------------
(* The invariant and what follows from it.                                 *)

LEMMA InitInv == Init => IInv
<1>. SUFFICES ASSUME Init PROVE IInv
  OBVIOUS
<1>1. ASSUME NEW p \in Daemons PROVE Follows(p) /\ Forgets(p)
  <2>1. op[p].stage = "idle"
    BY Rests, DaemonsAssumption DEF Init
  <2>2. Follows(p)
    BY <2>1 DEF Init, Follows, Loading, Settled
  <2>3. Forgets(p)
    BY <2>1 DEF Init, Forgets, Removed
  <2>. QED  BY <2>2, <2>3
<1>. QED  BY <1>1, InitType, InitSerial DEF IInv

LEMMA InvStep == IInv /\ [Next]_vars => IInv'
BY TypeStep, SerialStep, FollowsStep, ForgetsStep DEF IInv

LEMMA Invariant == Spec => []IInv
<1>. QED  BY InitInv, InvStep, PTL DEF Spec

\* Every file reads as if the operations had been atomic unless two processes
\* overlapped on it or a writer died, for any number of processes and jobs.
THEOREM FilesAreSerial == Spec => []TableIsSerial
<1>1. IInv => TableIsSerial
  BY DEF IInv, Serials, Serial, Tabled, TableIsSerial
<1>. QED  BY <1>1, Invariant, PTL

\* Of the files left alone since its last load began, a running scheduler has only
\* runnable jobs, and all of them if the load came to its end (_load_jobs),
\* whatever other processes write while it reads the directory.
THEOREM SchedulersFollow == Spec => []SchedulerFollowsFiles
<1>1. IInv => SchedulerFollowsFiles
  BY DEF IInv, Follows, LoadedFollows, SchedulerFollowsFiles
<1>. QED  BY <1>1, Invariant, PTL

\* No list, cached or not, shows a job its process removed.
THEOREM ListsForget == Spec => []ListForgetsRemoved
<1>1. IInv => ListForgetsRemoved
  BY DEF IInv, Forgets, ListForgetsRemoved
<1>. QED  BY <1>1, Invariant, PTL
=============================================================================
