----------------------------- MODULE SkillStore -----------------------------
(***************************************************************************)
(* One skill of skills/engine.py: its directory (skill.json, SKILL.md and  *)
(* the history of replaced versions) and the SkillEngine objects that work *)
(* on it.                                                                  *)
(*                                                                         *)
(* Every engine has a cache of its own; some live as long as the agent,    *)
(* most for one request.  The cache is dropped only when the directory of  *)
(* all skills has changed, that is when some skill was created or deleted, *)
(* so a read may find the cache, whatever its age, or the file.  Engines   *)
(* of one process take turns; those of two processes interleave between    *)
(* any two accesses to the directory.  rmtree counts as one access.  Any   *)
(* access of a call may raise, which ends the call with what it has done.  *)
(***************************************************************************)
EXTENDS Integers

CONSTANTS
  Engines,      \* SkillEngine objects
  Processes,    \* running programs
  Owner,        \* Owner[e]: the process engine e lives in
  MaxVersion,   \* bound: versions of the skill
  MaxTexts,     \* bound: how many different skills are written
  MaxCrashes,   \* bound: processes that die
  None          \* no file, or nothing cached

ASSUME OwnerAssumption == Owner \in [Engines -> Processes]
ASSUME BoundsAssumption ==
  MaxVersion \in Nat \ {0} /\ MaxTexts \in Nat /\ MaxCrashes \in Nat

\* A skill is its version and what it says; a text is the number of the call
\* that brought it.
Texts == 1..MaxTexts
Contents == [version : 1..MaxVersion, text : Texts]

ASSUME NoneAssumption == None \notin Contents /\ None \notin Texts

VARIABLES
  dir,          \* the skill's directory exists
  json,         \* skill.json
  md,           \* SKILL.md
  archive,      \* archive[v]: history/skill.json.v<v>
  cache,        \* cache[e]: the skill in e's _read_cache
  op,           \* op[e]: the write e is about to make
  texts,        \* how many texts there were so far
  crashes,      \* how many processes have died
  stale,        \* history: engines that, since they read or wrote the skill, another
                \* one has overtaken, or a call of theirs left with a cache
                \* that is not what is on the disk
  ever,         \* history: texts the skill had since it was created
  born,         \* history: a call that found no skill made the directory
  spoilt,       \* history: a write went over something its call had not read
  torn,         \* history: a call ended, or its process died, between the writes of
                \* skill.json and SKILL.md, and none came through since
  forgot,       \* history: a patch archived the new text for the old
  interrupted   \* history: the skill was deleted during another call

history == <<stale, ever, born, spoilt, torn, forgot, interrupted>>
disk == <<dir, json, md, archive>>
vars == <<disk, cache, op, texts, crashes, history>>

Idle == [at |-> "idle"]

\* The calls of one process are synchronous.
Free(e) == \A f \in Engines : Owner[f] = Owner[e] => op[f] = Idle

\* What load_skill makes of the directory: SKILL.md stands in for a skill.json
\* that is not there.
Loaded == IF json # None THEN json ELSE md

\* read: the cached skill, or the file, whose content is cached.
Read(e, skill) ==
  /\ skill = Loaded \/ (cache[e] # None /\ skill = cache[e])
  /\ stale' = IF skill = Loaded THEN stale \ {e} ELSE stale

-----------------------------------------------------------------------------
(* The calls.  basis is what the call has read, old what it will archive.  *)

Start(e, at, basis, old, new) ==
  op' = [op EXCEPT ![e] = [at |-> at, basis |-> basis, old |-> old, new |-> new]]

\* Mutant: nothing is archived.
WriteAtOnce(old) == "mkdir"

\* Mutant: what is not there is archived as well.
ArchiveAlways(old) == "archive"

\* ensure_skill archives what it replaces.
FirstWrite(old) == IF old = None THEN "mkdir" ELSE "archive"

NextVersion(old) == IF old = None THEN 1 ELSE old.version + 1

Replace(e, basis, old, text) ==
  /\ old # None => old.version < MaxVersion
  /\ Start(e, FirstWrite(old), basis, old, [version |-> NextVersion(old), text |-> text])

NewText == texts < MaxTexts /\ texts' = texts + 1

\* create, install and ensure_skill itself, over an existing skill or not.
Create(e) ==
  /\ Free(e) /\ NewText
  /\ \E skill \in Contents \cup {None} :
       /\ Read(e, skill)
       /\ cache' = [cache EXCEPT ![e] = skill]
       /\ Replace(e, skill, skill, texts')
  /\ UNCHANGED <<disk, crashes, ever, born, spoilt, torn, forgot, interrupted>>

\* patch on a cached skill: read hands out a copy.
PatchCopy(e) ==
  /\ Free(e) /\ NewText
  /\ cache[e] # None
  /\ Replace(e, cache[e], cache[e], texts')
  /\ UNCHANGED <<disk, cache, crashes, history>>

\* patch on a skill that was not cached: read hands out the object it has just
\* put in the cache, so the updates, and the version counted from none, are what
\* ensure_skill finds there and archives.
PatchAlias(e) ==
  /\ Free(e) /\ NewText
  /\ Loaded # None
  /\ LET updated == [version |-> 1, text |-> texts'] IN
       /\ cache' = [cache EXCEPT ![e] = updated]
       /\ Replace(e, Loaded, updated, texts')
  /\ stale' = stale \ {e}
  /\ UNCHANGED <<disk, crashes, ever, born, spoilt, torn, forgot, interrupted>>

\* rollback to an archived version.
Rollback(e) ==
  /\ Free(e) /\ dir
  /\ \E v \in 1..MaxVersion, skill \in Contents :
       /\ archive[v] # None
       /\ Read(e, skill)
       /\ cache' = [cache EXCEPT ![e] = skill]
       /\ Replace(e, skill, skill, archive[v].text)
  /\ UNCHANGED <<disk, texts, crashes, ever, born, spoilt, torn, forgot, interrupted>>

\* record_usage writes the whole skill back, without a new version.
RecordUsage(e) ==
  /\ Free(e)
  /\ \E skill \in Contents :
       /\ Read(e, skill)
       /\ cache' = [cache EXCEPT ![e] = skill]
       /\ Start(e, "usage", skill, skill, skill)
  /\ UNCHANGED <<disk, texts, crashes, ever, born, spoilt, torn, forgot, interrupted>>

\* A read that goes to the file, by any of the calls that only read.
Look(e) ==
  /\ Free(e)
  /\ cache[e] # Loaded
  /\ cache' = [cache EXCEPT ![e] = Loaded]
  /\ stale' = stale \ {e}
  /\ UNCHANGED <<disk, op, texts, crashes, ever, born, spoilt, torn, forgot, interrupted>>

\* The engine's owner is done with it; the next one starts with nothing.
Renew(e) ==
  /\ Free(e) /\ cache[e] # None
  /\ cache' = [cache EXCEPT ![e] = None]
  /\ UNCHANGED <<disk, op, texts, crashes, history>>

\* Mutant: the deleted skill stays cached.
CacheKept(e) == cache[e]

CacheAfterDelete(e) == None

Delete(e) ==
  /\ Free(e) /\ dir
  /\ dir' = FALSE /\ json' = None /\ md' = None
  /\ archive' = [v \in 1..MaxVersion |-> None]
  /\ cache' = [cache EXCEPT ![e] = CacheAfterDelete(e)]
  /\ stale' = Engines \ {e}
  /\ ever' = {} /\ born' = FALSE /\ spoilt' = FALSE /\ torn' = FALSE /\ forgot' = FALSE
  /\ interrupted' = (interrupted \/ \E f \in Engines : op[f] # Idle)
  /\ UNCHANGED <<op, texts, crashes>>

-----------------------------------------------------------------------------
(* The writes: each replaces one file.                                     *)

\* Any of them may raise, at the latest when the directory is gone, and
\* to_skill_md before SKILL.md is written: the call ends with what it has done,
\* and its engine's cache is not touched, though patch may have changed it.
Raise(e) ==
  /\ op[e] # Idle
  /\ op' = [op EXCEPT ![e] = Idle]
  /\ stale' = IF op[e].at = "md" \/ op[e].old # op[e].basis THEN stale \cup {e} ELSE stale
  /\ torn' = (torn \/ op[e].at = "md")
  /\ UNCHANGED <<disk, cache, texts, crashes, ever, born, spoilt, forgot, interrupted>>

\* Mutant: the directory of the history is made with its parents.
MakesParents == TRUE

\* history_dir.mkdir needs the skill's directory.
CanArchive == dir

Archive(e) ==
  /\ op[e].at = "archive" /\ CanArchive
  /\ dir' = TRUE
  /\ archive' = [archive EXCEPT ![op[e].old.version] = op[e].old]
  /\ spoilt' = (spoilt \/ e \in stale)
  /\ forgot' = (forgot \/ op[e].old # op[e].basis)
  /\ op' = [op EXCEPT ![e] = [op[e] EXCEPT !.at = "mkdir"]]
  /\ UNCHANGED <<json, md, cache, texts, crashes, stale, ever, born, torn, interrupted>>

\* skill.json becomes what this engine, and unless it was that before no other,
\* has in mind.
Overtake(e, skill) ==
  /\ json' = skill
  /\ stale' = (IF skill = Loaded THEN stale ELSE Engines) \ {e}
  /\ ever' = ever \cup {skill.text}
  /\ spoilt' = (spoilt \/ e \in stale)

\* ensure_skill makes the directory, if need be.
MakeDir(e) ==
  /\ op[e].at = "mkdir"
  /\ dir' = TRUE
  /\ born' = (born \/ op[e].basis = None)
  /\ op' = [op EXCEPT ![e] = [op[e] EXCEPT !.at = "json"]]
  /\ UNCHANGED <<json, md, archive, cache, texts, crashes, stale, ever, spoilt, torn, forgot,
                 interrupted>>

WriteJson(e) ==
  /\ op[e].at = "json" /\ dir
  /\ Overtake(e, op[e].new)
  /\ op' = [op EXCEPT ![e] = [op[e] EXCEPT !.at = "md"]]
  /\ UNCHANGED <<dir, md, archive, cache, texts, crashes, born, torn, forgot, interrupted>>

\* Mutant: the text of the replaced skill is written.
MarkdownOld(e) == IF op[e].basis = None THEN op[e].new ELSE op[e].basis

Markdown(e) == op[e].new

WriteMd(e) ==
  /\ op[e].at = "md" /\ dir
  /\ md' = Markdown(e)
  /\ cache' = [cache EXCEPT ![e] = op[e].new]
  /\ stale' = IF json = None THEN Engines ELSE stale
  /\ spoilt' = (spoilt \/ e \in stale)
  /\ torn' = (torn /\ e \in stale)
  /\ op' = [op EXCEPT ![e] = Idle]
  /\ UNCHANGED <<dir, json, archive, texts, crashes, ever, born, forgot, interrupted>>

\* record_usage writes skill.json if it is there.
WriteUsage(e) ==
  /\ op[e].at = "usage"
  /\ IF json # None THEN Overtake(e, op[e].new) ELSE UNCHANGED <<json, stale, ever, spoilt>>
  /\ cache' = [cache EXCEPT ![e] = op[e].new]
  /\ op' = [op EXCEPT ![e] = Idle]
  /\ UNCHANGED <<dir, md, archive, texts, crashes, born, torn, forgot, interrupted>>

\* A process dies, with all its engines, between any two accesses.
Crash(p) ==
  /\ crashes < MaxCrashes
  /\ crashes' = crashes + 1
  /\ op' = [e \in Engines |-> IF Owner[e] = p THEN Idle ELSE op[e]]
  /\ cache' = [e \in Engines |-> IF Owner[e] = p THEN None ELSE cache[e]]
  /\ torn' = (torn \/ \E e \in Engines : Owner[e] = p /\ op[e].at = "md")
  /\ UNCHANGED <<disk, texts, stale, ever, born, spoilt, forgot, interrupted>>

-----------------------------------------------------------------------------
Init ==
  /\ dir = FALSE /\ json = None /\ md = None
  /\ archive = [v \in 1..MaxVersion |-> None]
  /\ cache = [e \in Engines |-> None] /\ op = [e \in Engines |-> Idle]
  /\ texts = 0 /\ crashes = 0
  /\ stale = {} /\ ever = {} /\ born = FALSE
  /\ spoilt = FALSE /\ torn = FALSE /\ forgot = FALSE /\ interrupted = FALSE

Next ==
  \/ \E e \in Engines :
       \/ Create(e) \/ PatchCopy(e) \/ PatchAlias(e) \/ Rollback(e) \/ RecordUsage(e)
       \/ Look(e) \/ Renew(e) \/ Delete(e)
       \/ Raise(e) \/ Archive(e) \/ MakeDir(e) \/ WriteJson(e) \/ WriteMd(e) \/ WriteUsage(e)
  \/ \E p \in Processes : Crash(p)

Spec == Init /\ [][Next]_vars

-----------------------------------------------------------------------------
(* Properties.                                                             *)

Writing ==
  [at : {"archive", "mkdir", "json", "md", "usage"}, basis : Contents \cup {None},
   old : Contents \cup {None}, new : Contents]

\* Type correctness; a skill is archived and used only if there was one.
TypeOK ==
  /\ dir \in BOOLEAN
  /\ json \in Contents \cup {None} /\ md \in Contents \cup {None}
  /\ archive \in [1..MaxVersion -> Contents \cup {None}]
  /\ cache \in [Engines -> Contents \cup {None}]
  /\ op \in [Engines -> {Idle} \cup Writing]
  /\ \A e \in Engines : op[e].at = "archive" => op[e].old # None
  /\ texts \in 0..MaxTexts /\ crashes \in 0..MaxCrashes
  /\ stale \subseteq Engines /\ ever \subseteq Texts
  /\ {born, spoilt, torn, forgot, interrupted} \subseteq BOOLEAN

\* An engine that rests has cached what a read of the directory gives, unless
\* since it last read or wrote the skill another engine has overtaken it, a call
\* of its own was cut off before SKILL.md, or a call of its own was cut off that
\* had patched the very object in the cache.
CacheIsCurrent ==
  \A e \in Engines \ stale :
    op[e] = Idle /\ cache[e] # None => cache[e] = Loaded

\* When nobody writes, SKILL.md says what skill.json says, unless a write went
\* over something its call had not read, or the last call that wrote skill.json
\* raised or died before SKILL.md: the next one that comes through repairs that.
MarkdownAgrees ==
  (\A e \in Engines : op[e] = Idle) /\ ~spoilt /\ ~torn => md = json

Archived(text) == \E v \in 1..MaxVersion : archive[v] # None /\ archive[v].text = text

\* No text is lost: whatever the skill has ever said is in skill.json or in the
\* history, even while a call is under way or after one raised or died, unless
\* a write went over something its call had not read or patch forgot the text.
HistoryComplete ==
  json # None /\ ~spoilt /\ ~forgot =>
    \A text \in ever : text = json.text \/ Archived(text)

\* A deleted skill is not brought back, nor its directory, by an engine that
\* still has it cached: only a call that found no skill makes one.
DeletedStaysDeleted ==
  dir /\ ~interrupted => born

\* patch keeps what it replaces in the history, by whichever engine it is made.
PatchKeepsOldText ==
  json # None /\ ~spoilt =>
    \A text \in ever : text = json.text \/ Archived(text)
=============================================================================
