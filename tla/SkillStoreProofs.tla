-------------------------- MODULE SkillStoreProofs --------------------------
(***************************************************************************)
(* Theorems about SkillStore, for any engines, processes and bounds.       *)
(***************************************************************************)
EXTENDS SkillStore, TLAPS

-----------------------------------------------------------------------------
(* The inductive invariant.                                                *)

\* What a call has in mind: nothing is archived for a skill that was not there,
\* a use changes nothing, and any other call counts on.
Sound(o) ==
  /\ o.old = None <=> o.basis = None
  /\ o.at = "archive" => o.old # None
  /\ o.at = "usage" => o.basis # None /\ o.new = o.basis
  /\ o.at \in {"archive", "mkdir", "json"} => o.new.version = NextVersion(o.old)

Calls == \A e \in Engines : op[e] # Idle => Sound(op[e])

\* Until skill.json is written, a call leaves cached what it has read, unless
\* patch has changed the object in the cache.
Cached ==
  \A e \in Engines :
    op[e].at \in {"archive", "mkdir", "json", "usage"} /\ op[e].old = op[e].basis =>
      cache[e] = op[e].basis

\* A directory without a skill.json has nothing in it.
Bare ==
  /\ json # None => dir
  /\ json = None => ever = {}
  /\ json = None /\ ~spoilt => md = None /\ \A v \in 1..MaxVersion : archive[v] = None

\* What an engine that was not overtaken has in mind is what the file says.
Current ==
  \A e \in Engines \ stale :
    /\ op[e] = Idle /\ cache[e] # None => cache[e] = Loaded
    /\ op[e].at \in {"archive", "mkdir", "json", "usage"} => op[e].basis = Loaded
    /\ op[e].at = "md" => op[e].new = json

\* SKILL.md says what skill.json says, or is about to.
MdFollows ==
  ~spoilt /\ ~torn =>
    \/ md = json
    \/ \E e \in Engines : op[e].at = "md" /\ op[e].new = json

\* Archived versions are older than the skill, or the skill itself, and a call
\* that has archived what it replaces finds it in the history.
Kept ==
  ~spoilt /\ ~forgot =>
    /\ json # None =>
         \A v \in 1..MaxVersion : archive[v] # None =>
           v <= json.version /\ (v = json.version => archive[v] = json)
    /\ \A e \in Engines \ stale :
         op[e].at \in {"mkdir", "json"} /\ op[e].basis # None =>
           op[e].old = op[e].basis /\ Archived(op[e].basis.text)

\* A call that is about to replace a skill replaces one that was created.
Alive ==
  ~interrupted =>
    \A e \in Engines : op[e].at = "mkdir" /\ op[e].basis # None => born

IInv ==
  /\ TypeOK /\ Calls /\ Cached /\ Bare /\ Current /\ MdFollows /\ Kept /\ Alive
  /\ HistoryComplete /\ DeletedStaysDeleted

-----------------------------------------------------------------------------

\* An engine that is free to call is not in a call.
LEMMA FreeIsIdle ==
  ASSUME NEW e \in Engines, Free(e)
  PROVE  op[e] = Idle
BY DEF Free

\* The next version is a version.
LEMMA Versions ==
  ASSUME NEW old \in Contents \cup {None}, old # None => old.version < MaxVersion
  PROVE  NextVersion(old) \in 1..MaxVersion
BY BoundsAssumption, NoneAssumption DEF NextVersion, Contents

\* A record of one of the calls.
LEMMA OpIs ==
  ASSUME TypeOK, NEW e \in Engines, op[e].at # "idle"
  PROVE  op[e] \in Writing /\ op[e] # Idle
BY DEF TypeOK, Idle

\* A call begins: whatever it has read and cached, if the engine is not marked
\* as overtaken it has in mind what the file says.
LEMMA Begins ==
  ASSUME IInv, NEW e \in Engines, Free(e), NEW o \in Writing, Sound(o),
         o.at \in {"archive", "mkdir", "usage"}, o.at = "mkdir" => o.basis = None,
         o.old = o.basis => cache'[e] = o.basis,
         op' = [op EXCEPT ![e] = o],
         cache' \in [Engines -> Contents \cup {None}],
         \A f \in Engines \ {e} : cache'[f] = cache[f],
         texts' \in 0..MaxTexts,
         stale' \subseteq stale, stale \ {e} \subseteq stale',
         e \notin stale' => o.basis = Loaded,
         UNCHANGED <<disk, crashes, ever, born, spoilt, torn, forgot, interrupted>>
  PROVE  IInv'
<1>1. op[e] = Idle
  BY FreeIsIdle
<1>2. op \in [Engines -> {Idle} \cup Writing]
  BY DEF IInv, TypeOK
<1>3. /\ op'[e] = o
      /\ \A f \in Engines \ {e} : op'[f] = op[f]
      /\ op' \in [Engines -> {Idle} \cup Writing]
  BY <1>2
<1>4. o # Idle /\ Idle.at = "idle" /\ op[e].at = "idle"
  BY <1>1 DEF Idle
<1>5. TypeOK'
  BY <1>3 DEF IInv, TypeOK, disk, Sound, Archived
<1>6. Calls'
  BY <1>3 DEF IInv, Calls
<1>7. Bare' /\ Cached'
  BY <1>3, <1>4 DEF IInv, Bare, Cached, disk
<1>8. Current'
  <2>1. SUFFICES ASSUME NEW f \in Engines \ stale'
        PROVE  /\ op'[f] = Idle /\ cache'[f] # None => cache'[f] = Loaded
               /\ op'[f].at \in {"archive", "mkdir", "json", "usage"} => op'[f].basis = Loaded
               /\ op'[f].at = "md" => op'[f].new = json
    BY DEF Current, disk, Loaded
  <2>2. CASE f = e
    BY <1>3, <1>4, <2>2
  <2>3. CASE f # e
    BY <1>3, <2>3 DEF IInv, Current
  <2> QED BY <2>2, <2>3
<1>9. MdFollows'
  <2>1. \A f \in Engines : op[f].at = "md" => op'[f] = op[f]
    BY <1>3, <1>4
  <2> QED BY <2>1 DEF IInv, MdFollows, disk
<1>10. Kept'
  <2>1. \A f \in Engines \ stale' :
          op'[f].at \in {"mkdir", "json"} /\ op'[f].basis # None =>
            f # e /\ op'[f] = op[f] /\ f \notin stale
    BY <1>3
  <2> QED BY <2>1 DEF IInv, Kept, disk, Archived
<1>11. Alive'
  BY <1>3 DEF IInv, Alive
<1>12. HistoryComplete' /\ DeletedStaysDeleted'
  BY DEF IInv, HistoryComplete, DeletedStaysDeleted, disk, Archived
<1> QED BY <1>5, <1>6, <1>7, <1>8, <1>9, <1>10, <1>11, <1>12 DEF IInv

-----------------------------------------------------------------------------
(* The calls.                                                              *)

LEMMA CreateKeeps ==
  ASSUME IInv, NEW e \in Engines, Create(e)
  PROVE  IInv'
<1>1. PICK skill \in Contents \cup {None} :
        /\ Read(e, skill)
        /\ cache' = [cache EXCEPT ![e] = skill]
        /\ Replace(e, skill, skill, texts')
  BY DEF Create
<1> DEFINE o == [at |-> FirstWrite(skill), basis |-> skill, old |-> skill,
                 new |-> [version |-> NextVersion(skill), text |-> texts']]
<1>2. texts' \in Texts /\ texts' \in 0..MaxTexts
  BY BoundsAssumption DEF Create, NewText, IInv, TypeOK, Texts
<1>3. NextVersion(skill) \in 1..MaxVersion
  BY <1>1, Versions DEF Replace
<1>4. o \in Writing /\ Sound(o)
  BY <1>2, <1>3 DEF Writing, Sound, Contents, FirstWrite
<1>5. o.at \in {"archive", "mkdir", "usage"} /\ (o.at = "mkdir" => o.basis = None)
  BY DEF FirstWrite
<1>6. op' = [op EXCEPT ![e] = o]
  BY <1>1 DEF Replace, Start
<1>7. e \notin stale' => skill = Loaded
  BY <1>1, FreeIsIdle DEF Read, Create, IInv, Current
<1>8. /\ cache' \in [Engines -> Contents \cup {None}]
      /\ cache'[e] = skill
      /\ \A f \in Engines \ {e} : cache'[f] = cache[f]
  BY <1>1 DEF IInv, TypeOK
<1>9. stale' \subseteq stale /\ stale \ {e} \subseteq stale'
  BY <1>1 DEF Read
<1>10. Free(e) /\ UNCHANGED <<disk, crashes, ever, born, spoilt, torn, forgot, interrupted>>
  BY DEF Create
<1> HIDE DEF o
<1>11. o.basis = skill
  BY DEF o
<1> QED BY <1>2, <1>4, <1>5, <1>6, <1>7, <1>8, <1>9, <1>10, <1>11, Begins

LEMMA PatchCopyKeeps ==
  ASSUME IInv, NEW e \in Engines, PatchCopy(e)
  PROVE  IInv'
<1> DEFINE skill == cache[e]
<1> DEFINE o == [at |-> FirstWrite(skill), basis |-> skill, old |-> skill,
                 new |-> [version |-> NextVersion(skill), text |-> texts']]
<1>1. skill \in Contents \cup {None} /\ skill # None
  BY DEF PatchCopy, IInv, TypeOK
<1>2. texts' \in Texts /\ texts' \in 0..MaxTexts
  BY BoundsAssumption DEF PatchCopy, NewText, IInv, TypeOK, Texts
<1>3. NextVersion(skill) \in 1..MaxVersion
  BY <1>1, Versions DEF PatchCopy, Replace
<1>4. o \in Writing /\ Sound(o)
  BY <1>1, <1>2, <1>3 DEF Writing, Sound, Contents, FirstWrite
<1>5. o.at \in {"archive", "mkdir", "usage"} /\ (o.at = "mkdir" => o.basis = None)
  BY DEF FirstWrite
<1>6. op' = [op EXCEPT ![e] = o]
  BY DEF PatchCopy, Replace, Start
<1>7. e \notin stale' => skill = Loaded
  BY <1>1, FreeIsIdle DEF PatchCopy, IInv, Current, history
<1>8. /\ cache' \in [Engines -> Contents \cup {None}]
      /\ cache'[e] = skill
      /\ \A f \in Engines \ {e} : cache'[f] = cache[f]
  BY DEF IInv, TypeOK, PatchCopy
<1>9. stale' \subseteq stale /\ stale \ {e} \subseteq stale'
  BY DEF PatchCopy, history
<1>10. Free(e) /\ UNCHANGED <<disk, crashes, ever, born, spoilt, torn, forgot, interrupted>>
  BY DEF PatchCopy, history
<1> HIDE DEF o
<1>11. o.basis = skill
  BY DEF o
<1> QED BY <1>2, <1>4, <1>5, <1>6, <1>7, <1>8, <1>9, <1>10, <1>11, Begins

LEMMA PatchAliasKeeps ==
  ASSUME IInv, NEW e \in Engines, PatchAlias(e)
  PROVE  IInv'
<1> DEFINE updated == [version |-> 1, text |-> texts']
<1> DEFINE o == [at |-> FirstWrite(updated), basis |-> Loaded, old |-> updated,
                 new |-> [version |-> NextVersion(updated), text |-> texts']]
<1>1. texts' \in Texts /\ texts' \in 0..MaxTexts
  BY BoundsAssumption DEF PatchAlias, NewText, IInv, TypeOK, Texts
<1>2. updated \in Contents /\ updated # None
  BY <1>1, BoundsAssumption, NoneAssumption DEF Contents
<1>3. NextVersion(updated) \in 1..MaxVersion
  BY <1>2, Versions DEF PatchAlias, Replace
<1>4. Loaded \in Contents /\ Loaded # None
  BY DEF PatchAlias, IInv, TypeOK, Loaded
<1>5. o \in Writing /\ Sound(o)
  BY <1>1, <1>2, <1>3, <1>4 DEF Writing, Sound, Contents, FirstWrite
<1>6. o.at \in {"archive", "mkdir", "usage"} /\ (o.at = "mkdir" => o.basis = None)
  BY <1>2 DEF FirstWrite
<1>7. op' = [op EXCEPT ![e] = o]
  BY DEF PatchAlias, Replace, Start
<1>8. /\ cache' \in [Engines -> Contents \cup {None}]
      /\ cache'[e] = updated
      /\ \A f \in Engines \ {e} : cache'[f] = cache[f]
  BY <1>2 DEF IInv, TypeOK, PatchAlias
<1>9. stale' \subseteq stale /\ stale \ {e} \subseteq stale'
  BY DEF PatchAlias
<1>10. Free(e) /\ UNCHANGED <<disk, crashes, ever, born, spoilt, torn, forgot, interrupted>>
  BY DEF PatchAlias
<1> HIDE DEF o
<1>11. o.basis = Loaded /\ o.old = updated
  BY DEF o
<1> QED BY <1>1, <1>5, <1>6, <1>7, <1>8, <1>9, <1>10, <1>11, Begins

LEMMA RollbackKeeps ==
  ASSUME IInv, NEW e \in Engines, Rollback(e)
  PROVE  IInv'
<1>1. PICK v \in 1..MaxVersion, skill \in Contents :
        /\ archive[v] # None
        /\ Read(e, skill)
        /\ cache' = [cache EXCEPT ![e] = skill]
        /\ Replace(e, skill, skill, archive[v].text)
  BY DEF Rollback
<1> DEFINE o == [at |-> FirstWrite(skill), basis |-> skill, old |-> skill,
                 new |-> [version |-> NextVersion(skill), text |-> archive[v].text]]
<1>2. archive[v] \in Contents /\ archive[v].text \in Texts /\ texts' \in 0..MaxTexts
  BY <1>1 DEF Rollback, IInv, TypeOK, Contents
<1>3. NextVersion(skill) \in 1..MaxVersion /\ skill # None
  BY <1>1, Versions, NoneAssumption DEF Replace
<1>4. o \in Writing /\ Sound(o)
  BY <1>2, <1>3 DEF Writing, Sound, Contents, FirstWrite
<1>5. o.at \in {"archive", "mkdir", "usage"} /\ (o.at = "mkdir" => o.basis = None)
  BY DEF FirstWrite
<1>6. op' = [op EXCEPT ![e] = o]
  BY <1>1 DEF Replace, Start
<1>7. e \notin stale' => skill = Loaded
  BY <1>1, FreeIsIdle DEF Read, Rollback, IInv, Current
<1>8. /\ cache' \in [Engines -> Contents \cup {None}]
      /\ cache'[e] = skill
      /\ \A f \in Engines \ {e} : cache'[f] = cache[f]
  BY <1>1 DEF IInv, TypeOK
<1>9. stale' \subseteq stale /\ stale \ {e} \subseteq stale'
  BY <1>1 DEF Read
<1>10. Free(e) /\ UNCHANGED <<disk, crashes, ever, born, spoilt, torn, forgot, interrupted>>
  BY DEF Rollback
<1> HIDE DEF o
<1>11. o.basis = skill
  BY DEF o
<1> QED BY <1>2, <1>4, <1>5, <1>6, <1>7, <1>8, <1>9, <1>10, <1>11, Begins

LEMMA RecordUsageKeeps ==
  ASSUME IInv, NEW e \in Engines, RecordUsage(e)
  PROVE  IInv'
<1>1. PICK skill \in Contents :
        /\ Read(e, skill)
        /\ cache' = [cache EXCEPT ![e] = skill]
        /\ Start(e, "usage", skill, skill, skill)
  BY DEF RecordUsage
<1> DEFINE o == [at |-> "usage", basis |-> skill, old |-> skill, new |-> skill]
<1>2. o \in Writing /\ Sound(o)
  BY NoneAssumption DEF Writing, Sound
<1>3. o.at \in {"archive", "mkdir", "usage"} /\ (o.at = "mkdir" => o.basis = None)
  OBVIOUS
<1>4. op' = [op EXCEPT ![e] = o]
  BY <1>1 DEF Start
<1>5. e \notin stale' => skill = Loaded
  BY <1>1, FreeIsIdle DEF Read, RecordUsage, IInv, Current
<1>6. /\ cache' \in [Engines -> Contents \cup {None}]
      /\ cache'[e] = skill
      /\ \A f \in Engines \ {e} : cache'[f] = cache[f]
  BY <1>1 DEF IInv, TypeOK
<1>7. stale' \subseteq stale /\ stale \ {e} \subseteq stale'
  BY <1>1 DEF Read
<1>8. Free(e) /\ UNCHANGED <<disk, crashes, ever, born, spoilt, torn, forgot, interrupted>>
  BY DEF RecordUsage
<1>9. texts' \in 0..MaxTexts
  BY DEF RecordUsage, IInv, TypeOK
<1> HIDE DEF o
<1>10. o.basis = skill
  BY DEF o
<1> QED BY <1>2, <1>3, <1>4, <1>5, <1>6, <1>7, <1>8, <1>9, <1>10, Begins

\* What an engine at rest has cached can be refreshed or forgotten.
LEMMA RestKeeps ==
  ASSUME IInv, NEW e \in Engines, op[e] = Idle,
         cache' \in [Engines -> Contents \cup {None}],
         \A f \in Engines \ {e} : cache'[f] = cache[f],
         cache'[e] = None \/ (cache'[e] = Loaded /\ e \notin stale'),
         stale' \subseteq stale, stale \ {e} \subseteq stale',
         UNCHANGED <<disk, op, texts, crashes, ever, born, spoilt, torn, forgot, interrupted>>
  PROVE  IInv'
<1>1. TypeOK' /\ Calls' /\ Bare' /\ Alive' /\ DeletedStaysDeleted'
  BY DEF IInv, TypeOK, Calls, Bare, Alive, DeletedStaysDeleted, disk
<1>2. op[e].at = "idle" /\ Cached'
  BY DEF Idle, IInv, Cached
<1>3. Current'
  <2>1. SUFFICES ASSUME NEW f \in Engines \ stale'
        PROVE  /\ op'[f] = Idle /\ cache'[f] # None => cache'[f] = Loaded
               /\ op'[f].at \in {"archive", "mkdir", "json", "usage"} => op'[f].basis = Loaded
               /\ op'[f].at = "md" => op'[f].new = json
    BY DEF Current, disk, Loaded
  <2> QED BY <1>2 DEF IInv, Current
<1>4. MdFollows'
  BY DEF IInv, MdFollows, disk
<1>5. Kept' /\ HistoryComplete'
  <2>1. \A f \in Engines \ stale' : op[f].at \in {"mkdir", "json"} => f \in Engines \ stale
    BY <1>2
  <2> QED BY <2>1 DEF IInv, Kept, HistoryComplete, disk, Archived
<1> QED BY <1>1, <1>2, <1>3, <1>4, <1>5 DEF IInv

LEMMA LookKeeps ==
  ASSUME IInv, NEW e \in Engines, Look(e)
  PROVE  IInv'
<1>1. Loaded \in Contents \cup {None} /\ cache \in [Engines -> Contents \cup {None}]
  BY DEF IInv, TypeOK, Loaded
<1>2. op[e] = Idle
  BY FreeIsIdle DEF Look
<1> QED BY <1>1, <1>2, RestKeeps DEF Look, disk

LEMMA RenewKeeps ==
  ASSUME IInv, NEW e \in Engines, Renew(e)
  PROVE  IInv'
<1>1. cache \in [Engines -> Contents \cup {None}]
  BY DEF IInv, TypeOK
<1>2. op[e] = Idle
  BY FreeIsIdle DEF Renew
<1> QED BY <1>1, <1>2, RestKeeps DEF Renew, disk, history

LEMMA DeleteKeeps ==
  ASSUME IInv, NEW e \in Engines, Delete(e)
  PROVE  IInv'
<1>1. op[e] = Idle /\ op[e].at = "idle"
  BY FreeIsIdle DEF Delete, Idle
<1>2. /\ cache' \in [Engines -> Contents \cup {None}]
      /\ cache'[e] = None
  BY DEF Delete, IInv, TypeOK, CacheAfterDelete
<1>3. TypeOK'
  BY <1>2 DEF Delete, IInv, TypeOK
<1>4. Calls' /\ Bare' /\ DeletedStaysDeleted' /\ HistoryComplete' /\ MdFollows' /\ Cached'
  BY <1>1 DEF Delete, IInv, Calls, Bare, DeletedStaysDeleted, HistoryComplete, MdFollows, Cached
<1>5. Current'
  BY <1>1, <1>2 DEF Delete, Current
<1>6. Kept'
  BY <1>1 DEF Delete, Kept
<1>7. Alive'
  <2>1. \A f \in Engines : op[f].at = "mkdir" => op[f] # Idle
    BY DEF Idle
  <2> QED BY <2>1 DEF Delete, Alive
<1> QED BY <1>3, <1>4, <1>5, <1>6, <1>7 DEF IInv

-----------------------------------------------------------------------------
(* The writes.                                                             *)

\* A call that ends early leaves the cache it has read, or is marked.
LEMMA RaiseKeeps ==
  ASSUME IInv, NEW e \in Engines, Raise(e)
  PROVE  IInv'
<1>1. op[e] \in Writing /\ op[e] # Idle
  BY DEF Raise, IInv, TypeOK
<1>2. op' = [op EXCEPT ![e] = Idle] /\ op \in [Engines -> {Idle} \cup Writing]
  BY DEF Raise, IInv, TypeOK
<1>3. /\ op'[e] = Idle /\ op'[e].at = "idle"
      /\ \A f \in Engines \ {e} : op'[f] = op[f]
      /\ op' \in [Engines -> {Idle} \cup Writing]
  BY <1>2 DEF Idle
<1>4. /\ UNCHANGED <<dir, json, md, archive, cache, texts, crashes, ever, born, spoilt,
                     forgot, interrupted>>
      /\ torn' = (torn \/ op[e].at = "md")
      /\ stale \subseteq stale' /\ stale' \subseteq stale \cup {e}
      /\ e \notin stale' => e \notin stale /\ op[e].at # "md" /\ op[e].old = op[e].basis
  BY DEF Raise, disk
<1>5. TypeOK'
  BY <1>3, <1>4 DEF IInv, TypeOK
<1>6. Calls' /\ Cached' /\ Bare' /\ DeletedStaysDeleted' /\ HistoryComplete'
  BY <1>3, <1>4 DEF IInv, Calls, Cached, Bare, DeletedStaysDeleted, HistoryComplete, Archived
<1>7. e \notin stale' => cache[e] = Loaded
  <2>1. op[e].at \in {"archive", "mkdir", "json", "md", "usage"}
    BY <1>1 DEF Writing
  <2> QED BY <1>4, <2>1 DEF IInv, Cached, Current
<1>8. Current'
  <2>1. Loaded' = Loaded
    BY <1>4 DEF Loaded
  <2> QED BY <1>3, <1>4, <1>7, <2>1 DEF IInv, Current
<1>9. MdFollows'
  BY <1>3, <1>4 DEF IInv, MdFollows
<1>10. Kept'
  BY <1>3, <1>4 DEF IInv, Kept, Archived
<1>11. Alive'
  BY <1>3, <1>4 DEF IInv, Alive
<1> QED BY <1>5, <1>6, <1>8, <1>9, <1>10, <1>11 DEF IInv

LEMMA ArchiveKeeps ==
  ASSUME IInv, NEW e \in Engines, Archive(e)
  PROVE  IInv'
<1>1. op[e].at = "archive" /\ dir
  BY DEF Archive, CanArchive
<1>2. op[e] \in Writing /\ op[e] # Idle
  BY <1>1, OpIs DEF IInv
<1> DEFINE o == op[e]
<1> DEFINE n == [o EXCEPT !.at = "mkdir"]
<1>3. /\ o.old \in Contents /\ o.old.version \in 1..MaxVersion
      /\ o.basis # None /\ Sound(o)
  BY <1>1, <1>2 DEF IInv, TypeOK, Calls, Sound, Writing, Contents
<1>4. /\ n \in Writing /\ n.at = "mkdir" /\ n # Idle
      /\ n.basis = o.basis /\ n.old = o.old /\ n.new = o.new
  BY <1>2 DEF Writing, Idle
<1>5. op' = [op EXCEPT ![e] = n] /\ op \in [Engines -> {Idle} \cup Writing]
  BY DEF Archive, IInv, TypeOK
<1> HIDE DEF n
<1>6. /\ op'[e] = n
      /\ \A f \in Engines \ {e} : op'[f] = op[f]
      /\ op' \in [Engines -> {Idle} \cup Writing]
  BY <1>4, <1>5
<1>7. /\ archive' = [archive EXCEPT ![o.old.version] = o.old]
      /\ archive \in [1..MaxVersion -> Contents \cup {None}]
  BY DEF Archive, IInv, TypeOK
<1>8. /\ archive' \in [1..MaxVersion -> Contents \cup {None}]
      /\ archive'[o.old.version] = o.old
      /\ \A v \in 1..MaxVersion \ {o.old.version} : archive'[v] = archive[v]
  BY <1>3, <1>7
<1>9. /\ dir' /\ UNCHANGED <<json, md, cache, texts, crashes, stale, ever, born, torn, interrupted>>
      /\ spoilt' = (spoilt \/ e \in stale) /\ forgot' = (forgot \/ o.old # o.basis)
      /\ dir' \in BOOLEAN
  BY DEF Archive
<1>10. TypeOK'
  BY <1>4, <1>6, <1>8, <1>9 DEF IInv, TypeOK
<1>11. Calls'
  <2>1. Sound(n)
    BY <1>1, <1>3, <1>4 DEF Sound
  <2> QED BY <1>6, <2>1 DEF IInv, Calls
\* If this is no mistake, what is archived is what the file says.
<1>12. ~spoilt' => ~spoilt /\ e \notin stale /\ o.basis = json /\ json # None
  <2>1. ~spoilt' => ~spoilt /\ e \notin stale /\ o.basis = Loaded
    BY <1>1, <1>9 DEF IInv, Current
  <2> QED BY <1>3, <2>1 DEF IInv, Bare, Loaded
<1>13. Bare' /\ DeletedStaysDeleted' /\ Cached'
  BY <1>1, <1>4, <1>6, <1>9, <1>12 DEF IInv, Bare, DeletedStaysDeleted, Cached
<1>14. Current'
  BY <1>1, <1>4, <1>6, <1>9 DEF IInv, Current, Loaded
<1>15. MdFollows'
  BY <1>1, <1>4, <1>6, <1>9 DEF IInv, MdFollows
<1>16. Alive'
  BY <1>1, <1>4, <1>6, <1>9 DEF IInv, Alive, DeletedStaysDeleted
<1>17. ~spoilt' /\ ~forgot' =>
         /\ ~spoilt /\ ~forgot /\ e \notin stale /\ json # None
         /\ o.old = o.basis /\ o.old = json
  BY <1>9, <1>12
<1> DEFINE Later(text) ==
      \E v \in 1..MaxVersion : archive'[v] # None /\ archive'[v].text = text
<1>18. ~spoilt' /\ ~forgot' =>
         \A text : Archived(text) => Later(text)
  <2>1. SUFFICES ASSUME ~spoilt', ~forgot', NEW text, NEW v \in 1..MaxVersion,
                        archive[v] # None, archive[v].text = text
                 PROVE  archive'[v] # None /\ archive'[v].text = text
    BY DEF Archived
  <2>2. CASE v = o.old.version
    <3>1. archive[v] = json
      BY <1>1, <1>17, <2>1, <2>2 DEF IInv, Kept
    <3> QED BY <1>1, <1>8, <1>17, <2>1, <2>2, <3>1
  <2>3. CASE v # o.old.version
    BY <1>8, <2>1, <2>3
  <2> QED BY <2>2, <2>3
<1>19. Later(o.old.text)
  BY <1>3, <1>8, NoneAssumption
<1>20. Kept'
  <2>1. ASSUME ~spoilt', ~forgot', NEW v \in 1..MaxVersion, archive'[v] # None
        PROVE  v <= json.version /\ (v = json.version => archive'[v] = json)
    <3>1. CASE v = o.old.version
      BY <1>3, <1>8, <1>17, <2>1, <3>1
    <3>2. CASE v # o.old.version
      BY <1>1, <1>8, <1>17, <2>1, <3>2 DEF IInv, Kept
    <3> QED BY <3>1, <3>2
  <2>2. ASSUME ~spoilt', ~forgot', NEW f \in Engines \ stale, op'[f].at \in {"mkdir", "json"}, op'[f].basis # None
        PROVE  op'[f].old = op'[f].basis /\ Later(op'[f].basis.text)
    <3>1. CASE f = e
      BY <1>4, <1>6, <1>17, <1>19, <2>2, <3>1
    <3>2. CASE f # e
      BY <1>6, <1>17, <1>18, <2>2, <3>2 DEF IInv, Kept
    <3> QED BY <3>1, <3>2
  <2> QED BY <1>9, <2>1, <2>2 DEF Kept, Archived
<1>21. HistoryComplete'
  BY <1>9, <1>17, <1>18 DEF IInv, HistoryComplete, Archived
<1> QED BY <1>10, <1>11, <1>13, <1>14, <1>15, <1>16, <1>20, <1>21 DEF IInv

LEMMA MakeDirKeeps ==
  ASSUME IInv, NEW e \in Engines, MakeDir(e)
  PROVE  IInv'
<1> DEFINE o == op[e]
<1> DEFINE n == [o EXCEPT !.at = "json"]
<1>1. op[e].at = "mkdir"
  BY DEF MakeDir
<1>2. o \in Writing /\ o # Idle /\ Sound(o)
  BY <1>1, OpIs DEF IInv, Calls
<1>3. /\ n \in Writing /\ n.at = "json" /\ n # Idle
      /\ n.basis = o.basis /\ n.old = o.old /\ n.new = o.new
  BY <1>2 DEF Writing, Idle
<1>4. op' = [op EXCEPT ![e] = n] /\ op \in [Engines -> {Idle} \cup Writing]
  BY DEF MakeDir, IInv, TypeOK
<1> HIDE DEF n
<1>5. /\ op'[e] = n
      /\ \A f \in Engines \ {e} : op'[f] = op[f]
      /\ op' \in [Engines -> {Idle} \cup Writing]
  BY <1>3, <1>4
<1>6. /\ dir' = TRUE /\ born' = (born \/ o.basis = None)
      /\ UNCHANGED <<json, md, archive, cache, texts, crashes, stale, ever, spoilt, torn,
                     forgot, interrupted>>
  BY DEF MakeDir
<1>7. TypeOK'
  BY <1>3, <1>5, <1>6 DEF IInv, TypeOK
<1>8. Calls'
  <2>1. Sound(n)
    BY <1>1, <1>2, <1>3 DEF Sound
  <2> QED BY <1>5, <2>1 DEF IInv, Calls
<1>9. Bare' /\ Cached' /\ HistoryComplete'
  BY <1>1, <1>3, <1>5, <1>6 DEF IInv, Bare, Cached, HistoryComplete, Archived
<1>10. Current'
  BY <1>1, <1>3, <1>5, <1>6 DEF IInv, Current, Loaded
<1>11. MdFollows'
  BY <1>1, <1>3, <1>5, <1>6 DEF IInv, MdFollows
<1>12. Kept'
  BY <1>1, <1>3, <1>5, <1>6 DEF IInv, Kept, Archived
<1>13. Alive' /\ DeletedStaysDeleted'
  BY <1>1, <1>3, <1>5, <1>6 DEF IInv, Alive, DeletedStaysDeleted
<1> QED BY <1>7, <1>8, <1>9, <1>10, <1>11, <1>12, <1>13 DEF IInv

LEMMA WriteJsonKeeps ==
  ASSUME IInv, NEW e \in Engines, WriteJson(e)
  PROVE  IInv'
<1> DEFINE o == op[e]
<1> DEFINE n == [o EXCEPT !.at = "md"]
<1>1. op[e].at = "json" /\ dir
  BY DEF WriteJson
<1>2. o \in Writing /\ o # Idle
  BY <1>1, OpIs DEF IInv
<1>3. /\ o.new \in Contents /\ o.new # None
      /\ o.new.version = NextVersion(o.old) /\ (o.old = None <=> o.basis = None)
      /\ o.basis \in Contents \cup {None}
  BY <1>1, <1>2, NoneAssumption DEF IInv, Calls, Sound, Writing
<1>4. /\ n \in Writing /\ n.at = "md" /\ n # Idle
      /\ n.basis = o.basis /\ n.old = o.old /\ n.new = o.new
  BY <1>2 DEF Writing, Idle
<1>5. op' = [op EXCEPT ![e] = n] /\ op \in [Engines -> {Idle} \cup Writing]
  BY DEF WriteJson, IInv, TypeOK
<1> HIDE DEF n
<1>6. /\ op'[e] = n
      /\ \A f \in Engines \ {e} : op'[f] = op[f]
      /\ op' \in [Engines -> {Idle} \cup Writing]
  BY <1>4, <1>5
<1>7. /\ json' = o.new
      /\ stale' = (IF o.new = Loaded THEN stale ELSE Engines) \ {e}
      /\ ever' = ever \cup {o.new.text}
      /\ spoilt' = (spoilt \/ e \in stale)
      /\ UNCHANGED <<dir, born, torn, md, archive, cache, texts, crashes, forgot, interrupted>>
  BY DEF WriteJson, Overtake
<1>8. \A f \in Engines \ stale' : f # e => o.new = Loaded /\ f \notin stale
  BY <1>7
<1>19. Loaded' = o.new
  BY <1>3, <1>7 DEF Loaded
<1>9. TypeOK'
  <2>1. o.new.text \in Texts
    BY <1>3 DEF Contents
  <2> QED BY <1>3, <1>4, <1>6, <1>7, <2>1 DEF IInv, TypeOK
<1>10. Calls'
  <2>1. Sound(n)
    BY <1>3, <1>4 DEF Sound
  <2> QED BY <1>6, <2>1 DEF IInv, Calls
<1>11. Bare' /\ Cached'
  BY <1>1, <1>3, <1>4, <1>6, <1>7 DEF IInv, Bare, Cached
<1>12. Current'
  <2>1. SUFFICES ASSUME NEW f \in Engines \ stale'
        PROVE  /\ op'[f] = Idle /\ cache'[f] # None => cache'[f] = Loaded'
               /\ op'[f].at \in {"archive", "mkdir", "json", "usage"} =>
                    op'[f].basis = Loaded'
               /\ op'[f].at = "md" => op'[f].new = json'
    BY DEF Current
  <2>2. CASE f = e
    BY <1>4, <1>6, <1>7, <2>2
  <2>3. CASE f # e
    <3>1. ASSUME op[f].at = "md" PROVE op[f].new = Loaded
      <4>1. op[f] \in Writing /\ f \in Engines \ stale
        BY <1>8, <2>1, <2>3, <3>1, OpIs DEF IInv
      <4>2. op[f].new = json /\ op[f].new # None
        BY <3>1, <4>1, NoneAssumption DEF IInv, Current, Writing
      <4> QED BY <4>2 DEF Loaded
    <3> QED BY <1>6, <1>7, <1>8, <1>19, <2>1, <2>3, <3>1 DEF IInv, Current
  <2> QED BY <2>2, <2>3
<1>13. MdFollows'
  BY <1>4, <1>6, <1>7 DEF MdFollows
<1>14. Alive'
  BY <1>1, <1>4, <1>6, <1>7 DEF IInv, Alive
<1>15. DeletedStaysDeleted'
  BY <1>7 DEF IInv, DeletedStaysDeleted
\* If this is no mistake, the skill it replaces is in the history.
<1>16. ~spoilt' /\ ~forgot' =>
         /\ ~spoilt /\ ~forgot /\ e \notin stale /\ o.basis = json
         /\ json # None => o.old = json /\ Archived(json.text)
  <2>1. ~spoilt' => ~spoilt /\ e \notin stale /\ o.basis = Loaded
    BY <1>1, <1>7 DEF IInv, Current
  <2>2. ~spoilt' => o.basis = json
    BY <2>1 DEF IInv, Bare, Loaded
  <2> QED BY <1>1, <1>7, <2>1, <2>2 DEF IInv, Kept
<1>17. Kept'
  <2>1. ASSUME ~spoilt', ~forgot', NEW v \in 1..MaxVersion, archive[v] # None
        PROVE  v <= o.new.version /\ v # o.new.version
    <3>1. json # None
      BY <1>16, <2>1 DEF IInv, Bare
    <3>2. v <= json.version /\ json \in Contents /\ json.version \in Nat
      BY <1>16, <2>1, <3>1 DEF IInv, Kept, TypeOK, Contents
    <3>3. o.new.version = json.version + 1
      BY <1>3, <1>16, <2>1, <3>1 DEF NextVersion
    <3> QED BY <3>2, <3>3
  <2>2. ASSUME ~spoilt', ~forgot', NEW f \in Engines \ stale', op'[f].at \in {"mkdir", "json"},
               op'[f].basis # None
        PROVE  op'[f].old = op'[f].basis /\ Archived(op'[f].basis.text)
    <3>1. f # e
      BY <1>4, <1>6, <2>2
    <3> QED BY <1>6, <1>8, <1>16, <2>2, <3>1 DEF IInv, Kept
  <2> QED BY <1>7, <2>1, <2>2 DEF Kept, Archived
<1>18. HistoryComplete'
  <2>1. SUFFICES ASSUME ~spoilt', ~forgot', NEW text \in ever, text # o.new.text
                 PROVE  Archived(text)
    BY <1>7 DEF HistoryComplete, Archived
  <2>2. json # None
    BY <2>1 DEF IInv, Bare
  <2> QED BY <1>16, <2>1, <2>2 DEF IInv, HistoryComplete
<1> QED BY <1>9, <1>10, <1>11, <1>12, <1>13, <1>14, <1>15, <1>17, <1>18 DEF IInv

LEMMA WriteMdKeeps ==
  ASSUME IInv, NEW e \in Engines, WriteMd(e)
  PROVE  IInv'
<1> DEFINE o == op[e]
<1>1. o.at = "md" /\ dir
  BY DEF WriteMd
<1>2. o \in Writing
  BY <1>1, OpIs DEF IInv
<1>3. o.new \in Contents /\ o.new # None
  BY <1>2, NoneAssumption DEF Writing, Contents
<1>4. op' = [op EXCEPT ![e] = Idle] /\ op \in [Engines -> {Idle} \cup Writing]
  BY DEF WriteMd, IInv, TypeOK
<1>5. /\ op'[e] = Idle /\ op'[e].at = "idle"
      /\ \A f \in Engines \ {e} : op'[f] = op[f]
      /\ op' \in [Engines -> {Idle} \cup Writing]
  BY <1>4 DEF Idle
<1>6. cache' = [cache EXCEPT ![e] = o.new] /\ cache \in [Engines -> Contents \cup {None}]
  BY DEF WriteMd, IInv, TypeOK
<1>7. /\ cache'[e] = o.new
      /\ \A f \in Engines \ {e} : cache'[f] = cache[f]
      /\ cache' \in [Engines -> Contents \cup {None}]
  BY <1>3, <1>6
<1>8. /\ md' = o.new /\ spoilt' = (spoilt \/ e \in stale)
      /\ torn' = (torn /\ e \in stale)
      /\ stale' = IF json = None THEN Engines ELSE stale
      /\ UNCHANGED <<dir, json, archive, texts, crashes, ever, born, forgot, interrupted>>
  BY DEF WriteMd, Markdown
<1>9. TypeOK'
  BY <1>3, <1>5, <1>7, <1>8 DEF IInv, TypeOK
<1>10. Calls' /\ Cached' /\ DeletedStaysDeleted' /\ HistoryComplete'
  BY <1>5, <1>7, <1>8 DEF IInv, Calls, Cached, DeletedStaysDeleted, HistoryComplete, Archived
<1>15. e \notin stale => o.new = json
  BY <1>1 DEF IInv, Current
<1>16. Bare'
  BY <1>1, <1>3, <1>8, <1>15 DEF IInv, Bare
<1>11. Current'
  <2>1. CASE json = None
    BY <1>8, <2>1 DEF Current
  <2>2. CASE json # None
    <3>1. Loaded = json /\ Loaded' = json /\ stale' = stale
      BY <1>8, <2>2 DEF Loaded
    <3>2. SUFFICES ASSUME NEW f \in Engines \ stale
          PROVE  /\ op'[f] = Idle /\ cache'[f] # None => cache'[f] = json
                 /\ op'[f].at \in {"archive", "mkdir", "json", "usage"} => op'[f].basis = json
                 /\ op'[f].at = "md" => op'[f].new = json
      BY <1>8, <3>1 DEF Current
    <3>3. CASE f = e
      BY <1>5, <1>7, <1>15, <3>3
    <3>4. CASE f # e
      BY <1>5, <1>7, <3>1, <3>4 DEF IInv, Current
    <3> QED BY <3>3, <3>4
  <2> QED BY <2>1, <2>2
<1>12. MdFollows'
  BY <1>8, <1>15 DEF MdFollows
<1>13. Kept'
  BY <1>5, <1>8 DEF IInv, TypeOK, Kept, Archived
<1>14. Alive'
  BY <1>5, <1>8 DEF IInv, Alive
<1> QED BY <1>9, <1>10, <1>11, <1>12, <1>13, <1>14, <1>16 DEF IInv

LEMMA WriteUsageKeeps ==
  ASSUME IInv, NEW e \in Engines, WriteUsage(e)
  PROVE  IInv'
<1> DEFINE o == op[e]
<1>1. o.at = "usage"
  BY DEF WriteUsage
<1>2. o \in Writing /\ o # Idle
  BY <1>1, OpIs DEF IInv
<1>3. /\ o.new \in Contents /\ o.new # None /\ o.new.text \in Texts
      /\ o.new = o.basis
  BY <1>1, <1>2, NoneAssumption DEF Writing, Contents, IInv, Calls, Sound
<1>4. op' = [op EXCEPT ![e] = Idle] /\ op \in [Engines -> {Idle} \cup Writing]
  BY DEF WriteUsage, IInv, TypeOK
<1>5. /\ op'[e] = Idle /\ op'[e].at = "idle"
      /\ \A f \in Engines \ {e} : op'[f] = op[f]
      /\ op' \in [Engines -> {Idle} \cup Writing]
  BY <1>4 DEF Idle
<1>6. cache' = [cache EXCEPT ![e] = o.new] /\ cache \in [Engines -> Contents \cup {None}]
  BY DEF WriteUsage, IInv, TypeOK
<1>7. /\ cache'[e] = o.new
      /\ \A f \in Engines \ {e} : cache'[f] = cache[f]
      /\ cache' \in [Engines -> Contents \cup {None}]
  BY <1>3, <1>6
<1>8. UNCHANGED <<dir, md, archive, texts, crashes, born, torn, forgot, interrupted>>
  BY DEF WriteUsage
<1>9. CASE json # None
  <2>1. /\ json' = o.new
        /\ stale' = (IF o.new = Loaded THEN stale ELSE Engines) \ {e}
        /\ ever' = ever \cup {o.new.text}
        /\ spoilt' = (spoilt \/ e \in stale)
    BY <1>9 DEF WriteUsage, Overtake
  <2>2. \A f \in Engines \ stale' : f # e => o.new = json /\ f \notin stale
    BY <1>9, <2>1 DEF Loaded
  <2>3. ~spoilt' => ~spoilt /\ e \notin stale /\ json' = json
    BY <1>1, <1>3, <1>9, <2>1 DEF IInv, Current, Loaded
  <2>4. TypeOK'
    BY <1>3, <1>5, <1>7, <1>8, <2>1 DEF IInv, TypeOK
  <2>5. Calls' /\ Cached' /\ Bare' /\ DeletedStaysDeleted'
    BY <1>3, <1>5, <1>7, <1>8, <1>9, <2>1 DEF IInv, Calls, Cached, Bare, DeletedStaysDeleted
  <2>6. Current'
    <3>1. SUFFICES ASSUME NEW f \in Engines \ stale'
          PROVE  /\ op'[f] = Idle /\ cache'[f] # None => cache'[f] = json'
                 /\ op'[f].at \in {"archive", "mkdir", "json", "usage"} => op'[f].basis = json'
                 /\ op'[f].at = "md" => op'[f].new = json'
      BY <1>3, <2>1 DEF Current, Loaded
    <3>2. CASE f = e
      BY <1>5, <1>7, <2>1, <3>2
    <3>3. CASE f # e
      BY <1>5, <1>7, <1>9, <2>1, <2>2, <3>3 DEF IInv, Current, Loaded
    <3> QED BY <3>2, <3>3
  <2>7. MdFollows'
    <3>1. \A f \in Engines : op[f].at = "md" => op'[f] = op[f]
      BY <1>1, <1>5
    <3> QED BY <1>8, <2>3, <3>1 DEF IInv, MdFollows
  <2>8. Kept'
    <3>1. \A f \in Engines \ stale' : op'[f].at \in {"mkdir", "json"} => f # e /\ op'[f] = op[f] /\ f \notin stale
      BY <1>5, <2>2
    <3> QED BY <1>8, <2>3, <3>1 DEF IInv, Kept, Archived
  <2>9. Alive'
    BY <1>5, <1>8 DEF IInv, Alive
  <2>10. HistoryComplete'
    BY <1>8, <2>1, <2>3 DEF IInv, HistoryComplete, Archived
  <2> QED BY <2>4, <2>5, <2>6, <2>7, <2>8, <2>9, <2>10 DEF IInv
<1>10. CASE json = None
  <2>1. UNCHANGED <<json, stale, ever, spoilt>>
    BY <1>10 DEF WriteUsage
  <2>2. e \notin stale => o.new = Loaded
    BY <1>1, <1>3 DEF IInv, Current
  <2>3. TypeOK' /\ Calls' /\ Cached' /\ Bare' /\ DeletedStaysDeleted' /\ HistoryComplete'
    BY <1>3, <1>5, <1>7, <1>8, <2>1
    DEF IInv, TypeOK, Calls, Cached, Bare, DeletedStaysDeleted, HistoryComplete, Archived
  <2>4. Current'
    BY <1>5, <1>7, <1>8, <2>1, <2>2 DEF IInv, Current, Loaded
  <2>5. MdFollows'
    BY <1>1, <1>5, <1>8, <2>1 DEF IInv, MdFollows
  <2>6. Kept'
    BY <1>5, <1>8, <2>1 DEF IInv, Kept, Archived
  <2>7. Alive'
    BY <1>5, <1>8 DEF IInv, Alive
  <2> QED BY <2>3, <2>4, <2>5, <2>6, <2>7 DEF IInv
<1> QED BY <1>9, <1>10

LEMMA CrashKeeps ==
  ASSUME IInv, NEW p \in Processes, Crash(p)
  PROVE  IInv'
<1>1. \A e \in Engines :
        /\ op'[e] = IF Owner[e] = p THEN Idle ELSE op[e]
        /\ cache'[e] = IF Owner[e] = p THEN None ELSE cache[e]
  BY DEF Crash
<1>2. /\ op' \in [Engines -> {Idle} \cup Writing]
      /\ cache' \in [Engines -> Contents \cup {None}]
  BY DEF Crash, IInv, TypeOK
<1>3. Idle.at = "idle"
  BY DEF Idle
<1>4. /\ UNCHANGED <<dir, json, md, archive, texts, stale, ever, born, spoilt, forgot, interrupted>>
      /\ torn' = (torn \/ \E e \in Engines : Owner[e] = p /\ op[e].at = "md")
      /\ crashes' \in 0..MaxCrashes
  BY BoundsAssumption DEF Crash, disk, IInv, TypeOK
<1>5. TypeOK'
  BY <1>1, <1>2, <1>3, <1>4 DEF IInv, TypeOK
<1>6. Calls' /\ Cached' /\ Bare' /\ DeletedStaysDeleted' /\ HistoryComplete'
  BY <1>1, <1>3, <1>4 DEF IInv, Calls, Cached, Bare, DeletedStaysDeleted, HistoryComplete, Archived
<1>7. Current'
  BY <1>1, <1>3, <1>4 DEF IInv, Current, Loaded
<1>8. MdFollows'
  BY <1>1, <1>4 DEF IInv, MdFollows
<1>9. Kept'
  BY <1>1, <1>3, <1>4 DEF IInv, Kept, Archived
<1>10. Alive'
  BY <1>1, <1>3, <1>4 DEF IInv, Alive
<1> QED BY <1>5, <1>6, <1>7, <1>8, <1>9, <1>10 DEF IInv

-----------------------------------------------------------------------------
(* The theorems.                                                           *)

LEMMA InitHolds == Init => IInv
<1> SUFFICES ASSUME Init PROVE IInv
  OBVIOUS
<1>1. TypeOK
  <2>1. /\ archive \in [1..MaxVersion -> Contents \cup {None}]
        /\ cache \in [Engines -> Contents \cup {None}]
        /\ op \in [Engines -> {Idle} \cup Writing]
    BY DEF Init
  <2>2. \A e \in Engines : op[e].at = "archive" => op[e].old # None
    BY DEF Init, Idle
  <2>3. texts \in 0..MaxTexts /\ crashes \in 0..MaxCrashes
    BY BoundsAssumption DEF Init
  <2> QED BY <2>1, <2>2, <2>3 DEF Init, TypeOK
<1>2. Calls /\ Bare /\ MdFollows /\ HistoryComplete /\ DeletedStaysDeleted
  BY DEF Init, Calls, Bare, MdFollows, HistoryComplete, DeletedStaysDeleted
<1>3. Current /\ Cached /\ Kept /\ Alive
  BY DEF Init, Current, Cached, Kept, Alive, Idle, Loaded
<1> QED BY <1>1, <1>2, <1>3 DEF IInv

LEMMA StepHolds == IInv /\ [Next]_vars => IInv'
<1> SUFFICES ASSUME IInv, [Next]_vars PROVE IInv'
  OBVIOUS
<1>1. ASSUME NEW e \in Engines,
             \/ Create(e) \/ PatchCopy(e) \/ PatchAlias(e) \/ Rollback(e) \/ RecordUsage(e)
             \/ Look(e) \/ Renew(e) \/ Delete(e)
      PROVE  IInv'
  BY <1>1, CreateKeeps, PatchCopyKeeps, PatchAliasKeeps, RollbackKeeps, RecordUsageKeeps,
     LookKeeps, RenewKeeps, DeleteKeeps
<1>2. ASSUME NEW e \in Engines,
             \/ Raise(e) \/ Archive(e) \/ MakeDir(e) \/ WriteJson(e) \/ WriteMd(e) \/ WriteUsage(e)
      PROVE  IInv'
  BY <1>2, RaiseKeeps, ArchiveKeeps, MakeDirKeeps, WriteJsonKeeps, WriteMdKeeps,
     WriteUsageKeeps
<1>3. ASSUME NEW p \in Processes, Crash(p)
      PROVE  IInv'
  BY <1>3, CrashKeeps
<1>4. CASE UNCHANGED vars
  <2>1. UNCHANGED <<dir, json, md, archive, cache, op, texts, crashes, stale, ever,
                    born, spoilt, torn, forgot, interrupted>>
    BY <1>4 DEF vars, disk, history
  <2>2. TypeOK' /\ Calls' /\ Cached' /\ Bare'
    BY <2>1 DEF IInv, TypeOK, Calls, Cached, Bare
  <2>3. Current' /\ MdFollows' /\ Alive' /\ DeletedStaysDeleted'
    BY <2>1 DEF IInv, Current, Loaded, MdFollows, Alive, DeletedStaysDeleted
  <2>4. Kept' /\ HistoryComplete'
    BY <2>1 DEF IInv, Kept, HistoryComplete, Archived
  <2> QED BY <2>2, <2>3, <2>4 DEF IInv
<1> QED BY <1>1, <1>2, <1>3, <1>4 DEF Next

\* The invariant that implies the others holds of every execution of the
\* engines of skills/engine.py.
THEOREM Invariant == Spec => []IInv
BY InitHolds, StepHolds, PTL DEF Spec

\* The state of a skill's directory, the caches and the calls is well typed.
THEOREM TypeCorrect == Spec => []TypeOK
<1>1. IInv => TypeOK
  BY DEF IInv
<1> QED BY <1>1, Invariant, PTL

\* What a resting engine of skills/engine.py has cached is what a read of the
\* directory gives, unless another engine has overtaken it or a call of its own
\* was cut off before SKILL.md or after patch had changed the object in the cache.
THEOREM CachesAreCurrent == Spec => []CacheIsCurrent
<1>1. IInv => CacheIsCurrent
  BY DEF IInv, Current, CacheIsCurrent
<1> QED BY <1>1, Invariant, PTL

\* When nobody writes, the two files of ensure_skill agree, unless a write went
\* over something its call had not read or the last call that wrote skill.json
\* raised or died before SKILL.md.
THEOREM MarkdownFollows == Spec => []MarkdownAgrees
<1>1. IInv => MarkdownAgrees
  BY DEF IInv, MdFollows, MarkdownAgrees, Idle
<1> QED BY <1>1, Invariant, PTL

\* No text the skill ever had is missing from skill.json and the history
\* _archive_version keeps, unless a write went over something its call had not
\* read or patch was given the object in the cache.
THEOREM NoTextIsLost == Spec => []HistoryComplete
<1>1. IInv => HistoryComplete
  BY DEF IInv
<1> QED BY <1>1, Invariant, PTL

\* Only a call that found no skill makes the skill's directory: patch, rollback
\* and record_usage of an engine that still caches a deleted skill do not.
THEOREM DeletedSkillsStayDeleted == Spec => []DeletedStaysDeleted
<1>1. IInv => DeletedStaysDeleted
  BY DEF IInv
<1> QED BY <1>1, Invariant, PTL
=============================================================================
