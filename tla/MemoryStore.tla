----------------------------- MODULE MemoryStore -----------------------------
(***************************************************************************)
(* The memory of the agent: two text files of entries (memory/storage/     *)
(* store.py), the MemoryStore objects that read and write them, and the    *)
(* index that FileMemoryStrategy (memory/strategies/file_memory.py) keeps  *)
(* for its searches.                                                       *)
(*                                                                         *)
(* A store keeps what it once read of a file until it writes that file     *)
(* itself; another store's write goes unnoticed.  Stores of one process    *)
(* take turns, a call being synchronous; those of two processes interleave *)
(* between any two accesses to the files or the index.                     *)
(*                                                                         *)
(* The order of the entries is left out: a file is a bag of texts.  So are *)
(* the metadata of entries, which only order them in a prompt, and the     *)
(* consolidation of a full file: it reads an attribute that a store does   *)
(* not have (core/consolidator.py:37), and its error is swallowed.         *)
(***************************************************************************)
EXTENDS Integers, FiniteSets

CONSTANTS
  Stores,       \* MemoryStore objects
  Processes,    \* running programs
  Owner,        \* Owner[s]: the process store s lives in
  Strategies,   \* the stores behind a FileMemoryStrategy, with an index
  Requests,     \* the stores made anew for every call
  Limit,        \* Limit[t]: how many characters the file of t may have
  Texts,        \* what a call can name
  Strip,        \* Strip[x]: x without blanks around it
  Pieces,       \* Pieces[x]: the entries that a file with x alone is read as:
                \* x is split where it holds the separator
  Length,       \* Length[x]: its characters
  Old,          \* Old[t]: the entries of the former format
  MaxCalls,     \* bound: calls that are not refused
  MaxCrashes    \* bound: processes that die

\* Each is a file.
Targets == {"memory", "user"}

Bags == [Texts -> Nat]
Nothing == [x \in Texts |-> 0]
SeparatorLength == 3

ASSUME StoresAssumption ==
  /\ Owner \in [Stores -> Processes]
  /\ Strategies \subseteq Stores /\ Requests \subseteq Stores \ Strategies
\* What a file is read as are entries without blanks around them.
ASSUME TextsAssumption ==
  /\ IsFiniteSet(Texts)
  /\ Strip \in [Texts -> Texts] /\ Pieces \in [Texts -> Bags] /\ Length \in [Texts -> Nat]
  /\ \A x \in Texts : Pieces[x] = Pieces[Strip[x]]
  /\ \A x, y \in Texts : Pieces[x][y] > 0 => Strip[y] = y
ASSUME FilesAssumption ==
  Limit \in [Targets -> Nat] /\ Old \in [Targets -> Bags]
ASSUME BoundsAssumption == MaxCalls \in Nat /\ MaxCrashes \in Nat

VARIABLES
  made,         \* the directory of the files exists
  file,         \* file[t]: the entries in the file of t
  filled,       \* filled[s]: the targets whose entries store s has cached
  cache,        \* cache[s][t]: those entries
  op,           \* op[s]: the call store s is in
  index,        \* the texts a search can find
  calls,        \* how many calls there were
  crashes,      \* how many processes have died
  behind,       \* history: <<s, t>> where another store has written t since s
                \* cached it, or began to migrate it
  drifted       \* history: the texts about which the index may be wrong

store == <<filled, cache>>
vars == <<made, file, store, op, index, calls, crashes, behind, drifted>>

Idle == [at |-> "idle"]

\* Where the file is written, and the index not yet.
Indexing == {"written", "unindex", "index"}

\* The calls of one process are synchronous.  A strategy loads its snapshot, and
\* so migrates, before it does anything else.
Free(s) ==
  /\ \A r \in Stores : Owner[r] = Owner[s] => op[r] = Idle
  /\ s \in Strategies => made

-----------------------------------------------------------------------------
(* Entries.                                                                *)

\* The characters of every copy of an entry, and of the separator behind it.
Characters(b) ==
  UNION {{x} \X ((1..b[x]) \X (1..(Length[x] + SeparatorLength))) : x \in Texts}

\* How long the joined text is.
Size(b) == IF b = Nothing THEN 0 ELSE Cardinality(Characters(b)) - SeparatorLength

Fits(t, b) == Size(b) <= Limit[t]

Without(b, x) == [b EXCEPT ![x] = 0]

\* add appends; replace puts the new entry in every place of the old one;
\* remove leaves out every entry equal to the text.
Added(b, new) == [x \in Texts |-> b[x] + Pieces[new][x]]
Replaced(b, old, new) ==
  [x \in Texts |-> Without(b, Strip[old])[x] + b[Strip[old]] * Pieces[new][x]]
Removed(b, old) == Without(b, Strip[old])

Result(b, c) ==
  CASE c.call = "add" -> Added(b, c.new)
    [] c.call = "replace" -> Replaced(b, c.old, c.new)
    [] c.call = "remove" -> Removed(b, c.old)

\* Mutant: replace does not look at the limit.
RefusesUnlessAdded(t, b, c) ==
  \/ c.call # "remove" /\ Pieces[c.new] = Nothing
  \/ c.call = "add" /\ (b[Strip[c.new]] > 0 \/ ~Fits(t, Result(b, c)))
  \/ c.call # "add" /\ b[Strip[c.old]] = 0

\* An empty text, a duplicate, an entry that is not there, a text too long.
Refuses(t, b, c) ==
  \/ c.call # "remove" /\ (Pieces[c.new] = Nothing \/ ~Fits(t, Result(b, c)))
  \/ c.call = "add" /\ b[Strip[c.new]] > 0
  \/ c.call # "add" /\ b[Strip[c.old]] = 0

\* old and new are the same text where the call has only one.
Calls ==
  [call : {"add", "remove", "replace"}, old : Texts, new : Texts]
SensibleCalls == {c \in Calls : c.call = "replace" \/ c.old = c.new}

-----------------------------------------------------------------------------
(* Reading.                                                                *)

Entries(s, t) == IF t \in filled[s] THEN cache[s][t] ELSE file[t]

\* Mutant: an empty list is not taken for a cached one.
ParseNonEmpty(s, ts) ==
  /\ filled' = [filled EXCEPT ![s] = @ \cup {t \in ts : Entries(s, t) # Nothing}]
  /\ cache' = [cache EXCEPT ![s] = [t \in Targets |->
                 IF t \in ts THEN Entries(s, t) ELSE cache[s][t]]]

\* _parse_entries of some targets: those not cached are read.
Parse(s, ts) ==
  /\ filled' = [filled EXCEPT ![s] = @ \cup ts]
  /\ cache' = [cache EXCEPT ![s] = [t \in Targets |->
                 IF t \in ts THEN Entries(s, t) ELSE cache[s][t]]]

\* Loading a snapshot, listing the entries, and calls that are refused.
Look(s) ==
  /\ Free(s) /\ s \notin Requests
  /\ \E t \in Targets \ filled[s] : Parse(s, {t})
  /\ UNCHANGED <<made, file, op, index, calls, crashes, behind, drifted>>

-----------------------------------------------------------------------------
(* Writing.                                                                *)

WillMigrate(s, t) == op[s].at = "migrate" /\ op[s].target \in {t, "memory"}

\* Every other store that has t cached, or is about to migrate it, is behind.
Overtaken(s, t) == {r \in Stores \ {s} : t \in filled[r] \/ WillMigrate(r, t)} \X {t}

\* Mutant: the cache outlives the write.
InvalidateNothing(s, t) ==
  /\ UNCHANGED store
  /\ behind' = (behind \ {<<s, t>>}) \cup Overtaken(s, t)

Invalidate(s, t) ==
  /\ filled' = [filled EXCEPT ![s] = @ \ {t}]
  /\ cache' = [cache EXCEPT ![s][t] = Nothing]
  /\ behind' = (behind \ {<<s, t>>}) \cup Overtaken(s, t)

\* Reads the entries and accepts the call.
Begin(s) ==
  /\ Free(s)
  /\ \E t \in Targets, c \in SensibleCalls :
       /\ ~Refuses(t, Entries(s, t), c)
       /\ op' = [op EXCEPT ![s] = [at |-> "call", target |-> t, call |-> c]]
       /\ Parse(s, {t})
  /\ calls < MaxCalls /\ calls' = calls + 1
  /\ UNCHANGED <<made, file, index, crashes, behind, drifted>>

Named(c) == {c.old, c.new}

\* The calls that have written their file, but not yet the index, name x.
Pending(x) == \E r \in Stores : op[r].at \in Indexing /\ x \in Named(op[r].call)

\* The texts that come to or go from a file that will hold b.
Changed(t, b) == {x \in Texts : (file[t][x] > 0) # (b[x] > 0)}

\* The index follows a strategy that is not behind, in a call whose texts are
\* entries themselves; but two calls in progress on one text may index in
\* either order.  Any other write it overlooks.
Overlooked(s, t, c) ==
  IF /\ s \in Strategies /\ <<s, t>> \notin behind
     /\ \A x \in Named(c) : Pieces[x] = [Nothing EXCEPT ![x] = 1]
  THEN {x \in Named(c) : Pending(x)}
  ELSE Named(c) \cup Changed(t, Result(cache[s][t], c))

\* Writes the file: by a rename, so at once, and drops what the store has cached of it.
Write(s) ==
  /\ op[s].at = "call"
  /\ LET t == op[s].target  c == op[s].call IN
       /\ made' = TRUE
       /\ file' = [file EXCEPT ![t] = Result(cache[s][t], c)]
       /\ Invalidate(s, t)
       /\ drifted' = drifted \cup Overlooked(s, t, c)
  /\ op' = [op EXCEPT ![s].at = "written"]
  /\ UNCHANGED <<index, calls, crashes>>

\* get_usage, and refresh_snapshot of a strategy, read again; the store of a
\* request is gone with its answer.
Reread(s) ==
  /\ op[s].at = "written"
  /\ IF s \in Requests
       THEN /\ filled' = [filled EXCEPT ![s] = {}]
            /\ cache' = [cache EXCEPT ![s] = [t \in Targets |-> Nothing]]
            /\ behind' = {b \in behind : b[1] # s}
       ELSE /\ Parse(s, IF s \in Strategies THEN Targets ELSE {op[s].target})
            /\ UNCHANGED behind
  /\ op' = [op EXCEPT ![s] = IF s \in Strategies THEN [@ EXCEPT !.at = "unindex"] ELSE Idle]
  /\ UNCHANGED <<made, file, index, calls, crashes, drifted>>

\* Mutant: replace leaves the old text in the index.
UnindexRemoved(s) ==
  /\ op[s].at = "unindex"
  /\ LET c == op[s].call IN
       IF c.call # "remove" THEN UNCHANGED <<index, drifted>>
       ELSE \/ /\ index' = index \ {c.old}
               /\ drifted' = drifted \cup {x \in {c.old} : \E t \in Targets : file[t][x] > 0}
            \/ /\ drifted' = drifted \cup {c.old}
               /\ UNCHANGED index
  /\ op' = [op EXCEPT ![s] = IF @.call.call = "remove" THEN Idle ELSE [@ EXCEPT !.at = "index"]]
  /\ UNCHANGED <<made, file, store, calls, crashes, behind>>

\* The text leaves the index by the name the call gave it, whether or not
\* the other file has it too; or an error is swallowed.
Unindex(s) ==
  /\ op[s].at = "unindex"
  /\ LET c == op[s].call IN
       IF c.call = "add" THEN UNCHANGED <<index, drifted>>
       ELSE \/ /\ index' = index \ {c.old}
               /\ drifted' = drifted \cup {x \in {c.old} : \E t \in Targets : file[t][x] > 0}
            \/ /\ drifted' = drifted \cup {c.old}
               /\ UNCHANGED index
  /\ op' = [op EXCEPT ![s] = IF @.call.call = "remove" THEN Idle ELSE [@ EXCEPT !.at = "index"]]
  /\ UNCHANGED <<made, file, store, calls, crashes, behind>>

\* The new text is indexed, or an error is swallowed.
Index(s) ==
  /\ op[s].at = "index"
  /\ \/ index' = index \cup {op[s].call.new} /\ UNCHANGED drifted
     \/ drifted' = drifted \cup {op[s].call.new} /\ UNCHANGED index
  /\ op' = [op EXCEPT ![s] = Idle]
  /\ UNCHANGED <<made, file, store, calls, crashes, behind>>

-----------------------------------------------------------------------------
(* Migration, and processes that die.                                      *)

\* load_snapshot of a store that has read nothing yet, when there is no
\* directory: it is made first, and filled from the old files after.
Open(s) ==
  /\ \A r \in Stores : Owner[r] = Owner[s] => op[r] = Idle
  /\ s \in Strategies \cup Requests /\ filled[s] = {}
  /\ ~made /\ made' = TRUE
  /\ op' = [op EXCEPT ![s] = [at |-> "migrate", target |-> "memory"]]
  /\ UNCHANGED <<file, store, index, calls, crashes, behind, drifted>>

\* _atomic_write of the old entries, whatever their length.
Migrate(s) ==
  /\ op[s].at = "migrate"
  /\ LET t == op[s].target IN
       /\ IF Old[t] = Nothing
            THEN /\ behind' = behind \ {<<s, t>>}
                 /\ UNCHANGED file
            ELSE /\ file' = [file EXCEPT ![t] = Old[t]]
                 /\ behind' = (behind \ {<<s, t>>}) \cup Overtaken(s, t)
       /\ drifted' = drifted \cup {x \in Changed(t, Old[t]) : Old[t] # Nothing}
       /\ op' = [op EXCEPT ![s] =
                   IF t = "memory" THEN [@ EXCEPT !.target = "user"] ELSE Idle]
  /\ UNCHANGED <<made, store, index, calls, crashes>>

Crash(p) ==
  /\ crashes < MaxCrashes /\ crashes' = crashes + 1
  /\ LET dead == {s \in Stores : Owner[s] = p} IN
       /\ filled' = [s \in Stores |-> IF s \in dead THEN {} ELSE filled[s]]
       /\ cache' = [s \in Stores |-> IF s \in dead THEN [t \in Targets |-> Nothing] ELSE cache[s]]
       /\ op' = [s \in Stores |-> IF s \in dead THEN Idle ELSE op[s]]
       /\ behind' = {b \in behind : b[1] \notin dead}
       /\ drifted' = drifted \cup
                UNION {Named(op[s].call) : s \in {r \in dead : op[r].at \in Indexing}}
  /\ UNCHANGED <<made, file, index, calls>>

Init ==
  /\ made = FALSE
  /\ file = [t \in Targets |-> Nothing]
  /\ filled = [s \in Stores |-> {}]
  /\ cache = [s \in Stores |-> [t \in Targets |-> Nothing]]
  /\ op = [s \in Stores |-> Idle]
  /\ index = {}
  /\ calls = 0 /\ crashes = 0 /\ behind = {} /\ drifted = {}

Next ==
  \/ \E s \in Stores :
       Look(s) \/ Begin(s) \/ Write(s) \/ Reread(s) \/ Unindex(s) \/ Index(s)
         \/ Open(s) \/ Migrate(s)
  \/ \E p \in Processes : Crash(p)

Spec == Init /\ [][Next]_vars

-----------------------------------------------------------------------------
(* Properties.                                                             *)

Ops ==
  {Idle}
    \cup [at : {"call", "written", "unindex", "index"}, target : Targets, call : SensibleCalls]
    \cup [at : {"migrate"}, target : Targets]

\* Types.  A call has cached what it will write over; only targets that are cached, or
\* are to be migrated, can be behind.
TypeOK ==
  /\ made \in BOOLEAN /\ drifted \subseteq Texts
  /\ file \in [Targets -> Bags]
  /\ filled \in [Stores -> SUBSET Targets] /\ cache \in [Stores -> [Targets -> Bags]]
  /\ op \in [Stores -> Ops]
  /\ index \subseteq Texts /\ calls \in 0..MaxCalls /\ crashes \in 0..MaxCrashes
  /\ \A s \in Stores : op[s].at = "call" => op[s].target \in filled[s]
  /\ behind \subseteq Stores \X Targets
  /\ \A s \in Stores, t \in Targets :
       <<s, t>> \in behind => t \in filled[s] \/ WillMigrate(s, t)

\* What a store has cached is what the file says, unless another store has
\* written the file since: nothing else, neither its own writes and what it
\* reads after them nor a call that is refused, may leave a cache that differs.
\* (_invalidate_cache after every _atomic_write.)
CacheIsFileUnlessBehind ==
  \A s \in Stores, t \in Targets :
    t \in filled[s] /\ <<s, t>> \notin behind => cache[s][t] = file[t]

\* The file of t loses the entry a call names and no other, gains the entry
\* it brings and no other, ...
OnlyNamed(t, c) ==
  /\ \A x \in Texts : file'[t][x] < file[t][x] => c.call # "add" /\ x = Strip[c.old]
  /\ \A x \in Texts : file'[t][x] > file[t][x] => c.call # "remove" /\ Pieces[c.new][x] > 0

\* ... and grows to no more than its limit.
WithinLimit(t) == Fits(t, file'[t]) \/ Size(file'[t]) < Size(file[t])

\* No memory is lost or made up: a write by a store that no other has overtaken
\* changes only what its call names, all of it, and takes no file over its limit, even
\* one that a migration has made too long.  What a migration writes it puts
\* into an empty file, unless another store was there first.
WritesAreFaithful ==
  [][\A t \in Targets : file'[t] # file[t] =>
       \E s \in Stores :
         /\ op'[s] # op[s] /\ op[s].at \in {"call", "migrate"} /\ op[s].target = t
         /\ \/ <<s, t>> \in behind
            \/ op[s].at = "migrate" /\ file[t] = Nothing
            \/ /\ op[s].at = "call"
               /\ OnlyNamed(t, op[s].call) /\ WithinLimit(t)
               /\ op[s].call.call = "remove" => file'[t][Strip[op[s].call.old]] = 0]_vars

\* A search finds a text if and only if it is an entry of a file, unless a call
\* on that text has yet to index it or something happened that the index does not
\* follow: an error of the index about that text (which is swallowed), a process
\* that died before it indexed it, two calls on it at once, a change of it by a
\* store without an index or behind its file or by a migration, a removal of it
\* from one of two files that had it.  Whatever went wrong about one text, a
\* search stays exact about the others.  (FileMemoryStrategy.write, replace, remove.)
SearchIsExact ==
  \A x \in Texts \ drifted :
    ~Pending(x) => (x \in index <=> \E t \in Targets : file[t][x] > 0)
==============================================================================
