------------------------- MODULE MemoryStoreProofs -------------------------
(***************************************************************************)
(* Proofs about MemoryStore, for any stores, processes and texts: its      *)
(* types, that what a store has cached is what the file says unless        *)
(* another store has written the file since, that its writes lose and make *)
(* up nothing then, and that a search finds what the files hold.           *)
(***************************************************************************)
EXTENDS MemoryStore, FiniteSetTheorems, TLAPS

\* A store that migrates has read nothing.
MigratesUnread == \A s \in Stores : op[s].at = "migrate" => filled[s] = {}

IInv == TypeOK /\ MigratesUnread /\ CacheIsFileUnlessBehind

CallOp == [at : {"call", "written", "unindex", "index"}, target : Targets, call : SensibleCalls]
MigrateOp == [at : {"migrate"}, target : Targets]

\* A call in progress: its stages.
LEMMA OpStages ==
  /\ Idle \in Ops /\ Idle.at = "idle"
  /\ \A o \in Ops :
       /\ o.at \in {"idle", "call", "written", "unindex", "index", "migrate"}
       /\ o.at = "idle" => o = Idle
       /\ o.at \in {"call", "written", "unindex", "index"} => o \in CallOp
       /\ o.at = "migrate" => o \in MigrateOp
BY DEF Ops, Idle, CallOp, MigrateOp

\* It goes on to another stage.
LEMMA NextStage ==
  /\ \A o \in CallOp, a \in {"call", "written", "unindex", "index"} :
       LET p == [o EXCEPT !.at = a] IN
       p \in Ops /\ p.at = a /\ p.target = o.target /\ p.call = o.call
  /\ \A o \in MigrateOp, t \in Targets :
       LET p == [o EXCEPT !.target = t] IN p \in Ops /\ p.at = "migrate" /\ p.target = t
BY DEF Ops, CallOp, MigrateOp

\* What a call makes of a bag of entries is a bag of entries.
LEMMA ResultType ==
  ASSUME NEW b \in Bags, NEW c \in Calls
  PROVE  Result(b, c) \in Bags
<1>1. c.call \in {"add", "remove", "replace"} /\ c.old \in Texts /\ c.new \in Texts
  BY DEF Calls
<1>2. Strip[c.old] \in Texts /\ Pieces[c.new] \in Bags
  BY <1>1, TextsAssumption
<1>3. \A x \in Texts : b[x] \in Nat /\ Pieces[c.new][x] \in Nat
  BY <1>2 DEF Bags
<1>4. Without(b, Strip[c.old]) \in Bags
  BY <1>2 DEF Without, Bags
<1>5. Removed(b, c.old) \in Bags
  BY <1>4 DEF Removed
<1>6. Added(b, c.new) \in Bags
  BY <1>3 DEF Added, Bags
<1>7. Replaced(b, c.old, c.new) \in Bags
  <2>1. \A i, j \in Nat : i * j \in Nat
    OBVIOUS
  <2>2. b[Strip[c.old]] \in Nat
    BY <1>2, <1>3
  <2>3. \A x \in Texts : b[Strip[c.old]] * Pieces[c.new][x] \in Nat
    BY <1>3, <2>1, <2>2
  <2>4. \A x \in Texts : Without(b, Strip[c.old])[x] \in Nat
    BY <1>4 DEF Bags
  <2>5. \A i, j \in Nat : i + j \in Nat
    OBVIOUS
  <2> QED
    BY <2>3, <2>4, <2>5 DEF Replaced, Bags
<1> QED
  BY <1>1, <1>5, <1>6, <1>7 DEF Result

\* What a store reads has the type of entries.
LEMMA EntriesType ==
  ASSUME TypeOK, NEW s \in Stores, NEW t \in Targets
  PROVE  Entries(s, t) \in Bags
BY DEF TypeOK, Entries

LEMMA NothingType == Nothing \in Bags
BY DEF Nothing, Bags

\* What parsing does to the caches.
LEMMA ParseStep ==
  ASSUME TypeOK, NEW s \in Stores, NEW ts \in SUBSET Targets, Parse(s, ts)
  PROVE  /\ filled' \in [Stores -> SUBSET Targets]
         /\ cache' \in [Stores -> [Targets -> Bags]]
         /\ filled'[s] = filled[s] \cup ts
         /\ \A r \in Stores : r # s => filled'[r] = filled[r] /\ cache'[r] = cache[r]
         /\ \A t \in Targets : cache'[s][t] = IF t \in ts THEN Entries(s, t) ELSE cache[s][t]
<1> DEFINE x == [t \in Targets |-> IF t \in ts THEN Entries(s, t) ELSE cache[s][t]]
<1>1. x \in [Targets -> Bags]
  BY EntriesType DEF TypeOK
<1>2. cache' = [cache EXCEPT ![s] = x] /\ filled' = [filled EXCEPT ![s] = @ \cup ts]
  BY DEF Parse
<1>3. \A t \in Targets : x[t] = IF t \in ts THEN Entries(s, t) ELSE cache[s][t]
  OBVIOUS
<1> HIDE DEF x
<1>4. cache' \in [Stores -> [Targets -> Bags]] /\ cache'[s] = x
      /\ \A r \in Stores : r # s => cache'[r] = cache[r]
  BY <1>1, <1>2 DEF TypeOK
<1>5. filled' \in [Stores -> SUBSET Targets] /\ filled'[s] = filled[s] \cup ts
      /\ \A r \in Stores : r # s => filled'[r] = filled[r]
  BY <1>2 DEF TypeOK
<1> QED
  BY <1>3, <1>4, <1>5

\* What a write does to the caches.
LEMMA InvalidateStep ==
  ASSUME TypeOK, NEW s \in Stores, NEW t \in Targets, Invalidate(s, t)
  PROVE  /\ filled' \in [Stores -> SUBSET Targets]
         /\ cache' \in [Stores -> [Targets -> Bags]]
         /\ filled'[s] = filled[s] \ {t}
         /\ \A r \in Stores : r # s => filled'[r] = filled[r] /\ cache'[r] = cache[r]
         /\ \A u \in Targets : u # t => cache'[s][u] = cache[s][u]
<1> DEFINE x == [cache[s] EXCEPT ![t] = Nothing]
<1>1. x \in [Targets -> Bags] /\ \A u \in Targets : u # t => x[u] = cache[s][u]
  BY NothingType DEF TypeOK
<1>2. cache' = [cache EXCEPT ![s] = x] /\ filled' = [filled EXCEPT ![s] = @ \ {t}]
  BY DEF Invalidate
<1> HIDE DEF x
<1>3. cache' \in [Stores -> [Targets -> Bags]] /\ cache'[s] = x
      /\ \A r \in Stores : r # s => cache'[r] = cache[r]
  BY <1>1, <1>2 DEF TypeOK
<1>4. filled' \in [Stores -> SUBSET Targets] /\ filled'[s] = filled[s] \ {t}
      /\ \A r \in Stores : r # s => filled'[r] = filled[r]
  BY <1>2 DEF TypeOK
<1> QED
  BY <1>1, <1>3, <1>4

\* A store comes to another stage.
LEMMA OpSet ==
  ASSUME TypeOK, NEW s \in Stores, NEW x \in Ops, op' = [op EXCEPT ![s] = x]
  PROVE  /\ op' \in [Stores -> Ops] /\ op'[s] = x
         /\ \A r \in Stores : r # s => op'[r] = op[r]
BY DEF TypeOK

-----------------------------------------------------------------------------
(* The invariant.                                                          *)

\* It holds at first.
LEMMA InvInit == Init => IInv
<1> SUFFICES ASSUME Init PROVE IInv
  OBVIOUS
<1>1. /\ op \in [Stores -> Ops] /\ \A s \in Stores : op[s].at = "idle"
  BY OpStages DEF Init
<1>2. /\ file \in [Targets -> Bags] /\ cache \in [Stores -> [Targets -> Bags]]
      /\ filled \in [Stores -> SUBSET Targets] /\ \A s \in Stores : filled[s] = {}
  BY NothingType DEF Init
<1>3. calls \in 0..MaxCalls /\ crashes \in 0..MaxCrashes
  BY BoundsAssumption DEF Init
<1>4. TypeOK
  BY <1>1, <1>2, <1>3 DEF Init, TypeOK
<1>5. MigratesUnread /\ CacheIsFileUnlessBehind
  BY <1>1, <1>2 DEF MigratesUnread, CacheIsFileUnlessBehind
<1> QED
  BY <1>4, <1>5 DEF IInv

\* A store that does nothing reads: its cache grows by what the file says.
LEMMA ReadKeeps ==
  ASSUME IInv, NEW s \in Stores, NEW ts \in SUBSET Targets, Parse(s, ts),
         op[s].at # "migrate", UNCHANGED <<file, behind>>
  PROVE  CacheIsFileUnlessBehind'
<1>1. /\ filled'[s] = filled[s] \cup ts
      /\ \A r \in Stores : r # s => filled'[r] = filled[r] /\ cache'[r] = cache[r]
      /\ \A t \in Targets : cache'[s][t] = IF t \in ts THEN Entries(s, t) ELSE cache[s][t]
  BY ParseStep DEF IInv
<1> QED
  BY <1>1 DEF IInv, CacheIsFileUnlessBehind, Entries

LEMMA InvLook ==
  ASSUME IInv, NEW s \in Stores, Look(s)
  PROVE  IInv'
<1>1. PICK t \in Targets \ filled[s] : Parse(s, {t})
  BY DEF Look
<1>2. op[s] = Idle /\ UNCHANGED <<made, file, op, index, calls, crashes, behind, drifted>>
  BY DEF Look, Free
<1>3. /\ filled' \in [Stores -> SUBSET Targets] /\ cache' \in [Stores -> [Targets -> Bags]]
      /\ filled'[s] = filled[s] \cup {t}
      /\ \A r \in Stores : r # s => filled'[r] = filled[r]
  BY <1>1, ParseStep DEF IInv
<1>4. op[s].at # "migrate"
  BY <1>2, OpStages
<1>5. CacheIsFileUnlessBehind'
  BY <1>1, <1>2, <1>4, ReadKeeps
<1>6. MigratesUnread'
  BY <1>2, <1>3, <1>4 DEF IInv, MigratesUnread
<1>7. TypeOK'
  <2>1. \A r \in Stores : op[r].at = "call" => op[r].target \in filled'[r]
    BY <1>3 DEF IInv, TypeOK
  <2>2. \A r \in Stores, u \in Targets : <<r, u>> \in behind => u \in filled'[r] \/ WillMigrate(r, u)
    BY <1>3 DEF IInv, TypeOK
  <2> QED
    BY <1>2, <1>3, <2>1, <2>2 DEF IInv, TypeOK, WillMigrate
<1> QED
  BY <1>5, <1>6, <1>7 DEF IInv

LEMMA InvBegin ==
  ASSUME IInv, NEW s \in Stores, Begin(s)
  PROVE  IInv'
<1>1. PICK t \in Targets, c \in SensibleCalls :
        op' = [op EXCEPT ![s] = [at |-> "call", target |-> t, call |-> c]] /\ Parse(s, {t})
  BY DEF Begin
<1>2. /\ op[s] = Idle /\ UNCHANGED <<made, file, index, crashes, behind, drifted>>
      /\ calls' \in 0..MaxCalls
  BY BoundsAssumption DEF Begin, Free, IInv, TypeOK
<1>3. /\ filled' \in [Stores -> SUBSET Targets] /\ cache' \in [Stores -> [Targets -> Bags]]
      /\ filled'[s] = filled[s] \cup {t}
      /\ \A r \in Stores : r # s => filled'[r] = filled[r]
  BY <1>1, ParseStep DEF IInv
<1>4. op[s].at = "idle"
  BY <1>2, OpStages
<1>5. CacheIsFileUnlessBehind'
  BY <1>1, <1>2, <1>4, ReadKeeps
<1>6. [at |-> "call", target |-> t, call |-> c] \in Ops
  BY DEF Ops
<1>7. /\ op' \in [Stores -> Ops] /\ op'[s].at = "call" /\ op'[s].target = t
      /\ \A r \in Stores : r # s => op'[r] = op[r]
  BY <1>1, <1>6, OpSet DEF IInv
<1>8. MigratesUnread'
  BY <1>3, <1>7 DEF IInv, MigratesUnread
<1>9. TypeOK'
  <2>1. \A r \in Stores : op'[r].at = "call" => op'[r].target \in filled'[r]
    BY <1>3, <1>7 DEF IInv, TypeOK
  <2>2. \A r \in Stores, u \in Targets : <<r, u>> \in behind => u \in filled'[r] \/ WillMigrate(r, u)'
    BY <1>3, <1>4, <1>7 DEF IInv, TypeOK, WillMigrate
  <2> QED
    BY <1>2, <1>3, <1>7, <2>1, <2>2 DEF IInv, TypeOK
<1> QED
  BY <1>5, <1>8, <1>9 DEF IInv

\* A write makes every other store that has the file cached fall behind.
LEMMA InvWrite ==
  ASSUME IInv, NEW s \in Stores, Write(s)
  PROVE  IInv'
<1> DEFINE t == op[s].target
           c == op[s].call
           x == [op[s] EXCEPT !.at = "written"]
<1>1. /\ op[s].at = "call" /\ made' = TRUE
      /\ file' = [file EXCEPT ![t] = Result(cache[s][t], c)]
      /\ Invalidate(s, t) /\ drifted' = drifted \cup Overlooked(s, t, c)
      /\ op' = [op EXCEPT ![s] = x] /\ UNCHANGED <<index, calls, crashes>>
  BY DEF Write
<1>2. op[s] \in Ops /\ drifted \subseteq Texts
  BY DEF IInv, TypeOK
<1>3. op[s] \in CallOp
  BY <1>1, <1>2, OpStages
<1>4. t \in Targets /\ c \in Calls
  BY <1>3 DEF CallOp, SensibleCalls
<1>5. x \in Ops /\ x.at = "written"
  BY <1>3, NextStage
<1>6. Result(cache[s][t], c) \in Bags
  BY <1>4, ResultType DEF IInv, TypeOK
<1>7. drifted' \subseteq Texts
  BY <1>1, <1>2, <1>4 DEF Overlooked, Named, Changed, Calls
<1> HIDE DEF t, c, x
<1>8. file' \in [Targets -> Bags] /\ \A u \in Targets : u # t => file'[u] = file[u]
  BY <1>1, <1>4, <1>6 DEF IInv, TypeOK
<1>9. /\ filled' \in [Stores -> SUBSET Targets] /\ cache' \in [Stores -> [Targets -> Bags]]
      /\ filled'[s] = filled[s] \ {t}
      /\ \A r \in Stores : r # s => filled'[r] = filled[r] /\ cache'[r] = cache[r]
      /\ \A u \in Targets : u # t => cache'[s][u] = cache[s][u]
  BY <1>1, <1>4, InvalidateStep DEF IInv
<1>10. /\ op' \in [Stores -> Ops] /\ op'[s].at = "written"
       /\ \A r \in Stores : r # s => op'[r] = op[r]
  BY <1>1, <1>5, OpSet DEF IInv
<1>11. behind' = (behind \ {<<s, t>>}) \cup Overtaken(s, t)
  BY <1>1 DEF Invalidate
<1>12. behind' \subseteq Stores \X Targets
  BY <1>4, <1>11 DEF IInv, TypeOK, Overtaken
<1>13. \A r \in Stores, u \in Targets : <<r, u>> \in behind' => u \in filled'[r] \/ WillMigrate(r, u)'
  <2> SUFFICES ASSUME NEW r \in Stores, NEW u \in Targets, <<r, u>> \in behind'
               PROVE  u \in filled'[r] \/ WillMigrate(r, u)'
    OBVIOUS
  <2>1. CASE r = s
    <3>1. <<r, u>> \in behind /\ u # t
      BY <1>11, <2>1 DEF Overtaken
    <3>2. u \in filled[s]
      BY <1>1, <2>1, <3>1 DEF IInv, TypeOK, WillMigrate
    <3> QED
      BY <1>9, <2>1, <3>1, <3>2
  <2>2. CASE r # s
    <3>1. u \in filled[r] \/ WillMigrate(r, u)
      BY <1>11, <2>2 DEF IInv, TypeOK, Overtaken
    <3> QED
      BY <1>9, <1>10, <2>2, <3>1 DEF WillMigrate
  <2> QED
    BY <2>1, <2>2
<1>14. \A r \in Stores : op'[r].at = "call" => op'[r].target \in filled'[r]
  BY <1>9, <1>10 DEF IInv, TypeOK
<1>15. TypeOK'
  BY <1>1, <1>7, <1>8, <1>9, <1>10, <1>12, <1>13, <1>14 DEF IInv, TypeOK
<1>16. MigratesUnread'
  BY <1>9, <1>10 DEF IInv, MigratesUnread
<1>17. CacheIsFileUnlessBehind'
  <2> SUFFICES ASSUME NEW r \in Stores, NEW u \in Targets, u \in filled'[r], <<r, u>> \notin behind'
               PROVE  cache'[r][u] = file'[u]
    BY DEF CacheIsFileUnlessBehind
  <2>1. CASE r = s
    BY <1>8, <1>9, <1>11, <2>1 DEF IInv, CacheIsFileUnlessBehind
  <2>2. CASE r # s
    <3>1. u \in filled[r] /\ u # t /\ <<r, u>> \notin behind
      BY <1>9, <1>11, <2>2 DEF Overtaken
    <3> QED
      BY <1>8, <1>9, <2>2, <3>1 DEF IInv, CacheIsFileUnlessBehind
  <2> QED
    BY <2>1, <2>2
<1> QED
  BY <1>15, <1>16, <1>17 DEF IInv

\* After a write the store reads again, or is gone.
LEMMA InvReread ==
  ASSUME IInv, NEW s \in Stores, Reread(s)
  PROVE  IInv'
<1> DEFINE x == IF s \in Strategies THEN [op[s] EXCEPT !.at = "unindex"] ELSE Idle
<1>1. /\ op[s].at = "written" /\ op' = [op EXCEPT ![s] = x]
      /\ UNCHANGED <<made, file, index, calls, crashes, drifted>>
  BY DEF Reread
<1>2. op[s] \in CallOp
  BY <1>1, OpStages DEF IInv, TypeOK
<1>3. x \in Ops /\ x.at \in {"unindex", "idle"}
  BY <1>2, NextStage, OpStages
<1> HIDE DEF x
<1>4. /\ op' \in [Stores -> Ops] /\ op'[s].at \in {"unindex", "idle"}
      /\ \A r \in Stores : r # s => op'[r] = op[r]
  BY <1>1, <1>3, OpSet DEF IInv
<1>5. CASE s \in Requests
  <2>1. /\ filled' = [filled EXCEPT ![s] = {}]
        /\ cache' = [cache EXCEPT ![s] = [t \in Targets |-> Nothing]]
        /\ behind' = {b \in behind : b[1] # s}
    BY <1>5 DEF Reread
  <2>2. [t \in Targets |-> Nothing] \in [Targets -> Bags]
    BY NothingType
  <2>3. /\ filled' \in [Stores -> SUBSET Targets] /\ cache' \in [Stores -> [Targets -> Bags]]
        /\ filled'[s] = {}
        /\ \A r \in Stores : r # s => filled'[r] = filled[r] /\ cache'[r] = cache[r]
    BY <2>1, <2>2 DEF IInv, TypeOK
  <2>4. \A r \in Stores, u \in Targets : <<r, u>> \in behind' <=> r # s /\ <<r, u>> \in behind
    BY <2>1
  <2>5. MigratesUnread'
    BY <1>4, <2>3 DEF IInv, MigratesUnread
  <2>10. CacheIsFileUnlessBehind'
    <3> SUFFICES ASSUME NEW r \in Stores, NEW u \in Targets, u \in filled'[r], <<r, u>> \notin behind'
                 PROVE  cache'[r][u] = file[u]
      BY <1>1 DEF CacheIsFileUnlessBehind
    <3>1. r # s
      BY <2>3
    <3> QED
      BY <2>3, <2>4, <3>1 DEF IInv, CacheIsFileUnlessBehind
  <2>6. \A r \in Stores : op'[r].at = "call" => op'[r].target \in filled'[r]
    BY <1>4, <2>3 DEF IInv, TypeOK
  <2>7. \A r \in Stores, u \in Targets : <<r, u>> \in behind' => u \in filled'[r] \/ WillMigrate(r, u)'
    BY <1>4, <2>3, <2>4 DEF IInv, TypeOK, WillMigrate
  <2>8. behind' \subseteq Stores \X Targets
    BY <2>1 DEF IInv, TypeOK
  <2>9. TypeOK'
    BY <1>1, <1>4, <2>3, <2>6, <2>7, <2>8 DEF IInv, TypeOK
  <2> QED
    BY <2>5, <2>9, <2>10 DEF IInv
<1>6. CASE s \notin Requests
  <2> DEFINE ts == IF s \in Strategies THEN Targets ELSE {op[s].target}
  <2>1. Parse(s, ts) /\ UNCHANGED behind
    BY <1>6 DEF Reread
  <2>2. ts \in SUBSET Targets
    BY <1>2 DEF CallOp
  <2> HIDE DEF ts
  <2>3. /\ filled' \in [Stores -> SUBSET Targets] /\ cache' \in [Stores -> [Targets -> Bags]]
        /\ filled'[s] = filled[s] \cup ts
        /\ \A r \in Stores : r # s => filled'[r] = filled[r]
    BY <2>1, <2>2, ParseStep DEF IInv
  <2>4. CacheIsFileUnlessBehind'
    BY <1>1, <2>1, <2>2, ReadKeeps
  <2>5. MigratesUnread'
    BY <1>4, <2>3 DEF IInv, MigratesUnread
  <2>6. \A r \in Stores : op'[r].at = "call" => op'[r].target \in filled'[r]
    BY <1>4, <2>3 DEF IInv, TypeOK
  <2>7. \A r \in Stores, u \in Targets : <<r, u>> \in behind => u \in filled'[r] \/ WillMigrate(r, u)'
    BY <1>1, <1>4, <2>3 DEF IInv, TypeOK, WillMigrate
  <2>8. TypeOK'
    BY <1>1, <1>4, <2>1, <2>3, <2>6, <2>7 DEF IInv, TypeOK
  <2> QED
    BY <2>4, <2>5, <2>8 DEF IInv
<1> QED
  BY <1>5, <1>6

\* A step of a store that concerns the index alone.
LEMMA IndexStep ==
  ASSUME IInv, NEW s \in Stores, NEW x \in Ops, op' = [op EXCEPT ![s] = x],
         op[s].at \in {"unindex", "index"}, x.at \in {"index", "idle"},
         index' \subseteq Texts, drifted' \subseteq Texts,
         UNCHANGED <<made, file, store, calls, crashes, behind>>
  PROVE  IInv'
<1>1. /\ op' \in [Stores -> Ops] /\ op'[s].at \in {"index", "idle"}
      /\ \A r \in Stores : r # s => op'[r] = op[r]
  BY OpSet DEF IInv
<1>2. MigratesUnread' /\ CacheIsFileUnlessBehind'
  BY <1>1 DEF IInv, MigratesUnread, CacheIsFileUnlessBehind, store
<1>3. \A r \in Stores : op'[r].at = "call" => op'[r].target \in filled'[r]
  BY <1>1 DEF IInv, TypeOK, store
<1>4. \A r \in Stores, u \in Targets : <<r, u>> \in behind => u \in filled'[r] \/ WillMigrate(r, u)'
  BY <1>1 DEF IInv, TypeOK, WillMigrate, store
<1>5. TypeOK'
  BY <1>1, <1>3, <1>4 DEF IInv, TypeOK, store
<1> QED
  BY <1>2, <1>5 DEF IInv

LEMMA InvIndex ==
  ASSUME IInv, NEW s \in Stores, Unindex(s) \/ Index(s)
  PROVE  IInv'
<1>1. op[s].at \in {"unindex", "index"} /\ UNCHANGED <<made, file, store, calls, crashes, behind>>
  BY DEF Unindex, Index
<1>2. op[s] \in CallOp
  BY <1>1, OpStages DEF IInv, TypeOK
<1>3. op[s].call.old \in Texts /\ op[s].call.new \in Texts
  BY <1>2 DEF CallOp, SensibleCalls, Calls
<1>4. CASE Unindex(s)
  <2> DEFINE x == IF op[s].call.call = "remove" THEN Idle ELSE [op[s] EXCEPT !.at = "index"]
  <2>1. x \in Ops /\ x.at \in {"index", "idle"}
    BY <1>2, NextStage, OpStages
  <2>2. op' = [op EXCEPT ![s] = x]
    BY <1>4 DEF Unindex
  <2>3. index' \subseteq Texts
    BY <1>4 DEF Unindex, IInv, TypeOK
  <2>4. drifted' \subseteq Texts
    BY <1>3, <1>4 DEF Unindex, IInv, TypeOK
  <2> HIDE DEF x
  <2> QED
    BY <1>1, <2>1, <2>2, <2>3, <2>4, IndexStep
<1>5. CASE Index(s)
  <2>1. op' = [op EXCEPT ![s] = Idle] /\ index' \subseteq Texts /\ drifted' \subseteq Texts
    BY <1>3, <1>5 DEF Index, IInv, TypeOK
  <2> QED
    BY <1>1, <2>1, OpStages, IndexStep
<1> QED
  BY <1>4, <1>5

\* A migration begins.
LEMMA InvOpen ==
  ASSUME IInv, NEW s \in Stores, Open(s)
  PROVE  IInv'
<1> DEFINE x == [at |-> "migrate", target |-> "memory"]
<1>1. /\ op[s] = Idle /\ filled[s] = {} /\ made' = TRUE /\ op' = [op EXCEPT ![s] = x]
      /\ UNCHANGED <<file, store, index, calls, crashes, behind, drifted>>
  BY DEF Open
<1>2. x \in Ops /\ x.at = "migrate"
  BY DEF Ops, Targets
<1>3. op[s].at = "idle"
  BY <1>1, OpStages
<1> HIDE DEF x
<1>4. /\ op' \in [Stores -> Ops] /\ op'[s].at = "migrate"
      /\ \A r \in Stores : r # s => op'[r] = op[r]
  BY <1>1, <1>2, OpSet DEF IInv
<1>5. MigratesUnread' /\ CacheIsFileUnlessBehind'
  BY <1>1, <1>4 DEF IInv, MigratesUnread, CacheIsFileUnlessBehind, store
<1>6. \A r \in Stores : op'[r].at = "call" => op'[r].target \in filled'[r]
  BY <1>1, <1>4 DEF IInv, TypeOK, store
<1>7. \A r \in Stores, u \in Targets : <<r, u>> \in behind => u \in filled'[r] \/ WillMigrate(r, u)'
  BY <1>1, <1>3, <1>4 DEF IInv, TypeOK, WillMigrate, store
<1>8. TypeOK'
  BY <1>1, <1>4, <1>6, <1>7 DEF IInv, TypeOK, store
<1> QED
  BY <1>5, <1>8 DEF IInv

\* One file is migrated.
LEMMA InvMigrate ==
  ASSUME IInv, NEW s \in Stores, Migrate(s)
  PROVE  IInv'
<1> DEFINE t == op[s].target
           x == IF t = "memory" THEN [op[s] EXCEPT !.target = "user"] ELSE Idle
<1>1. /\ op[s].at = "migrate" /\ op' = [op EXCEPT ![s] = x]
      /\ UNCHANGED <<made, store, index, calls, crashes>>
  BY DEF Migrate
<1>2. op[s] \in MigrateOp
  BY <1>1, OpStages DEF IInv, TypeOK
<1>3. t \in Targets
  BY <1>2 DEF MigrateOp
<1>4. x \in Ops /\ x.at \in {"migrate", "idle"} /\ (t = "memory" => x.at = "migrate" /\ x.target = "user")
  BY <1>2, NextStage, OpStages DEF Targets
<1>5. \/ behind' = behind \ {<<s, t>>} /\ UNCHANGED file
      \/ /\ file' = [file EXCEPT ![t] = Old[t]]
         /\ behind' = (behind \ {<<s, t>>}) \cup Overtaken(s, t)
  BY DEF Migrate
<1>6. drifted' \subseteq Texts
  BY DEF Migrate, Changed, IInv, TypeOK
<1>7. filled[s] = {} /\ UNCHANGED <<filled, cache>>
  BY <1>1 DEF IInv, MigratesUnread, store
<1>8. \A u \in Targets : WillMigrate(s, u) /\ u # t => t = "memory" /\ u = "user"
  BY DEF WillMigrate, Targets
<1> HIDE DEF t, x
<1>9. file' \in [Targets -> Bags] /\ \A u \in Targets : u # t => file'[u] = file[u]
  <2>1. Old[t] \in Bags
    BY <1>3, FilesAssumption
  <2> QED
    BY <1>3, <1>5, <2>1 DEF IInv, TypeOK
<1>10. /\ op' \in [Stores -> Ops] /\ op'[s] = x
       /\ \A r \in Stores : r # s => op'[r] = op[r]
  BY <1>1, <1>4, OpSet DEF IInv
<1>11. MigratesUnread'
  BY <1>7, <1>10 DEF IInv, MigratesUnread
<1>12. CacheIsFileUnlessBehind'
  <2> SUFFICES ASSUME NEW r \in Stores, NEW u \in Targets, u \in filled[r], <<r, u>> \notin behind'
               PROVE  cache[r][u] = file'[u]
    BY <1>7 DEF CacheIsFileUnlessBehind
  <2>1. r # s
    BY <1>7
  <2>2. <<r, u>> \notin behind
    BY <1>5, <2>1
  <2>3. u = t => UNCHANGED file
    BY <1>5, <2>1 DEF Overtaken
  <2> QED
    BY <1>9, <2>2, <2>3 DEF IInv, CacheIsFileUnlessBehind
<1>13. \A r \in Stores : op'[r].at = "call" => op'[r].target \in filled'[r]
  BY <1>4, <1>7, <1>10 DEF IInv, TypeOK
<1>14. \A r \in Stores, u \in Targets : <<r, u>> \in behind' => u \in filled'[r] \/ WillMigrate(r, u)'
  <2> SUFFICES ASSUME NEW r \in Stores, NEW u \in Targets, <<r, u>> \in behind'
               PROVE  u \in filled[r] \/ WillMigrate(r, u)'
    BY <1>7
  <2>1. CASE r = s
    <3>1. <<r, u>> \in behind /\ u # t
      BY <1>5, <2>1 DEF Overtaken
    <3>2. WillMigrate(s, u)
      BY <1>7, <2>1, <3>1 DEF IInv, TypeOK
    <3>3. t = "memory" /\ u = "user"
      BY <1>8, <3>1, <3>2
    <3> QED
      BY <1>4, <1>10, <2>1, <3>3 DEF WillMigrate
  <2>2. CASE r # s
    <3>1. u \in filled[r] \/ WillMigrate(r, u)
      BY <1>5, <2>2 DEF IInv, TypeOK, Overtaken
    <3> QED
      BY <1>10, <2>2, <3>1 DEF WillMigrate
  <2> QED
    BY <2>1, <2>2
<1>15. behind' \subseteq Stores \X Targets
  BY <1>3, <1>5 DEF IInv, TypeOK, Overtaken
<1>16. TypeOK'
  BY <1>1, <1>6, <1>7, <1>9, <1>10, <1>13, <1>14, <1>15 DEF IInv, TypeOK
<1> QED
  BY <1>11, <1>12, <1>16 DEF IInv

\* A process dies.
LEMMA InvCrash ==
  ASSUME IInv, NEW p \in Processes, Crash(p)
  PROVE  IInv'
<1> DEFINE dead == {s \in Stores : Owner[s] = p}
<1>1. /\ filled' = [s \in Stores |-> IF s \in dead THEN {} ELSE filled[s]]
      /\ cache' = [s \in Stores |-> IF s \in dead THEN [t \in Targets |-> Nothing] ELSE cache[s]]
      /\ op' = [s \in Stores |-> IF s \in dead THEN Idle ELSE op[s]]
      /\ behind' = {b \in behind : b[1] \notin dead}
      /\ UNCHANGED <<made, file, index, calls>>
  BY DEF Crash
<1>2. drifted' \subseteq Texts /\ crashes' \in 0..MaxCrashes
  <2>1. \A s \in Stores : op[s].at \in Indexing => Named(op[s].call) \subseteq Texts
    BY OpStages DEF Indexing, Named, CallOp, SensibleCalls, Calls, IInv, TypeOK
  <2>2. drifted' = drifted \cup
           UNION {Named(op[s].call) : s \in {r \in dead : op[r].at \in Indexing}}
    BY DEF Crash
  <2>3. crashes' \in 0..MaxCrashes
    BY BoundsAssumption DEF Crash, IInv, TypeOK
  <2> QED
    BY <2>1, <2>2, <2>3 DEF IInv, TypeOK
<1>3. [t \in Targets |-> Nothing] \in [Targets -> Bags]
  BY NothingType
<1> HIDE DEF dead
<1>4. /\ filled' \in [Stores -> SUBSET Targets] /\ cache' \in [Stores -> [Targets -> Bags]]
      /\ op' \in [Stores -> Ops]
  BY <1>1, <1>3, OpStages DEF IInv, TypeOK
<1>5. \A s \in Stores :
        /\ s \in dead => filled'[s] = {} /\ op'[s].at = "idle"
        /\ s \notin dead => filled'[s] = filled[s] /\ cache'[s] = cache[s] /\ op'[s] = op[s]
  BY <1>1, OpStages
<1>6. \A s \in Stores, t \in Targets : <<s, t>> \in behind' <=> s \notin dead /\ <<s, t>> \in behind
  BY <1>1
<1>7. behind' \subseteq Stores \X Targets
  BY <1>1 DEF IInv, TypeOK
<1>8. MigratesUnread' /\ CacheIsFileUnlessBehind'
  BY <1>1, <1>5, <1>6 DEF IInv, MigratesUnread, CacheIsFileUnlessBehind
<1>9. \A r \in Stores : op'[r].at = "call" => op'[r].target \in filled'[r]
  BY <1>5 DEF IInv, TypeOK
<1>10. \A r \in Stores, u \in Targets : <<r, u>> \in behind' => u \in filled'[r] \/ WillMigrate(r, u)'
  BY <1>5, <1>6 DEF IInv, TypeOK, WillMigrate
<1>11. TypeOK'
  BY <1>1, <1>2, <1>4, <1>7, <1>9, <1>10 DEF IInv, TypeOK
<1> QED
  BY <1>8, <1>11 DEF IInv

\* Every step keeps the invariant.
LEMMA InvStep == IInv /\ [Next]_vars => IInv'
<1> SUFFICES ASSUME IInv, [Next]_vars PROVE IInv'
  OBVIOUS
<1>1. CASE UNCHANGED vars
  BY <1>1 DEF vars, store, IInv, TypeOK, WillMigrate, MigratesUnread, CacheIsFileUnlessBehind
<1> QED
  BY <1>1, InvLook, InvBegin, InvWrite, InvReread, InvIndex, InvOpen, InvMigrate, InvCrash DEF Next

\* Every variable has its type.
THEOREM TypeCorrect == Spec => []TypeOK
<1>1. IInv => TypeOK
  BY DEF IInv
<1> QED
  BY <1>1, InvInit, InvStep, PTL DEF Spec

\* A cache differs from its file only if another store wrote the file since.
THEOREM CachesFollowTheirFiles == Spec => []CacheIsFileUnlessBehind
<1>1. IInv => CacheIsFileUnlessBehind
  BY DEF IInv
<1> QED
  BY <1>1, InvInit, InvStep, PTL DEF Spec

\* The invariant as a theorem, for the invariants that build on it.
LEMMA Invariant == Spec => []IInv
BY InvInit, InvStep, PTL DEF Spec

-----------------------------------------------------------------------------
(* What a call relies on when it writes.                                   *)

\* A call would still be accepted: what it read is what it writes over.
CallsAreAccepted ==
  \A s \in Stores : op[s].at = "call" =>
    ~Refuses(op[s].target, cache[s][op[s].target], op[s].call)

\* A migration fills an empty file, unless another store was there first.
MigratesIntoEmpty ==
  /\ ~made => \A t \in Targets : file[t] = Nothing
  /\ \A s \in Stores : op[s].at = "migrate" => made
  /\ \A s \in Stores, t \in Targets :
       WillMigrate(s, t) /\ <<s, t>> \notin behind => file[t] = Nothing

Relies == CallsAreAccepted /\ MigratesIntoEmpty

LEMMA ReliesInit == Init => Relies
<1> SUFFICES ASSUME Init PROVE Relies
  OBVIOUS
<1>1. \A s \in Stores : op[s].at = "idle"
  BY OpStages DEF Init
<1>2. \A t \in Targets : file[t] = Nothing
  BY DEF Init
<1> QED
  BY <1>1, <1>2 DEF Relies, CallsAreAccepted, MigratesIntoEmpty, WillMigrate

\* A call that another store is in is not touched, nor what that store has read.
LEMMA OthersKeep ==
  ASSUME IInv, NEW s \in Stores,
         Look(s) \/ Begin(s) \/ Write(s) \/ Reread(s) \/ Unindex(s) \/ Index(s)
           \/ Open(s) \/ Migrate(s)
  PROVE  \A r \in Stores : r # s => op'[r] = op[r] /\ cache'[r] = cache[r]
<1>1. op \in [Stores -> Ops] /\ cache \in [Stores -> [Targets -> Bags]]
  BY DEF IInv, TypeOK
<1>2. ASSUME Look(s) PROVE \A r \in Stores : r # s => op'[r] = op[r] /\ cache'[r] = cache[r]
  BY <1>1, <1>2 DEF Look, Parse
<1>3. ASSUME Begin(s) PROVE \A r \in Stores : r # s => op'[r] = op[r] /\ cache'[r] = cache[r]
  BY <1>1, <1>3 DEF Begin, Parse
<1>4. ASSUME Write(s) PROVE \A r \in Stores : r # s => op'[r] = op[r] /\ cache'[r] = cache[r]
  BY <1>1, <1>4 DEF Write, Invalidate
<1>5. ASSUME Reread(s) PROVE \A r \in Stores : r # s => op'[r] = op[r] /\ cache'[r] = cache[r]
  BY <1>1, <1>5 DEF Reread, Parse
<1>6. ASSUME Unindex(s) PROVE \A r \in Stores : r # s => op'[r] = op[r] /\ cache'[r] = cache[r]
  BY <1>1, <1>6 DEF Unindex, store
<1>7. ASSUME Index(s) PROVE \A r \in Stores : r # s => op'[r] = op[r] /\ cache'[r] = cache[r]
  BY <1>1, <1>7 DEF Index, store
<1>8. ASSUME Open(s) PROVE \A r \in Stores : r # s => op'[r] = op[r] /\ cache'[r] = cache[r]
  BY <1>1, <1>8 DEF Open, store
<1>9. ASSUME Migrate(s) PROVE \A r \in Stores : r # s => op'[r] = op[r] /\ cache'[r] = cache[r]
  BY <1>1, <1>9 DEF Migrate, store
<1> QED
  BY <1>2, <1>3, <1>4, <1>5, <1>6, <1>7, <1>8, <1>9

\* Where a step leaves the store that takes it.
LEMMA OwnStage ==
  ASSUME IInv, NEW s \in Stores
  PROVE  /\ Look(s) => op'[s] = op[s] /\ op[s].at = "idle"
         /\ Begin(s) => op[s].at = "idle" /\ op'[s].at = "call"
         /\ Write(s) => op[s].at = "call" /\ op'[s].at = "written"
              /\ op'[s].call = op[s].call /\ op'[s].target = op[s].target
         /\ Reread(s) => op[s].at = "written"
              /\ (s \in Strategies => op'[s].at = "unindex" /\ op'[s].call = op[s].call)
              /\ (s \notin Strategies => op'[s].at = "idle")
         /\ Unindex(s) => op[s].at = "unindex"
              /\ (op[s].call.call = "remove" => op'[s].at = "idle")
              /\ (op[s].call.call # "remove" => op'[s].at = "index" /\ op'[s].call = op[s].call)
         /\ Index(s) => op[s].at = "index" /\ op'[s].at = "idle"
         /\ Open(s) => op[s].at = "idle" /\ op'[s].at = "migrate"
         /\ Migrate(s) => op[s].at = "migrate"
              /\ (op[s].target = "memory" => op'[s].at = "migrate" /\ op'[s].target = "user")
              /\ (op[s].target # "memory" => op'[s].at = "idle")
<1>1. op \in [Stores -> Ops] /\ Idle.at = "idle"
  BY OpStages DEF IInv, TypeOK
<1>2. op[s].at \in {"call", "written", "unindex", "index"} => op[s] \in CallOp
  BY <1>1, OpStages
<1>3. op[s].at = "migrate" => op[s] \in MigrateOp
  BY <1>1, OpStages
<1>4. Look(s) => op'[s] = op[s] /\ op[s].at = "idle"
  BY <1>1 DEF Look, Free
<1>5. Begin(s) => op[s].at = "idle" /\ op'[s].at = "call"
  BY <1>1 DEF Begin, Free
<1>6. Write(s) => op[s].at = "call" /\ op'[s].at = "written"
        /\ op'[s].call = op[s].call /\ op'[s].target = op[s].target
  BY <1>1, <1>2, NextStage DEF Write
<1>7. Reread(s) => op[s].at = "written"
        /\ (s \in Strategies => op'[s].at = "unindex" /\ op'[s].call = op[s].call)
        /\ (s \notin Strategies => op'[s].at = "idle")
  BY <1>1, <1>2, NextStage DEF Reread
<1>8. Unindex(s) => op[s].at = "unindex"
        /\ (op[s].call.call = "remove" => op'[s].at = "idle")
        /\ (op[s].call.call # "remove" => op'[s].at = "index" /\ op'[s].call = op[s].call)
  BY <1>1, <1>2, NextStage DEF Unindex
<1>9. Index(s) => op[s].at = "index" /\ op'[s].at = "idle"
  BY <1>1 DEF Index
<1>10. Open(s) => op[s].at = "idle" /\ op'[s].at = "migrate"
  BY <1>1 DEF Open
<1>11. Migrate(s) => op[s].at = "migrate"
         /\ (op[s].target = "memory" => op'[s].at = "migrate" /\ op'[s].target = "user")
         /\ (op[s].target # "memory" => op'[s].at = "idle")
  <2> SUFFICES ASSUME Migrate(s)
               PROVE  /\ op[s].at = "migrate"
                      /\ (op[s].target = "memory" => op'[s].at = "migrate" /\ op'[s].target = "user")
                      /\ (op[s].target # "memory" => op'[s].at = "idle")
    OBVIOUS
  <2>1. op[s] \in MigrateOp
    BY <1>3 DEF Migrate
  <2>2. op[s].target = "memory" => op'[s] = [op[s] EXCEPT !.target = "user"]
    BY <1>1 DEF Migrate
  <2>3. op[s].target # "memory" => op'[s] = Idle
    BY <1>1 DEF Migrate
  <2> QED
    BY <1>1, <2>1, <2>2, <2>3, NextStage DEF Targets, Migrate
<1> QED
  BY <1>4, <1>5, <1>6, <1>7, <1>8, <1>9, <1>10, <1>11

LEMMA AcceptedStep ==
  ASSUME IInv, CallsAreAccepted, [Next]_vars
  PROVE  CallsAreAccepted'
<1> SUFFICES ASSUME NEW r \in Stores, op'[r].at = "call"
             PROVE  ~Refuses(op'[r].target, cache'[r][op'[r].target], op'[r].call)
  BY DEF CallsAreAccepted
<1>1. CASE op'[r] = op[r] /\ cache'[r] = cache[r]
  BY <1>1 DEF CallsAreAccepted
<1>2. ASSUME NEW s \in Stores,
             Look(s) \/ Begin(s) \/ Write(s) \/ Reread(s) \/ Unindex(s) \/ Index(s)
               \/ Open(s) \/ Migrate(s)
      PROVE  ~Refuses(op'[r].target, cache'[r][op'[r].target], op'[r].call)
  <2>1. CASE r # s
    BY <1>1, <1>2, <2>1, OthersKeep
  <2>2. CASE r = s
    <3>1. Begin(s)
      BY <1>2, <2>2, OwnStage
    <3>2. PICK t \in Targets, c \in SensibleCalls :
            /\ ~Refuses(t, Entries(s, t), c)
            /\ op' = [op EXCEPT ![s] = [at |-> "call", target |-> t, call |-> c]]
            /\ Parse(s, {t})
      BY <3>1 DEF Begin
    <3>3. op'[s] = [at |-> "call", target |-> t, call |-> c]
      BY <3>2 DEF IInv, TypeOK
    <3>4. cache'[s][t] = Entries(s, t)
      BY <3>2, ParseStep DEF IInv
    <3> QED
      BY <2>2, <3>2, <3>3, <3>4
  <2> QED
    BY <2>1, <2>2
<1>3. ASSUME NEW p \in Processes, Crash(p)
      PROVE  ~Refuses(op'[r].target, cache'[r][op'[r].target], op'[r].call)
  <2>1. Owner[r] = p => op'[r] = Idle
    BY <1>3 DEF Crash
  <2>2. Owner[r] # p
    BY <2>1, OpStages
  <2>3. op'[r] = op[r] /\ cache'[r] = cache[r]
    BY <1>3, <2>2 DEF Crash
  <2> QED
    BY <1>1, <2>3
<1>4. CASE UNCHANGED vars
  BY <1>1, <1>4 DEF vars, store
<1> QED
  BY <1>2, <1>3, <1>4 DEF Next

\* A store that migrates, and goes on, is behind a file another one has filled.
LEMMA BehindStep ==
  ASSUME IInv, [Next]_vars, NEW r \in Stores, NEW t \in Targets,
         WillMigrate(r, t), op'[r] = op[r], <<r, t>> \notin behind'
  PROVE  <<r, t>> \notin behind /\ file'[t] = file[t]
<1>0. op \in [Stores -> Ops] /\ file \in [Targets -> Bags]
  BY DEF IInv, TypeOK
<1>1. CASE UNCHANGED <<file, behind>>
  BY <1>1
<1>2. ASSUME NEW s \in Stores, Write(s)
      PROVE  <<r, t>> \notin behind /\ file'[t] = file[t]
  <2>1. r # s
    BY <1>2, OwnStage
  <2>2. behind' = (behind \ {<<s, op[s].target>>}) \cup Overtaken(s, op[s].target)
    BY <1>2 DEF Write, Invalidate
  <2>3. <<r, t>> \notin behind /\ t # op[s].target
    BY <2>1, <2>2 DEF Overtaken
  <2> QED
    BY <1>0, <1>2, <2>3 DEF Write
<1>3. ASSUME NEW s \in Stores, Reread(s)
      PROVE  <<r, t>> \notin behind /\ file'[t] = file[t]
  <2>1. r # s
    BY <1>3, OwnStage
  <2> QED
    BY <1>3, <2>1 DEF Reread
<1>4. ASSUME NEW s \in Stores, Migrate(s)
      PROVE  <<r, t>> \notin behind /\ file'[t] = file[t]
  <2>1. r # s
    <3>1. op[s] \in MigrateOp
      BY <1>0, <1>4, OpStages DEF Migrate
    <3>2. op[s].target = "memory" => op[s].target # op'[s].target
      BY <1>4, OwnStage
    <3> QED
      BY <1>4, <3>2, OwnStage
  <2>2. \/ behind' = behind \ {<<s, op[s].target>>} /\ UNCHANGED file
        \/ /\ file' = [file EXCEPT ![op[s].target] = Old[op[s].target]]
           /\ behind' = (behind \ {<<s, op[s].target>>}) \cup Overtaken(s, op[s].target)
    BY <1>4 DEF Migrate
  <2>3. CASE behind' = behind \ {<<s, op[s].target>>} /\ UNCHANGED file
    BY <2>1, <2>3
  <2>4. CASE /\ file' = [file EXCEPT ![op[s].target] = Old[op[s].target]]
             /\ behind' = (behind \ {<<s, op[s].target>>}) \cup Overtaken(s, op[s].target)
    <3>1. <<r, t>> \notin behind /\ t # op[s].target
      BY <2>1, <2>4 DEF Overtaken
    <3> QED
      BY <1>0, <2>4, <3>1
  <2> QED
    BY <2>2, <2>3, <2>4
<1>5. ASSUME NEW p \in Processes, Crash(p)
      PROVE  <<r, t>> \notin behind /\ file'[t] = file[t]
  <2>1. UNCHANGED file /\ behind' = {b \in behind : b[1] \notin {s \in Stores : Owner[s] = p}}
    BY <1>5 DEF Crash
  <2>2. Owner[r] # p
    BY <1>5, OpStages DEF Crash, WillMigrate
  <2> QED
    BY <2>1, <2>2
<1>6. ASSUME NEW s \in Stores, Look(s) \/ Begin(s) \/ Unindex(s) \/ Index(s) \/ Open(s)
      PROVE  UNCHANGED <<file, behind>>
  BY <1>6 DEF Look, Begin, Unindex, Index, Open
<1>7. CASE UNCHANGED vars
  BY <1>1, <1>7 DEF vars
<1> QED
  BY <1>1, <1>2, <1>3, <1>4, <1>5, <1>6, <1>7 DEF Next

LEMMA MigratesStep ==
  ASSUME IInv, MigratesIntoEmpty, [Next]_vars
  PROVE  MigratesIntoEmpty'
<1>0. op \in [Stores -> Ops] /\ file \in [Targets -> Bags]
  BY DEF IInv, TypeOK
<1>1. CASE \A r \in Stores : op'[r].at = "migrate" => op'[r] = op[r]
  <2>1. \A r \in Stores, t \in Targets :
          WillMigrate(r, t)' /\ <<r, t>> \notin behind' => file'[t] = Nothing
    <3> SUFFICES ASSUME NEW r \in Stores, NEW t \in Targets,
                        WillMigrate(r, t)', <<r, t>> \notin behind'
                 PROVE  file'[t] = Nothing
      OBVIOUS
    <3>1. op'[r] = op[r] /\ WillMigrate(r, t)
      BY <1>1 DEF WillMigrate
    <3> QED
      BY <3>1, BehindStep DEF MigratesIntoEmpty
  <2>2. made => made'
    BY DEF Next, Look, Begin, Write, Reread, Unindex, Index, Open, Migrate, Crash, vars
  <2>3. \A r \in Stores : op'[r].at = "migrate" => made'
    BY <1>1, <2>2 DEF MigratesIntoEmpty
  <2>4. ~made' => UNCHANGED file
    <3>1. ASSUME NEW s \in Stores, Write(s) PROVE made'
      BY <3>1 DEF Write
    <3>2. ASSUME NEW s \in Stores, Migrate(s) PROVE made'
      BY <3>2 DEF Migrate, MigratesIntoEmpty
    <3> QED
      BY <3>1, <3>2 DEF Next, Look, Begin, Reread, Unindex, Index, Open, Crash, vars
  <2> QED
    BY <2>1, <2>2, <2>3, <2>4 DEF MigratesIntoEmpty
<1>2. ASSUME NEW s \in Stores, Open(s)
      PROVE  MigratesIntoEmpty'
  <2>1. ~made /\ made' = TRUE /\ UNCHANGED file
    BY <1>2 DEF Open
  <2>2. \A t \in Targets : file'[t] = Nothing
    BY <2>1 DEF MigratesIntoEmpty
  <2> QED
    BY <2>1, <2>2 DEF MigratesIntoEmpty
<1>3. ASSUME NEW s \in Stores, Migrate(s)
      PROVE  MigratesIntoEmpty'
  <2>1. made /\ made'
    BY <1>3 DEF Migrate, MigratesIntoEmpty
  <2>2. \A r \in Stores : r # s => op'[r] = op[r]
    BY <1>3, OthersKeep
  <2> SUFFICES ASSUME NEW r \in Stores, NEW t \in Targets,
                      WillMigrate(r, t)', <<r, t>> \notin behind'
               PROVE  file'[t] = Nothing
    BY <2>1 DEF MigratesIntoEmpty
  <2>3. CASE r # s
    BY <2>2, <2>3, BehindStep DEF MigratesIntoEmpty, WillMigrate
  <2>4. CASE r = s
    <3>1. op[s].at = "migrate" /\ op[s].target = "memory" /\ t = "user"
      BY <1>3, <2>4, OwnStage DEF WillMigrate
    <3>2. WillMigrate(s, t)
      BY <3>1 DEF WillMigrate
    <3>3. <<s, t>> \notin behind /\ file'[t] = file[t]
      <4>1. \/ behind' = behind \ {<<s, op[s].target>>} /\ UNCHANGED file
            \/ /\ file' = [file EXCEPT ![op[s].target] = Old[op[s].target]]
               /\ behind' = (behind \ {<<s, op[s].target>>}) \cup Overtaken(s, op[s].target)
        BY <1>3 DEF Migrate
      <4> QED
        BY <1>0, <2>4, <3>1, <4>1
    <3> QED
      BY <3>2, <3>3 DEF MigratesIntoEmpty
  <2> QED
    BY <2>3, <2>4
<1>4. ASSUME NEW s \in Stores, Look(s) \/ Begin(s) \/ Write(s) \/ Reread(s) \/ Unindex(s) \/ Index(s)
      PROVE  \A r \in Stores : op'[r].at = "migrate" => op'[r] = op[r]
  <2>1. op'[s].at # "migrate"
    BY <1>4, OwnStage
  <2> QED
    BY <1>4, <2>1, OthersKeep
<1>5. ASSUME NEW p \in Processes, Crash(p)
      PROVE  \A r \in Stores : op'[r].at = "migrate" => op'[r] = op[r]
  BY <1>5, OpStages DEF Crash
<1>6. CASE UNCHANGED vars
  BY <1>1, <1>6 DEF vars
<1> QED
  BY <1>1, <1>2, <1>3, <1>4, <1>5, <1>6 DEF Next

LEMMA ReliesStep == IInv /\ Relies /\ [Next]_vars => Relies'
BY AcceptedStep, MigratesStep DEF Relies

LEMMA ReliesInvariant == Spec => []Relies
BY Invariant, ReliesInit, ReliesStep, PTL DEF Spec

-----------------------------------------------------------------------------
(* How long a file is.                                                     *)

LEMMA CharactersAreFinite ==
  ASSUME NEW b \in Bags
  PROVE  IsFiniteSet(Characters(b))
<1> DEFINE Of(x) == {x} \X ((1..b[x]) \X (1..(Length[x] + SeparatorLength)))
           All == {Of(x) : x \in Texts}
           f == [x \in Texts |-> Of(x)]
<1>1. \A x \in Texts : IsFiniteSet(Of(x))
  <2> SUFFICES ASSUME NEW x \in Texts PROVE IsFiniteSet(Of(x))
    OBVIOUS
  <2>1. b[x] \in Int /\ Length[x] + SeparatorLength \in Int /\ 1 \in Int
    BY TextsAssumption DEF Bags, SeparatorLength
  <2>2. IsFiniteSet(1..b[x]) /\ IsFiniteSet(1..(Length[x] + SeparatorLength))
    BY <2>1, FS_Interval
  <2>3. IsFiniteSet({x})
    BY FS_Singleton
  <2>4. IsFiniteSet((1..b[x]) \X (1..(Length[x] + SeparatorLength)))
    BY <2>2, FS_Product
  <2> QED
    BY <2>3, <2>4, FS_Product
<1> HIDE DEF Of
<1>2. f \in Surjection(Texts, All)
  BY DEF Surjection
<1>3. IsFiniteSet(All)
  BY <1>2, FS_Surjection, TextsAssumption
<1>4. \A T \in All : IsFiniteSet(T)
  BY <1>1
<1>5. IsFiniteSet(UNION All)
  BY <1>3, <1>4, FS_UNION
<1> QED
  BY <1>5 DEF Characters, Of

LEMMA InCharacters ==
  ASSUME NEW b \in Bags, NEW x \in Texts, NEW i, NEW j
  PROVE  <<x, <<i, j>>>> \in Characters(b) <=>
           i \in 1..b[x] /\ j \in 1..(Length[x] + SeparatorLength)
BY DEF Characters

\* A file that only loses entries gets shorter.
LEMMA FewerIsShorter ==
  ASSUME NEW b \in Bags, NEW c \in Bags, \A x \in Texts : c[x] <= b[x],
         NEW y \in Texts, c[y] < b[y]
  PROVE  c = Nothing \/ Size(c) < Size(b)
<1>1. \A x \in Texts : b[x] \in Nat /\ c[x] \in Nat /\ Length[x] \in Nat
  BY TextsAssumption DEF Bags
<1>2. Characters(c) \subseteq Characters(b)
  <2> SUFFICES ASSUME NEW e \in Characters(c) PROVE e \in Characters(b)
    OBVIOUS
  <2>1. PICK x \in Texts : e \in {x} \X ((1..c[x]) \X (1..(Length[x] + SeparatorLength)))
    BY DEF Characters
  <2>2. PICK i \in 1..c[x], j \in 1..(Length[x] + SeparatorLength) : e = <<x, <<i, j>>>>
    BY <2>1
  <2>3. i \in 1..b[x]
    BY <1>1, <2>2
  <2> QED
    BY <2>2, <2>3, InCharacters
<1>3. <<y, <<b[y], 1>>>> \in Characters(b) /\ <<y, <<b[y], 1>>>> \notin Characters(c)
  <2>1. b[y] \in 1..b[y] /\ b[y] \notin 1..c[y] /\ 1 \in 1..(Length[y] + SeparatorLength)
    BY <1>1 DEF SeparatorLength
  <2> QED
    BY <2>1, InCharacters
<1>4. Cardinality(Characters(c)) < Cardinality(Characters(b))
  <2>1. IsFiniteSet(Characters(b)) /\ IsFiniteSet(Characters(c))
    BY CharactersAreFinite
  <2>2. /\ Cardinality(Characters(c)) <= Cardinality(Characters(b))
        /\ Cardinality(Characters(c)) # Cardinality(Characters(b))
    BY <1>2, <1>3, <2>1, FS_Subset
  <2>3. Cardinality(Characters(b)) \in Nat /\ Cardinality(Characters(c)) \in Nat
    BY <2>1, FS_CardinalityType
  <2> QED
    BY <2>2, <2>3
<1>5. Cardinality(Characters(b)) \in Nat /\ Cardinality(Characters(c)) \in Nat
  BY CharactersAreFinite, FS_CardinalityType
<1>6. b # Nothing
  BY <1>1 DEF Nothing
<1>7. Size(b) = Cardinality(Characters(b)) - 3
  BY <1>6 DEF Size, SeparatorLength
<1>8. c # Nothing => Size(c) = Cardinality(Characters(c)) - 3
  BY DEF Size, SeparatorLength
<1> QED
  BY <1>4, <1>5, <1>7, <1>8

-----------------------------------------------------------------------------
(* What a call does to a file.                                             *)

\* An accepted call takes from a file what it names and no other entry, brings
\* what it brings and no other, and makes the file no longer than it may be.
LEMMA AcceptedResult ==
  ASSUME NEW t \in Targets, NEW b \in Bags, NEW c \in SensibleCalls, ~Refuses(t, b, c)
  PROVE  /\ \A x \in Texts : Result(b, c)[x] < b[x] => c.call # "add" /\ x = Strip[c.old]
         /\ \A x \in Texts : Result(b, c)[x] > b[x] => c.call # "remove" /\ Pieces[c.new][x] > 0
         /\ Fits(t, Result(b, c)) \/ Size(Result(b, c)) < Size(b)
         /\ c.call = "remove" => Result(b, c)[Strip[c.old]] = 0
<1> DEFINE y == Strip[c.old]
<1>1. /\ c.call \in {"add", "remove", "replace"} /\ y \in Texts
      /\ Pieces[c.new] \in Bags /\ c \in Calls
  BY TextsAssumption DEF SensibleCalls, Calls
<1>2. \A x \in Texts : b[x] \in Nat /\ Pieces[c.new][x] \in Nat
  BY <1>1 DEF Bags
<1>3. \A x \in Texts : Without(b, y)[x] = IF x = y THEN 0 ELSE b[x]
  BY <1>1 DEF Without, Bags
<1>4. Limit[t] \in Nat
  BY FilesAssumption
<1>5. CASE c.call = "add"
  <2>1. \A x \in Texts : Result(b, c)[x] = b[x] + Pieces[c.new][x]
    BY <1>5 DEF Result, Added
  <2>2. Fits(t, Result(b, c))
    BY <1>5 DEF Refuses
  <2>3. \A i, j \in Nat : ~(i + j < i) /\ (i + j > i => j > 0)
    OBVIOUS
  <2> QED
    BY <1>2, <1>5, <2>1, <2>2, <2>3
<1>6. CASE c.call = "replace"
  <2>1. \A x \in Texts : Result(b, c)[x] = (IF x = y THEN 0 ELSE b[x]) + b[y] * Pieces[c.new][x]
    BY <1>1, <1>3, <1>6 DEF Result, Replaced
  <2>2. Fits(t, Result(b, c))
    BY <1>6 DEF Refuses
  <2>3. \A i, j, k \in Nat : ~(i + j * k < i) /\ (i + j * k > i => k > 0)
    OBVIOUS
  <2>4. \A j, k \in Nat : 0 + j * k > j => k > 0
    OBVIOUS
  <2>5. \A x \in Texts : Result(b, c)[x] < b[x] => x = y
    BY <1>1, <1>2, <2>1, <2>3
  <2>6. \A x \in Texts : Result(b, c)[x] > b[x] => Pieces[c.new][x] > 0
    BY <1>1, <1>2, <2>1, <2>3, <2>4
  <2> QED
    BY <1>6, <2>2, <2>5, <2>6
<1>7. CASE c.call = "remove"
  <2>1. Result(b, c) = Without(b, y)
    BY <1>7 DEF Result, Removed
  <2>2. Result(b, c) \in Bags
    BY <1>1, ResultType
  <2>3. b[y] > 0
    BY <1>1, <1>2, <1>7 DEF Refuses
  <2>4. \A x \in Texts : Result(b, c)[x] <= b[x] /\ (Result(b, c)[x] < b[x] => x = y)
    BY <1>2, <1>3, <2>1
  <2>5. Result(b, c)[y] = 0
    BY <1>1, <1>3, <2>1
  <2>6. Result(b, c) = Nothing \/ Size(Result(b, c)) < Size(b)
    BY <1>1, <2>2, <2>3, <2>4, <2>5, FewerIsShorter
  <2>7. Result(b, c) = Nothing => Fits(t, Result(b, c))
    BY <1>4 DEF Fits, Size
  <2>8. \A x \in Texts : ~(Result(b, c)[x] > b[x])
    BY <1>1, <1>2, <1>3, <2>1
  <2> QED
    BY <1>7, <2>4, <2>5, <2>6, <2>7, <2>8
<1> QED
  BY <1>1, <1>5, <1>6, <1>7

\* A step that changes a file is a write or a migration of it.
LEMMA FaithfulStep ==
  ASSUME IInv, Relies, [Next]_vars, NEW t \in Targets, file'[t] # file[t]
  PROVE  \E s \in Stores :
           /\ op'[s] # op[s] /\ op[s].at \in {"call", "migrate"} /\ op[s].target = t
           /\ \/ <<s, t>> \in behind
              \/ op[s].at = "migrate" /\ file[t] = Nothing
              \/ /\ op[s].at = "call"
                 /\ OnlyNamed(t, op[s].call) /\ WithinLimit(t)
                 /\ op[s].call.call = "remove" => file'[t][Strip[op[s].call.old]] = 0
<1>0. op \in [Stores -> Ops] /\ file \in [Targets -> Bags]
  BY DEF IInv, TypeOK
<1>1. ASSUME NEW s \in Stores, Write(s)
      PROVE  /\ op'[s] # op[s] /\ op[s].at = "call" /\ op[s].target = t
             /\ \/ <<s, t>> \in behind
                \/ /\ OnlyNamed(t, op[s].call) /\ WithinLimit(t)
                   /\ op[s].call.call = "remove" => file'[t][Strip[op[s].call.old]] = 0
  <2>1. op'[s] # op[s] /\ op[s].at = "call"
    BY <1>1, OwnStage
  <2>2. op[s] \in CallOp
    BY <1>0, <2>1, OpStages
  <2>3. op[s].call \in SensibleCalls
    BY <2>2 DEF CallOp
  <2>4. op[s].target = t /\ file'[t] = Result(cache[s][t], op[s].call)
    BY <1>0, <1>1 DEF Write
  <2>5. CASE <<s, t>> \notin behind
    <3>1. cache[s][t] = file[t]
      BY <2>1, <2>4, <2>5 DEF IInv, TypeOK, CacheIsFileUnlessBehind
    <3>2. ~Refuses(t, file[t], op[s].call)
      BY <2>1, <2>4, <3>1 DEF Relies, CallsAreAccepted
    <3>3. file[t] \in Bags
      BY <1>0
    <3> QED
      BY <2>1, <2>3, <2>4, <3>1, <3>2, <3>3, AcceptedResult DEF OnlyNamed, WithinLimit
  <2> QED
    BY <2>1, <2>4, <2>5
<1>2. ASSUME NEW s \in Stores, Migrate(s)
      PROVE  /\ op'[s] # op[s] /\ op[s].at = "migrate" /\ op[s].target = t
             /\ <<s, t>> \in behind \/ file[t] = Nothing
  <2>1. op[s].at = "migrate" /\ op'[s] # op[s]
    BY <1>2, OwnStage
  <2>2. op[s].target = t
    BY <1>0, <1>2 DEF Migrate
  <2>3. WillMigrate(s, t)
    BY <2>1, <2>2 DEF WillMigrate
  <2> QED
    BY <2>1, <2>2, <2>3 DEF Relies, MigratesIntoEmpty
<1>3. (\E s \in Stores : Write(s) \/ Migrate(s)) \/ UNCHANGED file
  BY DEF Next, Look, Begin, Reread, Unindex, Index, Open, Crash, vars
<1> QED
  BY <1>1, <1>2, <1>3

\* No memory is lost or made up by a store that no other has overtaken: its write
\* changes what its call names and nothing else, and keeps the file within its
\* limit (add, replace, remove); a migration fills an empty file.
THEOREM MemoryIsNotLost == Spec => WritesAreFaithful
<1> DEFINE Faithful ==
      \A t \in Targets : file'[t] # file[t] =>
        \E s \in Stores :
          /\ op'[s] # op[s] /\ op[s].at \in {"call", "migrate"} /\ op[s].target = t
          /\ \/ <<s, t>> \in behind
             \/ op[s].at = "migrate" /\ file[t] = Nothing
             \/ /\ op[s].at = "call"
                /\ OnlyNamed(t, op[s].call) /\ WithinLimit(t)
                /\ op[s].call.call = "remove" => file'[t][Strip[op[s].call.old]] = 0
<1>1. IInv /\ Relies /\ [Next]_vars => Faithful
  BY FaithfulStep
<1>2. WritesAreFaithful <=> [][Faithful]_vars
  BY DEF WritesAreFaithful
<1> HIDE DEF Faithful
<1> QED
  BY <1>1, <1>2, Invariant, ReliesInvariant, PTL DEF Spec

-----------------------------------------------------------------------------
(* The index.                                                              *)

InFiles(x) == \E t \in Targets : file[t][x] > 0
Agree(x) == x \in index <=> InFiles(x)
Names(s, x) == op[s].at \in Indexing /\ x \in Named(op[s].call)

\* What the call of s has still to do to the index about a text it names.
Owes(s, x) ==
  /\ s \in Strategies
  /\ op[s].at = "index" => op[s].call.call # "remove"
  /\ op[s].call.call # "remove" /\ x = op[s].call.new => InFiles(x)
  /\ op[s].at = "index" /\ x # op[s].call.new => Agree(x)

\* One call at a time is about to index a text, and the index lacks what it owes;
\* about a text that no such call names it is right.
IndexFollows(x) ==
  /\ \A r, s \in Stores : Names(r, x) /\ Names(s, x) => r = s
  /\ \A s \in Stores : Names(s, x) => Owes(s, x)
  /\ (\A s \in Stores : ~Names(s, x)) => Agree(x)

IndexInv == \A x \in Texts \ drifted : IndexFollows(x)

\* The texts a call in progress names.
LEMMA NamedTexts ==
  ASSUME IInv, NEW s \in Stores, op[s].at \in {"call", "written", "unindex", "index"}
  PROVE  /\ op[s].call \in SensibleCalls /\ op[s].call \in Calls /\ op[s].target \in Targets
         /\ op[s].call.call \in {"add", "remove", "replace"}
         /\ op[s].call.old \in Texts /\ op[s].call.new \in Texts
         /\ op[s].call.call = "replace" \/ op[s].call.old = op[s].call.new
         /\ Named(op[s].call) \subseteq Texts
<1>1. op[s] \in CallOp
  BY OpStages DEF IInv, TypeOK
<1>2. op[s].call \in SensibleCalls /\ op[s].target \in Targets
  BY <1>1 DEF CallOp
<1> QED
  BY <1>2 DEF SensibleCalls, Calls, Named

LEMMA IndexInit == Init => IndexInv
<1> SUFFICES ASSUME Init, NEW x \in Texts PROVE IndexFollows(x)
  BY DEF IndexInv
<1>1. \A s \in Stores : ~Names(s, x)
  BY OpStages DEF Init, Names, Indexing
<1>2. Agree(x)
  BY DEF Init, Agree, InFiles, Nothing
<1> QED
  BY <1>1, <1>2 DEF IndexFollows

\* A step that changes neither the files nor the index about x, nor a call that
\* is about to index it.
LEMMA TextKept ==
  ASSUME NEW x \in Texts, IndexFollows(x), x \in index' <=> x \in index,
         InFiles(x)' <=> InFiles(x),
         \A s \in Stores : Names(s, x) \/ Names(s, x)' => op'[s] = op[s]
  PROVE  IndexFollows(x)'
<1>1. \A s \in Stores : Names(s, x)' <=> Names(s, x)
  BY DEF Names
<1>2. Agree(x)' <=> Agree(x)
  BY DEF Agree
<1>3. ASSUME NEW s \in Stores, Names(s, x)' PROVE Owes(s, x)'
  <2>1. Owes(s, x) /\ op'[s] = op[s]
    BY <1>1, <1>3 DEF IndexFollows
  <2> QED
    BY <1>2, <2>1 DEF Owes
<1> QED
  BY <1>1, <1>2, <1>3 DEF IndexFollows

\* What an accepted call leaves in the file, if its texts are entries themselves.
LEMMA PlainResult ==
  ASSUME NEW t \in Targets, NEW b \in Bags, NEW c \in SensibleCalls, ~Refuses(t, b, c),
         \A x \in {c.old, c.new} : Pieces[x] = [Nothing EXCEPT ![x] = 1]
  PROVE  /\ c.call # "remove" => Result(b, c)[c.new] > 0
         /\ \A x \in Texts \ {c.old, c.new} : Result(b, c)[x] > 0 <=> b[x] > 0
<1>1. /\ c.call \in {"add", "remove", "replace"} /\ c.old \in Texts /\ c.new \in Texts
      /\ Pieces[c.new] \in Bags
  BY TextsAssumption DEF SensibleCalls, Calls
<1>2. \A x \in Texts : b[x] \in Nat
  BY DEF Bags
<1>3. \A x \in Texts : Pieces[c.new][x] = IF x = c.new THEN 1 ELSE 0
  BY <1>1 DEF Nothing
<1>4. Strip[c.old] = c.old
  <2>1. Pieces[c.old][c.old] = 1
    BY <1>1 DEF Nothing
  <2> QED
    BY <1>1, <2>1, TextsAssumption
<1>5. \A x \in Texts : Without(b, c.old)[x] = IF x = c.old THEN 0 ELSE b[x]
  BY <1>1 DEF Without, Bags
<1>6. CASE c.call = "add"
  <2>1. \A x \in Texts : Result(b, c)[x] = b[x] + Pieces[c.new][x]
    BY <1>6 DEF Result, Added
  <2> QED
    BY <1>1, <1>2, <1>3, <2>1
<1>7. CASE c.call = "replace"
  <2>1. \A x \in Texts : Result(b, c)[x] = Without(b, c.old)[x] + b[c.old] * Pieces[c.new][x]
    BY <1>1, <1>4, <1>7 DEF Result, Replaced
  <2>2. b[c.old] > 0
    BY <1>1, <1>2, <1>4, <1>7 DEF Refuses
  <2>3. \A i, j \in Nat : i + j * 1 = i + j /\ i + j * 0 = i
    OBVIOUS
  <2>4. \A x \in Texts : Without(b, c.old)[x] \in Nat
    BY <1>2, <1>5
  <2>5. \A x \in Texts : Result(b, c)[x] =
          IF x = c.new THEN Without(b, c.old)[x] + b[c.old] ELSE Without(b, c.old)[x]
    BY <1>1, <1>2, <1>3, <2>1, <2>3, <2>4
  <2> QED
    BY <1>1, <1>2, <1>5, <2>2, <2>4, <2>5
<1>8. CASE c.call = "remove"
  BY <1>1, <1>4, <1>5, <1>8 DEF Result, Removed
<1> QED
  BY <1>1, <1>6, <1>7, <1>8

\* A strategy that is not behind leaves the index behind by the texts of its call;
\* any other store leaves it wrong about what changes.
LEMMA IndexWrite ==
  ASSUME IInv, Relies, IndexInv, NEW s \in Stores, Write(s), NEW x \in Texts \ drifted'
  PROVE  IndexFollows(x)'
<1>0. op \in [Stores -> Ops] /\ file \in [Targets -> Bags]
  BY DEF IInv, TypeOK
<1>1. /\ op[s].at = "call" /\ op'[s].at = "written" /\ op'[s].call = op[s].call
      /\ \A r \in Stores : r # s => op'[r] = op[r]
  BY OwnStage, OthersKeep
<1>2. PICK t \in Targets, c \in SensibleCalls : t = op[s].target /\ c = op[s].call
  BY <1>1, NamedTexts
<1>3. /\ file' = [file EXCEPT ![t] = Result(cache[s][t], c)]
      /\ drifted' = drifted \cup Overlooked(s, t, c) /\ UNCHANGED index
  BY <1>2 DEF Write
<1>4. x \notin Overlooked(s, t, c) /\ IndexFollows(x)
  BY <1>3 DEF IndexInv
<1>5. /\ file'[t] = Result(cache[s][t], c)
      /\ \A u \in Targets : u # t => file'[u] = file[u]
  BY <1>0, <1>2, <1>3
<1>6. ~Names(s, x)
  BY <1>1 DEF Names, Indexing
<1>7. CASE x \notin Named(c) /\ (Result(cache[s][t], c)[x] > 0 <=> file[t][x] > 0)
  <2>1. InFiles(x)' <=> InFiles(x)
    BY <1>2, <1>5, <1>7 DEF InFiles
  <2>2. ~Names(s, x)'
    BY <1>1, <1>2, <1>7 DEF Names
  <2> QED
    BY <1>1, <1>3, <1>4, <1>6, <2>1, <2>2, TextKept
<1>8. CASE s \in Strategies /\ <<s, t>> \notin behind
           /\ \A y \in Named(c) : Pieces[y] = [Nothing EXCEPT ![y] = 1]
  <2>1. cache[s][t] = file[t]
    BY <1>1, <1>2, <1>8 DEF IInv, TypeOK, CacheIsFileUnlessBehind
  <2>2. ~Refuses(t, file[t], c)
    BY <1>1, <1>2, <2>1 DEF Relies, CallsAreAccepted
  <2>3. file[t] \in Bags
    BY <1>0, <1>2
  <2>4. /\ c.call # "remove" => Result(file[t], c)[c.new] > 0
        /\ \A y \in Texts \ {c.old, c.new} : Result(file[t], c)[y] > 0 <=> file[t][y] > 0
    BY <1>2, <1>8, <2>2, <2>3, PlainResult DEF Named
  <2>5. CASE x \notin Named(c)
    BY <1>7, <2>1, <2>4, <2>5 DEF Named
  <2>6. CASE x \in Named(c)
    <3>1. ~Pending(x)
      BY <1>4, <1>8, <2>6 DEF Overlooked
    <3>2. \A r \in Stores : ~Names(r, x)
      BY <3>1 DEF Pending, Names
    <3>3. \A r \in Stores : Names(r, x)' => r = s
      BY <1>1, <3>2 DEF Names
    <3>4. c.call # "remove" /\ x = c.new => InFiles(x)'
      BY <1>2, <1>5, <2>1, <2>4 DEF InFiles
    <3>5. Owes(s, x)'
      BY <1>1, <1>2, <1>8, <3>4 DEF Owes
    <3>6. Names(s, x)'
      BY <1>1, <1>2, <2>6 DEF Names, Indexing
    <3> QED
      BY <3>3, <3>5, <3>6 DEF IndexFollows
  <2> QED
    BY <2>5, <2>6
<1>9. CASE ~(s \in Strategies /\ <<s, t>> \notin behind
             /\ \A y \in Named(c) : Pieces[y] = [Nothing EXCEPT ![y] = 1])
  <2>1. x \notin Named(c) \cup Changed(t, Result(cache[s][t], c))
    BY <1>4, <1>9 DEF Overlooked
  <2> QED
    BY <1>7, <2>1 DEF Changed
<1> QED
  BY <1>8, <1>9

\* A step of the store that indexes, on a text its call names.
LEMMA IndexNamed ==
  ASSUME IInv, NEW s \in Stores, Reread(s) \/ Unindex(s) \/ Index(s),
         NEW x \in Texts \ drifted', IndexFollows(x), Names(s, x)
  PROVE  IndexFollows(x)'
<1>1. op[s].at \in {"written", "unindex", "index"} /\ UNCHANGED file
      /\ \A r \in Stores : r # s => op'[r] = op[r]
  BY OwnStage, OthersKeep DEF Reread, Unindex, Index
<1>2. /\ op[s].call.call \in {"add", "remove", "replace"}
      /\ op[s].call.call = "replace" \/ op[s].call.old = op[s].call.new
      /\ x \in {op[s].call.old, op[s].call.new}
  BY <1>1, NamedTexts DEF Names, Named
<1>3. Owes(s, x) /\ \A r \in Stores : r # s => ~Names(r, x)
  BY DEF IndexFollows
<1>4. \A r \in Stores : r # s => ~Names(r, x)'
  BY <1>1, <1>3 DEF Names
<1>5. InFiles(x)' <=> InFiles(x)
  BY <1>1 DEF InFiles
<1>6. ASSUME op'[s].at = "idle", Agree(x)' PROVE IndexFollows(x)'
  <2>1. ~Names(s, x)'
    BY <1>6 DEF Names, Indexing
  <2> QED
    BY <1>4, <1>6, <2>1 DEF IndexFollows
<1>7. ASSUME Owes(s, x)', op'[s].at \in Indexing, op'[s].call = op[s].call PROVE IndexFollows(x)'
  <2>1. Names(s, x)'
    BY <1>7 DEF Names
  <2> QED
    BY <1>4, <1>7, <2>1 DEF IndexFollows
<1>8. CASE Reread(s)
  <2>1. op[s].at = "written" /\ op'[s].at = "unindex" /\ op'[s].call = op[s].call
    BY <1>3, <1>8, OwnStage DEF Owes
  <2>2. Owes(s, x)'
    BY <1>3, <1>5, <2>1 DEF Owes
  <2> QED
    BY <1>7, <2>1, <2>2 DEF Indexing
<1>9. CASE Unindex(s)
  <2>1. op[s].at = "unindex"
    BY <1>9, OwnStage
  <2>2. ASSUME op[s].call.call # "add", x = op[s].call.old
        PROVE  Agree(x)' /\ ~InFiles(x)
    <3>1. index' = index \ {op[s].call.old} /\ ~InFiles(x)
      BY <1>9, <2>2 DEF Unindex, InFiles
    <3> QED
      BY <1>5, <2>2, <3>1 DEF Agree
  <2>3. CASE op[s].call.call = "remove"
    <3>1. op'[s].at = "idle" /\ x = op[s].call.old
      BY <1>2, <1>9, <2>3, OwnStage
    <3> QED
      BY <1>6, <2>2, <2>3, <3>1
  <2>4. CASE op[s].call.call # "remove"
    <3>1. op'[s].at = "index" /\ op'[s].call = op[s].call
      BY <1>9, <2>4, OwnStage
    <3>2. x # op[s].call.new => Agree(x)'
      BY <1>2, <2>2, <2>4
    <3>3. Owes(s, x)'
      BY <1>3, <1>5, <2>4, <3>1, <3>2 DEF Owes
    <3> QED
      BY <1>7, <3>1, <3>3 DEF Indexing
  <2> QED
    BY <2>3, <2>4
<1>10. CASE Index(s)
  <2>1. op[s].at = "index" /\ op'[s].at = "idle"
    BY <1>10, OwnStage
  <2>2. \/ index' = index \cup {op[s].call.new}
        \/ index' = index /\ x # op[s].call.new
    BY <1>10 DEF Index
  <2>3. Agree(x)'
    BY <1>3, <1>5, <2>1, <2>2 DEF Owes, Agree
  <2> QED
    BY <1>6, <2>1, <2>3
<1> QED
  BY <1>8, <1>9, <1>10

LEMMA IndexOwn ==
  ASSUME IInv, IndexInv, NEW s \in Stores, Reread(s) \/ Unindex(s) \/ Index(s),
         NEW x \in Texts \ drifted'
  PROVE  IndexFollows(x)'
<1>1. op[s].at \in {"written", "unindex", "index"} /\ UNCHANGED file
      /\ \A r \in Stores : r # s => op'[r] = op[r]
  BY OwnStage, OthersKeep DEF Reread, Unindex, Index
<1>2. IndexFollows(x)
  <2>1. drifted \subseteq drifted'
    BY DEF Reread, Unindex, Index
  <2> QED
    BY <2>1 DEF IndexInv
<1>3. CASE ~Names(s, x)
  <2>1. x \notin {op[s].call.old, op[s].call.new}
    BY <1>1, <1>3 DEF Names, Named, Indexing
  <2>2. x \in index' <=> x \in index
    BY <2>1 DEF Reread, Unindex, Index
  <2>3. ~Names(s, x)'
    <3>1. op'[s].at \notin Indexing \/ op'[s].call = op[s].call
      BY OwnStage DEF Indexing
    <3> QED
      BY <2>1, <3>1 DEF Names, Named
  <2>4. InFiles(x)' <=> InFiles(x)
    BY <1>1 DEF InFiles
  <2> QED
    BY <1>1, <1>2, <1>3, <2>2, <2>3, <2>4, TextKept
<1>4. CASE Names(s, x)
  BY <1>2, <1>4, IndexNamed
<1> QED
  BY <1>3, <1>4

LEMMA IndexStepKeeps ==
  ASSUME IInv, Relies, IndexInv, [Next]_vars
  PROVE  IndexInv'
<1> SUFFICES ASSUME NEW x \in Texts \ drifted' PROVE IndexFollows(x)'
  BY DEF IndexInv
<1>0. op \in [Stores -> Ops]
  BY DEF IInv, TypeOK
<1>1. ASSUME NEW s \in Stores, Look(s) \/ Begin(s) \/ Open(s)
      PROVE  IndexFollows(x)'
  <2>1. /\ UNCHANGED <<file, index, drifted>>
        /\ \A r \in Stores : r # s => op'[r] = op[r]
    BY <1>1, OthersKeep DEF Look, Begin, Open
  <2>2. ~Names(s, x) /\ ~Names(s, x)'
    BY <1>1, OwnStage DEF Names, Indexing
  <2>3. IndexFollows(x) /\ (InFiles(x)' <=> InFiles(x))
    BY <2>1 DEF IndexInv, InFiles
  <2> QED
    BY <2>1, <2>2, <2>3, TextKept
<1>2. ASSUME NEW s \in Stores, Migrate(s)
      PROVE  IndexFollows(x)'
  <2> DEFINE t == op[s].target
  <2>1. /\ UNCHANGED index /\ \A r \in Stores : r # s => op'[r] = op[r]
        /\ drifted' = drifted \cup {y \in Changed(t, Old[t]) : Old[t] # Nothing}
        /\ file' = IF Old[t] = Nothing THEN file ELSE [file EXCEPT ![t] = Old[t]]
    BY <1>2, OthersKeep DEF Migrate
  <2>2. ~Names(s, x) /\ ~Names(s, x)'
    BY <1>2, OwnStage DEF Names, Indexing
  <2>3. IndexFollows(x)
    BY <2>1 DEF IndexInv
  <2>4. t \in Targets /\ file \in [Targets -> Bags]
    BY <1>0, <1>2, OwnStage, OpStages DEF MigrateOp, IInv, TypeOK
  <2>5. Old[t] = Nothing \/ (Old[t][x] > 0 <=> file[t][x] > 0)
    BY <2>1 DEF Changed
  <2>6. \A u \in Targets : file'[u][x] > 0 <=> file[u][x] > 0
    BY <2>1, <2>4, <2>5
  <2>7. InFiles(x)' <=> InFiles(x)
    BY <2>6 DEF InFiles
  <2> QED
    BY <2>1, <2>2, <2>3, <2>7, TextKept
<1>3. ASSUME NEW p \in Processes, Crash(p)
      PROVE  IndexFollows(x)'
  <2> DEFINE dead == {s \in Stores : Owner[s] = p}
             unindexed == {r \in dead : op[r].at \in Indexing}
  <2>1. /\ UNCHANGED <<file, index>>
        /\ drifted' = drifted \cup UNION {Named(op[s].call) : s \in unindexed}
        /\ op' = [s \in Stores |-> IF s \in dead THEN Idle ELSE op[s]]
    BY <1>3 DEF Crash
  <2>2. \A r \in dead : ~Names(r, x)
    BY <2>1 DEF Names
  <2>3. \A r \in dead : ~Names(r, x)'
    BY <2>1, OpStages DEF Names, Indexing
  <2>4. IndexFollows(x) /\ (InFiles(x)' <=> InFiles(x))
    BY <2>1 DEF IndexInv, InFiles
  <2>5. \A r \in Stores : Names(r, x) \/ Names(r, x)' => op'[r] = op[r]
    BY <2>1, <2>2, <2>3
  <2> QED
    BY <2>1, <2>4, <2>5, TextKept
<1>4. CASE UNCHANGED vars
  <2>1. UNCHANGED <<file, index, op, drifted>>
    BY <1>4 DEF vars
  <2>2. IndexFollows(x) /\ (InFiles(x)' <=> InFiles(x))
    BY <2>1 DEF IndexInv, InFiles
  <2> QED
    BY <2>1, <2>2, TextKept
<1> QED
  BY <1>1, <1>2, <1>3, <1>4, IndexWrite, IndexOwn DEF Next

\* A search finds a text if and only if a file has it, for every text about which
\* nothing happened that the index does not follow, whatever happened about the
\* others (FileMemoryStrategy.write, replace, remove).
THEOREM SearchesAreExact == Spec => []SearchIsExact
<1>1. IInv /\ Relies /\ IndexInv /\ [Next]_vars => IndexInv'
  BY IndexStepKeeps
<1>2. IndexInv => SearchIsExact
  BY DEF IndexInv, IndexFollows, Names, Pending, Agree, InFiles, SearchIsExact
<1> QED
  BY <1>1, <1>2, IndexInit, Invariant, ReliesInvariant, PTL DEF Spec
=============================================================================
