---------------------------- MODULE MCMemoryStore ----------------------------
(* An instance of MemoryStore.                                             *)
EXTENDS MemoryStore, TLC
CONSTANTS agent, request, other, server, tui, a, b, both

\* The server's strategy, the store of a request to it, and the strategy of a
\* second process.
MCStores == {agent, request, other}
MCOwner == [s \in MCStores |-> IF s = other THEN tui ELSE server]

\* a and b, and a text that is read as the two.
MCTexts == {a, b, both}
MCStrip == [x \in MCTexts |-> x]
MCPieces ==
  [x \in MCTexts |-> [y \in MCTexts |-> IF y # both /\ x \in {y, both} THEN 1 ELSE 0]]
MCLength == [x \in MCTexts |-> IF x = both THEN 5 ELSE 1]

\* Two entries fit in one file, one in the other; the old memory has four.
MCLimit == [t \in Targets |-> IF t = "memory" THEN 5 ELSE 1]
MCOld ==
  [t \in Targets |-> [x \in MCTexts |->
     IF t = "memory" /\ x # both THEN 2 ELSE 0]]

MCSymmetry == Permutations({a, b})
==============================================================================
