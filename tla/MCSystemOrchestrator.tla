------------------------ MODULE MCSystemOrchestrator ------------------------
(* Small instances of SystemOrchestrator for TLC.                          *)
EXTENDS SystemOrchestrator

\* Independent issues, a chain, a fork with a dependency on what a replan adds,
\* one that waits for an issue that never exists, and the empty list.
MCLists ==
  {<<{}, {}>>, <<{}, {1}>>, <<{}, {}, {1, 2}>>, <<{3}, {}>>, <<{9}>>, <<>>}

MCBoth == {TRUE, FALSE}
=============================================================================
