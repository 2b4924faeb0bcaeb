---------------------------- MODULE MCSkillStore ----------------------------
(* Instances of SkillStore.                                                *)
EXTENDS SkillStore
CONSTANTS agent, tool, server, cli

\* The long-lived engine of a server, and the engine of a command of the
\* command line.
MCEngines == {agent, tool}
MCOwner == [e \in MCEngines |-> IF e = tool THEN cli ELSE server]

MCOne == [e \in {agent} |-> server]
=============================================================================
