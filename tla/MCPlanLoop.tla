---------------------------- MODULE MCPlanLoop ----------------------------
(* Small instances of PlanLoop for TLC.                                    *)
EXTENDS PlanLoop

MCPlan(strategy, text, subtasks, typed, schedule) ==
  [strategy |-> strategy, text |-> text, subtasks |-> subtasks,
   typed |-> typed, schedule |-> schedule]

\* One plan of every kind; the two delegating ones differ in their text, so a
\* replan may answer with a new plan, an old one or the other's twin.
MCPlans ==
  {MCPlan("direct", "a", 0, FALSE, FALSE),
   MCPlan("direct", "b", 0, FALSE, TRUE),
   MCPlan("use_skill", "a", 0, FALSE, FALSE),
   MCPlan("delegate", "a", 1, TRUE, FALSE),
   MCPlan("delegate", "b", 2, TRUE, FALSE),
   MCPlan("delegate", "c", 2, FALSE, FALSE),
   MCPlan("conversational", "", 0, FALSE, FALSE),
   MCPlan("direct", "", 0, FALSE, TRUE)}

\* The program its text intends, and the program as it stands.
MCBoth == {{}, Names}
=============================================================================
