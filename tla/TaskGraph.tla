----------------------------- MODULE TaskGraph -----------------------------
(***************************************************************************)
(* What a workflow over dependent issues promises, whatever its rounds,    *)
(* workers and retries: an issue is decided once, it is resolved only when *)
(* everything it depends on is resolved, and issues are only ever added at *)
(* the end.  SystemOrchestrator implements it.                             *)
(***************************************************************************)
EXTENDS Integers, Sequences

VARIABLES
  deps,     \* per issue, in order of creation: the issues it depends on
  verdict   \* per issue: "open", "resolved" or "failed"

vars == <<deps, verdict>>

Issue == 1..Len(deps)

Init == deps = <<>> /\ verdict = <<>>

\* A decomposition adds issues; what is decided stays decided.
Add ==
  /\ Len(deps') > Len(deps)
  /\ Len(verdict') = Len(deps')
  /\ \A i \in Issue : deps'[i] = deps[i] /\ verdict'[i] = verdict[i]
  /\ \A i \in 1..Len(deps') \ Issue : verdict'[i] = "open"

Ready(i) ==
  \A d \in deps[i] : d \in Issue /\ verdict[d] = "resolved"

Resolve(i) ==
  /\ verdict[i] = "open" /\ Ready(i)
  /\ verdict' = [verdict EXCEPT ![i] = "resolved"]
  /\ UNCHANGED deps

\* One worker gives up on its issue, or the workflow on several.
Fail(S) ==
  /\ S # {} /\ \A i \in S : verdict[i] = "open"
  /\ verdict' = [i \in Issue |-> IF i \in S THEN "failed" ELSE verdict[i]]
  /\ UNCHANGED deps

Next ==
  \/ Add
  \/ \E i \in Issue : Resolve(i)
  \/ \E S \in SUBSET Issue : Fail(S)

Spec == Init /\ [][Next]_vars
=============================================================================
