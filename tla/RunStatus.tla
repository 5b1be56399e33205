----------------------------- MODULE RunStatus -----------------------------
(***************************************************************************)
(* The run states of src/model/state.rs and the transition methods of      *)
(* src/model/transition.rs.  A status is the name status_name gives it;    *)
(* "Absent" is a session whose meta.json was never written, "Removed" one  *)
(* whose directory was deleted.  A transition the code refuses returns Err *)
(* and leaves the status alone, so here each transition is a function that *)
(* returns its argument when it refuses.                                   *)
(***************************************************************************)

Live == {"Starting", "Running"}

\* The exits a sidecar observes: it reaped the child and classified it.
ObservedExits == {"ExitedOk", "ExitedError", "Killed", "KilledForced", "TimedOut"}

ExitReasons == ObservedExits \cup {"SidecarFailed"}

\* Terminal states in which no child was ever spawned.
ChildlessEnds == {"SpawnFailed", "DependencyFailed"}

\* What the sidecar itself can record, and what reconciliation can infer.
SidecarEnds == ExitReasons \cup ChildlessEnds

Terminals == SidecarEnds \cup {"SidecarLost"}

Statuses == Live \cup Terminals

MetaStatuses == Statuses \cup {"Absent", "Removed"}

IsTerminal(s) == s \in Terminals

TransitionRunning(s) == IF s = "Starting" THEN "Running" ELSE s

TransitionSpawnFailed(s) == IF s = "Starting" THEN "SpawnFailed" ELSE s

TransitionDependencyFailed(s) == IF s = "Starting" THEN "DependencyFailed" ELSE s

\* Refuses SidecarFailed: that record has its own transition and evidence.
TransitionExited(s, how) ==
    IF s = "Running" /\ how \in ObservedExits THEN how ELSE s

\* Mutant: the sidecar's own failure is recorded as a loss.
TransitionSidecarFailed_AsLost(s) == IF s \in Live THEN "SidecarLost" ELSE s

TransitionSidecarFailed(s) == IF s \in Live THEN "SidecarFailed" ELSE s

ReconcileSidecarLost(s) == IF s \in Live THEN "SidecarLost" ELSE s

(***************************************************************************)
(* Replay the sidecar's own terminal event into meta.  spawned says that   *)
(* the child_pid breadcrumb names the child: without it a SidecarFailed    *)
(* recorded before Running has no child to keep and is refused.            *)
(***************************************************************************)
HealTerminalFromEvent(s, ended, spawned) ==
    CASE s = "Running" /\ ended \in ExitReasons -> ended
      [] s = "Starting" /\ ended = "SidecarFailed" /\ spawned -> ended
      [] s = "Starting" /\ ended \in ChildlessEnds -> ended
      [] OTHER -> s

=============================================================================
