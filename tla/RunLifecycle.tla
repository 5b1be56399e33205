--------------------------- MODULE RunLifecycle ---------------------------
(***************************************************************************)
(* What a run promises whoever reads its meta.json: the state diagram that *)
(* the transition methods of src/model/transition.rs allow, seen from the  *)
(* disk.  Supervision is shown to implement it.                            *)
(*                                                                         *)
(* A run without --after writes meta.json for the first time once it is    *)
(* Running or already ended, so Absent may be followed by either.          *)
(***************************************************************************)
EXTENDS RunStatus

VARIABLE status

Init == status = "Absent"

\* The sidecar writes Starting only to make a dependency wait observable.
PublishStarting == status = "Absent" /\ status' = "Starting"

PublishRunning == status \in {"Absent", "Starting"} /\ status' = "Running"

\* The child never started.
EndChildless ==
    /\ status \in {"Absent", "Starting"}
    /\ status' \in ChildlessEnds

\* The sidecar observed the exit of a child it had published.
EndObserved == status = "Running" /\ status' \in ObservedExits

\* The sidecar failed after the spawn and says so.
EndFailed == status \in {"Absent", "Starting", "Running"} /\ status' = "SidecarFailed"

\* Nothing but a published run can be found lost.
InferLost == status \in Live /\ status' = "SidecarLost"

\* The start client removes the directory of a run that never answered it.  No
\* observed exit is lost that way.
Remove == status \notin ObservedExits \cup {"Removed"} /\ status' = "Removed"

\* A removal does not stop a reconciler that had already decided: an event append
\* recreates the directory, and the record it writes there is never of an exit.
Revive == status = "Removed" /\ status' \in {"SidecarLost", "SidecarFailed"}

Next ==
    \/ PublishStarting \/ PublishRunning
    \/ EndChildless \/ EndObserved \/ EndFailed
    \/ InferLost \/ Remove \/ Revive

Spec == Init /\ [][Next]_status

=============================================================================
