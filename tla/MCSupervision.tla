--------------------------- MODULE MCSupervision ---------------------------
(***************************************************************************)
(* Instances of Supervision for TLC.                                       *)
(***************************************************************************)
EXTENDS Supervision, TLC

CONSTANTS r1, r2, k1, k2

LaunchSpec(deps, stdin, pty, timeout) ==
    [deps |-> deps, stdin |-> stdin, pty |-> pty, timeout |-> timeout]

\* The launch surface: interactive, and waiting with a timeout.
EverySpec  == {LaunchSpec(FALSE, TRUE, TRUE, FALSE), LaunchSpec(TRUE, FALSE, FALSE, TRUE)}
TimedSpecs == {LaunchSpec(TRUE, FALSE, FALSE, TRUE)}

NoOne          == {}
OneReconciler  == {r1}
TwoReconcilers == {r1, r2}
TwoKillers     == {k1, k2}

AllFaults   == FaultPoints
KillFaults  == {"unkillable", "crash", "cli_crash", "marker", "request", "probe"}
ReadyFaults == {"setup", "spawn", "crumb", "pty", "stdin", "wait", "panic", "crash",
                "client_lost"}

\* Two kills race one another, or one kill races a reconciliation.
TwoAtATime ==
    (\E r \in Reconcilers : rec[r].pc # "idle") => \E k \in Killers : kil[k].pc = "idle"

KillerSymmetry == Permutations(TwoKillers)
ReconcilerSymmetry == Permutations(TwoReconcilers)

=============================================================================
