--------------------------- MODULE RecorderContract ---------------------------
(***************************************************************************)
(* What a run's recorder promises the sidecar (src/recorder.rs): recording *)
(* may stop early, once, and reports the stop as it happens; closing it    *)
(* may itself be the stop; and after the close there is no stop to come.   *)
(* Recording implements this, and RunEffects relies on it.                 *)
(***************************************************************************)
EXTENDS Sequences

VARIABLES
    rstop,    \* the stop, or Recorded
    reports,  \* the calls of on_stop
    rclosed   \* finish has returned

contractVars == <<rstop, reports, rclosed>>

Recorded == [none |-> TRUE]

ContractInit == rstop = Recorded /\ reports = <<>> /\ rclosed = FALSE

Stops ==
    /\ rstop = Recorded /\ rstop' # Recorded
    /\ reports' = Append(reports, rstop')

ContractStop == ~rclosed /\ Stops /\ UNCHANGED rclosed

ContractClose ==
    /\ ~rclosed /\ rclosed' = TRUE
    /\ Stops \/ UNCHANGED <<rstop, reports>>

ContractNext == ContractStop \/ ContractClose

ContractSpec == ContractInit /\ [][ContractNext]_contractVars

=============================================================================
