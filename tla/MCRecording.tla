----------------------------- MODULE MCRecording -----------------------------
(***************************************************************************)
(* The recorder and, against its contract, the run's effects.  A behaviour *)
(* explores one of the two; the other stays as it begins.                  *)
(***************************************************************************)
EXTENDS Recording, RunEffects

CONSTANT Parts  \* the parts that are explored

VARIABLE part

MCLimits ==
    {[segment |-> 3, max |-> 6, backlog |-> 2], [segment |-> 2, max |-> 0, backlog |-> 1]}

MCInit ==
    /\ part \in Parts
    /\ RecInit /\ EffectsInit
    /\ part # "recorder" => limits = CHOOSE l \in Limits : TRUE

MCNext ==
    /\ UNCHANGED part
    /\ \/ part = "recorder" /\ RecNext /\ UNCHANGED effectVars
       \/ part = "effects" /\ EffectsNext /\ UNCHANGED recVars

MCSpec == MCInit /\ [][MCNext]_<<part, recVars, effectVars>>

=============================================================================
