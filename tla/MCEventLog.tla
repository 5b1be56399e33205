----------------------------- MODULE MCEventLog -----------------------------
(***************************************************************************)
(* The event log with its writers and events --follow, and watch.  A       *)
(* behaviour is about one of them.                                         *)
(***************************************************************************)
EXTENDS EventLog, Watch

VARIABLE part

Opts(now, last, strict) == [now |-> now, last |-> last, strict |-> strict]
Setup(appends, big, opts, resumed, removed, failing) ==
    [appends |-> appends, big |-> big, opts |-> opts, restarts |-> resumed,
     removals |-> removed, failures |-> failing]

Plain == Opts(FALSE, 0, FALSE)

\* Torn lines and a resumed reader; blobs and a removed session; a strict reader; one
\* that sees only what comes from now on; one that sees only the last event.
EverySetup ==
    {Setup(<<2, 1>>, {}, Plain, 1, 0, 1),
     Setup(<<1, 1>>, {1, 2}, Plain, 0, 1, 0),
     Setup(<<1, 1>>, {1}, Opts(FALSE, 0, TRUE), 0, 0, 1),
     Setup(<<1, 1>>, {}, Opts(TRUE, 0, FALSE), 1, 0, 0),
     Setup(<<1, 1>>, {}, Opts(FALSE, 1, FALSE), 1, 1, 0)}

Watched(events, logs, fromNow) == [events |-> events, logs |-> logs, fromNow |-> fromNow]

MCWatchOptions ==
    {Watched(TRUE, TRUE, FALSE), Watched(TRUE, TRUE, TRUE), Watched(FALSE, TRUE, FALSE)}

MCInit ==
    /\ part \in {"log", "watch"}
    /\ Init /\ (part # "log" => setup = CHOOSE s \in Setups : TRUE)
    /\ WatchInit /\ (part # "watch" => flags = CHOOSE f \in WatchOptions : TRUE)

MCNext ==
    /\ UNCHANGED part
    /\ \/ part = "log" /\ Next /\ UNCHANGED watchVars
       \/ part = "watch" /\ WatchNext /\ UNCHANGED vars

MCSpec == MCInit /\ [][MCNext]_<<part, vars, watchVars>>

=============================================================================
