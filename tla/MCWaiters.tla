------------------------------ MODULE MCWaiters ------------------------------
(***************************************************************************)
(* The commands that wait for a run: --after and wait, log and the         *)
(* foreground run, and exec.  A behaviour is about one of them.            *)
(***************************************************************************)
EXTENDS Waiting, LogFollow, Exec

CONSTANT Parts

VARIABLE part

MCAfter == <<"build", "test">>

Scenario(waiter, any, timed, ends, starts, kills) ==
    [waiter |-> waiter, any |-> any, timed |-> timed, ends |-> ends, starts |-> starts,
     kills |-> kills]

\* Sessions are started again in scenarios with two ends each; the last one has them all.
MCScenarios ==
    {Scenario("after", FALSE, FALSE, {"ok", "error"}, 1, 0),
     Scenario("after", TRUE, FALSE, {"ok", "killed"}, 0, 2),
     Scenario("after", TRUE, TRUE, {"ok", "error"}, 0, 0),
     Scenario("wait", FALSE, FALSE, {"killed", "error"}, 1, 0),
     Scenario("wait", TRUE, TRUE, {"ok", "error"}, 0, 0),
     Scenario("wait", FALSE, FALSE, Ends, 0, 0)}

Query(tail, since, follow) == [tail |-> tail, since |-> since, follow |-> follow]

MCQueries ==
    {Query(2, FALSE, TRUE), Query(0, FALSE, TRUE), Query(NoTail, FALSE, TRUE),
     Query(NoTail, TRUE, TRUE), Query(1, TRUE, FALSE)}

Plan(exec_target, timed, killed, exits) ==
    [target |-> exec_target, timed |-> timed, killed |-> killed, exits |-> exits]

MCPlans ==
    {Plan("PosixShell", {1}, {}, FALSE), Plan("PosixShell", {}, {1}, FALSE),
     Plan("DuckDb", {1}, {}, TRUE), Plan("SideChannel", {1}, {2}, TRUE),
     Plan("None", {}, {}, FALSE)}

vars == <<part, waitVars, logVars, execVars>>

MCInit ==
    /\ part \in Parts
    /\ WaitInit /\ (part # "wait" => opts = CHOOSE s \in Scenarios : TRUE)
    /\ LogInit /\ (part # "log" => query = CHOOSE q \in Queries : TRUE)
    /\ ExecInit /\ (part # "exec" => plan = CHOOSE p \in Plans : TRUE)

MCNext ==
    /\ UNCHANGED part
    /\ \/ part = "wait" /\ WaitNext /\ UNCHANGED <<logVars, execVars>>
       \/ part = "log" /\ LogNext /\ UNCHANGED <<waitVars, execVars>>
       \/ part = "exec" /\ ExecNext /\ UNCHANGED <<waitVars, logVars>>

\* The waiting processes run, and so do the shell and the capture threads; the sessions
\* waited for, the log's writers and the shell's own end are not sure to go on.
WaitFairness ==
    WF_waitVars(part = "wait" /\ DependentSteps) /\ WF_waitVars(part = "wait" /\ WaitSteps)
LogFairness == WF_logVars(part = "log" /\ ReaderSteps)
ExecFairness ==
    /\ \A e \in Execs : WF_execVars(part = "exec" /\ ex[e].pc # "idle" /\ Client(e))
    /\ WF_execVars(part = "exec" /\ ShellPrints) /\ WF_execVars(part = "exec" /\ SessionEnds)
    /\ \A tag \in {"O", "E"} : WF_execVars(part = "exec" /\ Captures(tag))

MCSpec == MCInit /\ [][MCNext]_vars /\ WaitFairness /\ LogFairness /\ ExecFairness

-----------------------------------------------------------------------------
\* Nobody waits forever: --after ends its wait once the runs it is bound to are over, its
\* deadline passed or a kill was asked for, and wait once the sessions' sidecars are gone
\* (WaitsResolve); log --follow and a foreground run end after the run did (FollowEnds); an
\* exec that began returns (ExecReturns).
NobodyWaitsForever == WaitsResolve /\ FollowEnds /\ ExecReturns

=============================================================================
