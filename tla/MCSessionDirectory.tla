------------------------- MODULE MCSessionDirectory -------------------------
(***************************************************************************)
(* Instances of SessionDirectory for TLC: each names its scenarios.        *)
(***************************************************************************)
EXTENDS SessionDirectory, TLC

CONSTANTS a, b, c1, c2, c3

Pair == {a, b}
Trio == {a, b, c1}
Quintet == {a, b, c1, c2, c3}

Scenario(kind, first, after, serial, mortal) ==
    [kind |-> kind, first |-> first, after |-> after, serial |-> serial, mortal |-> mortal]

\* One agent's session: start, replace, status and prune in turn.
AgentKind ==
    a :> "start" @@ b :> "replace" @@ c1 :> "status" @@ c2 :> "start" @@ c3 :> "prune"

\* Kills whose session is replaced under them.
KillKind ==
    a :> "start" @@ b :> "replace" @@ c1 :> "replace" @@ c2 :> "kill" @@ c3 :> "kill_force"

\* A run with dependencies, asked for again, replaced, killed and looked at while it waits.
AfterKind ==
    a :> "start" @@ b :> "replace" @@ c1 :> "start" @@ c2 :> "status" @@ c3 :> "kill"

Turns == {Scenario(AgentKind, NoCmd, {}, TRUE, TRUE), Scenario(KillKind, a, {}, TRUE, TRUE),
          Scenario(AfterKind, NoCmd, {a, b}, TRUE, TRUE)}

\* Two agents that do not wait for one another, and a waiting run killed while it is replaced.
Rivals ==
    {Scenario(a :> "start" @@ b :> "replace" @@ c1 :> "kill_force", NoCmd, {}, FALSE, TRUE),
     Scenario(a :> "start" @@ b :> "replace" @@ c1 :> "kill", a, {a, b}, FALSE, TRUE)}
Onlookers == {Scenario(a :> "start" @@ b :> "status", NoCmd, {}, FALSE, FALSE)}

=============================================================================
