-------------------------- MODULE MCTerminalClients --------------------------
(***************************************************************************)
(* The clients of a PTY session: attach with its escape, and push; and the *)
(* sockets they connect to.  A behaviour is about one of them.             *)
(***************************************************************************)
EXTENDS AttachClient, EscapeParser, PushClient, AttachSockets

VARIABLE part

MCUsers == {[keys |-> 2, resizes |-> 0], [keys |-> 0, resizes |-> 1]}

\* Any three events, any four of a terminal that reports releases, and any five of two
\* prefixes and what may come between them.
MCScripts ==
    [1..3 -> {"PREFIX", "92;5", "92:3", "d", "100", "57441", "ESC", "x", "long"}]
        \cup [1..4 -> {"92;5", "92;5:2", "92:3", "100", "100:3"}]
        \cup [1..5 -> {"PREFIX", "57441", "x"}]

MCInputs == {<<>>, <<2>>, <<2, 1>>, <<1, 2, 2>>}

vars == <<part, attachVars, escapeVars, pushVars, socketVars>>

MCInit ==
    /\ part \in {"attach", "escape", "push", "sockets"}
    /\ AttachInit /\ (part # "attach" => keys.left = 0)
    /\ IF part = "escape" THEN EscapeInit
       ELSE /\ mode = "Disabled" /\ script = <<>> /\ read = 0 /\ parser = NewParser
            /\ forwarded = <<>> /\ detached = FALSE /\ expired = FALSE
    /\ PushInit /\ (part # "push" => stdin = <<>> /\ ~fifoReader)
    /\ SocketInit

MCNext ==
    /\ UNCHANGED part
    /\ \/ part = "attach" /\ AttachNext /\ UNCHANGED <<escapeVars, pushVars, socketVars>>
       \/ part = "escape" /\ EscapeNext /\ UNCHANGED <<attachVars, pushVars, socketVars>>
       \/ part = "push" /\ PushNext /\ UNCHANGED <<attachVars, escapeVars, socketVars>>
       \/ part = "sockets" /\ SocketNext /\ UNCHANGED <<attachVars, escapeVars, pushVars>>

\* Only the main thread is sure to run, and a handler that was entered to return: the
\* session may not read, and the terminal may not drain.
AttachFairness ==
    WF_attachVars(part = "attach" /\ MainThread) /\ WF_attachVars(part = "attach" /\ HandlerWakes)

MCSpec == MCInit /\ [][MCNext]_vars /\ AttachFairness

=============================================================================
