-------------------------------- MODULE Exec --------------------------------
(***************************************************************************)
(* tendr exec (src/commands/exec.rs, src/exec_frame.rs): commands typed    *)
(* into a session's shell, and their results taken back from output.log or *)
(* from a result file, by several clients that take turns with a lock.     *)
(*                                                                         *)
(* A command prints one line on stdout and one on stderr.  The sidecar     *)
(* logs the two pipes from two threads, each in order.  The log exists     *)
(* since the run is Running, so the wait for it is over when it begins.    *)
(* The exec.started and exec.result events are appended best effort        *)
(* (EventLog) and change nothing here.                                     *)
(***************************************************************************)
EXTENDS Naturals, Sequences, FiniteSets, SequencesExt

CONSTANTS
    Execs,        \* exec clients, each with a token of its own
    Plans,        \* the exec target, the clients with --timeout, and what may happen:
                  \* clients that are killed, and whether the shell exits
    DrainMargin   \* lines that drain_until_sentinel goes back (64 KiB)

ASSUME ExecAssumption ==
    /\ Execs \subseteq Nat \ {0} /\ DrainMargin \in Nat
    /\ Plans \subseteq [target : {"PosixShell", "DuckDb", "SideChannel", "None"},
                        timed : SUBSET Execs, killed : SUBSET Execs, exits : BOOLEAN]

VARIABLES
    plan,     \* one of the plans; SideChannel is PowerShell or PythonRepl
    session,  \* its status, and whether the shell runs
    typed,    \* frames in the stdin transport or running, oldest first
    step,     \* lines that the running frame has printed
    pipes,    \* stdout and stderr on their way to the log
    outlog,   \* output.log
    results,  \* clients whose result file exists
    execLock, \* the holder of exec.lock, or 0
    ex,       \* the clients
    caughtUp, \* clients whose last look found nothing new; they look at meta.json next
    blame     \* history: how clients let go of a command that was not over for them

shellVars == <<session, typed, step, pipes, results>>
execVars == <<plan, shellVars, outlog, execLock, ex, caughtUp, blame>>

Line(e, what) == [exec |-> e, what |-> what]
target == plan.target

\* unix_frame, duckdb_frame, and the frames that write a result file by a rename.
Frame ==
    CASE target = "PosixShell" -> <<<<"O", "out">>, <<"E", "err">>, <<"E", "marker">>, <<"O", "sentinel">>>>
      [] target = "DuckDb" -> <<<<"O", "out">>, <<"E", "err">>, <<"O", "sentinel">>>>
      [] OTHER -> <<<<"R", "result">>>>

ExecInit ==
    /\ plan \in Plans
    /\ session = [running |-> TRUE, shell |-> TRUE]
    /\ typed = <<>> /\ step = 0
    /\ pipes = [tag \in {"O", "E"} |-> <<>>]
    /\ outlog = <<>> /\ results = {}
    /\ execLock = 0
    /\ ex = [e \in Execs |-> [pc |-> "idle", cursor |-> 0, pos |-> 0, out |-> <<>>, err |-> <<>>,
                              sentinel |-> FALSE, marked |-> FALSE, timedOut |-> FALSE,
                              code |-> 0]]
    /\ caughtUp = {}
    /\ blame = [died |-> FALSE, timed |-> FALSE, graced |-> FALSE]

ExAt(e, pc) == ex[e].pc = pc
ExSet(e, r) == ex' = [ex EXCEPT ![e] = r]
ExGo(e, pc) == ExSet(e, [ex[e] EXCEPT !.pc = pc])
\* The process ends, and with it the lock.
ExLeaves(e, code) ==
    /\ ExSet(e, [ex[e] EXCEPT !.pc = "exited", !.code = code, !.cursor = 0, !.pos = 0])
    /\ execLock' = IF execLock = e THEN 0 ELSE execLock

(***************************************************************************)
(* Before the command is typed                                             *)
(***************************************************************************)
\* cmd_exec_frame_from_stdin refuses a bad frame, cmd_exec a session that it cannot serve.
ExRefused(e, frameOk, supported) ==
    /\ ExAt(e, "idle")
    /\ \/ ~frameOk /\ ExLeaves(e, 2)
       \/ frameOk /\ (~session.running \/ ~supported) /\ ExLeaves(e, 1)
    /\ UNCHANGED <<plan, caughtUp, shellVars, outlog, blame>>

\* Mutant: the exec lock is not taken.
ExLocks_Waived(e) ==
    /\ ExAt(e, "idle") /\ session.running
    /\ ExGo(e, "frame") /\ UNCHANGED execLock
    /\ UNCHANGED <<plan, caughtUp, shellVars, outlog, blame>>

\* ExecLock::try_acquire fails at once if another exec holds it.
ExLocks(e) ==
    /\ ExAt(e, "idle") /\ session.running
    /\ IF execLock = 0 THEN execLock' = e /\ ExGo(e, "frame") ELSE ExLeaves(e, 1)
    /\ UNCHANGED <<plan, caughtUp, shellVars, outlog, blame>>

\* run_exec takes the log's end and builds the frame.
ExFrames(e) ==
    /\ ExAt(e, "frame")
    /\ IF target = "None" THEN ExLeaves(e, 1)
       ELSE /\ ExSet(e, [ex[e] EXCEPT !.pc = "connect", !.cursor = Len(outlog), !.pos = Len(outlog),
                                      !.marked = target # "PosixShell"])
            /\ UNCHANGED execLock
    /\ UNCHANGED <<plan, caughtUp, shellVars, outlog, blame>>

\* The stdin transport is opened and the frame written; it is refused while nobody reads.
ExTypes(e) ==
    /\ ExAt(e, "connect") /\ session.shell
    /\ typed' = Append(typed, e)
    /\ ExGo(e, IF target = "SideChannel" THEN "side" ELSE "wait")
    /\ UNCHANGED <<plan, caughtUp, session, step, pipes, results, outlog, execLock, blame>>

ExNotTyped(e) ==
    /\ ExAt(e, "connect") /\ (~session.running \/ e \in plan.timed)
    /\ ExLeaves(e, 1)
    /\ UNCHANGED <<plan, caughtUp, shellVars, outlog, blame>>

(***************************************************************************)
(* wait_sentinel_result                                                    *)
(***************************************************************************)
\* Mutant: the stderr marker is not waited for.
ExComplete_SentinelOnly(e) == ex[e].sentinel

\* The stdout sentinel and the stderr marker were both logged.
ExComplete(e) == ex[e].sentinel /\ ex[e].marked

AfterWait == IF target = "DuckDb" THEN "trail" ELSE "finish"

ExCompletes(e) ==
    /\ ExAt(e, "wait") /\ ExComplete(e)
    /\ ExGo(e, AfterWait)
    /\ UNCHANGED <<plan, caughtUp, shellVars, outlog, execLock, blame>>

\* No sentinel by the deadline.
ExTimesOut(e) ==
    /\ ExAt(e, "wait") /\ ~ex[e].sentinel /\ e \in plan.timed
    /\ ExSet(e, [ex[e] EXCEPT !.timedOut = TRUE,
                              !.pc = IF target = "DuckDb" THEN "trail" ELSE "seek"])
    /\ blame' = [blame EXCEPT !.timed = TRUE]
    /\ caughtUp' = caughtUp \ {e}
    /\ UNCHANGED <<plan, shellVars, outlog, execLock>>

\* A line read: the sentinel and the marker are recognised by the token, other lines are
\* output, annotations are neither.
AcceptLine(e, x, l) ==
    LET own == l.exec = e
        ends == own /\ l.what = "sentinel"
        marks == own /\ l.what = "marker"
    IN  CASE l.tag = "O" /\ ends -> [x EXCEPT !.sentinel = TRUE]
          [] l.tag = "O" /\ ~ends -> [x EXCEPT !.out = Append(@, Line(l.exec, l.what))]
          [] l.tag = "E" /\ marks -> [x EXCEPT !.marked = TRUE]
          [] l.tag = "E" /\ ~marks -> [x EXCEPT !.err = Append(@, Line(l.exec, l.what))]
          [] OTHER -> x

ExReads(e) ==
    /\ ExAt(e, "wait") /\ ~ExComplete(e) /\ ex[e].pos < Len(outlog)
    /\ ExSet(e, [AcceptLine(e, ex[e], outlog[ex[e].pos + 1]) EXCEPT !.pos = @ + 1])
    /\ caughtUp' = caughtUp \ {e}
    /\ UNCHANGED <<plan, shellVars, outlog, execLock, blame>>

\* A read finds no line, or no result file: meta.json, or the clock of the grace, is looked
\* at after that, and by then there may be more.
ExLooks(e) ==
    /\ \/ ExAt(e, "wait") /\ ~ExComplete(e) /\ ex[e].pos = Len(outlog)
       \/ ExAt(e, "side") /\ e \notin results
       \/ ExAt(e, "drain") /\ ex[e].pos = Len(outlog)
    /\ e \notin caughtUp
    /\ caughtUp' = caughtUp \cup {e}
    /\ UNCHANGED <<plan, shellVars, outlog, execLock, ex, blame>>

\* The log had no more: after the sentinel the stderr marker has its grace, before it the
\* session must be running.
ExAtEof(e) ==
    /\ ExAt(e, "wait") /\ ~ExComplete(e) /\ e \in caughtUp
    /\ IF ex[e].sentinel
       THEN /\ ExGo(e, "finish")
            /\ blame' = [blame EXCEPT !.graced = TRUE]
            /\ UNCHANGED execLock
       ELSE ~session.running /\ ExLeaves(e, 1) /\ UNCHANGED blame
    /\ caughtUp' = caughtUp \ {e}
    /\ UNCHANGED <<plan, shellVars, outlog>>

\* drain_trailing_stderr, as far as the log goes within its time: stderr after a sentinel.
TrailingErr(e, n) ==
    LET window == SubSeq(outlog, ex[e].cursor + 1, n)
        sentinels == {i \in DOMAIN window : window[i].tag = "O" /\ window[i].what = "sentinel"}
        late == {i \in DOMAIN window : window[i].tag = "E" /\ \E s \in sentinels : s < i}
        more == SelectSeq([i \in DOMAIN window |-> [line |-> window[i], late |-> i \in late]],
                          LAMBDA w : w.late)
    IN  ex[e].err \o [i \in DOMAIN more |-> Line(more[i].line.exec, more[i].line.what)]

ExTrails(e, n) ==
    /\ ExAt(e, "trail")
    /\ LET err == TrailingErr(e, n)
       IN  ExSet(e, [ex[e] EXCEPT !.err = err, !.code = IF err # <<>> THEN 1 ELSE @,
                                  !.pc = IF ex[e].timedOut THEN "seek" ELSE "finish"])
    /\ UNCHANGED <<plan, caughtUp, shellVars, outlog, execLock, blame>>

(***************************************************************************)
(* The result file                                                         *)
(***************************************************************************)
\* wait_side_channel_result
ExSideResult(e) ==
    /\ ExAt(e, "side") /\ e \in results
    /\ results' = results \ {e}
    /\ ExSet(e, [ex[e] EXCEPT !.pc = "finish", !.out = <<Line(e, "out")>>, !.err = <<Line(e, "err")>>])
    /\ caughtUp' = caughtUp \ {e}
    /\ UNCHANGED <<plan, session, typed, step, pipes, outlog, execLock, blame>>

ExSideTimesOut(e) ==
    /\ ExAt(e, "side") /\ e \in plan.timed
    /\ ExSet(e, [ex[e] EXCEPT !.pc = "drainside", !.timedOut = TRUE])
    /\ blame' = [blame EXCEPT !.timed = TRUE]
    /\ caughtUp' = caughtUp \ {e}
    /\ UNCHANGED <<plan, shellVars, outlog, execLock>>

ExSideEnds(e) ==
    /\ ExAt(e, "side") /\ e \in caughtUp /\ ~session.running
    /\ ExLeaves(e, 1)
    /\ caughtUp' = caughtUp \ {e}
    /\ UNCHANGED <<plan, shellVars, outlog, blame>>

(***************************************************************************)
(* After a timeout: the lock is kept until the command is over             *)
(***************************************************************************)
\* drain_until_side_channel
ExDrainSide(e) ==
    /\ ExAt(e, "drainside") /\ (e \in results \/ ~session.running)
    /\ results' = results \ {e}
    /\ ExGo(e, "finish")
    /\ UNCHANGED <<plan, caughtUp, session, typed, step, pipes, outlog, execLock, blame>>

\* Mutant: the drain begins at the end of the log.
ExSeeks_End(e) ==
    /\ ExAt(e, "seek")
    /\ ExSet(e, [ex[e] EXCEPT !.pc = "drain", !.pos = Len(outlog)])
    /\ UNCHANGED <<plan, caughtUp, shellVars, outlog, execLock, blame>>

\* drain_until_sentinel begins some way before the end of the log.
ExSeeks(e) ==
    /\ ExAt(e, "seek")
    /\ ExSet(e, [ex[e] EXCEPT !.pc = "drain",
                 !.pos = IF Len(outlog) > DrainMargin THEN Len(outlog) - DrainMargin ELSE 0])
    /\ UNCHANGED <<plan, caughtUp, shellVars, outlog, execLock, blame>>

ExDrains(e) ==
    /\ ExAt(e, "drain")
    /\ \/ /\ ex[e].pos < Len(outlog)
          /\ LET l == outlog[ex[e].pos + 1]
             IN  ExSet(e, [ex[e] EXCEPT !.pos = @ + 1,
                      !.pc = IF l.tag = "O" /\ l.what = "sentinel" /\ l.exec = e THEN "finish" ELSE @])
       \/ e \in caughtUp /\ ~session.running /\ ExGo(e, "finish")
    /\ caughtUp' = caughtUp \ {e}
    /\ UNCHANGED <<plan, shellVars, outlog, execLock, blame>>

(***************************************************************************)
(* The record and the answer                                               *)
(***************************************************************************)
\* write_exec_annotation writes one line whatever the sizes: the full record, a truncated
\* one, or a breadcrumb with or without the command; then the process answers and exits.
ExFinishes(e) ==
    /\ ExAt(e, "finish")
    /\ outlog' = Append(outlog, [tag |-> "A", exec |-> e, what |-> "exec"])
    /\ ExLeaves(e, IF ex[e].timedOut THEN 124 ELSE ex[e].code)
    /\ UNCHANGED <<plan, caughtUp, shellVars, blame>>

\* The client is killed, and its lock goes with it.
ExDies(e) ==
    /\ e \in plan.killed /\ ex[e].pc \notin {"idle", "exited"}
    /\ ExLeaves(e, 137)
    /\ blame' = [blame EXCEPT !.died = TRUE]
    /\ caughtUp' = caughtUp \ {e}
    /\ UNCHANGED <<plan, shellVars, outlog>>

Client(e) ==
    \/ \E frameOk, supported \in BOOLEAN : ExRefused(e, frameOk, supported)
    \/ ExLocks(e) \/ ExFrames(e) \/ ExTypes(e) \/ ExNotTyped(e)
    \/ ExCompletes(e) \/ ExTimesOut(e) \/ ExReads(e) \/ ExLooks(e) \/ ExAtEof(e)
    \/ \E n \in ex[e].cursor..Len(outlog) : ExTrails(e, n)
    \/ ExSideResult(e) \/ ExSideTimesOut(e) \/ ExSideEnds(e)
    \/ ExDrainSide(e) \/ ExSeeks(e) \/ ExDrains(e) \/ ExFinishes(e)

(***************************************************************************)
(* The session                                                             *)
(***************************************************************************)
\* The shell runs the frames in the order typed.
ShellPrints ==
    /\ session.shell /\ typed # <<>>
    /\ LET e == Head(typed)
           line == Frame[step + 1]
           over == step + 1 = Len(Frame)
       IN  /\ IF line[1] = "R" THEN results' = results \cup {e} /\ UNCHANGED pipes
              ELSE pipes' = [pipes EXCEPT ![line[1]] = Append(@, Line(e, line[2]))] /\ UNCHANGED results
           /\ typed' = IF over THEN Tail(typed) ELSE typed
           /\ step' = IF over THEN 0 ELSE step + 1
    /\ UNCHANGED <<plan, caughtUp, session, outlog, execLock, ex, blame>>

\* A capture thread logs what its pipe delivers.
Captures(tag) ==
    /\ pipes[tag] # <<>>
    /\ outlog' = Append(outlog, [tag |-> tag, exec |-> Head(pipes[tag]).exec,
                                 what |-> Head(pipes[tag]).what])
    /\ pipes' = [pipes EXCEPT ![tag] = Tail(@)]
    /\ UNCHANGED <<plan, caughtUp, session, typed, step, results, execLock, ex, blame>>

ShellExits ==
    /\ plan.exits /\ session.shell
    /\ session' = [session EXCEPT !.shell = FALSE]
    /\ UNCHANGED <<plan, caughtUp, typed, step, pipes, results, outlog, execLock, ex, blame>>

\* The terminal meta.json follows the end of capture.
SessionEnds ==
    /\ ~session.shell /\ session.running /\ \A tag \in {"O", "E"} : pipes[tag] = <<>>
    /\ session' = [session EXCEPT !.running = FALSE]
    /\ UNCHANGED <<plan, caughtUp, typed, step, pipes, results, outlog, execLock, ex, blame>>

ExecNext ==
    \/ \E e \in Execs : Client(e) \/ ExDies(e)
    \/ ShellPrints \/ ShellExits \/ SessionEnds
    \/ \E tag \in {"O", "E"} : Captures(tag)

ExecSpec == ExecInit /\ [][ExecNext]_execVars

(***************************************************************************)
(* Properties                                                              *)
(***************************************************************************)
\* A command is typed only into a shell that is idle: unless a client was killed, no two
\* frames are with the shell, even across timeouts.
ShellNotShared == blame.died \/ Len(typed) <= 1

Answered(e) == ExAt(e, "exited") /\ ~ex[e].timedOut /\ ex[e].code = 0
Foreign(e, s) == \E i \in DOMAIN s : s[i].exec # e \/ s[i].what \in {"marker", "sentinel"}

\* An answer holds the command's own output and all of it, stdout and stderr apart, in
\* whatever order the two threads log them: another command's lines are in it only if an
\* earlier client was killed, or let its stderr go by a timeout or by the grace. Of DuckDB this
\* speaks of stdout only: a DuckDB answer with any stderr exits with code 1.
AnswerIsOwn ==
    \A e \in Execs : Answered(e) =>
        /\ blame.died \/ ~Foreign(e, ex[e].out)
        /\ blame.died \/ blame.timed \/ blame.graced \/ ~Foreign(e, ex[e].err)
        /\ Contains(ex[e].out, Line(e, "out"))
        /\ target = "DuckDb" \/ blame.graced \/ Contains(ex[e].err, Line(e, "err"))

\* An exec that began ends, also when its timeout passed just as the command was done.
ExecReturns == \A e \in Execs : (ex[e].pc # "idle") ~> ExAt(e, "exited")

=============================================================================
