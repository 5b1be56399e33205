---------------------------- MODULE Supervision ----------------------------
(***************************************************************************)
(* One supervised run: the sidecar that owns the child                     *)
(* (src/sidecar.rs run_inner, src/sidecar/supervised_run.rs), its timeout  *)
(* and kill-request threads, the start client waiting on the ready pipe    *)
(* (src/commands/start.rs), the CLI processes that reconcile               *)
(* (src/reconcile.rs behind status, wait and run) and the ones that kill   *)
(* (src/commands/kill.rs).                                                 *)
(*                                                                         *)
(* Each action is one durable effect or one observation: between any two   *)
(* the sidecar may crash, the child may exit and every other process may   *)
(* move.  A fallible call has its failing outcome, enabled by its name in  *)
(* Faults.  The outcome of a dependency scan is left open here, and so is  *)
(* time: a timeout may pass at any moment.                                 *)
(***************************************************************************)
EXTENDS RunStatus

CONSTANTS
    Reconcilers,   \* CLI processes running status or wait
    Killers,       \* CLI processes running kill, each once
    LaunchSpecs,   \* the launch specs a run may be started with
    Faults         \* the things that may go wrong

FaultPoints ==
    {"setup", "meta_write", "event_append", "bind", "spawn", "crumb", "pty",
     "stdin", "wait", "panic", "unkillable", "probe", "log_read", "crumb_read",
     "marker", "request", "crash", "cli_crash", "client_lost"}

ASSUME FaultsAssumption == Faults \subseteq FaultPoints
ASSUME SpecsAssumption ==
    LaunchSpecs \subseteq [deps : BOOLEAN, stdin : BOOLEAN, pty : BOOLEAN, timeout : BOOLEAN]
ASSUME ReconcilersAssumption == {"free", "sidecar"} \cap Reconcilers = {}

VARIABLES
    spec,         \* the launch spec, fixed when the run starts
    (* the session directory *)
    dir,          \* "present" or "removed"
    meta,         \* meta.json: status, provenance, and what it says of an orphan
    wal,          \* the sidecar's terminal event in the event log, or "none"
    lostEvent,    \* an inferred run.sidecar_lost event is in the log
    salvaged,     \* lost+found holds a copy of the terminal record
    crumb,        \* the child_pid breadcrumb: "none", "partial" or "whole"
    killReq,      \* kill_request, as the kill it asks for, or "none"
    killForced,   \* the kill_forced marker exists
    killActed,    \* the kill_acted marker exists
    lock,         \* holder of the session lock: "free", "sidecar" or a reconciler
    (* the sidecar: program counter, meta in memory, exit reason, whether the  *)
    (* stopped child was seen to go, the ready pipe, and the threads' flags    *)
    pc, mem, how, gone, ready, cancel,
    timer, watcher, timedOut,
    (* the child *)
    child, exit,
    (* the CLI processes *)
    client, rec, kil,
    (* history: the kills that found the child alive *)
    hit

recordVars  == <<dir, meta, wal, lostEvent, salvaged>>
controlVars == <<killReq, killForced, killActed>>
sidecarVars == <<mem, how, gone, ready, cancel>>
threadVars  == <<timer, watcher, timedOut>>
childVars   == <<child, exit, hit>>
cliVars     == <<client, rec, kil>>
vars == <<spec, recordVars, crumb, controlVars, lock, pc, sidecarVars, threadVars,
          childVars, cliVars>>

(***************************************************************************)
(* Types                                                                   *)
(***************************************************************************)
Provenances == {"none", "direct", "healed", "inferred"}

\* What reconciliation decides by, besides meta.json: the event log and the
\* child_pid breadcrumb.
Sources == {"log", "crumb"}

\* meta.json: killed is OrphanKilled evidence, word a warning that the child
\* may still be running or could not be stopped; missed is history, the evidence
\* that was there and that whoever reconciled could not read.
Metas == [status : MetaStatuses, prov : Provenances, killed : BOOLEAN, word : BOOLEAN,
          missed : SUBSET Sources]

Unrecorded(s) ==
    [status |-> s, prov |-> "none", killed |-> FALSE, word |-> FALSE, missed |-> {}]
Direct(s, word) ==
    [status |-> s, prov |-> "direct", killed |-> FALSE, word |-> word, missed |-> {}]

PreSpawn  == {"starting", "scan", "readyPoll", "readySpawn", "poll", "bind", "spawn"}
Ending    == {"endEvent", "endMeta", "endReady", "endRelease"}
Guarded   == {"crumb", "pty", "stdin", "running", "ready", "watch", "supervise"}
Finishing == {"finish", "classify", "cleanUp", "event", "persist", "release"}
Failing   == {"stop", "failCleanUp", "failEvent", "failPersist", "failReady", "failRelease"}

\* While the sidecar is here it holds the session lock.
Locking == PreSpawn \cup Ending \cup Guarded \cup Finishing \cup Failing

SidecarPcs == Locking \cup {"setup", "tell", "hooks", "dead", "crashed"}
SidecarLive == pc \notin {"dead", "crashed"}

RecPcs == {"idle", "lock", "reread", "decide", "stop", "log", "write"}
RecLocking == {"reread", "decide", "stop", "log", "write"}
Recs == [pc : RecPcs, seen : MetaStatuses, next : MetaStatuses, child : BOOLEAN,
         killed : BOOLEAN, word : BOOLEAN, missed : SUBSET Sources]
IdleRec == [pc |-> "idle", seen |-> "Absent", next |-> "Absent", child |-> FALSE,
            killed |-> FALSE, word |-> FALSE, missed |-> {}]

KilPcs == {"idle", "mark", "probe", "request", "poll", "direct", "escalate", "done"}
Kils   == [pc : KilPcs, force : BOOLEAN, named : BOOLEAN]

TypeOK ==
    /\ spec \in LaunchSpecs
    /\ dir \in {"present", "removed"}
    /\ meta \in Metas
    /\ wal \in SidecarEnds \cup {"none"}
    /\ lostEvent \in BOOLEAN /\ salvaged \in BOOLEAN
    /\ crumb \in {"none", "partial", "whole"}
    /\ killReq \in {"none", "graceful", "forced"}
    /\ killForced \in BOOLEAN /\ killActed \in BOOLEAN
    /\ lock \in {"free", "sidecar"} \cup Reconcilers
    /\ pc \in SidecarPcs
    /\ mem \in Live \cup SidecarEnds
    /\ how \in ObservedExits \cup {"none"}
    /\ gone \in BOOLEAN /\ cancel \in BOOLEAN /\ timedOut \in BOOLEAN
    /\ ready \in Live \cup SidecarEnds \cup {"owed", "error", "lost", "eof"}
    /\ timer \in {"off", "armed", "due", "fired", "done"}
    /\ watcher \in {"off", "armed", "graceful", "forced", "term", "escalate", "done"}
    /\ child \in {"none", "alive", "dead", "reaped"}
    /\ exit \in {"none", "ExitedOk", "ExitedError", "Killed"}
    /\ hit \subseteq {"timeout", "graceful", "unmarked", "forced", "direct", "orphan"}
    /\ client \in {"waiting", "answered", "refused", "gone"}
    /\ rec \in [Reconcilers -> Recs]
    /\ kil \in [Killers -> Kils]

Init ==
    /\ spec \in LaunchSpecs
    /\ dir = "present" /\ meta = Unrecorded("Absent") /\ wal = "none"
    /\ lostEvent = FALSE /\ salvaged = FALSE /\ crumb = "none"
    /\ killReq = "none" /\ killForced = FALSE /\ killActed = FALSE
    /\ lock = "free"
    /\ pc = "setup" /\ mem = "Starting" /\ how = "none" /\ gone = FALSE
    /\ ready = "owed" /\ cancel = FALSE
    /\ timer = "off" /\ watcher = "off" /\ timedOut = FALSE
    /\ child = "none" /\ exit = "none" /\ hit = {}
    /\ client = "waiting"
    /\ rec = [r \in Reconcilers |-> IdleRec]
    /\ kil = [k \in Killers |-> [pc |-> "idle", force |-> FALSE, named |-> FALSE]]

MayFail(f) == f \in Faults

(***************************************************************************)
(* Steps shared by several actions                                         *)
(***************************************************************************)
\* write_meta_atomic.  It fails when the directory is gone; it may also report
\* failure after the rename, when syncing the directory fails.
WriteMeta(m, ok) ==
    IF ok THEN dir = "present" /\ meta' = m
    ELSE \/ dir = "removed" /\ meta' = meta
         \/ MayFail("meta_write") /\ dir = "present" /\ meta' \in {meta, m}

\* Mutant: an append that fails leaves no trace.
Emit_Unsalvaged(s) ==
    \/ wal' = s /\ salvaged' = salvaged
    \/ MayFail("event_append") /\ UNCHANGED <<wal, salvaged>>

\* LifecycleEvents::emit of a terminal status: an append that fails is salvaged.
Emit(s) ==
    \/ wal' = s /\ salvaged' = salvaged
    \/ MayFail("event_append") /\ wal' = wal /\ salvaged' = TRUE

\* signal_readiness: the pipe takes one message, and a client that went is no
\* failure of the run.  The record is then written again with a warning that the
\* snapshot was not delivered, which is all that changes in it: meta does not.
SendReady(message) ==
    ready' = IF ready # "owed" THEN ready
             ELSE IF client = "gone" THEN "lost" ELSE message

\* A SIGKILL to the child's group, by an identity-checked pid.
KillChild(by) ==
    \/ /\ child = "alive"
       /\ child' = "dead" /\ exit' = "Killed" /\ hit' = hit \cup {by}
    \/ /\ child # "alive" \/ MayFail("unkillable")
       /\ UNCHANGED childVars

AfterDeps == IF spec.pty THEN "bind" ELSE "spawn"
AfterPty == IF spec.stdin THEN "stdin" ELSE "running"

(***************************************************************************)
(* The sidecar before the child exists: run and run_inner                  *)
(***************************************************************************)
Setup ==
    /\ pc = "setup"
    /\ \/ /\ lock = "free"
          /\ lock' = "sidecar"
          /\ pc' = IF spec.deps THEN "starting" ELSE AfterDeps
          /\ UNCHANGED ready
       \/ /\ MayFail("setup")
          /\ pc' = "tell"
          /\ ready' \in {"owed", "eof"}     \* eof: the ready fd could not be sealed
          /\ UNCHANGED lock
    /\ UNCHANGED <<spec, recordVars, crumb, controlVars, mem, how, gone, cancel,
                   threadVars, childVars, cliVars>>

\* run_inner returned an error: the lock is dropped, then the client is told.
Tell ==
    /\ pc = "tell"
    /\ SendReady("error")
    /\ pc' = "dead"
    /\ UNCHANGED <<spec, recordVars, crumb, controlVars, lock, mem, how, gone, cancel,
                   threadVars, childVars, cliVars>>

\* The dependency wait begins by making Starting observable.
WriteStarting ==
    /\ pc = "starting"
    /\ \E ok \in BOOLEAN :
          /\ WriteMeta(Unrecorded(mem), ok)
          /\ pc' = IF ok THEN "scan" ELSE "tell"
          /\ lock' = IF ok THEN lock ELSE "free"
    /\ UNCHANGED <<spec, dir, wal, lostEvent, salvaged, crumb, controlVars, sidecarVars,
                   threadVars, childVars, cliVars>>

\* scan_iteration: a kill request pre-empts whatever the dependencies say, and
\* is consumed; then the deadline or a dependency may end the wait.
ScanIteration(outcome) ==
    /\ killReq # "none" => outcome = "terminal"
    /\ killReq' = "none"
    /\ mem' = IF outcome = "terminal" THEN TransitionDependencyFailed(mem) ELSE mem

FirstScan ==
    /\ pc = "scan"
    /\ \E outcome \in {"latched", "pending", "terminal"} :
          /\ ScanIteration(outcome)
          /\ pc' = CASE outcome = "latched"  -> "readySpawn"
                     [] outcome = "pending"  -> "readyPoll"
                     [] outcome = "terminal" -> "endEvent"
    /\ UNCHANGED <<spec, recordVars, crumb, killForced, killActed, lock, how, gone, ready,
                   cancel, threadVars, childVars, cliVars>>

\* Mutant: a run that must poll signals only once its dependencies are in.
SignalScanned_Late ==
    /\ pc \in {"readySpawn", "readyPoll"}
    /\ IF pc = "readyPoll" THEN UNCHANGED ready ELSE SendReady(mem)
    /\ pc' = IF pc = "readyPoll" THEN "poll" ELSE AfterDeps
    /\ UNCHANGED <<spec, recordVars, crumb, controlVars, lock, mem, how, gone, cancel,
                   threadVars, childVars, cliVars>>

\* The single readiness publication after the first complete scan.
SignalScanned ==
    /\ pc \in {"readySpawn", "readyPoll"}
    /\ SendReady(mem)
    /\ pc' = IF pc = "readyPoll" THEN "poll" ELSE AfterDeps
    /\ UNCHANGED <<spec, recordVars, crumb, controlVars, lock, mem, how, gone, cancel,
                   threadVars, childVars, cliVars>>

\* poll_dependencies; a pass that finds a dependency pending changes nothing.
PollDependencies ==
    /\ pc = "poll"
    /\ \E outcome \in {"latched", "terminal"} :
          /\ ScanIteration(outcome)
          /\ pc' = IF outcome = "latched" THEN AfterDeps ELSE "endEvent"
    /\ UNCHANGED <<spec, recordVars, crumb, killForced, killActed, lock, how, gone, ready,
                   cancel, threadVars, childVars, cliVars>>

Bind ==
    /\ pc = "bind"
    /\ \/ pc' = "spawn" /\ UNCHANGED mem
       \/ MayFail("bind") /\ mem' = TransitionSpawnFailed(mem) /\ pc' = "endEvent"
    /\ UNCHANGED <<spec, recordVars, crumb, controlVars, lock, how, gone, ready, cancel,
                   threadVars, childVars, cliVars>>

\* On success the lifecycle guard adopts the child.
Spawn ==
    /\ pc = "spawn"
    /\ \/ child' = "alive" /\ pc' = "crumb" /\ UNCHANGED mem
       \/ /\ MayFail("spawn")
          /\ mem' = TransitionSpawnFailed(mem) /\ pc' = "endEvent" /\ UNCHANGED child
    /\ UNCHANGED <<spec, recordVars, crumb, controlVars, lock, how, gone, ready, cancel,
                   threadVars, exit, hit, cliVars>>

\* A run that ends without a child: durable event, meta, readiness, lock.
EndEvent ==
    /\ pc = "endEvent"
    /\ Emit(mem)
    /\ pc' = "endMeta"
    /\ UNCHANGED <<spec, dir, meta, lostEvent, crumb, controlVars, lock, sidecarVars,
                   threadVars, childVars, cliVars>>

EndMeta ==
    /\ pc = "endMeta"
    /\ \E ok \in BOOLEAN :
          /\ WriteMeta(Direct(mem, FALSE), ok)
          /\ pc' = IF ok THEN "endReady" ELSE "tell"
          /\ lock' = IF ok THEN lock ELSE "free"
    /\ UNCHANGED <<spec, dir, wal, lostEvent, salvaged, crumb, controlVars, sidecarVars,
                   threadVars, childVars, cliVars>>

EndReady ==
    /\ pc = "endReady"
    /\ SendReady(mem)
    /\ pc' = "endRelease"
    /\ UNCHANGED <<spec, recordVars, crumb, controlVars, lock, mem, how, gone, cancel,
                   threadVars, childVars, cliVars>>

(***************************************************************************)
(* The lifecycle guard: RunCore in src/sidecar/supervised_run.rs           *)
(***************************************************************************)
\* A failed write may leave an empty or truncated file; the run goes on.
WriteCrumb ==
    /\ pc = "crumb"
    /\ \/ crumb' = "whole"
       \/ MayFail("crumb") /\ crumb' \in {"none", "partial"}
    /\ pc' = IF spec.pty THEN "pty" ELSE AfterPty
    /\ UNCHANGED <<spec, recordVars, controlVars, lock, sidecarVars, threadVars, childVars,
                   cliVars>>

StartPty ==
    /\ pc = "pty"
    /\ pc' = AfterPty
    /\ UNCHANGED <<spec, recordVars, crumb, controlVars, lock, sidecarVars, threadVars,
                   childVars, cliVars>>

SetupStdin ==
    /\ pc = "stdin"
    /\ pc' = "running"
    /\ UNCHANGED <<spec, recordVars, crumb, controlVars, lock, sidecarVars, threadVars,
                   childVars, cliVars>>

\* Mutant: readiness does not depend on the write of Running.
PublishRunning_Unchecked ==
    /\ pc = "running"
    /\ mem' = TransitionRunning(mem)
    /\ \E ok \in BOOLEAN : WriteMeta(Unrecorded(mem'), ok)
    /\ pc' = "ready"
    /\ UNCHANGED <<spec, dir, wal, lostEvent, salvaged, crumb, controlVars, lock, how, gone,
                   ready, cancel, threadVars, childVars, cliVars>>

PublishRunning ==
    /\ pc = "running"
    /\ mem' = TransitionRunning(mem)
    /\ \E ok \in BOOLEAN :
          /\ WriteMeta(Unrecorded(mem'), ok)
          /\ pc' = IF ok THEN "ready" ELSE "stop"
          /\ cancel' = ~ok
    /\ UNCHANGED <<spec, dir, wal, lostEvent, salvaged, crumb, controlVars, lock, how, gone,
                   ready, threadVars, childVars, cliVars>>

DeliverReady ==
    /\ pc = "ready"
    /\ SendReady(mem)
    /\ pc' = "watch"
    /\ UNCHANGED <<spec, recordVars, crumb, controlVars, lock, mem, how, gone, cancel,
                   threadVars, childVars, cliVars>>

ArmWatchers ==
    /\ pc = "watch"
    /\ timer' = IF spec.timeout THEN "armed" ELSE "off"
    /\ watcher' = "armed"
    /\ pc' = "supervise"
    /\ UNCHANGED <<spec, recordVars, crumb, controlVars, lock, sidecarVars, timedOut,
                   childVars, cliVars>>

\* Mutant: closed output is taken for the exit.
Observe_Unreaped ==
    /\ pc = "supervise"
    /\ how' = "ExitedOk" /\ pc' = "finish"
    /\ UNCHANGED <<spec, recordVars, crumb, controlVars, lock, mem, gone, ready, cancel,
                   threadVars, childVars, cliVars>>

\* supervise: output drained, child reaped, raw exit reason known.
Observe ==
    /\ pc = "supervise" /\ child = "dead"
    /\ child' = "reaped" /\ how' = exit
    /\ pc' = "finish"
    /\ UNCHANGED <<spec, recordVars, crumb, controlVars, lock, mem, gone, ready, cancel,
                   threadVars, exit, hit, cliVars>>

\* A step that ends the run, or a panic unwinding through the guard.
Fail ==
    /\ pc \in Guarded
    /\ \/ MayFail("pty") /\ pc = "pty"
       \/ MayFail("stdin") /\ pc = "stdin"
       \/ MayFail("wait") /\ pc = "supervise"
       \/ MayFail("panic")
    /\ pc' = "stop" /\ cancel' = TRUE
    /\ UNCHANGED <<spec, recordVars, crumb, controlVars, lock, mem, how, gone, ready,
                   threadVars, childVars, cliVars>>

(***************************************************************************)
(* finish: the only normal exit                                            *)
(***************************************************************************)
Finish ==
    /\ pc = "finish"
    /\ cancel' = TRUE
    /\ pc' = "classify"
    /\ UNCHANGED <<spec, recordVars, crumb, controlVars, lock, mem, how, gone, ready,
                   threadVars, childVars, cliVars>>

\* Mutant: a kill_forced marker outranks the timeout.
Classify_ForcedFirst ==
    /\ pc = "classify"
    /\ how' = CASE killForced -> "KilledForced"
                [] ~killForced /\ timedOut -> "TimedOut"
                [] ~killForced /\ ~timedOut /\ killActed -> "Killed"
                [] OTHER -> how
    /\ pc' = "cleanUp"
    /\ UNCHANGED <<spec, recordVars, crumb, controlVars, lock, mem, gone, ready, cancel,
                   threadVars, childVars, cliVars>>

Classify ==
    /\ pc = "classify"
    /\ how' = CASE timedOut -> "TimedOut"
                [] ~timedOut /\ killForced -> "KilledForced"
                [] ~timedOut /\ ~killForced /\ killActed -> "Killed"
                [] OTHER -> how
    /\ pc' = "cleanUp"
    /\ UNCHANGED <<spec, recordVars, crumb, controlVars, lock, mem, gone, ready, cancel,
                   threadVars, childVars, cliVars>>

ClearControlFiles == killReq' = "none" /\ killForced' = FALSE /\ killActed' = FALSE

CleanUp ==
    /\ pc = "cleanUp"
    /\ ClearControlFiles /\ crumb' = "none"
    /\ pc' = "event"
    /\ UNCHANGED <<spec, recordVars, lock, sidecarVars, threadVars, childVars, cliVars>>

EmitExited ==
    /\ pc = "event"
    /\ mem' = TransitionExited(mem, how)
    /\ Emit(mem')
    /\ pc' = "persist"
    /\ UNCHANGED <<spec, dir, meta, lostEvent, crumb, controlVars, lock, how, gone, ready,
                   cancel, threadVars, childVars, cliVars>>

Persist ==
    /\ pc = "persist"
    /\ \E ok \in BOOLEAN :
          /\ WriteMeta(Direct(mem, FALSE), ok)
          /\ salvaged' = (salvaged \/ ~ok)
    /\ pc' = "release"
    /\ UNCHANGED <<spec, dir, wal, lostEvent, crumb, controlVars, lock, sidecarVars,
                   threadVars, childVars, cliVars>>

\* Mutant: the guard goes on to the hooks with the lock held.
Release_Held ==
    /\ pc \in {"release", "failRelease", "endRelease"}
    /\ pc' = IF pc = "endRelease" THEN "dead" ELSE "hooks"
    /\ UNCHANGED <<spec, recordVars, crumb, controlVars, lock, sidecarVars, threadVars,
                   childVars, cliVars>>

Release ==
    /\ pc \in {"release", "failRelease", "endRelease"}
    /\ lock' = "free"
    /\ pc' = IF pc = "endRelease" THEN "dead" ELSE "hooks"
    /\ UNCHANGED <<spec, recordVars, crumb, controlVars, sidecarVars, threadVars, childVars,
                   cliVars>>

\* Hooks run unlocked; a callback.finished append recreates a removed directory.
RunHooks ==
    /\ pc = "hooks"
    /\ dir' \in {dir, "present"}
    /\ pc' = "dead"
    /\ UNCHANGED <<spec, meta, wal, lostEvent, salvaged, crumb, controlVars, lock,
                   sidecarVars, threadVars, childVars, cliVars>>

(***************************************************************************)
(* end_failed: stop the child, then say so on every channel still open     *)
(***************************************************************************)
\* terminate_and_reap: graceful, then forced, and reaped when it goes.
StopChild ==
    /\ pc = "stop"
    /\ \/ child' = "reaped" /\ gone' = TRUE
       \/ MayFail("unkillable") /\ child = "alive" /\ gone' = FALSE /\ UNCHANGED child
    /\ pc' = "failCleanUp"
    /\ UNCHANGED <<spec, recordVars, crumb, controlVars, lock, mem, how, ready, cancel,
                   threadVars, exit, hit, cliVars>>

FailCleanUp ==
    /\ pc = "failCleanUp"
    /\ ClearControlFiles
    /\ pc' = "failEvent"
    /\ UNCHANGED <<spec, recordVars, crumb, lock, sidecarVars, threadVars, childVars, cliVars>>

EmitFailed ==
    /\ pc = "failEvent"
    /\ mem' = TransitionSidecarFailed(mem)
    /\ Emit(mem')
    /\ pc' = "failPersist"
    /\ UNCHANGED <<spec, dir, meta, lostEvent, crumb, controlVars, lock, how, gone, ready,
                   cancel, threadVars, childVars, cliVars>>

\* The breadcrumb outlives a child that may still run, and a failed record.
PersistFailed ==
    /\ pc = "failPersist"
    /\ \/ /\ WriteMeta(Direct(mem, ~gone), TRUE)
          /\ crumb' = IF gone THEN "none" ELSE crumb
          /\ pc' = "failReady"
          /\ UNCHANGED <<salvaged, ready>>
       \/ /\ WriteMeta(Direct(mem, ~gone), FALSE)
          /\ salvaged' = TRUE
          /\ SendReady("error")
          /\ pc' = "failRelease"
          /\ UNCHANGED crumb
    /\ UNCHANGED <<spec, dir, wal, lostEvent, controlVars, lock, mem, how, gone, cancel,
                   threadVars, childVars, cliVars>>

FailReady ==
    /\ pc = "failReady"
    /\ SendReady(mem)
    /\ pc' = "failRelease"
    /\ UNCHANGED <<spec, recordVars, crumb, controlVars, lock, mem, how, gone, cancel,
                   threadVars, childVars, cliVars>>

\* Mutant: a lock that outlives its holder, as a lock file would.
Crash_LeavesLock ==
    /\ MayFail("crash") /\ SidecarLive
    /\ pc' = "crashed"
    /\ ready' = IF ready = "owed" THEN "eof" ELSE ready
    /\ UNCHANGED <<spec, recordVars, crumb, controlVars, lock, mem, how, gone, cancel,
                   threadVars, childVars, cliVars>>

\* SIGKILL, OOM or abort: the kernel drops the lock and closes the pipe, the
\* threads die, the child lives on.
Crash ==
    /\ MayFail("crash") /\ SidecarLive
    /\ pc' = "crashed"
    /\ lock' = IF lock = "sidecar" THEN "free" ELSE lock
    /\ ready' = IF ready = "owed" THEN "eof" ELSE ready
    /\ crumb' \in IF pc = "crumb" THEN {crumb, "partial"} ELSE {crumb}
    /\ UNCHANGED <<spec, recordVars, controlVars, mem, how, gone, cancel, threadVars,
                   childVars, cliVars>>

SidecarStep ==
    \/ Setup \/ Tell \/ WriteStarting \/ FirstScan \/ SignalScanned \/ PollDependencies
    \/ Bind \/ Spawn \/ EndEvent \/ EndMeta \/ EndReady
    \/ WriteCrumb \/ StartPty \/ SetupStdin \/ PublishRunning \/ DeliverReady \/ ArmWatchers
    \/ Observe \/ Fail
    \/ Finish \/ Classify \/ CleanUp \/ EmitExited \/ Persist \/ Release \/ RunHooks
    \/ StopChild \/ FailCleanUp \/ EmitFailed \/ PersistFailed \/ FailReady

(***************************************************************************)
(* The sidecar's threads, and the child                                    *)
(***************************************************************************)
\* setup_timeout: cancel is checked, then the flag is set, then the kill.
TimerDue ==
    /\ SidecarLive /\ timer = "armed" /\ ~cancel
    /\ timer' = "due"
    /\ UNCHANGED <<spec, recordVars, crumb, controlVars, lock, pc, sidecarVars, watcher,
                   timedOut, childVars, cliVars>>

TimerFlags ==
    /\ SidecarLive /\ timer = "due"
    /\ timer' = "fired" /\ timedOut' = TRUE
    /\ UNCHANGED <<spec, recordVars, crumb, controlVars, lock, pc, sidecarVars, watcher,
                   childVars, cliVars>>

TimerKills ==
    /\ SidecarLive /\ timer = "fired"
    /\ timer' = "done" /\ KillChild("timeout")
    /\ UNCHANGED <<spec, recordVars, crumb, controlVars, lock, pc, sidecarVars, watcher,
                   timedOut, cliVars>>

\* setup_kill_watcher: the request is consumed before it is acted on.
WatcherReads ==
    /\ SidecarLive /\ watcher = "armed" /\ ~cancel
    /\ killReq # "none"
    /\ watcher' = killReq /\ killReq' = "none"
    /\ UNCHANGED <<spec, recordVars, crumb, killForced, killActed, lock, pc, sidecarVars,
                   timer, timedOut, childVars, cliVars>>

\* A graceful kill leaves kill_acted for the classification, then signals.
WatcherMarks ==
    /\ SidecarLive /\ watcher = "graceful"
    /\ watcher' = "term"
    /\ \/ killActed' = TRUE
       \/ MayFail("marker") /\ UNCHANGED killActed
    /\ UNCHANGED <<spec, recordVars, crumb, killReq, killForced, lock, pc, sidecarVars,
                   timer, timedOut, childVars, cliVars>>

\* A signal that kill_acted announced, or one whose marker could not be written.
Graceful == IF killActed THEN "graceful" ELSE "unmarked"

WatcherTerms ==
    /\ SidecarLive /\ watcher = "term"
    /\ watcher' = "escalate"
    /\ hit' = IF child = "alive" THEN hit \cup {Graceful} ELSE hit
    /\ UNCHANGED <<spec, recordVars, crumb, controlVars, lock, pc, sidecarVars, timer,
                   timedOut, child, exit, cliVars>>

\* The grace period over, or a forced kill.
WatcherKills ==
    /\ SidecarLive /\ watcher \in {"escalate", "forced"}
    /\ KillChild(IF watcher = "forced" THEN "forced" ELSE Graceful)
    /\ watcher' = "done"
    /\ UNCHANGED <<spec, recordVars, crumb, controlVars, lock, pc, sidecarVars, timer,
                   timedOut, cliVars>>

\* The child ends by itself, or by a signal it was free to handle.
ChildExits ==
    /\ child = "alive"
    /\ child' = "dead" /\ exit' \in {"ExitedOk", "ExitedError", "Killed"}
    /\ UNCHANGED <<spec, recordVars, crumb, controlVars, lock, pc, sidecarVars, threadVars,
                   hit, cliVars>>

(***************************************************************************)
(* The start client: spawn_and_wait_ready_inner                            *)
(***************************************************************************)
RemoveDir ==
    /\ dir' = "removed" /\ meta' = Unrecorded("Removed")
    /\ wal' = "none" /\ lostEvent' = FALSE /\ ClearControlFiles

ClientAnswered ==
    /\ client = "waiting" /\ ready \in Live \cup SidecarEnds
    /\ client' = "answered"
    /\ UNCHANGED <<spec, recordVars, crumb, controlVars, lock, pc, sidecarVars, threadVars,
                   childVars, rec, kil>>

\* An error or an end of file: the directory goes unless a breadcrumb file is in it.
ClientRefused ==
    /\ client = "waiting" /\ ready \in {"error", "eof"}
    /\ client' = "refused"
    /\ \/ crumb = "none" /\ RemoveDir /\ UNCHANGED salvaged
       \/ crumb # "none" /\ UNCHANGED <<recordVars, controlVars>>
    /\ UNCHANGED <<spec, crumb, lock, pc, sidecarVars, threadVars, childVars, rec, kil>>

ClientGone ==
    /\ MayFail("client_lost") /\ client = "waiting"
    /\ client' = "gone"
    /\ UNCHANGED <<spec, recordVars, crumb, controlVars, lock, pc, sidecarVars, threadVars,
                   childVars, rec, kil>>

(***************************************************************************)
(* Reconciliation: reconcile_sidecar_gone                                  *)
(***************************************************************************)
recFrame == <<spec, crumb, controlVars, pc, sidecarVars, threadVars, client, kil>>

RecReads(r) ==
    /\ rec[r].pc = "idle" /\ meta.status \in Live
    /\ rec' = [rec EXCEPT ![r].pc = "lock"]
    /\ UNCHANGED <<recFrame, recordVars, lock, childVars>>

\* Mutant: a free lock is seen, and not held.
RecLocks_Probe(r) ==
    /\ rec[r].pc = "lock"
    /\ rec' = IF lock = "free" /\ dir = "present" THEN [rec EXCEPT ![r].pc = "reread"]
              ELSE [rec EXCEPT ![r] = IdleRec]
    /\ UNCHANGED <<recFrame, lock, recordVars, childVars>>

RecLocks(r) ==
    /\ rec[r].pc = "lock"
    /\ \/ /\ lock = "free" /\ dir = "present"
          /\ lock' = r /\ rec' = [rec EXCEPT ![r].pc = "reread"]
       \/ /\ lock # "free" \/ dir = "removed"
          /\ rec' = [rec EXCEPT ![r] = IdleRec] /\ UNCHANGED lock
    /\ UNCHANGED <<recFrame, recordVars, childVars>>

\* Mutant: the record read before the lock is trusted.
RecRereads_Stale(r) ==
    /\ rec[r].pc = "reread"
    /\ rec' = [rec EXCEPT ![r].pc = "decide", ![r].seen = "Running"]
    /\ UNCHANGED <<recFrame, recordVars, lock, childVars>>

\* Under the lock the record is read again: a sidecar that got there first wins.
RecRereads(r) ==
    /\ rec[r].pc = "reread"
    /\ \/ /\ meta.status \in Live
          /\ rec' = [rec EXCEPT ![r].pc = "decide", ![r].seen = meta.status]
          /\ UNCHANGED lock
       \/ /\ meta.status \notin Live
          /\ rec' = [rec EXCEPT ![r] = IdleRec] /\ lock' = "free"
    /\ UNCHANGED <<recFrame, recordVars, childVars>>

\* A log or a breadcrumb that cannot be read is no evidence, and no error: the
\* evidence there is that one reconciliation may fail to read.
Misses(seen) ==
    SUBSET ({e \in {"log"}   : MayFail("log_read") /\ wal # "none"} \cup
            {e \in {"crumb"} : MayFail("crumb_read") /\ seen = "Starting" /\ crumb = "whole"})

\* Mutant: the breadcrumb is not consulted.
LeftBehind_NoCrumb(seen, missed) == seen = "Running"

\* left_behind_child, then heal from the event log or infer the loss.
LeftBehind(seen, missed) ==
    seen = "Running" \/ (seen = "Starting" /\ crumb = "whole" /\ "crumb" \notin missed)

\* Mutant: the event log is not consulted.
Decision_NeverHeals(seen, missed) == ReconcileSidecarLost(seen)

Decision(seen, missed) ==
    LET ended  == IF "log" \in missed THEN "none" ELSE wal
        healed == HealTerminalFromEvent(seen, ended, LeftBehind(seen, missed))
    IN  IF IsTerminal(healed) THEN healed ELSE ReconcileSidecarLost(seen)

RecDecides(r) ==
    /\ rec[r].pc = "decide"
    /\ \E missed \in Misses(rec[r].seen) :
          LET next  == Decision(rec[r].seen, missed)
              probe == /\ next \in {"SidecarFailed", "SidecarLost"}
                       /\ LeftBehind(rec[r].seen, missed)
          IN  rec' = [rec EXCEPT ![r].next = next, ![r].child = probe, ![r].missed = missed,
                                 ![r].pc = CASE probe -> "stop"
                                             [] ~probe /\ next = "SidecarLost" -> "log"
                                             [] OTHER -> "write"]
    /\ UNCHANGED <<recFrame, recordVars, lock, childVars>>

\* stop_orphan: kill only what is verifiably the child, and say how it went.
RecStops(r) ==
    /\ rec[r].pc = "stop"
    /\ \E outcome \in {"killed", "unstopped", "gone"} :
          /\ CASE outcome = "killed" ->
                    /\ child = "alive"
                    /\ child' = "dead" /\ exit' = "Killed" /\ hit' = hit \cup {"orphan"}
               [] outcome = "unstopped" ->
                    /\ MayFail("probe") \/ (MayFail("unkillable") /\ child = "alive")
                    /\ UNCHANGED childVars
               [] outcome = "gone" -> child # "alive" /\ UNCHANGED childVars
          /\ rec' = [rec EXCEPT ![r].killed = (outcome = "killed"),
                                ![r].word = (outcome = "unstopped"),
                                ![r].pc = IF rec[r].next = "SidecarLost"
                                          THEN "log" ELSE "write"]
    /\ UNCHANGED <<recFrame, recordVars, lock>>

\* The inferred event is best effort; the append creates missing directories.
RecLogs(r) ==
    /\ rec[r].pc = "log"
    /\ \/ lostEvent' = TRUE /\ dir' = "present"
       \/ MayFail("event_append") /\ UNCHANGED <<lostEvent, dir>>
    /\ rec' = [rec EXCEPT ![r].pc = "write"]
    /\ UNCHANGED <<recFrame, meta, wal, salvaged, lock, childVars>>

RecRecord(r) ==
    [status |-> rec[r].next,
     prov   |-> IF rec[r].next = "SidecarLost" THEN "inferred" ELSE "healed",
     killed |-> rec[r].killed,
     word   |-> rec[r].word,
     missed |-> rec[r].missed]

RecWrites(r) ==
    /\ rec[r].pc = "write"
    /\ \E ok \in BOOLEAN : WriteMeta(RecRecord(r), ok)
    /\ rec' = [rec EXCEPT ![r] = IdleRec] /\ lock' = "free"
    /\ UNCHANGED <<recFrame, dir, wal, lostEvent, salvaged, childVars>>

\* It dies, or the record cannot be read again: either way the lock is dropped.
RecCrashes(r) ==
    /\ MayFail("cli_crash") /\ rec[r].pc # "idle"
    /\ rec' = [rec EXCEPT ![r] = IdleRec]
    /\ lock' = IF lock = r THEN "free" ELSE lock
    /\ UNCHANGED <<recFrame, recordVars, childVars>>

RecStep(r) ==
    \/ RecReads(r) \/ RecLocks(r) \/ RecRereads(r) \/ RecDecides(r)
    \/ RecStops(r) \/ RecLogs(r) \/ RecWrites(r)

(***************************************************************************)
(* kill: cmd_kill and signal_kill_request                                  *)
(***************************************************************************)
kilFrame == <<spec, recordVars, crumb, killActed, lock, pc, sidecarVars, threadVars, client, rec>>

KillReads(k) ==
    /\ kil[k].pc = "idle" /\ meta.status \in Statuses
    /\ \E force \in BOOLEAN :
          kil' = [kil EXCEPT ![k] =
                    [force |-> force,
                     named |-> meta.status = "Running",
                     pc    |-> CASE meta.status \in Terminals -> "done"
                                 [] meta.status = "Running" /\ force -> "mark"
                                 [] OTHER -> "probe"]]
    /\ UNCHANGED <<kilFrame, killReq, killForced, childVars>>

KillMarks(k) ==
    /\ kil[k].pc = "mark"
    /\ \/ dir = "present" /\ killForced' = TRUE
       \/ (dir = "removed" \/ MayFail("marker")) /\ UNCHANGED killForced
    /\ kil' = [kil EXCEPT ![k].pc = "probe"]
    /\ UNCHANGED <<kilFrame, killReq, childVars>>

\* Whoever holds the lock is taken for a live sidecar.
KillProbes(k) ==
    /\ kil[k].pc = "probe"
    /\ LET sidecarAlive == dir = "present" /\ lock # "free"
       IN  kil' = [kil EXCEPT ![k].pc = CASE sidecarAlive -> "request"
                                          [] ~sidecarAlive /\ kil[k].named -> "direct"
                                          [] OTHER -> "done"]
    /\ UNCHANGED <<kilFrame, killReq, killForced, childVars>>

\* A request that cannot be written ends the command and leaves kill_forced.
KillRequests(k) ==
    /\ kil[k].pc = "request"
    /\ \/ /\ dir = "present"
          /\ killReq' = IF kil[k].force THEN "forced" ELSE "graceful"
          /\ kil' = [kil EXCEPT ![k].pc = "poll"]
       \/ /\ dir = "removed" \/ MayFail("request")
          /\ kil' = [kil EXCEPT ![k].pc = "done"] /\ UNCHANGED killReq
    /\ UNCHANGED <<kilFrame, killForced, childVars>>

\* The sidecar recorded an end, or took too long.
KillPolls(k) ==
    /\ kil[k].pc = "poll"
    /\ \/ meta.status \in Terminals /\ kil' = [kil EXCEPT ![k].pc = "done"]
       \/ kil' = [kil EXCEPT ![k].pc = IF kil[k].named THEN "direct" ELSE "done"]
    /\ UNCHANGED <<kilFrame, killReq, killForced, childVars>>

\* kill_orphan on meta's child; when it cannot be checked the markers go.
KillDirect(k) ==
    /\ kil[k].pc = "direct"
    /\ \/ /\ kil[k].force
          /\ KillChild("direct")
          /\ kil' = [kil EXCEPT ![k].pc = "done"]
          /\ UNCHANGED <<killReq, killForced>>
       \/ /\ ~kil[k].force
          /\ kil' = [kil EXCEPT ![k].pc = "escalate"]
          /\ UNCHANGED <<killReq, killForced, childVars>>
       \/ /\ MayFail("probe")
          /\ killReq' = "none"
          /\ killForced' = IF kil[k].force THEN FALSE ELSE killForced
          /\ kil' = [kil EXCEPT ![k].pc = "done"]
          /\ UNCHANGED childVars
    /\ UNCHANGED kilFrame

KillEscalates(k) ==
    /\ kil[k].pc = "escalate"
    /\ KillChild("direct")
    /\ kil' = [kil EXCEPT ![k].pc = "done"]
    /\ UNCHANGED <<kilFrame, killReq, killForced>>

KillCrashes(k) ==
    /\ MayFail("cli_crash") /\ kil[k].pc \notin {"idle", "done"}
    /\ kil' = [kil EXCEPT ![k].pc = "done"]
    /\ UNCHANGED <<kilFrame, killReq, killForced, childVars>>

KillStep(k) ==
    \/ KillReads(k) \/ KillMarks(k) \/ KillProbes(k) \/ KillRequests(k) \/ KillPolls(k)
    \/ KillDirect(k) \/ KillEscalates(k)

(***************************************************************************)
(* The specification                                                       *)
(***************************************************************************)
ThreadStep ==
    \/ TimerDue \/ TimerFlags \/ TimerKills
    \/ WatcherReads \/ WatcherMarks \/ WatcherTerms \/ WatcherKills

ClientStep == ClientAnswered \/ ClientRefused

Next ==
    \/ SidecarStep \/ Crash
    \/ ThreadStep \/ ChildExits
    \/ ClientStep \/ ClientGone
    \/ \E r \in Reconcilers : RecStep(r) \/ RecCrashes(r)
    \/ \E k \in Killers : KillStep(k) \/ KillCrashes(k)

Spec == Init /\ [][Next]_vars

(***************************************************************************)
(* Fairness.  A process that is scheduled takes its next step, and status  *)
(* or wait is run again and again.  Nothing is assumed of the child, of a  *)
(* dependency (pc = "poll" may last forever) or of the faults.             *)
(***************************************************************************)
SidecarProgress == SidecarStep /\ pc # "poll"

FairSpec ==
    /\ Spec
    /\ WF_vars(SidecarProgress)
    /\ WF_vars(ThreadStep)
    /\ WF_vars(ClientStep)
    /\ \A r \in Reconcilers : WF_vars(RecStep(r))

(***************************************************************************)
(* Safety                                                                  *)
(***************************************************************************)
\* The session lock excludes: of the sidecar and the reconcilers at most one is
\* between taking it and dropping it (reconcile_sidecar_gone holds it from the
\* re-read to the write).
OneWriter ==
    /\ pc \in Locking => \A r \in Reconcilers : rec[r].pc \notin RecLocking
    /\ \A q, r \in Reconcilers : rec[q].pc \in RecLocking /\ rec[r].pc \in RecLocking => q = r

\* The lifecycle guard's invariant (supervised_run.rs, module comment): a child
\* that runs has a supervisor, or a record that says so, or is where
\* reconciliation and the orphan cleanup look for it.  The exception is a child
\* whose Running was never kept and whose breadcrumb was never written whole, or
\* could not be read by the reconciliation that wrote the loss.
ChildAccounted ==
    child = "alive" =>
        \/ pc \in Guarded \cup Failing
        \/ meta.word \/ (salvaged /\ ~gone)
        \/ meta.status = "Running"
        \/ crumb = "whole" /\ meta.status \in {"Absent", "Starting"}
        \/ /\ crumb # "whole" \/ "crumb" \in meta.missed
           /\ meta.status \in {"Absent", "Starting", "SidecarLost", "Removed"}

\* The start client removed the directory, and the log in it.
Discarded == client = "refused" /\ crumb = "none"

\* WAL order (emit before write_meta_atomic): terminal meta never outruns the
\* event log.  What the sidecar recorded is in its log or in lost+found, what
\* reconciliation healed is what the log says, and an inferred loss is logged
\* unless the log would not take it.
WalOrder ==
    /\ meta.prov = "direct" => wal = meta.status \/ salvaged
    /\ meta.prov = "healed" => wal = meta.status \/ Discarded
    /\ meta.prov = "inferred" => lostEvent \/ Discarded \/ MayFail("event_append")

\* A loss is inferred over a logged end in two cases only: the reconciliation
\* that inferred it could not read that log (find_sidecar_terminal_event takes an
\* unreadable log for "no evidence"), or the end is a SidecarFailed that no child
\* is known for, since the breadcrumb is not whole or could not be read.
LossIsLoss ==
    meta.status = "SidecarLost" =>
        \/ wal = "none"
        \/ "log" \in meta.missed
        \/ wal = "SidecarFailed" /\ (crumb # "whole" \/ "crumb" \in meta.missed)

\* meta.json and the event log agree on how the run ended, whoever crashed between
\* the two writes and whoever completed them: the log is written first, and what
\* can be read of it is replayed before anything is inferred.
LogDecides == WalOrder /\ LossIsLoss

\* An end the sidecar observed means that the child was reaped, whoever wrote it
\* down; reconciliation therefore probes no child after healing one.
ObservedMeansReaped == meta.status \in ObservedExits => child = "reaped"

\* A kill that found the child alive decides how the exit is recorded: a timeout
\* as TimedOut, a kill request as a kill, whatever exit status the child gave.
KillClassified ==
    meta.status \in ObservedExits =>
        /\ "timeout" \in hit => meta.status = "TimedOut"
        /\ "forced" \in hit => meta.status \notin {"ExitedOk", "ExitedError"}
        /\ "graceful" \in hit => meta.status \notin {"ExitedOk", "ExitedError"}

\* The start client is told what is already on disk, and a client that was
\* answered finds the session again: only what follows the snapshot may be there.
AnswerHolds ==
    LET shown == meta.status
    IN  /\ ready = "Starting" => shown \notin {"Absent", "Removed"}
        /\ ready = "Running" => shown \in {"Running", "SidecarLost"} \cup ExitReasons
        /\ ready \in SidecarEnds => shown = ready

\* A terminal record is final: status, provenance, evidence and what it says of the
\* child stay as they are, until a start client that was never answered removes the
\* directory.  (A lost-delivery warning may be added: see SendReady.)
TerminalFinal ==
    [][meta.status \in Terminals =>
          meta' = meta \/ (meta'.status = "Removed" /\ meta.status \notin ObservedExits)]_vars

Lifecycle == INSTANCE RunLifecycle WITH status <- meta.status

\* What meta.json shows follows the state diagram of RunLifecycle.
ImplementsLifecycle == Lifecycle!Spec

(***************************************************************************)
(* Liveness                                                                *)
(***************************************************************************)
\* start returns: with or without dependencies, whatever fails or crashes.
AlwaysAnswered == client = "waiting" ~> client # "waiting"

\* A crash is closed: a published run whose sidecar is gone does not stay live.
CrashReconciled == (~SidecarLive /\ meta.status \in Live) ~> meta.status \notin Live

\* Terminal metadata is followed by the release that wait, kill and --replace
\* wait for.
TerminalReleases == meta.status \in Terminals ~> lock = "free"

\* Whether its sidecar lived or died, a published run comes to rest: its record
\* ends, and its lock is free for the next one.
RunsSettle == CrashReconciled /\ TerminalReleases

=============================================================================
