-------------------------- MODULE SessionDirectory --------------------------
(***************************************************************************)
(* One session name over many runs: the commands that create, replace and  *)
(* delete the session directory (src/commands/start.rs, status.rs,         *)
(* prune.rs), the kill that leaves control files in it                     *)
(* (src/commands/kill.rs), and the sidecars that use it by path.           *)
(*                                                                         *)
(* A directory is known by its path; its identity shows only in the lock,  *)
(* which is held on the file a sidecar opened.  So one variable holds the  *)
(* files of the directory now at the path, each directory ever made has a  *)
(* number, and a sidecar remembers the number whose lock it holds.  Every  *)
(* read and write goes to whatever is at the path.                         *)
(*                                                                         *)
(* A sidecar may die at any step; what else fails inside one is            *)
(* Supervision's.  A run with --after shows a Starting record while it     *)
(* waits; what its dependencies are is Waiting's, here they resolve when   *)
(* they like.  The run command c launches is called c.                     *)
(***************************************************************************)
EXTENDS Naturals, FiniteSets

CONSTANTS
    Cmds,       \* CLI processes
    Scenarios,  \* what they may be about to do
    NoCmd

Kinds == {"start", "replace", "status", "prune", "kill", "kill_force"}

Runs == Cmds \cup {NoCmd}

\* kind: what each command runs.  first: the start that succeeds before the others
\* begin, if any.  after: the starts given --after.  serial: commands that make or
\* delete directories run one at a time.  mortal: sidecars may be killed outright.
ASSUME ScenariosAssumption ==
    Scenarios \subseteq [kind : [Cmds -> Kinds], first : Runs, after : SUBSET Cmds,
                         serial : BOOLEAN, mortal : BOOLEAN]
ASSUME NoCmdAssumption == NoCmd \notin Cmds

VARIABLES
    plan,    \* the scenario
    made,    \* directories made so far
    at,      \* number of the directory at the path, 0 if there is none
    files,   \* its files
    cmd,     \* the commands
    side,    \* the sidecars
    child,   \* their children
    blame    \* history: the directory each kill read its target in, and the one it left the
             \* kill_forced marker in

vars == <<plan, made, at, files, cmd, side, child, blame>>

Kind == plan.kind

\* How the sidecar classified the end: of a child, where Raw is whatever it reported, or
\* of a dependency wait.
Refusals == {"DepFailed", "DepKilled", "DepKilledForced"}
Hows == {"none", "Raw", "Killed", "KilledForced"} \cup Refusals

\* The files.  spec: launch_spec.json, as the command that wrote it.  gen: the generation
\* hint.  run, status, metaGen: meta.json.  crumb: child_pid.  forced, acted:
\* the kill markers.  req: the run a kill_request names.
Files == [spec : Runs, gen : Nat, run : Runs,
          status : {"Absent", "Starting", "Running", "Ended"}, how : Hows, metaGen : Nat,
          crumb : Runs, forced : BOOLEAN, acted : BOOLEAN, req : Runs, reqForced : BOOLEAN]

NoFiles == [spec |-> NoCmd, gen |-> 0, run |-> NoCmd, status |-> "Absent", how |-> "none",
            metaGen |-> 0, crumb |-> NoCmd, forced |-> FALSE, acted |-> FALSE,
            req |-> NoCmd, reqForced |-> FALSE]

CmdPcs == {"idle", "poll", "discard", "create", "exists", "starting", "orphan", "stale",
           "recreate", "launch", "ready", "prune", "mark", "request", "direct", "ask", "done"}
SidePcs == {"none", "boot", "starting", "scan", "poll", "refuse", "tell", "spawn", "crumb",
            "publish", "ready", "supervise", "classify", "cleanUp", "record", "release",
            "dead", "lost"}

TypeOK ==
    /\ plan \in Scenarios
    /\ made \in Nat /\ at \in 0..made
    /\ files \in Files
    /\ cmd \in [Cmds -> [pc : CmdPcs, gen : Nat, target : Runs]]
    /\ side \in [Cmds -> [pc : SidePcs, lock : Nat, gen : Nat, how : Hows,
                          ready : {"owed", "ok", "error"}]]
    /\ child \in [Cmds -> {"none", "alive", "dead"}]
    /\ blame \in [Cmds -> [read : Nat, marked : Nat]]

NoSide == [pc |-> "none", lock |-> 0, gen |-> 0, how |-> "none", ready |-> "owed"]

Init ==
    /\ plan \in Scenarios
    /\ made = 0 /\ at = 0 /\ files = NoFiles
    /\ cmd = [c \in Cmds |-> [pc |-> "idle", gen |-> 0, target |-> NoCmd]]
    /\ side = [c \in Cmds |-> NoSide]
    /\ child = [c \in Cmds |-> "none"]
    /\ blame = [c \in Cmds |-> [read |-> 0, marked |-> 0]]

(***************************************************************************)
(* The directory                                                           *)
(***************************************************************************)
\* A lock is held on a directory while its sidecar lives.
LockedBy(c, d) == d # 0 /\ side[c].lock = d
LiveAt(d) == \E c \in Cmds : LockedBy(c, d)
Locked == LiveAt(at)
NoMeta == files.status = "Absent"

MakeDir(f) == made' = made + 1 /\ at' = made + 1 /\ files' = f

RemoveDir == at' = 0 /\ files' = NoFiles /\ UNCHANGED made

\* events::append_line creates the directories it needs, so an event append
\* followed by a write always finds a directory at the path.
EmitThenWrite(f) ==
    IF at = 0 THEN MakeDir(f) ELSE files' = f /\ UNCHANGED <<made, at>>

KillIf(run) == child' = [c \in Cmds |-> IF c = run /\ child[c] = "alive" THEN "dead" ELSE child[c]]

(***************************************************************************)
(* start and start --replace: launch_session                               *)
(***************************************************************************)
Goto(c, p) == cmd' = [cmd EXCEPT ![c].pc = p]

Mutators == {c \in Cmds : Kind[c] \in {"start", "replace", "status", "prune"}}

\* The first start goes first; serial commands wait for one another.
MayBegin(c) ==
    /\ cmd[c].pc = "idle"
    /\ plan.first \notin {NoCmd, c} => cmd[plan.first].pc = "done"
    /\ plan.serial /\ c \in Mutators =>
          \A m \in Mutators \ {c} : cmd[m].pc \in {"idle", "done"}

BeginStart(c) ==
    /\ Kind[c] = "start" /\ MayBegin(c)
    /\ Goto(c, "create")
    /\ UNCHANGED <<made, at, files, side, child, blame>>

\* handle_replace: what is there decides; a running child is killed by identity.
BeginReplace(c) ==
    /\ Kind[c] = "replace" /\ MayBegin(c)
    /\ CASE at = 0 -> Goto(c, "create") /\ UNCHANGED child
         [] at # 0 /\ NoMeta -> Goto(c, "orphan") /\ UNCHANGED child
         [] at # 0 /\ ~NoMeta ->
              /\ cmd' = [cmd EXCEPT ![c].pc = "poll", ![c].gen = files.metaGen + 1]
              /\ IF files.status = "Running" THEN KillIf(files.run) ELSE UNCHANGED child
    /\ UNCHANGED <<made, at, files, side, blame>>

\* Mutant: the kill is taken for the end of the old run.
ReplacePolls_Hasty(c) ==
    /\ Kind[c] = "replace" /\ cmd[c].pc = "poll"
    /\ Goto(c, "discard")
    /\ UNCHANGED <<made, at, files, side, child, blame>>

\* Mutant: terminal is enough, locked or not.
ReplacePolls_NoLock(c) ==
    /\ Kind[c] = "replace" /\ cmd[c].pc = "poll"
    /\ \/ files.status = "Ended" /\ Goto(c, "discard")
       \/ Goto(c, "done")
    /\ UNCHANGED <<made, at, files, side, child, blame>>

\* Terminal and unlocked, or ten seconds gone.
ReplacePolls(c) ==
    /\ Kind[c] = "replace" /\ cmd[c].pc = "poll"
    /\ \/ files.status = "Ended" /\ ~Locked /\ Goto(c, "discard")
       \/ Goto(c, "done")
    /\ UNCHANGED <<made, at, files, side, child, blame>>

ReplaceRemoves(c) ==
    /\ Kind[c] = "replace" /\ cmd[c].pc = "discard"
    /\ IF at = 0 THEN Goto(c, "done") /\ UNCHANGED <<made, at, files>>
       ELSE RemoveDir /\ Goto(c, "create")
    /\ UNCHANGED <<side, child, blame>>

Create(c) ==
    /\ cmd[c].pc = "create"
    /\ IF at = 0 THEN MakeDir(NoFiles) /\ Goto(c, "launch")
       ELSE Goto(c, "exists") /\ UNCHANGED <<made, at, files>>
    /\ UNCHANGED <<side, child, blame>>

\* try_idempotent_start.  Running and terminal sessions are left alone, whether
\* the answer is success or a refusal; of a starting one the lock decides.
AlreadyExists(c) ==
    /\ cmd[c].pc = "exists"
    /\ Goto(c, CASE NoMeta -> "stale"
                [] files.status = "Starting" -> "starting"
                [] OTHER -> "done")
    /\ UNCHANGED <<made, at, files, side, child, blame>>

\* Mutant: a starting session is an orphan, locked or not.
FindsStarting_NoLock(c) ==
    /\ cmd[c].pc = "starting"
    /\ Goto(c, "stale")
    /\ UNCHANGED <<made, at, files, side, child, blame>>

\* Starting and locked: its sidecar is alive.  Starting and unlocked: an orphan, whatever
\* became of the record since it was read.
FindsStarting(c) ==
    /\ cmd[c].pc = "starting"
    /\ Goto(c, IF Locked THEN "done" ELSE "stale")
    /\ UNCHANGED <<made, at, files, side, child, blame>>

\* Mutant: the child the breadcrumb names is left alone.
OrphanCleanup_Spares(c) ==
    /\ cmd[c].pc \in {"orphan", "stale"}
    /\ RemoveDir
    /\ Goto(c, CASE cmd[c].pc = "stale" -> "recreate"
                [] cmd[c].pc = "orphan" /\ Kind[c] = "replace" -> "create"
                [] OTHER -> "done")
    /\ UNCHANGED <<child, side, blame>>

\* cleanup_orphan_dir: kill the child the breadcrumb names, delete the directory.
\* A start or replace then makes its own; the second creation is not retried.
OrphanCleanup(c) ==
    /\ cmd[c].pc \in {"orphan", "stale"}
    /\ KillIf(files.crumb)
    /\ RemoveDir
    /\ Goto(c, CASE cmd[c].pc = "stale" -> "recreate"
                [] cmd[c].pc = "orphan" /\ Kind[c] = "replace" -> "create"
                [] OTHER -> "done")
    /\ UNCHANGED <<side, blame>>

Recreate(c) ==
    /\ cmd[c].pc = "recreate"
    /\ IF at = 0 THEN MakeDir(NoFiles) /\ Goto(c, "launch")
       ELSE Goto(c, "done") /\ UNCHANGED <<made, at, files>>
    /\ UNCHANGED <<side, child, blame>>

\* The generation hint and launch_spec.json are written, the sidecar is spawned.
Launch(c) ==
    /\ cmd[c].pc = "launch"
    /\ IF at = 0 THEN Goto(c, "done") /\ UNCHANGED <<files, side>>
       ELSE /\ files' = [files EXCEPT !.spec = c,
                                      !.gen = IF cmd[c].gen = 0 THEN @ ELSE cmd[c].gen]
            /\ side' = [side EXCEPT ![c].pc = "boot"]
            /\ Goto(c, "ready")
    /\ UNCHANGED <<made, at, child, blame>>

\* An error answer deletes the directory unless a breadcrumb is in it.
AwaitReady(c) ==
    /\ cmd[c].pc = "ready" /\ side[c].ready # "owed"
    /\ IF side[c].ready = "error" /\ files.crumb = NoCmd /\ at # 0
       THEN RemoveDir ELSE UNCHANGED <<made, at, files>>
    /\ Goto(c, "done")
    /\ UNCHANGED <<side, child, blame>>

(***************************************************************************)
(* status, prune                                                           *)
(***************************************************************************)
\* Mutant: status takes any directory for an orphan, record or not.
BeginStatus_AnyDirectory(c) ==
    /\ Kind[c] = "status" /\ MayBegin(c)
    /\ Goto(c, IF at # 0 THEN "orphan" ELSE "done")
    /\ UNCHANGED <<made, at, files, side, child, blame>>

\* The child a lost sidecar may have left: of the record, or of the breadcrumb while the
\* record says Starting.
LeftBehind == IF files.status = "Running" THEN files.run ELSE files.crumb

\* Mutant: only a running record leaves a child behind.
BeginStatus_NoCrumb(c) ==
    /\ Kind[c] = "status" /\ MayBegin(c)
    /\ Goto(c, IF at # 0 /\ NoMeta THEN "orphan" ELSE "done")
    /\ IF files.status \in {"Starting", "Running"} /\ ~Locked
       THEN /\ files' = [files EXCEPT !.status = "Ended"]
            /\ IF files.status = "Running" THEN KillIf(files.run) ELSE UNCHANGED child
       ELSE UNCHANGED <<files, child>>
    /\ UNCHANGED <<made, at, side, blame>>

\* No record: an orphan.  A record that has not ended and has no sidecar is reconciled, in
\* one step here (its steps are Supervision's): the child is killed, the loss recorded.
BeginStatus(c) ==
    /\ Kind[c] = "status" /\ MayBegin(c)
    /\ Goto(c, IF at # 0 /\ NoMeta THEN "orphan" ELSE "done")
    /\ IF files.status \in {"Starting", "Running"} /\ ~Locked
       THEN files' = [files EXCEPT !.status = "Ended"] /\ KillIf(LeftBehind)
       ELSE UNCHANGED <<files, child>>
    /\ UNCHANGED <<made, at, side, blame>>

\* Mutant: prune does not look at the lock.
BeginPrune_NoLock(c) ==
    /\ Kind[c] = "prune" /\ MayBegin(c)
    /\ Goto(c, IF at # 0 THEN "prune" ELSE "done")
    /\ UNCHANGED <<made, at, files, side, child, blame>>

\* prune_sessions: the lock, then the record, then the deletion.
BeginPrune(c) ==
    /\ Kind[c] = "prune" /\ MayBegin(c)
    /\ Goto(c, IF at # 0 /\ ~Locked THEN "prune" ELSE "done")
    /\ UNCHANGED <<made, at, files, side, child, blame>>

PruneReads(c) ==
    /\ cmd[c].pc = "prune"
    /\ Goto(c, IF files.status = "Ended" THEN "discard" ELSE "done")
    /\ UNCHANGED <<made, at, files, side, child, blame>>

PruneRemoves(c) ==
    /\ Kind[c] = "prune" /\ cmd[c].pc = "discard"
    /\ RemoveDir
    /\ Goto(c, "done")
    /\ UNCHANGED <<side, child, blame>>

(***************************************************************************)
(* kill                                                                    *)
(***************************************************************************)
\* Mutant: the marker is left by a graceful kill too.
BeginKill_Marks(c) ==
    /\ Kind[c] \in {"kill", "kill_force"} /\ MayBegin(c)
    /\ files.status \in {"Starting", "Running"}
    /\ cmd' = [cmd EXCEPT ![c].pc = IF files.status = "Starting" THEN "ask" ELSE "mark",
                          ![c].target = files.run]
    /\ blame' = [blame EXCEPT ![c].read = at]
    /\ UNCHANGED <<made, at, files, side, child>>

\* A kill that finds no session or a finished one returns at once: it is not begun.  A
\* starting session has no child to mark: its sidecar can only be asked.
BeginKill(c) ==
    /\ Kind[c] \in {"kill", "kill_force"} /\ MayBegin(c)
    /\ files.status \in {"Starting", "Running"}
    /\ cmd' = [cmd EXCEPT ![c].pc = IF files.status = "Starting" THEN "ask"
                                    ELSE IF Kind[c] = "kill_force" THEN "mark" ELSE "request",
                          ![c].target = files.run]
    /\ blame' = [blame EXCEPT ![c].read = at]
    /\ UNCHANGED <<made, at, files, side, child>>

\* The kill_forced marker names no run.
KillMarks(c) ==
    /\ cmd[c].pc = "mark"
    /\ files' = IF at = 0 THEN files ELSE [files EXCEPT !.forced = TRUE]
    /\ blame' = [blame EXCEPT ![c].marked = at]
    /\ Goto(c, "request")
    /\ UNCHANGED <<made, at, side, child>>

\* The request names the run that was read; it is written only to a live sidecar.
KillRequests(c) ==
    /\ cmd[c].pc \in {"request", "ask"}
    /\ IF Locked
       THEN files' = [files EXCEPT !.req = cmd[c].target,
                                   !.reqForced = (Kind[c] = "kill_force")]
       ELSE UNCHANGED files
    /\ Goto(c, IF cmd[c].pc = "ask" THEN "done" ELSE "direct")
    /\ UNCHANGED <<made, at, side, child, blame>>

\* Either a terminal record was seen, or the child is killed by identity; if that fails,
\* the control files are removed, whoever left them.
KillEnds(c) ==
    /\ cmd[c].pc = "direct"
    /\ \/ files.status = "Ended" /\ UNCHANGED <<files, child>>
       \/ KillIf(cmd[c].target) /\ UNCHANGED files
       \/ /\ files' = [files EXCEPT !.forced = @ /\ Kind[c] # "kill_force",
                                    !.req = NoCmd, !.reqForced = FALSE]
          /\ UNCHANGED child
    /\ Goto(c, "done")
    /\ UNCHANGED <<made, at, side, blame>>

CmdStep(c) ==
    /\ \/ BeginStart(c) \/ BeginReplace(c) \/ ReplacePolls(c)
       \/ ReplaceRemoves(c)
       \/ Create(c) \/ AlreadyExists(c) \/ FindsStarting(c) \/ OrphanCleanup(c) \/ Recreate(c)
       \/ Launch(c) \/ AwaitReady(c)
       \/ BeginStatus(c)
       \/ BeginPrune(c) \/ PruneReads(c) \/ PruneRemoves(c)
       \/ BeginKill(c) \/ KillMarks(c) \/ KillRequests(c) \/ KillEnds(c)
    /\ UNCHANGED plan

(***************************************************************************)
(* The sidecar of run c                                                    *)
(***************************************************************************)
SideGoto(c, p) == side' = [side EXCEPT ![c].pc = p]

\* Lock, consume launch_spec.json and the generation hint, log run.starting.
SideBoots(c) ==
    /\ side[c].pc = "boot"
    /\ \/ /\ at # 0 /\ ~Locked /\ files.spec # NoCmd
          /\ files' = [files EXCEPT !.spec = NoCmd, !.gen = 0]
          /\ side' = [side EXCEPT ![c].pc = IF c \in plan.after THEN "starting" ELSE "spawn",
                                  ![c].lock = at,
                                  ![c].gen = IF files.gen = 0 THEN 1 ELSE files.gen]
       \/ /\ at = 0 \/ Locked \/ files.spec = NoCmd
          /\ side' = [side EXCEPT ![c].pc = "dead", ![c].ready = "error"]
          /\ UNCHANGED files
    /\ UNCHANGED <<made, at, cmd, child, blame>>

\* A run with dependencies is observable while it waits for them.
SideStarts(c) ==
    /\ side[c].pc = "starting"
    /\ IF at = 0
       THEN /\ side' = [side EXCEPT ![c].pc = "dead", ![c].lock = 0, ![c].ready = "error"]
            /\ UNCHANGED files
       ELSE /\ files' = [files EXCEPT !.status = "Starting", !.run = c, !.how = "none",
                                      !.metaGen = side[c].gen]
            /\ SideGoto(c, "scan")
    /\ UNCHANGED <<made, at, cmd, child, blame>>

NoRequest == [files EXCEPT !.req = NoCmd, !.reqForced = FALSE]

\* Mutant: a request ends the wait, whichever run it names.
SideHeeds_AnyRun(c) ==
    /\ side[c].pc \in {"scan", "poll"} /\ files.req # NoCmd
    /\ files' = NoRequest
    /\ side' = [side EXCEPT ![c].pc = "refuse",
                            ![c].how = IF files.reqForced THEN "DepKilledForced" ELSE "DepKilled"]
    /\ UNCHANGED <<made, at, cmd, child, blame>>

\* scan_iteration looks for a kill request first: any is consumed, only one for this run
\* ends the wait.
SideHeeds(c) ==
    /\ side[c].pc \in {"scan", "poll"} /\ files.req # NoCmd
    /\ files' = NoRequest
    /\ IF files.req = c
       THEN side' = [side EXCEPT ![c].pc = "refuse",
                                 ![c].how = IF files.reqForced THEN "DepKilledForced"
                                                               ELSE "DepKilled"]
       ELSE UNCHANGED side
    /\ UNCHANGED <<made, at, cmd, child, blame>>

\* first_dependency_scan: the client is answered once every dependency was looked at,
\* unless that ends the wait.
SideScans(c) ==
    /\ side[c].pc = "scan" /\ files.req = NoCmd
    /\ \/ side' = [side EXCEPT ![c].pc = "refuse", ![c].how = "DepFailed"]
       \/ \E p \in {"poll", "spawn"} : side' = [side EXCEPT ![c].pc = p, ![c].ready = "ok"]
    /\ UNCHANGED <<made, at, files, cmd, child, blame>>

\* poll_dependencies, when the dependencies or the deadline decide.
DependenciesResolve(c) ==
    /\ side[c].pc = "poll" /\ files.req = NoCmd
    /\ \/ side' = [side EXCEPT ![c].pc = "refuse", ![c].how = "DepFailed"]
       \/ SideGoto(c, "spawn")
    /\ UNCHANGED <<made, at, files, cmd, child, blame>>

\* A wait that ended badly is recorded, and told to a client that has no answer yet.
SideRefuses(c) ==
    /\ side[c].pc = "refuse"
    /\ EmitThenWrite([files EXCEPT !.status = "Ended", !.run = c, !.how = side[c].how,
                                   !.metaGen = side[c].gen])
    /\ SideGoto(c, IF side[c].ready = "owed" THEN "tell" ELSE "release")
    /\ UNCHANGED <<cmd, child, blame>>

SideTells(c) ==
    /\ side[c].pc = "tell"
    /\ side' = [side EXCEPT ![c].pc = "release", ![c].ready = "ok"]
    /\ UNCHANGED <<made, at, files, cmd, child, blame>>

SideSpawns(c) ==
    /\ side[c].pc = "spawn"
    /\ child' = [child EXCEPT ![c] = "alive"]
    /\ SideGoto(c, "crumb")
    /\ UNCHANGED <<made, at, files, cmd, blame>>

\* The breadcrumb is a plain write: it is lost with the directory.
SideCrumbs(c) ==
    /\ side[c].pc = "crumb"
    /\ files' = IF at = 0 THEN files ELSE [files EXCEPT !.crumb = c]
    /\ SideGoto(c, "publish")
    /\ UNCHANGED <<made, at, cmd, child, blame>>

SidePublishes(c) ==
    /\ side[c].pc = "publish"
    /\ EmitThenWrite([files EXCEPT !.status = "Running", !.run = c, !.how = "none",
                                   !.metaGen = side[c].gen])
    /\ SideGoto(c, "ready")
    /\ UNCHANGED <<cmd, child, blame>>

\* Mutant: the child holds the readiness pipe open, so the client reads to its exit.
SideReady_PipeHeld(c) ==
    /\ side[c].pc = "ready" /\ child[c] = "dead"
    /\ side' = [side EXCEPT ![c].pc = "supervise", ![c].ready = "ok"]
    /\ UNCHANGED <<made, at, files, cmd, child, blame>>

SideReady(c) ==
    /\ side[c].pc = "ready"
    /\ side' = [side EXCEPT ![c].pc = "supervise", ![c].ready = "ok"]
    /\ UNCHANGED <<made, at, files, cmd, child, blame>>

\* Mutant: whatever run the request names.
SideWatches_AnyRun(c) ==
    /\ side[c].pc = "supervise" /\ files.req # NoCmd
    /\ files' = [files EXCEPT !.req = NoCmd, !.reqForced = FALSE,
                              !.acted = @ \/ ~files.reqForced]
    /\ KillIf(c)
    /\ UNCHANGED <<made, at, cmd, side, blame>>

\* setup_kill_watcher: any request is consumed, only one for this run is obeyed.
SideWatches(c) ==
    /\ side[c].pc = "supervise" /\ files.req # NoCmd
    /\ files' = [files EXCEPT !.req = NoCmd, !.reqForced = FALSE,
                              !.acted = @ \/ (files.req = c /\ ~files.reqForced)]
    /\ IF files.req = c THEN KillIf(c) ELSE UNCHANGED child
    /\ UNCHANGED <<made, at, cmd, side, blame>>

ChildExits(c) ==
    /\ child[c] = "alive"
    /\ child' = [child EXCEPT ![c] = "dead"]
    /\ UNCHANGED <<made, at, files, cmd, side, blame>>

SideObserves(c) ==
    /\ side[c].pc = "supervise" /\ child[c] = "dead"
    /\ SideGoto(c, "classify")
    /\ UNCHANGED <<made, at, files, cmd, child, blame>>

SideClassifies(c) ==
    /\ side[c].pc = "classify"
    /\ side' = [side EXCEPT ![c].pc = "cleanUp",
                            ![c].how = CASE files.forced -> "KilledForced"
                                         [] ~files.forced /\ files.acted -> "Killed"
                                         [] OTHER -> "Raw"]
    /\ UNCHANGED <<made, at, files, cmd, child, blame>>

SideCleans(c) ==
    /\ side[c].pc = "cleanUp"
    /\ files' = [files EXCEPT !.forced = FALSE, !.acted = FALSE, !.req = NoCmd,
                              !.reqForced = FALSE, !.crumb = NoCmd]
    /\ SideGoto(c, "record")
    /\ UNCHANGED <<made, at, cmd, child, blame>>

SideRecords(c) ==
    /\ side[c].pc = "record"
    /\ EmitThenWrite([files EXCEPT !.status = "Ended", !.run = c, !.how = side[c].how,
                                   !.metaGen = side[c].gen])
    /\ SideGoto(c, "release")
    /\ UNCHANGED <<cmd, child, blame>>

SideReleases(c) ==
    /\ side[c].pc = "release"
    /\ side' = [side EXCEPT ![c].pc = "dead", ![c].lock = 0]
    /\ UNCHANGED <<made, at, files, cmd, child, blame>>

\* The kernel drops the lock and closes the readiness pipe.  A child spawned and
\* not yet named by the breadcrumb is lost.
SideCrashes(c) ==
    /\ plan.mortal /\ side[c].pc \notin {"none", "dead", "lost"}
    /\ side' = [side EXCEPT ![c].pc = IF @ = "crumb" THEN "lost" ELSE "dead", ![c].lock = 0,
                            ![c].ready = IF @ = "owed" THEN "error" ELSE @]
    /\ UNCHANGED <<made, at, files, cmd, child, blame>>

SideStep(c) ==
    /\ \/ SideBoots(c) \/ SideStarts(c) \/ SideHeeds(c) \/ SideScans(c)
       \/ SideRefuses(c) \/ SideTells(c)
       \/ SideSpawns(c) \/ SideCrumbs(c) \/ SidePublishes(c) \/ SideReady(c)
       \/ SideWatches(c) \/ SideObserves(c) \/ SideClassifies(c) \/ SideCleans(c)
       \/ SideRecords(c) \/ SideReleases(c)
    /\ UNCHANGED plan

Next ==
    \E c \in Cmds :
        \/ CmdStep(c) \/ SideStep(c)
        \/ (SideCrashes(c) \/ ChildExits(c) \/ DependenciesResolve(c)) /\ UNCHANGED plan

Spec == Init /\ [][Next]_vars

\* Every process that can move does; nothing is asked of the children and dependencies.
FairSpec == Spec /\ \A c \in Cmds : WF_vars(CmdStep(c)) /\ WF_vars(SideStep(c))

(***************************************************************************)
(* Properties                                                              *)
(***************************************************************************)
\* No command deletes a directory whose lock a sidecar holds: not start --replace
\* (handle_replace: terminal and unlocked is safe to remove), not prune
\* (cmd_prune_named: a live session is never deleted), not the orphan cleanup.
DeletesSpare ==
    [][\A c \in Cmds : ReplaceRemoves(c) \/ PruneRemoves(c) \/ OrphanCleanup(c) => ~LiveAt(at)]_vars

\* The orphan cleanup of status and start deletes no directory whose lock a
\* sidecar holds (try_idempotent_start: no meta.json means the sidecar crashed).
OrphanSpares == [][\A c \in Cmds : OrphanCleanup(c) => ~LiveAt(at)]_vars

\* The record at the path is the lock holder's: no run writes into the directory
\* of another that is live.
OwnDirectory == \A c \in Cmds : LockedBy(c, at) => files.run \in {NoCmd, c}

\* A run recorded as killed, by a request to its watcher or in its dependency wait, was
\* the target of such a kill, whatever was replaced between the command's read and its
\* request (the run_id checks of setup_kill_watcher and scan_iteration).  A run recorded as
\* force-killed was the target of a kill --force that left its marker in that run's own
\* directory; or, as the marker names no run, of none: then a kill --force read an earlier
\* run of the name, and came to leave its marker only after the replacement (cmd_kill).
KilledIsAimed ==
    /\ files.how \in {"Killed", "DepKilled"} =>
          \E k \in Cmds : Kind[k] = "kill" /\ cmd[k].target = files.run
    /\ files.how = "DepKilledForced" =>
          \E k \in Cmds : Kind[k] = "kill_force" /\ cmd[k].target = files.run
    /\ files.how = "KilledForced" =>
          \E k \in Cmds :
              /\ Kind[k] = "kill_force" /\ blame[k].marked = at
              /\ IF blame[k].read = at THEN cmd[k].target = files.run
                                       ELSE blame[k].read \in 1..(at - 1)

\* A name has one child: whatever died in between, the old run's child is gone
\* before a new run's exists, unless its sidecar died between the spawn and the
\* breadcrumb (cleanup_orphan_dir, handle_replace, the client's cleanup).
OneChild ==
    \A c, d \in Cmds :
        child[c] = "alive" /\ child[d] = "alive" /\ c # d => "lost" \in {side[c].pc, side[d].pc}

\* A name is one run's at a time: its directory, its record and its child.
OneRunAtATime == TypeOK /\ OwnDirectory /\ OneChild

\* No command waits forever: start and replace included, whatever the others do.
EveryCommandEnds == \A c \in Cmds : cmd[c].pc # "idle" ~> cmd[c].pc = "done"

=============================================================================
