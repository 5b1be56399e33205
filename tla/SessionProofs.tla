---------------------------- MODULE SessionProofs ----------------------------
(***************************************************************************)
(* Proofs about SessionDirectory, for any commands and any sequence of     *)
(* runs of a name whose commands take turns: the ones that make or delete  *)
(* directories run one at a time (plan.serial), while kills come at any    *)
(* moment and sidecars may die at every step.                              *)
(*                                                                         *)
(* SessionInv is inductive.  Its parts say who may move (Turns), how far a *)
(* sidecar is from the command that launched it and from its child         *)
(* (Sidecars), that a lock is always of the directory at the path (Locks), *)
(* what the files show by then (Stages, Commands), which kills the marks   *)
(* that names its run can have come from (Aimed), and which commands the   *)
(* kill_forced marker, that names none (Marked).                           *)
(***************************************************************************)
EXTENDS SessionDirectory, TLAPS

(***************************************************************************)
(* The inductive invariant                                                 *)
(***************************************************************************)
\* A sidecar that holds its lock, and one whose client waits for the answer.
Holding == {"starting", "scan", "poll", "refuse", "tell", "spawn", "crumb", "publish", "ready",
            "supervise", "classify", "cleanUp", "record", "release"}
Owing(c) == side[c].pc \notin {"none", "dead", "lost"} /\ side[c].ready = "owed"

\* Of the commands that make or delete directories at most one is under way.
Turns ==
    /\ plan.serial
    /\ \A c \in Cmds : cmd[c].pc \notin {"idle", "mark", "request", "direct", "ask", "done"} => c \in Mutators
    /\ \A m, n \in Mutators :
          cmd[m].pc \notin {"idle", "done"} /\ cmd[n].pc \notin {"idle", "done"} => m = n

\* A child whose sidecar died is where the next command finds it.
Named(c) ==
    /\ at # 0 /\ files.crumb = c
    /\ files.status = "Absent" \/ (files.status \in {"Starting", "Running"} /\ files.run = c)

\* The sidecar of run c, its client and its child.
Sidecar(c) ==
    /\ side[c].pc # "none" => c \in Mutators /\ cmd[c].pc \in {"ready", "done"}
    /\ Owing(c) => cmd[c].pc = "ready"
    /\ side[c].pc \in {"none", "boot", "starting", "scan", "tell"} => side[c].ready = "owed"
    /\ side[c].pc \in Holding => side[c].ready # "error"
    /\ side[c].pc \in {"poll", "supervise", "classify", "cleanUp", "record", "release"} =>
          side[c].ready = "ok"
    /\ side[c].pc \in {"none", "boot", "starting", "scan", "poll", "refuse", "tell", "spawn"} =>
          child[c] = "none"
    /\ side[c].pc = "refuse" => side[c].how \in Refusals
    /\ side[c].pc \in {"classify", "cleanUp", "record", "release"} => child[c] # "alive"
    /\ side[c].pc = "dead" /\ child[c] = "alive" => Named(c)

Sidecars == \A c \in Cmds : Sidecar(c)

\* A directory is deleted only when nobody holds its lock, so a lock is of the directory
\* at the path, and there is one.
Locks ==
    /\ \A c \in Cmds :
          IF side[c].pc \in Holding THEN at # 0 /\ side[c].lock = at ELSE side[c].lock = 0
    /\ \A c, d \in Cmds : side[c].pc \in Holding /\ side[d].pc \in Holding => c = d

\* A directory as it was made, but for the marks of a kill.
Fresh == at # 0 /\ files.run = NoCmd /\ files.status = "Absent" /\ files.crumb = NoCmd

\* The record of a run that waits for its dependencies, or did.
Waits(c) == files.status = "Starting" /\ files.run = c

\* What the files show at each point of a sidecar.
Stage(c) ==
    /\ side[c].pc \in {"boot", "starting"} => Fresh
    /\ side[c].pc \in {"scan", "poll", "refuse"} => Waits(c) /\ files.crumb = NoCmd
    /\ side[c].pc \in {"spawn", "crumb"} =>
          IF side[c].ready = "owed" THEN Fresh ELSE Waits(c) /\ files.crumb = NoCmd
    /\ side[c].pc = "publish" =>
          /\ files.crumb = c
          /\ IF side[c].ready = "owed" THEN files.status = "Absent" /\ files.run = NoCmd ELSE Waits(c)
    /\ side[c].pc \in {"ready", "supervise", "classify", "cleanUp", "record"} =>
          files.status = "Running" /\ files.run = c
    /\ side[c].pc \in {"ready", "supervise"} => files.crumb = c
    /\ side[c].pc \in {"tell", "release"} => files.status = "Ended" /\ files.run = c

Stages ==
    /\ \A c \in Cmds : Stage(c)
    /\ at = 0 => files.status = "Absent" /\ files.run = NoCmd /\ files.crumb = NoCmd
    /\ files.status # "Absent" <=> files.run # NoCmd

\* What each point of a command knows.
Command(m) ==
    /\ cmd[m].pc \in {"orphan", "stale", "discard", "prune", "recreate", "launch"} =>
          \A d \in Cmds : side[d].pc \notin Holding
    /\ cmd[m].pc = "ready" => \A d \in Cmds \ {m} : side[d].pc \notin Holding
    /\ cmd[m].pc = "discard" => files.status = "Ended"
    /\ cmd[m].pc = "launch" => Fresh

Commands == \A m \in Cmds : Command(m)

\* The kills of a kind that read run r as their target, and the kills --force that left their
\* marker in directory d.
Aimers(p, records, kind, r) == {k \in Cmds : p.kind[k] = kind /\ records[k].target = r}
Forcers(p, history, d) == {k \in Cmds : p.kind[k] = "kill_force" /\ history[k].marked = d /\ d # 0}

\* An end that was asked for by a request has kills to come from.
Sought(p, records, how, r) ==
    /\ how \in {"Killed", "DepKilled"} => r # NoCmd /\ Aimers(p, records, "kill", r) # {}
    /\ how = "DepKilledForced" => r # NoCmd /\ Aimers(p, records, "kill_force", r) # {}

\* Every mark of a request goes back to a kill that read the run as its target.
Aimed ==
    /\ Sought(plan, cmd, files.how, files.run)
    /\ files.acted => files.run # NoCmd /\ Aimers(plan, cmd, "kill", files.run) # {}
    /\ files.req # NoCmd /\ ~files.reqForced => Aimers(plan, cmd, "kill", files.req) # {}
    /\ files.req # NoCmd /\ files.reqForced => Aimers(plan, cmd, "kill_force", files.req) # {}
    /\ \A c \in Cmds : Sought(plan, cmd, side[c].how, c)

\* What a kill command did so far: it read a run's record in its directory, which shows that
\* run for as long as it is there, and left its marker later.
KillPcs == {"mark", "request", "direct", "ask"}
Killer(k) ==
    /\ cmd[k].pc = "idle" => cmd[k].target = NoCmd /\ blame[k].marked = 0
    /\ cmd[k].pc \in KillPcs => Kind[k] \in {"kill", "kill_force"}
    /\ cmd[k].pc = "mark" => Kind[k] = "kill_force" /\ blame[k].read # 0
    /\ blame[k].read <= made /\ blame[k].marked <= made
    /\ blame[k].marked # 0 => blame[k].read # 0
    /\ blame[k].read = at /\ at # 0 => files.run = cmd[k].target /\ files.run # NoCmd

\* The marker of a kill --force is in the directory of whoever is classified by it.
Marked ==
    /\ at \in {0, made}
    /\ files.forced => Forcers(plan, blame, at) # {}
    /\ files.how = "KilledForced" => Forcers(plan, blame, at) # {}
    /\ \A c \in Cmds :
          side[c].pc \in {"cleanUp", "record"} /\ side[c].how = "KilledForced" =>
              Forcers(plan, blame, at) # {}
    /\ \A k \in Cmds : Killer(k)

SessionInv == TypeOK /\ Turns /\ Sidecars /\ Locks /\ Stages /\ Commands /\ Aimed /\ Marked

(***************************************************************************)
(* Types                                                                   *)
(***************************************************************************)
CmdRecs == [pc : CmdPcs, gen : Nat, target : Runs]
SideRecs == [pc : SidePcs, lock : Nat, gen : Nat, how : Hows, ready : {"owed", "ok", "error"}]

\* A kill ends a child or does nothing.
LEMMA KillIfType ==
    ASSUME TypeOK, NEW run \in Runs, KillIf(run)
    PROVE  /\ child' \in [Cmds -> {"none", "alive", "dead"}]
           /\ \A c \in Cmds : child'[c] = child[c] \/ (child[c] = "alive" /\ child'[c] = "dead")
           /\ \A c \in Cmds : c = run => child'[c] # "alive"
BY DEF KillIf, TypeOK

\* Files are made and removed whole.
LEMMA FilesTypes ==
    /\ NoFiles \in Files
    /\ NoFiles.status = "Absent" /\ NoFiles.run = NoCmd /\ NoFiles.crumb = NoCmd /\ NoFiles.req = NoCmd
    /\ NoFiles.how = "none" /\ ~NoFiles.acted /\ ~NoFiles.forced
BY DEF NoFiles, Files, Runs, Hows

\* A command's steps move its own record and nobody else's.
LEMMA GotoMoves ==
    ASSUME TypeOK, NEW c \in Cmds, NEW p \in CmdPcs, Goto(c, p)
    PROVE  /\ cmd' \in [Cmds -> CmdRecs]
           /\ cmd'[c].pc = p /\ cmd'[c].target = cmd[c].target
           /\ \A d \in Cmds \ {c} : cmd'[d] = cmd[d]
<1> DEFINE new == [cmd[c] EXCEPT !.pc = p]
<1>1. cmd \in [Cmds -> CmdRecs]
    BY DEF TypeOK, CmdRecs
<1>2. new \in CmdRecs /\ new.pc = p /\ new.target = cmd[c].target
    BY <1>1 DEF CmdRecs
<1>3. cmd' = [cmd EXCEPT ![c] = new]
    BY <1>1 DEF Goto
<1> HIDE DEF new
<1> QED
    BY <1>1, <1>2, <1>3

(***************************************************************************)
(* What each conjunct asks of a step                                       *)
(***************************************************************************)
\* Only command c moved, and its step is legal: it has its turn.
Moved(c) ==
    /\ cmd' \in [Cmds -> CmdRecs]
    /\ \A d \in Cmds \ {c} : cmd'[d] = cmd[d]
    /\ cmd'[c].target = cmd[c].target
    /\ cmd'[c].pc \notin {"idle", "mark"} /\ (cmd'[c].pc \in KillPcs => cmd[c].pc \in KillPcs)
    /\ plan' = plan

\* It leaves the kills' targets alone, and the marks with what it does not write.
LEMMA AimersStand ==
    ASSUME NEW c \in Cmds, Moved(c), cmd \in [Cmds -> CmdRecs]
    PROVE  /\ \A h, r : Aimers(plan', cmd', h, r) = Aimers(plan, cmd, h, r)
           /\ \A k \in Cmds : cmd'[k].target = cmd[k].target
           /\ \A k \in Cmds : cmd'[k].pc = "idle" => cmd[k].pc = "idle"
           /\ \A k \in Cmds : cmd'[k].pc \in KillPcs => cmd[k].pc \in KillPcs
           /\ \A k \in Cmds : cmd'[k].pc = "mark" => cmd[k].pc = "mark"
BY DEF Moved, Aimers

LEMMA KillersStand ==
    ASSUME SessionInv, NEW c \in Cmds, Moved(c), blame' = blame,
           made' >= made, made' \in Nat, at' \in {0, at} \/ at' > made,
           at' # 0 /\ at' = at => files'.run = files.run
    PROVE  \A k \in Cmds : Killer(k)'
<1> SUFFICES ASSUME NEW k \in Cmds PROVE Killer(k)'
    OBVIOUS
<1>1. cmd \in [Cmds -> CmdRecs] /\ made \in Nat /\ at \in Nat
    BY DEF SessionInv, TypeOK, CmdRecs
<1>2. blame[k].read \in Nat /\ blame[k].marked \in Nat
    BY DEF SessionInv, TypeOK
<1>3. /\ cmd'[k].target = cmd[k].target /\ (cmd'[k].pc = "idle" => cmd[k].pc = "idle")
      /\ cmd'[k].pc \in KillPcs => cmd[k].pc \in KillPcs
      /\ cmd'[k].pc = "mark" => cmd[k].pc = "mark"
    BY <1>1, AimersStand
<1>4. Killer(k) /\ plan' = plan
    BY DEF SessionInv, Marked, Moved
<1> QED
    BY <1>1, <1>2, <1>3, <1>4 DEF Killer, Kind

\* The step of a command under way, or of one that may begin.
HasTurn(c) ==
    \/ cmd[c].pc \notin {"idle", "mark", "request", "direct", "ask", "done"}
    \/ c \in Mutators /\ \A m \in Mutators \ {c} : cmd[m].pc \in {"idle", "done"}

\* A command that has its turn keeps it through its step, and no other mutator is under
\* way.
LEMMA TurnsKept ==
    ASSUME SessionInv, NEW c \in Cmds, Moved(c), HasTurn(c)
    PROVE  Turns' /\ \A d \in Cmds \ {c} : d \in Mutators => cmd[d].pc \in {"idle", "done"}
BY DEF SessionInv, Turns, Moved, HasTurn, Mutators, Kind

\* A mutator has its turn when it begins.
LEMMA BeginsInTurn ==
    ASSUME SessionInv, NEW c \in Cmds, MayBegin(c), c \in Mutators
    PROVE  HasTurn(c) /\ cmd[c].pc = "idle"
BY DEF SessionInv, Turns, MayBegin, HasTurn

\* While another command has its turn, nobody's sidecar is unanswered.
LEMMA NobodyElseBoots ==
    ASSUME SessionInv, NEW c \in Cmds, HasTurn(c), Moved(c), NEW d \in Cmds, Owing(d)
    PROVE  d = c /\ cmd[c].pc = "ready"
<1>1. d \in Mutators /\ cmd[d].pc = "ready"
    BY DEF SessionInv, Sidecars, Sidecar, Owing
<1> QED
    BY <1>1, TurnsKept

\* Children only end, and the rest of the world stands still.
Still == UNCHANGED <<made, at, files, side, blame>>
ChildrenEnd ==
    /\ child' \in [Cmds -> {"none", "alive", "dead"}]
    /\ \A c \in Cmds : child'[c] = child[c] \/ (child[c] = "alive" /\ child'[c] = "dead")

\* A move of a command alone keeps the invariant if the command is where it says.
LEMMA MoveKeeps ==
    ASSUME SessionInv, NEW c \in Cmds, Moved(c), HasTurn(c), Still, ChildrenEnd,
           Command(c)', cmd[c].pc # "ready" \/ ~Owing(c),
           side[c].pc # "none" => cmd'[c].pc \in {"ready", "done"}
    PROVE  SessionInv'
<1>1. TypeOK'
    BY DEF SessionInv, TypeOK, Moved, Still, ChildrenEnd, CmdRecs
<1>2. Turns'
    BY TurnsKept
<1>3. Sidecars'
  <2> SUFFICES ASSUME NEW d \in Cmds PROVE Sidecar(d)'
    BY DEF Sidecars
  <2>1. Sidecar(d) /\ Mutators' = Mutators
    BY DEF SessionInv, Sidecars, Moved, Mutators, Kind
  <2>2. Owing(d) => d # c
    BY NobodyElseBoots
  <2> QED
    BY <2>1, <2>2 DEF Sidecar, Owing, Moved, Still, ChildrenEnd, Named
<1>4. Locks' /\ Stages'
    BY DEF SessionInv, Locks, Stages, Stage, Waits, Still, Fresh
<1>5. Commands'
  <2> SUFFICES ASSUME NEW m \in Cmds, m # c PROVE Command(m)'
    BY DEF Commands
  <2> QED
    BY DEF SessionInv, Commands, Command, Moved, Still, Fresh
<1>6. Aimed'
  <2>1. \A h, r : Aimers(plan', cmd', h, r) = Aimers(plan, cmd, h, r)
    BY AimersStand DEF SessionInv, TypeOK, CmdRecs
  <2> QED
    BY <2>1 DEF SessionInv, Aimed, Sought, Still
<1>7. Marked'
  <2>1. \A k \in Cmds : Killer(k)'
    BY KillersStand DEF Still, SessionInv, TypeOK
  <2> QED
    BY <2>1 DEF SessionInv, Marked, Moved, Still
<1> QED
    BY <1>1, <1>2, <1>3, <1>4, <1>5, <1>6, <1>7 DEF SessionInv

\* Nobody holds a lock: because the lock at the path is free, or because a sidecar past
\* its answer would have a record there.
LEMMA UnlockedMeansNobody ==
    ASSUME SessionInv, ~Locked
    PROVE  \A d \in Cmds : side[d].pc \notin Holding
BY DEF SessionInv, Locks, Locked, LiveAt, LockedBy

\* Where there is no meta.json, and nobody boots, nobody holds the lock.
LEMMA NoMetaMeansNobody ==
    ASSUME SessionInv, NEW c \in Cmds, HasTurn(c), Moved(c), cmd[c].pc # "ready", NoMeta
    PROVE  \A d \in Cmds : side[d].pc \notin Holding
<1> SUFFICES ASSUME NEW d \in Cmds, side[d].pc \in Holding PROVE FALSE
    OBVIOUS
<1>1. ~Owing(d)
    BY NobodyElseBoots
<1> QED
    BY <1>1 DEF SessionInv, Sidecars, Sidecar, Stages, Stage, Waits, Holding, Owing, NoMeta

\* Deleting the directory keeps the invariant when nobody holds its lock and no child is
\* named in it.
LEMMA RemovalKeeps ==
    ASSUME SessionInv, NEW c \in Cmds, Moved(c), HasTurn(c), RemoveDir, ChildrenEnd,
           UNCHANGED <<side, blame>>,
           \A d \in Cmds : side[d].pc \notin Holding \cup {"boot"},
           \A d \in Cmds : side[d].pc = "dead" => child'[d] # "alive",
           cmd'[c].pc \in {"create", "recreate", "done"},
           side[c].pc # "none" => cmd'[c].pc = "done"
    PROVE  SessionInv'
<1>0. /\ at' = 0 /\ files' = NoFiles /\ made' = made
      /\ files'.status = "Absent" /\ files'.run = NoCmd /\ files'.crumb = NoCmd
    BY FilesTypes DEF RemoveDir
<1>1. TypeOK'
    BY <1>0, FilesTypes DEF SessionInv, TypeOK, Moved, ChildrenEnd, CmdRecs
<1>2. Turns'
    BY TurnsKept
<1>3. Sidecars'
  <2> SUFFICES ASSUME NEW d \in Cmds PROVE Sidecar(d)'
    BY DEF Sidecars
  <2>1. Sidecar(d) /\ Mutators' = Mutators
    BY DEF SessionInv, Sidecars, Moved, Mutators, Kind
  <2>2. ~Owing(d) /\ side[d].pc \in {"none", "dead", "lost"}
    BY DEF SessionInv, TypeOK, SidePcs, Holding, Owing
  <2> QED
    BY <2>1, <2>2 DEF Sidecar, Moved, ChildrenEnd, Holding, Owing
<1>4. Locks'
    BY DEF SessionInv, Locks
<1>5. Stages'
    BY <1>0 DEF SessionInv, Stages, Stage, Waits, Fresh, Holding
<1>6. Commands'
  <2> SUFFICES ASSUME NEW m \in Cmds PROVE Command(m)'
    BY DEF Commands
  <2>1. CASE m = c
    BY <2>1 DEF Command
  <2>2. CASE m # c
    <3>1. cmd'[m] = cmd[m] /\ cmd[m].pc \in {"idle", "mark", "request", "direct", "ask", "done"}
      BY <2>2, TurnsKept DEF Moved, SessionInv, Turns
    <3> QED
      BY <3>1 DEF Command
  <2> QED
    BY <2>1, <2>2
<1>7. files'.how = "none" /\ ~files'.acted /\ ~files'.forced /\ files'.req = NoCmd
    BY <1>0, FilesTypes
<1>8. Aimed'
  <2>1. \A h, r : Aimers(plan', cmd', h, r) = Aimers(plan, cmd, h, r)
    BY AimersStand DEF SessionInv, TypeOK, CmdRecs
  <2> QED
    BY <1>7, <2>1 DEF SessionInv, Aimed, Sought
<1>9. Marked'
  <2>1. \A k \in Cmds : Killer(k)'
    BY <1>0, KillersStand DEF SessionInv, TypeOK
  <2>2. \A d \in Cmds : side'[d].pc \notin {"cleanUp", "record"}
    BY DEF Holding
  <2> QED
    BY <1>0, <1>7, <2>1, <2>2 DEF Marked
<1> QED
    BY <1>1, <1>2, <1>3, <1>4, <1>5, <1>6, <1>8, <1>9 DEF SessionInv

\* Making a directory where there is none.
LEMMA MakingKeeps ==
    ASSUME SessionInv, NEW c \in Cmds, Moved(c), cmd[c].pc \in {"create", "recreate"}, at = 0,
           MakeDir(NoFiles), cmd'[c].pc = "launch", UNCHANGED <<side, child, blame>>
    PROVE  SessionInv'
<1>0. /\ at' # 0 /\ at' \in 0..made' /\ made' \in Nat /\ files' = NoFiles
      /\ files'.status = "Absent" /\ files'.run = NoCmd /\ files'.crumb = NoCmd
    BY FilesTypes DEF MakeDir, SessionInv, TypeOK
<1>1. TypeOK'
    BY <1>0, FilesTypes DEF SessionInv, TypeOK, Moved, CmdRecs
<1>2. HasTurn(c)
    BY DEF HasTurn
<1>3. Turns'
    BY <1>2, TurnsKept
<1>4. \A d \in Cmds : side[d].pc \notin Holding
    BY DEF SessionInv, Locks
<1>5. \A d \in Cmds : ~Owing(d) /\ side[d].pc # "boot"
    BY <1>2, NobodyElseBoots DEF SessionInv, Sidecars, Sidecar, Owing
<1>6. Sidecars'
  <2> SUFFICES ASSUME NEW d \in Cmds PROVE Sidecar(d)'
    BY DEF Sidecars
  <2>1. Sidecar(d) /\ Mutators' = Mutators
    BY DEF SessionInv, Sidecars, Moved, Mutators, Kind
  <2>2. side[d].pc # "none" => d # c
    BY <2>1 DEF Sidecar, Owing
  <2>3. side[d].pc = "dead" => child[d] # "alive"
    BY <2>1 DEF Sidecar, Owing, Named
  <2> QED
    BY <1>4, <1>5, <2>1, <2>2, <2>3 DEF Sidecar, Moved, Holding, Owing
<1>7. Locks'
    BY <1>4 DEF SessionInv, Locks
<1>8. Stages'
    BY <1>0, <1>4, <1>5 DEF SessionInv, Stages, Stage, Waits, Fresh, Holding, Owing
<1>9. Commands'
  <2> SUFFICES ASSUME NEW m \in Cmds PROVE Command(m)'
    BY DEF Commands
  <2>1. CASE m = c
    BY <1>0, <1>4, <2>1 DEF Command, Fresh
  <2>2. CASE m # c
    <3>1. cmd'[m] = cmd[m] /\ cmd[m].pc \in {"idle", "mark", "request", "direct", "ask", "done"}
      BY <1>2, <2>2, TurnsKept DEF Moved, SessionInv, Turns
    <3> QED
      BY <3>1 DEF Command
  <2> QED
    BY <2>1, <2>2
<1>10. files'.how = "none" /\ ~files'.acted /\ ~files'.forced /\ files'.req = NoCmd
    BY <1>0, FilesTypes
<1>11. Aimed'
  <2>1. \A h, r : Aimers(plan', cmd', h, r) = Aimers(plan, cmd, h, r)
    BY AimersStand DEF SessionInv, TypeOK, CmdRecs
  <2> QED
    BY <1>10, <2>1 DEF SessionInv, Aimed, Sought
<1>12. Marked'
  <2>1. at' > made /\ made' >= made /\ at' = made'
    BY DEF MakeDir, SessionInv, TypeOK
  <2>2. \A k \in Cmds : Killer(k)'
    BY <1>0, <2>1, KillersStand
  <2>3. \A d \in Cmds : side'[d].pc \notin {"cleanUp", "record"}
    BY <1>4 DEF Holding
  <2> QED
    BY <1>10, <2>1, <2>2, <2>3 DEF Marked
<1> QED
    BY <1>1, <1>3, <1>6, <1>7, <1>8, <1>9, <1>11, <1>12 DEF SessionInv

(***************************************************************************)
(* The commands                                                            *)
(***************************************************************************)
\* A command that has not launched has no sidecar.
LEMMA NotLaunched ==
    ASSUME SessionInv, NEW c \in Cmds, cmd[c].pc \notin {"ready", "done"}
    PROVE  side[c].pc = "none"
BY DEF SessionInv, Sidecars, Sidecar, Owing

\* Goto is a move.
LEMMA GotoIsMove ==
    ASSUME TypeOK, NEW c \in Cmds, NEW p \in CmdPcs, Goto(c, p), UNCHANGED plan,
           p \notin {"idle", "mark"}, p \in KillPcs => cmd[c].pc \in KillPcs
    PROVE  Moved(c) /\ cmd'[c].pc = p
BY GotoMoves DEF Moved

\* UNCHANGED children end trivially, and a kill ends them.
LEMMA EndingChildren ==
    ASSUME TypeOK, child' = child \/ \E run \in Runs : KillIf(run)
    PROVE  ChildrenEnd
BY KillIfType DEF ChildrenEnd, TypeOK

\* The beginnings of start and prune, the polls and the reads change no file.
LEMMA BeginStartKeeps ==
    ASSUME SessionInv, NEW c \in Cmds, BeginStart(c), UNCHANGED plan
    PROVE  SessionInv'
<1>1. c \in Mutators
    BY DEF BeginStart, Mutators
<1>2. HasTurn(c) /\ cmd[c].pc = "idle"
    BY <1>1, BeginsInTurn DEF BeginStart
<1>3. Moved(c) /\ cmd'[c].pc = "create"
    BY GotoIsMove DEF SessionInv, BeginStart, CmdPcs, KillPcs
<1>4. Still /\ ChildrenEnd
    BY EndingChildren DEF BeginStart, Still, SessionInv
<1>5. Command(c)'
    BY <1>3 DEF Command
<1> QED
    BY <1>2, <1>3, <1>4, <1>5, NotLaunched, MoveKeeps

\* handle_replace, as far as the kill: what it finds decides what it may assume.
LEMMA BeginReplaceKeeps ==
    ASSUME SessionInv, NEW c \in Cmds, BeginReplace(c), UNCHANGED plan
    PROVE  SessionInv'
<1>1. c \in Mutators
    BY DEF BeginReplace, Mutators
<1>2. HasTurn(c) /\ cmd[c].pc = "idle" /\ side[c].pc = "none"
    BY <1>1, BeginsInTurn, NotLaunched DEF BeginReplace
<1>3. Still
    BY DEF BeginReplace, Still
<1>4. CASE at = 0
  <2>1. Goto(c, "create") /\ child' = child
    BY <1>4 DEF BeginReplace
  <2>2. Moved(c) /\ cmd'[c].pc = "create" /\ ChildrenEnd
    BY <2>1, GotoIsMove, EndingChildren DEF SessionInv, CmdPcs, KillPcs
  <2>3. Command(c)'
    BY <2>2 DEF Command
  <2> QED
    BY <1>2, <1>3, <2>2, <2>3, MoveKeeps
<1>5. CASE at # 0 /\ NoMeta
  <2>1. Goto(c, "orphan") /\ child' = child
    BY <1>5 DEF BeginReplace
  <2>2. Moved(c) /\ cmd'[c].pc = "orphan" /\ ChildrenEnd
    BY <2>1, GotoIsMove, EndingChildren DEF SessionInv, CmdPcs, KillPcs
  <2>3. \A d \in Cmds : side[d].pc \notin Holding
    BY <1>2, <1>5, <2>2, NoMetaMeansNobody
  <2>4. Command(c)'
    BY <1>3, <1>5, <2>2, <2>3 DEF Command, Still, NoMeta
  <2> QED
    BY <1>2, <1>3, <2>2, <2>4, MoveKeeps
<1>6. CASE at # 0 /\ ~NoMeta
  <2>1. /\ cmd' = [cmd EXCEPT ![c].pc = "poll", ![c].gen = files.metaGen + 1]
        /\ IF files.status = "Running" THEN KillIf(files.run) ELSE UNCHANGED child
    BY <1>6 DEF BeginReplace
  <2>2. files.run \in Runs /\ files.metaGen + 1 \in Nat
    BY DEF SessionInv, TypeOK, Files
  <2>3. ChildrenEnd
    BY <2>1, <2>2, EndingChildren DEF SessionInv
  <2>4. Moved(c) /\ cmd'[c].pc = "poll"
    <3> DEFINE new == [cmd[c] EXCEPT !.pc = "poll", !.gen = files.metaGen + 1]
    <3>1. cmd \in [Cmds -> CmdRecs]
      BY DEF SessionInv, TypeOK, CmdRecs
    <3>2. new \in CmdRecs /\ new.pc = "poll" /\ new.target = cmd[c].target
      BY <2>2, <3>1 DEF CmdRecs, CmdPcs
    <3>3. cmd' = [cmd EXCEPT ![c] = new]
      BY <2>1, <3>1
    <3> HIDE DEF new
    <3> QED
      BY <3>1, <3>2, <3>3 DEF Moved, KillPcs
  <2>5. Command(c)'
    BY <2>4 DEF Command
  <2> QED
    BY <1>2, <1>3, <2>3, <2>4, <2>5, MoveKeeps
<1> QED
    BY <1>4, <1>5, <1>6

\* A replace goes on only from an ended record nobody holds.
LEMMA ReplacePollsKeeps ==
    ASSUME SessionInv, NEW c \in Cmds, ReplacePolls(c), UNCHANGED plan
    PROVE  SessionInv'
<1>1. HasTurn(c) /\ cmd[c].pc = "poll" /\ side[c].pc = "none"
    BY NotLaunched DEF ReplacePolls, HasTurn
<1>2. Still /\ ChildrenEnd
    BY EndingChildren DEF ReplacePolls, Still, SessionInv
<1>3. CASE files.status = "Ended" /\ ~Locked /\ Goto(c, "discard")
  <2>1. Moved(c) /\ cmd'[c].pc = "discard"
    BY <1>3, GotoIsMove DEF SessionInv, CmdPcs, KillPcs
  <2>2. \A d \in Cmds : side[d].pc \notin Holding
    BY <1>3, UnlockedMeansNobody
  <2>3. Command(c)'
    BY <1>2, <1>3, <2>1, <2>2 DEF Command, Still
  <2> QED
    BY <1>1, <1>2, <2>1, <2>3, MoveKeeps
<1>4. CASE Goto(c, "done")
  <2>1. Moved(c) /\ cmd'[c].pc = "done"
    BY <1>4, GotoIsMove DEF SessionInv, CmdPcs, KillPcs
  <2>2. Command(c)'
    BY <2>1 DEF Command
  <2> QED
    BY <1>1, <1>2, <2>1, <2>2, MoveKeeps
<1> QED
    BY <1>3, <1>4 DEF ReplacePolls

\* The old run's directory goes when its record has ended: no child is named in it.
LEMMA EndedNamesNobody ==
    ASSUME SessionInv, files.status = "Ended"
    PROVE  \A d \in Cmds : side[d].pc = "dead" => child[d] # "alive"
BY DEF SessionInv, Sidecars, Sidecar, Owing, Named

\* Nobody boots while a command that has not launched is under way.
LEMMA NobodyBoots ==
    ASSUME SessionInv, NEW c \in Cmds, HasTurn(c), Moved(c), cmd[c].pc # "ready"
    PROVE  \A d \in Cmds : ~Owing(d) /\ side[d].pc # "boot"
<1>1. \A d \in Cmds : ~Owing(d)
    BY NobodyElseBoots
<1> QED
    BY <1>1 DEF SessionInv, Sidecars, Sidecar, Owing

\* start --replace removes the directory of the run it killed.
LEMMA ReplaceRemovesKeeps ==
    ASSUME SessionInv, NEW c \in Cmds, ReplaceRemoves(c), UNCHANGED plan
    PROVE  SessionInv'
<1>1. HasTurn(c) /\ cmd[c].pc = "discard" /\ side[c].pc = "none"
    BY NotLaunched DEF ReplaceRemoves, HasTurn
<1>2. ChildrenEnd /\ child' = child /\ UNCHANGED <<side, blame>>
    BY EndingChildren DEF ReplaceRemoves, SessionInv
<1>3. CASE at = 0
  <2>1. Goto(c, "done") /\ Still
    BY <1>2, <1>3 DEF ReplaceRemoves, Still
  <2>2. Moved(c) /\ cmd'[c].pc = "done"
    BY <2>1, GotoIsMove DEF SessionInv, CmdPcs, KillPcs
  <2>3. Command(c)'
    BY <2>2 DEF Command
  <2> QED
    BY <1>1, <1>2, <2>1, <2>2, <2>3, MoveKeeps
<1>4. CASE at # 0
  <2>1. RemoveDir /\ Goto(c, "create")
    BY <1>4 DEF ReplaceRemoves
  <2>2. Moved(c) /\ cmd'[c].pc = "create"
    BY <2>1, GotoIsMove DEF SessionInv, CmdPcs, KillPcs
  <2>3. files.status = "Ended" /\ \A d \in Cmds : side[d].pc \notin Holding
    BY <1>1 DEF SessionInv, Commands, Command
  <2>4. \A d \in Cmds : side[d].pc \notin Holding \cup {"boot"}
    BY <1>1, <2>2, <2>3, NobodyBoots
  <2>5. \A d \in Cmds : side[d].pc = "dead" => child'[d] # "alive"
    BY <1>2, <2>3, EndedNamesNobody
  <2> QED
    BY <1>1, <1>2, <2>1, <2>2, <2>4, <2>5, RemovalKeeps
<1> QED
    BY <1>3, <1>4

\* create_session, both times it is tried.
LEMMA CreateKeeps ==
    ASSUME SessionInv, NEW c \in Cmds, Create(c) \/ Recreate(c), UNCHANGED plan
    PROVE  SessionInv'
<1>1. HasTurn(c) /\ cmd[c].pc \in {"create", "recreate"} /\ side[c].pc = "none"
    BY NotLaunched DEF Create, Recreate, HasTurn
<1>2. ChildrenEnd /\ UNCHANGED <<child, side, blame>>
    BY EndingChildren DEF Create, Recreate, SessionInv
<1>3. CASE at = 0
  <2>1. MakeDir(NoFiles) /\ Goto(c, "launch")
    BY <1>3 DEF Create, Recreate
  <2>2. Moved(c) /\ cmd'[c].pc = "launch"
    BY <2>1, GotoIsMove DEF SessionInv, CmdPcs, KillPcs
  <2> QED
    BY <1>1, <1>2, <1>3, <2>1, <2>2, MakingKeeps
<1>4. CASE at # 0
  <2>1. Still /\ (Goto(c, "exists") \/ Goto(c, "done"))
    BY <1>2, <1>4 DEF Create, Recreate, Still
  <2>2. Moved(c) /\ cmd'[c].pc \in {"exists", "done"}
    BY <2>1, GotoIsMove DEF SessionInv, CmdPcs, KillPcs
  <2>3. Command(c)'
    BY <2>2 DEF Command
  <2> QED
    BY <1>1, <1>2, <2>1, <2>2, <2>3, MoveKeeps
<1> QED
    BY <1>3, <1>4

\* try_idempotent_start calls a directory stale only when no sidecar is left in it.
LEMMA AlreadyExistsKeeps ==
    ASSUME SessionInv, NEW c \in Cmds, AlreadyExists(c), UNCHANGED plan
    PROVE  SessionInv'
<1>1. HasTurn(c) /\ cmd[c].pc = "exists" /\ side[c].pc = "none"
    BY NotLaunched DEF AlreadyExists, HasTurn
<1>2. Still /\ ChildrenEnd
    BY EndingChildren DEF AlreadyExists, Still, SessionInv
<1>3. Moved(c) /\ cmd'[c].pc \in {"stale", "starting", "done"} /\ (cmd'[c].pc = "stale" => NoMeta)
  <2>1. CASE NoMeta /\ Goto(c, "stale")
    BY <2>1, GotoIsMove DEF SessionInv, CmdPcs, KillPcs
  <2>2. CASE Goto(c, "starting") \/ Goto(c, "done")
    BY <2>2, GotoIsMove DEF SessionInv, CmdPcs, KillPcs
  <2> QED
    BY <2>1, <2>2 DEF AlreadyExists
<1>4. NoMeta => \A d \in Cmds : side[d].pc \notin Holding
    BY <1>1, <1>3, NoMetaMeansNobody
<1>5. Command(c)'
    BY <1>2, <1>3, <1>4 DEF Command, Still
<1> QED
    BY <1>1, <1>2, <1>3, <1>5, MoveKeeps

\* A starting directory is an orphan only when its lock is free.
LEMMA FindsStartingKeeps ==
    ASSUME SessionInv, NEW c \in Cmds, FindsStarting(c), UNCHANGED plan
    PROVE  SessionInv'
<1>1. HasTurn(c) /\ cmd[c].pc = "starting" /\ side[c].pc = "none"
    BY NotLaunched DEF FindsStarting, HasTurn
<1>2. Still /\ ChildrenEnd
    BY EndingChildren DEF FindsStarting, Still, SessionInv
<1>3. Moved(c) /\ cmd'[c].pc = IF Locked THEN "done" ELSE "stale"
    BY GotoIsMove DEF SessionInv, CmdPcs, KillPcs, FindsStarting
<1>4. ~Locked => \A d \in Cmds : side[d].pc \notin Holding
    BY UnlockedMeansNobody
<1>5. Command(c)'
    BY <1>2, <1>3, <1>4 DEF Command, Still
<1> QED
    BY <1>1, <1>2, <1>3, <1>5, MoveKeeps

\* cleanup_orphan_dir: whoever is left alive in a directory without a sidecar is named by its
\* breadcrumb, and killed before the directory goes.
LEMMA OrphanCleanupKeeps ==
    ASSUME SessionInv, NEW c \in Cmds, OrphanCleanup(c), UNCHANGED plan
    PROVE  SessionInv'
<1>1. HasTurn(c) /\ cmd[c].pc \in {"orphan", "stale"} /\ side[c].pc = "none"
    BY NotLaunched DEF OrphanCleanup, HasTurn
<1>2. RemoveDir /\ KillIf(files.crumb) /\ UNCHANGED <<side, blame>>
    BY DEF OrphanCleanup
<1>3. files.crumb \in Runs
    BY DEF SessionInv, TypeOK, Files
<1>4. ChildrenEnd /\ \A d \in Cmds : d = files.crumb => child'[d] # "alive"
    BY <1>2, <1>3, KillIfType, EndingChildren DEF SessionInv
<1>5. Moved(c) /\ cmd'[c].pc \in {"create", "recreate", "done"}
  <2>1. Goto(c, "recreate") \/ Goto(c, "create") \/ Goto(c, "done")
    <3>1. CASE cmd[c].pc = "stale"
      BY <3>1 DEF OrphanCleanup
    <3>2. CASE cmd[c].pc = "orphan" /\ Kind[c] = "replace"
      BY <3>2 DEF OrphanCleanup
    <3>3. CASE cmd[c].pc = "orphan" /\ Kind[c] # "replace"
      BY <3>3 DEF OrphanCleanup
    <3> QED
      BY <1>1, <3>1, <3>2, <3>3
  <2> QED
    BY <2>1, GotoIsMove DEF SessionInv, CmdPcs, KillPcs
<1>6. \A d \in Cmds : side[d].pc \notin Holding
    BY <1>1 DEF SessionInv, Commands, Command
<1>7. \A d \in Cmds : side[d].pc \notin Holding \cup {"boot"}
    BY <1>1, <1>5, <1>6, NobodyBoots
<1>8. \A d \in Cmds : side[d].pc = "dead" => child'[d] # "alive"
    BY <1>4 DEF SessionInv, Sidecars, Sidecar, Owing, Named, ChildrenEnd
<1> QED
    BY <1>1, <1>2, <1>4, <1>5, <1>7, <1>8, RemovalKeeps

\* The sidecar is spawned into a fresh directory.
LEMMA LaunchKeeps ==
    ASSUME SessionInv, NEW c \in Cmds, Launch(c), UNCHANGED plan
    PROVE  SessionInv'
<1>1. HasTurn(c) /\ cmd[c].pc = "launch" /\ side[c].pc = "none" /\ c \in Mutators
    BY NotLaunched DEF Launch, HasTurn, SessionInv, Turns
<1>2. ChildrenEnd /\ child' = child /\ UNCHANGED <<made, at, blame>>
    BY EndingChildren DEF Launch, SessionInv
<1>3. at # 0 /\ Fresh /\ \A d \in Cmds : side[d].pc \notin Holding
    BY <1>1 DEF SessionInv, Commands, Command, Fresh
<1>4. /\ files' = [files EXCEPT !.spec = c, !.gen = IF cmd[c].gen = 0 THEN @ ELSE cmd[c].gen]
      /\ side' = [side EXCEPT ![c].pc = "boot"]
      /\ Goto(c, "ready")
    BY <1>3 DEF Launch
<1>5. Moved(c) /\ cmd'[c].pc = "ready"
    BY <1>4, GotoIsMove DEF SessionInv, CmdPcs, KillPcs
<1>6. /\ files' \in Files
      /\ files'.status = files.status /\ files'.run = files.run /\ files'.crumb = files.crumb
      /\ files'.how = files.how /\ files'.acted = files.acted /\ files'.req = files.req
      /\ files'.forced = files.forced /\ files'.reqForced = files.reqForced
  <2>1. files \in Files /\ cmd[c].gen \in Nat /\ c \in Runs
    BY DEF SessionInv, TypeOK, Runs
  <2> DEFINE g == IF cmd[c].gen = 0 THEN files.gen ELSE cmd[c].gen
  <2>2. g \in Nat
    BY <2>1 DEF Files
  <2>3. files' = [files EXCEPT !.spec = c, !.gen = g]
    BY <1>4, <2>1
  <2> HIDE DEF g
  <2> QED
    BY <2>1, <2>2, <2>3 DEF Files
<1>7. /\ side' \in [Cmds -> SideRecs] /\ side'[c].pc = "boot"
      /\ side'[c].lock = side[c].lock /\ side'[c].how = side[c].how /\ side'[c].ready = side[c].ready
      /\ \A d \in Cmds \ {c} : side'[d] = side[d]
  <2> DEFINE new == [side[c] EXCEPT !.pc = "boot"]
  <2>1. side \in [Cmds -> SideRecs]
    BY DEF SessionInv, TypeOK, SideRecs
  <2>2. /\ new \in SideRecs /\ new.pc = "boot" /\ new.lock = side[c].lock
        /\ new.how = side[c].how /\ new.ready = side[c].ready
    BY <2>1 DEF SideRecs, SidePcs
  <2>3. side' = [side EXCEPT ![c] = new]
    BY <1>4, <2>1
  <2> HIDE DEF new
  <2> QED
    BY <2>1, <2>2, <2>3
<1>8. TypeOK'
    BY <1>2, <1>5, <1>6, <1>7 DEF SessionInv, TypeOK, Moved, CmdRecs, SideRecs
<1>9. Turns'
    BY <1>1, <1>5, TurnsKept
<1>10. \A d \in Cmds : ~Owing(d)
    BY <1>1, <1>5, NobodyBoots
<1>11. Sidecars'
  <2> SUFFICES ASSUME NEW d \in Cmds PROVE Sidecar(d)'
    BY DEF Sidecars
  <2>1. Sidecar(d) /\ Sidecar(c) /\ Mutators' = Mutators
    BY <1>5 DEF SessionInv, Sidecars, Moved, Mutators, Kind
  <2>2. CASE d = c
    BY <1>1, <1>2, <1>5, <1>7, <2>1, <2>2 DEF Sidecar, Owing, Holding
  <2>3. CASE d # c
    BY <1>2, <1>5, <1>6, <1>7, <2>1, <2>3 DEF Sidecar, Owing, Moved, Named
  <2> QED
    BY <2>2, <2>3
<1>12. Locks'
    BY <1>1, <1>2, <1>3, <1>7 DEF SessionInv, Locks, Holding
<1>13. Stages'
  <2>1. Stage(c)'
    BY <1>2, <1>3, <1>6, <1>7 DEF Stage, Waits, Fresh
  <2>2. \A d \in Cmds \ {c} : Stage(d)'
    BY <1>2, <1>6, <1>7 DEF SessionInv, Stages, Stage, Waits, Fresh
  <2> QED
    BY <1>2, <1>6, <2>1, <2>2 DEF SessionInv, Stages
<1>14. Commands'
  <2> SUFFICES ASSUME NEW m \in Cmds PROVE Command(m)'
    BY DEF Commands
  <2>1. CASE m = c
    BY <1>3, <1>5, <1>7, <2>1 DEF Command
  <2>2. CASE m # c
    <3>1. cmd'[m] = cmd[m] /\ cmd[m].pc \in {"idle", "mark", "request", "direct", "ask", "done"}
      BY <1>1, <1>5, <2>2, TurnsKept DEF Moved, SessionInv, Turns
    <3> QED
      BY <3>1 DEF Command
  <2> QED
    BY <2>1, <2>2
<1>15. Aimed'
  <2>1. \A h, r : Aimers(plan', cmd', h, r) = Aimers(plan, cmd, h, r)
    BY <1>5, AimersStand DEF SessionInv, TypeOK, CmdRecs
  <2>2. \A d \in Cmds : side'[d].how = side[d].how
    BY <1>7
  <2> QED
    BY <1>6, <2>1, <2>2 DEF SessionInv, Aimed, Sought
<1>16. Marked'
  <2>1. \A k \in Cmds : Killer(k)'
    BY <1>2, <1>5, <1>6, KillersStand DEF SessionInv, TypeOK
  <2>2. \A d \in Cmds : side'[d].pc \in {"cleanUp", "record"} => side'[d] = side[d]
    BY <1>7
  <2> QED
    BY <1>2, <1>5, <1>6, <2>1, <2>2 DEF SessionInv, Marked, Moved
<1> QED
    BY <1>8, <1>9, <1>11, <1>12, <1>13, <1>14, <1>15, <1>16 DEF SessionInv

\* The client deletes the directory of a start that failed, unless a breadcrumb is in it:
\* its sidecar is gone, nobody else has one, and no child is named.
LEMMA AwaitReadyKeeps ==
    ASSUME SessionInv, NEW c \in Cmds, AwaitReady(c), UNCHANGED plan
    PROVE  SessionInv'
<1>1. HasTurn(c) /\ cmd[c].pc = "ready" /\ side[c].ready # "owed"
    BY DEF AwaitReady, HasTurn
<1>2. ChildrenEnd /\ child' = child /\ UNCHANGED <<side, blame>>
    BY EndingChildren DEF AwaitReady, SessionInv
<1>3. Moved(c) /\ cmd'[c].pc = "done"
    BY GotoIsMove DEF SessionInv, CmdPcs, KillPcs, AwaitReady
<1>4. ~Owing(c)
    BY <1>1 DEF SessionInv, Sidecars, Sidecar, Owing
<1>5. CASE side[c].ready = "error" /\ files.crumb = NoCmd /\ at # 0
  <2>1. RemoveDir
    BY <1>5 DEF AwaitReady
  <2>2. side[c].pc \notin Holding
    BY <1>4, <1>5 DEF SessionInv, Sidecars, Sidecar, Owing
  <2>3. \A d \in Cmds : side[d].pc \notin Holding
    BY <1>1, <2>2 DEF SessionInv, Commands, Command
  <2>4. \A d \in Cmds : ~Owing(d)
    BY <1>1, <1>3, <1>4, NobodyElseBoots
  <2>5. \A d \in Cmds : side[d].pc \notin Holding \cup {"boot"}
    BY <2>3, <2>4 DEF SessionInv, Sidecars, Sidecar, Owing
  <2>6. \A d \in Cmds : side[d].pc = "dead" => child'[d] # "alive"
    BY <1>2, <1>5, NoCmdAssumption DEF SessionInv, Sidecars, Sidecar, Owing, Named
  <2> QED
    BY <1>1, <1>2, <1>3, <2>1, <2>5, <2>6, RemovalKeeps
<1>6. CASE ~(side[c].ready = "error" /\ files.crumb = NoCmd /\ at # 0)
  <2>1. Still
    BY <1>2, <1>6 DEF AwaitReady, Still
  <2>2. Command(c)'
    BY <1>3 DEF Command
  <2> QED
    BY <1>1, <1>2, <1>3, <1>4, <2>1, <2>2, MoveKeeps
<1> QED
    BY <1>5, <1>6

\* Reconciliation by status: a record without a sidecar is ended, and the one child that can
\* have been left is the one it names, or the breadcrumb while the record says Starting.
LEMMA ReconcileKeeps ==
    ASSUME SessionInv, NEW c \in Cmds, BeginStatus(c), UNCHANGED plan,
           files.status \in {"Starting", "Running"}, ~Locked
    PROVE  SessionInv'
<1>1. c \in Mutators
    BY DEF BeginStatus, Mutators
<1>2. HasTurn(c) /\ cmd[c].pc = "idle" /\ side[c].pc = "none"
    BY <1>1, BeginsInTurn, NotLaunched DEF BeginStatus
<1>3. /\ files' = [files EXCEPT !.status = "Ended"] /\ KillIf(LeftBehind)
      /\ Goto(c, "done") /\ UNCHANGED <<made, at, side, blame>>
    BY DEF BeginStatus, NoMeta
<1>4. Moved(c) /\ cmd'[c].pc = "done"
    BY <1>3, GotoIsMove DEF SessionInv, CmdPcs, KillPcs
<1>5. LeftBehind \in Runs /\ files.run # NoCmd /\ files \in Files
    BY DEF SessionInv, TypeOK, Files, Stages, LeftBehind
<1>6. ChildrenEnd /\ \A d \in Cmds : d = LeftBehind => child'[d] # "alive"
    BY <1>3, <1>5, KillIfType, EndingChildren DEF SessionInv
<1>7. /\ files' \in Files
      /\ files'.status = "Ended" /\ files'.run = files.run /\ files'.crumb = files.crumb
      /\ files'.how = files.how /\ files'.acted = files.acted /\ files'.req = files.req
      /\ files'.forced = files.forced /\ files'.reqForced = files.reqForced
    BY <1>3, <1>5 DEF Files
<1>8. \A d \in Cmds : side[d].pc \notin Holding
    BY UnlockedMeansNobody
<1>9. \A d \in Cmds : side[d].pc # "boot"
    BY DEF SessionInv, Stages, Stage, Waits, Fresh
<1>10. TypeOK'
    BY <1>3, <1>4, <1>6, <1>7 DEF SessionInv, TypeOK, Moved, CmdRecs, ChildrenEnd
<1>11. Turns'
    BY <1>2, <1>4, TurnsKept
<1>12. Sidecars'
  <2> SUFFICES ASSUME NEW d \in Cmds PROVE Sidecar(d)'
    BY DEF Sidecars
  <2>1. Sidecar(d) /\ Mutators' = Mutators
    BY <1>4 DEF SessionInv, Sidecars, Moved, Mutators, Kind
  <2>2. side[d].pc = "dead" => child'[d] # "alive"
    BY <1>6, <2>1 DEF Sidecar, Owing, Named, ChildrenEnd, LeftBehind
  <2> QED
    BY <1>2, <1>3, <1>4, <1>6, <1>8, <1>9, <2>1, <2>2
    DEF Sidecar, Moved, ChildrenEnd, Holding, Owing
<1>13. Locks'
    BY <1>3 DEF SessionInv, Locks
<1>14. Stages'
    BY <1>3, <1>5, <1>7, <1>8, <1>9 DEF SessionInv, Stages, Stage, Waits, Holding
<1>15. Commands'
  <2> SUFFICES ASSUME NEW m \in Cmds PROVE Command(m)'
    BY DEF Commands
  <2>1. CASE m = c
    BY <1>4, <2>1 DEF Command
  <2>2. CASE m # c
    <3>1. cmd'[m] = cmd[m] /\ cmd[m].pc \in {"idle", "mark", "request", "direct", "ask", "done"}
      BY <1>2, <1>4, <2>2, TurnsKept DEF Moved, SessionInv, Turns
    <3> QED
      BY <3>1 DEF Command
  <2> QED
    BY <2>1, <2>2
<1>16. Aimed'
  <2>1. \A h, r : Aimers(plan', cmd', h, r) = Aimers(plan, cmd, h, r)
    BY <1>4, AimersStand DEF SessionInv, TypeOK, CmdRecs
  <2> QED
    BY <1>3, <1>7, <2>1 DEF SessionInv, Aimed, Sought
<1>17. Marked'
  <2>1. \A k \in Cmds : Killer(k)'
    <3>1. made' >= made /\ made' \in Nat /\ at' = at /\ blame' = blame
      BY <1>3 DEF SessionInv, TypeOK
    <3> QED
      BY <1>4, <1>7, <3>1, KillersStand
  <2> QED
    BY <1>3, <1>4, <1>7, <2>1 DEF SessionInv, Marked, Moved
<1> QED
    BY <1>10, <1>11, <1>12, <1>13, <1>14, <1>15, <1>16, <1>17 DEF SessionInv

\* Any other status: at most it takes a directory without a record for an orphan's.
LEMMA StatusKeeps ==
    ASSUME SessionInv, NEW c \in Cmds, BeginStatus(c), UNCHANGED plan
    PROVE  SessionInv'
<1>1. CASE files.status \in {"Starting", "Running"} /\ ~Locked
    BY <1>1, ReconcileKeeps
<1>2. CASE ~(files.status \in {"Starting", "Running"} /\ ~Locked)
  <2>1. c \in Mutators
    BY DEF BeginStatus, Mutators
  <2>2. HasTurn(c) /\ cmd[c].pc = "idle" /\ side[c].pc = "none"
    BY <2>1, BeginsInTurn, NotLaunched DEF BeginStatus
  <2>3. Still /\ ChildrenEnd
    BY <1>2, EndingChildren DEF BeginStatus, Still, SessionInv
  <2>4. Moved(c) /\ cmd'[c].pc = IF at # 0 /\ NoMeta THEN "orphan" ELSE "done"
    BY GotoIsMove DEF SessionInv, CmdPcs, KillPcs, BeginStatus
  <2>5. NoMeta => \A d \in Cmds : side[d].pc \notin Holding
    BY <2>2, <2>4, NoMetaMeansNobody
  <2>6. Command(c)'
    BY <2>3, <2>4, <2>5 DEF Command, Still, NoMeta
  <2> QED
    BY <2>2, <2>3, <2>4, <2>6, MoveKeeps
<1> QED
    BY <1>1, <1>2

\* prune_sessions: nobody takes the lock between prune's look at it and the deletion.
LEMMA PruneKeeps ==
    ASSUME SessionInv, NEW c \in Cmds, BeginPrune(c) \/ PruneReads(c), UNCHANGED plan
    PROVE  SessionInv'
<1>1. HasTurn(c) /\ cmd[c].pc \in {"idle", "prune"} /\ side[c].pc = "none"
  <2>1. CASE BeginPrune(c)
    <3>1. c \in Mutators
      BY <2>1 DEF BeginPrune, Mutators
    <3> QED
      BY <2>1, <3>1, BeginsInTurn, NotLaunched DEF BeginPrune
  <2>2. CASE PruneReads(c)
    BY <2>2, NotLaunched DEF PruneReads, HasTurn
  <2> QED
    BY <2>1, <2>2
<1>2. Still /\ ChildrenEnd
    BY EndingChildren DEF BeginPrune, PruneReads, Still, SessionInv
<1>3. CASE BeginPrune(c)
  <2>1. Moved(c) /\ cmd'[c].pc = IF at # 0 /\ ~Locked THEN "prune" ELSE "done"
    BY <1>3, GotoIsMove DEF SessionInv, CmdPcs, KillPcs, BeginPrune
  <2>2. ~Locked => \A d \in Cmds : side[d].pc \notin Holding
    BY UnlockedMeansNobody
  <2>3. Command(c)'
    BY <1>2, <2>1, <2>2 DEF Command, Still
  <2> QED
    BY <1>1, <1>2, <2>1, <2>3, MoveKeeps
<1>4. CASE PruneReads(c)
  <2>1. Moved(c) /\ cmd'[c].pc = IF files.status = "Ended" THEN "discard" ELSE "done"
    BY <1>4, GotoIsMove DEF SessionInv, CmdPcs, KillPcs, PruneReads
  <2>2. \A d \in Cmds : side[d].pc \notin Holding
    BY <1>4 DEF SessionInv, Commands, Command, PruneReads
  <2>3. Command(c)'
    BY <1>2, <2>1, <2>2 DEF Command, Still
  <2> QED
    BY <1>1, <1>2, <2>1, <2>3, MoveKeeps
<1> QED
    BY <1>3, <1>4

\* The deletion itself: the record has ended, so no child is named in the directory.
LEMMA PruneRemovesKeeps ==
    ASSUME SessionInv, NEW c \in Cmds, PruneRemoves(c), UNCHANGED plan
    PROVE  SessionInv'
<1>1. HasTurn(c) /\ cmd[c].pc = "discard" /\ side[c].pc = "none"
    BY NotLaunched DEF PruneRemoves, HasTurn
<1>2. ChildrenEnd /\ child' = child /\ RemoveDir /\ UNCHANGED <<side, blame>>
    BY EndingChildren DEF PruneRemoves, SessionInv
<1>3. Moved(c) /\ cmd'[c].pc = "done"
    BY GotoIsMove DEF SessionInv, CmdPcs, KillPcs, PruneRemoves
<1>4. files.status = "Ended" /\ \A d \in Cmds : side[d].pc \notin Holding
    BY <1>1 DEF SessionInv, Commands, Command
<1>5. \A d \in Cmds : side[d].pc \notin Holding \cup {"boot"}
    BY <1>1, <1>3, <1>4, NobodyBoots
<1>6. \A d \in Cmds : side[d].pc = "dead" => child'[d] # "alive"
    BY <1>2, <1>4, EndedNamesNobody
<1> QED
    BY <1>1, <1>2, <1>3, <1>5, <1>6, RemovalKeeps

(***************************************************************************)
(* Kills                                                                   *)
(***************************************************************************)
\* A kill leaves marks and ends children: what the other commands and the sidecars go by
\* stands, whoever's turn it is.
LEMMA KillKeeps ==
    ASSUME SessionInv, NEW c \in Cmds, cmd[c].pc \in {"idle", "mark", "request", "direct", "ask"},
           cmd[c].pc = "idle" => c \notin Mutators,
           cmd' \in [Cmds -> CmdRecs], cmd'[c].pc \in {"mark", "request", "direct", "ask", "done"},
           \A d \in Cmds \ {c} : cmd'[d] = cmd[d],
           UNCHANGED <<plan, made, at, side>>, ChildrenEnd,
           blame' \in [Cmds -> [read : Nat, marked : Nat]],
           files' \in Files, files'.status = files.status, files'.run = files.run,
           files'.crumb = files.crumb,
           Aimed', Marked'
    PROVE  SessionInv'
<1>1. TypeOK'
    BY DEF SessionInv, TypeOK, CmdRecs, ChildrenEnd
<1>2. Turns'
    BY DEF SessionInv, Turns, Mutators, Kind
<1>3. Sidecars'
  <2> SUFFICES ASSUME NEW d \in Cmds PROVE Sidecar(d)'
    BY DEF Sidecars
  <2>1. Sidecar(d) /\ Mutators' = Mutators
    BY DEF SessionInv, Sidecars, Mutators, Kind
  <2>2. side[d].pc # "none" => d # c
    BY <2>1 DEF Sidecar, Owing
  <2> QED
    BY <2>1, <2>2 DEF Sidecar, ChildrenEnd, Named, Owing, Holding
<1>4. Locks'
    BY DEF SessionInv, Locks
<1>5. Stages'
    BY DEF SessionInv, Stages, Stage, Waits, Fresh
<1>6. Commands'
    BY DEF SessionInv, Commands, Command, Fresh
<1> QED
    BY <1>1, <1>2, <1>3, <1>4, <1>5, <1>6 DEF SessionInv

\* The kill reads its target, in the directory at the path.
LEMMA BeginKillKeeps ==
    ASSUME SessionInv, NEW c \in Cmds, BeginKill(c), UNCHANGED plan
    PROVE  SessionInv'
<1>1. files.run \in Cmds /\ files \in Files
    BY DEF SessionInv, TypeOK, Files, Stages, BeginKill, Runs
<1>2. cmd[c].pc = "idle" /\ c \notin Mutators
    BY DEF BeginKill, MayBegin, Mutators
<1>3. /\ cmd' \in [Cmds -> CmdRecs] /\ cmd'[c].pc \in {"mark", "request", "ask"}
      /\ cmd'[c].pc = "mark" => Kind[c] = "kill_force"
      /\ cmd'[c].target = files.run /\ \A d \in Cmds \ {c} : cmd'[d] = cmd[d]
  <2> DEFINE p == IF files.status = "Starting" THEN "ask"
                  ELSE IF Kind[c] = "kill_force" THEN "mark" ELSE "request"
             new == [cmd[c] EXCEPT !.pc = p, !.target = files.run]
  <2>1. cmd \in [Cmds -> CmdRecs]
    BY DEF SessionInv, TypeOK, CmdRecs
  <2>2. p \in {"mark", "request", "ask"} /\ (p = "mark" => Kind[c] = "kill_force")
    OBVIOUS
  <2>3. cmd' = [cmd EXCEPT ![c] = new]
    BY <2>1 DEF BeginKill
  <2> HIDE DEF p
  <2>4. new \in CmdRecs /\ new.pc = p /\ new.target = files.run
    BY <1>1, <2>1, <2>2 DEF CmdRecs, CmdPcs, Runs
  <2> HIDE DEF new
  <2> QED
    BY <2>1, <2>2, <2>3, <2>4
<1>4. /\ blame' \in [Cmds -> [read : Nat, marked : Nat]] /\ at \in Nat /\ at # 0
      /\ blame'[c].read = at /\ blame'[c].marked = blame[c].marked
      /\ \A k \in Cmds \ {c} : blame'[k] = blame[k]
  <2> DEFINE new == [blame[c] EXCEPT !.read = at]
  <2>1. at \in Nat /\ at # 0
    BY <1>1, NoCmdAssumption DEF SessionInv, TypeOK, Stages
  <2>2. new \in [read : Nat, marked : Nat] /\ new.read = at /\ new.marked = blame[c].marked
    BY <2>1 DEF SessionInv, TypeOK
  <2>3. blame' = [blame EXCEPT ![c] = new]
    BY DEF SessionInv, TypeOK, BeginKill
  <2> HIDE DEF new
  <2> QED
    BY <2>1, <2>2, <2>3 DEF SessionInv, TypeOK
<1>5. ChildrenEnd /\ UNCHANGED <<made, at, files, side>>
    BY EndingChildren DEF BeginKill, SessionInv
<1>6. Killer(c) /\ blame[c].marked = 0 /\ cmd[c].target = NoCmd
    BY <1>2 DEF SessionInv, Marked, Killer
<1>7. Aimed'
  <2>1. \A h, r : r # NoCmd => Aimers(plan, cmd, h, r) \subseteq Aimers(plan', cmd', h, r)
    BY <1>3, <1>6 DEF Aimers
  <2>2. \A h, r : Sought(plan, cmd, h, r) => Sought(plan', cmd', h, r)
    BY <2>1 DEF Sought
  <2> QED
    BY <1>5, <2>1, <2>2 DEF SessionInv, Aimed
<1>8. Marked'
  <2>1. Forcers(plan', blame', at') = Forcers(plan, blame, at)
    BY <1>4, <1>5 DEF Forcers
  <2>2. \A k \in Cmds \ {c} : Killer(k)'
    BY <1>3, <1>4, <1>5 DEF SessionInv, Marked, Killer, Kind
  <2>3. Killer(c)'
    <3>1. Kind[c] \in {"kill", "kill_force"} /\ (cmd'[c].pc = "mark" => Kind[c] = "kill_force")
      BY <1>3 DEF BeginKill
    <3>2. at <= made /\ files.run # NoCmd
      BY <1>1, NoCmdAssumption DEF SessionInv, TypeOK
    <3> QED
      BY <1>1, <1>3, <1>4, <1>5, <1>6, <3>1, <3>2 DEF Killer, Kind
  <2> QED
    BY <1>5, <2>1, <2>2, <2>3 DEF SessionInv, Marked
<1> QED
    BY <1>1, <1>2, <1>3, <1>4, <1>5, <1>7, <1>8, KillKeeps

\* The request follows the target that was read; the direct kill leaves or removes marks.
LEMMA KillSendsKeeps ==
    ASSUME SessionInv, NEW c \in Cmds, KillRequests(c) \/ KillEnds(c), UNCHANGED plan
    PROVE  SessionInv'
<1>1. /\ cmd[c].pc \in {"request", "direct", "ask"}
      /\ UNCHANGED <<made, at, side, blame>>
      /\ Goto(c, "direct") \/ Goto(c, "done")
    BY DEF KillRequests, KillEnds
<1>2. Moved(c) /\ cmd'[c].pc \in {"direct", "done"}
    BY <1>1, GotoIsMove DEF SessionInv, CmdPcs, KillPcs
<1>3. /\ files \in Files /\ cmd[c].target \in Runs /\ cmd \in [Cmds -> CmdRecs]
      /\ made \in Nat /\ made' >= made /\ blame \in [Cmds -> [read : Nat, marked : Nat]]
    BY <1>1 DEF SessionInv, TypeOK, CmdRecs
<1>4. ChildrenEnd
  <2>1. child' = child \/ KillIf(cmd[c].target)
    BY DEF KillRequests, KillEnds
  <2> QED
    BY <1>3, <2>1, EndingChildren DEF SessionInv
<1>5. /\ files' \in Files /\ files'.status = files.status /\ files'.run = files.run
      /\ files'.crumb = files.crumb /\ files'.how = files.how /\ files'.acted = files.acted
      /\ files'.forced => files.forced
      /\ files'.req # NoCmd /\ ~files'.reqForced =>
            \/ files'.req = files.req /\ files'.reqForced = files.reqForced
            \/ files'.req = cmd[c].target /\ Kind[c] # "kill_force"
      /\ files'.req # NoCmd /\ files'.reqForced =>
            \/ files'.req = files.req /\ files'.reqForced = files.reqForced
            \/ files'.req = cmd[c].target /\ Kind[c] = "kill_force"
  <2>1. CASE KillRequests(c)
    <3> DEFINE f == (Kind[c] = "kill_force")
    <3>1. f \in BOOLEAN
      OBVIOUS
    <3>3. files' = files \/ files' = [files EXCEPT !.req = cmd[c].target, !.reqForced = f]
      BY <2>1 DEF KillRequests
    <3>4. CASE files' = files
      BY <1>3, <3>4
    <3>5. CASE files' = [files EXCEPT !.req = cmd[c].target, !.reqForced = f]
      <4> HIDE DEF f
      <4>1. /\ files' \in Files /\ files'.status = files.status /\ files'.run = files.run
            /\ files'.crumb = files.crumb /\ files'.how = files.how /\ files'.acted = files.acted
            /\ files'.forced = files.forced /\ files'.req = cmd[c].target /\ files'.reqForced = f
        BY <1>3, <3>1, <3>5 DEF Files
      <4> QED
        BY <4>1 DEF f
    <3> QED
      BY <3>3, <3>4, <3>5
  <2>2. CASE KillEnds(c)
    <3> DEFINE g == files.forced /\ Kind[c] # "kill_force"
    <3>1. g \in BOOLEAN /\ (g => files.forced)
      BY <1>3 DEF Files
    <3>2. files' = files \/ files' = [files EXCEPT !.forced = g, !.req = NoCmd, !.reqForced = FALSE]
      BY <1>3, <2>2 DEF KillEnds, Files
    <3> HIDE DEF g
    <3>3. CASE files' = files
      BY <1>3, <3>3
    <3>4. CASE files' = [files EXCEPT !.forced = g, !.req = NoCmd, !.reqForced = FALSE]
      <4>1. NoCmd \in Runs
        BY DEF Runs
      <4> QED
        BY <1>3, <3>1, <3>4, <4>1 DEF Files
    <3> QED
      BY <3>2, <3>3, <3>4
  <2> QED
    BY <2>1, <2>2
<1>6. Aimed'
  <2>1. \A h, r : Aimers(plan', cmd', h, r) = Aimers(plan, cmd, h, r)
    BY <1>2, <1>3, AimersStand
  <2>2. c \in Aimers(plan, cmd, IF Kind[c] = "kill_force" THEN "kill_force" ELSE "kill", cmd[c].target)
    <3>1. Kind[c] \in {"kill", "kill_force"}
      BY <1>1 DEF SessionInv, Marked, Killer, KillPcs
    <3> QED
      BY <3>1 DEF Aimers, Kind
  <2>3. \A h, r : Sought(plan', cmd', h, r) <=> Sought(plan, cmd, h, r)
    BY <2>1 DEF Sought
  <2> QED
    BY <1>1, <1>5, <2>1, <2>2, <2>3 DEF SessionInv, Aimed
<1>7. Marked'
  <2>1. \A k \in Cmds : Killer(k)'
    BY <1>1, <1>2, <1>3, <1>5, KillersStand
  <2> QED
    BY <1>1, <1>2, <1>5, <2>1 DEF SessionInv, Marked, Moved
<1>8. blame' \in [Cmds -> [read : Nat, marked : Nat]]
    BY <1>1, <1>3
<1> QED
    BY <1>1, <1>2, <1>4, <1>5, <1>6, <1>7, <1>8, KillKeeps DEF Moved

\* The marker is left in whatever directory is at the path.
LEMMA KillMarksKeeps ==
    ASSUME SessionInv, NEW c \in Cmds, KillMarks(c), UNCHANGED plan
    PROVE  SessionInv'
<1>1. /\ cmd[c].pc = "mark" /\ UNCHANGED <<made, at, side, child>>
      /\ Goto(c, "request") /\ blame' = [blame EXCEPT ![c].marked = at]
    BY DEF KillMarks
<1>2. Moved(c) /\ cmd'[c].pc = "request"
    BY <1>1, GotoIsMove DEF SessionInv, CmdPcs, KillPcs
<1>3. /\ files \in Files /\ cmd \in [Cmds -> CmdRecs] /\ made \in Nat /\ at \in 0..made
      /\ blame \in [Cmds -> [read : Nat, marked : Nat]]
    BY DEF SessionInv, TypeOK, CmdRecs
<1>4. ChildrenEnd
    BY <1>1, EndingChildren DEF SessionInv
<1>5. /\ blame' \in [Cmds -> [read : Nat, marked : Nat]]
      /\ blame'[c].read = blame[c].read /\ blame'[c].marked = at
      /\ \A k \in Cmds \ {c} : blame'[k] = blame[k]
  <2> DEFINE new == [blame[c] EXCEPT !.marked = at]
  <2>1. new \in [read : Nat, marked : Nat] /\ new.read = blame[c].read /\ new.marked = at
    BY <1>3
  <2>2. blame' = [blame EXCEPT ![c] = new]
    BY <1>1, <1>3
  <2> HIDE DEF new
  <2> QED
    BY <1>3, <2>1, <2>2
<1>6. /\ files' \in Files /\ files'.status = files.status /\ files'.run = files.run
      /\ files'.crumb = files.crumb /\ files'.how = files.how /\ files'.acted = files.acted
      /\ files'.req = files.req /\ files'.reqForced = files.reqForced
      /\ at = 0 => files'.forced = files.forced
    BY <1>3 DEF KillMarks, Files
<1>7. Killer(c) /\ Kind[c] = "kill_force" /\ blame[c].read # 0 /\ plan' = plan
    BY <1>1, <1>2 DEF SessionInv, Marked, Killer, Moved
<1>8. Aimed'
  <2>1. \A h, r : Aimers(plan', cmd', h, r) = Aimers(plan, cmd, h, r)
    BY <1>2, <1>3, AimersStand
  <2> QED
    BY <1>1, <1>6, <2>1 DEF SessionInv, Aimed, Sought
<1>9. Marked'
  <2>1. CASE at = 0
    <3>1. Forcers(plan, blame, at) = {} /\ Forcers(plan', blame', at') = {}
      BY <1>1, <2>1 DEF Forcers
    <3>2. \A k \in Cmds : Killer(k)'
      BY <1>1, <1>2, <1>3, <1>5, <1>6, <1>7, <2>1, AimersStand DEF SessionInv, Marked, Killer, Kind
    <3> QED
      BY <1>1, <1>6, <2>1, <3>1, <3>2 DEF SessionInv, Marked
  <2>2. CASE at # 0
    <3>1. c \in Forcers(plan', blame', at')
      BY <1>1, <1>5, <1>7, <2>2 DEF Forcers, Kind
    <3>2. \A k \in Cmds : Killer(k)'
      <4> SUFFICES ASSUME NEW k \in Cmds PROVE Killer(k)'
        OBVIOUS
      <4>1. Killer(k) /\ cmd'[k].target = cmd[k].target
            /\ (cmd'[k].pc = "idle" => cmd[k].pc = "idle" /\ k # c)
            /\ (cmd'[k].pc \in KillPcs => cmd[k].pc \in KillPcs)
            /\ (cmd'[k].pc = "mark" => cmd[k].pc = "mark")
        BY <1>1, <1>2, <1>3, AimersStand DEF SessionInv, Marked
      <4> QED
        BY <1>1, <1>3, <1>5, <1>6, <1>7, <4>1 DEF Killer, Kind
    <3> QED
      BY <1>1, <3>1, <3>2 DEF SessionInv, Marked
  <2> QED
    BY <2>1, <2>2
<1> QED
    BY <1>1, <1>2, <1>4, <1>5, <1>6, <1>8, <1>9, KillKeeps DEF Moved

(***************************************************************************)
(* Sidecars                                                                *)
(***************************************************************************)
\* Types of the lock-file record of a sidecar's step.
Sided(c) ==
    /\ side' \in [Cmds -> SideRecs]
    /\ \A d \in Cmds \ {c} : side'[d] = side[d]

\* A sidecar at work has the name to itself, and no command is where it would delete.
LEMMA Alone ==
    ASSUME SessionInv, NEW c \in Cmds, side[c].pc \in Holding \cup {"boot"}
    PROVE  /\ at # 0 /\ cmd[c].pc \in {"ready", "done"}
           /\ \A d \in Cmds \ {c} : side[d].pc \notin Holding \cup {"boot"}
           /\ \A m \in Cmds \ {c} :
                 cmd[m].pc \notin {"orphan", "stale", "discard", "prune", "recreate", "launch", "ready"}
<1>1. at # 0
    BY DEF SessionInv, Locks, Stages, Stage, Waits, Fresh
<1>2. /\ c \in Mutators /\ cmd[c].pc \in {"ready", "done"}
      /\ \A d \in Cmds : side[d].pc = "boot" => d \in Mutators /\ cmd[d].pc = "ready"
    BY DEF SessionInv, Sidecars, Sidecar, Holding, Owing
<1>3. \A d \in Cmds \ {c} : side[d].pc \notin Holding
  <2>1. CASE side[c].pc \in Holding
    BY <2>1 DEF SessionInv, Locks
  <2>2. CASE side[c].pc = "boot"
    BY <1>2, <2>2 DEF SessionInv, Commands, Command
  <2> QED
    BY <2>1, <2>2
<1>4. \A d \in Cmds \ {c} : side[d].pc # "boot"
  <2> SUFFICES ASSUME NEW d \in Cmds \ {c}, side[d].pc = "boot" PROVE FALSE
    OBVIOUS
  <2>1. d \in Mutators /\ cmd[d].pc = "ready"
    BY <1>2
  <2>2. side[c].pc \notin Holding
    BY <2>1 DEF SessionInv, Commands, Command
  <2>3. cmd[c].pc = "ready"
    BY <1>2, <2>2
  <2> QED
    BY <1>2, <2>1, <2>3 DEF SessionInv, Turns
<1>5. \A m \in Cmds \ {c} :
         cmd[m].pc \notin {"orphan", "stale", "discard", "prune", "recreate", "launch", "ready"}
  <2> SUFFICES ASSUME NEW m \in Cmds \ {c},
                      cmd[m].pc \in {"orphan", "stale", "discard", "prune", "recreate", "launch", "ready"}
               PROVE FALSE
    OBVIOUS
  <2>1. m \in Mutators
    BY DEF SessionInv, Turns
  <2>2. side[c].pc \notin Holding
    BY DEF SessionInv, Commands, Command
  <2>3. cmd[c].pc = "ready"
    BY <1>2, <2>2
  <2> QED
    BY <1>2, <2>1, <2>3 DEF SessionInv, Turns
<1> QED
    BY <1>1, <1>2, <1>3, <1>4, <1>5

\* So a sidecar's step answers only for itself, for the children named in the files it
\* writes, and for whose kills the marks show.
LEMMA SideKeeps ==
    ASSUME SessionInv, NEW c \in Cmds, side[c].pc \in Holding \cup {"boot"},
           UNCHANGED <<plan, made, at, cmd, blame>>, Sided(c), files' \in Files,
           child' \in [Cmds -> {"none", "alive", "dead"}],
           \A d \in Cmds \ {c} : child'[d] = child[d],
           \A d \in Cmds \ {c} : Named(d) => Named(d)',
           files'.status # "Absent" <=> files'.run # NoCmd,
           Sidecar(c)', side'[c].pc # "none",
           IF side'[c].pc \in Holding THEN side'[c].lock = at ELSE side'[c].lock = 0,
           Stage(c)',
           Aimed', Marked'
    PROVE  SessionInv'
<1>0. /\ at # 0 /\ cmd[c].pc \in {"ready", "done"}
      /\ \A d \in Cmds \ {c} : side[d].pc \notin Holding \cup {"boot"}
      /\ \A m \in Cmds \ {c} :
            cmd[m].pc \notin {"orphan", "stale", "discard", "prune", "recreate", "launch", "ready"}
    BY Alone
<1>1. TypeOK'
    BY DEF SessionInv, TypeOK, Sided, SideRecs
<1>2. Turns'
    BY DEF SessionInv, Turns, Mutators, Kind
<1>3. Sidecars'
  <2> SUFFICES ASSUME NEW d \in Cmds, d # c PROVE Sidecar(d)'
    BY DEF Sidecars
  <2>1. Sidecar(d) /\ Mutators' = Mutators
    BY DEF SessionInv, Sidecars, Mutators, Kind
  <2> QED
    BY <2>1 DEF Sidecar, Owing, Sided
<1>4. Locks'
    BY <1>0 DEF SessionInv, Locks, Sided
<1>5. Stages'
  <2>1. \A d \in Cmds \ {c} : Stage(d)'
    BY <1>0 DEF Stage, Waits, Sided, Holding
  <2> QED
    BY <1>0, <2>1 DEF Stages
<1>6. Commands'
  <2> SUFFICES ASSUME NEW m \in Cmds PROVE Command(m)'
    BY DEF Commands
  <2>1. CASE m = c
    BY <1>0, <2>1 DEF Command, Sided
  <2>2. CASE m # c
    BY <1>0, <2>2 DEF Command
  <2> QED
    BY <2>1, <2>2
<1> QED
    BY <1>1, <1>2, <1>3, <1>4, <1>5, <1>6 DEF SessionInv

\* What the marks show stands through a step that adds none and says no more of them.
LEMMA MarksStand ==
    ASSUME SessionInv, NEW c \in Cmds, UNCHANGED <<plan, made, at, cmd, blame>>, Sided(c),
           files'.run = files.run \/ files.run = NoCmd,
           files'.forced => files.forced,
           \/ files'.how \in {files.how, "none"} \cup Refusals
           \/ side[c].pc = "record" /\ files'.how = side[c].how,
           side'[c].pc \in {"cleanUp", "record"} /\ side'[c].how = "KilledForced" =>
               files.forced \/ (side[c].pc = "cleanUp" /\ side[c].how = "KilledForced")
    PROVE  Marked'
<1>1. \A k \in Cmds : Killer(k)'
    BY DEF SessionInv, Marked, Killer, Kind
<1>2. \A d \in Cmds :
         side'[d].pc \in {"cleanUp", "record"} /\ side'[d].how = "KilledForced" =>
             Forcers(plan, blame, at) # {}
    BY DEF SessionInv, Marked, Sided
<1>3. files'.forced \/ files'.how = "KilledForced" => Forcers(plan, blame, at) # {}
    BY DEF SessionInv, Marked, Refusals
<1> QED
    BY <1>1, <1>2, <1>3 DEF SessionInv, Marked

\* A sidecar's record after a step that changes one point of it.
LEMMA SideGotoMoves ==
    ASSUME TypeOK, NEW c \in Cmds, NEW p \in SidePcs, SideGoto(c, p)
    PROVE  /\ Sided(c) /\ side'[c].pc = p /\ side'[c].lock = side[c].lock
           /\ side'[c].how = side[c].how /\ side'[c].ready = side[c].ready
<1> DEFINE new == [side[c] EXCEPT !.pc = p]
<1>1. side \in [Cmds -> SideRecs]
    BY DEF TypeOK, SideRecs
<1>2. /\ new \in SideRecs /\ new.pc = p /\ new.lock = side[c].lock
      /\ new.how = side[c].how /\ new.ready = side[c].ready
    BY <1>1 DEF SideRecs
<1>3. side' = [side EXCEPT ![c] = new]
    BY <1>1 DEF SideGoto
<1> HIDE DEF new
<1> QED
    BY <1>1, <1>2, <1>3 DEF Sided

\* What a sidecar knows of itself.
LEMMA Knows ==
    ASSUME SessionInv, NEW c \in Cmds
    PROVE  /\ Sidecar(c) /\ Stage(c) /\ child[c] \in {"none", "alive", "dead"}
           /\ side[c] \in SideRecs /\ files \in Files /\ c \in Runs /\ c # NoCmd
           /\ (files.status # "Absent" <=> files.run # NoCmd)
           /\ IF side[c].pc \in Holding THEN side[c].lock = at ELSE side[c].lock = 0
           /\ child \in [Cmds -> {"none", "alive", "dead"}]
BY NoCmdAssumption DEF SessionInv, Sidecars, Stages, TypeOK, SideRecs, Runs, Locks

\* Booting: the lock is free and the spec is there, or the sidecar gives up.
LEMMA SideBootsKeeps ==
    ASSUME SessionInv, NEW c \in Cmds, SideBoots(c), UNCHANGED plan
    PROVE  SessionInv'
<1>1. side[c].pc = "boot" /\ UNCHANGED <<plan, made, at, cmd, child, blame>>
    BY DEF SideBoots
<1>2. /\ Sidecar(c) /\ Stage(c) /\ files \in Files /\ side[c] \in SideRecs /\ Mutators' = Mutators
      /\ child \in [Cmds -> {"none", "alive", "dead"}] /\ side \in [Cmds -> SideRecs]
      /\ files.status # "Absent" <=> files.run # NoCmd
      /\ side[c].lock = 0
    BY <1>1, Knows DEF Mutators, Kind, Holding, SessionInv, TypeOK, SideRecs
<1>3. CASE /\ at # 0 /\ ~Locked /\ files.spec # NoCmd
           /\ files' = [files EXCEPT !.spec = NoCmd, !.gen = 0]
           /\ side' = [side EXCEPT ![c].pc = IF c \in plan.after THEN "starting" ELSE "spawn",
                                   ![c].lock = at,
                                   ![c].gen = IF files.gen = 0 THEN 1 ELSE files.gen]
  <2>1. /\ files' \in Files /\ files'.status = files.status /\ files'.run = files.run
        /\ files'.crumb = files.crumb /\ files'.how = files.how /\ files'.acted = files.acted
        /\ files'.req = files.req /\ files'.forced = files.forced
        /\ files'.reqForced = files.reqForced
    BY <1>2, <1>3 DEF Files, Runs
  <2>2. /\ Sided(c) /\ side'[c].pc \in {"starting", "spawn"} /\ side'[c].lock = at
        /\ side'[c].how = side[c].how /\ side'[c].ready = side[c].ready
    <3> DEFINE g == IF files.gen = 0 THEN 1 ELSE files.gen
               p == IF c \in plan.after THEN "starting" ELSE "spawn"
               new == [side[c] EXCEPT !.pc = p, !.lock = at, !.gen = g]
    <3>1. g \in Nat /\ at \in Nat /\ p \in {"starting", "spawn"}
      BY <1>2 DEF Files, SessionInv, TypeOK
    <3>2. side' = [side EXCEPT ![c] = new]
      BY <1>2, <1>3
    <3> HIDE DEF g, p
    <3>3. /\ new \in SideRecs /\ new.pc = p /\ new.lock = at
          /\ new.how = side[c].how /\ new.ready = side[c].ready
      BY <1>2, <3>1 DEF SideRecs, SidePcs
    <3> HIDE DEF new
    <3> QED
      BY <1>2, <3>1, <3>2, <3>3 DEF Sided
  <2>3. Sidecar(c)'
    BY <1>1, <1>2, <2>2 DEF Sidecar, Owing, Holding
  <2>4. Stage(c)' /\ \A d \in Cmds : Named(d) => Named(d)'
    BY <1>1, <1>2, <2>1, <2>2 DEF Sidecar, Owing, Stage, Waits, Fresh, Named
  <2>5. Aimed'
    BY <1>1, <2>1, <2>2 DEF SessionInv, Aimed, Sided, Sought
  <2>6. Marked'
    BY <1>1, <2>1, <2>2, MarksStand
  <2> QED
    BY <1>1, <1>2, <2>1, <2>2, <2>3, <2>4, <2>5, <2>6, SideKeeps DEF Holding
<1>4. CASE /\ side' = [side EXCEPT ![c].pc = "dead", ![c].ready = "error"]
           /\ UNCHANGED files
  <2>1. /\ Sided(c) /\ side'[c].pc = "dead" /\ side'[c].lock = 0 /\ side'[c].how = side[c].how
    <3> DEFINE new == [side[c] EXCEPT !.pc = "dead", !.ready = "error"]
    <3>1. new \in SideRecs /\ new.pc = "dead" /\ new.lock = 0 /\ new.how = side[c].how
      BY <1>2 DEF SideRecs, SidePcs
    <3>2. side' = [side EXCEPT ![c] = new]
      BY <1>2, <1>4
    <3> HIDE DEF new
    <3> QED
      BY <1>2, <3>1, <3>2 DEF Sided
  <2>2. Sidecar(c)'
    BY <1>1, <1>2, <2>1 DEF Sidecar, Owing, Holding
  <2>3. Stage(c)' /\ \A d \in Cmds : Named(d) => Named(d)'
    BY <1>1, <1>4, <2>1 DEF Stage, Waits, Named
  <2>4. Aimed'
    BY <1>1, <1>4, <2>1 DEF SessionInv, Aimed, Sided, Sought
  <2>5. Marked'
    BY <1>1, <1>4, <2>1, MarksStand
  <2> QED
    BY <1>1, <1>2, <1>4, <2>1, <2>2, <2>3, <2>4, <2>5, SideKeeps DEF Holding
<1> QED
    BY <1>3, <1>4 DEF SideBoots

\* The child exists from the spawn, and is nobody's but this sidecar's to tell of.
LEMMA SideSpawnsKeeps ==
    ASSUME SessionInv, NEW c \in Cmds, SideSpawns(c), UNCHANGED plan
    PROVE  SessionInv'
<1>1. /\ side[c].pc = "spawn" /\ UNCHANGED <<plan, made, at, files, cmd, blame>>
      /\ child' = [child EXCEPT ![c] = "alive"]
    BY DEF SideSpawns
<1>2. /\ Sidecar(c) /\ Stage(c) /\ files \in Files /\ Mutators' = Mutators
      /\ child \in [Cmds -> {"none", "alive", "dead"}]
      /\ files.status # "Absent" <=> files.run # NoCmd
      /\ side[c].lock = at
    BY <1>1, Knows DEF Mutators, Kind, Holding
<1>3. /\ Sided(c) /\ side'[c].pc = "crumb" /\ side'[c].lock = side[c].lock
      /\ side'[c].how = side[c].how /\ side'[c].ready = side[c].ready
    BY SideGotoMoves DEF SideSpawns, SidePcs, SessionInv
<1>4. Sidecar(c)'
    BY <1>1, <1>2, <1>3 DEF Sidecar, Owing, Holding
<1>5. Stage(c)' /\ \A d \in Cmds : Named(d) => Named(d)'
    BY <1>1, <1>2, <1>3 DEF Stage, Fresh, Waits, Named
<1>6. Aimed'
    BY <1>1, <1>3 DEF SessionInv, Aimed, Sided, Sought
<1>7. Marked'
    BY <1>1, <1>3, MarksStand
<1> QED
    BY <1>1, <1>2, <1>3, <1>4, <1>5, <1>6, <1>7, SideKeeps DEF Holding

\* Nobody but this sidecar's child can be named while it holds the lock with its record or
\* its breadcrumb in the directory, or with neither.
LEMMA NamedIsOwn ==
    ASSUME SessionInv, NEW c \in Cmds, side[c].pc \in Holding, NEW d \in Cmds \ {c}
    PROVE  ~Named(d)
<1>1. Stage(c) /\ d # NoCmd
    BY Knows
<1> QED
    BY <1>1 DEF Stage, Fresh, Waits, Named, Holding

\* The steps of a lock holder that leave the commands, the path and the blame alone.
LEMMA HolderKeeps ==
    ASSUME SessionInv, NEW c \in Cmds, side[c].pc \in Holding,
           UNCHANGED <<plan, made, at, cmd, blame>>, Sided(c), files' \in Files,
           child' \in [Cmds -> {"none", "alive", "dead"}],
           \A d \in Cmds \ {c} : child'[d] = child[d],
           files'.status # "Absent" <=> files'.run # NoCmd,
           side'[c].pc \in Holding, side'[c].lock = side[c].lock,
           Sidecar(c)', Stage(c)', Aimed', Marked'
    PROVE  SessionInv'
<1>1. \A d \in Cmds \ {c} : Named(d) => Named(d)'
    BY NamedIsOwn
<1>2. side[c].lock = at
    BY Knows
<1>3. side'[c].pc # "none"
    BY DEF Holding
<1> QED
    BY <1>1, <1>2, <1>3, SideKeeps

\* The Starting record of a run with dependencies.
LEMMA SideStartsKeeps ==
    ASSUME SessionInv, NEW c \in Cmds, SideStarts(c), UNCHANGED plan
    PROVE  SessionInv'
<1>1. side[c].pc = "starting" /\ UNCHANGED <<plan, made, at, cmd, child, blame>>
    BY DEF SideStarts
<1>2. /\ Sidecar(c) /\ Stage(c) /\ files \in Files /\ Mutators' = Mutators /\ c \in Runs /\ c # NoCmd
      /\ child \in [Cmds -> {"none", "alive", "dead"}]
      /\ side[c].gen \in Nat
    BY <1>1, Knows DEF Mutators, Kind, SideRecs
<1>3. at # 0
    BY <1>1, Alone DEF Holding
<1>4. /\ files' = [files EXCEPT !.status = "Starting", !.run = c, !.how = "none",
                                !.metaGen = side[c].gen]
      /\ SideGoto(c, "scan")
    BY <1>3 DEF SideStarts
<1>5. /\ Sided(c) /\ side'[c].pc = "scan" /\ side'[c].lock = side[c].lock
      /\ side'[c].how = side[c].how /\ side'[c].ready = side[c].ready
    BY <1>4, SideGotoMoves DEF SidePcs, SessionInv
<1>6. /\ files' \in Files /\ files'.status = "Starting" /\ files'.run = c
      /\ files'.crumb = files.crumb /\ files'.how = "none" /\ files'.acted = files.acted
      /\ files'.req = files.req /\ files'.forced = files.forced
      /\ files'.reqForced = files.reqForced
    BY <1>2, <1>4 DEF Files, Hows
<1>7. Sidecar(c)'
    BY <1>1, <1>2, <1>5 DEF Sidecar, Owing, Holding
<1>8. Stage(c)'
    BY <1>1, <1>2, <1>5, <1>6 DEF Stage, Fresh, Waits
<1>9. files.run = NoCmd
    BY <1>1, <1>2 DEF Stage, Waits, Fresh
<1>10. Aimed'
    BY <1>1, <1>5, <1>6, <1>9 DEF SessionInv, Aimed, Sided, Sought
<1>11. Marked'
    BY <1>1, <1>5, <1>6, <1>9, MarksStand
<1> QED
    BY <1>1, <1>2, <1>5, <1>6, <1>7, <1>8, <1>10, <1>11, HolderKeeps DEF Holding

\* A request ends the wait only of the run that it names.
LEMMA SideHeedsKeeps ==
    ASSUME SessionInv, NEW c \in Cmds, SideHeeds(c), UNCHANGED plan
    PROVE  SessionInv'
<1>1. /\ side[c].pc \in {"scan", "poll"} /\ files.req # NoCmd
      /\ files' = [files EXCEPT !.req = NoCmd, !.reqForced = FALSE]
      /\ UNCHANGED <<plan, made, at, cmd, child, blame>>
    BY DEF SideHeeds, NoRequest
<1>2. /\ Sidecar(c) /\ Stage(c) /\ files \in Files /\ Mutators' = Mutators /\ c \in Runs /\ c # NoCmd
      /\ child \in [Cmds -> {"none", "alive", "dead"}] /\ side[c] \in SideRecs
      /\ files.status # "Absent" <=> files.run # NoCmd
    BY <1>1, Knows DEF Mutators, Kind
<1>3. /\ files' \in Files /\ files'.status = files.status /\ files'.run = files.run
      /\ files'.crumb = files.crumb /\ files'.how = files.how /\ files'.req = NoCmd
      /\ files'.acted = files.acted /\ files'.forced = files.forced
    BY <1>1, <1>2 DEF Files, Runs
<1>4. side \in [Cmds -> SideRecs]
    BY DEF SessionInv, TypeOK, SideRecs
<1>5. /\ Sided(c) /\ side'[c].lock = side[c].lock /\ side'[c].ready = side[c].ready
      /\ \/ side'[c].pc = side[c].pc /\ side'[c].how = side[c].how
         \/ /\ side'[c].pc = "refuse" /\ files.req = c
            /\ side'[c].how = IF files.reqForced THEN "DepKilledForced" ELSE "DepKilled"
  <2>1. CASE files.req # c
    BY <1>4, <2>1 DEF SideHeeds, Sided
  <2>2. CASE files.req = c
    <3> DEFINE h == IF files.reqForced THEN "DepKilledForced" ELSE "DepKilled"
               new == [side[c] EXCEPT !.pc = "refuse", !.how = h]
    <3>1. h \in Hows
      BY DEF Hows, Refusals
    <3>2. side' = [side EXCEPT ![c] = new]
      BY <1>4, <2>2 DEF SideHeeds
    <3> HIDE DEF h
    <3>3. /\ new \in SideRecs /\ new.pc = "refuse" /\ new.how = h
          /\ new.lock = side[c].lock /\ new.ready = side[c].ready
      BY <1>2, <3>1 DEF SideRecs, SidePcs
    <3> HIDE DEF new
    <3>4. Sided(c) /\ side'[c] = new
      BY <1>4, <3>2, <3>3 DEF Sided
    <3> QED
      BY <2>2, <3>3, <3>4 DEF h
  <2> QED
    BY <2>1, <2>2
<1>6. Sidecar(c)'
    BY <1>1, <1>2, <1>5 DEF Sidecar, Owing, Holding, Refusals
<1>7. Stage(c)'
    BY <1>1, <1>2, <1>3, <1>5 DEF Stage, Waits
<1>8. Aimed'
  <2>1. Sought(plan, cmd, side'[c].how, c)
    BY <1>2, <1>5 DEF SessionInv, Aimed, Sought
  <2>2. \A d \in Cmds \ {c} : Sought(plan, cmd, side'[d].how, d)
    BY <1>5 DEF SessionInv, Aimed, Sided
  <2> QED
    BY <1>1, <1>3, <2>1, <2>2 DEF SessionInv, Aimed
<1>9. Marked'
    BY <1>1, <1>3, <1>5, MarksStand
<1> QED
    BY <1>1, <1>2, <1>3, <1>5, <1>6, <1>7, <1>8, <1>9, HolderKeeps DEF Holding

\* The wait goes on, or is over: the dependencies are in, or refuse the run.
LEMMA ScansKeep ==
    ASSUME SessionInv, NEW c \in Cmds, SideScans(c) \/ DependenciesResolve(c), UNCHANGED plan
    PROVE  SessionInv'
<1>1. /\ side[c].pc \in {"scan", "poll"}
      /\ UNCHANGED <<plan, made, at, files, cmd, child, blame>>
    BY DEF SideScans, DependenciesResolve
<1>2. /\ Sidecar(c) /\ Stage(c) /\ files \in Files /\ Mutators' = Mutators
      /\ child \in [Cmds -> {"none", "alive", "dead"}] /\ side[c] \in SideRecs
      /\ files.status # "Absent" <=> files.run # NoCmd
    BY <1>1, Knows DEF Mutators, Kind
<1>3. side \in [Cmds -> SideRecs]
    BY DEF SessionInv, TypeOK, SideRecs
<1>4. /\ Sided(c) /\ side'[c].lock = side[c].lock
      /\ \/ side'[c].pc = "refuse" /\ side'[c].how = "DepFailed" /\ side'[c].ready = side[c].ready
         \/ side'[c].pc \in {"poll", "spawn"} /\ side'[c].how = side[c].how /\ side'[c].ready = "ok"
  <2>1. ASSUME side' = [side EXCEPT ![c].pc = "refuse", ![c].how = "DepFailed"]
        PROVE  /\ Sided(c) /\ side'[c].lock = side[c].lock
               /\ side'[c].pc = "refuse" /\ side'[c].how = "DepFailed" /\ side'[c].ready = side[c].ready
    <3> DEFINE new == [side[c] EXCEPT !.pc = "refuse", !.how = "DepFailed"]
    <3>1. /\ new \in SideRecs /\ new.pc = "refuse" /\ new.how = "DepFailed"
          /\ new.lock = side[c].lock /\ new.ready = side[c].ready
      BY <1>2 DEF SideRecs, SidePcs, Hows, Refusals
    <3>2. side' = [side EXCEPT ![c] = new]
      BY <1>3, <2>1
    <3> HIDE DEF new
    <3> QED
      BY <1>3, <3>1, <3>2 DEF Sided
  <2>2. ASSUME NEW p \in {"poll", "spawn"}, side' = [side EXCEPT ![c].pc = p, ![c].ready = "ok"]
        PROVE  /\ Sided(c) /\ side'[c].lock = side[c].lock
               /\ side'[c].pc = p /\ side'[c].how = side[c].how /\ side'[c].ready = "ok"
    <3> DEFINE new == [side[c] EXCEPT !.pc = p, !.ready = "ok"]
    <3>1. /\ new \in SideRecs /\ new.pc = p /\ new.how = side[c].how
          /\ new.lock = side[c].lock /\ new.ready = "ok"
      BY <1>2 DEF SideRecs, SidePcs
    <3>2. side' = [side EXCEPT ![c] = new]
      BY <1>3, <2>2
    <3> HIDE DEF new
    <3> QED
      BY <1>3, <3>1, <3>2 DEF Sided
  <2>3. ASSUME DependenciesResolve(c), SideGoto(c, "spawn")
        PROVE  /\ Sided(c) /\ side'[c].lock = side[c].lock
               /\ side'[c].pc = "spawn" /\ side'[c].how = side[c].how /\ side'[c].ready = "ok"
    <3>1. side[c].ready = "ok"
      BY <1>2, <2>3 DEF DependenciesResolve, Sidecar, Owing
    <3> QED
      BY <2>3, <3>1, SideGotoMoves DEF SidePcs, SessionInv
  <2>4. \/ side' = [side EXCEPT ![c].pc = "refuse", ![c].how = "DepFailed"]
        \/ \E p \in {"poll", "spawn"} : side' = [side EXCEPT ![c].pc = p, ![c].ready = "ok"]
        \/ DependenciesResolve(c) /\ SideGoto(c, "spawn")
    BY DEF SideScans, DependenciesResolve
  <2> QED
    BY <2>1, <2>2, <2>3, <2>4
<1>5. Sidecar(c)'
    BY <1>1, <1>2, <1>4 DEF Sidecar, Owing, Holding, Refusals
<1>6. Stage(c)'
    BY <1>1, <1>2, <1>4 DEF Stage, Waits
<1>7. Aimed'
  <2>1. Sought(plan, cmd, side'[c].how, c)
    BY <1>4 DEF SessionInv, Aimed, Sought
  <2>2. \A d \in Cmds \ {c} : Sought(plan, cmd, side'[d].how, d)
    BY <1>4 DEF SessionInv, Aimed, Sided
  <2> QED
    BY <1>1, <2>1, <2>2 DEF SessionInv, Aimed
<1>8. Marked'
    BY <1>1, <1>4, MarksStand
<1> QED
    BY <1>1, <1>2, <1>4, <1>5, <1>6, <1>7, <1>8, HolderKeeps DEF Holding

\* A wait that ended badly is recorded as the run's end.
LEMMA SideRefusesKeeps ==
    ASSUME SessionInv, NEW c \in Cmds, SideRefuses(c), UNCHANGED plan
    PROVE  SessionInv'
<1>1. side[c].pc = "refuse" /\ UNCHANGED <<plan, cmd, child, blame>>
    BY DEF SideRefuses
<1>2. /\ Sidecar(c) /\ Stage(c) /\ files \in Files /\ Mutators' = Mutators /\ c \in Runs /\ c # NoCmd
      /\ child \in [Cmds -> {"none", "alive", "dead"}]
      /\ side[c].gen \in Nat /\ side[c].how \in Hows /\ side[c].ready \in {"owed", "ok", "error"}
    BY <1>1, Knows DEF Mutators, Kind, SideRecs
<1>3. /\ Sided(c) /\ side'[c].pc = (IF side[c].ready = "owed" THEN "tell" ELSE "release")
      /\ side'[c].lock = side[c].lock /\ side'[c].how = side[c].how /\ side'[c].ready = side[c].ready
    BY SideGotoMoves DEF SideRefuses, SidePcs, SessionInv
<1>4. at # 0
    BY <1>1, Alone DEF Holding
<1>5. /\ files' = [files EXCEPT !.status = "Ended", !.run = c, !.how = side[c].how,
                                !.metaGen = side[c].gen]
      /\ UNCHANGED <<made, at>>
    BY <1>4 DEF SideRefuses, EmitThenWrite
<1>6. /\ files' \in Files /\ files'.status = "Ended" /\ files'.run = c
      /\ files'.how = side[c].how /\ files'.acted = files.acted /\ files'.req = files.req
      /\ files'.forced = files.forced /\ files'.reqForced = files.reqForced
    BY <1>2, <1>5 DEF Files
<1>7. Sidecar(c)'
    BY <1>1, <1>2, <1>3 DEF Sidecar, Owing, Holding
<1>8. Stage(c)'
    BY <1>1, <1>2, <1>3, <1>6 DEF Stage, Waits
<1>9. files.run = c /\ side[c].how \in Refusals
    BY <1>1, <1>2 DEF Stage, Waits, Sidecar, Owing
<1>10. Aimed'
    BY <1>1, <1>2, <1>3, <1>6, <1>9 DEF SessionInv, Aimed, Sided
<1>11. Marked'
    BY <1>1, <1>3, <1>5, <1>6, <1>9, MarksStand
<1> QED
    BY <1>1, <1>2, <1>3, <1>5, <1>6, <1>7, <1>8, <1>10, <1>11, HolderKeeps DEF Holding

\* The breadcrumb names the child before anything else does.
LEMMA SideCrumbsKeeps ==
    ASSUME SessionInv, NEW c \in Cmds, SideCrumbs(c), UNCHANGED plan
    PROVE  SessionInv'
<1>1. side[c].pc = "crumb" /\ UNCHANGED <<plan, made, at, cmd, child, blame>>
    BY DEF SideCrumbs
<1>2. /\ Sidecar(c) /\ Stage(c) /\ files \in Files /\ Mutators' = Mutators /\ c \in Runs
      /\ child \in [Cmds -> {"none", "alive", "dead"}]
      /\ files.status # "Absent" <=> files.run # NoCmd
    BY <1>1, Knows DEF Mutators, Kind
<1>3. /\ Sided(c) /\ side'[c].pc = "publish" /\ side'[c].lock = side[c].lock
      /\ side'[c].how = side[c].how /\ side'[c].ready = side[c].ready
    BY SideGotoMoves DEF SideCrumbs, SidePcs, SessionInv
<1>4. at # 0 /\ files' = [files EXCEPT !.crumb = c]
    BY <1>1, Alone DEF SideCrumbs, Holding
<1>5. /\ files' \in Files /\ files'.status = files.status /\ files'.run = files.run
      /\ files'.crumb = c /\ files'.how = files.how /\ files'.acted = files.acted
      /\ files'.req = files.req /\ files'.forced = files.forced
      /\ files'.reqForced = files.reqForced
    BY <1>2, <1>4 DEF Files
<1>6. Sidecar(c)'
    BY <1>1, <1>2, <1>3 DEF Sidecar, Owing, Holding
<1>7. Stage(c)'
    BY <1>1, <1>2, <1>3, <1>5 DEF Stage, Fresh, Waits
<1>8. Aimed'
    BY <1>1, <1>3, <1>5 DEF SessionInv, Aimed, Sided, Sought
<1>9. Marked'
    BY <1>1, <1>3, <1>5, MarksStand
<1> QED
    BY <1>1, <1>2, <1>3, <1>5, <1>6, <1>7, <1>8, <1>9, HolderKeeps DEF Holding

\* Publishing the record.  The lock is of the directory at the path, so the write makes none.
LEMMA SidePublishesKeeps ==
    ASSUME SessionInv, NEW c \in Cmds, SidePublishes(c), UNCHANGED plan
    PROVE  SessionInv'
<1>1. side[c].pc = "publish" /\ UNCHANGED <<plan, cmd, child, blame>>
    BY DEF SidePublishes
<1>2. /\ Sidecar(c) /\ Stage(c) /\ files \in Files /\ Mutators' = Mutators /\ c \in Runs /\ c # NoCmd
      /\ child \in [Cmds -> {"none", "alive", "dead"}]
      /\ side[c].gen \in Nat
    BY <1>1, Knows DEF Mutators, Kind, SideRecs
<1>3. /\ Sided(c) /\ side'[c].pc = "ready" /\ side'[c].lock = side[c].lock
      /\ side'[c].how = side[c].how /\ side'[c].ready = side[c].ready
    BY SideGotoMoves DEF SidePublishes, SidePcs, SessionInv
<1>4. at # 0
    BY <1>1, Alone DEF Holding
<1>5. /\ files' = [files EXCEPT !.status = "Running", !.run = c, !.how = "none",
                                !.metaGen = side[c].gen]
      /\ UNCHANGED <<made, at>>
    BY <1>4 DEF SidePublishes, EmitThenWrite
<1>6. /\ files' \in Files /\ files'.status = "Running" /\ files'.run = c
      /\ files'.crumb = files.crumb /\ files'.how = "none" /\ files'.acted = files.acted
      /\ files'.req = files.req /\ files'.forced = files.forced
      /\ files'.reqForced = files.reqForced
    BY <1>2, <1>5 DEF Files, Hows
<1>7. Sidecar(c)'
    BY <1>1, <1>2, <1>3 DEF Sidecar, Owing, Holding
<1>8. Stage(c)'
    BY <1>1, <1>2, <1>3, <1>6 DEF Stage, Waits
<1>9. files.run \in {NoCmd, c}
    BY <1>1, <1>2 DEF Stage, Waits
<1>10. Aimed'
    BY <1>1, <1>3, <1>6, <1>9 DEF SessionInv, Aimed, Sided, Sought
<1>11. Marked'
    BY <1>1, <1>3, <1>5, <1>6, <1>9, MarksStand
<1> QED
    BY <1>1, <1>2, <1>3, <1>5, <1>6, <1>7, <1>8, <1>10, <1>11, HolderKeeps DEF Holding

\* The answer to the client, of a run that is running or was refused.
LEMMA SideReadyKeeps ==
    ASSUME SessionInv, NEW c \in Cmds, SideReady(c) \/ SideTells(c), UNCHANGED plan
    PROVE  SessionInv'
<1> DEFINE p == IF side[c].pc = "ready" THEN "supervise" ELSE "release"
<1>1. /\ side[c].pc \in {"ready", "tell"}
      /\ UNCHANGED <<plan, made, at, files, cmd, child, blame>>
    BY DEF SideReady, SideTells
<1>2. /\ Sidecar(c) /\ Stage(c) /\ files \in Files /\ Mutators' = Mutators
      /\ child \in [Cmds -> {"none", "alive", "dead"}] /\ side[c] \in SideRecs
      /\ files.status # "Absent" <=> files.run # NoCmd
    BY <1>1, Knows DEF Mutators, Kind
<1>3. /\ Sided(c) /\ side'[c].pc = p /\ side'[c].lock = side[c].lock
      /\ side'[c].how = side[c].how /\ side'[c].ready = "ok"
  <2>0. p \in SidePcs /\ side' = [side EXCEPT ![c].pc = p, ![c].ready = "ok"]
    BY DEF SideReady, SideTells, SidePcs
  <2> HIDE DEF p
  <2> DEFINE new == [side[c] EXCEPT !.pc = p, !.ready = "ok"]
  <2>1. side \in [Cmds -> SideRecs]
    BY DEF SessionInv, TypeOK, SideRecs
  <2>2. /\ new \in SideRecs /\ new.pc = p /\ new.lock = side[c].lock
        /\ new.how = side[c].how /\ new.ready = "ok"
    BY <1>2, <2>0 DEF SideRecs
  <2>3. side' = [side EXCEPT ![c] = new]
    BY <2>0, <2>1
  <2> HIDE DEF new
  <2> QED
    BY <2>1, <2>2, <2>3 DEF Sided
<1>4. Sidecar(c)'
    BY <1>1, <1>2, <1>3 DEF Sidecar, Owing, Holding
<1>5. Stage(c)'
    BY <1>1, <1>2, <1>3 DEF Stage, Waits
<1>6. Aimed'
    BY <1>1, <1>3 DEF SessionInv, Aimed, Sided
<1>7. Marked'
    BY <1>1, <1>3, MarksStand
<1> QED
    BY <1>1, <1>2, <1>3, <1>4, <1>5, <1>6, <1>7, HolderKeeps DEF Holding

\* The watcher marks the run killed only on a request that named it.
LEMMA SideWatchesKeeps ==
    ASSUME SessionInv, NEW c \in Cmds, SideWatches(c), UNCHANGED plan
    PROVE  SessionInv'
<1>1. side[c].pc = "supervise" /\ UNCHANGED <<plan, made, at, cmd, side, blame>>
    BY DEF SideWatches
<1>2. /\ Sidecar(c) /\ Stage(c) /\ files \in Files /\ Mutators' = Mutators /\ c \in Runs /\ c # NoCmd
      /\ files.run = c
      /\ files.status # "Absent" <=> files.run # NoCmd
    BY <1>1, Knows DEF Mutators, Kind, Stage, Waits
<1>3. /\ child' \in [Cmds -> {"none", "alive", "dead"}]
      /\ \A d \in Cmds \ {c} : child'[d] = child[d]
    BY Knows DEF SideWatches, KillIf
<1>4. Sided(c)
    BY <1>1 DEF Sided, SessionInv, TypeOK, SideRecs
<1> DEFINE a == files.acted \/ (files.req = c /\ ~files.reqForced)
<1>5. a \in BOOLEAN /\ (a => files.acted \/ (files.req = c /\ ~files.reqForced))
    BY <1>2 DEF Files
<1>6. files' = [files EXCEPT !.req = NoCmd, !.reqForced = FALSE, !.acted = a]
    BY <1>2 DEF SideWatches
<1> HIDE DEF a
<1>7. /\ files' \in Files /\ files'.status = files.status /\ files'.run = files.run
      /\ files'.crumb = files.crumb /\ files'.how = files.how /\ files'.req = NoCmd
      /\ files'.acted = a /\ files'.forced = files.forced
    BY <1>2, <1>5, <1>6 DEF Files, Runs
<1>8. Sidecar(c)'
    BY <1>1, <1>2 DEF Sidecar, Owing, Holding
<1>9. Stage(c)'
    BY <1>1, <1>2, <1>7 DEF Stage, Waits
<1>10. Aimed'
  <2>1. files'.acted => Aimers(plan, cmd, "kill", c) # {}
    BY <1>2, <1>5, <1>7 DEF SessionInv, Aimed, Sought
  <2> QED
    BY <1>1, <1>2, <1>7, <2>1 DEF SessionInv, Aimed, Sought
<1>11. Marked'
    BY <1>1, <1>2, <1>4, <1>7, MarksStand
<1> QED
    BY <1>1, <1>2, <1>3, <1>4, <1>7, <1>8, <1>9, <1>10, <1>11, HolderKeeps DEF Holding

\* Observing the exit.
LEMMA SideObservesKeeps ==
    ASSUME SessionInv, NEW c \in Cmds, SideObserves(c), UNCHANGED plan
    PROVE  SessionInv'
<1>1. /\ side[c].pc = "supervise" /\ child[c] = "dead"
      /\ UNCHANGED <<plan, made, at, files, cmd, child, blame>>
    BY DEF SideObserves
<1>2. /\ Sidecar(c) /\ Stage(c) /\ files \in Files /\ Mutators' = Mutators
      /\ child \in [Cmds -> {"none", "alive", "dead"}]
      /\ files.status # "Absent" <=> files.run # NoCmd
    BY <1>1, Knows DEF Mutators, Kind
<1>3. /\ Sided(c) /\ side'[c].pc = "classify" /\ side'[c].lock = side[c].lock
      /\ side'[c].how = side[c].how /\ side'[c].ready = side[c].ready
    BY SideGotoMoves DEF SideObserves, SidePcs, SessionInv
<1>4. Sidecar(c)'
    BY <1>1, <1>2, <1>3 DEF Sidecar, Owing, Holding
<1>5. Stage(c)'
    BY <1>1, <1>2, <1>3 DEF Stage, Waits
<1>6. Aimed'
    BY <1>1, <1>3 DEF SessionInv, Aimed, Sided, Sought
<1>7. Marked'
    BY <1>1, <1>3, MarksStand
<1> QED
    BY <1>1, <1>2, <1>3, <1>4, <1>5, <1>6, <1>7, HolderKeeps DEF Holding

\* A run is classified as killed by the mark in its own directory.
LEMMA SideClassifiesKeeps ==
    ASSUME SessionInv, NEW c \in Cmds, SideClassifies(c), UNCHANGED plan
    PROVE  SessionInv'
<1>1. /\ side[c].pc = "classify"
      /\ UNCHANGED <<plan, made, at, files, cmd, child, blame>>
    BY DEF SideClassifies
<1>2. /\ Sidecar(c) /\ Stage(c) /\ files \in Files /\ Mutators' = Mutators
      /\ child \in [Cmds -> {"none", "alive", "dead"}] /\ side[c] \in SideRecs
      /\ files.status # "Absent" <=> files.run # NoCmd
    BY <1>1, Knows DEF Mutators, Kind
<1>3. PICK h \in Hows : /\ side' = [side EXCEPT ![c].pc = "cleanUp", ![c].how = h]
                        /\ h \notin Refusals
                        /\ h = "Killed" => files.acted
                        /\ h = "KilledForced" => files.forced
  <2>0. {"KilledForced", "Killed", "Raw"} \subseteq Hows \ Refusals
    BY DEF Hows, Refusals
  <2>1. CASE files.forced
    BY <2>0, <2>1 DEF SideClassifies
  <2>2. CASE ~files.forced /\ files.acted
    BY <2>0, <2>2 DEF SideClassifies
  <2>3. CASE ~files.forced /\ ~files.acted
    BY <2>0, <2>3 DEF SideClassifies
  <2> QED
    BY <2>1, <2>2, <2>3
<1>4. /\ Sided(c) /\ side'[c].pc = "cleanUp" /\ side'[c].lock = side[c].lock
      /\ side'[c].how = h /\ side'[c].ready = side[c].ready
  <2> DEFINE new == [side[c] EXCEPT !.pc = "cleanUp", !.how = h]
  <2>1. side \in [Cmds -> SideRecs]
    BY DEF SessionInv, TypeOK, SideRecs
  <2>2. /\ new \in SideRecs /\ new.pc = "cleanUp" /\ new.lock = side[c].lock
        /\ new.how = h /\ new.ready = side[c].ready
    BY <1>2 DEF SideRecs, SidePcs
  <2>3. side' = [side EXCEPT ![c] = new]
    BY <1>3, <2>1
  <2> HIDE DEF new
  <2> QED
    BY <2>1, <2>2, <2>3 DEF Sided
<1>5. Sidecar(c)'
    BY <1>1, <1>2, <1>4 DEF Sidecar, Owing, Holding
<1>6. Stage(c)'
    BY <1>1, <1>2, <1>4 DEF Stage, Waits
<1>7. Aimed'
  <2>1. Sought(plan, cmd, h, c)
    BY <1>1, <1>2, <1>3 DEF SessionInv, Aimed, Stage, Waits, Sought, Refusals
  <2> QED
    BY <1>1, <1>4, <2>1 DEF SessionInv, Aimed, Sided, Sought
<1>8. Marked'
    BY <1>1, <1>3, <1>4, MarksStand
<1> QED
    BY <1>1, <1>2, <1>4, <1>5, <1>6, <1>7, <1>8, HolderKeeps DEF Holding

\* The marks go with the run they were for, and the breadcrumb with its child.
LEMMA SideCleansKeeps ==
    ASSUME SessionInv, NEW c \in Cmds, SideCleans(c), UNCHANGED plan
    PROVE  SessionInv'
<1>1. /\ side[c].pc = "cleanUp" /\ UNCHANGED <<plan, made, at, cmd, child, blame>>
      /\ files' = [files EXCEPT !.forced = FALSE, !.acted = FALSE, !.req = NoCmd,
                                !.reqForced = FALSE, !.crumb = NoCmd]
    BY DEF SideCleans
<1>2. /\ Sidecar(c) /\ Stage(c) /\ files \in Files /\ Mutators' = Mutators
      /\ child \in [Cmds -> {"none", "alive", "dead"}]
      /\ files.status # "Absent" <=> files.run # NoCmd
    BY <1>1, Knows DEF Mutators, Kind
<1>3. /\ Sided(c) /\ side'[c].pc = "record" /\ side'[c].lock = side[c].lock
      /\ side'[c].how = side[c].how /\ side'[c].ready = side[c].ready
    BY SideGotoMoves DEF SideCleans, SidePcs, SessionInv
<1>4. /\ files' \in Files /\ files'.status = files.status /\ files'.run = files.run
      /\ files'.how = files.how /\ ~files'.acted /\ files'.req = NoCmd /\ ~files'.forced
    BY <1>1, <1>2 DEF Files, Runs
<1>5. Sidecar(c)'
    BY <1>1, <1>2, <1>3 DEF Sidecar, Owing, Holding
<1>6. Stage(c)'
    BY <1>1, <1>2, <1>3, <1>4 DEF Stage, Waits
<1>7. Aimed'
    BY <1>1, <1>3, <1>4 DEF SessionInv, Aimed, Sided, Sought
<1>8. Marked'
    BY <1>1, <1>3, <1>4, MarksStand
<1> QED
    BY <1>1, <1>2, <1>3, <1>4, <1>5, <1>6, <1>7, <1>8, HolderKeeps DEF Holding

\* The terminal record says how this run was classified, and of this run.
LEMMA SideRecordsKeeps ==
    ASSUME SessionInv, NEW c \in Cmds, SideRecords(c), UNCHANGED plan
    PROVE  SessionInv'
<1>1. side[c].pc = "record" /\ UNCHANGED <<plan, cmd, child, blame>>
    BY DEF SideRecords
<1>2. /\ Sidecar(c) /\ Stage(c) /\ files \in Files /\ Mutators' = Mutators /\ c \in Runs /\ c # NoCmd
      /\ child \in [Cmds -> {"none", "alive", "dead"}]
      /\ side[c].gen \in Nat /\ side[c].how \in Hows
    BY <1>1, Knows DEF Mutators, Kind, SideRecs
<1>3. /\ Sided(c) /\ side'[c].pc = "release" /\ side'[c].lock = side[c].lock
      /\ side'[c].how = side[c].how /\ side'[c].ready = side[c].ready
    BY SideGotoMoves DEF SideRecords, SidePcs, SessionInv
<1>4. at # 0
    BY <1>1, Alone DEF Holding
<1>5. /\ files' = [files EXCEPT !.status = "Ended", !.run = c, !.how = side[c].how,
                                !.metaGen = side[c].gen]
      /\ UNCHANGED <<made, at>>
    BY <1>4 DEF SideRecords, EmitThenWrite
<1>6. /\ files' \in Files /\ files'.status = "Ended" /\ files'.run = c
      /\ files'.how = side[c].how /\ files'.acted = files.acted /\ files'.req = files.req
      /\ files'.forced = files.forced /\ files'.reqForced = files.reqForced
    BY <1>2, <1>5 DEF Files
<1>7. Sidecar(c)'
    BY <1>1, <1>2, <1>3 DEF Sidecar, Owing, Holding
<1>8. Stage(c)'
    BY <1>1, <1>2, <1>3, <1>6 DEF Stage, Waits
<1>9. Aimed'
  <2>1. files.run = c
    BY <1>1, <1>2 DEF Stage, Waits
  <2> QED
    BY <1>1, <1>2, <1>3, <1>6, <2>1 DEF SessionInv, Aimed, Sided, Sought
<1>10. Marked'
  <2>1. files.run = c
    BY <1>1, <1>2 DEF Stage, Waits
  <2> QED
    BY <1>1, <1>3, <1>5, <1>6, <2>1, MarksStand
<1> QED
    BY <1>1, <1>2, <1>3, <1>5, <1>6, <1>7, <1>8, <1>9, <1>10, HolderKeeps DEF Holding

\* The end of a sidecar, orderly or not.  A child it leaves alive is named in the directory,
\* or it was lost between the spawn and the breadcrumb.
LEMMA SideEndsKeeps ==
    ASSUME SessionInv, NEW c \in Cmds, SideReleases(c) \/ SideCrashes(c), UNCHANGED plan
    PROVE  SessionInv'
<1>1. /\ side[c].pc \in Holding \cup {"boot"}
      /\ UNCHANGED <<plan, made, at, files, cmd, child, blame>>
  <2>1. side[c].pc \in SidePcs
    BY Knows DEF SideRecs
  <2> QED
    BY <2>1 DEF SideReleases, SideCrashes, Holding, SidePcs
<1>2. /\ Sidecar(c) /\ Stage(c) /\ files \in Files /\ Mutators' = Mutators
      /\ child \in [Cmds -> {"none", "alive", "dead"}] /\ side[c] \in SideRecs
      /\ child[c] \in {"none", "alive", "dead"}
      /\ files.status # "Absent" <=> files.run # NoCmd
    BY <1>1, Knows DEF Mutators, Kind
<1>3. side \in [Cmds -> SideRecs]
    BY DEF SessionInv, TypeOK, SideRecs
<1>4. /\ Sided(c) /\ side'[c].lock = 0 /\ side'[c].how = side[c].how
      /\ side'[c].pc = IF side[c].pc = "crumb" THEN "lost" ELSE "dead"
  <2>1. CASE SideReleases(c)
    <3> DEFINE new == [side[c] EXCEPT !.pc = "dead", !.lock = 0]
    <3>1. new \in SideRecs /\ new.pc = "dead" /\ new.lock = 0 /\ new.how = side[c].how
      BY <1>2 DEF SideRecs, SidePcs
    <3>2. side' = [side EXCEPT ![c] = new] /\ side[c].pc = "release"
      BY <1>3, <2>1 DEF SideReleases
    <3> HIDE DEF new
    <3> QED
      BY <1>3, <3>1, <3>2 DEF Sided
  <2>2. CASE SideCrashes(c)
    <3> DEFINE p == IF side[c].pc = "crumb" THEN "lost" ELSE "dead"
               r == IF side[c].ready = "owed" THEN "error" ELSE side[c].ready
               new == [side[c] EXCEPT !.pc = p, !.lock = 0, !.ready = r]
    <3>1. p \in SidePcs /\ r \in {"owed", "ok", "error"}
      BY <1>2 DEF SideRecs, SidePcs
    <3>2. side' = [side EXCEPT ![c] = new]
      BY <1>3, <2>2 DEF SideCrashes
    <3> HIDE DEF p, r
    <3>3. new \in SideRecs /\ new.pc = p /\ new.lock = 0 /\ new.how = side[c].how
      BY <1>2, <3>1 DEF SideRecs
    <3> HIDE DEF new
    <3>4. Sided(c) /\ side'[c] = new
      BY <1>3, <3>2, <3>3 DEF Sided
    <3> QED
      BY <3>3, <3>4 DEF p
  <2> QED
    BY <2>1, <2>2
<1>5. side[c].pc # "crumb" /\ child[c] = "alive" => Named(c)
  <2> SUFFICES ASSUME side[c].pc # "crumb", child[c] = "alive" PROVE Named(c)
    OBVIOUS
  <2>1. at # 0
    BY <1>1, Alone
  <2>2. side[c].pc \in {"publish", "ready", "supervise"}
    BY <1>1, <1>2 DEF Sidecar, Owing, Holding
  <2> QED
    BY <1>2, <2>1, <2>2 DEF Stage, Waits, Named
<1>6. Sidecar(c)'
  <2>1. Named(c) => Named(c)'
    BY <1>1 DEF Named
  <2> QED
    BY <1>1, <1>2, <1>4, <1>5, <2>1 DEF Sidecar, Owing, Holding
<1>7. Stage(c)' /\ \A d \in Cmds : Named(d) => Named(d)'
    BY <1>1, <1>4 DEF Stage, Waits, Named
<1>8. Aimed'
    BY <1>1, <1>4 DEF SessionInv, Aimed, Sided, Sought
<1>9. Marked'
    BY <1>1, <1>4, MarksStand
<1> QED
    BY <1>1, <1>2, <1>4, <1>6, <1>7, <1>8, <1>9, SideKeeps DEF Holding

\* A child may exit at any time.
LEMMA ChildExitsKeeps ==
    ASSUME SessionInv, NEW c \in Cmds, ChildExits(c), UNCHANGED plan
    PROVE  SessionInv'
<1>1. /\ child[c] = "alive" /\ child' = [child EXCEPT ![c] = "dead"]
      /\ UNCHANGED <<plan, made, at, files, cmd, side, blame>>
    BY DEF ChildExits
<1>2. ChildrenEnd
    BY <1>1 DEF ChildrenEnd, SessionInv, TypeOK
<1>3. TypeOK'
    BY <1>1, <1>2 DEF SessionInv, TypeOK, ChildrenEnd
<1>4. Turns' /\ Mutators' = Mutators
    BY <1>1 DEF SessionInv, Turns, Mutators, Kind
<1>5. Sidecars'
    BY <1>1, <1>2, <1>4 DEF SessionInv, Sidecars, Sidecar, Owing, Named, ChildrenEnd
<1>6. Locks' /\ Stages' /\ Commands'
    BY <1>1 DEF SessionInv, Locks, Stages, Stage, Waits, Commands, Command, Fresh
<1>7. Aimed' /\ Marked'
    BY <1>1 DEF SessionInv, Aimed, Marked, Killer, Kind
<1> QED
    BY <1>3, <1>4, <1>5, <1>6, <1>7 DEF SessionInv

(***************************************************************************)
(* The theorems                                                            *)
(***************************************************************************)
\* Nothing is there at first.
LEMMA InitSession ==
    ASSUME Init, plan.serial
    PROVE  SessionInv
<1>1. /\ plan \in Scenarios /\ made = 0 /\ at = 0 /\ files = NoFiles
      /\ cmd = [c \in Cmds |-> [pc |-> "idle", gen |-> 0, target |-> NoCmd]]
      /\ side = [c \in Cmds |-> NoSide]
      /\ child = [c \in Cmds |-> "none"]
      /\ blame = [c \in Cmds |-> [read |-> 0, marked |-> 0]]
    BY DEF Init
<1>2. \A c \in Cmds :
         /\ cmd[c].pc = "idle" /\ cmd[c].target = NoCmd /\ child[c] = "none"
         /\ side[c].pc = "none" /\ side[c].lock = 0 /\ side[c].how = "none" /\ side[c].ready = "owed"
    BY <1>1 DEF NoSide
<1>3. TypeOK
  <2>1. NoSide \in SideRecs
    BY DEF NoSide, SideRecs, SidePcs, Hows
  <2>2. [pc |-> "idle", gen |-> 0, target |-> NoCmd] \in CmdRecs
    BY DEF CmdRecs, CmdPcs, Runs
  <2> QED
    BY <1>1, <2>1, <2>2, FilesTypes DEF TypeOK, SideRecs, CmdRecs
<1>4. Turns
    BY <1>2 DEF Turns, Mutators
<1>5. Sidecars /\ Locks /\ Commands
    BY <1>2 DEF Sidecars, Sidecar, Locks, Commands, Command, Holding, Owing
<1>6. Stages /\ Aimed
    BY <1>1, <1>2, FilesTypes DEF Stages, Stage, Waits, Aimed, Sought
<1>7. Marked
  <2>1. \A k \in Cmds : blame[k].read = 0 /\ blame[k].marked = 0
    BY <1>1
  <2>2. ~files.forced /\ files.how = "none"
    BY <1>1, FilesTypes
  <2> QED
    BY <1>1, <1>2, <2>1, <2>2 DEF Marked, Killer, KillPcs
<1> QED
    BY <1>3, <1>4, <1>5, <1>6, <1>7 DEF SessionInv

\* Every step keeps the invariant.
LEMMA SessionStep ==
    ASSUME SessionInv, [Next]_vars
    PROVE  SessionInv'
<1>1. CASE UNCHANGED vars
  <2>1. UNCHANGED <<plan, made, at, files, cmd, side, child, blame>>
    BY <1>1 DEF vars
  <2> QED
    BY <2>1 DEF SessionInv, TypeOK, Turns, Mutators, Kind, Sidecars, Sidecar, Owing, Named, Locks, Stages,
                Stage, Fresh, Waits, Commands, Command, Aimed, Marked, Killer
<1>2. CASE Next
  <2>1. PICK c \in Cmds : \/ CmdStep(c) \/ SideStep(c)
                          \/ /\ SideCrashes(c) \/ ChildExits(c) \/ DependenciesResolve(c)
                             /\ UNCHANGED plan
    BY <1>2 DEF Next
  <2>2. CASE CmdStep(c)
    BY <2>2, BeginStartKeeps, BeginReplaceKeeps, ReplacePollsKeeps, ReplaceRemovesKeeps, CreateKeeps,
       AlreadyExistsKeeps, FindsStartingKeeps, OrphanCleanupKeeps, LaunchKeeps,
       AwaitReadyKeeps, StatusKeeps, PruneKeeps,
       PruneRemovesKeeps, BeginKillKeeps, KillMarksKeeps, KillSendsKeeps DEF CmdStep
  <2>3. CASE SideStep(c)
    BY <2>3, SideBootsKeeps, SideStartsKeeps, SideHeedsKeeps, ScansKeep, SideRefusesKeeps,
       SideSpawnsKeeps, SideCrumbsKeeps, SidePublishesKeeps, SideReadyKeeps, SideWatchesKeeps,
       SideObservesKeeps, SideClassifiesKeeps, SideCleansKeeps, SideRecordsKeeps,
       SideEndsKeeps DEF SideStep
  <2>4. CASE (SideCrashes(c) \/ ChildExits(c) \/ DependenciesResolve(c)) /\ UNCHANGED plan
    BY <2>4, SideEndsKeeps, ChildExitsKeeps, ScansKeep
  <2> QED
    BY <2>1, <2>2, <2>3, <2>4
<1> QED
    BY <1>1, <1>2

\* A name whose commands take turns keeps the invariant.
THEOREM SessionInvHolds == Spec /\ plan.serial => []SessionInv
<1>1. Init /\ plan.serial => SessionInv
    BY InitSession
<1>2. SessionInv /\ [Next]_vars => SessionInv'
    BY SessionStep
<1> QED
    BY <1>1, <1>2, PTL DEF Spec

\* A name is one run's at a time: while a sidecar holds the lock the record is its own, and
\* an old run's child is gone before a new one's exists, whichever sidecars died on the way
\* (launch_session, handle_replace, cleanup_orphan_dir).
THEOREM OneRunAtATimeHolds == Spec /\ plan.serial => []OneRunAtATime
<1>1. SessionInv => OneRunAtATime
  <2> SUFFICES ASSUME SessionInv PROVE OneRunAtATime
    OBVIOUS
  <2>1. OwnDirectory
    <3> SUFFICES ASSUME NEW c \in Cmds, LockedBy(c, at) PROVE files.run \in {NoCmd, c}
      BY DEF OwnDirectory
    <3>1. side[c].pc \in Holding
      BY DEF SessionInv, Locks, LockedBy
    <3> QED
      BY <3>1 DEF SessionInv, Stages, Stage, Fresh, Waits, Holding
  <2>2. OneChild
    <3> SUFFICES ASSUME NEW c \in Cmds, NEW d \in Cmds, c # d,
                        child[c] = "alive", child[d] = "alive",
                        side[c].pc # "lost", side[d].pc # "lost"
                 PROVE  FALSE
      BY DEF OneChild
    <3>1. side[c].pc \in Holding \/ Named(c)
      BY Knows DEF Sidecar, Owing, Holding, SideRecs, SidePcs
    <3>2. side[d].pc \in Holding \/ Named(d)
      BY Knows DEF Sidecar, Owing, Holding, SideRecs, SidePcs
    <3>3. ~(Named(c) /\ Named(d))
      BY DEF Named
    <3>4. ~(side[c].pc \in Holding /\ side[d].pc \in Holding)
      BY DEF SessionInv, Locks
    <3> QED
      BY <3>1, <3>2, <3>3, <3>4, NamedIsOwn
  <2> QED
    BY <2>1, <2>2 DEF OneRunAtATime, SessionInv
<1> QED
    BY <1>1, SessionInvHolds, PTL

\* A run recorded as killed, by its watcher or in its dependency wait, was a kill's target,
\* whatever was replaced between the command's read and its request; one recorded as
\* force-killed has the marker of a kill --force that read it, or of one that read an earlier
\* run of the name and was overtaken by its replacement (the run_id checks of
\* setup_kill_watcher and scan_iteration, the marker of cmd_kill).
THEOREM KilledIsAimedHolds == Spec /\ plan.serial => []KilledIsAimed
<1>1. SessionInv => KilledIsAimed
  <2> SUFFICES ASSUME SessionInv PROVE KilledIsAimed
    OBVIOUS
  <2>1. /\ files.how \in {"Killed", "DepKilled"} =>
              \E k \in Cmds : Kind[k] = "kill" /\ cmd[k].target = files.run
        /\ files.how = "DepKilledForced" =>
              \E k \in Cmds : Kind[k] = "kill_force" /\ cmd[k].target = files.run
    BY DEF SessionInv, Aimed, Sought, Aimers, Kind
  <2>2. ASSUME files.how = "KilledForced"
        PROVE  \E k \in Cmds :
                   /\ Kind[k] = "kill_force" /\ blame[k].marked = at
                   /\ IF blame[k].read = at THEN cmd[k].target = files.run
                                            ELSE blame[k].read \in 1..(at - 1)
    <3>1. PICK k \in Cmds : k \in Forcers(plan, blame, at)
      BY <2>2 DEF SessionInv, Marked, Forcers
    <3>2. Kind[k] = "kill_force" /\ blame[k].marked = at /\ at # 0
      BY <3>1 DEF Forcers, Kind
    <3>3. Killer(k) /\ blame[k].read \in Nat /\ at \in Nat /\ at \in {0, made}
      BY DEF SessionInv, Marked, TypeOK
    <3>4. IF blame[k].read = at THEN cmd[k].target = files.run ELSE blame[k].read \in 1..(at - 1)
      BY <3>2, <3>3 DEF Killer
    <3> QED
      BY <3>2, <3>4
  <2> QED
    BY <2>1, <2>2 DEF KilledIsAimed
<1> QED
    BY <1>1, SessionInvHolds, PTL

\* No command deletes a directory whose lock a sidecar holds (handle_replace, prune_sessions,
\* cleanup_orphan_dir).
THEOREM DeletesSpareHolds == Spec /\ plan.serial => DeletesSpare
<1>1. SessionInv => \A c \in Cmds : ReplaceRemoves(c) \/ PruneRemoves(c) \/ OrphanCleanup(c) => ~LiveAt(at)
  <2> SUFFICES ASSUME SessionInv, NEW c \in Cmds,
                      ReplaceRemoves(c) \/ PruneRemoves(c) \/ OrphanCleanup(c)
               PROVE  ~LiveAt(at)
    OBVIOUS
  <2>1. cmd[c].pc \in {"discard", "orphan", "stale"}
    BY DEF ReplaceRemoves, PruneRemoves, OrphanCleanup
  <2>2. \A d \in Cmds : side[d].pc \notin Holding
    BY <2>1 DEF SessionInv, Commands, Command
  <2> QED
    BY <2>2 DEF SessionInv, Locks, LiveAt, LockedBy
<1> QED
    BY <1>1, SessionInvHolds, PTL DEF DeletesSpare

=============================================================================
