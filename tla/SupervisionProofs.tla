------------------------- MODULE SupervisionProofs --------------------------
(***************************************************************************)
(* Proofs about Supervision, for any reconcilers, killers, launch specs    *)
(* and faults.                                                             *)
(*                                                                         *)
(* Inv is inductive.  Its parts say what each program point of the sidecar *)
(* knows (Phases, Readiness), who may write meta.json (LockInv, Records)   *)
(* and where an observed exit can have come from (Evidence).               *)
(*                                                                         *)
(* Told, in the second half, is inductive on top of Inv.  It adds what     *)
(* each point of the sidecar has published and whom it has told            *)
(* (Published, Refused), what is left to be found of the child (Spawned,   *)
(* Found), what a reconciler that holds the lock has decided (Decided),    *)
(* what the event log holds by then (Logged), and how the kills are        *)
(* remembered until the exit is classified (Marked).                       *)
(***************************************************************************)
EXTENDS Supervision, TLAPS

(***************************************************************************)
(* The inductive invariant                                                 *)
(***************************************************************************)
\* The meta the sidecar holds in memory, and what it knows of the child.
Phases ==
    /\ pc \in {"setup"} \cup PreSpawn => mem = "Starting" /\ child = "none"
    /\ pc \in Ending => mem \in ChildlessEnds
    /\ pc \in {"crumb", "pty", "stdin", "running"} => mem = "Starting"
    /\ pc \in {"ready", "watch", "supervise", "finish", "classify", "cleanUp", "event"} =>
          mem = "Running"
    /\ pc \in {"stop", "failCleanUp", "failEvent"} => mem \in Live
    /\ pc \in {"persist", "release"} => mem \in ObservedExits
    /\ pc \in {"failPersist", "failReady", "failRelease"} => mem = "SidecarFailed"
    /\ pc \in {"finish", "classify", "cleanUp", "event"} => how \in ObservedExits
    /\ pc \in Finishing => child = "reaped"
    /\ child = "dead" => exit # "none"

\* The client has its answer, and it is not an error: it will not clean up.
Answered == ready \notin {"owed", "error", "eof"}

Readiness ==
    /\ pc \in {"watch", "supervise"} \cup Finishing => Answered
    /\ pc \in {"setup"} \cup (Locking \ {"failRelease"}) => ready \notin {"error", "eof"}

\* The lock is held by whoever is between taking and dropping it, and nobody else.
LockInv ==
    /\ pc \in Locking <=> lock = "sidecar"
    /\ \A r \in Reconcilers : rec[r].pc \in RecLocking <=> lock = r

\* Whoever is about to write meta.json sees a record that is not terminal.
Records ==
    /\ pc \in {"setup"} => meta.status = "Absent" /\ \A r \in Reconcilers : rec[r].pc = "idle"
    /\ pc \in Locking \ {"endReady", "endRelease", "release", "failReady", "failRelease"} =>
          meta.status \in Live \cup {"Absent"}
    /\ \A r \in Reconcilers :
          rec[r].pc \in {"decide", "stop", "log", "write"} => meta.status \in Live \cup {"Removed"}

\* An observed exit, in the log, in meta or about to be healed from the log, is of
\* a reaped child, and of a run whose client was answered.
Evidence ==
    /\ \A s \in {wal, meta.status} \cup {rec[r].next : r \in Reconcilers} :
          s \in ObservedExits => child = "reaped" /\ Answered
    /\ \A r \in Reconcilers : rec[r].seen \in Live \cup {"Absent"}

Inv == TypeOK /\ Phases /\ Readiness /\ LockInv /\ Records /\ Evidence


(***************************************************************************)
(* Types                                                                   *)
(***************************************************************************)
\* The two shapes of record the sidecar writes.
LEMMA DirectType ==
    ASSUME NEW s \in Live \cup SidecarEnds, NEW word \in BOOLEAN
    PROVE  Direct(s, word) \in Metas
BY DEF Direct, Metas, Sources, MetaStatuses, Statuses, Terminals, Provenances

\* A record without a provenance.
LEMMA UnrecordedType ==
    ASSUME NEW s \in MetaStatuses
    PROVE  Unrecorded(s) \in Metas
BY DEF Unrecorded, Metas, Sources, Provenances

\* Whatever write_meta_atomic reports, meta.json holds the old or the new record.
LEMMA WriteMetaType ==
    ASSUME NEW m \in Metas, NEW ok \in BOOLEAN, meta \in Metas, WriteMeta(m, ok)
    PROVE  meta' \in Metas
BY DEF WriteMeta

\* The event log gets the terminal event, or it does not.
LEMMA EmitType ==
    ASSUME NEW s \in SidecarEnds, TypeOK, Emit(s)
    PROVE  wal' \in SidecarEnds \cup {"none"} /\ salvaged' \in BOOLEAN
BY DEF Emit, TypeOK

\* The transitions the sidecar applies stay among the statuses it may record.
LEMMA TransitionTypes ==
    ASSUME NEW s \in Live \cup SidecarEnds, NEW h
    PROVE  /\ TransitionRunning(s) \in Live \cup SidecarEnds
           /\ TransitionSpawnFailed(s) \in Live \cup SidecarEnds
           /\ TransitionDependencyFailed(s) \in Live \cup SidecarEnds
           /\ TransitionSidecarFailed(s) \in Live \cup SidecarEnds
           /\ TransitionExited(s, h) \in Live \cup SidecarEnds
BY DEF TransitionRunning, TransitionSpawnFailed, TransitionDependencyFailed,
       TransitionSidecarFailed, TransitionExited, Live, SidecarEnds, ExitReasons, ObservedExits,
       ChildlessEnds

\* A kill leaves the child in one of its states.
LEMMA KillChildType ==
    ASSUME TypeOK, NEW by \in {"timeout", "graceful", "unmarked", "forced", "direct"}, KillChild(by)
    PROVE  /\ child' \in {"none", "alive", "dead", "reaped"}
           /\ exit' \in {"none", "ExitedOk", "ExitedError", "Killed"}
           /\ hit' \subseteq {"timeout", "graceful", "unmarked", "forced", "direct", "orphan"}
BY DEF KillChild, TypeOK, childVars

\* Whatever the sidecar holds in memory may stand in meta.json.
LEMMA LiveTypes ==
    Live \cup SidecarEnds \cup {"Absent", "Removed"} \subseteq MetaStatuses
BY DEF MetaStatuses, Statuses, Terminals

\* Every step of the sidecar, its crash included, keeps every variable in its type.
LEMMA SidecarTypes ==
    ASSUME TypeOK, Phases, SidecarStep \/ Crash
    PROVE  TypeOK'
<1> USE DEF recordVars, controlVars, sidecarVars, threadVars, childVars, cliVars,
        SidecarPcs, Locking, PreSpawn, Ending, Guarded, Finishing, Failing
<1>1. CASE Setup
    BY <1>1 DEF Setup, AfterDeps, TypeOK
<1>2. CASE Tell
    BY <1>2 DEF Tell, SendReady, TypeOK
<1>3. CASE WriteStarting
  <2>1. PICK ok \in BOOLEAN : WriteMeta(Unrecorded(mem), ok)
    BY <1>3 DEF WriteStarting
  <2>2. meta' \in Metas
    BY <2>1, WriteMetaType, UnrecordedType, LiveTypes DEF TypeOK
  <2> QED
    BY <1>3, <2>2 DEF WriteStarting, TypeOK
<1>4. CASE FirstScan
    BY <1>4, TransitionTypes DEF FirstScan, ScanIteration, TypeOK
<1>5. CASE SignalScanned
    BY <1>5 DEF SignalScanned, SendReady, AfterDeps, TypeOK
<1>6. CASE PollDependencies
    BY <1>6, TransitionTypes DEF PollDependencies, ScanIteration, AfterDeps, TypeOK
<1>7. CASE Bind
    BY <1>7, TransitionTypes DEF Bind, TypeOK
<1>8. CASE Spawn
    BY <1>8, TransitionTypes DEF Spawn, TypeOK
<1>9. CASE EndEvent
  <2>1. mem \in SidecarEnds
    BY <1>9 DEF EndEvent, Phases, SidecarEnds
  <2>2. wal' \in SidecarEnds \cup {"none"} /\ salvaged' \in BOOLEAN
    BY <1>9, <2>1, EmitType DEF EndEvent
  <2> QED
    BY <1>9, <2>2 DEF EndEvent, TypeOK
<1>10. CASE EndMeta
  <2>1. PICK ok \in BOOLEAN : WriteMeta(Direct(mem, FALSE), ok)
    BY <1>10 DEF EndMeta
  <2>2. meta' \in Metas
    BY <2>1, WriteMetaType, DirectType DEF TypeOK
  <2> QED
    BY <1>10, <2>2 DEF EndMeta, TypeOK
<1>11. CASE EndReady
    BY <1>11 DEF EndReady, SendReady, TypeOK
<1>12. CASE WriteCrumb
    BY <1>12 DEF WriteCrumb, AfterPty, TypeOK
<1>13. CASE StartPty
    BY <1>13 DEF StartPty, AfterPty, TypeOK
<1>14. CASE SetupStdin
    BY <1>14 DEF SetupStdin, TypeOK
<1>15. CASE PublishRunning
  <2>1. mem' \in Live \cup SidecarEnds
    BY <1>15, TransitionTypes DEF PublishRunning, TypeOK
  <2>2. PICK ok \in BOOLEAN : WriteMeta(Unrecorded(mem'), ok) /\ cancel' = ~ok
    BY <1>15 DEF PublishRunning
  <2>3. meta' \in Metas
    BY <2>1, <2>2, WriteMetaType, UnrecordedType, LiveTypes DEF TypeOK
  <2>4. cancel' \in BOOLEAN
    BY <2>2
  <2> QED
    BY <1>15, <2>1, <2>3, <2>4 DEF PublishRunning, TypeOK
<1>16. CASE DeliverReady
    BY <1>16 DEF DeliverReady, SendReady, TypeOK
<1>17. CASE ArmWatchers
    BY <1>17 DEF ArmWatchers, TypeOK
<1>18. CASE Observe
    BY <1>18 DEF Observe, TypeOK, Phases, ObservedExits
<1>19. CASE Fail
    BY <1>19 DEF Fail, TypeOK
<1>20. CASE Finish
    BY <1>20 DEF Finish, TypeOK
<1>21. CASE Classify
    BY <1>21 DEF Classify, ObservedExits, TypeOK
<1>22. CASE CleanUp
  <2>1. killForced' \in BOOLEAN /\ killActed' \in BOOLEAN
    BY <1>22 DEF CleanUp, ClearControlFiles
  <2>2. killReq' = "none" /\ crumb' = "none" /\ pc' = "event"
        /\ UNCHANGED <<spec, recordVars, lock, sidecarVars, threadVars, childVars, cliVars>>
    BY <1>22 DEF CleanUp, ClearControlFiles
  <2> QED
    BY <2>1, <2>2 DEF TypeOK
<1>23. CASE EmitExited
  <2>1. mem' \in SidecarEnds
    BY <1>23 DEF EmitExited, TransitionExited, Phases, SidecarEnds, ExitReasons
  <2>2. wal' \in SidecarEnds \cup {"none"} /\ salvaged' \in BOOLEAN
    BY <1>23, <2>1, EmitType DEF EmitExited
  <2> QED
    BY <1>23, <2>1, <2>2 DEF EmitExited, TypeOK
<1>24. CASE Persist
  <2>1. PICK ok \in BOOLEAN : WriteMeta(Direct(mem, FALSE), ok)
    BY <1>24 DEF Persist
  <2>2. meta' \in Metas
    BY <2>1, WriteMetaType, DirectType DEF TypeOK
  <2>3. salvaged' \in BOOLEAN
    BY <1>24 DEF Persist
  <2>4. pc' = "release"
        /\ UNCHANGED <<spec, dir, wal, lostEvent, crumb, controlVars, lock, sidecarVars,
                       threadVars, childVars, cliVars>>
    BY <1>24 DEF Persist
  <2> QED
    BY <2>2, <2>3, <2>4 DEF TypeOK
<1>25. CASE Release
    BY <1>25 DEF Release, TypeOK
<1>26. CASE RunHooks
    BY <1>26 DEF RunHooks, TypeOK
<1>27. CASE StopChild
  <2>1. gone' \in BOOLEAN
    BY <1>27 DEF StopChild
  <2>2. child' \in {"reaped", child} /\ pc' = "failCleanUp"
        /\ UNCHANGED <<spec, recordVars, crumb, controlVars, lock, mem, how, ready, cancel,
                       threadVars, exit, hit, cliVars>>
    BY <1>27 DEF StopChild
  <2> QED
    BY <2>1, <2>2 DEF TypeOK
<1>28. CASE FailCleanUp
  <2>1. killForced' \in BOOLEAN /\ killActed' \in BOOLEAN
    BY <1>28 DEF FailCleanUp, ClearControlFiles
  <2>2. killReq' = "none" /\ pc' = "failEvent"
        /\ UNCHANGED <<spec, recordVars, crumb, lock, sidecarVars, threadVars, childVars, cliVars>>
    BY <1>28 DEF FailCleanUp, ClearControlFiles
  <2> QED
    BY <2>1, <2>2 DEF TypeOK
<1>29. CASE EmitFailed
  <2>1. mem' \in SidecarEnds
    BY <1>29 DEF EmitFailed, TransitionSidecarFailed, Phases, SidecarEnds, ExitReasons
  <2>2. wal' \in SidecarEnds \cup {"none"} /\ salvaged' \in BOOLEAN
    BY <1>29, <2>1, EmitType DEF EmitFailed
  <2> QED
    BY <1>29, <2>1, <2>2 DEF EmitFailed, TypeOK
<1>30. CASE PersistFailed
  <2>1. \E ok \in BOOLEAN : WriteMeta(Direct(mem, ~gone), ok)
    BY <1>30 DEF PersistFailed
  <2>2. (~gone) \in BOOLEAN
    OBVIOUS
  <2>3. meta' \in Metas
    BY <2>1, <2>2, WriteMetaType, DirectType DEF TypeOK
  <2>4. salvaged' \in BOOLEAN
    BY <1>30 DEF PersistFailed, TypeOK
  <2>5. /\ crumb' \in {"none", crumb}
        /\ pc' \in {"failReady", "failRelease"}
        /\ ready' \in {ready, "lost", "error"}
        /\ UNCHANGED <<spec, dir, wal, lostEvent, controlVars, lock, mem, how, gone, cancel,
                       threadVars, childVars, cliVars>>
    BY <1>30 DEF PersistFailed, SendReady
  <2> QED
    BY <2>3, <2>4, <2>5 DEF TypeOK
<1>31. CASE FailReady
    BY <1>31 DEF FailReady, SendReady, TypeOK
<1>32. CASE Crash
    BY <1>32 DEF Crash, TypeOK
<1> QED
    BY <1>1, <1>2, <1>3, <1>4, <1>5, <1>6, <1>7, <1>8, <1>9, <1>10, <1>11, <1>12, <1>13, <1>14, <1>15, <1>16, <1>17, <1>18, <1>19, <1>20, <1>21, <1>22, <1>23, <1>24, <1>25, <1>26, <1>27, <1>28, <1>29, <1>30, <1>31, <1>32 DEF SidecarStep

\* So do the sidecar's threads, the child and the start client.
LEMMA ThreadTypes ==
    ASSUME TypeOK, ThreadStep \/ ChildExits \/ ClientStep \/ ClientGone
    PROVE  TypeOK'
<1> USE DEF recordVars, controlVars, sidecarVars, threadVars, childVars, cliVars
<1>1. CASE TimerDue
    BY <1>1 DEF TimerDue, TypeOK
<1>2. CASE TimerFlags
    BY <1>2 DEF TimerFlags, TypeOK
<1>3. CASE TimerKills
  <2>1. KillChild("timeout")
    BY <1>3 DEF TimerKills
  <2> QED
    BY <1>3, <2>1, KillChildType DEF TimerKills, TypeOK
<1>4. CASE WatcherReads
    BY <1>4 DEF WatcherReads, TypeOK
<1>5. CASE WatcherMarks
  <2>1. killActed' \in BOOLEAN
    BY <1>5 DEF WatcherMarks, TypeOK
  <2>2. /\ watcher' = "term"
        /\ UNCHANGED <<spec, recordVars, crumb, killReq, killForced, lock, pc, sidecarVars,
                       timer, timedOut, childVars, cliVars>>
    BY <1>5 DEF WatcherMarks
  <2> QED
    BY <2>1, <2>2 DEF TypeOK
<1>6. CASE WatcherTerms
    BY <1>6 DEF WatcherTerms, Graceful, TypeOK
<1>7. CASE WatcherKills
  <2>1. KillChild("forced") \/ KillChild("graceful") \/ KillChild("unmarked")
    BY <1>7 DEF WatcherKills, Graceful
  <2> QED
    BY <1>7, <2>1, KillChildType DEF WatcherKills, TypeOK
<1>8. CASE ChildExits
    BY <1>8 DEF ChildExits, TypeOK
<1>9. CASE ClientAnswered
    BY <1>9 DEF ClientAnswered, TypeOK
<1>10. CASE ClientRefused
  <2>1. UNCHANGED <<recordVars, controlVars>> \/ RemoveDir
    BY <1>10 DEF ClientRefused
  <2>2. meta' \in Metas
    BY <2>1, UnrecordedType, LiveTypes DEF RemoveDir, TypeOK
  <2>3. lostEvent' \in BOOLEAN /\ killForced' \in BOOLEAN /\ killActed' \in BOOLEAN
    BY <2>1 DEF RemoveDir, ClearControlFiles, TypeOK
  <2>4. /\ dir' \in {dir, "removed"} /\ wal' \in {wal, "none"} /\ killReq' \in {killReq, "none"}
        /\ client' = "refused"
        /\ UNCHANGED <<salvaged, spec, crumb, lock, pc, sidecarVars, threadVars, childVars, rec, kil>>
    BY <1>10 DEF ClientRefused, RemoveDir, ClearControlFiles
  <2> QED
    BY <2>2, <2>3, <2>4 DEF TypeOK
<1>11. CASE ClientGone
    BY <1>11 DEF ClientGone, TypeOK
<1> QED
    BY <1>1, <1>2, <1>3, <1>4, <1>5, <1>6, <1>7, <1>8, <1>9, <1>10, <1>11 DEF ThreadStep, ClientStep

\* What a reconciler may decide: to replay the log or to infer the loss.
LEMMA DecisionType ==
    ASSUME TypeOK, NEW seen \in MetaStatuses, NEW missed
    PROVE  Decision(seen, missed) \in MetaStatuses
BY DEF Decision, HealTerminalFromEvent, ReconcileSidecarLost, IsTerminal, TypeOK, MetaStatuses,
       Statuses, Terminals, SidecarEnds, ExitReasons, ObservedExits, ChildlessEnds, Live

\* What a reconciler's decision leaves, given what it could not read.
Decides(r, missed) ==
    LET next  == Decision(rec[r].seen, missed)
        probe == next \in {"SidecarFailed", "SidecarLost"} /\ LeftBehind(rec[r].seen, missed)
    IN  rec' = [rec EXCEPT ![r].next = next, ![r].child = probe, ![r].missed = missed,
                           ![r].pc = CASE probe -> "stop"
                                       [] ~probe /\ next = "SidecarLost" -> "log"
                                       [] OTHER -> "write"]

LEMMA DecidesSomehow ==
    ASSUME NEW r \in Reconcilers, RecDecides(r)
    PROVE  /\ rec[r].pc = "decide"
           /\ \E missed \in Misses(rec[r].seen) : Decides(r, missed)
           /\ UNCHANGED <<recFrame, recordVars, lock, childVars>>
BY DEF RecDecides, Decides

\* A reconciler's steps keep the types.
LEMMA ReconcilerTypes ==
    ASSUME TypeOK, NEW r \in Reconcilers, RecStep(r) \/ RecCrashes(r)
    PROVE  TypeOK'
<1> USE DEF recFrame, recordVars, controlVars, sidecarVars, threadVars, childVars, cliVars
<1> DEFINE Rest == UNCHANGED <<spec, crumb, controlVars, pc, sidecarVars, threadVars, client, kil>>
<1>a. IdleRec \in Recs
    BY DEF IdleRec, Recs, RecPcs, Sources, MetaStatuses
<1>b. rec[r] \in Recs
    BY DEF TypeOK
<1>1. CASE RecReads(r)
  <2>1. [rec[r] EXCEPT !.pc = "lock"] \in Recs
    BY <1>b DEF Recs, RecPcs
  <2> QED
    BY <1>1, <2>1 DEF RecReads, TypeOK
<1>2. CASE RecLocks(r)
  <2>1. [rec[r] EXCEPT !.pc = "reread"] \in Recs
    BY <1>b DEF Recs, RecPcs
  <2> QED
    BY <1>2, <1>a, <2>1 DEF RecLocks, TypeOK
<1>3. CASE RecRereads(r)
  <2>1. [rec[r] EXCEPT !.pc = "decide", !.seen = meta.status] \in Recs
    BY <1>b DEF Recs, RecPcs, TypeOK, Metas
  <2>2. /\ \/ rec' = [rec EXCEPT ![r] = [rec[r] EXCEPT !.pc = "decide", !.seen = meta.status]]
           \/ rec' = [rec EXCEPT ![r] = IdleRec]
        /\ lock' \in {lock, "free"}
        /\ Rest /\ UNCHANGED <<recordVars, childVars>>
    BY <1>3 DEF RecRereads, TypeOK
  <2> QED
    BY <1>a, <2>1, <2>2 DEF TypeOK
<1>4. CASE RecDecides(r)
  <2>0. PICK missed \in Misses(rec[r].seen) : Decides(r, missed)
    BY <1>4, DecidesSomehow
  <2> DEFINE next == Decision(rec[r].seen, missed)
             probe == next \in {"SidecarFailed", "SidecarLost"} /\ LeftBehind(rec[r].seen, missed)
             goto == CASE probe -> "stop" [] ~probe /\ next = "SidecarLost" -> "log" [] OTHER -> "write"
  <2>1. next \in MetaStatuses
    BY <1>b, DecisionType DEF Recs
  <2>2. probe \in BOOLEAN /\ goto \in RecPcs
    BY DEF RecPcs
  <2> DEFINE decided == [rec[r] EXCEPT !.next = next, !.child = probe, !.missed = missed, !.pc = goto]
  <2>3. rec' = [rec EXCEPT ![r] = decided]
    BY <2>0 DEF Decides, TypeOK
  <2>m. missed \in SUBSET Sources
    BY <2>0 DEF Misses, Sources
  <2> HIDE DEF next, probe, goto
  <2>4. decided \in Recs
    BY <1>b, <2>1, <2>2, <2>m DEF Recs
  <2> HIDE DEF decided
  <2>5. Rest /\ UNCHANGED <<recordVars, lock, childVars>>
    BY <1>4 DEF RecDecides
  <2> QED
    BY <2>3, <2>4, <2>5 DEF TypeOK
<1>5. CASE RecStops(r)
  <2> DEFINE after == IF rec[r].next = "SidecarLost" THEN "log" ELSE "write"
             Stopped(o) == [rec[r] EXCEPT !.killed = (o = "killed"), !.word = (o = "unstopped"),
                                          !.pc = after]
  <2>1. \E o \in {"killed", "unstopped", "gone"} : rec' = [rec EXCEPT ![r] = Stopped(o)]
    BY <1>5, ZenonT(30) DEF RecStops, TypeOK
  <2>2. ASSUME NEW o PROVE Stopped(o) \in Recs
    <3>1. (o = "killed") \in BOOLEAN /\ (o = "unstopped") \in BOOLEAN /\ after \in RecPcs
      BY DEF RecPcs
    <3> QED
      BY <1>b, <3>1 DEF Recs
  <2>3. /\ child' \in {"dead", child} /\ exit' \in {"Killed", exit}
        /\ hit' \in {hit, hit \cup {"orphan"}}
    BY <1>5 DEF RecStops
  <2>4. Rest /\ UNCHANGED <<recordVars, lock>>
    BY <1>5 DEF RecStops
  <2> HIDE DEF Stopped
  <2> QED
    BY <2>1, <2>2, <2>3, <2>4 DEF TypeOK
<1>6. CASE RecLogs(r)
  <2>1. [rec[r] EXCEPT !.pc = "write"] \in Recs
    BY <1>b DEF Recs, RecPcs
  <2>2. lostEvent' \in BOOLEAN /\ dir' \in {"present", dir}
    BY <1>6 DEF RecLogs, TypeOK
  <2>3. /\ rec' = [rec EXCEPT ![r] = [rec[r] EXCEPT !.pc = "write"]]
        /\ Rest /\ UNCHANGED <<meta, wal, salvaged, lock, childVars>>
    BY <1>6 DEF RecLogs, TypeOK
  <2> QED
    BY <2>1, <2>2, <2>3 DEF TypeOK
<1>7. CASE RecWrites(r)
  <2>1. RecRecord(r) \in Metas
    BY <1>b DEF RecRecord, Recs, Metas, Provenances
  <2>2. meta' \in Metas
    BY <1>7, <2>1, WriteMetaType DEF RecWrites, TypeOK
  <2> QED
    BY <1>7, <1>a, <2>2 DEF RecWrites, TypeOK
<1>8. CASE RecCrashes(r)
    BY <1>8, <1>a DEF RecCrashes, TypeOK
<1> QED
    BY <1>1, <1>2, <1>3, <1>4, <1>5, <1>6, <1>7, <1>8 DEF RecStep

\* A reconciler's steps, with the decision reduced to where it goes.
DecisionFlow(r) ==
    /\ rec[r].pc = "decide" /\ rec'[r].pc \in {"stop", "log", "write"}
    /\ rec'[r].seen = rec[r].seen
    /\ UNCHANGED <<recFrame, recordVars, lock, childVars>>

RecFlow(r) ==
    \/ RecReads(r) \/ RecLocks(r) \/ RecRereads(r) \/ DecisionFlow(r)
    \/ RecStops(r) \/ RecLogs(r) \/ RecWrites(r) \/ RecCrashes(r)

LEMMA RecFlows ==
    ASSUME TypeOK, NEW r \in Reconcilers, RecStep(r) \/ RecCrashes(r)
    PROVE  RecFlow(r)
<1>1. CASE RecDecides(r)
  <2>1. PICK missed \in Misses(rec[r].seen) : Decides(r, missed)
    BY <1>1, DecidesSomehow
  <2>2. rec \in [Reconcilers -> Recs]
    BY DEF TypeOK
  <2>3. rec'[r].pc \in {"stop", "log", "write"} /\ rec'[r].seen = rec[r].seen
    BY <2>1, <2>2 DEF Decides, Recs
  <2> QED
    BY <1>1, <2>3, DecidesSomehow DEF RecFlow, DecisionFlow
<1> QED
    BY <1>1 DEF RecStep, RecFlow

\* What a reconciler may decide on, read or not.
Chosen(r, s) == \E missed \in Misses(rec[r].seen) : s = Decision(rec[r].seen, missed)

LEMMA NextChosen ==
    ASSUME TypeOK, NEW r \in Reconcilers, RecStep(r) \/ RecCrashes(r)
    PROVE  rec'[r].next \in {rec[r].next, "Absent"} \/ Chosen(r, rec'[r].next)
<1>0. rec \in [Reconcilers -> Recs]
    BY DEF TypeOK
<1>1. CASE RecDecides(r)
  <2>1. PICK missed \in Misses(rec[r].seen) : Decides(r, missed)
    BY <1>1, DecidesSomehow
  <2>2. rec'[r].next = Decision(rec[r].seen, missed)
    BY <1>0, <2>1 DEF Decides, Recs
  <2> QED
    BY <2>1, <2>2 DEF Chosen
<1>2. CASE RecReads(r) \/ RecLocks(r) \/ RecRereads(r) \/ RecStops(r) \/ RecLogs(r)
    BY <1>0, <1>2 DEF RecReads, RecLocks, RecRereads, RecStops, RecLogs, IdleRec, Recs
<1>3. CASE RecWrites(r) \/ RecCrashes(r)
    BY <1>0, <1>3 DEF RecWrites, RecCrashes, IdleRec, Recs
<1> QED
    BY <1>1, <1>2, <1>3 DEF RecStep

\* An end it decides on is the one in the log.
LEMMA ChosenFromLog ==
    ASSUME NEW r \in Reconcilers, rec[r].seen \in Live \cup {"Absent"},
           NEW s \in ObservedExits \cup ChildlessEnds, Chosen(r, s)
    PROVE  s = wal
<1>1. PICK missed \in Misses(rec[r].seen) : s = Decision(rec[r].seen, missed)
    BY DEF Chosen
<1> QED
    BY <1>1 DEF Decision, HealTerminalFromEvent, ReconcileSidecarLost, IsTerminal, Live, Terminals,
       SidecarEnds, ExitReasons, ObservedExits, ChildlessEnds

\* So do a kill command's.
LEMMA KillerTypes ==
    ASSUME TypeOK, NEW k \in Killers, KillStep(k) \/ KillCrashes(k)
    PROVE  TypeOK'
<1> USE DEF kilFrame, recordVars, controlVars, sidecarVars, threadVars, childVars, cliVars
<1>a. kil[k] \in Kils
    BY DEF TypeOK
<1>b. \A p \in KilPcs : [kil[k] EXCEPT !.pc = p] \in Kils
    BY <1>a DEF Kils
<1>1. CASE KillReads(k)
  <2>1. PICK f \in BOOLEAN, n \in BOOLEAN, p \in KilPcs :
           kil' = [kil EXCEPT ![k] = [force |-> f, named |-> n, pc |-> p]]
    BY <1>1 DEF KillReads, KilPcs
  <2>2. [force |-> f, named |-> n, pc |-> p] \in Kils
    BY DEF Kils
  <2> QED
    BY <1>1, <2>1, <2>2 DEF KillReads, TypeOK
<1>2. CASE KillMarks(k)
  <2>1. killForced' \in BOOLEAN
    BY <1>2 DEF KillMarks, TypeOK
  <2>2. kil' = [kil EXCEPT ![k] = [kil[k] EXCEPT !.pc = "probe"]] /\ UNCHANGED <<kilFrame, killReq, childVars>>
    BY <1>2 DEF KillMarks, TypeOK
  <2> QED
    BY <1>b, <2>1, <2>2 DEF TypeOK, KilPcs
<1>3. CASE KillProbes(k)
    BY <1>3, <1>b DEF KillProbes, TypeOK, KilPcs
<1>4. CASE KillRequests(k)
    BY <1>4, <1>b DEF KillRequests, TypeOK, KilPcs
<1>5. CASE KillPolls(k)
    BY <1>5, <1>b DEF KillPolls, TypeOK, KilPcs
<1>6. CASE KillDirect(k)
  <2>1. killForced' \in BOOLEAN /\ killReq' \in {killReq, "none"}
    BY <1>6 DEF KillDirect, TypeOK
  <2>2. KillChild("direct") \/ UNCHANGED childVars
    BY <1>6 DEF KillDirect
  <2>3. PICK p \in {"done", "escalate"} : kil' = [kil EXCEPT ![k] = [kil[k] EXCEPT !.pc = p]]
    BY <1>6 DEF KillDirect, TypeOK
  <2>4. UNCHANGED kilFrame
    BY <1>6 DEF KillDirect
  <2> QED
    BY <1>b, <2>1, <2>2, <2>3, <2>4, KillChildType DEF TypeOK, KilPcs
<1>7. CASE KillEscalates(k)
    BY <1>7, <1>b, KillChildType DEF KillEscalates, TypeOK, KilPcs
<1>8. CASE KillCrashes(k)
    BY <1>8, <1>b DEF KillCrashes, TypeOK, KilPcs
<1> QED
    BY <1>1, <1>2, <1>3, <1>4, <1>5, <1>6, <1>7, <1>8 DEF KillStep

\* Every step keeps the types.
LEMMA TypeStep ==
    ASSUME TypeOK, Phases, [Next]_vars
    PROVE  TypeOK'
<1>1. CASE UNCHANGED vars
    BY <1>1 DEF vars, recordVars, controlVars, sidecarVars, threadVars, childVars, cliVars, TypeOK
<1> QED
    BY <1>1, SidecarTypes, ThreadTypes, ReconcilerTypes, KillerTypes DEF Next

(***************************************************************************)
(* Who touches what                                                        *)
(***************************************************************************)
\* What is not a step of the sidecar leaves its program alone; to its child it can
\* only put an end.
LEMMA OthersFrame ==
    ASSUME TypeOK,
           \/ ThreadStep \/ ChildExits \/ ClientStep \/ ClientGone
           \/ \E r \in Reconcilers : RecStep(r) \/ RecCrashes(r)
           \/ \E k \in Killers : KillStep(k) \/ KillCrashes(k)
    PROVE  /\ UNCHANGED <<pc, mem, how, ready>>
           /\ \/ UNCHANGED <<child, exit>>
              \/ child = "alive" /\ child' = "dead" /\ exit' # "none"
<1> USE DEF recordVars, controlVars, sidecarVars, threadVars, childVars, cliVars
<1>1. CASE ThreadStep
    BY <1>1 DEF ThreadStep, TimerDue, TimerFlags, TimerKills, WatcherReads, WatcherMarks,
        WatcherTerms, WatcherKills, KillChild
<1>2. CASE ChildExits
    BY <1>2 DEF ChildExits
<1>3. CASE ClientStep \/ ClientGone
    BY <1>3 DEF ClientStep, ClientAnswered, ClientRefused, ClientGone
<1>4. ASSUME NEW r \in Reconcilers, RecStep(r) \/ RecCrashes(r)
      PROVE  /\ UNCHANGED <<pc, mem, how, ready>>
             /\ UNCHANGED <<child, exit>> \/ (child = "alive" /\ child' = "dead" /\ exit' # "none")
  <2>1. CASE RecStops(r)
      BY <2>1 DEF RecStops, recFrame
  <2> QED
      BY <1>4, <2>1 DEF RecStep, RecReads, RecLocks, RecRereads, RecDecides, RecLogs, RecWrites,
          RecCrashes, recFrame
<1>5. ASSUME NEW k \in Killers, KillStep(k) \/ KillCrashes(k)
      PROVE  /\ UNCHANGED <<pc, mem, how, ready>>
             /\ UNCHANGED <<child, exit>> \/ (child = "alive" /\ child' = "dead" /\ exit' # "none")
    BY <1>5 DEF KillStep, KillReads, KillMarks, KillProbes, KillRequests, KillPolls, KillDirect,
        KillEscalates, KillCrashes, KillChild, kilFrame
<1> QED
    BY <1>1, <1>2, <1>3, <1>4, <1>5

\* The sidecar's steps leave the other processes alone.
LEMMA SidecarFrame ==
    ASSUME SidecarStep \/ Crash
    PROVE  UNCHANGED <<spec, lostEvent, hit, client, rec, kil>>
<1> USE DEF recordVars, controlVars, sidecarVars, threadVars, childVars, cliVars
<1>1. CASE Setup \/ Tell \/ WriteStarting \/ FirstScan \/ SignalScanned \/ PollDependencies \/ Bind
           \/ Spawn \/ EndEvent \/ EndMeta \/ EndReady
    BY <1>1 DEF Setup, Tell, WriteStarting, FirstScan, SignalScanned, PollDependencies, Bind, Spawn,
        EndEvent, EndMeta, EndReady
<1>2. CASE WriteCrumb \/ StartPty \/ SetupStdin \/ PublishRunning \/ DeliverReady \/ ArmWatchers
           \/ Observe \/ Fail
    BY <1>2 DEF WriteCrumb, StartPty, SetupStdin, PublishRunning, DeliverReady, ArmWatchers, Observe, Fail
<1>3. CASE Finish \/ Classify \/ CleanUp \/ EmitExited \/ Persist \/ Release \/ RunHooks
    BY <1>3 DEF Finish, Classify, CleanUp, EmitExited, Persist, Release, RunHooks
<1>4. CASE StopChild \/ FailCleanUp \/ EmitFailed \/ PersistFailed \/ FailReady \/ Crash
    BY <1>4 DEF StopChild, FailCleanUp, EmitFailed, PersistFailed, FailReady, Crash
<1> QED
    BY <1>1, <1>2, <1>3, <1>4 DEF SidecarStep

(***************************************************************************)
(* What the sidecar knows at each point                                    *)
(***************************************************************************)
LEMMA PhasesStep ==
    ASSUME TypeOK, Phases, [Next]_vars
    PROVE  Phases'
<1> USE DEF sidecarVars, childVars, Phases, PreSpawn, Ending, Finishing
<1>1. CASE Setup \/ Tell \/ WriteStarting \/ FirstScan \/ SignalScanned \/ PollDependencies
    BY <1>1 DEF Setup, Tell, WriteStarting, FirstScan, SignalScanned, PollDependencies,
        ScanIteration, TransitionDependencyFailed, AfterDeps, ChildlessEnds
<1>2. CASE Bind \/ Spawn \/ EndEvent \/ EndMeta \/ EndReady
    BY <1>2 DEF Bind, Spawn, EndEvent, EndMeta, EndReady, TransitionSpawnFailed, ChildlessEnds
<1>3. CASE WriteCrumb \/ StartPty \/ SetupStdin \/ PublishRunning \/ DeliverReady \/ ArmWatchers
    BY <1>3 DEF WriteCrumb, StartPty, SetupStdin, PublishRunning, DeliverReady, ArmWatchers, AfterPty,
        TransitionRunning, Live
<1>4. CASE Observe \/ Fail \/ Finish
    BY <1>4 DEF Observe, Fail, Finish, Guarded, TypeOK, ObservedExits, Live
<1>5. CASE Classify \/ CleanUp \/ EmitExited \/ Persist
    BY <1>5 DEF Classify, CleanUp, EmitExited, Persist, TransitionExited, ObservedExits
<1>6. CASE Release \/ RunHooks \/ StopChild \/ FailCleanUp
    BY <1>6 DEF Release, RunHooks, StopChild, FailCleanUp
<1>7. CASE EmitFailed \/ PersistFailed \/ FailReady \/ Crash
    BY <1>7 DEF EmitFailed, PersistFailed, FailReady, Crash, TransitionSidecarFailed
<1>8. CASE UNCHANGED vars
    BY <1>8 DEF vars
<1> QED
    BY <1>1, <1>2, <1>3, <1>4, <1>5, <1>6, <1>7, <1>8, OthersFrame DEF Next, SidecarStep

\* Every step keeps the ready pipe in step with the sidecar.
LEMMA ReadinessStep ==
    ASSUME TypeOK, Phases, Readiness, [Next]_vars
    PROVE  Readiness'
<1> USE DEF sidecarVars, Readiness, Answered, Locking, PreSpawn, Ending, Guarded, Finishing, Failing
<1>0. mem \notin {"owed", "error", "eof"}
    BY DEF TypeOK, Live, SidecarEnds, ExitReasons, ObservedExits, ChildlessEnds
<1>1. CASE Setup \/ Tell \/ WriteStarting \/ FirstScan \/ SignalScanned \/ PollDependencies
    BY <1>0, <1>1 DEF Setup, Tell, WriteStarting, FirstScan, SignalScanned, PollDependencies,
        AfterDeps, SendReady
<1>2. CASE Bind \/ Spawn \/ EndEvent \/ EndMeta \/ EndReady
    BY <1>0, <1>2 DEF Bind, Spawn, EndEvent, EndMeta, EndReady, SendReady
<1>3. CASE WriteCrumb \/ StartPty \/ SetupStdin \/ PublishRunning \/ DeliverReady \/ ArmWatchers
    BY <1>0, <1>3 DEF WriteCrumb, StartPty, SetupStdin, PublishRunning, DeliverReady, ArmWatchers,
        AfterPty, SendReady
<1>4. CASE Observe \/ Fail \/ Finish \/ Classify \/ CleanUp \/ EmitExited \/ Persist
    BY <1>4 DEF Observe, Fail, Finish, Classify, CleanUp, EmitExited, Persist
<1>5. CASE Release \/ RunHooks \/ StopChild \/ FailCleanUp \/ EmitFailed \/ PersistFailed
    BY <1>0, <1>5 DEF Release, RunHooks, StopChild, FailCleanUp, EmitFailed, PersistFailed
<1>6. CASE FailReady \/ Crash
    BY <1>0, <1>6 DEF FailReady, Crash, SendReady
<1>7. CASE UNCHANGED vars
    BY <1>7 DEF vars
<1> QED
    BY <1>1, <1>2, <1>3, <1>4, <1>5, <1>6, <1>7, OthersFrame DEF Next, SidecarStep

(***************************************************************************)
(* Who holds the lock, and what whoever holds it sees                      *)
(***************************************************************************)
\* The processes that are neither the sidecar nor a reconciler touch no lock, and
\* meta.json only as the start client does: by deleting it.
LEMMA BystandersFrame ==
    ASSUME \/ ThreadStep \/ ChildExits \/ ClientStep \/ ClientGone
           \/ \E k \in Killers : KillStep(k) \/ KillCrashes(k)
    PROVE  /\ UNCHANGED <<pc, ready, lock, rec>>
           /\ \/ UNCHANGED <<meta, wal>>
              \/ ready \in {"error", "eof"} /\ meta'.status = "Removed" /\ wal' = "none"
<1> USE DEF recordVars, controlVars, sidecarVars, threadVars, childVars, cliVars
<1>1. CASE ThreadStep \/ ChildExits
    BY <1>1 DEF ThreadStep, TimerDue, TimerFlags, TimerKills, WatcherReads, WatcherMarks,
        WatcherTerms, WatcherKills, ChildExits
<1>2. CASE ClientStep \/ ClientGone
    BY <1>2 DEF ClientStep, ClientAnswered, ClientRefused, ClientGone, RemoveDir, Unrecorded
<1>3. ASSUME NEW k \in Killers, KillStep(k) \/ KillCrashes(k)
      PROVE  UNCHANGED <<pc, ready, lock, rec, meta, wal>>
    BY <1>3 DEF KillStep, KillReads, KillMarks, KillProbes, KillRequests, KillPolls, KillDirect,
        KillEscalates, KillCrashes, kilFrame
<1> QED
    BY <1>1, <1>2, <1>3

\* A reconciler moves only its own record, and takes the lock only when it is free.
LEMMA ReconcilerFrame ==
    ASSUME TypeOK, NEW r \in Reconcilers, RecStep(r) \/ RecCrashes(r)
    PROVE  /\ UNCHANGED <<pc, ready, mem, how, wal>>
           /\ \A q \in Reconcilers \ {r} : rec'[q] = rec[q]
           /\ meta' = meta \/ rec[r].pc = "write"
<1> USE DEF recFrame, recordVars, sidecarVars
<1> QED
    BY DEF RecStep, RecReads, RecLocks, RecRereads, RecDecides, RecStops, RecLogs, RecWrites,
        RecCrashes, TypeOK

\* Every step keeps the session lock with its one holder.
LEMMA LockStep ==
    ASSUME TypeOK, LockInv, [Next]_vars
    PROVE  LockInv'
<1> USE ReconcilersAssumption
<1> USE DEF LockInv
<1>1. CASE SidecarStep \/ Crash
  <2>1. UNCHANGED rec
    BY <1>1, SidecarFrame
  <2>2. /\ pc' \in Locking <=> lock' = "sidecar"
        /\ \A r \in Reconcilers : lock' = r <=> lock = r
    <3> USE DEF Locking, PreSpawn, Ending, Guarded, Finishing, Failing
    <3>1. CASE Setup \/ Tell \/ WriteStarting \/ FirstScan \/ SignalScanned \/ PollDependencies
      BY <3>1 DEF Setup, Tell, WriteStarting, FirstScan, SignalScanned, PollDependencies, AfterDeps
    <3>2. CASE Bind \/ Spawn \/ EndEvent \/ EndMeta \/ EndReady
      BY <3>2 DEF Bind, Spawn, EndEvent, EndMeta, EndReady
    <3>3. CASE WriteCrumb \/ StartPty \/ SetupStdin \/ PublishRunning \/ DeliverReady \/ ArmWatchers
      BY <3>3 DEF WriteCrumb, StartPty, SetupStdin, PublishRunning, DeliverReady, ArmWatchers, AfterPty
    <3>4. CASE Observe \/ Fail \/ Finish \/ Classify \/ CleanUp \/ EmitExited \/ Persist
      BY <3>4 DEF Observe, Fail, Finish, Classify, CleanUp, EmitExited, Persist
    <3>5. CASE Release \/ RunHooks \/ StopChild \/ FailCleanUp \/ EmitFailed \/ PersistFailed
      BY <3>5 DEF Release, RunHooks, StopChild, FailCleanUp, EmitFailed, PersistFailed
    <3>6. CASE FailReady \/ Crash
      BY <3>6 DEF FailReady, Crash, SidecarLive, TypeOK, SidecarPcs
    <3> QED
      BY <1>1, <3>1, <3>2, <3>3, <3>4, <3>5, <3>6 DEF SidecarStep
  <2> QED
    BY <2>1, <2>2
<1>2. ASSUME NEW r \in Reconcilers, RecStep(r) \/ RecCrashes(r)
      PROVE  LockInv'
  <2>1. /\ pc' = pc
        /\ \A q \in Reconcilers \ {r} : rec'[q] = rec[q]
    BY <1>2, ReconcilerFrame
  <2>f. RecFlow(r)
    BY <1>2, RecFlows
  <2>2. /\ rec'[r].pc \in RecLocking <=> lock' = r
        /\ lock' # lock => {lock, lock'} = {"free", r}
    BY <2>f DEF RecFlow, RecReads, RecLocks, RecRereads, DecisionFlow, RecStops, RecLogs, RecWrites,
        RecCrashes, RecLocking, TypeOK, Recs, RecPcs, IdleRec
  <2> QED
    BY <2>1, <2>2
<1>3. CASE UNCHANGED vars
    BY <1>3 DEF vars, cliVars
<1> QED
    BY <1>1, <1>2, <1>3, BystandersFrame DEF Next

\* The sidecar writes meta.json at five points, and holds the lock at each.
LEMMA SidecarWrites ==
    ASSUME SidecarStep \/ Crash
    PROVE  \/ meta' = meta
           \/ pc \in {"starting", "endMeta", "running", "persist", "failPersist"}
<1> USE DEF recordVars
<1>1. CASE Setup \/ Tell \/ WriteStarting \/ FirstScan \/ SignalScanned \/ PollDependencies \/ Bind
           \/ Spawn \/ EndEvent \/ EndMeta \/ EndReady
    BY <1>1 DEF Setup, Tell, WriteStarting, FirstScan, SignalScanned, PollDependencies, Bind, Spawn,
        EndEvent, EndMeta, EndReady
<1>2. CASE WriteCrumb \/ StartPty \/ SetupStdin \/ PublishRunning \/ DeliverReady \/ ArmWatchers
           \/ Observe \/ Fail
    BY <1>2 DEF WriteCrumb, StartPty, SetupStdin, PublishRunning, DeliverReady, ArmWatchers, Observe, Fail
<1>3. CASE Finish \/ Classify \/ CleanUp \/ EmitExited \/ Persist \/ Release \/ RunHooks
    BY <1>3 DEF Finish, Classify, CleanUp, EmitExited, Persist, Release, RunHooks
<1>4. CASE StopChild \/ FailCleanUp \/ EmitFailed \/ PersistFailed \/ FailReady \/ Crash
    BY <1>4 DEF StopChild, FailCleanUp, EmitFailed, PersistFailed, FailReady, Crash
<1> QED
    BY <1>1, <1>2, <1>3, <1>4 DEF SidecarStep

\* What the sidecar may still write over: the points where Records constrains it.
Writing == Locking \ {"endReady", "endRelease", "release", "failReady", "failRelease"}

\* Every step keeps what is recorded within what may still be written over.
LEMMA RecordsStep ==
    ASSUME Inv, [Next]_vars
    PROVE  Records'
<1> USE ReconcilersAssumption
<1>1. CASE SidecarStep \/ Crash
  <2>1. UNCHANGED rec
    BY <1>1, SidecarFrame
  <2>2. pc' # "setup"
    <3>1. CASE Setup \/ Tell \/ WriteStarting \/ FirstScan \/ SignalScanned \/ PollDependencies
      BY <3>1 DEF Setup, Tell, WriteStarting, FirstScan, SignalScanned, PollDependencies, AfterDeps
    <3>2. CASE Bind \/ Spawn \/ EndEvent \/ EndMeta \/ EndReady
      BY <3>2 DEF Bind, Spawn, EndEvent, EndMeta, EndReady
    <3>3. CASE WriteCrumb \/ StartPty \/ SetupStdin \/ PublishRunning \/ DeliverReady \/ ArmWatchers
      BY <3>3 DEF WriteCrumb, StartPty, SetupStdin, PublishRunning, DeliverReady, ArmWatchers, AfterPty
    <3>4. CASE Observe \/ Fail \/ Finish \/ Classify \/ CleanUp \/ EmitExited \/ Persist
      BY <3>4 DEF Observe, Fail, Finish, Classify, CleanUp, EmitExited, Persist
    <3>5. CASE Release \/ RunHooks \/ StopChild \/ FailCleanUp \/ EmitFailed \/ PersistFailed
      BY <3>5 DEF Release, RunHooks, StopChild, FailCleanUp, EmitFailed, PersistFailed
    <3>6. CASE FailReady \/ Crash
      BY <3>6 DEF FailReady, Crash
    <3> QED
      BY <1>1, <3>1, <3>2, <3>3, <3>4, <3>5, <3>6 DEF SidecarStep
  <2>3. \/ meta' = meta /\ (pc' \in Writing => pc \in Writing \cup {"setup"})
        \/ pc' \in Writing => meta'.status \in Live \cup {"Absent"}
    <3> USE DEF Writing, Locking, PreSpawn, Ending, Guarded, Finishing, Failing
    <3>0. CASE WriteStarting
      BY <3>0 DEF Inv, Phases, WriteStarting, WriteMeta, Unrecorded, Live
    <3>1. CASE EndMeta \/ Persist \/ PersistFailed
      BY <3>1 DEF EndMeta, Persist, PersistFailed
    <3>2. CASE PublishRunning
      BY <3>2 DEF Inv, Records, Phases, PublishRunning, WriteMeta, Unrecorded, TransitionRunning, Live
    <3> USE DEF recordVars
    <3>3. CASE Setup \/ Tell \/ FirstScan \/ SignalScanned \/ PollDependencies
      BY <3>3 DEF Setup, Tell, FirstScan, SignalScanned, PollDependencies
    <3>4. CASE Bind \/ Spawn \/ EndEvent \/ EndReady
      BY <3>4 DEF Bind, Spawn, EndEvent, EndReady
    <3>5. CASE WriteCrumb \/ StartPty \/ SetupStdin \/ DeliverReady \/ ArmWatchers
      BY <3>5 DEF WriteCrumb, StartPty, SetupStdin, DeliverReady, ArmWatchers
    <3>6. CASE Observe \/ Fail \/ Finish \/ Classify \/ CleanUp \/ EmitExited
      BY <3>6 DEF Observe, Fail, Finish, Classify, CleanUp, EmitExited
    <3>7. CASE Release \/ RunHooks \/ StopChild \/ FailCleanUp \/ EmitFailed \/ FailReady \/ Crash
      BY <3>7 DEF Release, RunHooks, StopChild, FailCleanUp, EmitFailed, FailReady, Crash
    <3> QED
      BY <1>1, <3>0, <3>1, <3>2, <3>3, <3>4, <3>5, <3>6, <3>7 DEF SidecarStep
  <2>4. \A r \in Reconcilers :
           rec[r].pc \in {"decide", "stop", "log", "write"} => meta' = meta
    BY <1>1, SidecarWrites DEF Inv, LockInv, RecLocking, Locking, PreSpawn, Ending, Guarded,
        Finishing, Failing
  <2> QED
    BY <2>1, <2>2, <2>3, <2>4 DEF Inv, Records, Writing
<1>2. ASSUME NEW r \in Reconcilers, RecStep(r) \/ RecCrashes(r)
      PROVE  Records'
  <2>1. /\ pc' = pc
        /\ \A q \in Reconcilers \ {r} : rec'[q] = rec[q]
        /\ meta' = meta \/ rec[r].pc = "write"
    BY <1>2, ReconcilerFrame DEF Inv
  <2>f. RecFlow(r)
    BY <1>2, RecFlows DEF Inv
  <2>2. rec'[r].pc \in {"decide", "stop", "log", "write"} =>
           /\ meta' = meta
           /\ meta.status \in Live \/ rec[r].pc \in {"decide", "stop", "log", "write"}
    BY <2>f DEF RecFlow, RecReads, RecLocks, RecRereads, DecisionFlow, RecStops, RecLogs, RecWrites,
        RecCrashes, recordVars, Inv, TypeOK, Recs, RecPcs, IdleRec
  <2>3. rec[r].pc = "idle" => meta.status \in Live
    BY <1>2 DEF RecStep, RecReads, RecLocks, RecRereads, RecDecides, RecStops, RecLogs, RecWrites,
        RecCrashes
  <2>4. rec[r].pc = "write" => lock = r
    BY DEF Inv, LockInv, RecLocking
  <2> QED
    BY <2>1, <2>2, <2>3, <2>4
       DEF Inv, Records, LockInv, Live, RecLocking, Locking
<1>3. CASE \/ ThreadStep \/ ChildExits \/ ClientStep \/ ClientGone
           \/ \E k \in Killers : KillStep(k) \/ KillCrashes(k)
    BY <1>3, BystandersFrame DEF Inv, Records, Readiness
<1>4. CASE UNCHANGED vars
    BY <1>4 DEF vars, recordVars, cliVars, Inv, Records
<1> QED
    BY <1>1, <1>2, <1>3, <1>4 DEF Next

\* Every step keeps the evidence of how the child ended.
LEMMA EvidenceStep ==
    ASSUME Inv, [Next]_vars
    PROVE  Evidence'
<1> USE ReconcilersAssumption
\* The child stays reaped and the client stays answered.
<1>0. child = "reaped" /\ Answered => child' = "reaped" /\ Answered'
  <2>1. CASE SidecarStep \/ Crash
    <3> USE DEF sidecarVars, childVars, Answered
    <3>1. CASE Setup \/ Tell \/ WriteStarting \/ FirstScan \/ SignalScanned \/ PollDependencies
      BY <3>1 DEF Setup, Tell, WriteStarting, FirstScan, SignalScanned, PollDependencies, SendReady,
          Inv, Phases
    <3>2. CASE Bind \/ Spawn \/ EndEvent \/ EndMeta \/ EndReady
      BY <3>2 DEF Bind, Spawn, EndEvent, EndMeta, EndReady, SendReady, Inv, Phases, PreSpawn
    <3>3. CASE WriteCrumb \/ StartPty \/ SetupStdin \/ PublishRunning \/ DeliverReady \/ ArmWatchers
      BY <3>3 DEF WriteCrumb, StartPty, SetupStdin, PublishRunning, DeliverReady, ArmWatchers, SendReady
    <3>4. CASE Observe \/ Fail \/ Finish \/ Classify \/ CleanUp \/ EmitExited \/ Persist
      BY <3>4 DEF Observe, Fail, Finish, Classify, CleanUp, EmitExited, Persist
    <3>5. CASE Release \/ RunHooks \/ StopChild \/ FailCleanUp \/ EmitFailed \/ PersistFailed
      BY <3>5 DEF Release, RunHooks, StopChild, FailCleanUp, EmitFailed, PersistFailed, SendReady
    <3>6. CASE FailReady \/ Crash
      BY <3>6 DEF FailReady, Crash, SendReady
    <3> QED
      BY <2>1, <3>1, <3>2, <3>3, <3>4, <3>5, <3>6 DEF SidecarStep
  <2>2. CASE UNCHANGED vars
    BY <2>2 DEF vars, sidecarVars, childVars, Answered
  <2> QED
    BY <2>1, <2>2, OthersFrame DEF Next, Inv, Answered
<1> DEFINE Good == child' = "reaped" /\ Answered'
<1>1. CASE SidecarStep \/ Crash
  <2>1. UNCHANGED rec
    BY <1>1, SidecarFrame
  <2>2. wal' \in ObservedExits => wal' = wal \/ Good
    <3>1. CASE EndEvent \/ EmitFailed
      BY <3>1 DEF EndEvent, EmitFailed, Emit, TransitionSidecarFailed, Inv, Phases, Ending, ObservedExits,
          ChildlessEnds, Live
    <3>2. CASE EmitExited
      BY <3>2, <1>0 DEF EmitExited, Inv, Phases, Readiness, Finishing
    <3> USE DEF recordVars
    <3>3. CASE Setup \/ Tell \/ WriteStarting \/ FirstScan \/ SignalScanned \/ PollDependencies
      BY <3>3 DEF Setup, Tell, WriteStarting, FirstScan, SignalScanned, PollDependencies
    <3>4. CASE Bind \/ Spawn \/ EndMeta \/ EndReady
      BY <3>4 DEF Bind, Spawn, EndMeta, EndReady
    <3>5. CASE WriteCrumb \/ StartPty \/ SetupStdin \/ PublishRunning \/ DeliverReady \/ ArmWatchers
      BY <3>5 DEF WriteCrumb, StartPty, SetupStdin, PublishRunning, DeliverReady, ArmWatchers
    <3>6. CASE Observe \/ Fail \/ Finish \/ Classify \/ CleanUp \/ Persist
      BY <3>6 DEF Observe, Fail, Finish, Classify, CleanUp, Persist
    <3>7. CASE Release \/ RunHooks \/ StopChild \/ FailCleanUp \/ PersistFailed \/ FailReady \/ Crash
      BY <3>7 DEF Release, RunHooks, StopChild, FailCleanUp, PersistFailed, FailReady, Crash
    <3> QED
      BY <1>1, <3>1, <3>2, <3>3, <3>4, <3>5, <3>6, <3>7 DEF SidecarStep
  <2>3. meta'.status \in ObservedExits => meta' = meta \/ Good
    <3>1. CASE meta' = meta
      BY <3>1
    <3>2. CASE pc = "persist"
      BY <3>2, <1>0 DEF Inv, Phases, Readiness, Finishing
    <3>3. CASE pc \in {"starting", "running", "endMeta", "failPersist"}
      <4>1. WriteStarting \/ PublishRunning \/ EndMeta \/ PersistFailed \/ Fail \/ Crash
        BY <1>1, <3>3 DEF SidecarStep, Setup, Tell, FirstScan, SignalScanned, PollDependencies, Bind,
            Spawn, EndEvent, EndReady, WriteCrumb, StartPty, SetupStdin, DeliverReady, ArmWatchers,
            Observe, Finish, Classify, CleanUp, EmitExited, Persist, Release, RunHooks, StopChild,
            FailCleanUp, EmitFailed, FailReady
      <4>2. mem \notin ObservedExits
        BY <3>3 DEF Inv, Phases, PreSpawn, Ending, ObservedExits, ChildlessEnds
      <4>3. CASE WriteStarting
        BY <4>2, <4>3 DEF WriteStarting, WriteMeta, Unrecorded
      <4>4. CASE PublishRunning
        BY <4>2, <4>4 DEF PublishRunning, WriteMeta, Unrecorded, TransitionRunning, ObservedExits
      <4>5. CASE EndMeta
        BY <4>2, <4>5 DEF EndMeta, WriteMeta, Direct
      <4>6. CASE PersistFailed
        BY <4>2, <4>6 DEF PersistFailed, WriteMeta, Direct
      <4>7. CASE Fail \/ Crash
        BY <4>7 DEF Fail, Crash, recordVars
      <4> QED
        BY <4>1, <4>3, <4>4, <4>5, <4>6, <4>7
    <3> QED
      BY <1>1, <3>1, <3>2, <3>3, SidecarWrites
  <2> QED
    BY <1>0, <2>1, <2>2, <2>3 DEF Inv, Evidence
<1>2. ASSUME NEW r \in Reconcilers, RecStep(r) \/ RecCrashes(r)
      PROVE  Evidence'
  <2>1. /\ wal' = wal
        /\ \A q \in Reconcilers \ {r} : rec'[q] = rec[q]
    BY <1>2, ReconcilerFrame DEF Inv
  <2>2. rec[r].seen \in Live \cup {"Absent"}
    BY DEF Inv, Evidence
  <2>f. RecFlow(r)
    BY <1>2, RecFlows DEF Inv
  <2>3. rec'[r].seen \in Live \cup {"Absent"}
    BY <2>f, <2>2 DEF RecFlow, RecReads, RecLocks, RecRereads, DecisionFlow, RecStops, RecLogs, RecWrites,
        RecCrashes, Inv, TypeOK, Recs, IdleRec
  <2>4. \A s \in ObservedExits : Chosen(r, s) => s = wal
    BY <2>2, ChosenFromLog
  <2>5. rec'[r].next \in {rec[r].next, "Absent"} \/ Chosen(r, rec'[r].next)
    BY <1>2, NextChosen DEF Inv
  <2>6. meta' = meta \/ meta'.status = rec[r].next
    BY <2>f DEF RecFlow, RecReads, RecLocks, RecRereads, DecisionFlow, RecStops, RecLogs, RecWrites,
        RecCrashes, WriteMeta, RecRecord, recordVars
  <2>7. "Absent" \notin ObservedExits
    BY DEF ObservedExits
  <2> QED
    BY <1>0, <2>1, <2>3, <2>4, <2>5, <2>6, <2>7 DEF Inv, Evidence
<1>3. CASE \/ ThreadStep \/ ChildExits \/ ClientStep \/ ClientGone
           \/ \E k \in Killers : KillStep(k) \/ KillCrashes(k)
  <2>1. "Removed" \notin ObservedExits /\ "none" \notin ObservedExits
    BY DEF ObservedExits
  <2> QED
    BY <1>0, <1>3, <2>1, BystandersFrame DEF Inv, Evidence
<1>4. CASE UNCHANGED vars
    BY <1>0, <1>4 DEF vars, recordVars, cliVars, Inv, Evidence
<1> QED
    BY <1>1, <1>2, <1>3, <1>4 DEF Next

(***************************************************************************)
(* The theorems                                                            *)
(***************************************************************************)
LEMMA InitInv == Init => Inv
<1> SUFFICES ASSUME Init PROVE Inv
    OBVIOUS
<1>1. TypeOK
  <2>1. meta \in Metas
    BY UnrecordedType, LiveTypes DEF Init
  <2>2. IdleRec \in Recs
    BY DEF IdleRec, Recs, RecPcs, Sources, MetaStatuses
  <2>3. [pc |-> "idle", force |-> FALSE, named |-> FALSE] \in Kils
    BY DEF Kils, KilPcs
  <2>4. /\ lostEvent \in BOOLEAN /\ salvaged \in BOOLEAN /\ killForced \in BOOLEAN
        /\ killActed \in BOOLEAN /\ gone \in BOOLEAN /\ cancel \in BOOLEAN /\ timedOut \in BOOLEAN
    BY DEF Init
  <2>5. rec \in [Reconcilers -> Recs] /\ kil \in [Killers -> Kils]
    BY <2>2, <2>3 DEF Init
  <2>6. /\ spec \in LaunchSpecs /\ dir = "present" /\ wal = "none" /\ crumb = "none"
        /\ killReq = "none" /\ lock = "free" /\ pc = "setup" /\ mem = "Starting" /\ how = "none"
        /\ ready = "owed" /\ timer = "off" /\ watcher = "off" /\ child = "none" /\ exit = "none"
        /\ hit = {} /\ client = "waiting"
    BY DEF Init
  <2> QED
    BY <2>1, <2>4, <2>5, <2>6 DEF TypeOK, SidecarPcs, Live
<1>2. Phases
    BY DEF Init, Phases, PreSpawn, Ending, Finishing
<1>3. Readiness
    BY DEF Init, Readiness, Answered, Finishing
<1>4. LockInv
    BY ReconcilersAssumption DEF Init, LockInv, IdleRec, RecLocking, Locking, PreSpawn, Ending,
        Guarded, Finishing, Failing
<1>5. Records
    BY DEF Init, Records, Unrecorded, IdleRec, Locking, PreSpawn, Ending, Guarded, Finishing, Failing
<1>6. Evidence
    BY DEF Init, Evidence, Unrecorded, IdleRec, ObservedExits
<1> QED
    BY <1>1, <1>2, <1>3, <1>4, <1>5, <1>6 DEF Inv

\* Every step keeps the invariant, one lemma per part.
LEMMA InvStep == Inv /\ [Next]_vars => Inv'
BY TypeStep, PhasesStep, ReadinessStep, LockStep, RecordsStep, EvidenceStep DEF Inv

\* Inv is an invariant.
THEOREM InvHolds == Spec => []Inv
BY InitInv, InvStep, PTL DEF Spec

\* Type correctness.  In particular wal only ever holds a status that the sidecar may
\* record, which rests on what each program point knows of the run.
THEOREM TypesHold == Spec => []TypeOK
<1>1. Inv => TypeOK
    BY DEF Inv
<1> QED
    BY <1>1, InvHolds, PTL

\* Whoever wrote it, sidecar or reconciler, an observed exit is of a reaped child.
THEOREM ObservedMeansReapedHolds == Spec => []ObservedMeansReaped
<1>1. Inv => ObservedMeansReaped
    BY DEF Inv, Evidence, ObservedMeansReaped
<1> QED
    BY <1>1, InvHolds, PTL

\* Mutual exclusion of everyone who writes a terminal record.
THEOREM OneWriterHolds == Spec => []OneWriter
<1>1. Inv => OneWriter
    BY ReconcilersAssumption DEF Inv, LockInv, OneWriter
<1> QED
    BY <1>1, InvHolds, PTL

\* Terminal records are final, for any number of reconcilers and any faults: a sidecar
\* or a reconciler writes only over a live record, and the client that deletes the
\* directory was never answered.
THEOREM TerminalFinalHolds == Spec => TerminalFinal
<1> DEFINE Final ==
        meta.status \in Terminals =>
            meta' = meta \/ (meta'.status = "Removed" /\ meta.status \notin ObservedExits)
<1>1. ASSUME Inv, [Next]_vars PROVE [Final]_vars
  <2> USE DEF Terminals, SidecarEnds, ExitReasons, ObservedExits, ChildlessEnds, Live
  <2>1. CASE SidecarStep \/ Crash
    BY <1>1, <2>1, SidecarWrites DEF Inv, Records, Locking, PreSpawn, Ending, Guarded, Finishing, Failing
  <2>2. ASSUME NEW r \in Reconcilers, RecStep(r) \/ RecCrashes(r)
        PROVE  Final
    BY <1>1, <2>2, ReconcilerFrame DEF Inv, Records
  <2>3. CASE \/ ThreadStep \/ ChildExits \/ ClientStep \/ ClientGone
             \/ \E k \in Killers : KillStep(k) \/ KillCrashes(k)
    BY <1>1, <2>3, BystandersFrame DEF Inv, Evidence, Answered
  <2>4. CASE UNCHANGED vars
    BY <2>4
  <2> QED
    BY <1>1, <2>1, <2>2, <2>3, <2>4 DEF Next
<1> QED
    BY <1>1, InvHolds, PTL DEF Spec, TerminalFinal

(***************************************************************************)
(* What a run's record says                                                *)
(***************************************************************************)
\* What meta.json shows at each point of the sidecar that holds the lock.
Published ==
    /\ pc \in PreSpawn \cup {"endEvent", "endMeta", "crumb", "pty", "stdin", "running"} =>
          meta.status \in {"Absent", "Starting"}
    /\ pc \in {"scan", "readyPoll", "readySpawn", "poll"} => meta.status = "Starting"
    /\ pc \in {"ready", "watch", "supervise", "finish", "classify", "cleanUp", "event", "persist"} =>
          meta.status = "Running"
    /\ pc \in {"endReady", "failReady"} => meta.status = mem
    /\ pc = "setup" => ready = "owed"

\* Only a record that ends the run has a provenance.
Unended == meta.status \in Live \cup {"Absent", "Removed"} => meta.prov = "none"

\* A refused client was told of an error or found the pipe closed; the directory it
\* removes has no breadcrumb, and nothing writes one or a terminal event afterwards.
Refused ==
    /\ client = "refused" => ready \in {"error", "eof"}
    /\ meta.status = "Removed" => Discarded /\ wal = "none"

\* The child exists from the spawn on, and a childless end is of a run that never got there.
Spawned ==
    /\ pc \in Ending => child = "none"
    /\ pc \in Guarded \cup Failing \cup {"hooks"} => child # "none"
    /\ meta.status = "Running" => child # "none"
    /\ \A s \in {wal} \cup {rec[r].next : r \in Reconcilers} :
          s \in ChildlessEnds =>
             child = "none" /\ pc \in {"endMeta", "endReady", "endRelease", "tell", "dead", "crashed"}
    /\ wal \in ObservedExits => meta.status \notin {"Absent", "Starting"}

\* What a live record may become when it is healed or inferred.
Outcomes(seen) ==
    IF seen = "Running" THEN ExitReasons \cup {"SidecarLost"}
    ELSE ChildlessEnds \cup {"SidecarFailed", "SidecarLost"}

\* No child is known of by the breadcrumb, given what could not be read.
NoCrumb(missed) == crumb # "whole" \/ "crumb" \in missed

\* The log holds nothing that could be replayed, or what it holds could not be read.
NothingToReplay(missed) ==
    wal = "none" \/ "log" \in missed \/ (wal = "SidecarFailed" /\ NoCrumb(missed))

\* What a reconciler knows between its re-read and its write.
DecidedBy(r) ==
    /\ rec[r].pc \in {"decide", "stop", "log", "write"} =>
          /\ rec[r].seen \in Live
          /\ meta.status \in {rec[r].seen, "Removed"}
          /\ rec[r].seen = "Running" => child # "none"
    /\ rec[r].pc \in {"stop", "log", "write"} =>
          /\ rec[r].next \in Outcomes(rec[r].seen)
          /\ rec[r].next = "SidecarLost" => NothingToReplay(rec[r].missed)
          /\ rec[r].next # "SidecarLost" => wal = rec[r].next \/ Discarded
    /\ rec[r].pc = "log" => rec[r].next = "SidecarLost"
    /\ rec[r].pc = "write" /\ rec[r].next = "SidecarLost" =>
          lostEvent \/ Discarded \/ MayFail("event_append")
    /\ rec[r].pc \in {"log", "write"} /\ child = "alive" =>
          rec[r].word \/ (NoCrumb(rec[r].missed) /\ rec[r].next = "SidecarLost")

Decided == \A r \in Reconcilers : DecidedBy(r)

\* A removed directory stays away from a run that had no child: only the hooks of a
\* child's end, or the inferred event of a loss, bring one back.
StaysRemoved ==
    \A r \in Reconcilers :
        /\ meta.status = "Removed" /\ child = "none"
        /\ rec[r].pc \in {"decide", "stop", "log", "write"}
        /\ rec[r].pc = "write" => rec[r].next # "SidecarLost"
        => dir = "removed"

\* The event precedes the record, for the sidecar too.
Logged ==
    /\ pc \in {"endMeta", "persist", "failPersist"} => wal = mem \/ salvaged
    /\ LogDecides

\* A child that runs is where someone looks for it, the supervisor apart.
Found ==
    /\ pc \in Failing \ {"stop"} /\ child = "alive" => ~gone
    /\ child = "alive" =>
        \/ meta.word \/ (salvaged /\ ~gone)
        \/ meta.status = "Running"
        \/ crumb = "whole" /\ meta.status \in {"Absent", "Starting"}
        \/ /\ crumb # "whole" \/ "crumb" \in meta.missed
           /\ meta.status \in {"Absent", "Starting", "SidecarLost", "Removed"}

\* How an exit s may be classified, given who found the child alive.
Fits(s) ==
    /\ "timeout" \in hit => s = "TimedOut"
    /\ "forced" \in hit => s \notin {"ExitedOk", "ExitedError"}
    /\ "graceful" \in hit => s \notin {"ExitedOk", "ExitedError"}

\* Each kill leaves its mark before it strikes, and the mark is there until the exit is
\* classified; what is recorded afterwards fits.
Marked ==
    /\ "timeout" \in hit => timedOut
    /\ "forced" \in hit => child \in {"dead", "reaped"} /\ exit = "Killed"
    /\ timer \in {"fired", "done"} => timedOut
    /\ "graceful" \in hit => watcher # "off"
    /\ pc \in {"setup", "crumb", "pty", "stdin", "running", "ready", "watch"} \cup PreSpawn =>
          watcher = "off"
    /\ watcher # "off" => Answered
    /\ "graceful" \in hit /\ pc \in {"supervise", "finish", "classify"} => killActed
    /\ pc \in {"finish", "classify"} => how = exit
    /\ pc \in {"cleanUp", "event"} => Fits(how)
    /\ pc \in {"persist", "release"} => Fits(mem)
    /\ \A s \in {wal, meta.status} \cup {rec[r].next : r \in Reconcilers} :
          s \in ObservedExits => Fits(s)

Told ==
    /\ Published /\ Unended /\ Refused /\ Spawned /\ Decided /\ StaysRemoved /\ Logged /\ Found
    /\ Marked

(***************************************************************************)
(* What each process may do                                                *)
(***************************************************************************)
SidecarMove == SidecarStep \/ Crash
QuietMove == ThreadStep \/ ChildExits \/ \E k \in Killers : KillStep(k) \/ KillCrashes(k)
ClientMove == ClientStep \/ ClientGone
RecMove(r) == RecStep(r) \/ RecCrashes(r)

\* Every step is one of these, or a stutter.
LEMMA Movers ==
    ASSUME [Next]_vars
    PROVE  \/ SidecarMove \/ QuietMove \/ ClientMove \/ (\E r \in Reconcilers : RecMove(r))
           \/ UNCHANGED vars
BY DEF Next, SidecarMove, QuietMove, ClientMove, RecMove

\* The record that a step leaves in meta.json.
Leaves(s, prov, word) == meta'.status = s /\ meta'.prov = prov /\ meta'.word = word

\* What the sidecar writes into meta.json, and where.
LEMMA SidecarRecords ==
    ASSUME Inv, SidecarMove
    PROVE  \/ meta' = meta
           \/ pc = "starting" /\ Leaves("Starting", "none", FALSE)
           \/ pc = "running" /\ Leaves("Running", "none", FALSE)
           \/ pc \in {"endMeta", "persist"} /\ Leaves(mem, "direct", FALSE) /\ mem' = mem
           \/ pc = "failPersist" /\ Leaves(mem, "direct", ~gone) /\ UNCHANGED <<mem, gone>>
<1> USE DEF recordVars, sidecarVars
<1>1. CASE WriteStarting
    BY <1>1 DEF WriteStarting, WriteMeta, Leaves, Unrecorded, Inv, Phases, PreSpawn
<1>2. CASE PublishRunning
    BY <1>2 DEF PublishRunning, WriteMeta, Leaves, Unrecorded, TransitionRunning, Inv, Phases
<1>3. CASE EndMeta \/ Persist
    BY <1>3 DEF EndMeta, Persist, WriteMeta, Leaves, Direct
<1>4. CASE PersistFailed
    BY <1>4 DEF PersistFailed, WriteMeta, Leaves, Direct
<1>5. CASE Setup \/ Tell \/ FirstScan \/ SignalScanned \/ PollDependencies \/ Bind \/ Spawn \/ EndEvent
           \/ EndReady
    BY <1>5 DEF Setup, Tell, FirstScan, SignalScanned, PollDependencies, Bind, Spawn, EndEvent, EndReady
<1>6. CASE WriteCrumb \/ StartPty \/ SetupStdin \/ DeliverReady \/ ArmWatchers \/ Observe \/ Fail
    BY <1>6 DEF WriteCrumb, StartPty, SetupStdin, DeliverReady, ArmWatchers, Observe, Fail
<1>7. CASE Finish \/ Classify \/ CleanUp \/ EmitExited \/ Release \/ RunHooks
    BY <1>7 DEF Finish, Classify, CleanUp, EmitExited, Release, RunHooks
<1>8. CASE StopChild \/ FailCleanUp \/ EmitFailed \/ FailReady \/ Crash
    BY <1>8 DEF StopChild, FailCleanUp, EmitFailed, FailReady, Crash
<1> QED
    BY <1>1, <1>2, <1>3, <1>4, <1>5, <1>6, <1>7, <1>8 DEF SidecarMove, SidecarStep

\* What the sidecar does to the log, the breadcrumb, the child and the directory, and what it
\* leaves to others.
LEMMA SidecarElse ==
    ASSUME Inv, SidecarMove
    PROVE  /\ UNCHANGED <<lostEvent, client, rec, hit, exit, timedOut>>
           /\ (salvaged => salvaged')
           /\ ready \notin {"owed", ready'} => pc = "setup"
           /\ dir' = dir \/ pc = "hooks"
           /\ gone' = gone \/ pc = "stop"
           /\ \/ wal' = wal
              \/ pc \in {"endEvent", "event", "failEvent"} /\ wal' = mem'
           /\ \/ crumb' = crumb \/ pc = "crumb"
              \/ pc \in {"cleanUp", "failPersist"} /\ crumb' = "none"
           /\ \/ child' = child
              \/ pc = "spawn" /\ child' = "alive" /\ pc' = "crumb"
              \/ pc = "supervise" /\ child = "dead" /\ child' = "reaped"
              \/ pc = "stop" /\ child' = "reaped"
<1> USE DEF recordVars, sidecarVars, childVars, cliVars, threadVars, SendReady
<1>1. CASE Setup \/ Tell \/ WriteStarting \/ FirstScan \/ SignalScanned \/ PollDependencies \/ Bind
           \/ Spawn
    BY <1>1 DEF Setup, Tell, WriteStarting, FirstScan, SignalScanned, PollDependencies, Bind, Spawn
<1>2. CASE EndEvent \/ EmitExited \/ EmitFailed
  <2>1. salvaged => salvaged'
    BY <1>2 DEF EndEvent, EmitExited, EmitFailed, Emit
  <2> QED
    BY <1>2, <2>1 DEF EndEvent, EmitExited, EmitFailed, Emit
<1>3. CASE EndMeta \/ EndReady \/ PublishRunning \/ WriteCrumb
  <2>1. salvaged' = salvaged
    BY <1>3 DEF EndMeta, EndReady, PublishRunning, WriteCrumb
  <2> QED
    BY <1>3, <2>1 DEF EndMeta, EndReady, PublishRunning, WriteCrumb
<1>4. CASE StartPty \/ SetupStdin \/ DeliverReady \/ ArmWatchers
    BY <1>4 DEF StartPty, SetupStdin, DeliverReady, ArmWatchers
<1>5. CASE Observe \/ Fail \/ Finish \/ Classify \/ CleanUp \/ Release \/ RunHooks
    BY <1>5 DEF Observe, Fail, Finish, Classify, CleanUp, Release, RunHooks
<1>6. CASE StopChild \/ FailCleanUp \/ FailReady \/ Crash
    BY <1>6 DEF StopChild, FailCleanUp, FailReady, Crash
<1>7. CASE Persist
    BY <1>7 DEF Persist, Inv, TypeOK
<1>8. CASE PersistFailed
  <2>1. salvaged => salvaged'
    BY <1>8 DEF PersistFailed
  <2> QED
    BY <1>8, <2>1 DEF PersistFailed
<1> QED
    BY <1>1, <1>2, <1>3, <1>5, <1>6, <1>7, <1>8, <1>4 DEF SidecarMove, SidecarStep

\* The terminal events the sidecar appends.
LEMMA SidecarLogs ==
    ASSUME Inv, SidecarMove
    PROVE  \/ wal' = wal
           \/ pc = "endEvent" /\ wal' = mem /\ mem \in ChildlessEnds
           \/ pc = "event" /\ wal' = how /\ how \in ObservedExits
           \/ pc = "failEvent" /\ wal' = "SidecarFailed"
<1>1. CASE EndEvent
    BY <1>1 DEF EndEvent, Emit, Inv, Phases, Ending
<1>2. CASE EmitExited
    BY <1>2 DEF EmitExited, Emit, TransitionExited, Inv, Phases
<1>3. CASE EmitFailed
    BY <1>3 DEF EmitFailed, Emit, TransitionSidecarFailed, Inv, Phases
<1>4. CASE wal' = wal
    BY <1>4
<1>5. pc \in {"endEvent", "event", "failEvent"} /\ wal' # wal => EndEvent \/ EmitExited \/ EmitFailed
    BY DEF SidecarMove, SidecarStep, Setup, Tell, WriteStarting, FirstScan, SignalScanned, PollDependencies,
        Bind, Spawn, EndMeta, EndReady, WriteCrumb, StartPty, SetupStdin, PublishRunning, DeliverReady,
        ArmWatchers, Observe, Fail, Finish, Classify, CleanUp, Persist, Release, RunHooks, StopChild,
        FailCleanUp, PersistFailed, FailReady, Crash, recordVars
<1> QED
    BY <1>1, <1>2, <1>3, <1>4, <1>5, SidecarElse

\* How the sidecar gets from point to point, and what it has just done there.
SidecarFlow ==
    /\ pc' # "setup"
    /\ pc' \in PreSpawn => pc \in {"setup"} \cup PreSpawn
    /\ pc' = "scan" => pc = "starting" /\ Leaves("Starting", "none", FALSE)
    /\ pc' \in {"readyPoll", "readySpawn", "poll"} => pc \in {"scan", "readyPoll", "readySpawn"}
    /\ pc' = "endEvent" => pc \in PreSpawn
    /\ pc' = "endMeta" => pc = "endEvent" /\ (wal' = mem' \/ salvaged')
    /\ pc' = "endReady" => pc = "endMeta" /\ Leaves(mem, "direct", FALSE) /\ mem' = mem
    /\ pc' = "endRelease" => pc = "endReady"
    /\ pc' = "crumb" => pc = "spawn" /\ child' = "alive"
    /\ pc' \in {"pty", "stdin", "running"} => pc \in {"crumb", "pty", "stdin"}
    /\ pc' = "ready" => pc = "running" /\ Leaves("Running", "none", FALSE)
    /\ pc' = "watch" => pc = "ready"
    /\ pc' = "supervise" => pc = "watch"
    /\ pc' = "finish" => pc = "supervise" /\ how' = exit
    /\ pc' = "classify" => pc = "finish" /\ how' = how
    /\ pc' = "cleanUp" => pc = "classify"
    /\ pc' = "event" => pc = "cleanUp" /\ how' = how
    /\ pc' = "persist" => pc = "event" /\ mem' = TransitionExited(mem, how) /\ (wal' = mem' \/ salvaged')
    /\ pc' = "release" => pc = "persist" /\ mem' = mem
    /\ pc' = "stop" => pc \in Guarded
    /\ pc' = "failCleanUp" => pc = "stop" /\ (child' = "reaped" \/ ~gone')
    /\ pc' = "failEvent" => pc = "failCleanUp" /\ gone' = gone
    /\ pc' = "failPersist" => pc = "failEvent" /\ gone' = gone /\ (wal' = mem' \/ salvaged')
    /\ pc' = "failReady" =>
          pc = "failPersist" /\ UNCHANGED <<gone, mem>> /\ Leaves(mem, "direct", ~gone)
    /\ pc' = "failRelease" => gone' = gone /\ (pc = "failReady" \/ (pc = "failPersist" /\ salvaged'))
    /\ pc' = "hooks" => pc \in {"release", "failRelease"}
    /\ pc' = "tell" => pc \in {"setup", "starting", "endMeta"}
    /\ pc' = "dead" => pc \in {"tell", "hooks", "endRelease"}

\* The sidecar goes from point to point only along its paths through supervision.
LEMMA SidecarFlows ==
    ASSUME Inv, SidecarMove
    PROVE  SidecarFlow
<1> USE DEF SidecarFlow, PreSpawn, Guarded
<1> USE DEF recordVars, sidecarVars, childVars
<1>1. CASE Setup
    BY <1>1 DEF Setup, AfterDeps
<1>2. CASE Tell
    BY <1>2 DEF Tell
<1>3. CASE WriteStarting
    BY <1>3 DEF WriteStarting, WriteMeta, Leaves, Unrecorded, Inv, Phases
<1>4. CASE FirstScan
    BY <1>4 DEF FirstScan
<1>5. CASE SignalScanned
    BY <1>5 DEF SignalScanned, AfterDeps
<1>6. CASE PollDependencies
    BY <1>6 DEF PollDependencies, AfterDeps
<1>7. CASE Bind \/ Spawn
    BY <1>7 DEF Bind, Spawn
<1>8. CASE EndEvent
    BY <1>8 DEF EndEvent, Emit
<1>9. CASE EndMeta
    BY <1>9 DEF EndMeta, WriteMeta, Leaves, Direct
<1>10. CASE EndReady
    BY <1>10 DEF EndReady
<1>11. CASE WriteCrumb \/ StartPty \/ SetupStdin
    BY <1>11 DEF WriteCrumb, StartPty, SetupStdin, AfterPty
<1>12. CASE PublishRunning
    BY <1>12 DEF PublishRunning, WriteMeta, Leaves, Unrecorded, TransitionRunning, Inv, Phases
<1>13. CASE DeliverReady \/ ArmWatchers
    BY <1>13 DEF DeliverReady, ArmWatchers
<1>14. CASE Observe \/ Fail
    BY <1>14 DEF Observe, Fail
<1>15. CASE Finish \/ Classify \/ CleanUp
    BY <1>15 DEF Finish, Classify, CleanUp
<1>16. CASE EmitExited
    BY <1>16 DEF EmitExited, Emit
<1>17. CASE Persist
    BY <1>17 DEF Persist
<1>18. CASE Release \/ RunHooks
    BY <1>18 DEF Release, RunHooks
<1>19. CASE StopChild \/ FailCleanUp
    BY <1>19 DEF StopChild, FailCleanUp
<1>20. CASE EmitFailed
    BY <1>20 DEF EmitFailed, Emit
<1>21. CASE PersistFailed
    BY <1>21 DEF PersistFailed, WriteMeta, Leaves, Direct
<1>22. CASE FailReady \/ Crash
    BY <1>22 DEF FailReady, Crash
<1> QED
    BY <1>1, <1>2, <1>3, <1>4, <1>5, <1>6, <1>7, <1>8, <1>9, <1>10, <1>11, <1>12,
       <1>13, <1>14, <1>15, <1>16, <1>17, <1>18, <1>19, <1>20, <1>21, <1>22
       DEF SidecarMove, SidecarStep

\* Threads, the child and killers change no record; the child can only end.
LEMMA QuietFrame ==
    ASSUME QuietMove
    PROVE  /\ UNCHANGED <<recordVars, crumb, lock, pc, sidecarVars, client, rec>>
           /\ UNCHANGED <<child, exit>> \/ (child = "alive" /\ child' = "dead")
<1> USE DEF recordVars, controlVars, sidecarVars, threadVars, childVars, cliVars
<1>1. CASE ThreadStep \/ ChildExits
    BY <1>1 DEF ThreadStep, TimerDue, TimerFlags, TimerKills, WatcherReads, WatcherMarks,
        WatcherTerms, WatcherKills, ChildExits, KillChild
<1>2. ASSUME NEW k \in Killers, KillStep(k) \/ KillCrashes(k)
      PROVE  /\ UNCHANGED <<recordVars, crumb, lock, pc, sidecarVars, client, rec>>
             /\ UNCHANGED <<child, exit>> \/ (child = "alive" /\ child' = "dead")
    BY <1>2 DEF KillStep, KillReads, KillMarks, KillProbes, KillRequests, KillPolls, KillDirect,
        KillEscalates, KillCrashes, KillChild, kilFrame
<1> QED
    BY <1>1, <1>2 DEF QuietMove

\* The start client reads the pipe once; an error or its end lets it remove the directory.
LEMMA ClientFrame ==
    ASSUME ClientMove
    PROVE  /\ UNCHANGED <<crumb, lock, pc, sidecarVars, threadVars, childVars, rec, salvaged>>
           /\ client' = "refused" => ready \in {"error", "eof"}
           /\ client # "refused"
           /\ \/ UNCHANGED <<recordVars, killActed>>
              \/ /\ client' = "refused" /\ crumb = "none" /\ wal' = "none"
                 /\ dir' = "removed" /\ Leaves("Removed", "none", FALSE) /\ lostEvent' = FALSE
BY DEF ClientMove, ClientStep, Leaves, Unrecorded, ClientAnswered, ClientRefused, ClientGone, RemoveDir, recordVars,
       sidecarVars, threadVars, childVars, controlVars

\* A reconciler moves its own record, and meta.json only by its last write.
LEMMA RecFrame ==
    ASSUME TypeOK, NEW r \in Reconcilers, RecMove(r)
    PROVE  /\ UNCHANGED <<crumb, pc, sidecarVars, threadVars, client, wal, salvaged, killActed>>
           /\ \A q \in Reconcilers \ {r} : rec'[q] = rec[q]
           /\ meta' = meta \/ (rec[r].pc = "write" /\ dir = "present" /\ meta' = RecRecord(r))
           /\ UNCHANGED <<child, exit, hit>>
              \/ (child = "alive" /\ child' = "dead" /\ hit' = hit \cup {"orphan"})
           /\ UNCHANGED <<dir, lostEvent>>
              \/ (rec[r].pc = "log" /\ dir' = "present" /\ lostEvent' = TRUE)
<1> USE DEF recFrame, recordVars, sidecarVars, threadVars, childVars, controlVars
<1>1. CASE RecReads(r) \/ RecLocks(r) \/ RecRereads(r) \/ RecDecides(r) \/ RecCrashes(r)
    BY <1>1 DEF RecReads, RecLocks, RecRereads, RecDecides, RecCrashes, TypeOK
<1>2. CASE RecStops(r)
    BY <1>2 DEF RecStops, TypeOK
<1>3. CASE RecLogs(r)
    BY <1>3 DEF RecLogs, TypeOK
<1>4. CASE RecWrites(r)
    BY <1>4 DEF RecWrites, WriteMeta, TypeOK
<1> QED
    BY <1>1, <1>2, <1>3, <1>4 DEF RecMove, RecStep

(***************************************************************************)
(* The parts of Told, one lemma each                                       *)
(***************************************************************************)
\* A refused client means that the sidecar is past its last record.
LEMMA RefusedMeansOver ==
    ASSUME Inv, ready \in {"error", "eof"}
    PROVE  pc \in {"tell", "failRelease", "hooks", "dead", "crashed"}
BY DEF Inv, TypeOK, Readiness, SidecarPcs, Locking

\* A reconciler that holds the lock has the sidecar out of the way.
LEMMA RecMeansUnlocked ==
    ASSUME Inv, NEW r \in Reconcilers, rec[r].pc \in RecLocking
    PROVE  /\ pc \in {"tell", "hooks", "dead", "crashed"}
           /\ \A q \in Reconcilers : rec[q].pc \in RecLocking => q = r
<1>1. lock = r /\ lock # "sidecar"
    BY ReconcilersAssumption DEF Inv, LockInv
<1>2. pc \notin Locking /\ pc # "setup"
    BY <1>1 DEF Inv, LockInv, Records, RecLocking
<1> QED
    BY <1>1, <1>2 DEF Inv, TypeOK, SidecarPcs, LockInv

\* What a reconciler writes ends the run.
LEMMA RecordEnds ==
    ASSUME Told, NEW r \in Reconcilers, rec[r].pc = "write"
    PROVE  RecRecord(r).status \in Terminals
BY DEF Told, Decided, DecidedBy, Outcomes, RecRecord, Terminals, SidecarEnds, ExitReasons

\* What meta.json shows at each point of the sidecar is kept by every step.
LEMMA PublishedStep ==
    ASSUME Inv, Told, [Next]_vars
    PROVE  Published'
<1>0. Published
    BY DEF Told
<1>1. CASE SidecarMove
  <2>1. SidecarFlow
    BY <1>1, SidecarFlows
  <2>2. pc \in PreSpawn \cup {"endEvent", "crumb", "pty", "stdin"} => meta'.status \in {meta.status, "Starting"}
    BY <1>1, SidecarRecords DEF Leaves, PreSpawn
  <2>3. pc \in {"scan", "readyPoll", "readySpawn", "ready", "watch", "supervise", "finish", "classify",
                "cleanUp", "event", "setup"} => meta' = meta
    BY <1>1, SidecarRecords
  <2>4. pc = "setup" => meta.status = "Absent"
    BY DEF Inv, Records
  <2> QED
    BY <1>0, <2>1, <2>2, <2>3, <2>4 DEF Leaves, Published, SidecarFlow, PreSpawn
<1>2. ASSUME NEW r \in Reconcilers, RecMove(r) PROVE Published'
  <2>1. /\ UNCHANGED <<pc, sidecarVars>>
        /\ meta' = meta \/ rec[r].pc = "write"
    BY <1>2, RecFrame DEF Inv
  <2>2. rec[r].pc = "write" => pc \in {"tell", "hooks", "dead", "crashed"}
    BY RecMeansUnlocked DEF RecLocking
  <2> QED
    BY <1>0, <2>1, <2>2 DEF Published, PreSpawn, sidecarVars
<1>3. CASE ClientMove
    BY <1>0, <1>3, ClientFrame, RefusedMeansOver DEF Published, PreSpawn, sidecarVars, recordVars
<1>4. CASE QuietMove
    BY <1>0, <1>4, QuietFrame DEF Published, sidecarVars, recordVars
<1>5. CASE UNCHANGED vars
    BY <1>0, <1>5 DEF Published, vars, sidecarVars, recordVars
<1> QED
    BY <1>1, <1>2, <1>3, <1>4, <1>5, Movers

\* A live record never gets a provenance, whoever writes it.
LEMMA UnendedStep ==
    ASSUME Inv, Told, [Next]_vars
    PROVE  Unended'
<1>0. Unended
    BY DEF Told
<1>1. CASE SidecarMove
  <2>1. pc \in {"endMeta", "persist", "failPersist"} => mem \notin Live \cup {"Absent", "Removed"}
    BY DEF Inv, Phases, Ending, ChildlessEnds, ObservedExits, Live
  <2> QED
    BY <1>0, <1>1, <2>1, SidecarRecords DEF Leaves, Unended
<1>2. ASSUME NEW r \in Reconcilers, RecMove(r) PROVE Unended'
  <2>1. meta' = meta \/ (rec[r].pc = "write" /\ meta' = RecRecord(r))
    BY <1>2, RecFrame DEF Inv
  <2>2. \A s \in Terminals : s \notin Live \cup {"Absent", "Removed"}
    BY DEF Terminals, SidecarEnds, ExitReasons, ObservedExits, ChildlessEnds, Live
  <2> QED
    BY <1>0, <2>1, <2>2, RecordEnds DEF Unended
<1>3. CASE ClientMove
    BY <1>0, <1>3, ClientFrame DEF Leaves, Unended, recordVars
<1>4. CASE QuietMove
    BY <1>0, <1>4, QuietFrame DEF Unended, recordVars
<1>5. CASE UNCHANGED vars
    BY <1>0, <1>5 DEF Unended, vars, recordVars
<1> QED
    BY <1>1, <1>2, <1>3, <1>4, <1>5, Movers

\* A refused client stays refused, and what it removed stays without an event.
LEMMA RefusedStep ==
    ASSUME Inv, Told, [Next]_vars
    PROVE  Refused'
<1>0. Refused /\ Published
    BY DEF Told
<1>1. CASE SidecarMove
  <2>1. /\ client' = client
        /\ client = "refused" => ready' = ready
    BY <1>0, <1>1, SidecarElse DEF Refused, Published
  <2>2. client = "refused" => wal' = wal /\ (crumb = "none" => crumb' = "none")
    BY <1>0, <1>1, SidecarElse, RefusedMeansOver DEF Refused
  <2>3. meta'.status = "Removed" => meta' = meta
    BY <1>1, SidecarRecords DEF Leaves, Inv, Phases, Ending, ChildlessEnds, ObservedExits
  <2> QED
    BY <1>0, <2>1, <2>2, <2>3 DEF Refused, Discarded
<1>2. ASSUME NEW r \in Reconcilers, RecMove(r) PROVE Refused'
  <2>1. /\ UNCHANGED <<client, crumb, wal, ready>>
        /\ meta' = meta \/ (rec[r].pc = "write" /\ meta' = RecRecord(r))
    BY <1>2, RecFrame DEF Inv, sidecarVars
  <2>2. "Removed" \notin Terminals
    BY DEF Terminals, SidecarEnds, ExitReasons, ObservedExits, ChildlessEnds
  <2> QED
    BY <1>0, <2>1, <2>2, RecordEnds DEF Refused, Discarded
<1>3. CASE ClientMove
    BY <1>0, <1>3, ClientFrame DEF Refused, Discarded, recordVars, sidecarVars
<1>4. CASE QuietMove
    BY <1>0, <1>4, QuietFrame DEF Refused, Discarded, recordVars, sidecarVars
<1>5. CASE UNCHANGED vars
    BY <1>0, <1>5 DEF Refused, Discarded, vars, recordVars, sidecarVars, cliVars
<1> QED
    BY <1>1, <1>2, <1>3, <1>4, <1>5, Movers

\* The child stays spawned, and a childless end stays one.
LEMMA SpawnedStep ==
    ASSUME Inv, Inv', Told, [Next]_vars
    PROVE  Spawned'
<1>0. Spawned /\ Published
    BY DEF Told
<1> DEFINE Childless == {"endMeta", "endReady", "endRelease", "tell", "dead", "crashed"}
<1>1. CASE SidecarMove
  <2>1. SidecarFlow
    BY <1>1, SidecarFlows
  <2>2. (pc' \in Ending => child' = "none") /\ (pc' \in Guarded \cup Failing \cup {"hooks"} => child' # "none")
    <3>1. pc \in {"setup"} \cup PreSpawn => child = "none"
      BY DEF Inv, Phases
    <3>2. pc = "release" => child = "reaped"
      BY DEF Inv, Phases, Finishing
    <3> QED
      BY <1>0, <1>1, <2>1, <3>1, <3>2, SidecarElse DEF Spawned, SidecarFlow, Ending, Guarded, Failing, PreSpawn
  <2>3. meta'.status = "Running" => child' # "none"
    <3>1. meta'.status = "Running" => meta' = meta \/ pc = "running"
      BY <1>1, SidecarRecords DEF Leaves, Inv, Phases, Ending, ChildlessEnds, ObservedExits
    <3> QED
      BY <1>0, <1>1, <3>1, SidecarElse DEF Spawned, Guarded
  <2>4. \A s \in {wal} \cup {rec[r].next : r \in Reconcilers} :
           s \in ChildlessEnds => child' = "none" /\ pc' \in Childless
    <3>1. pc \in Childless => child' = child /\ pc' \in Childless
      BY <1>1, <2>1, SidecarElse DEF SidecarFlow, Inv, TypeOK, SidecarPcs, Locking, PreSpawn, Ending,
          Guarded, Finishing, Failing
    <3> QED
      BY <1>0, <3>1 DEF Spawned
  <2>5. wal' \in ChildlessEnds => wal' = wal \/ (child' = "none" /\ pc' \in Childless)
    <3>1. CASE pc = "endEvent"
      BY <1>0, <1>1, <2>1, <3>1, SidecarElse DEF Spawned, Ending, SidecarFlow, Inv, TypeOK, SidecarPcs,
          Locking, PreSpawn, Guarded, Finishing, Failing
    <3> QED
      BY <1>1, <3>1, SidecarLogs DEF ObservedExits, ChildlessEnds
  <2>6. wal' \in ObservedExits => meta'.status \notin {"Absent", "Starting"}
    <3>1. CASE wal' = wal
      BY <1>0, <1>1, <3>1, SidecarRecords DEF Leaves, Spawned, Published, PreSpawn, Inv,
          Phases, Ending, ChildlessEnds, ObservedExits
    <3>2. CASE wal' # wal
      <4>1. pc = "endEvent" \/ pc = "failEvent" => wal' \notin ObservedExits
        BY <1>1, <3>2, SidecarLogs DEF ChildlessEnds, ObservedExits
      <4>2. pc = "event" => meta' = meta /\ meta.status = "Running"
        BY <1>0, <1>1, SidecarRecords DEF Published
      <4> QED
        BY <1>1, <3>2, <4>1, <4>2, SidecarLogs
    <3> QED
      BY <3>1, <3>2
  <2> QED
    BY <1>0, <1>1, <2>2, <2>3, <2>4, <2>5, <2>6, SidecarElse DEF Spawned
<1>2. ASSUME NEW r \in Reconcilers, RecMove(r) PROVE Spawned'
  <2>1. /\ UNCHANGED <<pc, wal>>
        /\ \A q \in Reconcilers \ {r} : rec'[q] = rec[q]
        /\ meta' = meta \/ (rec[r].pc = "write" /\ meta' = RecRecord(r))
        /\ child' = "none" <=> child = "none"
    BY <1>2, RecFrame DEF Inv
  <2>2. rec'[r].next \in {rec[r].next, "Absent"} \/ Chosen(r, rec'[r].next)
    BY <1>2, NextChosen DEF RecMove, Inv
  <2>3. \A s \in ChildlessEnds : Chosen(r, s) => s = wal
    BY ChosenFromLog DEF Inv, Evidence
  <2>4. rec[r].pc = "write" => RecRecord(r).status \notin {"Absent", "Starting", "Running"}
    BY RecordEnds DEF Terminals, SidecarEnds, ExitReasons, ObservedExits, ChildlessEnds
  <2>5. "Absent" \notin ChildlessEnds
    BY DEF ChildlessEnds
  <2> QED
    BY <1>0, <2>1, <2>2, <2>3, <2>4, <2>5 DEF Spawned
<1>3. CASE ClientMove
  <2>1. "none" \notin ChildlessEnds \cup ObservedExits
    BY DEF ChildlessEnds, ObservedExits
  <2> QED
    BY <1>0, <1>3, <2>1, ClientFrame DEF Leaves, Spawned, recordVars, childVars
<1>4. CASE QuietMove
    BY <1>0, <1>4, QuietFrame DEF Spawned, recordVars
<1>5. CASE UNCHANGED vars
    BY <1>0, <1>5 DEF Spawned, vars, recordVars, childVars, cliVars
<1> QED
    BY <1>1, <1>2, <1>3, <1>4, <1>5, Movers

\* While a reconciler holds the lock the sidecar leaves alone what it decides by.
LEMMA SidecarKeepsOff ==
    ASSUME Inv, SidecarMove, NEW r \in Reconcilers, rec[r].pc \in RecLocking
    PROVE  /\ UNCHANGED <<meta, wal, crumb, child, lostEvent, client, rec>>
           /\ dir' = dir \/ pc = "hooks"
<1>1. pc \in {"tell", "hooks", "dead", "crashed"}
    BY RecMeansUnlocked
<1> QED
    BY <1>1, SidecarElse, SidecarRecords

\* A reconciler without the lock changes nothing but its own record.
LEMMA UnlockedRecKeepsOff ==
    ASSUME Inv, NEW r \in Reconcilers, RecMove(r), rec[r].pc \notin RecLocking
    PROVE  UNCHANGED <<meta, wal, crumb, child, lostEvent, client, dir>>
BY DEF RecMove, RecStep, RecReads, RecLocks, RecRereads, RecDecides, RecStops, RecLogs, RecWrites,
       RecCrashes, RecLocking, recFrame, recordVars, childVars

\* What reconciliation decides, from the record it saw and the log it read.
LEMMA DecisionFacts ==
    ASSUME Inv, Told, NEW seen \in Live, meta.status \in {seen, "Removed"},
           seen = "Running" => child # "none", NEW missed
    PROVE  /\ Decision(seen, missed) \in Outcomes(seen)
           /\ Decision(seen, missed) = "SidecarLost" => NothingToReplay(missed)
           /\ Decision(seen, missed) # "SidecarLost" => wal = Decision(seen, missed)
           /\ Decision(seen, missed) = "SidecarFailed" => LeftBehind(seen, missed)
           /\ ~LeftBehind(seen, missed) => NoCrumb(missed)
<1>1. wal \in SidecarEnds \cup {"none"}
    BY DEF Inv, TypeOK
<1>2. wal \in ChildlessEnds => child = "none"
    BY DEF Told, Spawned
<1>3. wal \in ObservedExits => seen # "Starting"
    BY DEF Told, Spawned, Refused, ObservedExits
<1> USE DEF Decision, HealTerminalFromEvent, IsTerminal, ReconcileSidecarLost, Terminals, SidecarEnds,
        ExitReasons, ObservedExits, ChildlessEnds, Live, Outcomes, NothingToReplay, NoCrumb, LeftBehind
<1> DEFINE ended == IF "log" \in missed THEN "none" ELSE wal
<1>4. CASE seen = "Running"
  <2>1. LeftBehind(seen, missed) /\ wal \in ExitReasons \cup {"none"}
    BY <1>1, <1>2, <1>4
  <2>2. CASE ended = "none"
    <3>1. HealTerminalFromEvent(seen, ended, LeftBehind(seen, missed)) = "Running"
      BY <1>4, <2>2
    <3>2. Decision(seen, missed) = "SidecarLost"
      BY <1>4, <3>1
    <3> QED
      BY <2>1, <2>2, <3>2, <1>4
  <2>3. CASE ended = wal /\ wal \in ExitReasons
    <3>1. HealTerminalFromEvent(seen, ended, LeftBehind(seen, missed)) = wal
      BY <1>4, <2>3
    <3>2. Decision(seen, missed) = wal
      BY <2>3, <3>1
    <3> QED
      BY <2>1, <2>3, <3>2, <1>4
  <2> QED
    BY <2>1, <2>2, <2>3
<1>5. CASE seen = "Starting"
  <2>1. ~LeftBehind(seen, missed) <=> NoCrumb(missed)
    BY <1>5
  <2>2. wal \in ChildlessEnds \cup {"none", "SidecarFailed"}
    BY <1>1, <1>3, <1>5
  <2>3. CASE ended = "none" \/ (ended = wal /\ wal = "SidecarFailed" /\ ~LeftBehind(seen, missed))
    <3>1. HealTerminalFromEvent(seen, ended, LeftBehind(seen, missed)) = "Starting"
      BY <1>5, <2>3
    <3>2. Decision(seen, missed) = "SidecarLost"
      BY <1>5, <3>1
    <3> QED
      BY <2>1, <2>3, <3>2, <1>5
  <2>4. CASE ended = wal /\ (wal \in ChildlessEnds \/ (wal = "SidecarFailed" /\ LeftBehind(seen, missed)))
    <3>1. HealTerminalFromEvent(seen, ended, LeftBehind(seen, missed)) = wal
      BY <1>5, <2>4
    <3>2. Decision(seen, missed) = wal
      BY <2>4, <3>1
    <3> QED
      BY <2>1, <2>4, <3>2, <1>5
  <2> QED
    BY <2>2, <2>3, <2>4
<1> QED
    BY <1>4, <1>5

\* What a reconciler decided under the lock stays true until it writes, whatever the
\* sidecar, the client and the other reconcilers do meanwhile.
LEMMA DecidedStep ==
    ASSUME Inv, Told, [Next]_vars
    PROVE  Decided'
<1> SUFFICES ASSUME NEW r \in Reconcilers PROVE DecidedBy(r)'
    BY DEF Decided
<1>0. DecidedBy(r)
    BY DEF Told, Decided
<1> USE DEF Discarded, NothingToReplay, NoCrumb
<1>1. CASE SidecarMove
  <2>1. rec' = rec
    BY <1>1, SidecarElse
  <2>2. CASE rec[r].pc \in RecLocking
    BY <1>0, <1>1, <2>2, SidecarKeepsOff DEF DecidedBy
  <2>3. CASE rec[r].pc \notin RecLocking
    BY <2>1, <2>3 DEF DecidedBy, RecLocking
  <2> QED
    BY <2>2, <2>3
<1>2. ASSUME NEW q \in Reconcilers \ {r}, RecMove(q) PROVE DecidedBy(r)'
  <2>1. rec'[r] = rec[r]
    BY <1>2, RecFrame DEF Inv
  <2>2. CASE rec[r].pc \in RecLocking
    <3>1. rec[q].pc \notin RecLocking
      BY <2>2, RecMeansUnlocked
    <3> QED
      BY <1>0, <1>2, <2>1, <3>1, UnlockedRecKeepsOff DEF DecidedBy
  <2>3. CASE rec[r].pc \notin RecLocking
    BY <2>1, <2>3 DEF DecidedBy, RecLocking
  <2> QED
    BY <2>2, <2>3
<1>3. CASE RecMove(r)
  <2> USE DEF recFrame, recordVars, childVars
  <2>0. rec \in [Reconcilers -> Recs]
    BY DEF Inv, TypeOK
  <2>1. CASE RecReads(r) \/ RecLocks(r) \/ RecWrites(r) \/ RecCrashes(r)
    <3>1. rec'[r].pc \in {"idle", "lock", "reread"}
      BY <2>0, <2>1 DEF RecReads, RecLocks, RecWrites, RecCrashes, IdleRec, Recs
    <3> QED
      BY <3>1 DEF DecidedBy
  <2>2. CASE RecRereads(r)
    <3>1. \/ rec'[r].pc = "idle"
          \/ rec'[r].pc = "decide" /\ rec'[r].seen = meta.status /\ meta.status \in Live
      BY <2>0, <2>2 DEF RecRereads, IdleRec, Recs
    <3>2. UNCHANGED <<meta, child>> /\ (meta.status = "Running" => child # "none")
      BY <2>2 DEF RecRereads, Told, Spawned
    <3> QED
      BY <3>1, <3>2 DEF DecidedBy
  <2>3. CASE RecDecides(r)
    <3>p. PICK missed \in Misses(rec[r].seen) : Decides(r, missed)
      BY <2>3, DecidesSomehow
    <3> DEFINE next == Decision(rec[r].seen, missed)
               probe == next \in {"SidecarFailed", "SidecarLost"} /\ LeftBehind(rec[r].seen, missed)
    <3>0. rec[r].pc = "decide" /\ rec[r].seen \in Live /\ meta.status \in {rec[r].seen, "Removed"}
          /\ (rec[r].seen = "Running" => child # "none")
      BY <1>0, <2>3 DEF RecDecides, DecidedBy
    <3>1. /\ rec'[r].next = next /\ rec'[r].seen = rec[r].seen /\ rec'[r].missed = missed
          /\ UNCHANGED <<meta, wal, child, crumb, client>>
      BY <2>0, <2>3, <3>p DEF RecDecides, Decides, Recs
    <3>2. \/ rec'[r].pc = "stop"
          \/ rec'[r].pc = "log" /\ ~probe /\ next = "SidecarLost"
          \/ rec'[r].pc = "write" /\ ~probe /\ next # "SidecarLost"
      BY <2>0, <3>p DEF Decides, Recs
    <3>3. /\ next \in Outcomes(rec[r].seen)
          /\ next = "SidecarLost" => NothingToReplay(missed)
          /\ next # "SidecarLost" => wal = next
          /\ next = "SidecarFailed" => LeftBehind(rec[r].seen, missed)
          /\ ~LeftBehind(rec[r].seen, missed) => NoCrumb(missed)
      BY <3>0, DecisionFacts
    <3>4. next \notin {"SidecarFailed", "SidecarLost"} => child # "alive"
      BY <3>3 DEF Outcomes, Inv, Evidence, Told, Spawned, ExitReasons
    <3> HIDE DEF next
    <3> QED
      BY <3>0, <3>1, <3>2, <3>3, <3>4 DEF DecidedBy
  <2>4. CASE RecStops(r)
    <3>1. /\ rec[r].pc = "stop" /\ rec'[r].next = rec[r].next /\ rec'[r].seen = rec[r].seen
          /\ rec'[r].missed = rec[r].missed
          /\ rec'[r].pc = IF rec[r].next = "SidecarLost" THEN "log" ELSE "write"
          /\ UNCHANGED <<meta, wal, crumb, client, lostEvent>>
          /\ child' = "none" <=> child = "none"
      BY <2>0, <2>4 DEF RecStops, Recs
    <3>2. child' = "alive" => rec'[r].word
      BY <2>0, <2>4 DEF RecStops, Recs
    <3> QED
      BY <1>0, <3>1, <3>2 DEF DecidedBy
  <2>5. CASE RecLogs(r)
    <3>1. /\ rec[r].pc = "log" /\ rec'[r] = [rec[r] EXCEPT !.pc = "write"]
          /\ UNCHANGED <<meta, wal, crumb, client, child>>
          /\ lostEvent' = TRUE \/ MayFail("event_append")
      BY <2>0, <2>5 DEF RecLogs, Recs
    <3>2. /\ rec'[r].pc = "write" /\ rec'[r].seen = rec[r].seen /\ rec'[r].next = rec[r].next
          /\ rec'[r].word = rec[r].word /\ rec'[r].missed = rec[r].missed
      BY <2>0, <3>1 DEF Recs
    <3> QED
      BY <1>0, <3>1, <3>2 DEF DecidedBy, MayFail
  <2> QED
    BY <1>3, <2>1, <2>2, <2>3, <2>4, <2>5 DEF RecMove, RecStep
<1>4. CASE ClientMove
    BY <1>0, <1>4, ClientFrame DEF DecidedBy, recordVars, childVars, Leaves
<1>5. CASE QuietMove
    BY <1>0, <1>5, QuietFrame DEF DecidedBy, recordVars
<1>6. CASE UNCHANGED vars
    BY <1>0, <1>6 DEF DecidedBy, vars, recordVars, childVars, cliVars
<1> QED
    BY <1>1, <1>2, <1>3, <1>4, <1>5, <1>6, Movers

\* A removed directory is not written into by a reconciler that had looked before.
LEMMA StaysRemovedStep ==
    ASSUME Inv, Told, [Next]_vars
    PROVE  StaysRemoved'
<1> DEFINE Away(r) ==
        /\ meta.status = "Removed" /\ child = "none"
        /\ rec[r].pc \in {"decide", "stop", "log", "write"}
        /\ rec[r].pc = "write" => rec[r].next # "SidecarLost"
<1> SUFFICES ASSUME NEW r \in Reconcilers, Away(r)' PROVE dir' = "removed"
    BY DEF StaysRemoved
<1>0. Away(r) => dir = "removed"
    BY DEF Told, StaysRemoved
<1>1. CASE SidecarMove
  <2>1. rec[r].pc \in RecLocking
    BY <1>1, SidecarElse DEF RecLocking
  <2>2. Away(r) /\ pc # "hooks"
    BY <1>1, <2>1, SidecarKeepsOff DEF Told, Spawned
  <2> QED
    BY <1>0, <1>1, <2>1, <2>2, SidecarKeepsOff
<1>2. ASSUME NEW q \in Reconcilers \ {r}, RecMove(q) PROVE dir' = "removed"
  <2>1. rec'[r] = rec[r]
    BY <1>2, RecFrame DEF Inv
  <2>2. rec[q].pc \notin RecLocking
    BY <2>1, RecMeansUnlocked DEF RecLocking
  <2> QED
    BY <1>0, <1>2, <2>1, <2>2, UnlockedRecKeepsOff
<1>3. CASE RecMove(r)
  <2> USE DEF recFrame, recordVars, childVars
  <2>0. rec \in [Reconcilers -> Recs] /\ DecidedBy(r)
    BY DEF Inv, TypeOK, Told, Decided
  <2>f. RecFlow(r)
    BY <1>3, RecFlows DEF RecMove, Inv
  <2>1. rec[r].pc \in {"reread", "decide", "stop", "log"}
    BY <1>3, <2>f, <2>0 DEF RecFlow, RecReads, RecLocks, RecRereads, DecisionFlow, RecStops, RecLogs,
        RecWrites, RecCrashes, IdleRec, Recs
  <2>2. rec[r].pc # "reread" /\ meta' = meta
    BY <1>3, <2>f, <2>0 DEF RecFlow, RecReads, RecLocks, RecRereads, DecisionFlow, RecStops, RecLogs,
        RecWrites, RecCrashes, IdleRec, Recs, Live
  <2>3. child = "none" /\ Away(r)
    BY <1>3, <2>1, <2>2, RecFrame DEF Inv
  <2>4. rec[r].pc # "log"
    BY <1>3, <2>f, <2>0 DEF DecidedBy, RecFlow, RecReads, RecLocks, RecRereads, DecisionFlow, RecStops,
        RecLogs, RecWrites, RecCrashes, IdleRec, Recs
  <2> QED
    BY <1>0, <1>3, <2>3, <2>4, RecFrame DEF Inv
<1>4. CASE ClientMove
    BY <1>0, <1>4, ClientFrame DEF recordVars, childVars
<1>5. CASE QuietMove
    BY <1>0, <1>5, QuietFrame DEF recordVars
<1>6. CASE UNCHANGED vars
    BY <1>0, <1>6 DEF vars, recordVars, childVars, cliVars
<1> QED
    BY <1>1, <1>2, <1>3, <1>4, <1>5, <1>6, Movers

\* The event log keeps deciding the record.
LEMMA LoggedStep ==
    ASSUME Inv, Told, [Next]_vars
    PROVE  Logged'
<1>0. Logged /\ Refused /\ Unended /\ Decided
    BY DEF Told
<1> USE DEF LogDecides, WalOrder, LossIsLoss
\* A removed directory stays removed for whoever looks.
<1>1. SidecarMove /\ Discarded => Discarded'
    BY <1>0, SidecarElse, RefusedMeansOver DEF Refused, Discarded
<1>2. CASE SidecarMove
  <2>1. pc' \in {"endMeta", "persist", "failPersist"} => wal' = mem' \/ salvaged'
    BY <1>2, SidecarFlows DEF SidecarFlow
  <2>2. CASE meta' = meta
    <3>1. pc \in {"endEvent", "event", "failEvent", "crumb", "failPersist"} =>
             meta.status \in Live \cup {"Absent"}
      BY DEF Inv, Records, Locking, PreSpawn, Ending, Guarded, Finishing, Failing
    <3>2. CASE meta.prov # "none"
      <4>1. wal' = wal /\ lostEvent' = lostEvent /\ crumb' \in {crumb, "none"} /\ (salvaged => salvaged')
        BY <1>0, <1>2, <3>1, <3>2, SidecarElse DEF Unended
      <4> QED
        BY <1>0, <1>1, <1>2, <2>1, <2>2, <4>1 DEF Logged
    <3>3. CASE meta.prov = "none"
      <4>1. meta.status = "SidecarLost" => wal' = wal /\ crumb' \in {crumb, "none"}
        BY <1>2, <3>1, SidecarElse DEF Live
      <4> QED
        BY <1>0, <1>2, <2>1, <2>2, <3>3, <4>1 DEF Logged
    <3> QED
      BY <3>2, <3>3
  <2>3. CASE meta' # meta
    <3>1. \/ meta'.prov = "none"
          \/ meta'.prov = "direct" /\ meta'.status = mem /\ pc \in {"endMeta", "persist", "failPersist"}
      BY <1>2, <2>3, SidecarRecords DEF Leaves
    <3>2. pc \in {"endMeta", "persist", "failPersist"} => wal' = wal /\ (salvaged => salvaged')
      BY <1>2, SidecarElse
    <3>3. meta'.status # "SidecarLost"
      BY <1>2, <2>3, SidecarRecords DEF Leaves, Inv, Phases, Ending, ChildlessEnds, ObservedExits
    <3> QED
      BY <1>0, <2>1, <3>1, <3>2, <3>3 DEF Logged
  <2> QED
    BY <2>2, <2>3
<1>3. ASSUME NEW r \in Reconcilers, RecMove(r) PROVE Logged'
  <2>1. /\ UNCHANGED <<crumb, client, wal, salvaged, pc, mem>>
        /\ (lostEvent => lostEvent')
        /\ meta' = meta \/ (rec[r].pc = "write" /\ meta' = RecRecord(r))
    BY <1>3, RecFrame DEF Inv, sidecarVars
  <2>2. CASE meta' = meta
    BY <1>0, <2>1, <2>2 DEF Logged, Discarded
  <2>3. CASE rec[r].pc = "write" /\ meta' = RecRecord(r)
    <3>1. /\ meta'.status = rec[r].next
          /\ meta'.prov = IF rec[r].next = "SidecarLost" THEN "inferred" ELSE "healed"
          /\ meta'.missed = rec[r].missed
      BY <2>3 DEF RecRecord
    <3>2. DecidedBy(r)
      BY <1>0 DEF Decided
    <3> QED
      BY <1>0, <2>1, <2>3, <3>1, <3>2 DEF Logged, Discarded, DecidedBy, NothingToReplay, NoCrumb
  <2> QED
    BY <2>1, <2>2, <2>3
<1>4. CASE ClientMove
  <2>1. CASE UNCHANGED recordVars
    <3>1. UNCHANGED <<pc, mem, crumb, meta, wal, lostEvent, salvaged>> /\ (Discarded => Discarded')
      BY <1>4, <2>1, ClientFrame DEF sidecarVars, recordVars, Discarded
    <3> QED
      BY <1>0, <3>1 DEF Logged
  <2>2. CASE ready \in {"error", "eof"} /\ meta'.status = "Removed" /\ meta'.prov = "none"
    BY <1>4, <2>2, ClientFrame, RefusedMeansOver DEF Logged
  <2> QED
    BY <1>4, <2>1, <2>2, ClientFrame DEF Leaves
<1>5. CASE QuietMove
    BY <1>0, <1>5, QuietFrame DEF Logged, Discarded, recordVars, sidecarVars
<1>6. CASE UNCHANGED vars
    BY <1>0, <1>6 DEF Logged, Discarded, vars, recordVars, sidecarVars, cliVars
<1> QED
    BY <1>2, <1>3, <1>4, <1>5, <1>6, Movers

\* A child that was left alive stays to be found.
LEMMA FoundStep ==
    ASSUME Inv, Told, [Next]_vars
    PROVE  Found'
<1>0. Found /\ Published /\ Decided /\ Spawned
    BY DEF Told
<1>1. CASE SidecarMove
  <2>1. SidecarFlow
    BY <1>1, SidecarFlows
  <2>2. pc' \in Failing \ {"stop"} /\ child' = "alive" => ~gone'
    BY <1>0, <1>1, <2>1, SidecarElse DEF Found, SidecarFlow, Failing
  <2>3. CASE meta'.status \in {"Absent", "Starting", "Running"}
    BY <2>2, <2>3 DEF Found
  <2>4. CASE meta' = meta /\ meta.status \notin {"Absent", "Starting", "Running"}
    <3>1. pc \notin {"crumb", "stop", "failPersist", "spawn"}
      BY <2>4 DEF Inv, Records, Locking, PreSpawn, Guarded, Failing, Live
    <3>2. pc = "cleanUp" => child = "reaped"
      BY DEF Inv, Phases, Finishing
    <3>3. child' = "alive" => child = "alive" /\ crumb' = crumb /\ gone' = gone /\ (salvaged => salvaged')
      BY <1>1, <3>1, <3>2, SidecarElse
    <3> QED
      BY <1>0, <2>2, <2>4, <3>3 DEF Found
  <2>5. CASE meta' # meta /\ meta'.status \notin {"Absent", "Starting", "Running"}
    <3>1. pc \in {"endMeta", "persist"} \/ (pc = "failPersist" /\ meta'.word = ~gone)
      BY <1>1, <2>5, SidecarRecords DEF Leaves
    <3>2. pc \in {"endMeta", "persist", "failPersist"} => child' = child
      BY <1>1, SidecarElse
    <3>3. pc \in {"endMeta", "persist"} => child # "alive"
      BY <1>0 DEF Spawned, Ending, Inv, Phases, Finishing
    <3>4. pc = "failPersist" /\ child = "alive" => ~gone
      BY <1>0 DEF Found, Failing
    <3> QED
      BY <2>2, <3>1, <3>2, <3>3, <3>4 DEF Found
  <2> QED
    BY <2>3, <2>4, <2>5
<1>2. ASSUME NEW r \in Reconcilers, RecMove(r) PROVE Found'
  <2>1. /\ UNCHANGED <<crumb, salvaged, pc, gone>>
        /\ child' = "alive" => child = "alive"
        /\ meta' = meta \/ (rec[r].pc = "write" /\ meta' = RecRecord(r))
    BY <1>2, RecFrame DEF Inv, sidecarVars
  <2>2. CASE meta' = meta
    BY <1>0, <2>1, <2>2 DEF Found
  <2>3. CASE rec[r].pc = "write" /\ meta' = RecRecord(r)
    <3>1. meta'.status = rec[r].next /\ meta'.word = rec[r].word /\ meta'.missed = rec[r].missed
      BY <2>3 DEF RecRecord
    <3>2. child = "alive" => rec[r].word \/ (NoCrumb(rec[r].missed) /\ rec[r].next = "SidecarLost")
      BY <1>0, <2>3 DEF Decided, DecidedBy
    <3> QED
      BY <1>0, <2>1, <3>1, <3>2 DEF Found, NoCrumb
  <2> QED
    BY <2>1, <2>2, <2>3
<1>3. CASE ClientMove
  <2>1. UNCHANGED <<pc, child, gone, crumb, salvaged>>
    BY <1>3, ClientFrame DEF sidecarVars, childVars
  <2>2. meta' = meta \/ (crumb = "none" /\ meta'.status = "Removed")
    BY <1>3, ClientFrame DEF recordVars, Leaves
  <2> QED
    BY <1>0, <2>1, <2>2 DEF Found
<1>4. CASE QuietMove
    BY <1>0, <1>4, QuietFrame DEF Found, recordVars, sidecarVars
<1>5. CASE UNCHANGED vars
    BY <1>0, <1>5 DEF Found, vars, recordVars, sidecarVars, childVars
<1> QED
    BY <1>1, <1>2, <1>3, <1>4, <1>5, Movers

\* What the sidecar does to the marks of a kill.
LEMMA SidecarMarks ==
    ASSUME Inv, SidecarMove
    PROVE  /\ UNCHANGED <<timedOut, hit, exit>>
           /\ killActed' = killActed \/ pc \in {"cleanUp", "failCleanUp"}
           /\ watcher' = watcher \/ pc = "watch"
           /\ timer' = timer \/ (pc = "watch" /\ timer' \in {"armed", "off"})
           /\ pc \in {"watch", "supervise"} => ready' = ready
           /\ ready' = ready \/ ready = "owed" \/ pc = "setup"
<1> USE DEF recordVars, sidecarVars, childVars, cliVars, threadVars, controlVars, SendReady
<1>0. pc \in {"watch", "supervise"} => ready # "owed"
    BY DEF Inv, Readiness, Answered
<1>1. CASE Setup \/ Tell \/ WriteStarting \/ SignalScanned
    BY <1>1 DEF Setup, Tell, WriteStarting, SignalScanned
<1>2. CASE FirstScan \/ PollDependencies \/ Bind \/ Spawn
    BY <1>2 DEF FirstScan, PollDependencies, Bind, Spawn
<1>3. CASE EndEvent \/ EmitExited \/ EmitFailed
    BY <1>3 DEF EndEvent, EmitExited, EmitFailed
<1>4. CASE EndMeta \/ EndReady \/ PublishRunning \/ WriteCrumb
    BY <1>4 DEF EndMeta, EndReady, PublishRunning, WriteCrumb
<1>5. CASE StartPty \/ SetupStdin \/ DeliverReady \/ ArmWatchers
    BY <1>5 DEF StartPty, SetupStdin, DeliverReady, ArmWatchers
<1>6. CASE Observe \/ Fail \/ Finish \/ Classify
    BY <1>6 DEF Observe, Fail, Finish, Classify
<1>7. CASE CleanUp \/ Release \/ RunHooks \/ Persist
    BY <1>7 DEF CleanUp, Release, RunHooks, Persist
<1>8. CASE StopChild \/ FailCleanUp \/ FailReady
    BY <1>8 DEF StopChild, FailCleanUp, FailReady
<1>9. CASE PersistFailed
    BY <1>9 DEF PersistFailed
<1>10. CASE Crash
    BY <1>0, <1>10 DEF Crash
<1> QED
    BY <1>1, <1>2, <1>3, <1>4, <1>5, <1>6, <1>7, <1>8, <1>9, <1>10 DEF SidecarMove, SidecarStep

\* Every kill marks first, and strikes only a child that is alive.
LEMMA QuietMarks ==
    ASSUME Inv, Marked, QuietMove
    PROVE  /\ child # "alive" => UNCHANGED <<hit, exit, child>>
           /\ timedOut => timedOut'
           /\ killActed => killActed'
           /\ "timeout" \in hit' => timedOut'
           /\ timer' \in {"fired", "done"} => timedOut'
           /\ "forced" \in hit' => child' \in {"dead", "reaped"} /\ exit' = "Killed"
           /\ "graceful" \in hit' => "graceful" \in hit \/ (watcher # "off" /\ killActed)
           /\ watcher' = "off" <=> watcher = "off"
<1> USE DEF recordVars, sidecarVars, childVars, cliVars, threadVars, controlVars, KillChild
<1>0. timedOut \in BOOLEAN /\ killActed \in BOOLEAN
    BY DEF Inv, TypeOK
<1>1. CASE TimerDue \/ TimerFlags
    BY <1>0, <1>1 DEF TimerDue, TimerFlags, Marked
<1>2. CASE TimerKills
    BY <1>0, <1>2 DEF TimerKills, Marked
<1>3. CASE WatcherReads
    BY <1>0, <1>3 DEF WatcherReads, Marked, Inv, TypeOK
<1>4. CASE WatcherMarks
    BY <1>0, <1>4 DEF WatcherMarks, Marked
<1>5. CASE WatcherTerms
    BY <1>0, <1>5 DEF WatcherTerms, Marked, Graceful
<1>6. CASE WatcherKills
    BY <1>0, <1>6 DEF WatcherKills, Marked, Graceful
<1>7. CASE ChildExits
    BY <1>0, <1>7 DEF ChildExits, Marked
<1>8. ASSUME NEW k \in Killers, KillStep(k) \/ KillCrashes(k)
      PROVE  /\ UNCHANGED <<threadVars, killActed>>
             /\ \/ UNCHANGED childVars
                \/ child = "alive" /\ child' = "dead" /\ exit' = "Killed" /\ hit' = hit \cup {"direct"}
    BY <1>8 DEF KillStep, KillReads, KillMarks, KillProbes, KillRequests, KillPolls, KillDirect,
        KillEscalates, KillCrashes, kilFrame
<1>9. CASE \E k \in Killers : KillStep(k) \/ KillCrashes(k)
    BY <1>0, <1>8, <1>9 DEF Marked
<1> QED
    BY <1>1, <1>2, <1>3, <1>4, <1>5, <1>6, <1>7, <1>9 DEF QuietMove, ThreadStep

\* finish classifies the raw exit by the marks that were left before it.
LEMMA ClassifyFits ==
    ASSUME Inv, Marked, Classify
    PROVE  pc = "classify" /\ pc' = "cleanUp" /\ Fits(how')
<1>1. pc = "classify" /\ pc' = "cleanUp" /\ how = exit
    BY DEF Classify, Marked
<1>2. timedOut => how' = "TimedOut"
    BY DEF Classify
<1>3. ~timedOut /\ killForced => how' = "KilledForced"
    BY DEF Classify
<1>4. ~timedOut /\ ~killForced /\ killActed => how' = "Killed"
    BY DEF Classify
<1>5. ~timedOut /\ ~killForced /\ ~killActed => how' = how
    BY DEF Classify
<1>6. /\ "timeout" \in hit => timedOut
      /\ "forced" \in hit => exit = "Killed"
      /\ "graceful" \in hit => killActed
    BY <1>1 DEF Marked
<1>7. CASE timedOut
    BY <1>1, <1>2, <1>7 DEF Fits
<1>8. CASE ~timedOut /\ killForced
    BY <1>1, <1>3, <1>6, <1>8 DEF Fits
<1>9. CASE ~timedOut /\ ~killForced /\ killActed
    BY <1>1, <1>4, <1>6, <1>9 DEF Fits
<1>10. CASE ~timedOut /\ ~killForced /\ ~killActed
    BY <1>1, <1>5, <1>6, <1>10 DEF Fits
<1> QED
    BY <1>7, <1>8, <1>9, <1>10

\* The kills that hit the child stay remembered until its exit is classified.
LEMMA MarkedStep ==
    ASSUME Inv, Inv', Told, [Next]_vars
    PROVE  Marked'
<1>0. Marked
    BY DEF Told
<1> DEFINE Recorded == {wal, meta.status} \cup {rec[r].next : r \in Reconcilers}
           Early == {"setup", "crumb", "pty", "stdin", "running", "ready", "watch"} \cup PreSpawn
<1>1. CASE SidecarMove
  <2>1. SidecarFlow
    BY <1>1, SidecarFlows
  <2>2. /\ UNCHANGED <<timedOut, hit, exit>>
        /\ killActed' = killActed \/ pc \in {"cleanUp", "failCleanUp"}
        /\ watcher' = watcher \/ pc = "watch"
        /\ timer' = timer \/ (pc = "watch" /\ timer' \in {"armed", "off"})
        /\ pc \in {"watch", "supervise"} => ready' = ready
        /\ ready' = ready \/ ready = "owed" \/ pc = "setup"
    BY <1>1, SidecarMarks
  <2>3. /\ "timeout" \in hit' => timedOut'
        /\ timer' \in {"fired", "done"} => timedOut'
    BY <1>0, <2>2 DEF Marked
  <2>4. "forced" \in hit' => child' \in {"dead", "reaped"} /\ exit' = "Killed"
    <3>1. pc = "spawn" => child = "none"
      BY DEF Inv, Phases, PreSpawn
    <3>2. child \in {"dead", "reaped"} => child' \in {"dead", "reaped"}
      BY <1>1, <3>1, SidecarElse
    <3> QED
      BY <1>0, <2>2, <3>2 DEF Marked
  <2>5. watcher = "off" \/ watcher' = watcher
    BY <1>0, <2>2 DEF Marked
  <2>6. "graceful" \in hit' => watcher' # "off"
    BY <1>0, <2>2, <2>5 DEF Marked
  <2>7. pc' \in Early => watcher' = "off"
    BY <1>0, <2>1, <2>2 DEF Marked, SidecarFlow, PreSpawn
  <2>8. watcher' # "off" => Answered'
    <3>1. watcher # "off" => Answered
      BY <1>0 DEF Marked
    <3>2. pc = "watch" => Answered
      BY DEF Inv, Readiness
    <3>3. pc = "setup" => watcher = "off"
      BY <1>0 DEF Marked
    <3> QED
      BY <2>2, <3>1, <3>2, <3>3 DEF Answered
  <2>9. "graceful" \in hit' /\ pc' \in {"supervise", "finish", "classify"} => killActed'
    BY <1>0, <2>1, <2>2 DEF Marked, SidecarFlow
  <2>10. pc' \in {"finish", "classify"} => how' = exit'
    BY <1>0, <2>1, <2>2 DEF Marked, SidecarFlow
  <2>11. pc' = "cleanUp" => Fits(how')
    <3>1. pc' = "cleanUp" => pc = "classify"
      BY <2>1 DEF SidecarFlow
    <3>2. pc = "classify" /\ pc' = "cleanUp" => Classify
      BY <1>1 DEF SidecarMove, SidecarStep, Setup, Tell, WriteStarting, FirstScan, SignalScanned,
          PollDependencies, Bind, Spawn, EndEvent, EndMeta, EndReady, WriteCrumb, StartPty, SetupStdin,
          PublishRunning, DeliverReady, ArmWatchers, Observe, Fail, Finish, CleanUp, EmitExited, Persist,
          Release, RunHooks, StopChild, FailCleanUp, EmitFailed, PersistFailed, FailReady, Crash, Guarded
    <3> QED
      BY <1>0, <3>1, <3>2, ClassifyFits
  <2>12. pc' = "event" => Fits(how')
    BY <1>0, <2>1 DEF Marked, SidecarFlow
  <2>13. pc' \in {"persist", "release"} => Fits(mem')
    <3>1. pc = "event" => TransitionExited(mem, how) = how
      BY DEF Inv, Phases, TransitionExited
    <3> QED
      BY <1>0, <2>1, <3>1 DEF Marked, SidecarFlow
  <2>14. \A s \in Recorded' : s \in ObservedExits => Fits(s)
    <3>1. wal' \in ObservedExits => Fits(wal')
      <4>1. "SidecarFailed" \notin ObservedExits /\ \A s \in ChildlessEnds : s \notin ObservedExits
        BY DEF ObservedExits, ChildlessEnds
      <4> QED
        BY <1>0, <1>1, <4>1, SidecarLogs DEF Marked
    <3>2. meta'.status \in ObservedExits => Fits(meta'.status)
      <4>1. pc \in {"endMeta", "failPersist"} => mem \notin ObservedExits
        BY DEF Inv, Phases, Ending, ChildlessEnds, ObservedExits
      <4>2. pc = "persist" => Fits(mem)
        BY <1>0 DEF Marked
      <4>3. {"Starting", "Running"} \cap ObservedExits = {}
        BY DEF ObservedExits
      <4> QED
        BY <1>0, <1>1, <4>1, <4>2, <4>3, SidecarRecords DEF Leaves, Marked
    <3>3. rec' = rec
      BY <1>1, SidecarElse
    <3> QED
      BY <1>0, <3>1, <3>2, <3>3 DEF Marked
  <2>15. \A s : Fits(s)' <=> Fits(s)
    BY <2>2 DEF Fits
  <2> QED
    BY <2>3, <2>4, <2>6, <2>7, <2>8, <2>9, <2>10, <2>11, <2>12, <2>13, <2>14, <2>15 DEF Marked
<1>2. ASSUME NEW r \in Reconcilers, RecMove(r) PROVE Marked'
  <2>1. /\ UNCHANGED <<crumb, pc, sidecarVars, threadVars, client, wal, salvaged, killActed>>
        /\ \A q \in Reconcilers \ {r} : rec'[q] = rec[q]
        /\ meta' = meta \/ (rec[r].pc = "write" /\ meta' = RecRecord(r))
        /\ UNCHANGED <<child, exit, hit>>
           \/ (child = "alive" /\ child' = "dead" /\ hit' = hit \cup {"orphan"})
    BY <1>2, RecFrame DEF Inv
  <2>2. \A s : Fits(s)' <=> Fits(s)
    BY <2>1 DEF Fits
  <2>3. /\ "timeout" \in hit' <=> "timeout" \in hit
        /\ "forced" \in hit' <=> "forced" \in hit
        /\ "graceful" \in hit' <=> "graceful" \in hit
    BY <2>1
  <2>4. "forced" \in hit' => child' \in {"dead", "reaped"} /\ exit' = "Killed"
    BY <1>0, <2>1, <2>3 DEF Marked
  <2>5. pc \in {"finish", "classify"} => exit' = exit
    BY <2>1 DEF Inv, Phases, Finishing
  <2>6. rec'[r].next \in {rec[r].next, "Absent"} \/ Chosen(r, rec'[r].next)
    BY <1>2, NextChosen DEF RecMove, Inv
  <2>7. \A s \in ObservedExits : Chosen(r, s) => s = wal
    BY ChosenFromLog DEF Inv, Evidence
  <2>8. \A s \in Recorded' : s \in ObservedExits => s \in Recorded
    <3>1. "Absent" \notin ObservedExits
      BY DEF ObservedExits
    <3>2. meta' = meta \/ meta'.status = rec[r].next
      BY <2>1 DEF RecRecord
    <3> QED
      BY <2>1, <2>6, <2>7, <3>1, <3>2
  <2>9. \A s \in Recorded' : s \in ObservedExits => Fits(s)'
    BY <1>0, <2>2, <2>8 DEF Marked
  <2>10. UNCHANGED <<timedOut, timer, watcher, killActed, pc, how, mem, ready>>
    BY <2>1 DEF sidecarVars, threadVars
  <2> QED
    BY <1>0, <2>2, <2>3, <2>4, <2>5, <2>9, <2>10 DEF Marked, Answered
<1>3. CASE ClientMove
  <2>1. UNCHANGED <<timedOut, timer, watcher, pc, how, mem, ready, child, exit, hit, rec>>
    BY <1>3, ClientFrame DEF sidecarVars, threadVars, childVars
  <2>2. killActed' = killActed \/ ready \in {"error", "eof"}
    BY <1>3, ClientFrame
  <2>3. pc \in {"supervise", "finish", "classify"} => ready \notin {"error", "eof"}
    BY DEF Inv, Readiness, Locking, Guarded, Finishing
  <2>4. \A s : Fits(s)' <=> Fits(s)
    BY <2>1 DEF Fits
  <2>5. \A s \in Recorded' : s \in ObservedExits => s \in Recorded
    <3>1. {"none", "Removed"} \cap ObservedExits = {}
      BY DEF ObservedExits
    <3>2. UNCHANGED <<wal, meta>> \/ (wal' = "none" /\ meta'.status = "Removed")
      BY <1>3, ClientFrame DEF recordVars, Leaves
    <3> QED
      BY <2>1, <3>1, <3>2
  <2> QED
    BY <1>0, <2>1, <2>2, <2>3, <2>4, <2>5 DEF Marked, Answered
<1>4. CASE QuietMove
  <2>1. /\ child # "alive" => UNCHANGED <<hit, exit, child>>
        /\ timedOut => timedOut'
        /\ killActed => killActed'
        /\ "timeout" \in hit' => timedOut'
        /\ timer' \in {"fired", "done"} => timedOut'
        /\ "forced" \in hit' => child' \in {"dead", "reaped"} /\ exit' = "Killed"
        /\ "graceful" \in hit' => "graceful" \in hit \/ (watcher # "off" /\ killActed)
        /\ watcher' = "off" <=> watcher = "off"
    BY <1>0, <1>4, QuietMarks
  <2>2. UNCHANGED <<wal, meta, rec, pc, how, mem, ready>>
    BY <1>4, QuietFrame DEF recordVars, sidecarVars
  <2>3. pc \in Finishing => child # "alive"
    BY DEF Inv, Phases
  <2>4. child # "alive" => \A s : Fits(s)' <=> Fits(s)
    BY <2>1 DEF Fits
  <2>5. \A s \in Recorded' : s \in ObservedExits => Fits(s)'
    <3>1. \A s \in Recorded : s \in ObservedExits => child = "reaped" /\ Fits(s)
      BY <1>0 DEF Marked, Inv, Evidence
    <3> QED
      BY <2>2, <2>4, <3>1
  <2>6. pc' \in {"cleanUp", "event"} => Fits(how)'
    BY <1>0, <2>2, <2>3, <2>4 DEF Marked, Finishing
  <2>7. pc' \in {"persist", "release"} => Fits(mem)'
    BY <1>0, <2>2, <2>3, <2>4 DEF Marked, Finishing
  <2>8. pc' \in {"finish", "classify"} => how' = exit'
    BY <1>0, <2>1, <2>2, <2>3 DEF Marked, Finishing
  <2>9. "graceful" \in hit' /\ pc' \in {"supervise", "finish", "classify"} => killActed'
    BY <1>0, <2>1, <2>2 DEF Marked
  <2>10. "graceful" \in hit' => watcher' # "off"
    BY <1>0, <2>1 DEF Marked
  <2>11. (pc' \in Early => watcher' = "off") /\ (watcher' # "off" => Answered')
    BY <1>0, <2>1, <2>2 DEF Marked, Answered
  <2> QED
    BY <2>1, <2>5, <2>6, <2>7, <2>8, <2>9, <2>10, <2>11 DEF Marked
<1>5. CASE UNCHANGED vars
    BY <1>0, <1>5 DEF Marked, Fits, Answered, vars, recordVars, controlVars, sidecarVars, threadVars,
        childVars, cliVars
<1> QED
    BY <1>1, <1>2, <1>3, <1>4, <1>5, Movers

(***************************************************************************)
(* The theorems                                                            *)
(***************************************************************************)
LEMMA InitTold == Init => Told
<1> SUFFICES ASSUME Init PROVE Told
    OBVIOUS
<1>1. /\ pc = "setup" /\ ready = "owed" /\ client = "waiting" /\ wal = "none" /\ child = "none"
      /\ hit = {} /\ timer = "off" /\ watcher = "off"
    BY DEF Init
<1>2. meta.status = "Absent" /\ meta.prov = "none"
    BY DEF Init, Unrecorded
<1>3. \A r \in Reconcilers : rec[r].pc = "idle" /\ rec[r].next = "Absent"
    BY DEF Init, IdleRec
<1>4. Published /\ Unended /\ Refused
    BY <1>1, <1>2 DEF Published, Unended, Refused, PreSpawn
<1>5. Spawned
    BY <1>1, <1>2, <1>3 DEF Spawned, Ending, Guarded, Failing, ChildlessEnds, ObservedExits
<1>6. Decided /\ StaysRemoved
    BY <1>2, <1>3 DEF Decided, DecidedBy, StaysRemoved
<1>7. Logged /\ Found
    BY <1>1, <1>2 DEF Logged, LogDecides, WalOrder, LossIsLoss, Found
<1>8. Marked
    BY <1>1, <1>2, <1>3 DEF Marked, ObservedExits
<1> QED
    BY <1>4, <1>5, <1>6, <1>7, <1>8 DEF Told

\* Every step keeps the invariant, one lemma per part.
LEMMA ToldStep == Inv /\ Told /\ [Next]_vars => Told'
<1> SUFFICES ASSUME Inv, Told, [Next]_vars PROVE Told'
    OBVIOUS
<1>1. Inv'
    BY InvStep
<1> QED
    BY <1>1, PublishedStep, UnendedStep, RefusedStep, SpawnedStep, DecidedStep, StaysRemovedStep,
       LoggedStep, FoundStep, MarkedStep DEF Told

\* Told is an invariant.
THEOREM ToldHolds == Spec => []Told
BY InitTold, ToldStep, InvHolds, PTL DEF Spec

\* The event log is written before meta.json, and what can be read of it is replayed before
\* anything is inferred: the two agree on how the run ended, wherever the sidecar, a
\* reconciler or a write failed, except for a loss inferred by a reconciliation that could
\* not read the log, or over a SidecarFailed for which no child is known.
THEOREM LogDecidesHolds == Spec => []LogDecides
<1>1. Told => LogDecides
    BY DEF Told, Logged
<1> QED
    BY <1>1, ToldHolds, PTL

\* No running child is lost: it is supervised, or recorded, or where reconciliation looks.
THEOREM ChildAccountedHolds == Spec => []ChildAccounted
<1>1. Told => ChildAccounted
    BY DEF Told, Found, ChildAccounted
<1> QED
    BY <1>1, ToldHolds, PTL

\* A timeout or a kill that found the child alive decides how its exit is recorded, by the
\* sidecar or by a reconciler that replays the log.
THEOREM KillClassifiedHolds == Spec => []KillClassified
<1>1. Told => KillClassified
    BY DEF Told, Marked, Fits, KillClassified
<1> QED
    BY <1>1, ToldHolds, PTL

\* Every step moves the status in meta.json along the state diagram, or not at all.
LEMMA LifecycleStep ==
    ASSUME Inv, Told, [Next]_vars
    PROVE  [Lifecycle!Next]_(meta.status)
<1> USE DEF Lifecycle!Next, Lifecycle!PublishStarting, Lifecycle!PublishRunning,
        Lifecycle!EndChildless, Lifecycle!EndObserved, Lifecycle!EndFailed, Lifecycle!InferLost,
        Lifecycle!Remove, Lifecycle!Revive
<1>0. /\ Lifecycle!Live = Live /\ Lifecycle!ChildlessEnds = ChildlessEnds
      /\ Lifecycle!ObservedExits = ObservedExits
    BY DEF Lifecycle!Live, Live, Lifecycle!ChildlessEnds, ChildlessEnds, Lifecycle!ObservedExits,
        ObservedExits
<1>1. CASE SidecarMove
  <2>1. /\ pc \in {"starting", "running", "endMeta"} => meta.status \in {"Absent", "Starting"}
        /\ pc = "persist" => meta.status = "Running"
    BY DEF Told, Published, PreSpawn
  <2>2. pc = "failPersist" => meta.status \in Live \cup {"Absent"}
    BY DEF Inv, Records, Locking, Failing
  <2>3. /\ pc = "endMeta" => mem \in ChildlessEnds
        /\ pc = "persist" => mem \in ObservedExits
        /\ pc = "failPersist" => mem = "SidecarFailed"
    BY DEF Inv, Phases, Ending
  <2>4. \/ meta'.status = meta.status
        \/ pc = "starting" /\ meta'.status = "Starting"
        \/ pc = "running" /\ meta'.status = "Running"
        \/ pc \in {"endMeta", "persist", "failPersist"} /\ meta'.status = mem
    BY <1>1, SidecarRecords DEF Leaves
  <2> QED
    BY <1>0, <2>1, <2>2, <2>3, <2>4 DEF Live
<1>2. ASSUME NEW r \in Reconcilers, RecMove(r) PROVE [Lifecycle!Next]_(meta.status)
  <2>1. CASE meta' = meta
    BY <2>1
  <2>2. CASE rec[r].pc = "write" /\ dir = "present" /\ meta' = RecRecord(r)
    <3>1. meta'.status = rec[r].next
      BY <2>2 DEF RecRecord
    <3>2. /\ rec[r].seen \in Live /\ rec[r].next \in Outcomes(rec[r].seen)
          /\ meta.status \in {rec[r].seen, "Removed"}
      BY <2>2 DEF Told, Decided, DecidedBy
    <3>3. CASE meta.status = rec[r].seen
      BY <1>0, <3>1, <3>2, <3>3 DEF Outcomes, ExitReasons, Live
    <3>4. CASE meta.status = "Removed"
      <4>1. rec[r].next \notin ObservedExits
        BY <3>4 DEF Inv, Evidence, Answered, Told, Refused, Discarded
      <4>2. rec[r].next \notin ChildlessEnds
        BY <2>2, <3>4 DEF Told, Spawned, StaysRemoved, ChildlessEnds
      <4> QED
        BY <1>0, <3>1, <3>2, <3>4, <4>1, <4>2 DEF Outcomes, ExitReasons
    <3> QED
      BY <3>2, <3>3, <3>4
  <2> QED
    BY <1>2, <2>1, <2>2, RecFrame DEF Inv
<1>3. CASE ClientMove
  <2>1. \/ meta' = meta
        \/ meta'.status = "Removed" /\ ready \in {"error", "eof"} /\ client # "refused"
    BY <1>3, ClientFrame DEF recordVars, Leaves
  <2>2. ready \in {"error", "eof"} => meta.status \notin ObservedExits
    BY DEF Inv, Evidence, Answered
  <2>3. meta.status = "Removed" => client = "refused"
    BY DEF Told, Refused, Discarded
  <2> QED
    BY <1>0, <2>1, <2>2, <2>3
<1>4. CASE QuietMove
    BY <1>4, QuietFrame DEF recordVars
<1>5. CASE UNCHANGED vars
    BY <1>5 DEF vars, recordVars
<1> QED
    BY <1>1, <1>2, <1>3, <1>4, <1>5, Movers

\* Supervision implements RunLifecycle: whoever reads meta.json sees the state diagram of
\* the transition methods, whatever crashes and whoever writes.
THEOREM LifecycleImplemented == Spec => ImplementsLifecycle
<1>1. Init => Lifecycle!Init
    BY DEF Init, Lifecycle!Init, Unrecorded
<1>2. Inv /\ Told /\ [Next]_vars => [Lifecycle!Next]_(meta.status)
    BY LifecycleStep
<1> QED
    BY <1>1, <1>2, InvHolds, ToldHolds, PTL DEF Spec, ImplementsLifecycle, Lifecycle!Spec

\* What the ready pipe is given: what the sidecar has in memory, where meta.json shows it.
LEMMA SidecarAnswers ==
    ASSUME Inv, SidecarMove
    PROVE  \/ ready' \in {ready, "owed", "lost", "error", "eof"}
           \/ /\ pc \in {"readySpawn", "readyPoll", "ready", "endReady", "failReady"}
              /\ ready' = mem /\ meta' = meta
<1> USE DEF recordVars, sidecarVars, SendReady
<1>1. CASE Setup \/ Tell \/ WriteStarting \/ FirstScan \/ PollDependencies \/ Bind \/ Spawn
    BY <1>1 DEF Setup, Tell, WriteStarting, FirstScan, PollDependencies, Bind, Spawn
<1>2. CASE SignalScanned \/ EndReady \/ DeliverReady \/ FailReady
    BY <1>2 DEF SignalScanned, EndReady, DeliverReady, FailReady
<1>3. CASE EndEvent \/ EndMeta \/ WriteCrumb \/ StartPty \/ SetupStdin \/ PublishRunning \/ ArmWatchers
    BY <1>3 DEF EndEvent, EndMeta, WriteCrumb, StartPty, SetupStdin, PublishRunning, ArmWatchers
<1>4. CASE Observe \/ Fail \/ Finish \/ Classify \/ CleanUp \/ EmitExited \/ Persist \/ Release \/ RunHooks
    BY <1>4 DEF Observe, Fail, Finish, Classify, CleanUp, EmitExited, Persist, Release, RunHooks
<1>5. CASE StopChild \/ FailCleanUp \/ EmitFailed \/ PersistFailed \/ Crash
    BY <1>5 DEF StopChild, FailCleanUp, EmitFailed, PersistFailed, Crash
<1> QED
    BY <1>1, <1>2, <1>3, <1>4, <1>5 DEF SidecarMove, SidecarStep

\* An answer that holds goes on holding: the record only moves along the diagram, and an
\* answered client removes nothing.
LEMMA AnswerKept ==
    ASSUME AnswerHolds, Inv, Told, Told', [Next]_vars, ready' = ready
    PROVE  AnswerHolds'
<1>1. [Lifecycle!Next]_(meta.status)
    BY LifecycleStep
<1>2. meta'.status = "Removed" => ready \in {"error", "eof"}
    BY DEF Told, Refused, Discarded
<1>3. "error" \notin SidecarEnds /\ "eof" \notin SidecarEnds
    BY DEF SidecarEnds, ExitReasons, ObservedExits, ChildlessEnds
<1>4. CASE meta'.status = meta.status
    BY <1>4 DEF AnswerHolds
<1>5. CASE meta'.status # meta.status /\ meta'.status # "Removed"
  <2> USE DEF Lifecycle!Next, Lifecycle!PublishStarting, Lifecycle!PublishRunning,
          Lifecycle!EndChildless, Lifecycle!EndObserved, Lifecycle!EndFailed, Lifecycle!InferLost,
          Lifecycle!Remove, Lifecycle!Revive, Lifecycle!Live, Lifecycle!ChildlessEnds,
          Lifecycle!ObservedExits
  <2>1. meta'.status \notin {"Absent", "Removed"}
    BY <1>1, <1>5
  <2>2. meta.status \in {"Absent", "Starting", "Running", "Removed"}
    BY <1>1, <1>5
  <2>3. meta.status = "Running" => meta'.status \in {"SidecarLost"} \cup ExitReasons
    BY <1>1, <1>5 DEF ExitReasons, ObservedExits
  <2>4. meta.status \in {"Absent", "Starting", "Removed"} => ready # "Running"
    BY DEF AnswerHolds, ExitReasons, ObservedExits
  <2>5. ready \notin SidecarEnds
    BY <2>2 DEF AnswerHolds, SidecarEnds, ExitReasons, ObservedExits, ChildlessEnds
  <2> QED
    BY <2>1, <2>2, <2>3, <2>4, <2>5 DEF AnswerHolds
<1>6. CASE meta'.status = "Removed"
    BY <1>2, <1>3, <1>6 DEF AnswerHolds
<1> QED
    BY <1>4, <1>5, <1>6

\* A client that start answered was told what was already on disk, and finds the session
\* there afterwards, for any launch spec and whatever fails.
THEOREM AnswerHoldsHolds == Spec => []AnswerHolds
<1>1. Init => AnswerHolds
    BY DEF Init, AnswerHolds, SidecarEnds, ExitReasons, ObservedExits, ChildlessEnds
<1>2. ASSUME AnswerHolds, Inv, Told, Told', [Next]_vars PROVE AnswerHolds'
  <2>1. CASE ready' = ready
    BY <1>2, <2>1, AnswerKept
  <2>2. CASE ready' # ready
    <3>1. SidecarMove
      BY <1>2, <2>2, Movers, QuietFrame, ClientFrame, RecFrame DEF vars, sidecarVars, Inv
    <3>2. CASE ready' \in {"owed", "lost", "error", "eof"}
      BY <3>2 DEF AnswerHolds, SidecarEnds, ExitReasons, ObservedExits, ChildlessEnds
    <3>3. CASE /\ pc \in {"readySpawn", "readyPoll", "ready", "endReady", "failReady"}
               /\ ready' = mem /\ meta' = meta
      <4>1. meta.status = mem
        BY <1>2, <3>3 DEF Told, Published, Inv, Phases, PreSpawn
      <4>2. mem \in Live \cup SidecarEnds
        BY <1>2 DEF Inv, TypeOK
      <4> QED
        BY <3>3, <4>1, <4>2 DEF AnswerHolds, SidecarEnds, ExitReasons, ObservedExits, ChildlessEnds, Live
    <3> QED
      BY <1>2, <2>2, <3>1, <3>2, <3>3, SidecarAnswers
  <2> QED
    BY <2>1, <2>2
<1>3. Inv /\ Told /\ [Next]_vars => Told'
    BY ToldStep
<1> QED
    BY <1>1, <1>2, <1>3, InvHolds, ToldHolds, PTL DEF Spec
=============================================================================
