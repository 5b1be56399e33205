------------------------------ MODULE RunEffects ------------------------------
(***************************************************************************)
(* What a PTY run records besides its lifecycle: the sidecar's effects     *)
(* thread (RunEffects in src/sidecar.rs) logs and patches into meta.json   *)
(* the changes of control that the input writer decides and the stop that  *)
(* the recorder reports, while the guard (src/sidecar/supervised_run.rs)   *)
(* writes meta.json as a whole, and the teardown that ends both.           *)
(*                                                                         *)
(* The recorder is RecorderContract's.  Of meta.json, status, whether it   *)
(* has a PTY part, the owner of the input and the state of the recording   *)
(* are kept.  A file operation that may fail does so at most MaxFaults     *)
(* times.                                                                  *)
(***************************************************************************)
EXTENDS RecorderContract, Naturals

CONSTANTS
    MaxChanges,  \* bound: changes of control and revocations the writer decides
    MaxFaults    \* bound: writes of meta.json and of facts that fail

ASSUME EffectsAssumption == MaxChanges \in Nat /\ MaxFaults \in Nat

VARIABLES
    decided,   \* history: what the input writer decided, in order
    chan,      \* the effects channel
    fx,        \* the effects thread
    owner,     \* the live owner of the input, shared with the guard
    metaLock,  \* META_WRITE: who holds it, or "free"
    metaFile,  \* meta.json
    meta,      \* the guard's own copy
    guard,     \* the guard's step
    log,       \* the event log
    faults     \* failed writes so far

effectVars ==
    <<contractVars, decided, chan, fx, owner, metaLock, metaFile, meta, guard, log, faults>>

\* The changes of control (ControlChange, and their triggers), and input_revoked.
Humans == {"attach", "takeover"}
Changes == Humans \cup {"detach"}

\* ControlChange::owner.
OwnerAfter(c) == IF c \in Humans THEN "human" ELSE "agent"

EffectsInit ==
    /\ ContractInit
    /\ decided = <<>> /\ chan = <<>>
    /\ fx = [pc |-> "unborn", effect |-> [kind |-> "none"], patch |-> [status |-> "none"]]
    /\ owner = "agent" /\ metaLock = "free"
    /\ metaFile = [status |-> "Starting", pty |-> FALSE, control |-> "agent", rec |-> "none"]
    /\ meta = metaFile
    /\ guard = "adopted" /\ log = <<>> /\ faults = 0

Started == fx.pc # "unborn"
FaultLeft == faults < MaxFaults
Fault == faults' = faults + 1

(***************************************************************************)
(* Deciding effects                                                        *)
(***************************************************************************)
\* The send fails once the thread has stopped, and the effect is dropped.
Send(e) == chan' = IF fx.pc = "stopped" THEN chan ELSE Append(chan, e)

\* SidecarControlHooks, on the input writer thread.  A release ends a human's control.
Decide(c) ==
    /\ Started /\ Len(decided) < MaxChanges
    /\ c = "detach" => decided # <<>> /\ decided[Len(decided)] \in Humans
    /\ decided' = Append(decided, c)
    /\ Send([kind |-> IF c \in Changes THEN "control" ELSE "revoked", change |-> c,
             n |-> Len(decided) + 1])
    /\ UNCHANGED <<contractVars, fx, owner, metaLock, metaFile, meta, guard, log, faults>>

\* The recorder stops while it records; on_stop queues the stop.
RecorderStops ==
    /\ Started /\ ~rclosed
    /\ rstop' = [reason |-> "limit"]
    /\ ContractStop
    /\ Send([kind |-> "stopped"])
    /\ UNCHANGED <<decided, fx, owner, metaLock, metaFile, meta, guard, log, faults>>

(***************************************************************************)
(* The effects thread                                                      *)
(***************************************************************************)
\* append_fact, best effort; what has nothing to patch is done with.
FxFact ==
    /\ fx.pc = "recv" /\ chan # <<>> /\ Head(chan).kind # "flush"
    /\ chan' = Tail(chan)
    /\ fx' = [fx EXCEPT !.effect = Head(chan),
                        !.pc = IF Head(chan).kind = "revoked" THEN "recv" ELSE "lock"]
    /\ \/ log' = Append(log, Head(chan)) /\ UNCHANGED faults
       \/ FaultLeft /\ Fault /\ UNCHANGED log
    /\ UNCHANGED <<contractVars, decided, owner, metaLock, metaFile, meta, guard>>

\* Under META_WRITE the owner is published and meta.json read; a recording stop is
\* patched only where there is a recording.
FxPatch ==
    /\ fx.pc = "lock" /\ metaLock = "free"
    /\ metaLock' = "effects"
    /\ LET control == fx.effect.kind = "control"
       IN  /\ owner' = IF control THEN OwnerAfter(fx.effect.change) ELSE owner
           /\ fx' = [fx EXCEPT !.pc = "write", !.patch =
                       CASE control /\ metaFile.pty -> [metaFile EXCEPT !.control = owner']
                         [] ~control /\ metaFile.rec # "none" -> [metaFile EXCEPT !.rec = "stopped"]
                         [] OTHER -> metaFile]
    /\ UNCHANGED <<contractVars, decided, chan, metaFile, meta, guard, log, faults>>

\* patch_meta_file's write and rename.
FxWrite ==
    /\ fx.pc = "write"
    /\ metaLock' = "free"
    /\ fx' = [fx EXCEPT !.pc = "recv"]
    /\ \/ metaFile' = fx.patch /\ UNCHANGED faults
       \/ FaultLeft /\ Fault /\ UNCHANGED metaFile
    /\ UNCHANGED <<contractVars, decided, chan, owner, meta, guard, log>>

\* Everything sent earlier is recorded: acknowledge and stop, dropping the rest.
FxFlush ==
    /\ fx.pc = "recv" /\ chan # <<>> /\ Head(chan).kind = "flush"
    /\ fx' = [fx EXCEPT !.pc = "stopped"]
    /\ chan' = <<>>
    /\ UNCHANGED <<contractVars, decided, owner, metaLock, metaFile, meta, guard, log, faults>>

(***************************************************************************)
(* The guard                                                               *)
(***************************************************************************)
Goto(pc) == guard' = pc

\* publish_running starts the attach side; a failure leaves nothing running.
StartPty ==
    /\ guard = "adopted"
    /\ \/ Goto("started") /\ fx' = [fx EXCEPT !.pc = "recv"]
       \/ Goto("failed") /\ UNCHANGED fx
    /\ UNCHANGED <<contractVars, decided, chan, owner, metaLock, metaFile, meta, log, faults>>

\* The transition to Running and its event; before it, a transport that cannot be set up
\* ends the run.
PublishRunning ==
    /\ guard = "started"
    /\ \/ /\ meta' = [meta EXCEPT !.status = "Running", !.pty = TRUE]
          /\ log' = Append(log, [kind |-> "running"])
          /\ Goto("write_running")
       \/ Goto("ending") /\ UNCHANGED <<meta, log>>
    /\ UNCHANGED <<contractVars, decided, chan, fx, owner, metaLock, metaFile, faults>>

\* Mutant: the owner and the recording are not folded in.
FoldMeta_Stale(folded) ==
    /\ metaLock = "free" /\ metaLock' = "guard"
    /\ Goto(folded)
    /\ UNCHANGED <<contractVars, decided, chan, fx, owner, metaFile, meta, log, faults>>

\* RunCore::write_meta takes META_WRITE and folds in the owner and, until it is finished,
\* the recording as it is now.
FoldMeta(folded) ==
    /\ metaLock = "free" /\ metaLock' = "guard"
    /\ Goto(folded)
    /\ meta' = IF meta.pty
               THEN [meta EXCEPT !.control = owner,
                                 !.rec = IF rstop = Recorded THEN "recording" ELSE "stopped"]
               ELSE meta
    /\ UNCHANGED <<contractVars, decided, chan, fx, owner, metaFile, log, faults>>

\* write_meta_atomic, and the lock is released.
WriteMeta(written, failed) ==
    /\ metaLock' = "free"
    /\ \/ metaFile' = meta /\ Goto(written) /\ UNCHANGED faults
       \/ FaultLeft /\ Fault /\ Goto(failed) /\ UNCHANGED metaFile
    /\ UNCHANGED <<contractVars, decided, chan, fx, owner, meta, log>>

\* Running is written, or the run ends; later it is written again, for a warning.
WriteRunning ==
    \/ guard = "write_running" /\ FoldMeta("running_folded")
    \/ guard = "running_folded" /\ WriteMeta("running", "ending")
    \/ guard = "running" /\ FoldMeta("again_folded")
    \/ guard = "again_folded" /\ WriteMeta("supervising", "supervising")

\* finish and end_failed begin with finish_recording: the recorder is closed, which may
\* stop it, and its summary goes into the guard's copy.
FinishRecording ==
    /\ guard \in {"running", "supervising", "ending"}
    /\ rstop' \in {rstop} \cup (IF rstop = Recorded THEN {[reason |-> "stalled"]} ELSE {})
    /\ ContractClose
    /\ IF rstop' # rstop THEN Send([kind |-> "stopped"]) ELSE UNCHANGED chan
    /\ meta' = IF meta.pty
               THEN [meta EXCEPT !.rec = IF rstop' = Recorded THEN "complete" ELSE "stopped"]
               ELSE meta
    /\ Goto("finished")
    /\ UNCHANGED <<decided, fx, owner, metaLock, metaFile, log, faults>>

\* PtyTeardown: the registry is closed and the flush sent.
Teardown ==
    /\ guard = "finished"
    /\ Send([kind |-> "flush"])
    /\ Goto("flushing")
    /\ UNCHANGED <<contractVars, decided, fx, owner, metaLock, metaFile, meta, log, faults>>

\* Mutant: the flush is not waited for.
Flushed_Early ==
    /\ guard = "flushing"
    /\ meta' = IF meta.pty THEN [meta EXCEPT !.control = owner] ELSE meta
    /\ Goto("terminal_event")
    /\ UNCHANGED <<contractVars, decided, chan, fx, owner, metaLock, metaFile, log, faults>>

\* The flush is acknowledged: end_attach_side folds in the final owner.
Flushed ==
    /\ guard = "flushing" /\ fx.pc = "stopped"
    /\ meta' = IF meta.pty THEN [meta EXCEPT !.control = owner] ELSE meta
    /\ Goto("terminal_event")
    /\ UNCHANGED <<contractVars, decided, chan, fx, owner, metaLock, metaFile, log, faults>>

\* The terminal transition and its event; a run that never started its attach side gets
\* here directly.
TerminalEvent ==
    /\ guard \in {"terminal_event", "failed"}
    /\ meta' = [meta EXCEPT !.status = "Terminal"]
    /\ log' = Append(log, [kind |-> "terminal"])
    /\ Goto("terminal_meta")
    /\ UNCHANGED <<contractVars, decided, chan, fx, owner, metaLock, metaFile, faults>>

\* write_meta once more: the attach side is gone and there is nothing to fold in.  Then
\* the lock is released.
TerminalMeta ==
    \/ /\ guard = "terminal_meta" /\ metaLock = "free"
       /\ metaLock' = "guard" /\ Goto("terminal_folded")
       /\ UNCHANGED <<contractVars, decided, chan, fx, owner, metaFile, meta, log, faults>>
    \/ guard = "terminal_folded" /\ WriteMeta("ended", "unrecorded")

EffectsThread == FxFact \/ FxPatch \/ FxWrite \/ FxFlush
Guard ==
    StartPty \/ PublishRunning \/ WriteRunning \/ FinishRecording \/ Teardown \/ Flushed
    \/ TerminalEvent \/ TerminalMeta

EffectsNext ==
    \/ \E c \in Changes \cup {"revoke"} : Decide(c)
    \/ RecorderStops
    \/ EffectsThread
    \/ Guard

EffectsSpec == EffectsInit /\ [][EffectsNext]_effectVars

(***************************************************************************)
(* Properties                                                              *)
(***************************************************************************)
\* meta.json keeps up with the effects thread and is never set back: with META_WRITE
\* free, a running PTY's meta.json names the live owner, and shows the recording stopped
\* once the stop was patched, whatever the guard wrote in between (a write that failed
\* excepted).
MetaKeepsUp ==
    metaLock = "free" /\ faults = 0 /\ metaFile.status = "Running" =>
        /\ metaFile.control = owner
        /\ (rstop # Recorded /\ chan = <<>> /\ fx.pc \in {"recv", "stopped"}) =>
               metaFile.rec = "stopped"

\* The logged facts of a kind, by their places.
Facts(kind) == {i \in DOMAIN log : log[i].kind = kind}

\* The last change of control that was logged; control is the agent's before any.
IsLatest(i) == \A j \in Facts("control") : j <= i
OwnerLogged(o) ==
    /\ Facts("control") = {} => o = "agent"
    /\ \A i \in Facts("control") : IsLatest(i) => o = OwnerAfter(log[i].change)

\* Effects are logged in the order they were decided, the stop at most once, and nothing
\* after the terminal event.
LogOrdered ==
    /\ \A i \in Facts("terminal") : i = Len(log)
    /\ \A i, j \in Facts("control") \cup Facts("revoked") : i < j => log[i].n < log[j].n
    /\ \A i, j \in Facts("stopped") : i = j

\* The run's record is complete when it is terminal: with the terminal meta.json written,
\* it is the guard's; its owner is the one the last logged change left, it shows the
\* recorder's stop if there was one, and that stop was logged.
EndTellsAll ==
    guard = "ended" =>
        /\ metaFile = meta
        /\ metaFile.pty /\ faults = 0 =>
               /\ OwnerLogged(metaFile.control)
               /\ metaFile.rec = IF rstop = Recorded THEN "complete" ELSE "stopped"
               /\ rstop # Recorded => Facts("stopped") # {}

\* meta.json and the log tell the same story of control and of the recording, while
\* the run lasts and after it.
MetaFollows == MetaKeepsUp /\ LogOrdered /\ EndTellsAll

=============================================================================
