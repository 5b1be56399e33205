# AgentTender in TLA+

Tendr (`tendr`, the AgentTender repository) runs commands for agents under supervision. Every run is
a directory with a `meta.json`, an event log and a few control files, and a
detached *sidecar* process that owns the child. Everything else is a short-lived
CLI process working on those files: there is no daemon. What can go wrong is
therefore almost all of one kind: several processes, any of which may die at any
step, read and write the same files by path.

## The system

| Part | State it keeps | Operations | Source |
|---|---|---|---|
| Run lifecycle | run status, provenance, orphan evidence | `Meta::transition_*` | `model/state.rs`, `model/transition.rs`, `model/meta.rs` |
| Sidecar | session lock, meta in memory, child handle, ready pipe, timeout and kill-request threads | `run_inner`, dependency wait, `LifecycleGuard` (spawn to terminal record), hooks | `sidecar.rs`, `sidecar/supervised_run.rs` |
| Start client | end of the ready pipe | create, replace, idempotent start, wait for readiness, clean up | `commands/start.rs` |
| Reconciliation | the session lock while it works | heal from the log, infer a loss, stop an orphan | `reconcile.rs`, behind `status`, `wait`, `run` |
| Session directory | `meta.json`, `child_pid`, `kill_request`, `kill_forced`, `kill_acted`, `generation`, `launch_spec.json`, the lock file | create, open, atomic write, lock | `session.rs` |
| kill, prune | none | control files, direct kill; lock check, record check, deletion | `commands/kill.rs`, `commands/prune.rs` |
| Dependency wait | bound run ids and generations | scan, poll | `sidecar.rs` |
| PTY lane | control epochs and holders, control and input queues, registry, viewers | attach, takeover, push, FIFO frame, relay, retire | `model/pty_control.rs`, `pty_input.rs`, `attach_*.rs`, `commands/attach.rs`, `sidecar.rs` |
| Event log | segments, blobs, append lock, cursors, `lost+found` | append, follow, bookmark, resume | `events.rs`, `commands/events.rs` |
| Attach client | terminal mode, outbox, signal handlers, held keys | relay, detach, restore | `commands/attach.rs`, `attach_escape.rs`, `attach_proto.rs`, `pty_exit.rs` |
| Attach sockets | one socket per run, a breadcrumb per session | bind, publish, clean up, sweep | `attach_socket.rs`, `commands/prune.rs` |
| Recording | segments, sequencer, backlog | capture, resize, rotate, stop, finish, dump | `recorder.rs`, `recording.rs`, `recording/dump.rs` |
| Effects thread | effects channel, live owner, `META_WRITE` | log a fact, patch `meta.json`, flush | `sidecar.rs`, `sidecar/supervised_run.rs` |
| exec | exec lock, frames in the shell's output | lock, type, wait, drain, answer | `commands/exec.rs`, `exec_frame.rs`, `exec_request.rs` |
| push | the outcome of a push | send, detach, read the outcome | `commands/push.rs` |
| Readers | offsets into logs | `log`, `run`, `wait`, `watch`; `query`, `list` | `log.rs`, `commands/*.rs` |
| Platform, remote | none | kill, lock, pipes; ssh | `platform/*.rs`, `ssh.rs` |

How they meet: the start client spawns the sidecar and reads one answer from a
pipe; `kill` and the sidecar meet in control files, and `kill` falls back to
killing the child by pid and start time; reconciliation acts only under the
lock, which the kernel drops when the sidecar dies; the log is written before
the record (`emit`, then `write_meta_atomic`), so that a record lost in a crash
can be rebuilt. The directory is shared by all runs of a name, one after the
other, and every process reaches it by path.

What is hard, and what the properties are therefore about:

- a crash between any two durable effects of the sidecar, of the reconciler, of
  the kill command, and a failed write at each of them;
- a record read before the lock was taken and used after it;
- the order of log, record, answer and lock release;
- a timeout, two kills and the child's own exit in any order;
- a directory replaced or deleted between a check and the action it justified;
- `start` and `status` always returning, whatever else happens;
- lines of several writers in one file, cut short anywhere, and a reader whose
  cursor must neither skip nor repeat what it printed;
- control of a PTY changing hands while the old holder's input is queued, staged
  and half written, its viewer half installed and its client perhaps gone;
- a terminal that must not be left raw, and keys that arrive in pieces;
- commands that wait for something another process does: whether they end, and
  whether what they report then ever happened;
- readers that reach one file after another by path while the session is replaced.

`PROJECT.json` lists these as hazards, each at its line.

## Modules

| Module | Models |
|---|---|
| `RunStatus` | the statuses of a run and the transition methods, as partial functions on them |
| `RunLifecycle` | abstract: what the status in `meta.json` may do, seen from the disk |
| `Supervision` | one run: sidecar, its two threads, start client, any number of reconcilers and killers |
| `SupervisionProofs` | the inductive invariants of `Supervision`, the theorems that follow, and the refinement of `RunLifecycle` |
| `SessionProofs` | the lock discipline of `SessionDirectory` and the theorems that follow |
| `RecordingProofs` | the inductive invariants of `Recording` and of `RunEffects`, their theorems, and the refinement of `RecorderContract` |
| `DataLemmas` | facts about data for the proofs: induction, recursive functions, sums over sets and sequences |
| `ControlProofs` | the inductive invariant of `PtyInput`, and the theorems about control of the PTY |
| `BytesProofs` | on top of it: what becomes of each byte of input |
| `SessionDirectory` | one session name over many runs: start, replace, status, prune, kill and the sidecars they meet |
| `EventLog` | the event log of one session: writers, segments, blobs, one following reader and its cursor |
| `PtyInput` | one PTY: arbiter, queues, writer thread, connection handlers, registry, retirement, viewers |
| `Recording` | the recorder of a PTY run: producers, sequencer, writer thread, segments, finish |
| `RecorderContract` | abstract: what the recorder promises the rest of the sidecar |
| `RunEffects` | the effects thread and the guard, both writing `meta.json`, on a recorder that keeps the contract |
| `ClientProofs` | the inductive invariants of `Waiting`, `Exec`, `LogFollow`, `AttachSockets` and `AttachClient`, and their theorems |
| `Waiting` | the dependency wait of `--after`, and `wait` |
| `LogFollow` | `log`, `log --follow`, and the foreground `run` that follows |
| `Exec` | `exec` clients, the shell, the two capture threads and `output.log` |
| `Watch` | `watch` on one session name |
| `LogProofs` | the inductive invariants of `Watch` and `EventLog`, and their theorems |
| `AttachClient` | the attach client: three threads, outbox, signals, terminal |
| `EscapeParser` | the detach escape, as a function of keys cut into reads |
| `Handshake` | what connecting and the hello can answer, and the exit codes |
| `PushClient` | `push`, and the frames it exchanges with the session |
| `AttachSockets` | the attach sockets and prune's sweep |
| `MCSupervision`, `MCSessionDirectory`, `MCEventLog`, `MCPtyInput`, `MCRecording`, `MCWaiters`, `MCTerminalClients` | instances for TLC |

Definitions named `X_Something` next to `X` are plausible wrong versions of `X`;
they are used only to confirm that a property would notice the mistake.

`Recording` implements `RecorderContract` (the property `KeepsContract`), and
`RunEffects` extends it: the two halves of the sidecar's recording are checked
apart, joined by the contract. `PtyInput` decides the changes of control that
`RunEffects` records; `Supervision` leaves the outcome of the dependency scan open
and `Waiting` says which one there is. The last three instances hold several
small components that share no state; the variable `part` says which one a
behaviour is about, and the others stay as they began.

### Supervision

One action per durable effect or observation. The sidecar is a program counter
(`pc`) through `run_inner` (`setup` ... `spawn`), the guard (`crumb` ...
`supervise`), `finish_observed` (`finish` ... `release`), the guard's failure
path (`stop` ... `failRelease`) and the childless ends (`end*`). `meta` is what
`meta.json` shows, `mem` the meta the sidecar holds, `wal` the terminal event in
the log, `salvaged` the copy in `lost+found`, `crumb` the breadcrumb; `child` and
`exit` are the child; `rec[r]` and `kil[k]` are CLI processes with a program
counter each. `hit` is history: which kills found the child alive.

Each fallible call has its failing outcome, enabled by a name in the constant `Faults`:
lock or spec set-up, meta write (with the two outcomes of a failed atomic write: nothing
written, or renamed and not synced), event append, socket bind, spawn, breadcrumb
(nothing or a torn file), PTY registration, stdin, `wait`, a panic, a child that
outlives SIGKILL, a failed identity probe, an event log or a breadcrumb that
reconciliation cannot read (it takes either for "no evidence"; `missed` in `meta` is
history of that), marker and request writes, and the death of the sidecar, of a CLI
process or of the start client. Time is not modelled: a timeout may pass whenever it is
armed, a bounded poll may end whenever it waits. The result of a dependency scan is left
open. Output capture and the PTY side are one fallible step each.

### SessionDirectory

Directories are numbered as they are made; `at` is the one now at the path and
`files` its content; a sidecar remembers the number whose lock it holds, every
other access goes to whatever is at the path. `plan` is the scenario: which
command each process runs, whether one start has finished first, which runs wait
for dependencies, whether commands that make or delete directories run one at a
time, and whether sidecars die. A run with dependencies publishes Starting and
scans; the outcome of the scan is left open, except for the kill requests it
heeds. The reconciliation inside `status` is one step here, with a readable log and
breadcrumb.

### EventLog

A line is two halves and a newline, so that a write may be cut short after the first
half, or the second, or not at all; `segs` is the content of the segments in the order
of their names. A writer goes through `append` step by step: it consumes a seq, spills a
large payload to a blob (temporary file, then rename), takes its timestamp, opens the
newest segment or makes one, locks, writes and unlocks; listing, opening, locking and
writing may each fail. A writer that dies is one whose write fails and that appends no
more. The reader polls (one step: a poll of segments that only grow cannot be told from
a later one), sorts its batch by the merge key, prints record by record, hands out
bookmarks between any two of them, and may be resumed from any bookmark. Removal of the
session by prune empties the directory under both.

Two segment names are enough: a name is made only while there is no segment. The
`--include-logs` projection of `output.log`, reading `lost+found`, the append
path of network file systems and Windows, and loss of unsynced data are not
modelled.

### PtyInput

A connection is a number and is its own holder identity. `setup` says what each
of them is (attach, takeover, push, FIFO frame), what it sends, which clients may
vanish, how much output there is, whether the run ends and how many epochs were
used before. `arb` is the arbiter, `wr` the writer thread with the controls it
took and the request it is writing, `conn[c]` the handler, `reg`, `sink`, `view`
and `retire` the registry, the sink with its lock, the viewers' queues and the
retirement threads. The writer's loop is one action per control served and one
per write attempt, which takes any number of bytes the PTY has room for. A
control message is served whole, because nobody else sees the arbiter.

`applied` and `fx` are histories: what reached the PTY, and the effects sent to
the effects thread (`RunEffects` is about what it does with them). Left out: the
parsing of frames and of the hello, empty frames, delivery of the retirement
notice (best effort by design).

### Recording, RecorderContract, RunEffects

`Recording` has one action per storage operation, each of which may fail. Capture
and the input writer offer records under the lock; `resize_applied` holds it from
the ioctl to the record. The writer prepares (rotating a full segment), publishes
by rename, appends in two pieces, settles under the lock, cuts back, syncs. A
segment knows which of its pieces survive a loss of power, and `CrashReadable`
decodes what is left of the files in every reachable state, with the rules of
`decode_recording`. `RunEffects` has the channel, the thread's fact and patch, and
the guard's own writes with what they fold in, up to the terminal record.

### Waiting, LogFollow, Exec, Watch

In `Waiting` the sessions waited for do what any session may: end, lose their
sidecar, be reconciled, removed, started again. A dependent run binds each, then
scans in the code's order (kill request, deadline, one dependency after another);
`wait` makes its passes with reconciliation and the wait for the lock, and derives
its exit code from any of the nine ends a session may have. `LogFollow`
has the ring of `--tail`, malformed lines, `--since` and the stop test. `Exec` types a
frame into a shell that prints to two pipes, logged by two threads; a client waits
for sentinel, marker, result file or deadline, drains after a timeout, and may be
killed. Finding nothing more to read and looking at `meta.json` are two steps
(`caughtUp`). `blame` is history: what earlier clients left behind.

`Watch` follows one name through removal and re-creation; `shown` is what was printed
and whether anything came twice or out of order. Offsets are in whole lines and
events. A removal is one step, and so is reading a log to its end.

### AttachClient, EscapeParser, Handshake, PushClient, AttachSockets

`AttachClient` goes from the checks to the exit with its sender and reader threads; a
handler may run between any two steps of the main thread. The session and the user do
what they like. `EscapeParser` reads scripts of key events (legacy bytes, CSI encodings,
repeats, releases, sequences cut short) in every division into reads. `PushClient` has
the client and the handler it talks to. `AttachSockets` has several runs' sidecars
against one sweep, whose listing and removals may fail; that a session's directory may
be removed under a live sidecar is allowed. The one assumption about time is that 60 s
never pass between bind(2) and listen(2) of one library call.

## Runs

| Run | Instance | Checks |
|---|---|---|
| `faults` | 2 reconcilers, every fault, an interactive spec and a dependent one with a timeout | `OneWriter`, `TypeOK`, `ChildAccounted`, `LogDecides`, `ObservedMeansReaped`, `AnswerHolds`, `TerminalFinal`, `ImplementsLifecycle` |
| `kills` | 2 killers, dependent run with a timeout, unkillable child and failing probe | `KillClassified` |
| `liveness` | 1 reconciler, the faults before and around readiness, fairness | `AlwaysAnswered`, `RunsSettle` |
| `session_turns` | five commands on one name, one at a time, three scenarios, mortal sidecars | `OneRunAtATime`, `KilledIsAimed`, `DeletesSpare` |
| `session_ends` | start, replace and kill at once, in two scenarios (one with dependencies), mortal sidecars, fairness | `EveryCommandEnds` |
| `session_orphan` | start and status at once | `OrphanSpares` is violated |
| `event_log` | 2 writers with up to 3 events, five set-ups: failing writes, blobs, a removal, a resumed reader; watch with three sets of flags over 2 runs of 2 lines and 2 events | `CursorExact`, `LogSound`, `WatchFaithful` |
| `pty_input` | up to 3 connections in ten set-ups, fairness | `ControlTold`, `InputAccounted`, `SupersededIsSilent`, `SuccessorKeepsViewer`, `ControlNeverStuck` |
| `recording` | 3 chunks, 2 resizes, 2 storage failures, two sets of limits; 3 changes of control and 1 failed write | `CrashReadable`, `ReportedEnd`, `ResizeFirst`, `MetaFollows`, `KeepsContract` |
| `waiters` | 2 sessions in six scenarios; 3 lines in five queries; 2 exec clients in five plans; fairness | `DependencyJustified`, `WaitHonest`, `FollowFaithful`, `ShellNotShared`, `AnswerIsOwn`, `NobodyWaitsForever` |
| `follow_drains` | the log part of `waiters` | `FollowDrains` is violated |
| `terminal_clients` | 2 keys or a resize; every script of 3 key events, of 4 with releases, and of 5 of two prefixes; 4 inputs; 2 runs and 2 sessions; fairness | `NeverLeftRaw`, `CutsDontMatter`, `ChildSeesPairs`, `PushTells`, `SweepExact`, `AttachLeaves` |

A property whose name joins several questions is the conjunction of named parts, each
with its own comment: `LogDecides` of `WalOrder` and `LossIsLoss`, `RunsSettle` of
`CrashReconciled` and `TerminalReleases`, `CursorExact` of `NeverDropped` and
`DuplicatesExplained`, and so on. The type invariants of `SessionDirectory`
and `PtyInput` hold on the instances of their runs and are there for the reader; that of
`EventLog` is a part of `LogSound`.

All runs say `CHECK_DEADLOCK FALSE`: a run that has ended and whose clients have
returned does stop.

Bounds. One run of a session meets every program point once, so a run is finite
without counters. Two reconcilers and two killers are what is needed for two
processes of a kind to race; a third adds no new pair, and the lock theorem is
proved for any number. Five commands are enough to start, replace, look and
prune with a second start to spare, to put two kills on two replacements, and to
ask for, replace, kill and look at a waiting run; three suffice for every race of
two commands with a third that made the directory. Killers and reconcilers of one run are
interchangeable, hence the symmetry; liveness is checked without it.

For the PTY, the capacities are scaled down until they bind: a queue of one input,
viewers one chunk behind, a PTY of one byte, two slots, a last epoch of three. The
control queue has two places and not one. The code has 16 places for at most nine
senders (eight connections and the FIFO forwarder), each with one request
outstanding, so a sender never waits for one; with one place, a forwarder that
asks again and again could keep a takeover out forever, which the code's numbers
exclude.

The recorder's limits are small enough to rotate twice, to hit the size limit and
to fill the backlog within three chunks. Two exec clients are needed for one to
find the other's leftovers; a third would find the same. The drain's margin is
larger than all that the model logs after a sentinel; see below for what happens
when it is not. Two runs under one name are one change of run, and a third is
another one; two lines are needed to see an offset survive it. An escape is a
prefix, a key and what may fall between them, hence scripts of three and four; that
nothing of one escape is left over for the next takes two, hence those of five.
Sessions that are started again have two ends each to choose from, and one scenario
of `wait` has all of them: the gravest of two ends is found among every pair.

Fairness. Each process of its own takes its next step (`WF` per process): the
operating system schedules it. `status` or `wait` is run again and again, which
is what `tendr wait` and an agent that polls do. Nothing is assumed of the
child, which may run forever, of a dependency, which may never end
(`SidecarProgress` excludes the poll), or of faults and crashes. In `PtyInput` the
writer and the handlers take their steps; whether a client sends, reads or stays,
whether the child reads, and whether output comes is left open. In `MCWaiters` the
waiting commands run, and so do the shell (while it has a command to print for) and
the capture threads; the sessions waited for, the log's writers and a shell's exit
are not sure to go on. In `MCTerminalClients` only attach's main thread and a signal
handler that was entered are sure to run: the session may never read, and the user's
terminal may never drain. Fairness there is restricted to the part the behaviour is
about.

### What the violated properties show

- `session_orphan`: a run without `--after` writes no `meta.json` before it is
  Running. `status` (or a second start) in that window takes the directory for an
  orphan and deletes it under the sidecar, without looking at the lock. Under
  the one-at-a-time discipline of `session_turns` the same property holds.
- `follow_drains`: `follow_log` sees the end of the file, then asks whether the run
  is terminal. Lines and the terminal record that are written in between are not
  read, although `run.rs:128` says that all output written before the terminal state
  has been. `log --follow` and the foreground `run` lose the end of a run's output.

### Other places where code and comments part

Found while modelling, stated here without a run of their own. The properties of the
runs are worded so that these cases are visible in them (as an exception, a history
variable or a bound).

- reconcile.rs:196: a log that cannot be listed or read counts as no evidence, so that a
  loss is recorded over an end that the log holds; if that end was an exit, its code is
  no longer to be seen in `meta.json`. `LossIsLoss` names this case (`missed`); the same
  goes for a breadcrumb that cannot be read, in `ChildAccounted`.
- kill.rs:82: the marker of `kill --force` names no run, unlike the request. A kill that
  read one run and was overtaken by its replacement marks the successor, which is then
  recorded as KilledForced however it ends (supervised_run.rs:606), although state.rs:52
  says of that end "Child was force-killed". `KilledIsAimed` says that this is the only way for
  a run to be recorded as killed by a kill that was not meant for it.
- start.rs:326: if the breadcrumb could not be written and the sidecar dies between
  publishing Running and answering, the start client deletes the directory of a live
  child.
- prune.rs:29, 159: between prune's lock check and its deletion by path a replace can
  put a live session there.
- commands/events.rs:110: an event's timestamp is taken before the append lock, so two
  events may lie in the file in the other order than they are merged in. A bookmark
  between them points before the unprinted one, and resuming prints the other again.
  `DuplicatesExplained` says that this is the only way to a repetition.
- sidecar.rs:1778: a guard write folds in the recorder's stop, and may put it into
  `meta.json` before the effects thread has logged it.
- watch.rs:218 says that `--from-now` skips the initial state only of sessions that
  existed at invocation. The names are remembered, not the runs: if a scan falls
  between the removal and the re-creation of such a session, the new run's first
  events and lines are skipped. And if listing the sessions fails once, every watcher
  is dropped (`unwrap_or_default`) and the next scan reports everything anew; listing
  errors are not modelled.
- attach.rs:361: a takeover is to be told from a detach by the exit code, but if the
  sender's write fails first, `closed` is set before the retirement is read, and the
  client exits 0.
- 03-run-lifecycle.md:46: nothing reconciles while a foreground `run` follows, so that a
  SIGKILLed sidecar leaves it following; the dependency scan, push to a FIFO and exec's
  waits read `meta.json` without reconciling too.
- wait.rs:170 calls its exit codes consistent with those of `run`, which passes on the
  code of the child and has others for a kill and a timeout.
- exec.rs: after a timeout the drain waits for the stdout sentinel only, so that the next
  exec may get the earlier command's late stderr (`blame.timed` in `AnswerIsOwn`); if more
  than 64 KiB is logged after the sentinel before the drain looks, it waits until the
  session ends; the stderr of DuckDB is collected for 100 ms after the answer
  (`drain_trailing_stderr`), and a failed statement whose message comes later exits 0.
  `AnswerIsOwn` claims nothing of DuckDB's stderr: an answer with code 0 has none.
- A reader of `output.log` (`follow_log`, `watch`) that sees part of a write takes both
  halves for malformed lines. Partial reads are not modelled.

## Proofs

Every theorem holds for every value of the constants, among them the names of the
processes, the faults and the bounds, so that the small sizes of the runs play no part.

| Theorems | Assumptions | Inductive invariant |
|---|---|---|
| `SupervisionProofs`: `TypesHold`, `OneWriterHolds`, `ObservedMeansReapedHolds`, `TerminalFinalHolds` | `FaultsAssumption`, `SpecsAssumption`, `ReconcilersAssumption` (no reconciler is called `free` or `sidecar`) | `Inv` |
| `SupervisionProofs`: `LogDecidesHolds`, `ChildAccountedHolds`, `KillClassifiedHolds`, `AnswerHoldsHolds`, `LifecycleImplemented` | the same | `Inv` and `Told` |
| `SessionProofs`: `OneRunAtATimeHolds`, `KilledIsAimedHolds`, `DeletesSpareHolds` | `ScenariosAssumption`, `NoCmdAssumption`; the commands that make or delete directories take turns (`plan.serial`) | `SessionInv` |
| `RecordingProofs`: `CrashReadableHolds`, `ReportedEndHolds`, `ResizeFirstHolds`, `ContractKept` | `LimitsAssumption` (a segment has room for something, numbers are natural) | `RecInv` |
| `RecordingProofs`: `MetaFollowsHolds` | `EffectsAssumption`; the recorder keeps `RecorderContract` (`ContractKept`) | `EffectsInv` |
| `ClientProofs`: `DependencyJustifiedHolds`, `WaitHonestHolds` | `WaitingAssumption` | `WaitInv`; `Coded` |
| `ClientProofs`: `ShellNotSharedHolds`, `AnswerIsOwnHolds` | `ExecAssumption` | `ShellInv`, `AnswerInv` |
| `ClientProofs`: `FollowFaithfulHolds` | `LogAssumption` (a tail is a number) | `FollowInv` |
| `LogProofs`: `WatchFaithfulHolds` | `WatchAssumption` | `WatchInv` |
| `LogProofs`: `LogSoundHolds`, `CursorExactHolds` | `WritersAssumption` (writers and segment names are numbers, so that they sort), `ReaderAssumption`, `SetupsAssumption` (what a set-up is) | `LogInv`; `ReaderInv` |
| `ControlProofs`: `EffectsTellControl`, `Silence`, `ViewerSurvives` | `ConnsAssumption` (connections are numbers from 1), `CapacityAssumption` (the queues and the PTY have room for something), `SetupsAssumption` (what a set-up is) | `Sound`; `LiveControls`, `SinkHeld` |
| `BytesProofs`: `EveryByteAccounted` | the same | `Sound` and `Accounts` |
| `ClientProofs`: `SweepExactHolds`, `NeverLeftRawHolds` | `SocketAssumption` (there is a session, and no run has the name of a missing crumb or directory); none | `SweepInv`; `RawInv` |

`plan.serial` is a hypothesis and not a convenience. Without it the properties are
false: the lock is of a directory and deletion is by path, and the run
`session_orphan` and the note on prune.rs above show what two commands can do to each
other. Kills are not restricted, nor are the deaths of sidecars.

None of the properties is inductive alone. Each invariant was model-checked before it
was proved, and each proof has one lemma per part and one case per group of actions.

`Inv`. `TerminalFinal` needs to know that whoever is about to write `meta.json` sees a
record that is not terminal (`Records`); that is kept because the lock excludes
(`LockInv`) and because a reconciler re-reads under the lock. The exception in
`TerminalFinal`, the start client's clean-up, needs that an answered client never cleans
up and that an observed exit is of an answered run (`Readiness`, `Evidence`).
`ObservedMeansReaped` needs the program points at which the sidecar has reaped (`Phases`)
and that every copy of an observed exit, in the log, in meta and in a reconciler about
to heal, has that origin (`Evidence`).

`Told`. `LogDecides` and the refinement need what a reconciler knows between its re-read
and its write: which record it saw, that it still stands, and that nothing that it could
read in the log could have been replayed when it infers a loss (`Decided`); and that the
sidecar's event precedes its record (`Logged`). `ChildAccounted` needs where each point
of the sidecar has left the child to be found (`Spawned`, `Found`), and that a removed
directory stays removed for a run without a child (`Refused`, `StaysRemoved`).
`KillClassified` needs that a kill leaves its mark before it strikes and that the mark
outlives the sidecar's reading of it (`Marked`). `LifecycleImplemented` then takes each
writer of `meta.json` and shows that its step is a transition method's or a stutter;
`AnswerHolds` is carried along those steps.

`SessionInv`. A lock is always of the directory at the path (`Locks`), because whoever
deletes has seen that nobody holds it and, while its command lasts, nobody starts
(`Commands`, `Turns`). A child whose sidecar died is named by the files that the next
command reads (`Sidecars`). Every request to kill, and what a sidecar or a record made
of one, goes back to a kill of that strength that read that run as its target
(`Aimed`). A marker goes back to a kill --force that left it in this directory, and that
read either the run that is recorded here or an earlier directory (`Killer`, `Forcers`).

`RecInv`. `CrashReadable` is about files that are not written yet when the invariant has
to hold: the records in the segments, the one in hand and the backlog are consecutive
(`Numbered`, `InStep`), each segment takes up the numbers and the window size at which
the one before ended, and that one was synced before (`Chained`). `WriterAt` says at each
point of the writer how far encoder, file and counters are apart: level, encoder ahead,
written and not settled, or uncertain after a failed append. From it follow what a loss
of power leaves (`LastSegment`) and where the files end when the writer is done
(`AtEnd`). `Sizes` counts the sizes applied and recorded, for `ResizeFirst`.
`ContractKept` shows each step of the recorder to be `ContractStop`, `ContractClose` or
a stutter.

`EffectsInv`. Two threads write `meta.json`, each from a copy it read before. `Stages`
says which thread may still move at each point of the guard, and the lock of the record
excludes (`MetaLock`), so that only one copy is on its way at a time. The numbers of the
changes grow through the log and on through the channel, there is one stop, and nothing
follows the flush (`Queued`, `Ordered`). A copy on its way then knows the latest owner
and stop, or what it does not know is still in the channel (`OwnerFollows`, `Copies`,
`StopKnown`); when the guard has drained the channel nothing is left to know (`Final`).

`WaitInv`. A dependency may end, be removed and be started again between any two reads.
What is shown of a session only moves on (`MovesOn`), whatever it ever showed was
recorded, and the run that the command is bound to is there and live or it ended
(`Shown`, `Bound`). A run is bound before it is scanned, and a dependency is taken off
the list only when satisfied by that run (`Scanning`). What `wait` lists ended, and let
go of its session unless `wait` warned (`Listed`). The exit code is computed from that
list, in the order of the request, and is that of one of the gravest ends
(`DeriveExitCodeIs`); of several equally grave ones, the first in the request.

`ShellInv`. A client past its first step holds the lock, a command is with the shell
once, and its client keeps waiting for it (`Locked`); nothing tells a client of the end
of its command before it is over (`Told`). `AnswerInv` follows the lines themselves.
What was printed of a command is what the shell has run of its frame (`Progress`); on
each of the two ways a command's own line is before its last and nothing follows that
(`InOrder`). A client has read all there was between its cursor and its position, and
its flags say what it passed (`HasRead`). Unless somebody let go of a command, the lines
in the pipes and after the cursor belong to the client with the lock (`Owned`): this is
where the mutual exclusion is needed, and where each exception in `AnswerIsOwn` comes
from. `Ways` says what a client knows where it is about to answer.

`WatchInv`. A scan lists, reads `meta.json`, looks for the events directory and reads, and
the session may be another one each time. What was printed is of runs up to the present
one, and all of it is of runs that are gone when the watcher is dropped, because the
listing saw no directory (`Behind`): a watcher made later starts at zero and repeats
nothing. Under the watcher's run id no line beyond its offset was printed, and none under
a later id (`Labelled`); of the run that is there no event beyond those taken was printed,
whichever run the watcher is labelled with (`Taken`); what lies between the skipped and
the consumed was printed (`Complete`). A run that is read before `meta.json` names it
keeps its events' offsets and loses its lines', which is why the two parts differ.

`LogInv`. The segments are sequences of half lines. A second half follows its first
(`TailsFollow`), and the first halves of one writer differ in seq and lie in its order,
over all segments (`HeadsApart`): a seq is consumed before the line is begun and a failed
append does not give it back (`SeqsOf`). At most one writer of the present directory is
between its halves (`Apart`), so that whoever is writes its second half right after its
first (`Fits`), or, if the session was removed meanwhile, nowhere. A name is minted once,
which keeps a writer that creates a segment from emptying one that is written to. An
acknowledged event is whole (`AckedWhole`) and a reference has its blob (`RefsWhole`) as
long as the session was not removed.

`ReaderInv`. A position is the beginning of a segment or the end of a line, never within
one, and a segment that may still come is read from its beginning (`OffsFit`, `Unborn`):
what lies behind a position never changes. Whatever lies before the positions was
printed, waived or is pending (`Never`), for the reader and, with nothing pending, for
the bookmark and what its consumer had by then: a bookmark's position in a segment is
the least pending one (`BookmarkFits`), so that nothing pending lies before it.
`PrintedAt` is the other half: what was printed lies before all that is pending of its
segment, or behind an event that merge order puts after it (`Explained`). An event that
is printed anew was pending, so it was not before the positions, so it is explained
(`DupsOf`).

`Sound`. Three threads of control meet in the arbiter: the writer, which alone changes it,
the handlers, which hold an epoch granted earlier, and the retirement threads. Epochs only
grow, and the owner has the last one (`EpochsOrdered`): `Silence` needs no more than that
and the writer's test. That the test is made for the right holder needs what is on its way:
each connection asks for control once, is at the right point of its program when the answer
comes (`ControlsKnown`, `Whereabouts`), and, unless it is a viewer, has one item in the
queue or in the writer's hands at a time and waits for it (`ItemsKnown`, `OneAtATime`,
`OutcomeFits`). `OneAtATime` is a count over the queue, which a disconnect partitions; its
proof, like that of the byte counts, is by induction on the queue's length (`DataLemmas`).
`LiveControls` says that a registered viewer past its grant is the arbiter's holder, and
`SinkHeld` that whoever is about to install a viewer holds the sink's lock and was granted
control after whoever is in the sink.

`Accounts` adds up bytes. For each connection, what it has queued is what reached the PTY
for it, what is in the queue or in the writer's hands and not yet written, and what was told
as lost; each action of the writer moves bytes from one to another (`AllBalanced`). A push
has one request outstanding, so that its own count, the count it is waiting for and the one
it reports can be told apart in these sums (`PushKnown`).

`FollowInv`. The ring of `--tail` holds the last `n` matching lines of those read
(`RingHolds`), and once it is printed, what is printed is the ring's lines and the matching
ones between there and the reader's position; a log that grows meanwhile changes neither
(`MatchingGrows`).

`SweepInv` says what outlives the sweep's steps: a sidecar that died stays dead, no
breadcrumb names its socket again, and what was abandoned when the sweep began is ahead
of it, at hand, reported or impossible to unlink. `RawInv`: the terminal is raw only
between two program points, and the handlers are installed over a longer stretch.

Sums, partitions and positions in queues are recursive, and the prover's library states
induction for an operator it cannot instantiate. The proofs here do without: the numbers for
which a statement holds are a set that contains 0 and each successor of its members, and a
number outside of it would have a least one (`NatSetInduction`, from `WFMin`); that a
recursive function exists is proved once in the same way (`Recursion`).

Only model-checked: the liveness properties (fairness is outside the prover), and what the
escape parser and the push client compute (`RECURSIVE` operators over their input).

## Not modelled, and the plan

Not modelled by intent: formatting, help and argument parsing, ssh command lines, the
Windows backend, `query` and `list` (one read and a printout), `wrap` and `emit` (they
parse and append, which is `EventLog`'s append), `recording/dump.rs`, the byte encoding
of attach frames, the `--include-logs` projection and the reading of `lost+found`.

Of the plan nothing is left but what the prover cannot reach.
