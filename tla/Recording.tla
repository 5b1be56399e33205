------------------------------ MODULE Recording ------------------------------
(***************************************************************************)
(* The exact recording of a PTY run (src/recorder.rs, src/recording.rs):   *)
(* capture and the input writer offer records to a sequencer, which queues *)
(* them without waiting for storage; one writer thread encodes them, cuts  *)
(* them into segments, appends and syncs; RecorderThread::finish closes    *)
(* the recording, waiting for storage only so long.                        *)
(*                                                                         *)
(* Bytes are counted in records: a header and a record are one unit each,  *)
(* and an append is two steps, so that it can be cut short.  A segment     *)
(* remembers how much of it survives a loss of power.  Elapsed times are   *)
(* left out: they are taken under the lock from a clock that never goes    *)
(* back.  Window sizes are numbered in the order they are applied.         *)
(***************************************************************************)
EXTENDS Naturals, Sequences, FiniteSets, SequencesExt

CONSTANTS
    Limits,        \* RecorderLimits: segment (one this long is full), max over all
                   \* segments, and backlog
    MaxSequence,   \* the last sequence number there is
    MaxOutput,     \* bound: chunks the child writes
    MaxResizes,    \* bound: window sizes applied
    MaxFailures    \* bound: storage operations that fail

ASSUME LimitsAssumption ==
    /\ Limits \subseteq [segment : Nat \ {0}, max : Nat, backlog : Nat]
    /\ {MaxSequence, MaxOutput, MaxResizes, MaxFailures} \subseteq Nat

VARIABLES
    limits,     \* the run's RecorderLimits
    size,       \* the window size the child sees
    pty,        \* the PTY's output buffer: the size each chunk was written at
    wrote,      \* chunks the child wrote so far
    chunk,      \* the chunk capture has read and not offered, or Nothing
    resizing,   \* resize_applied holds the recorder's lock and has applied the size
    sequenced,  \* history: the records, in sequence
    q,          \* State: what producers, writer and finish share under the lock
    w,          \* Writer: the storage thread
    disk,       \* the segments
    told,       \* history: what on_stop was called with
    closing,    \* finish: "open", "closing" or "closed"
    failures    \* storage operations that failed so far

producerVars == <<size, pty, wrote, chunk, resizing>>
recVars == <<limits, producerVars, sequenced, q, w, disk, told, closing, failures>>

Nothing == [none |-> TRUE]

(***************************************************************************)
(* Segments and their decoding                                             *)
(***************************************************************************)
\* SegmentEncoder: the segment's header and the state its next record must continue.
Encoder(index, first, geometry) ==
    [index |-> index, first |-> first, geometry |-> geometry, next |-> first,
     now |-> geometry, count |-> 0]

Encodes(e, r) == r.seq = e.next

\* SegmentEncoder::encode.
Encode(e, r) ==
    [e EXCEPT !.next = @ + 1, !.count = @ + 1,
              !.now = IF r.kind = "resize" THEN r.size ELSE @]

\* SegmentEncoder::next_segment: sequence and geometry go on; an empty segment is never
\* rotated.
CanRotate(e) == e.count > 0 /\ e.next <= MaxSequence
NextSegment(e) == Encoder(e.index + 1, e.next, e.now)

\* A file as DirectoryStore::publish renames it into place: a header that is on disk, and
\* no record.  linked: the directory entry is durable too.
Segment(e) ==
    [index |-> e.index, first |-> e.first, geometry |-> e.geometry, recs |-> <<>>,
     torn |-> FALSE, durable |-> 0, linked |-> FALSE]

\* g is the geometry in effect after a segment's records: the last one it records, or
\* its header's.
EndsAt(s, g) ==
    \/ g = s.geometry /\ \A i \in DOMAIN s.recs : s.recs[i].kind # "resize"
    \/ \E i \in DOMAIN s.recs :
          /\ s.recs[i].kind = "resize" /\ s.recs[i].size = g
          /\ \A j \in DOMAIN s.recs : j > i => s.recs[j].kind # "resize"

\* decode_segment_with_summary and check_header_continuity, for segment k of files.
SegmentDecodes(files, k) ==
    LET s == files[k]
    IN  /\ s.index = k - 1
        /\ k = 1 => s.first = 1
        /\ \A i \in DOMAIN s.recs : s.recs[i].seq = s.first + i - 1
        /\ k > 1 => /\ s.first = files[k - 1].first + Len(files[k - 1].recs)
                    /\ EndsAt(files[k - 1], s.geometry)

\* decode_recording: every segment continues the one before, and only the last may be
\* empty or end in an incomplete record.
Decodes(files) ==
    /\ files # <<>>
    /\ \A k \in DOMAIN files :
        /\ SegmentDecodes(files, k)
        /\ k < Len(files) => ~files[k].torn /\ files[k].recs # <<>>

\* The number of the last record decoded.
LastDecoded(files) == IF files = <<>> THEN 0 ELSE Last(files).first + Len(Last(files).recs) - 1

(***************************************************************************)
(* Stopping and sequencing                                                 *)
(***************************************************************************)
RecInit ==
    /\ limits \in Limits
    /\ size = 0 /\ pty = <<>> /\ wrote = 0 /\ chunk = Nothing /\ resizing = FALSE
    /\ sequenced = <<>>
    /\ q = [backlog |-> <<>>, accepting |-> TRUE, appended |-> 0, synced |-> 0,
            segments |-> 0, stopped |-> Nothing, done |-> FALSE]
    /\ w = [pc |-> "publish", then |-> "take", enc |-> Encoder(0, 1, 0), rec |-> Nothing,
            reason |-> "none", attempted |-> FALSE, before |-> 0, len |-> 0, total |-> 0,
            last |-> 0, unsynced |-> FALSE, uncut |-> FALSE]
    /\ disk = <<>> /\ told = <<>> /\ closing = "open" /\ failures = 0

\* Mutant: a second stop stops and reports again.
Stop_Again(reason) ==
    LET stopped == [last |-> q.appended, reason |-> reason]
    IN  /\ q' = [q EXCEPT !.stopped = stopped, !.backlog = <<>>]
        /\ told' = Append(told, stopped)

\* Shared::stop, with the lock held: the first stop wins, ends the recording at the last
\* completed append, discards the backlog and reports.
Stop(reason) ==
    IF q.stopped # Nothing
    THEN UNCHANGED <<q, told>>
    ELSE LET stopped == [last |-> q.appended, reason |-> reason]
         IN  /\ q' = [q EXCEPT !.stopped = stopped, !.backlog = <<>>]
             /\ told' = Append(told, stopped)

\* Shared::enqueue: sequence a record and queue it, or stop if there is no number or no
\* room for it.
Enqueue(kind, at) ==
    LET rec == [seq |-> Len(sequenced) + 1, kind |-> kind, size |-> at]
    IN  CASE q.stopped # Nothing \/ ~q.accepting -> UNCHANGED <<sequenced, q, told>>
          [] OTHER ->
               CASE rec.seq > MaxSequence -> Stop("size_limit") /\ UNCHANGED sequenced
                 [] rec.seq <= MaxSequence /\ Len(q.backlog) + 1 > limits.backlog ->
                        Stop("backlog_full") /\ UNCHANGED sequenced
                 [] OTHER -> /\ sequenced' = Append(sequenced, rec)
                             /\ q' = [q EXCEPT !.backlog = Append(@, rec)]
                             /\ UNCHANGED told

\* Mutant: a resize is recorded without the lock held since the ioctl.
Locked_Never == FALSE

\* resize_applied holds the lock from the ioctl to the record of it.
Locked == resizing

(***************************************************************************)
(* Producers                                                               *)
(***************************************************************************)
\* The child writes to its terminal, at the size it has now.
ChildWrites ==
    /\ wrote < MaxOutput
    /\ wrote' = wrote + 1
    /\ pty' = Append(pty, size)
    /\ UNCHANGED <<size, chunk, resizing, sequenced, q, w, disk, told, closing, failures>>

\* capture_stream_with_tee reads a chunk; until finish, capture reads on.
CaptureReads ==
    /\ closing = "open" /\ chunk = Nothing /\ pty # <<>>
    /\ chunk' = [size |-> Head(pty)]
    /\ pty' = Tail(pty)
    /\ UNCHANGED <<size, wrote, resizing, sequenced, q, w, disk, told, closing, failures>>

\* Recorder::output.
Output ==
    /\ chunk # Nothing /\ ~Locked
    /\ Enqueue("output", chunk.size)
    /\ chunk' = Nothing
    /\ UNCHANGED <<size, pty, wrote, resizing, w, disk, closing, failures>>

\* Recorder::resize_applied takes the lock and applies the size.  An ioctl that fails
\* changes nothing.  The input writer outlives finish.
ResizeApplies ==
    /\ ~Locked /\ size < MaxResizes
    /\ resizing' = TRUE
    /\ size' = size + 1
    /\ UNCHANGED <<pty, wrote, chunk, sequenced, q, w, disk, told, closing, failures>>

ResizeRecorded ==
    /\ resizing
    /\ Enqueue("resize", size)
    /\ resizing' = FALSE
    /\ UNCHANGED <<size, pty, wrote, chunk, w, disk, closing, failures>>

(***************************************************************************)
(* RecorderThread::finish.  It is called once capture has ended, or the    *)
(* child was stopped before capture began.                                 *)
(***************************************************************************)
Finish ==
    /\ closing = "open" /\ chunk = Nothing /\ ~Locked
    /\ closing' = "closing"
    /\ q' = [q EXCEPT !.accepting = FALSE]
    /\ UNCHANGED <<producerVars, sequenced, w, disk, told, failures>>

FinishReturns ==
    /\ closing = "closing" /\ ~Locked
    /\ q.done
    /\ closing' = "closed"
    /\ UNCHANGED <<producerVars, sequenced, q, w, disk, told, failures>>

FinishTimesOut ==
    /\ closing = "closing" /\ ~Locked
    /\ ~q.done
    /\ Stop("stalled")
    /\ closing' = "closed"
    /\ UNCHANGED <<producerVars, sequenced, w, disk, failures>>

(***************************************************************************)
(* The writer thread                                                       *)
(***************************************************************************)
MayFail == failures < MaxFailures
Fail == failures' = failures + 1
OnLast(segment) == disk' = [disk EXCEPT ![Len(disk)] = segment]

\* Writer::check_size.
Fits(adding) == w.total + adding <= limits.max

\* Shared::stop by the writer, which goes on at pc.
WriterStops(reason, pc) ==
    /\ ~Locked
    /\ Stop(reason)
    /\ w' = [w EXCEPT !.pc = pc]

\* A prepare that failed: the loop settles with nothing attempted.
Refused(reason) == [w EXCEPT !.pc = "settle", !.reason = reason, !.attempted = FALSE]

\* Writer::next_record: the next record, or the end, once stopped or closed and empty.
NextRecord ==
    /\ w.pc = "take" /\ ~Locked
    /\ IF q.stopped # Nothing
       THEN q' = q /\ w' = [w EXCEPT !.pc = "sync", !.then = "done"]
       ELSE \/ /\ q.backlog # <<>>
               /\ q' = [q EXCEPT !.backlog = Tail(@)]
               /\ w' = [w EXCEPT !.pc = "prepare", !.rec = Head(q.backlog), !.reason = "none"]
            \/ /\ q.backlog = <<>> /\ ~q.accepting
               /\ q' = q
               /\ w' = [w EXCEPT !.pc = "sync", !.then = "done"]
    /\ UNCHANGED <<producerVars, sequenced, disk, told, closing, failures>>

\* Writer::next_record: nothing is queued and a sync is due.
IdleSync ==
    /\ w.pc = "take" /\ ~Locked
    /\ q.stopped = Nothing /\ q.backlog = <<>> /\ q.accepting /\ w.unsynced
    /\ w' = [w EXCEPT !.pc = "sync", !.then = "take"]
    /\ UNCHANGED <<producerVars, sequenced, q, disk, told, closing, failures>>

\* Mutant: the full segment is not synced before the next is published.
Prepare_NoSync ==
    /\ w.pc = "prepare"
    /\ LET rotate == w.len >= limits.segment /\ CanRotate(w.enc)
           enc    == IF rotate THEN NextSegment(w.enc) ELSE w.enc
       IN  w' = CASE ~Encodes(enc, w.rec) -> Refused("write_failed")
                  [] Encodes(enc, w.rec) /\ ~Fits(IF rotate THEN 2 ELSE 1) -> Refused("size_limit")
                  [] OTHER -> IF rotate
                              THEN [w EXCEPT !.pc = "publish"]
                              ELSE [w EXCEPT !.pc = "append", !.enc = Encode(enc, w.rec),
                                             !.attempted = TRUE, !.before = w.len]
    /\ UNCHANGED <<producerVars, sequenced, q, disk, told, closing, failures>>

\* Writer::prepare: rotate when the segment is full, within the run's limit.
Prepare ==
    /\ w.pc = "prepare"
    /\ LET rotate == w.len >= limits.segment /\ CanRotate(w.enc)
           enc    == IF rotate THEN NextSegment(w.enc) ELSE w.enc
       IN  w' = CASE ~Encodes(enc, w.rec) -> Refused("write_failed")
                  [] Encodes(enc, w.rec) /\ ~Fits(IF rotate THEN 2 ELSE 1) -> Refused("size_limit")
                  [] OTHER -> IF rotate
                              THEN [w EXCEPT !.pc = "sync", !.then = "publish"]
                              ELSE [w EXCEPT !.pc = "append", !.enc = Encode(enc, w.rec),
                                             !.attempted = TRUE, !.before = w.len]
    /\ UNCHANGED <<producerVars, sequenced, q, disk, told, closing, failures>>

\* Where a failed publish, or a failed sync, leaves the writer: at the lock with the
\* reason, or, outside the loop's body, stopping right there.
PublishFailed ==
    IF w.rec = Nothing
    THEN WriterStops("write_failed", "done")
    ELSE w' = Refused("write_failed") /\ UNCHANGED <<q, told>>

\* The header that is to be published: segment 0, or the one after a full segment.
ToPublish == IF w.rec = Nothing THEN w.enc ELSE NextSegment(w.enc)

\* Writer::publish refuses segment 0 if its header alone is past the limit.
PublishRefused ==
    /\ w.pc = "publish" /\ w.rec = Nothing
    /\ ~Fits(1)
    /\ WriterStops("size_limit", "done")
    /\ UNCHANGED <<producerVars, sequenced, disk, closing, failures>>

\* DirectoryStore::publish up to the rename.
PublishRenames ==
    /\ w.pc = "publish" /\ Fits(1)
    /\ disk' = Append(disk, Segment(ToPublish))
    /\ w' = [w EXCEPT !.pc = "published"]
    /\ UNCHANGED <<producerVars, sequenced, q, told, closing, failures>>

\* It fails before the rename, which leaves no segment, or after it, which leaves one
\* that the recorder never uses.
PublishFails ==
    /\ w.pc \in {"publish", "published"} /\ Fits(1) /\ MayFail /\ Fail
    /\ PublishFailed
    /\ UNCHANGED <<producerVars, sequenced, disk, closing>>

\* The directory is synced: Writer::publish takes the segment over, and prepare goes on
\* to the record.
PublishSyncs ==
    /\ w.pc = "published" /\ ~Locked
    /\ OnLast([Last(disk) EXCEPT !.linked = TRUE])
    /\ q' = [q EXCEPT !.segments = ToPublish.index + 1]
    /\ w' = IF w.rec = Nothing
            THEN [w EXCEPT !.pc = "take", !.len = 1, !.total = @ + 1]
            ELSE [w EXCEPT !.pc = "append", !.enc = Encode(ToPublish, w.rec), !.len = 1,
                           !.total = @ + 1, !.attempted = TRUE, !.before = 1]
    /\ UNCHANGED <<producerVars, sequenced, told, closing, failures>>

\* Writer::append: write_all in two steps.
AppendPart ==
    /\ w.pc = "append" /\ ~Last(disk).torn
    /\ OnLast([Last(disk) EXCEPT !.torn = TRUE])
    /\ UNCHANGED <<producerVars, sequenced, q, w, told, closing, failures>>

AppendRest ==
    /\ w.pc = "append" /\ Last(disk).torn
    /\ OnLast([Last(disk) EXCEPT !.torn = FALSE, !.recs = Append(@, w.rec)])
    /\ w' = [w EXCEPT !.pc = "settle", !.len = @ + 1, !.total = @ + 1, !.unsynced = TRUE]
    /\ UNCHANGED <<producerVars, sequenced, q, told, closing, failures>>

AppendFails ==
    /\ w.pc = "append" /\ MayFail /\ Fail
    /\ w' = [w EXCEPT !.pc = "settle", !.reason = "write_failed"]
    /\ UNCHANGED <<producerVars, sequenced, q, disk, told, closing>>

\* Mutant: a stop that came during the append is not looked at.
Settle_Late ==
    /\ w.pc = "settle" /\ ~Locked
    /\ IF w.reason # "none"
       THEN /\ w' = IF w.attempted THEN [w EXCEPT !.pc = "cut"]
                                   ELSE [w EXCEPT !.pc = "sync", !.then = "done"]
            /\ Stop(w.reason)
       ELSE /\ q' = [q EXCEPT !.appended = w.rec.seq]
            /\ w' = [w EXCEPT !.pc = "appended", !.last = w.rec.seq]
            /\ UNCHANGED told
    /\ UNCHANGED <<producerVars, sequenced, disk, closing, failures>>

\* Writer::run, under the lock after an append: a stop that came meanwhile put the record
\* past the boundary; a failure stops; otherwise the record is recorded.
Settle ==
    /\ w.pc = "settle" /\ ~Locked
    /\ IF q.stopped # Nothing \/ w.reason # "none"
       THEN /\ w' = IF w.attempted THEN [w EXCEPT !.pc = "cut"]
                                   ELSE [w EXCEPT !.pc = "sync", !.then = "done"]
            /\ Stop(w.reason)
       ELSE /\ q' = [q EXCEPT !.appended = w.rec.seq]
            /\ w' = [w EXCEPT !.pc = "appended", !.last = w.rec.seq]
            /\ UNCHANGED told
    /\ UNCHANGED <<producerVars, sequenced, disk, closing, failures>>

\* Writer::cut_back, best effort.
CutBack ==
    /\ w.pc = "cut"
    /\ OnLast([Last(disk) EXCEPT !.torn = FALSE, !.recs = SubSeq(@, 1, w.before - 1)])
    /\ w' = [w EXCEPT !.pc = "sync", !.then = "done", !.total = @ - (w.len - w.before),
                      !.len = w.before]
    /\ UNCHANGED <<producerVars, sequenced, q, told, closing, failures>>

CutBackFails ==
    /\ w.pc = "cut" /\ MayFail /\ Fail
    /\ w' = [w EXCEPT !.pc = "sync", !.then = "done", !.uncut = TRUE]
    /\ UNCHANGED <<producerVars, sequenced, q, disk, told, closing>>

\* The periodic sync after an append, when it is due.
PeriodicSync ==
    /\ w.pc = "appended"
    /\ \/ w' = [w EXCEPT !.pc = "sync", !.then = "take"]
       \/ w' = [w EXCEPT !.pc = "take"]
    /\ UNCHANGED <<producerVars, sequenced, q, disk, told, closing, failures>>

\* Writer::sync: everything appended survives, and is reported as synced.
Sync ==
    /\ w.pc = "sync" /\ ~Locked
    /\ IF w.unsynced
       THEN /\ OnLast([Last(disk) EXCEPT !.durable = Len(Last(disk).recs)])
            /\ q' = [q EXCEPT !.synced = w.last]
       ELSE UNCHANGED <<disk, q>>
    /\ w' = [w EXCEPT !.pc = w.then, !.unsynced = FALSE]
    /\ UNCHANGED <<producerVars, sequenced, told, closing, failures>>

\* A sync that fails stops the recording, in prepare through the loop's body; the last
\* sync of run is tried in any case.
SyncFails ==
    /\ w.pc = "sync" /\ w.unsynced /\ MayFail /\ Fail
    /\ IF w.then = "publish"
       THEN w' = Refused("write_failed") /\ UNCHANGED <<q, told>>
       ELSE /\ ~Locked
            /\ Stop("write_failed")
            /\ w' = IF w.then = "done" THEN [w EXCEPT !.pc = "done"]
                                       ELSE [w EXCEPT !.then = "done"]
    /\ UNCHANGED <<producerVars, sequenced, disk, closing>>

\* The writer thread's last step.
WriterDone ==
    /\ w.pc = "done" /\ ~q.done /\ ~Locked
    /\ q' = [q EXCEPT !.done = TRUE]
    /\ UNCHANGED <<producerVars, sequenced, w, disk, told, closing, failures>>

Producers == ChildWrites \/ CaptureReads \/ Output \/ ResizeApplies \/ ResizeRecorded
Closing == Finish \/ FinishReturns \/ FinishTimesOut
Storage ==
    \/ NextRecord \/ IdleSync \/ Prepare
    \/ PublishRefused \/ PublishRenames \/ PublishFails \/ PublishSyncs
    \/ AppendPart \/ AppendRest \/ AppendFails \/ Settle
    \/ CutBack \/ CutBackFails \/ PeriodicSync \/ Sync \/ SyncFails \/ WriterDone

RecNext == (Producers \/ Closing \/ Storage) /\ UNCHANGED limits

RecSpec == RecInit /\ [][RecNext]_recVars

(***************************************************************************)
(* Properties                                                              *)
(***************************************************************************)
\* What the files may hold after the process died or the machine lost power: a segment
\* whose directory entry was not synced may be missing, and of one that was being
\* written, anything between what was synced and what was written.
Left(s, n, t) == [s EXCEPT !.recs = SubSeq(@, 1, n), !.torn = t]
MayTear(s) == {t \in BOOLEAN : t => s.torn \/ s.durable < Len(s.recs)}
Leaves(s) == {Left(s, n, t) : n \in s.durable..Len(s.recs), t \in MayTear(s)}

Survivors ==
    LET n == Len(disk)
        Kept(m) == {img \in [1..m -> UNION {Leaves(disk[k]) : k \in 1..n}] :
                        \A k \in 1..m : img[k] \in Leaves(disk[k])}
    IN  UNION {Kept(m) : m \in IF n > 0 /\ ~disk[n].linked THEN {n - 1, n} ELSE {n}}

\* The records in the files are the ones sequenced under their numbers.
Genuine(files) ==
    \A k \in DOMAIN files : \A i \in DOMAIN files[k].recs :
        LET r == files[k].recs[i] IN r.seq \in DOMAIN sequenced /\ r = sequenced[r.seq]

\* The files are one recording: a prefix of what was sequenced.
ReadsBack(files) == (files # <<>> => Decodes(files)) /\ Genuine(files)

\* Whenever the process dies, what is left decodes as one recording: a prefix of what was
\* sequenced, with everything that was reported as synced.
CrashReadable ==
    \A files \in Survivors : files # <<>> => ReadsBack(files) /\ LastDecoded(files) >= q.synced

\* A stop is reported at the last completed append, which then stands.
StopStands == q.stopped # Nothing => q.stopped.last = q.appended

\* Once the writer has ended the files hold the records up to the reported boundary and
\* nothing past it, unless they could not be cut back.
FilesEndThere ==
    q.done => /\ ReadsBack(disk) /\ LastDecoded(disk) >= q.appended
              /\ ~w.uncut => /\ LastDecoded(disk) = q.appended
                             /\ \A k \in DOMAIN disk : ~disk[k].torn

\* A recording that closed without a stop holds every record, synced.
CleanClose ==
    closing = "closed" /\ q.stopped = Nothing =>
        /\ q.done
        /\ q.appended = Len(sequenced) /\ q.synced = q.appended

\* The end the recorder reports is the end of the files.
ReportedEnd == StopStands /\ FilesEndThere /\ CleanClose

\* Output that the child produced at a window size is recorded after that size.
ResizeFirst ==
    \A i \in DOMAIN sequenced :
        sequenced[i].kind = "output" =>
            Cardinality({j \in 1..i : sequenced[j].kind = "resize"}) >= sequenced[i].size

Contract ==
    INSTANCE RecorderContract
    WITH rstop <- q.stopped, reports <- told, rclosed <- closing = "closed"

\* The recorder keeps the contract that the run's effects rely on: on_stop is called with
\* the stop as it happens, once, and never after finish has returned.
KeepsContract == Contract!ContractSpec

=============================================================================
