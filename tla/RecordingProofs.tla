-------------------------- MODULE RecordingProofs ---------------------------
(***************************************************************************)
(* Proofs about Recording, for any limits, any output, any resizes and any *)
(* number of failing storage operations, and about RunEffects, for any     *)
(* number of changes of control, of failing writes, and any stop of the    *)
(* recorder.                                                               *)
(*                                                                         *)
(* RecInv is inductive for Recording.  Its parts say how the records that  *)
(* are queued and the one in hand continue the ones that were appended     *)
(* (Numbered, InStep), how the segments continue one another and what a    *)
(* loss of power may take of them (Chained, LastSegment), where the encoder *)
(* and the file's end are at each point of the writer (WriterAt), what a   *)
(* stop and a close leave (Ends), and how the window sizes recorded keep up *)
(* with the ones applied (Sizes).                                          *)
(*                                                                         *)
(* EffectsInv is inductive for RunEffects.  Its parts say which of the     *)
(* effects thread and the guard may still move (Stages), that META_WRITE   *)
(* excludes (MetaLock), what is in the channel and in the log, in order    *)
(* (Queued, Ordered), how the owner follows the log (OwnerFollows), and    *)
(* what the copies of meta.json that are being written know of the owner   *)
(* and of the stop (Fresh, StopKnown, Final).                              *)
(***************************************************************************)
EXTENDS Recording, RunEffects, FiniteSetTheorems, TLAPS

(***************************************************************************)
(* Types                                                                   *)
(***************************************************************************)
Recs == [seq : Nat, kind : {"output", "resize"}, size : Nat]
Reasons == {"none", "size_limit", "backlog_full", "stalled", "write_failed"}
StopRecords == [last : Nat, reason : Reasons]
Encoders == [index : Nat, first : Nat \ {0}, geometry : Nat, next : Nat \ {0}, now : Nat, count : Nat]
Segments == [index : Nat, first : Nat \ {0}, geometry : Nat, recs : Seq(Recs), torn : BOOLEAN,
             durable : Nat, linked : BOOLEAN]
Queues == [backlog : Seq(Recs), accepting : BOOLEAN, appended : Nat, synced : Nat, segments : Nat,
           stopped : StopRecords \cup {Nothing}, done : BOOLEAN]
WriterPcs == {"publish", "published", "take", "prepare", "append", "settle", "appended", "cut",
              "sync", "done"}
Threads == [pc : WriterPcs, then : {"take", "publish", "done"}, enc : Encoders,
            rec : Recs \cup {Nothing}, reason : Reasons, attempted : BOOLEAN, before : Nat, len : Nat,
            total : Int, last : Nat, unsynced : BOOLEAN, uncut : BOOLEAN]

RecTypeOK ==
    /\ sequenced \in Seq(Recs) /\ q \in Queues /\ w \in Threads /\ disk \in Seq(Segments)
    /\ told \in Seq(StopRecords) /\ closing \in {"open", "closing", "closed"} /\ resizing \in BOOLEAN
    /\ size \in Nat /\ pty \in Seq(Nat)

(***************************************************************************)
(* The inductive invariant                                                 *)
(***************************************************************************)
\* Records carry their numbers, and the backlog is the end of what was sequenced.
Numbered ==
    /\ \A i \in DOMAIN sequenced : sequenced[i].seq = i
    /\ Len(q.backlog) <= Len(sequenced)
    /\ \A i \in DOMAIN q.backlog, j \in DOMAIN sequenced :
          j + Len(q.backlog) = Len(sequenced) + i => q.backlog[i] = sequenced[j]
    /\ q.stopped # Nothing => q.backlog = <<>>

\* The writer has a record in hand that is not appended.
InHand ==
    \/ w.pc \in {"prepare", "append", "settle"}
    \/ w.pc = "sync" /\ w.then = "publish"
    \/ w.pc \in {"publish", "published"} /\ w.rec # Nothing

\* Over for the writer: the rest is the last sync.
Over == w.pc = "done" \/ (w.pc = "sync" /\ w.then = "done")

\* The record in hand is the next one, and what is queued follows it.
InStep ==
    /\ InHand => /\ w.rec # Nothing /\ q.appended + 1 \in DOMAIN sequenced
                 /\ w.rec = sequenced[q.appended + 1]
                 /\ w.pc # "settle" => w.reason = "none"
    /\ q.appended <= Len(sequenced) /\ w.last = q.appended
    /\ q.stopped = Nothing =>
          q.appended + Len(q.backlog) + (IF InHand THEN 1 ELSE 0) = Len(sequenced)
    /\ q.stopped = Nothing /\ Over => q.backlog = <<>> /\ ~q.accepting
    /\ w.unsynced \/ q.synced = w.last
    /\ w.pc = "done" /\ q.stopped = Nothing => ~w.unsynced
    /\ w.pc = "cut" => q.stopped # Nothing

\* Segment k continues the one before it, and holds records under their numbers.
Chain(k) ==
    /\ disk[k].index = k - 1
    /\ k = 1 => disk[k].first = 1
    /\ \A i \in DOMAIN disk[k].recs :
          /\ disk[k].first + i - 1 \in DOMAIN sequenced
          /\ disk[k].recs[i] = sequenced[disk[k].first + i - 1]
    /\ k > 1 => /\ disk[k].first = disk[k - 1].first + Len(disk[k - 1].recs)
                /\ EndsAt(disk[k - 1], disk[k].geometry)

\* A segment that has a successor is whole, and on disk.
Whole(k) ==
    /\ ~disk[k].torn /\ disk[k].recs # <<>>
    /\ disk[k].durable = Len(disk[k].recs)

Chained ==
    /\ \A k \in 1..Len(disk) : Chain(k)
    /\ \A k \in 1..Len(disk) : k < Len(disk) => Whole(k)

Cur == disk[Len(disk)]

\* What was reported as synced survives in the last segment.  One whose directory entry is
\* not on disk is empty.
LastSegment ==
    /\ disk = <<>> => q.synced = 0 /\ q.appended = 0 /\ ~w.unsynced
    /\ disk # <<>> => /\ Cur.durable <= Len(Cur.recs)
                      /\ q.synced <= Cur.first + Cur.durable - 1
                      /\ Cur.recs = <<>> \/ Cur.linked

\* The end of the last segment.
CurEnd == Cur.first + Len(Cur.recs) - 1

\* The segment's encoder, and the file, end with the last record that was appended.
Level ==
    /\ disk # <<>> /\ ~Cur.torn
    /\ w.enc.index = Len(disk) - 1 /\ w.enc.first = Cur.first
    /\ w.enc.next = CurEnd + 1 /\ w.enc.count = Len(Cur.recs) /\ EndsAt(Cur, w.enc.now)
    /\ q.appended = CurEnd
    /\ w.len = Len(Cur.recs) + 1 /\ Cur.linked
    /\ w.unsynced \/ Cur.durable = Len(Cur.recs)

\* The encoder has the record in hand, and the file does not.
Ahead ==
    /\ disk # <<>> /\ Cur.linked
    /\ w.enc.index = Len(disk) - 1 /\ w.enc.first = Cur.first
    /\ w.enc.next = CurEnd + 2 /\ w.enc.count = Len(Cur.recs) + 1
    /\ \E g \in Nat : EndsAt(Cur, g) /\ w.enc.now = IF w.rec.kind = "resize" THEN w.rec.size ELSE g
    /\ q.appended = CurEnd
    /\ w.before = Len(Cur.recs) + 1 /\ w.len = w.before /\ w.attempted /\ w.reason = "none"

\* The file has the record in hand too.
Written ==
    /\ disk # <<>> /\ ~Cur.torn /\ Cur.linked
    /\ w.enc.index = Len(disk) - 1 /\ w.enc.first = Cur.first
    /\ w.enc.next = CurEnd + 1 /\ w.enc.count = Len(Cur.recs) /\ EndsAt(Cur, w.enc.now)
    /\ q.appended + 1 = CurEnd
    /\ w.before = Len(Cur.recs) /\ w.len = w.before + 1 /\ w.attempted
    /\ Cur.durable < Len(Cur.recs) /\ w.unsynced

\* The file may end with a piece of the record in hand, or all of it.
Uncertain ==
    /\ disk # <<>> /\ Cur.linked /\ w.before # 0
    /\ q.appended + 1 = Cur.first + w.before - 1
    /\ w.before - 1 <= Len(Cur.recs) /\ Len(Cur.recs) <= w.before
    /\ Cur.durable <= w.before - 1

\* The files end where the appends ended, unless they could not be cut back.
AtEnd ==
    disk # <<>> =>
        /\ q.appended <= CurEnd
        /\ ~w.uncut => q.appended = CurEnd /\ ~Cur.torn

\* Before segment 0 is there.
Blank ==
    /\ w.rec = Nothing /\ w.enc = Encoder(0, 1, 0)
    /\ q.appended = 0 /\ ~w.unsynced

\* A segment is published and not taken over: segment 0, or the one after a full segment.
FirstUp == Len(disk) = 1 /\ Cur.first = 1 /\ Cur.geometry = 0

NextUp ==
    /\ Cur.first = w.enc.next /\ q.appended + 1 = w.enc.next
    /\ EndsAt(Cur, w.enc.now) /\ w.enc.index + 2 = Len(disk)

WriterAt ==
    /\ w.pc \in {"publish", "published"} /\ w.rec = Nothing => Blank
    /\ w.pc = "publish" /\ w.rec = Nothing => disk = <<>>
    /\ w.pc = "published" => disk # <<>> /\ Cur.recs = <<>> /\ ~Cur.torn /\ Cur.durable = 0
    /\ w.pc = "published" /\ w.rec = Nothing => FirstUp
    /\ w.pc = "published" /\ w.rec # Nothing => NextUp /\ ~w.unsynced
    /\ w.pc \in {"take", "prepare", "appended"} => Level
    /\ w.pc = "sync" /\ w.then \in {"take", "publish"} => Level
    /\ w.pc = "sync" /\ w.then = "publish" => Cur.recs # <<>>
    /\ w.pc = "publish" /\ w.rec # Nothing =>
          Level /\ ~w.unsynced /\ Cur.recs # <<>> /\ Cur.durable = Len(Cur.recs)
    /\ w.pc = "append" => Ahead
    /\ w.pc = "settle" /\ w.reason = "none" => Written
    /\ w.pc = "settle" /\ w.reason # "none" /\ w.attempted => Uncertain
    /\ w.pc = "settle" /\ w.reason # "none" /\ ~w.attempted => disk # <<>> /\ AtEnd
    /\ w.pc = "cut" => Uncertain
    /\ Over => AtEnd
    /\ w.uncut => Over

\* What a stop and a close leave.
Ends ==
    /\ q.stopped # Nothing => q.stopped.last = q.appended
    /\ q.done => w.pc = "done"
    /\ closing # "open" => ~q.accepting
    /\ closing = "closed" /\ q.stopped = Nothing => q.done

Resizes(n) == {j \in 1..n : sequenced[j].kind = "resize"}

\* Output waits at sizes that were applied; while records are taken, every size applied is
\* recorded but the one that is being.
Sizes ==
    /\ \A i \in DOMAIN pty : pty[i] <= size
    /\ chunk # Nothing => chunk.size \in Nat /\ chunk.size <= size
    /\ q.stopped = Nothing /\ q.accepting =>
          Cardinality(Resizes(Len(sequenced))) + (IF resizing THEN 1 ELSE 0) = size

RecInv ==
    /\ RecTypeOK /\ Numbered /\ InStep /\ Chained /\ LastSegment /\ WriterAt /\ Ends /\ Sizes
    /\ ResizeFirst

(***************************************************************************)
(* Facts about the operators                                               *)
(***************************************************************************)
\* A record is not Nothing, and neither is a stop.
LEMMA Something ==
    /\ \A r \in Recs : r # Nothing
    /\ \A t \in StopRecords : t # Nothing
BY DEF Recs, StopRecords, Nothing

\* The fields of the queue, and their types.
LEMMA QueueTypes ==
    ASSUME RecTypeOK
    PROVE  /\ q.backlog \in Seq(Recs) /\ q.accepting \in BOOLEAN /\ q.appended \in Nat
           /\ q.synced \in Nat /\ q.segments \in Nat /\ q.stopped \in StopRecords \cup {Nothing}
           /\ q.done \in BOOLEAN /\ Len(q.backlog) \in Nat
           /\ sequenced \in Seq(Recs) /\ Len(sequenced) \in Nat
           /\ DOMAIN sequenced = 1..Len(sequenced) /\ DOMAIN q.backlog = 1..Len(q.backlog)
           /\ \A i \in DOMAIN sequenced : sequenced[i] \in Recs
BY DEF RecTypeOK, Queues

\* The fields of the writer, and their types.
LEMMA ThreadTypes ==
    ASSUME RecTypeOK
    PROVE  /\ w.pc \in WriterPcs /\ w.then \in {"take", "publish", "done"} /\ w.enc \in Encoders
           /\ w.rec \in Recs \cup {Nothing} /\ w.reason \in Reasons /\ w.attempted \in BOOLEAN
           /\ w.before \in Nat /\ w.len \in Nat /\ w.last \in Nat /\ w.total \in Int
           /\ w.unsynced \in BOOLEAN /\ w.uncut \in BOOLEAN
           /\ w.enc.index \in Nat /\ w.enc.first \in Nat /\ w.enc.next \in Nat /\ w.enc.next # 0
           /\ w.enc.now \in Nat /\ w.enc.count \in Nat
BY DEF RecTypeOK, Threads, Encoders

\* The last segment, and its types.
LEMMA DiskTypes ==
    ASSUME RecTypeOK
    PROVE  /\ Len(disk) \in Nat /\ DOMAIN disk = 1..Len(disk)
           /\ \A k \in 1..Len(disk) : disk[k] \in Segments
           /\ disk # <<>> <=> Len(disk) > 0
           /\ disk # <<>> => Cur \in Segments /\ Len(disk) \in 1..Len(disk)
BY DEF RecTypeOK, Cur

\* The fields of a segment, and their types.
LEMMA SegmentTypes ==
    ASSUME NEW s \in Segments
    PROVE  /\ s.index \in Nat /\ s.first \in Nat /\ s.first # 0 /\ s.geometry \in Nat
           /\ s.recs \in Seq(Recs) /\ Len(s.recs) \in Nat /\ DOMAIN s.recs = 1..Len(s.recs)
           /\ s.torn \in BOOLEAN /\ s.durable \in Nat /\ s.linked \in BOOLEAN
           /\ s.recs = <<>> <=> Len(s.recs) = 0
BY DEF Segments

\* A change of the last segment is a change of that one only.
LEMMA OnLastMoves ==
    ASSUME RecTypeOK, disk # <<>>, NEW s \in Segments, OnLast(s)
    PROVE  /\ disk' \in Seq(Segments) /\ Len(disk') = Len(disk) /\ disk' # <<>>
           /\ disk'[Len(disk)] = s /\ Cur' = s
           /\ \A k \in 1..Len(disk) : k < Len(disk) => disk'[k] = disk[k]
BY DEF RecTypeOK, OnLast, Cur

\* Encoding a record moves the geometry as the file's records do.
LEMMA EndsAtAppend ==
    ASSUME NEW s \in Segments, NEW t \in Segments, NEW r \in Recs, NEW g,
           t.geometry = s.geometry, t.recs = Append(s.recs, r), EndsAt(s, g)
    PROVE  EndsAt(t, IF r.kind = "resize" THEN r.size ELSE g)
<1>1. /\ s.recs \in Seq(Recs) /\ DOMAIN s.recs = 1..Len(s.recs) /\ Len(s.recs) \in Nat
      /\ DOMAIN t.recs = 1..(Len(s.recs) + 1) /\ t.recs[Len(s.recs) + 1] = r
      /\ \A i \in 1..Len(s.recs) : t.recs[i] = s.recs[i]
    BY DEF Segments
<1>2. CASE r.kind = "resize"
    BY <1>1, <1>2 DEF EndsAt
<1>3. CASE r.kind # "resize"
  <2>1. CASE g = s.geometry /\ \A i \in DOMAIN s.recs : s.recs[i].kind # "resize"
    BY <1>1, <1>3, <2>1 DEF EndsAt
  <2>2. CASE \E i \in DOMAIN s.recs :
                /\ s.recs[i].kind = "resize" /\ s.recs[i].size = g
                /\ \A j \in DOMAIN s.recs : j > i => s.recs[j].kind # "resize"
    BY <1>1, <1>3, <2>2 DEF EndsAt
  <2> QED
    BY <2>1, <2>2 DEF EndsAt
<1> QED
    BY <1>2, <1>3

\* What is left of a sequence that is cut.
LEMMA PrefixOf ==
    ASSUME NEW S, NEW f \in Seq(S), NEW m \in Nat, m <= Len(f)
    PROVE  /\ SubSeq(f, 1, m) \in Seq(S) /\ Len(SubSeq(f, 1, m)) = m /\ DOMAIN SubSeq(f, 1, m) = 1..m
           /\ \A i \in 1..m : SubSeq(f, 1, m)[i] = f[i]
<1>1. \A i \in 1..m : f[i] \in S
    OBVIOUS
<1>2. Len(SubSeq(f, 1, m)) = m
    OBVIOUS
<1>3. \A i \in 1..m : SubSeq(f, 1, m)[i] = f[i]
    OBVIOUS
<1>4. SubSeq(f, 1, m) \in Seq(S)
    BY <1>1
<1> QED
    BY <1>2, <1>3, <1>4

\* Segments that agree on header and records end alike.
LEMMA EndsAtSame ==
    ASSUME NEW s, NEW t, NEW g, t.geometry = s.geometry, t.recs = s.recs, EndsAt(s, g)
    PROVE  EndsAt(t, g)
BY DEF EndsAt

\* There are finitely many sizes recorded.
LEMMA ResizesFinite ==
    ASSUME NEW n \in Nat
    PROVE  IsFiniteSet(Resizes(n)) /\ Cardinality(Resizes(n)) \in Nat
<1>1. IsFiniteSet(1..n) /\ Resizes(n) \subseteq 1..n
    BY FS_Interval DEF Resizes
<1>2. IsFiniteSet(Resizes(n))
    BY <1>1, FS_Subset
<1> QED
    BY <1>2, FS_CardinalityType

\* The recorder's stop: the first wins, at the last completed append.
LEMMA StopEffect ==
    ASSUME RecInv, NEW reason \in Reasons, Stop(reason)
    PROVE  /\ q' \in Queues /\ told' \in Seq(StopRecords)
           /\ q'.stopped # Nothing /\ q'.stopped.last = q.appended /\ q'.backlog = <<>>
           /\ q'.accepting = q.accepting /\ q'.appended = q.appended /\ q'.synced = q.synced
           /\ q'.done = q.done
           /\ q.stopped # Nothing => q' = q /\ told' = told
           /\ q.stopped = Nothing => told' = Append(told, q'.stopped)
<1> DEFINE st == [last |-> q.appended, reason |-> reason]
<1>0. RecTypeOK /\ q \in Queues /\ told \in Seq(StopRecords) /\ q.appended \in Nat
    BY QueueTypes DEF RecInv, RecTypeOK
<1>1. st \in StopRecords /\ st # Nothing /\ st.last = q.appended
    BY <1>0, Something DEF StopRecords
<1>2. CASE q.stopped # Nothing
    BY <1>0, <1>2 DEF Stop, RecInv, Numbered, Ends
<1>3. CASE q.stopped = Nothing
  <2>1. q' = [q EXCEPT !.stopped = st, !.backlog = <<>>] /\ told' = Append(told, st)
    BY <1>3 DEF Stop
  <2> HIDE DEF st
  <2>2. q' \in Queues
    <3>1. <<>> \in Seq(Recs) /\ st \in StopRecords \cup {Nothing}
      BY <1>1
    <3> QED
      BY <1>0, <2>1, <3>1 DEF Queues
  <2>3. q'.stopped = st /\ q'.backlog = <<>> /\ q'.appended = q.appended /\ q'.synced = q.synced
    BY <1>0, <2>1 DEF Queues
  <2>4. q'.accepting = q.accepting /\ q'.done = q.done
    BY <1>0, <2>1 DEF Queues
  <2> QED
    BY <1>0, <1>1, <1>3, <2>1, <2>2, <2>3, <2>4
<1> QED
    BY <1>2, <1>3

(***************************************************************************)
(* What a step must show                                                   *)
(***************************************************************************)
\* The producers before they offer anything.
LEMMA ProducerKeeps ==
    ASSUME RecInv, UNCHANGED <<sequenced, q, w, disk, told, closing>>, RecTypeOK', Sizes'
    PROVE  RecInv'
<1>1. Numbered' /\ Ends'
    BY DEF RecInv, Numbered, Ends
<1>2. InStep'
    BY DEF RecInv, InStep, InHand, Over
<1>3. Chained' /\ LastSegment'
    BY DEF RecInv, Chained, Chain, Whole, EndsAt, LastSegment, Cur
<1>4. WriterAt'
    BY DEF RecInv, WriterAt, Blank, Level, Ahead, Written, Uncertain, AtEnd, FirstUp, NextUp, Over, Cur,
           CurEnd, EndsAt, Encoder
<1>5. ResizeFirst'
    BY DEF RecInv, ResizeFirst
<1> QED
    BY <1>1, <1>2, <1>3, <1>4, <1>5 DEF RecInv

\* The writer's steps that stop nothing.
LEMMA StorageKeeps ==
    ASSUME RecInv, UNCHANGED <<sequenced, producerVars, closing, told>>,
           q' \in Queues, w' \in Threads, disk' \in Seq(Segments),
           q'.stopped = q.stopped, q'.accepting = q.accepting, q'.done = q.done,
           q.stopped # Nothing => q'.appended = q.appended, w.pc # "done",
           Numbered', InStep', Chained', LastSegment', WriterAt'
    PROVE  RecInv'
<1>0. UNCHANGED <<size, pty, wrote, chunk, resizing>>
    BY DEF producerVars
<1>1. RecTypeOK'
    BY <1>0 DEF RecInv, RecTypeOK
<1>2. Ends'
    BY DEF RecInv, Ends
<1>3. Sizes'
    BY <1>0 DEF RecInv, Sizes, Resizes
<1>4. ResizeFirst'
    BY DEF RecInv, ResizeFirst
<1> QED
    BY <1>1, <1>2, <1>3, <1>4 DEF RecInv

\* A stop, whoever makes it, leaves the files as they are.
LEMMA StopKeeps ==
    ASSUME RecInv, NEW reason \in Reasons, Stop(reason), UNCHANGED <<sequenced, disk>>,
           size' = size, pty' = pty, resizing' \in BOOLEAN,
           chunk' # Nothing => chunk'.size \in Nat /\ chunk'.size <= size,
           w' \in Threads, w'.last = w.last, w'.unsynced = w.unsynced,
           q.done => w'.pc = "done",
           closing' \in {"open", "closing", "closed"}, closing' # "open" => ~q.accepting,
           InHand' => InHand /\ w'.rec = w.rec /\ (w'.pc # "settle" => w'.reason = "none"),
           WriterAt'
    PROVE  RecInv'
<1>0. /\ q' \in Queues /\ told' \in Seq(StopRecords)
      /\ q'.stopped # Nothing /\ q'.stopped.last = q.appended /\ q'.backlog = <<>>
      /\ q'.accepting = q.accepting /\ q'.appended = q.appended /\ q'.synced = q.synced
      /\ q'.done = q.done
    BY StopEffect
<1>1. RecTypeOK'
    BY <1>0 DEF RecInv, RecTypeOK
<1>2. Numbered'
  <2>1. Len(q'.backlog) = 0 /\ Len(sequenced) \in Nat /\ DOMAIN q'.backlog = {}
    BY <1>0, QueueTypes DEF RecInv
  <2> QED
    BY <1>0, <2>1 DEF RecInv, Numbered
<1>3. InStep'
    BY <1>0 DEF RecInv, InStep
<1>4. Chained'
    BY ZenonT(30) DEF RecInv, Chained, Chain, Whole, EndsAt
<1>5. LastSegment'
    BY <1>0 DEF RecInv, LastSegment, Cur
<1>6. Ends'
    BY <1>0 DEF RecInv, Ends
<1>7. Sizes'
    BY <1>0 DEF RecInv, Sizes
<1>8. ResizeFirst'
    BY DEF RecInv, ResizeFirst
<1> QED
    BY <1>1, <1>2, <1>3, <1>4, <1>5, <1>6, <1>7, <1>8 DEF RecInv

\* Where the writer is does not depend on the producers' side of the queue.
LEMMA WriterAtSame ==
    ASSUME RecInv, UNCHANGED <<w, disk>>, q'.appended = q.appended
    PROVE  WriterAt' /\ (InHand' <=> InHand) /\ (Over' <=> Over)
<1>1. WriterAt'
    BY DEF RecInv, WriterAt, Blank, Level, Ahead, Written, Uncertain, AtEnd, FirstUp, NextUp, Over, Cur,
           CurEnd, EndsAt, Encoder
<1> QED
    BY <1>1 DEF InHand, Over

(***************************************************************************)
(* Producers                                                               *)
(***************************************************************************)
\* The child writes, capture reads, a size is applied.
LEMMA ProducersKeep ==
    ASSUME RecInv, ChildWrites \/ CaptureReads \/ ResizeApplies
    PROVE  RecInv'
<1>0. /\ UNCHANGED <<sequenced, q, w, disk, told, closing>>
      /\ RecTypeOK /\ pty \in Seq(Nat) /\ size \in Nat /\ resizing \in BOOLEAN /\ Sizes
    BY DEF ChildWrites, CaptureReads, ResizeApplies, RecInv, RecTypeOK
<1>1. CASE ChildWrites
  <2>1. pty' = Append(pty, size) /\ UNCHANGED <<size, chunk, resizing>>
    BY <1>1 DEF ChildWrites
  <2>2. RecTypeOK'
    BY <1>0, <2>1 DEF RecTypeOK
  <2>3. Sizes'
    BY <1>0, <2>1 DEF Sizes, Resizes
  <2> QED
    BY <1>0, <2>2, <2>3, ProducerKeeps
<1>2. CASE CaptureReads
  <2>1. /\ pty # <<>> /\ pty' = Tail(pty) /\ chunk' = [size |-> Head(pty)]
        /\ UNCHANGED <<size, resizing>>
    BY <1>2 DEF CaptureReads
  <2>2. RecTypeOK'
    BY <1>0, <2>1 DEF RecTypeOK
  <2>3. Sizes'
    <3>1. Head(pty) \in Nat /\ Head(pty) <= size /\ \A i \in DOMAIN pty' : pty'[i] <= size
      BY <1>0, <2>1 DEF Sizes
    <3> QED
      BY <1>0, <2>1, <3>1 DEF Sizes, Resizes
  <2> QED
    BY <1>0, <2>2, <2>3, ProducerKeeps
<1>3. CASE ResizeApplies
  <2>1. ~resizing /\ resizing' = TRUE /\ size' = size + 1 /\ UNCHANGED <<pty, chunk>>
    BY <1>3 DEF ResizeApplies, Locked
  <2>2. RecTypeOK'
    BY <1>0, <2>1 DEF RecTypeOK
  <2>3. Sizes'
    <3>1. \A i \in DOMAIN pty : pty[i] \in Nat
      BY <1>0
    <3>2. /\ Cardinality(Resizes(Len(sequenced))) \in Nat
          /\ Resizes(Len(sequenced))' = Resizes(Len(sequenced))
      BY <1>0, QueueTypes, ResizesFinite DEF Resizes
    <3>3. Cardinality(Resizes(Len(sequenced)))' + 1 = size'
             \/ ~(q.stopped = Nothing /\ q.accepting)
      BY <1>0, <2>1, <3>2 DEF Sizes
    <3> QED
      BY <1>0, <2>1, <3>1, <3>3 DEF Sizes
  <2> QED
    BY <1>0, <2>2, <2>3, ProducerKeeps
<1> QED
    BY <1>1, <1>2, <1>3

\* What an offer may come to: nothing any more, a stop, or a record at the queue's end.
Offered(kind, at) ==
    [seq |-> Len(sequenced) + 1, kind |-> kind, size |-> at]

\* Shared::enqueue comes to one of the three.
LEMMA EnqueueCases ==
    ASSUME NEW kind, NEW at, Enqueue(kind, at), RecTypeOK
    PROVE  \/ (q.stopped # Nothing \/ ~q.accepting) /\ UNCHANGED <<sequenced, q, told>>
           \/ (\E reason \in Reasons : Stop(reason)) /\ UNCHANGED sequenced
           \/ /\ q.stopped = Nothing /\ q.accepting
              /\ sequenced' = Append(sequenced, Offered(kind, at))
              /\ q' = [q EXCEPT !.backlog = Append(@, Offered(kind, at))]
              /\ UNCHANGED told
<1> DEFINE rec == Offered(kind, at)
<1>0. rec.seq \in Nat /\ MaxSequence \in Nat /\ rec.seq = Len(sequenced) + 1
    BY QueueTypes, LimitsAssumption DEF Offered
<1>1. CASE q.stopped # Nothing \/ ~q.accepting
    BY <1>1 DEF Enqueue
<1>2. CASE ~(q.stopped # Nothing \/ ~q.accepting)
  <2>1. CASE rec.seq > MaxSequence
    <3>1. Stop("size_limit") /\ UNCHANGED sequenced
      BY <1>0, <1>2, <2>1 DEF Enqueue, Offered
    <3> QED
      BY <3>1 DEF Reasons
  <2>2. CASE rec.seq <= MaxSequence /\ Len(q.backlog) + 1 > limits.backlog
    <3>1. Stop("backlog_full") /\ UNCHANGED sequenced
      BY <1>0, <1>2, <2>2 DEF Enqueue, Offered
    <3> QED
      BY <3>1 DEF Reasons
  <2>3. CASE ~(rec.seq > MaxSequence) /\ ~(rec.seq <= MaxSequence /\ Len(q.backlog) + 1 > limits.backlog)
    BY <1>2, <2>3 DEF Enqueue, Offered
  <2> QED
    BY <2>1, <2>2, <2>3
<1> QED
    BY <1>1, <1>2

\* A record more: the sizes recorded before it stay, and it counts if it is one.
LEMMA ResizesGrow ==
    ASSUME RecTypeOK, NEW r \in Recs, sequenced' = Append(sequenced, r)
    PROVE  /\ \A n \in 0..Len(sequenced) : Resizes(n)' = Resizes(n)
           /\ Len(sequenced') = Len(sequenced) + 1
           /\ r.kind # "resize" => Resizes(Len(sequenced))' = Resizes(Len(sequenced))
           /\ Cardinality(Resizes(Len(sequenced)))' =
                 Cardinality(Resizes(Len(sequenced))) + IF r.kind = "resize" THEN 1 ELSE 0
<1> DEFINE n == Len(sequenced)
<1>1. /\ sequenced \in Seq(Recs) /\ n \in Nat /\ Len(sequenced') = n + 1
      /\ \A i \in 1..n : sequenced'[i] = sequenced[i]
      /\ sequenced'[n + 1] = r
    BY QueueTypes DEF RecTypeOK
<1>2. \A m \in 0..n : Resizes(m)' = Resizes(m)
    BY <1>1 DEF Resizes
<1>3. CASE r.kind = "resize"
  <2>1. Resizes(n)' = Resizes(n) \cup {n + 1}
    BY <1>1, <1>3 DEF Resizes
  <2>2. n + 1 \notin Resizes(n) /\ IsFiniteSet(Resizes(n))
    BY <1>1, ResizesFinite DEF Resizes
  <2>3. Cardinality(Resizes(n) \cup {n + 1}) = Cardinality(Resizes(n)) + 1
    BY <2>2, FS_AddElement
  <2> QED
    BY <1>1, <1>2, <1>3, <2>1, <2>3
<1>4. CASE r.kind # "resize"
  <2>1. Resizes(n)' = Resizes(n)
    BY <1>1, <1>4 DEF Resizes
  <2>2. Cardinality(Resizes(n)) \in Nat
    BY <1>1, ResizesFinite
  <2> QED
    BY <1>1, <1>2, <1>4, <2>1, <2>2
<1> QED
    BY <1>3, <1>4

\* A record at the end of the sequence and of the queue.
Grown(r) ==
    /\ sequenced' \in Seq(Recs) /\ Len(sequenced') = Len(sequenced) + 1
    /\ \A i \in 1..Len(sequenced) : sequenced'[i] = sequenced[i]
    /\ sequenced'[Len(sequenced) + 1] = r
    /\ q'.backlog \in Seq(Recs) /\ Len(q'.backlog) = Len(q.backlog) + 1
    /\ \A i \in 1..Len(q.backlog) : q'.backlog[i] = q.backlog[i]
    /\ q'.backlog[Len(q.backlog) + 1] = r

\* It is the next number, and follows what was queued before it.
LEMMA GrownNumbered ==
    ASSUME RecTypeOK, Numbered, NEW r, r.seq = Len(sequenced) + 1, Grown(r), q'.stopped = Nothing
    PROVE  Numbered'
<1> DEFINE n == Len(sequenced)
           b == Len(q.backlog)
<1>0. n \in Nat /\ b \in Nat /\ DOMAIN sequenced = 1..n /\ DOMAIN q.backlog = 1..b /\ b <= n
    BY QueueTypes DEF Numbered
<1>1. \A i \in DOMAIN sequenced' : sequenced'[i].seq = i
    BY <1>0 DEF Numbered, Grown
<1>2. Len(q'.backlog) <= Len(sequenced')
    BY <1>0 DEF Grown
<1>3. ASSUME NEW i \in 1..(b + 1), NEW j \in 1..(n + 1), j + (b + 1) = (n + 1) + i
      PROVE  q'.backlog[i] = sequenced'[j]
  <2>1. CASE i = b + 1
    <3> HIDE DEF n, b
    <3>1. j = n + 1
      BY <1>0, <2>1, <1>3
    <3> QED
      BY <2>1, <3>1 DEF Grown, n, b
  <2>2. CASE i \in 1..b
    <3>1. j \in 1..n /\ j + b = n + i
      BY <1>0, <1>3, <2>2
    <3>2. q.backlog[i] = sequenced[j]
      BY <1>0, <2>2, <3>1 DEF Numbered
    <3> QED
      BY <2>2, <3>1, <3>2 DEF Grown
  <2> QED
    BY <1>0, <2>1, <2>2
<1>4. /\ Len(q'.backlog) = b + 1 /\ Len(sequenced') = n + 1
      /\ DOMAIN q'.backlog = 1..(b + 1) /\ DOMAIN sequenced' = 1..(n + 1)
  <2>1. /\ q'.backlog \in Seq(Recs) /\ Len(q'.backlog) = b + 1
        /\ sequenced' \in Seq(Recs) /\ Len(sequenced') = n + 1
    BY DEF Grown
  <2> QED
    BY <1>0, <2>1
<1> QED
    BY <1>1, <1>2, <1>3, <1>4 DEF Numbered

\* And the writer is as far behind it as it was, and one more.
LEMMA GrownInStep ==
    ASSUME RecTypeOK, InStep, NEW r, Grown(r), w' = w, q.stopped = Nothing, q.accepting,
           q'.stopped = q.stopped, q'.appended = q.appended, q'.synced = q.synced
    PROVE  InStep'
<1>0. /\ q.appended \in Nat /\ Len(sequenced) \in Nat /\ Len(q.backlog) \in Nat
      /\ DOMAIN sequenced = 1..Len(sequenced)
    BY QueueTypes
<1>1. (InHand' <=> InHand) /\ (Over' <=> Over)
    BY DEF InHand, Over
<1>2. CASE InHand
  <2>1. q.appended + 1 \in 1..Len(sequenced) /\ q.appended + Len(q.backlog) + 1 = Len(sequenced)
    BY <1>0, <1>2 DEF InStep
  <2>2. sequenced'[q.appended + 1] = sequenced[q.appended + 1]
    BY <2>1 DEF Grown
  <2>3. q.appended + Len(q'.backlog) + 1 = Len(sequenced') /\ q.appended + 1 \in DOMAIN sequenced'
    <3>1. Len(q'.backlog) = Len(q.backlog) + 1 /\ Len(sequenced') = Len(sequenced) + 1
      BY DEF Grown
    <3>2. q.appended + 1 \in 1..Len(sequenced')
      BY <1>0, <2>1, <3>1
    <3>3. DOMAIN sequenced' = 1..Len(sequenced')
      BY DEF Grown
    <3>4. q.appended + Len(q'.backlog) + 1 = Len(sequenced')
      BY <1>0, <2>1, <3>1
    <3> QED
      BY <3>2, <3>3, <3>4
  <2>4. q.appended <= Len(sequenced')
    BY <1>0, <2>3 DEF Grown
  <2> QED
    BY <1>1, <1>2, <2>1, <2>2, <2>3, <2>4 DEF InStep
<1>3. CASE ~InHand
  <2>1. q.appended + Len(q.backlog) + 0 = Len(sequenced)
    BY <1>0, <1>3 DEF InStep
  <2>2. q.appended + Len(q'.backlog) + 0 = Len(sequenced') /\ q.appended <= Len(sequenced')
    BY <1>0, <2>1 DEF Grown
  <2> QED
    BY <1>1, <1>3, <2>1, <2>2 DEF InStep
<1> QED
    BY <1>2, <1>3

\* A record that is offered and taken.
LEMMA OfferKeeps ==
    ASSUME RecInv, q.stopped = Nothing, q.accepting, NEW kind \in {"output", "resize"}, NEW at \in Nat,
           sequenced' = Append(sequenced, Offered(kind, at)),
           q' = [q EXCEPT !.backlog = Append(@, Offered(kind, at))],
           UNCHANGED <<w, disk, told, closing>>, size' = size, pty' = pty, resizing' \in BOOLEAN,
           chunk' # Nothing => chunk'.size \in Nat /\ chunk'.size <= size,
           Cardinality(Resizes(Len(sequenced)))' + (IF resizing' THEN 1 ELSE 0) = size,
           kind = "output" => at <= Cardinality(Resizes(Len(sequenced)))
    PROVE  RecInv'
<1> DEFINE r == Offered(kind, at)
           n == Len(sequenced)
<1>0. RecTypeOK /\ Numbered /\ InStep /\ Chained /\ LastSegment /\ Ends /\ Sizes /\ ResizeFirst
    BY DEF RecInv
<1>1. r \in Recs /\ r.seq = n + 1 /\ r.kind = kind /\ r.size = at
    BY <1>0, QueueTypes DEF Offered, Recs
<1> HIDE DEF r
<1>2. /\ sequenced' \in Seq(Recs) /\ n \in Nat /\ Len(sequenced') = n + 1
      /\ \A i \in 1..n : sequenced'[i] = sequenced[i]
      /\ sequenced'[n + 1] = r
      /\ DOMAIN sequenced = 1..n /\ DOMAIN sequenced' = 1..(n + 1)
    BY <1>0, <1>1, QueueTypes DEF RecTypeOK, r
<1>3. /\ q' \in Queues /\ q'.backlog = Append(q.backlog, r)
      /\ q'.stopped = q.stopped /\ q'.appended = q.appended /\ q'.synced = q.synced
  <2>1. q \in Queues /\ Append(q.backlog, r) \in Seq(Recs)
    BY <1>0, <1>1, QueueTypes DEF RecTypeOK
  <2>2. q' = [q EXCEPT !.backlog = Append(q.backlog, r)]
    BY <2>1 DEF r
  <2> QED
    BY <2>1, <2>2 DEF Queues
<1>4. q'.accepting = q.accepting /\ q'.done = q.done
  <2>1. q \in Queues
    BY <1>0 DEF RecTypeOK
  <2> QED
    BY <2>1 DEF Queues
<1>5. Grown(r)
    BY <1>0, <1>1, <1>2, <1>3, QueueTypes DEF Grown
<1>6. RecTypeOK'
    BY <1>0, <1>2, <1>3 DEF RecTypeOK
<1>7. Numbered'
    BY <1>0, <1>1, <1>3, <1>5, GrownNumbered
<1>8. WriterAt' /\ (InHand' <=> InHand) /\ (Over' <=> Over)
    BY <1>3, WriterAtSame
<1>9. InStep'
    BY <1>0, <1>3, <1>5, GrownInStep
<1>10. Chained'
  <2> SUFFICES ASSUME NEW k \in 1..Len(disk) PROVE Chain(k)' /\ (k < Len(disk) => Whole(k)')
    BY DEF Chained
  <2>1. Chain(k) /\ (k < Len(disk) => Whole(k))
    BY <1>0 DEF Chained
  <2> QED
    BY <1>2, <2>1 DEF Chain, Whole, EndsAt
<1>11. LastSegment'
    BY <1>0, <1>3 DEF LastSegment, Cur
<1>12. Ends'
    BY <1>0, <1>3, <1>4 DEF Ends
<1>13. Sizes'
    BY <1>0 DEF Sizes
<1>14. ResizeFirst'
  <2> SUFFICES ASSUME NEW i \in 1..(n + 1), sequenced'[i].kind = "output"
               PROVE  Cardinality(Resizes(i)') >= sequenced'[i].size
    BY <1>2 DEF ResizeFirst, Resizes
  <2>1. CASE i \in 1..n
    <3>1. Resizes(i)' = Resizes(i)
      BY <1>0, <1>1, <1>2, <2>1, ResizesGrow DEF r
    <3> QED
      BY <1>0, <1>2, <2>1, <3>1 DEF ResizeFirst, Resizes
  <2>2. CASE i = n + 1
    <3>1. r.kind = "output"
      BY <1>2, <2>2
    <3>2. Resizes(Len(sequenced))' = Resizes(Len(sequenced))
      BY <1>0, <1>1, <3>1, ResizesGrow DEF r
    <3>3. Resizes(i)' = Resizes(n)
      BY <1>2, <2>2, <3>2 DEF Resizes
    <3>4. Cardinality(Resizes(n)) \in Nat
      BY <1>2, ResizesFinite
    <3> QED
      BY <1>1, <1>2, <2>2, <3>1, <3>3, <3>4
  <2> QED
    BY <2>1, <2>2
<1> QED
    BY <1>6, <1>7, <1>8, <1>9, <1>10, <1>11, <1>12, <1>13, <1>14 DEF RecInv

\* A stop that moves nothing of the writer's.
LEMMA ProducerStops ==
    ASSUME RecInv, NEW reason \in Reasons, Stop(reason), UNCHANGED <<sequenced, disk, w>>,
           size' = size, pty' = pty, resizing' \in BOOLEAN,
           chunk' # Nothing => chunk'.size \in Nat /\ chunk'.size <= size,
           closing' \in {"open", "closing", "closed"}, closing' # "open" => ~q.accepting
    PROVE  RecInv'
<1>1. q'.appended = q.appended
    BY StopEffect
<1>2. WriterAt' /\ (InHand' <=> InHand)
    BY <1>1, WriterAtSame
<1>3. /\ InHand' => InHand /\ w'.rec = w.rec /\ (w'.pc # "settle" => w'.reason = "none")
      /\ w' \in Threads /\ (q.done => w'.pc = "done")
    BY <1>2 DEF RecInv, InStep, RecTypeOK, Ends
<1> QED
    BY <1>2, <1>3, StopKeeps

\* Recorder::output and the end of resize_applied.
LEMMA OfferingKeeps ==
    ASSUME RecInv, NEW kind \in {"output", "resize"}, NEW at \in Nat, Enqueue(kind, at),
           UNCHANGED <<w, disk, closing, size, pty>>, resizing' = FALSE,
           chunk' # Nothing => chunk'.size \in Nat /\ chunk'.size <= size,
           IF kind = "resize" THEN resizing ELSE ~resizing /\ at <= size
    PROVE  RecInv'
<1>0. RecTypeOK /\ Sizes /\ closing \in {"open", "closing", "closed"} /\ (closing # "open" => ~q.accepting)
    BY DEF RecInv, RecTypeOK, Ends
<1>1. CASE (q.stopped # Nothing \/ ~q.accepting) /\ UNCHANGED <<sequenced, q, told>>
  <2>1. RecTypeOK'
    BY <1>0, <1>1 DEF RecTypeOK
  <2>2. Sizes'
    BY <1>0, <1>1 DEF Sizes
  <2> QED
    BY <1>1, <2>1, <2>2, ProducerKeeps
<1>2. CASE (\E reason \in Reasons : Stop(reason)) /\ UNCHANGED sequenced
    BY <1>0, <1>2, ProducerStops
<1>3. CASE /\ q.stopped = Nothing /\ q.accepting
           /\ sequenced' = Append(sequenced, Offered(kind, at))
           /\ q' = [q EXCEPT !.backlog = Append(@, Offered(kind, at))]
           /\ UNCHANGED told
  <2> DEFINE c == Cardinality(Resizes(Len(sequenced)))
  <2>1. Offered(kind, at) \in Recs /\ Offered(kind, at).kind = kind
    BY <1>0, QueueTypes DEF Offered, Recs
  <2>2. Cardinality(Resizes(Len(sequenced)))' = c + IF kind = "resize" THEN 1 ELSE 0
    BY <1>0, <1>3, <2>1, ResizesGrow
  <2>3. c \in Nat /\ c + (IF resizing THEN 1 ELSE 0) = size
    BY <1>0, <1>3, QueueTypes, ResizesFinite DEF Sizes
  <2> HIDE DEF c
  <2>4. Cardinality(Resizes(Len(sequenced)))' = size
    BY <2>2, <2>3
  <2>5. size \in Nat /\ size + (IF resizing' THEN 1 ELSE 0) = size
    BY <1>0 DEF RecTypeOK
  <2>6. kind = "output" => at <= c
    BY <2>3, <2>5
  <2> QED
    BY <1>3, <2>4, <2>5, <2>6, OfferKeeps DEF c
<1> QED
    BY <1>0, <1>1, <1>2, <1>3, EnqueueCases

\* Recorder::output, and the record of a size that was applied.
LEMMA OutputKeeps ==
    ASSUME RecInv, Output \/ ResizeRecorded
    PROVE  RecInv'
<1>1. CASE Output
  <2>1. /\ chunk.size \in Nat /\ chunk.size <= size /\ ~resizing /\ resizing' = FALSE
        /\ Enqueue("output", chunk.size) /\ chunk' = Nothing
        /\ UNCHANGED <<w, disk, closing, size, pty>>
    BY <1>1 DEF Output, Locked, RecInv, Sizes, RecTypeOK
  <2> QED
    BY <2>1, OfferingKeeps
<1>2. CASE ResizeRecorded
  <2>1. /\ resizing /\ resizing' = FALSE /\ size \in Nat
        /\ Enqueue("resize", size) /\ chunk' = chunk
        /\ (chunk # Nothing => chunk.size \in Nat /\ chunk.size <= size)
        /\ UNCHANGED <<w, disk, closing, size, pty>>
    BY <1>2 DEF ResizeRecorded, RecInv, Sizes, RecTypeOK
  <2> QED
    BY <2>1, OfferingKeeps
<1> QED
    BY <1>1, <1>2

(***************************************************************************)
(* Closing                                                                 *)
(***************************************************************************)
\* finish closes the sequence, and returns with the writer's end or with a stop.
LEMMA ClosingKeeps ==
    ASSUME RecInv, Finish \/ FinishReturns \/ FinishTimesOut
    PROVE  RecInv'
<1>0. /\ UNCHANGED <<sequenced, w, disk, size, pty, chunk, resizing>> /\ RecTypeOK
      /\ Numbered /\ InStep /\ Chained /\ LastSegment /\ Ends /\ Sizes /\ ResizeFirst
    BY DEF Finish, FinishReturns, FinishTimesOut, producerVars, RecInv
<1>1. CASE FinishTimesOut
  <2>1. Stop("stalled") /\ closing = "closing" /\ closing' = "closed" /\ "stalled" \in Reasons
    BY <1>1 DEF FinishTimesOut, Reasons
  <2> QED
    BY <1>0, <2>1, ProducerStops DEF RecTypeOK, Sizes, Ends
<1>2. CASE Finish \/ FinishReturns
  <2>1. /\ q' \in Queues /\ q'.stopped = q.stopped /\ q'.appended = q.appended /\ q'.synced = q.synced
        /\ q'.backlog = q.backlog
        /\ told' = told /\ closing' \in {"closing", "closed"}
    <3>1. q \in Queues
      BY <1>0 DEF RecTypeOK
    <3> QED
      BY <1>2, <3>1 DEF Finish, FinishReturns, Queues
  <2>2. ~q'.accepting /\ (q'.done <=> q.done) /\ (closing' = "closed" => q.done)
    <3>1. q \in Queues
      BY <1>0 DEF RecTypeOK
    <3>2. CASE Finish
      BY <3>1, <3>2 DEF Finish, Queues
    <3>3. CASE FinishReturns
      BY <1>0, <3>3 DEF FinishReturns, Ends
    <3> QED
      BY <1>2, <3>2, <3>3
  <2>3. RecTypeOK'
    BY <1>0, <2>1 DEF RecTypeOK
  <2>4. Numbered'
    BY <1>0, <2>1 DEF Numbered
  <2>5. WriterAt' /\ (InHand' <=> InHand) /\ (Over' <=> Over)
    BY <1>0, <2>1, WriterAtSame
  <2>6. InStep'
    BY <1>0, <2>1, <2>2, <2>5 DEF InStep
  <2>7. Chained'
    BY <1>0 DEF Chained, Chain, Whole, EndsAt
  <2>8. LastSegment'
    BY <1>0, <2>1 DEF LastSegment, Cur
  <2>9. Ends'
    BY <1>0, <2>1, <2>2 DEF Ends
  <2>10. Sizes'
    BY <1>0, <2>1, <2>2 DEF Sizes
  <2>11. ResizeFirst'
    BY <1>0 DEF ResizeFirst
  <2> QED
    BY <2>3, <2>4, <2>5, <2>6, <2>7, <2>8, <2>9, <2>10, <2>11 DEF RecInv
<1> QED
    BY <1>1, <1>2

(***************************************************************************)
(* The writer                                                              *)
(***************************************************************************)
\* A step that changes neither the queue nor the files.
LEMMA WriterMoves ==
    ASSUME RecInv, UNCHANGED <<sequenced, producerVars, closing, told, q, disk>>,
           w' \in Threads, w'.last = w.last, w'.unsynced = w.unsynced, w.pc # "done",
           InHand' <=> InHand,
           InHand' => w'.rec = w.rec /\ (w'.pc # "settle" => w'.reason = "none"),
           w'.pc # "done", w'.pc = "cut" => q.stopped # Nothing,
           Over' => Over \/ q.stopped # Nothing \/ (q.backlog = <<>> /\ ~q.accepting),
           WriterAt'
    PROVE  RecInv'
<1>1. Numbered'
    BY DEF RecInv, Numbered
<1>2. InStep'
  <2>1. InStep /\ (IF InHand' THEN 1 ELSE 0) = (IF InHand THEN 1 ELSE 0)
    BY DEF RecInv
  <2>2. q.appended + Len(q.backlog) + (IF InHand' THEN 1 ELSE 0)
           = q.appended + Len(q.backlog) + (IF InHand THEN 1 ELSE 0)
    BY <2>1
  <2> QED
    BY <2>1, <2>2 DEF InStep
<1>3. Chained'
    BY DEF RecInv, Chained, Chain, Whole, EndsAt
<1>4. LastSegment'
    BY DEF RecInv, LastSegment, Cur
<1> QED
    BY <1>1, <1>2, <1>3, <1>4, StorageKeeps DEF RecInv, RecTypeOK

\* The parts of the writer that say where it is in the file.
Kept ==
    /\ w' \in Threads /\ w'.enc = w.enc /\ w'.rec = w.rec /\ w'.last = w.last
    /\ w'.before = w.before /\ w'.len = w.len
    /\ w'.unsynced = w.unsynced /\ w'.uncut = w.uncut /\ w'.attempted = w.attempted

\* Only where the writer goes next changes.
LEMMA JumpKeeps ==
    ASSUME RecInv, NEW p \in WriterPcs, NEW t \in {"take", "publish", "done"},
           w' = [w EXCEPT !.pc = p, !.then = t]
    PROVE  Kept /\ w'.pc = p /\ w'.then = t /\ w'.reason = w.reason
<1>0. w \in Threads
    BY DEF RecInv, RecTypeOK
<1>1. w' \in Threads
    BY <1>0 DEF Threads
<1>2. /\ w'.enc = w.enc /\ w'.rec = w.rec /\ w'.last = w.last /\ w'.before = w.before
      /\ w'.len = w.len /\ w'.pc = p /\ w'.then = t /\ w'.reason = w.reason
    BY <1>0 DEF Threads
<1>3. w'.unsynced = w.unsynced /\ w'.uncut = w.uncut /\ w'.attempted = w.attempted
    BY <1>0 DEF Threads
<1> QED
    BY <1>1, <1>2, <1>3 DEF Kept

\* The same where only the next place is named.
LEMMA StepKeeps ==
    ASSUME RecInv, NEW p \in WriterPcs, w' = [w EXCEPT !.pc = p]
    PROVE  Kept /\ w'.pc = p /\ w'.then = w.then /\ w'.reason = w.reason
<1>1. w \in Threads /\ w.then \in {"take", "publish", "done"}
    BY ThreadTypes DEF RecInv, RecTypeOK
<1>2. w' = [w EXCEPT !.pc = p, !.then = w.then]
    BY <1>1 DEF Threads
<1> QED
    BY <1>1, <1>2, JumpKeeps

\* With the file as the encoder has it, the appends are at its end.
LEMMA LevelAtEnd ==
    ASSUME RecInv, UNCHANGED <<disk, q>>, Kept, Level
    PROVE  Level' /\ AtEnd'
<1>1. q.appended = CurEnd /\ ~Cur.torn /\ CurEnd \in Int
    BY DiskTypes, SegmentTypes DEF Level, RecInv, CurEnd
<1> QED
    BY <1>1 DEF Level, AtEnd, Kept, Cur, CurEnd, EndsAt

\* With the file level the writer takes records, syncs and ends; it prepares the record it
\* has in hand.
LEMMA LevelWriterAt ==
    ASSUME w'.uncut => Over',
           \/ w'.pc \in {"take", "prepare", "appended"} /\ Level'
           \/ w'.pc = "sync" /\ w'.then = "take" /\ Level'
           \/ w'.pc = "sync" /\ w'.then = "done" /\ AtEnd'
           \/ w'.pc = "done" /\ AtEnd'
    PROVE  WriterAt'
BY DEF WriterAt, Over

\* Writer::next_record finds nothing queued, or the end.
LEMMA IdleKeeps ==
    ASSUME RecInv, IdleSync \/ PeriodicSync
    PROVE  RecInv'
<1>1. /\ UNCHANGED <<sequenced, producerVars, closing, told, q, disk>>
      /\ w.pc \in {"take", "appended"}
      /\ \/ w' = [w EXCEPT !.pc = "sync", !.then = "take"]
         \/ w' = [w EXCEPT !.pc = "take"]
    BY DEF IdleSync, PeriodicSync
<1>2. Kept /\ ((w'.pc = "sync" /\ w'.then = "take") \/ w'.pc = "take")
    BY <1>1, JumpKeeps, StepKeeps DEF WriterPcs
<1>3. Level /\ ~w.uncut
    BY <1>1 DEF RecInv, WriterAt, Over
<1>4. WriterAt'
    BY <1>1, <1>2, <1>3, LevelAtEnd, LevelWriterAt DEF Kept
<1>5. ~InHand /\ ~InHand' /\ ~Over'
    BY <1>1, <1>2 DEF InHand, Over
<1> QED
    BY <1>1, <1>2, <1>4, <1>5, WriterMoves DEF Kept

\* The first record queued is the one after the last that was appended.
LEMMA HeadIsNext ==
    ASSUME RecInv, q.stopped = Nothing, ~InHand, q.backlog # <<>>
    PROVE  /\ q.appended + 1 \in 1..Len(sequenced)
           /\ Head(q.backlog) = sequenced[q.appended + 1]
           /\ q.appended + Len(q.backlog) = Len(sequenced) /\ Len(q.backlog) > 0
<1> DEFINE a == q.appended
           b == Len(q.backlog)
           n == Len(sequenced)
<1>1. /\ a \in Nat /\ b \in Nat /\ n \in Nat /\ b > 0
      /\ DOMAIN q.backlog = 1..b /\ DOMAIN sequenced = 1..n /\ Head(q.backlog) = q.backlog[1]
    BY QueueTypes DEF RecInv
<1>2. a + b + 0 = n
    BY DEF RecInv, InStep
<1> HIDE DEF a, b, n
<1>3. a + b = n /\ a + 1 \in 1..n /\ 1 \in 1..b /\ (a + 1) + b = n + 1
    BY <1>1, <1>2
<1>4. q.backlog[1] = sequenced[a + 1]
    BY <1>1, <1>3 DEF RecInv, Numbered, a, b, n
<1> QED
    BY <1>1, <1>3, <1>4 DEF a, b, n

\* What is queued behind it still ends the sequence.
LEMMA TailNumbered ==
    ASSUME RecInv, q.backlog # <<>>, q'.backlog = Tail(q.backlog), q'.stopped = Nothing,
           sequenced' = sequenced
    PROVE  Numbered' /\ Len(q.backlog) = Len(q'.backlog) + 1 /\ Len(q'.backlog) \in Nat
<1> DEFINE b == Len(q.backlog)
           n == Len(sequenced)
           c == Len(q'.backlog)
<1>1. /\ b \in Nat /\ n \in Nat /\ c \in Nat /\ b = c + 1 /\ b <= n
      /\ DOMAIN q.backlog = 1..b /\ DOMAIN sequenced = 1..n /\ DOMAIN q'.backlog = 1..c
      /\ \A i \in 1..c : q'.backlog[i] = q.backlog[i + 1]
  <2>1. q.backlog \in Seq(Recs) /\ b <= n /\ n \in Nat /\ DOMAIN sequenced = 1..n
    BY QueueTypes DEF RecInv, Numbered
  <2> QED
    BY <2>1
<1>2. ASSUME NEW i \in 1..c, NEW j \in 1..n, j + c = n + i
      PROVE  q'.backlog[i] = sequenced[j]
  <2> HIDE DEF b, n, c
  <2>1. i + 1 \in 1..b /\ j + b = n + (i + 1)
    BY <1>1, <1>2
  <2>2. q.backlog[i + 1] = sequenced[j]
    BY <1>1, <2>1 DEF RecInv, Numbered, b, n
  <2> QED
    BY <1>1, <2>2
<1> HIDE DEF b, n, c
<1>3. c <= n
    BY <1>1
<1> QED
    BY <1>1, <1>2, <1>3, ZenonT(30) DEF RecInv, Numbered, b, n, c

\* The writer takes the first record queued.
LEMMA TakeKeeps ==
    ASSUME RecInv, w.pc = "take", q.stopped = Nothing, q.backlog # <<>>,
           q' = [q EXCEPT !.backlog = Tail(@)],
           w' = [w EXCEPT !.pc = "prepare", !.rec = Head(q.backlog), !.reason = "none"],
           UNCHANGED <<producerVars, sequenced, disk, told, closing>>
    PROVE  RecInv'
<1>0. /\ RecTypeOK /\ q \in Queues /\ w \in Threads /\ q.backlog \in Seq(Recs) /\ disk \in Seq(Segments)
      /\ Head(q.backlog) \in Recs /\ Head(q.backlog) # Nothing /\ Tail(q.backlog) \in Seq(Recs)
    BY QueueTypes, Something DEF RecInv, RecTypeOK
<1>1. /\ q' \in Queues /\ q'.backlog = Tail(q.backlog) /\ q'.stopped = q.stopped
      /\ q'.appended = q.appended /\ q'.synced = q.synced
    BY <1>0 DEF Queues
<1>2. q'.accepting = q.accepting /\ q'.done = q.done
    BY <1>0 DEF Queues
<1>3. /\ w' \in Threads /\ w'.rec = Head(q.backlog) /\ w'.pc = "prepare" /\ w'.reason = "none"
      /\ w'.enc = w.enc /\ w'.last = w.last /\ w'.len = w.len
    BY <1>0 DEF Threads, WriterPcs, Reasons
<1>4. w'.unsynced = w.unsynced /\ w'.uncut = w.uncut
    BY <1>0 DEF Threads
<1>5. Level /\ ~w.uncut
    BY DEF RecInv, WriterAt, Over
<1>6. Level'
    BY <1>1, <1>3, <1>4, <1>5 DEF Level, Cur, CurEnd, EndsAt
<1>7. WriterAt'
    BY <1>3, <1>4, <1>5, <1>6, LevelWriterAt
<1>8. ~InHand /\ InHand' /\ ~Over'
    BY <1>3 DEF InHand, Over
<1>9. /\ Numbered' /\ Len(q.backlog) = Len(q'.backlog) + 1 /\ Len(q'.backlog) \in Nat
    BY <1>1, TailNumbered
<1>10. InStep'
  <2>1. /\ q.appended + 1 \in 1..Len(sequenced) /\ w'.rec = sequenced[q.appended + 1]
        /\ q.appended + Len(q.backlog) = Len(sequenced)
        /\ q.appended \in Nat /\ DOMAIN sequenced = 1..Len(sequenced)
    BY <1>0, <1>3, <1>8, HeadIsNext, QueueTypes
  <2>2. q.appended + Len(q'.backlog) + 1 = Len(sequenced)
    BY <1>9, <2>1
  <2> QED
    BY <1>0, <1>1, <1>3, <1>4, <1>8, <2>1, <2>2 DEF InStep, RecInv
<1>11. Chained'
    BY DEF RecInv, Chained, Chain, Whole, EndsAt
<1>12. LastSegment'
    BY <1>1, <1>4 DEF RecInv, LastSegment, Cur
<1> QED
    BY <1>0, <1>1, <1>2, <1>3, <1>7, <1>9, <1>10, <1>11, <1>12, StorageKeeps

\* Writer::next_record.
LEMMA NextRecordKeeps ==
    ASSUME RecInv, NextRecord
    PROVE  RecInv'
<1>1. w.pc = "take" /\ UNCHANGED <<producerVars, sequenced, disk, told, closing>>
    BY DEF NextRecord
<1>2. CASE /\ q.stopped = Nothing /\ q.backlog # <<>>
           /\ q' = [q EXCEPT !.backlog = Tail(@)]
           /\ w' = [w EXCEPT !.pc = "prepare", !.rec = Head(q.backlog), !.reason = "none"]
    BY <1>1, <1>2, TakeKeeps
<1>3. CASE /\ q' = q /\ w' = [w EXCEPT !.pc = "sync", !.then = "done"]
           /\ q.stopped # Nothing \/ (q.backlog = <<>> /\ ~q.accepting)
  <2>1. Kept /\ w'.pc = "sync" /\ w'.then = "done"
    BY <1>3, JumpKeeps DEF WriterPcs
  <2>2. Level /\ ~w.uncut
    BY <1>1 DEF RecInv, WriterAt, Over
  <2>3. WriterAt'
    BY <1>1, <1>3, <2>1, <2>2, LevelAtEnd, LevelWriterAt DEF Kept
  <2>4. ~InHand /\ ~InHand'
    BY <1>1, <2>1 DEF InHand
  <2> QED
    BY <1>1, <1>3, <2>1, <2>3, <2>4, WriterMoves DEF Kept
<1> QED
    BY <1>2, <1>3 DEF NextRecord

\* A prepare that is refused or fails leaves the file as it is.
LEMMA RefusedKeeps ==
    ASSUME RecInv, NEW reason \in Reasons \ {"none"}, w' = Refused(reason), InHand,
           disk # <<>>, AtEnd, ~w.uncut, w.pc # "done",
           UNCHANGED <<producerVars, sequenced, q, disk, told, closing>>
    PROVE  RecInv'
<1>0. w \in Threads
    BY DEF RecInv, RecTypeOK
<1>1. w' = [w EXCEPT !.pc = "settle", !.reason = reason, !.attempted = FALSE]
    BY DEF Refused
<1>2. /\ w' \in Threads /\ w'.pc = "settle" /\ w'.reason = reason /\ w'.rec = w.rec /\ w'.last = w.last
    BY <1>0, <1>1 DEF Threads, WriterPcs
<1>3. ~w'.attempted /\ w'.unsynced = w.unsynced /\ w'.uncut = w.uncut
    BY <1>0, <1>1 DEF Threads
<1>4. AtEnd'
    BY <1>3 DEF AtEnd, Cur, CurEnd
<1>5. WriterAt' /\ InHand' /\ ~Over'
    BY <1>2, <1>3, <1>4 DEF WriterAt, InHand, Over
<1> QED
    BY <1>2, <1>3, <1>5, WriterMoves

\* With the file level, the appends end where it ends.
LEMMA LevelEnds ==
    ASSUME RecInv, Level
    PROVE  AtEnd
BY DiskTypes, SegmentTypes DEF Level, AtEnd, CurEnd, RecInv

\* Encoding a record moves the encoder one record on.
LEMMA EncodeMoves ==
    ASSUME NEW e \in Encoders, NEW r \in Recs
    PROVE  LET d == Encode(e, r)
           IN  /\ d \in Encoders /\ d.index = e.index /\ d.first = e.first /\ d.next = e.next + 1
               /\ d.count = e.count + 1 /\ d.now = IF r.kind = "resize" THEN r.size ELSE e.now
<1> DEFINE g == IF r.kind = "resize" THEN r.size ELSE e.now
<1>1. g \in Nat /\ e.next + 1 \in Nat \ {0} /\ e.count + 1 \in Nat
    BY DEF Encoders, Recs
<1>2. Encode(e, r) = [e EXCEPT !.next = e.next + 1, !.count = e.count + 1, !.now = g]
    BY DEF Encode, Encoders
<1> HIDE DEF g
<1>3. LET d == Encode(e, r)
      IN  /\ d \in Encoders /\ d.index = e.index /\ d.first = e.first /\ d.next = e.next + 1
          /\ d.count = e.count + 1 /\ d.now = g
    BY <1>1, <1>2 DEF Encoders
<1> QED
    BY <1>3 DEF g

\* The encoder takes the record, and the file is next.
LEMMA EncodedKeeps ==
    ASSUME RecInv, w.pc = "prepare",
           w' = [w EXCEPT !.pc = "append", !.enc = Encode(w.enc, w.rec), !.attempted = TRUE,
                          !.before = w.len],
           UNCHANGED <<producerVars, sequenced, q, disk, told, closing>>
    PROVE  RecInv'
<1> DEFINE e == Encode(w.enc, w.rec)
<1>0. /\ w \in Threads /\ w.enc \in Encoders /\ w.rec \in Recs /\ w.len \in Nat /\ Level /\ ~w.uncut
      /\ InHand /\ w.reason = "none" /\ w.enc.now \in Nat
  <2>1. InHand
    BY DEF InHand
  <2> QED
    BY <2>1, ThreadTypes DEF RecInv, RecTypeOK, WriterAt, Over, InStep
<1>1. /\ e \in Encoders /\ e.index = w.enc.index /\ e.first = w.enc.first /\ e.next = w.enc.next + 1
      /\ e.count = w.enc.count + 1 /\ e.now = IF w.rec.kind = "resize" THEN w.rec.size ELSE w.enc.now
    BY <1>0, EncodeMoves
<1> HIDE DEF e
<1>2. /\ w' \in Threads /\ w'.pc = "append" /\ w'.enc = e /\ w'.before = w.len /\ w'.len = w.len
      /\ w'.rec = w.rec /\ w'.last = w.last /\ w'.reason = "none"
    BY <1>0, <1>1 DEF Threads, WriterPcs, e
<1>3. w'.attempted /\ w'.unsynced = w.unsynced /\ w'.uncut = w.uncut
    BY <1>0 DEF Threads
<1>4. Ahead'
  <2>1. /\ Cur \in Segments /\ Len(Cur.recs) \in Nat /\ Cur.first \in Nat
    BY <1>0, DiskTypes, SegmentTypes DEF Level, RecInv
  <2>2. EndsAt(Cur, w.enc.now) /\ w'.enc.now = IF w'.rec.kind = "resize" THEN w'.rec.size ELSE w.enc.now
    BY <1>0, <1>1, <1>2 DEF Level
  <2>3. \E g \in Nat : EndsAt(Cur, g) /\ w'.enc.now = IF w'.rec.kind = "resize" THEN w'.rec.size ELSE g
    BY <1>0, <2>2
  <2>4. Cur' = Cur /\ CurEnd' = CurEnd
    BY DEF Cur, CurEnd
  <2>5. /\ disk # <<>> /\ Cur.linked /\ w'.enc.index = Len(disk) - 1 /\ w'.enc.first = Cur.first
        /\ w'.enc.next = CurEnd + 2 /\ w'.enc.count = Len(Cur.recs) + 1
        /\ q.appended = CurEnd /\ w'.before = Len(Cur.recs) + 1 /\ w'.len = w'.before
    BY <1>0, <1>1, <1>2, <2>1 DEF Level, CurEnd
  <2> QED
    BY <1>2, <1>3, <2>3, <2>4, <2>5 DEF Ahead, EndsAt
<1>5. WriterAt' /\ InHand' /\ ~Over'
    BY <1>0, <1>2, <1>3, <1>4 DEF WriterAt, InHand, Over
<1> QED
    BY <1>0, <1>2, <1>3, <1>5, WriterMoves

\* Writer::prepare.
LEMMA PrepareKeeps ==
    ASSUME RecInv, Prepare
    PROVE  RecInv'
<1> DEFINE rotate == w.len >= limits.segment /\ CanRotate(w.enc)
           enc == IF rotate THEN NextSegment(w.enc) ELSE w.enc
<1>0. w.pc = "prepare" /\ UNCHANGED <<producerVars, sequenced, q, disk, told, closing>>
    BY DEF Prepare
<1>1. Level /\ InHand /\ ~w.uncut /\ w.reason = "none"
  <2>1. InHand
    BY <1>0 DEF InHand
  <2> QED
    BY <1>0, <2>1 DEF RecInv, WriterAt, Over, InStep
<1>2. w' = CASE ~Encodes(enc, w.rec) -> Refused("write_failed")
             [] Encodes(enc, w.rec) /\ ~Fits(IF rotate THEN 2 ELSE 1) -> Refused("size_limit")
             [] OTHER -> IF rotate
                         THEN [w EXCEPT !.pc = "sync", !.then = "publish"]
                         ELSE [w EXCEPT !.pc = "append", !.enc = Encode(enc, w.rec),
                                        !.attempted = TRUE, !.before = w.len]
    BY DEF Prepare
<1>3. \/ w' = Refused("write_failed") \/ w' = Refused("size_limit")
      \/ rotate /\ w' = [w EXCEPT !.pc = "sync", !.then = "publish"]
      \/ w' = [w EXCEPT !.pc = "append", !.enc = Encode(w.enc, w.rec), !.attempted = TRUE,
                        !.before = w.len]
  <2> DEFINE A == ~Encodes(enc, w.rec)
             B == Encodes(enc, w.rec) /\ ~Fits(IF rotate THEN 2 ELSE 1)
  <2>1. CASE A
    <3>1. ~B
      BY <2>1
    <3> QED
      BY <1>2, <2>1, <3>1
  <2>2. CASE B
    <3>1. ~A
      BY <2>2
    <3> QED
      BY <1>2, <2>2, <3>1
  <2>3. CASE ~A /\ ~B
    BY <1>2, <2>3
  <2> QED
    BY <2>1, <2>2, <2>3
<1>4. CASE w' = Refused("write_failed") \/ w' = Refused("size_limit")
    BY <1>0, <1>1, <1>4, LevelEnds, RefusedKeeps DEF Reasons, Level
<1>5. CASE rotate /\ w' = [w EXCEPT !.pc = "sync", !.then = "publish"]
  <2>1. Kept /\ w'.pc = "sync" /\ w'.then = "publish" /\ w'.reason = "none"
    BY <1>1, <1>5, JumpKeeps DEF WriterPcs
  <2>2. Level' /\ Cur.recs # <<>> /\ Cur' = Cur
    <3>1. w.enc.count > 0 /\ w.enc.count = Len(Cur.recs) /\ Cur' = Cur
      BY <1>0, <1>1, <1>5 DEF CanRotate, Level, Cur
    <3> QED
      BY <1>0, <1>1, <2>1, <3>1, LevelAtEnd
  <2>3. WriterAt' /\ InHand' /\ ~Over'
    BY <1>1, <2>1, <2>2 DEF WriterAt, Kept, InHand, Over
  <2> QED
    BY <1>0, <1>1, <2>1, <2>3, WriterMoves DEF Kept
<1>6. CASE w' = [w EXCEPT !.pc = "append", !.enc = Encode(w.enc, w.rec), !.attempted = TRUE,
                          !.before = w.len]
    BY <1>0, <1>6, EncodedKeeps
<1> QED
    BY <1>3, <1>4, <1>5, <1>6

\* A stop by the writer with nothing left to do but the last sync.
LEMMA StoppingEnds ==
    ASSUME RecInv, NEW reason \in Reasons, Stop(reason), Kept, Over', AtEnd, q.done => w'.pc = "done",
           UNCHANGED <<producerVars, sequenced, disk, closing>>
    PROVE  RecInv'
<1>1. /\ size' = size /\ pty' = pty /\ resizing' = resizing /\ chunk' = chunk
      /\ resizing \in BOOLEAN /\ closing \in {"open", "closing", "closed"}
      /\ (chunk # Nothing => chunk.size \in Nat /\ chunk.size <= size)
      /\ (closing # "open" => ~q.accepting)
    BY DEF producerVars, RecInv, RecTypeOK, Sizes, Ends
<1>2. q'.appended = q.appended
    BY StopEffect
<1>3. AtEnd'
    BY <1>2 DEF AtEnd, Cur, CurEnd, Kept
<1>4. WriterAt' /\ ~InHand'
    BY <1>3 DEF WriterAt, InHand, Over
<1> QED
    BY <1>1, <1>4, StopKeeps DEF Kept

\* Segment 0 is not there, or not taken over, or the next one is not: the files end with
\* the appends.
LEMMA PublishingEnds ==
    ASSUME RecInv, w.pc \in {"publish", "published"}
    PROVE  AtEnd /\ ~w.uncut /\ (w.rec # Nothing => disk # <<>> /\ InHand)
<1>1. RecTypeOK /\ WriterAt
    BY DEF RecInv
<1>2. ~w.uncut
    BY <1>1 DEF WriterAt, Over
<1>3. CASE w.rec = Nothing
  <2>1. CASE w.pc = "publish"
    BY <1>1, <1>2, <1>3, <2>1 DEF WriterAt, AtEnd
  <2>2. CASE w.pc = "published"
    <3>1. q.appended = 0 /\ Cur.first = 1 /\ Cur.recs = <<>> /\ ~Cur.torn
      BY <1>1, <1>3, <2>2 DEF WriterAt, Blank, FirstUp
    <3> QED
      BY <1>2, <1>3, <3>1 DEF AtEnd, CurEnd
  <2> QED
    BY <2>1, <2>2
<1>4. CASE w.rec # Nothing
  <2>1. CASE w.pc = "publish"
    BY <1>1, <1>2, <1>4, <2>1, LevelEnds DEF WriterAt, Level, InHand
  <2>2. CASE w.pc = "published"
    <3>1. /\ disk # <<>> /\ Cur.first = w.enc.next /\ q.appended + 1 = w.enc.next /\ Cur.recs = <<>>
          /\ ~Cur.torn
      BY <1>1, <1>4, <2>2 DEF WriterAt, NextUp
    <3>2. q.appended \in Nat /\ w.enc.next \in Nat
      BY <1>1, QueueTypes, ThreadTypes
    <3>3. CurEnd = q.appended
      BY <3>1, <3>2 DEF CurEnd
    <3> QED
      BY <1>2, <1>4, <2>2, <3>1, <3>2, <3>3 DEF AtEnd, InHand
  <2> QED
    BY <2>1, <2>2
<1> QED
    BY <1>2, <1>3, <1>4

\* Writer::publish refuses, or fails.
LEMMA PublishFailsKeeps ==
    ASSUME RecInv, PublishRefused \/ PublishFails
    PROVE  RecInv'
<1>1. /\ w.pc \in {"publish", "published"} /\ UNCHANGED <<producerVars, sequenced, disk, closing>>
      /\ \/ \E reason \in {"size_limit", "write_failed"} : WriterStops(reason, "done")
         \/ w.rec # Nothing /\ w' = Refused("write_failed") /\ UNCHANGED <<q, told>>
    BY DEF PublishRefused, PublishFails, PublishFailed
<1>2. AtEnd /\ ~w.uncut /\ (w.rec # Nothing => disk # <<>> /\ InHand)
    BY <1>1, PublishingEnds
<1>3. CASE \E reason \in {"size_limit", "write_failed"} : WriterStops(reason, "done")
  <2> PICK reason \in {"size_limit", "write_failed"} : WriterStops(reason, "done")
    BY <1>3
  <2>1. Stop(reason) /\ w' = [w EXCEPT !.pc = "done"] /\ reason \in Reasons
    BY DEF WriterStops, Reasons
  <2>2. Kept /\ w'.pc = "done"
    BY <2>1, StepKeeps DEF WriterPcs
  <2>3. Over'
    BY <2>2 DEF Over
  <2> QED
    BY <1>1, <1>2, <2>1, <2>2, <2>3, StoppingEnds
<1>4. CASE w.rec # Nothing /\ w' = Refused("write_failed") /\ UNCHANGED <<q, told>>
    BY <1>1, <1>2, <1>4, RefusedKeeps DEF Reasons
<1> QED
    BY <1>1, <1>3, <1>4

\* The header of a segment that is published.
LEMMA PublishedTypes ==
    ASSUME RecInv
    PROVE  LET e == NextSegment(w.enc)
           IN  /\ e \in Encoders /\ e.index = w.enc.index + 1 /\ e.first = w.enc.next /\ e.next = w.enc.next
               /\ e.geometry = w.enc.now /\ e.now = w.enc.now /\ e.count = 0
BY ThreadTypes DEF RecInv, NextSegment, Encoder, Encoders

\* A file as it is renamed into place.
LEMMA SegmentFields ==
    ASSUME NEW e \in Encoders
    PROVE  LET s == Segment(e)
           IN  /\ s \in Segments /\ s.index = e.index /\ s.first = e.first /\ s.geometry = e.geometry
               /\ s.recs = <<>> /\ ~s.torn /\ s.durable = 0 /\ ~s.linked
BY DEF Segment, Encoders, Segments

\* What is published is segment 0, or it continues the last segment, which is whole.
LEMMA PublishedContinues ==
    ASSUME RecInv, w.pc = "publish"
    PROVE  /\ ToPublish \in Encoders /\ ToPublish.index = Len(disk)
           /\ disk = <<>> => ToPublish.first = 1 /\ ToPublish.geometry = 0
           /\ disk # <<>> => /\ ToPublish.first = Cur.first + Len(Cur.recs)
                             /\ EndsAt(Cur, ToPublish.geometry) /\ Whole(Len(disk))
           /\ w.rec = Nothing <=> disk = <<>>
           /\ q.synced <= ToPublish.first - 1
           /\ w.rec # Nothing => /\ ToPublish.first = w.enc.next /\ q.appended + 1 = w.enc.next
                                 /\ ToPublish.geometry = w.enc.now /\ w.enc.index + 1 = Len(disk)
           /\ ~w.unsynced
<1>0. RecTypeOK /\ WriterAt /\ LastSegment /\ w.enc \in Encoders /\ q.synced \in Nat
    BY QueueTypes, ThreadTypes DEF RecInv
<1>1. CASE w.rec = Nothing
  <2>1. ToPublish = Encoder(0, 1, 0) /\ disk = <<>> /\ w.enc \in Encoders /\ ~w.unsynced
    BY <1>0, <1>1 DEF ToPublish, WriterAt, Blank
  <2>2. ToPublish.index = 0 /\ ToPublish.first = 1 /\ ToPublish.geometry = 0
    BY <2>1 DEF Encoder
  <2>3. ToPublish \in Encoders /\ q.synced = 0 /\ Len(disk) = 0
    BY <1>0, <1>1, <2>1 DEF ToPublish, LastSegment
  <2> QED
    BY <1>1, <2>1, <2>2, <2>3
<1>2. CASE w.rec # Nothing
  <2>1. /\ Level /\ ~w.unsynced /\ Cur.recs # <<>> /\ Cur.durable = Len(Cur.recs)
    BY <1>0, <1>2 DEF WriterAt
  <2>2. /\ ToPublish \in Encoders /\ ToPublish.index = w.enc.index + 1 /\ ToPublish.first = w.enc.next
        /\ ToPublish.geometry = w.enc.now
    BY <1>2, PublishedTypes DEF ToPublish
  <2>3. Cur \in Segments /\ Len(Cur.recs) \in Nat /\ Cur.first \in Nat /\ Len(disk) \in Nat
    BY <1>0, <2>1, DiskTypes, SegmentTypes DEF Level
  <2>4. ToPublish.index = Len(disk) /\ w.enc.index + 1 = Len(disk) /\ q.appended + 1 = w.enc.next
    BY <1>0, <2>1, <2>2, <2>3, ThreadTypes DEF Level, CurEnd
  <2>5. ToPublish.first = Cur.first + Len(Cur.recs) /\ q.synced <= ToPublish.first - 1
    BY <1>0, <2>1, <2>2, <2>3 DEF Level, CurEnd, LastSegment
  <2>6. Whole(Len(disk)) /\ EndsAt(Cur, ToPublish.geometry) /\ disk # <<>>
    BY <2>1, <2>2 DEF Whole, Level, Cur
  <2> QED
    BY <1>2, <2>1, <2>2, <2>4, <2>5, <2>6
<1> QED
    BY <1>1, <1>2

\* A segment more: the ones before it stay.
LEMMA AppendSegment ==
    ASSUME RecTypeOK, NEW s \in Segments, disk' = Append(disk, s)
    PROVE  /\ disk' \in Seq(Segments) /\ Len(disk') = Len(disk) + 1 /\ disk' # <<>>
           /\ \A k \in 1..Len(disk) : disk'[k] = disk[k]
           /\ disk'[Len(disk) + 1] = s /\ Cur' = s
<1>1. disk \in Seq(Segments) /\ Len(disk) \in Nat
    BY DEF RecTypeOK
<1>2. disk' \in Seq(Segments) /\ Len(disk') = Len(disk) + 1 /\ disk'[Len(disk) + 1] = s
    BY <1>1
<1>3. \A k \in 1..Len(disk) : disk'[k] = disk[k]
    BY <1>1
<1>4. disk' # <<>> /\ Cur' = disk'[Len(disk')]
    BY <1>1, <1>2 DEF Cur
<1> QED
    BY <1>2, <1>3, <1>4

\* An empty segment that continues the last one, which is whole.
LEMMA SegmentChained ==
    ASSUME RecInv, NEW n \in Nat, n = Len(disk), NEW s \in Segments, disk' = Append(disk, s),
           sequenced' = sequenced, s.index = n, s.recs = <<>>, n = 0 => s.first = 1,
           n > 0 => s.first = Cur.first + Len(Cur.recs) /\ EndsAt(Cur, s.geometry) /\ Whole(n)
    PROVE  Chained'
<1>1. RecTypeOK /\ Chained
    BY DEF RecInv
<1>2. Len(disk') = n + 1 /\ (\A k \in 1..n : disk'[k] = disk[k]) /\ disk'[n + 1] = s
    BY <1>1, AppendSegment
<1>3. ASSUME NEW k \in 1..n PROVE Chain(k)'
  <2>1. Chain(k) /\ disk'[k] = disk[k] /\ (k > 1 => disk'[k - 1] = disk[k - 1])
    BY <1>1, <1>2 DEF Chained
  <2> QED
    BY <2>1 DEF Chain, EndsAt
<1>4. Chain(n + 1)'
  <2>1. /\ disk'[n + 1].index = (n + 1) - 1 /\ DOMAIN disk'[n + 1].recs = {}
        /\ (n + 1 = 1 => disk'[n + 1].first = 1)
    BY <1>2
  <2>2. n + 1 > 1 => /\ disk'[n + 1].first = disk'[(n + 1) - 1].first + Len(disk'[(n + 1) - 1].recs)
                     /\ EndsAt(disk'[(n + 1) - 1], disk'[n + 1].geometry)
    <3> SUFFICES ASSUME n > 0
                 PROVE  /\ disk'[n + 1].first = disk'[n].first + Len(disk'[n].recs)
                        /\ EndsAt(disk'[n], disk'[n + 1].geometry)
      OBVIOUS
    <3>1. disk'[n] = Cur
      BY <1>2 DEF Cur
    <3> QED
      BY <1>2, <3>1
  <2> QED
    BY <2>1, <2>2 DEF Chain, EndsAt
<1>5. ASSUME NEW k \in 1..n PROVE Whole(k)'
  <2>1. CASE k = n
    BY <1>2, <2>1 DEF Whole
  <2>2. CASE k < n
    BY <1>1, <1>2, <2>2 DEF Chained, Whole
  <2> QED
    BY <2>1, <2>2
<1>6. \A k \in 1..(n + 1) : Chain(k)' /\ (k < n + 1 => Whole(k)')
  <2> TAKE k \in 1..(n + 1)
  <2>1. k \in 1..n \/ k = n + 1
    OBVIOUS
  <2> QED
    BY <1>3, <1>4, <1>5, <2>1
<1> QED
    BY <1>2, <1>6 DEF Chained

\* DirectoryStore::publish up to the rename: the new segment continues the last one.
LEMMA RenamedChained ==
    ASSUME RecInv, PublishRenames
    PROVE  Chained' /\ LastSegment'
<1> DEFINE s == Segment(ToPublish)
<1>1. w.pc = "publish" /\ disk' = Append(disk, s) /\ UNCHANGED <<sequenced, q>>
    BY DEF PublishRenames
<1>2. /\ ToPublish \in Encoders /\ ToPublish.index = Len(disk)
      /\ disk = <<>> => ToPublish.first = 1
      /\ disk # <<>> => /\ ToPublish.first = Cur.first + Len(Cur.recs)
                        /\ EndsAt(Cur, ToPublish.geometry) /\ Whole(Len(disk))
      /\ q.synced <= ToPublish.first - 1
    BY <1>1, PublishedContinues
<1>3. /\ s \in Segments /\ s.index = ToPublish.index /\ s.first = ToPublish.first
      /\ s.geometry = ToPublish.geometry /\ s.recs = <<>> /\ s.durable = 0
    BY <1>2, SegmentFields
<1>4. RecTypeOK /\ Len(disk) \in Nat /\ (disk # <<>> <=> Len(disk) > 0)
    BY DiskTypes DEF RecInv
<1> HIDE DEF s
<1>5. Chained'
    BY <1>1, <1>2, <1>3, <1>4, SegmentChained
<1>6. disk' # <<>> /\ Cur' = s
    BY <1>1, <1>3, <1>4, AppendSegment
<1>7. LastSegment'
  <2>1. s.first \in Nat /\ Len(s.recs) = 0 /\ s.first + s.durable - 1 = s.first - 1
    BY <1>3, SegmentTypes
  <2> QED
    BY <1>1, <1>2, <1>3, <1>6, <2>1 DEF LastSegment
<1> QED
    BY <1>5, <1>7

\* The segment is there, and not taken over yet.
LEMMA PublishRenamesKeeps ==
    ASSUME RecInv, PublishRenames
    PROVE  RecInv'
<1> DEFINE s == Segment(ToPublish)
<1>0. RecTypeOK /\ Numbered /\ InStep /\ WriterAt /\ Len(disk) \in Nat
    BY DiskTypes DEF RecInv
<1>1. /\ w.pc = "publish" /\ disk' = Append(disk, s) /\ w' = [w EXCEPT !.pc = "published"]
      /\ UNCHANGED <<producerVars, sequenced, q, told, closing>>
    BY DEF PublishRenames
<1>2. /\ ToPublish \in Encoders
      /\ disk = <<>> => ToPublish.first = 1 /\ ToPublish.geometry = 0
      /\ w.rec = Nothing <=> disk = <<>>
      /\ w.rec # Nothing => /\ ToPublish.first = w.enc.next /\ q.appended + 1 = w.enc.next
                            /\ ToPublish.geometry = w.enc.now /\ w.enc.index + 1 = Len(disk)
      /\ ~w.unsynced
    BY <1>1, PublishedContinues
<1>3. /\ s \in Segments /\ s.first = ToPublish.first /\ s.geometry = ToPublish.geometry
      /\ s.recs = <<>> /\ ~s.torn /\ s.durable = 0
    BY <1>2, SegmentFields
<1> HIDE DEF s
<1>4. disk' \in Seq(Segments) /\ Len(disk') = Len(disk) + 1 /\ disk' # <<>> /\ Cur' = s
    BY <1>0, <1>1, <1>3, AppendSegment
<1>5. Kept /\ w'.pc = "published" /\ w'.then = w.then /\ w'.reason = w.reason
    BY <1>1, StepKeeps DEF WriterPcs
<1>6. ~w.uncut /\ (w.rec = Nothing => Blank)
    BY <1>0, <1>1 DEF WriterAt, Over
<1>7. WriterAt'
  <2>1. w'.rec = Nothing => Blank' /\ FirstUp'
    BY <1>1, <1>2, <1>3, <1>4, <1>5, <1>6 DEF Blank, FirstUp, Kept, Encoder
  <2>2. w'.rec # Nothing => NextUp'
    <3> SUFFICES ASSUME w.rec # Nothing PROVE NextUp'
      BY <1>5 DEF Kept
    <3>1. DOMAIN s.recs = {} /\ s.geometry = w.enc.now
      BY <1>2, <1>3
    <3>2. EndsAt(s, w.enc.now)
      BY <3>1 DEF EndsAt
    <3>3. EndsAt(Cur, w.enc.now)'
      BY <1>4, <1>5, <3>2 DEF EndsAt, Kept
    <3>4. w.enc.index + 2 = Len(disk')
      <4>1. w.enc.index \in Nat /\ w.enc.index + 1 = Len(disk)
        BY <1>0, <1>2, ThreadTypes
      <4> QED
        BY <1>4, <4>1
    <3> QED
      BY <1>1, <1>2, <1>3, <1>4, <1>5, <3>3, <3>4 DEF NextUp, Kept
  <2> QED
    BY <1>2, <1>3, <1>4, <1>5, <1>6, <2>1, <2>2 DEF WriterAt, Over, Kept
<1>8. (InHand' <=> InHand) /\ ~Over'
    BY <1>1, <1>5 DEF InHand, Over, Kept
<1>9. Numbered'
    BY <1>0, <1>1 DEF Numbered
<1>10. InStep'
    BY <1>0, <1>1, <1>5, <1>8 DEF InStep, Kept
<1> QED
    BY <1>0, <1>1, <1>4, <1>5, <1>7, <1>9, <1>10, RenamedChained, StorageKeeps DEF Kept, RecTypeOK

\* The last segment changes, under the same header and with records under their numbers.
LEMMA LastChained ==
    ASSUME RecInv, disk # <<>>, NEW s \in Segments, OnLast(s), sequenced' = sequenced,
           s.index = Cur.index, s.first = Cur.first, s.geometry = Cur.geometry,
           \A i \in DOMAIN s.recs : /\ s.first + i - 1 \in DOMAIN sequenced
                                    /\ s.recs[i] = sequenced[s.first + i - 1]
    PROVE  Chained'
<1> SUFFICES ASSUME NEW n \in Nat, n = Len(disk) PROVE Chained'
    BY DiskTypes DEF RecInv
<1>1. RecTypeOK /\ Chained /\ n > 0
    BY DiskTypes DEF RecInv
<1>2. Len(disk') = n /\ disk'[n] = s /\ disk[n] = Cur /\ \A k \in 1..n : k < n => disk'[k] = disk[k]
    BY <1>1, OnLastMoves DEF Cur
<1>3. ASSUME NEW k \in 1..n PROVE Chain(k)' /\ (k < n => Whole(k)')
  <2>1. Chain(k) /\ (k < n => Whole(k)) /\ (k > 1 => disk'[k - 1] = disk[k - 1])
    BY <1>1, <1>2 DEF Chained
  <2>2. CASE k < n
    BY <1>2, <2>1, <2>2, SMTT(30) DEF Chain, Whole, EndsAt
  <2>3. CASE k = n
    <3>1. /\ disk'[k].index = k - 1 /\ (k = 1 => disk'[k].first = 1)
          /\ k > 1 => /\ disk'[k].first = disk'[k - 1].first + Len(disk'[k - 1].recs)
                      /\ EndsAt(disk'[k - 1], disk'[k].geometry)
      BY <1>2, <2>1, <2>3 DEF Chain
    <3>2. \A i \in DOMAIN disk'[k].recs : /\ disk'[k].first + i - 1 \in DOMAIN sequenced'
                                          /\ disk'[k].recs[i] = sequenced'[disk'[k].first + i - 1]
      BY <1>2, <2>3
    <3> QED
      BY <2>3, <3>1, <3>2 DEF Chain, EndsAt
  <2> QED
    BY <2>2, <2>3
<1> QED
    BY <1>2, <1>3 DEF Chained

\* The last segment's records are under their numbers.
LEMMA CurChained ==
    ASSUME RecInv, disk # <<>>
    PROVE  \A i \in DOMAIN Cur.recs : /\ Cur.first + i - 1 \in DOMAIN sequenced
                                      /\ Cur.recs[i] = sequenced[Cur.first + i - 1]
<1>1. Len(disk) \in 1..Len(disk)
    BY DiskTypes DEF RecInv
<1> QED
    BY <1>1 DEF RecInv, Chained, Chain, Cur

\* The same, where the records stay.
LEMMA LastSameRecs ==
    ASSUME RecInv, disk # <<>>, NEW s \in Segments, OnLast(s), sequenced' = sequenced,
           s.index = Cur.index, s.first = Cur.first, s.geometry = Cur.geometry, s.recs = Cur.recs
    PROVE  Chained'
BY CurChained, LastChained

\* The directory is synced: the segment is taken over.
LEMMA LinkKeeps ==
    ASSUME RecInv, PublishSyncs
    PROVE  /\ Chained' /\ LastSegment' /\ disk' \in Seq(Segments) /\ Len(disk') = Len(disk) /\ disk' # <<>>
           /\ Cur'.first = Cur.first /\ Cur'.geometry = Cur.geometry /\ Cur'.recs = <<>>
           /\ ~Cur'.torn /\ Cur'.linked /\ Cur'.durable = 0 /\ Len(Cur'.recs) = 0
           /\ q' \in Queues /\ q'.backlog = q.backlog /\ q'.stopped = q.stopped
           /\ q'.appended = q.appended /\ q'.synced = q.synced
           /\ q'.accepting = q.accepting /\ q'.done = q.done
<1> DEFINE s == [Cur EXCEPT !.linked = TRUE]
<1>0. /\ RecTypeOK /\ LastSegment /\ w.pc = "published" /\ q \in Queues /\ sequenced' = sequenced
      /\ disk # <<>> /\ Cur.recs = <<>> /\ ~Cur.torn /\ Cur.durable = 0 /\ w.enc \in Encoders
    BY ThreadTypes DEF PublishSyncs, RecInv, WriterAt, RecTypeOK
<1>1. Cur \in Segments /\ Cur.torn \in BOOLEAN
    BY <1>0, DiskTypes, SegmentTypes
<1>2. OnLast(s)
    BY DEF PublishSyncs, Last, Cur
<1>3. /\ s \in Segments /\ s.index = Cur.index /\ s.first = Cur.first /\ s.geometry = Cur.geometry
      /\ s.recs = Cur.recs /\ s.durable = Cur.durable
    BY <1>1 DEF Segments
<1>4. s.torn = Cur.torn /\ s.linked
    BY <1>1 DEF Segments
<1> HIDE DEF s
<1>5. disk' \in Seq(Segments) /\ Len(disk') = Len(disk) /\ disk' # <<>> /\ Cur' = s
    BY <1>0, <1>2, <1>3, OnLastMoves
<1>6. Chained'
    BY <1>0, <1>2, <1>3, LastSameRecs
<1>7. ToPublish.index + 1 \in Nat
    BY <1>0, PublishedTypes, ThreadTypes DEF ToPublish, Encoders
<1>8. q' = [q EXCEPT !.segments = ToPublish.index + 1]
    BY DEF PublishSyncs
<1>9. /\ q' \in Queues /\ q'.backlog = q.backlog /\ q'.stopped = q.stopped
      /\ q'.appended = q.appended /\ q'.synced = q.synced
    BY <1>0, <1>7, <1>8 DEF Queues
<1>10. q'.accepting = q.accepting /\ q'.done = q.done
    BY <1>0, <1>8 DEF Queues
<1>11. LastSegment'
    BY <1>0, <1>3, <1>4, <1>5, <1>9 DEF LastSegment
<1> QED
    BY <1>0, <1>3, <1>4, <1>5, <1>6, <1>9, <1>10, <1>11

\* Segment 0 is taken over.
LEMMA FirstTakenOver ==
    ASSUME RecInv, PublishSyncs, w.rec = Nothing
    PROVE  /\ w' \in Threads /\ w'.last = w.last /\ w'.unsynced = w.unsynced
           /\ w'.pc = "take" /\ Level' /\ w'.uncut = w.uncut
<1>0. w \in Threads /\ w.pc = "published" /\ Blank /\ FirstUp /\ w.len \in Nat /\ w.total \in Int
    BY ThreadTypes DEF PublishSyncs, RecInv, RecTypeOK, WriterAt
<1>1. w' = [w EXCEPT !.pc = "take", !.len = 1, !.total = w.total + 1] /\ w.total + 1 \in Int
    BY <1>0 DEF PublishSyncs
<1>2. w' \in Threads /\ w'.last = w.last /\ w'.pc = "take" /\ w'.enc = w.enc /\ w'.len = 1
    BY <1>0, <1>1 DEF Threads, WriterPcs
<1>3. w'.unsynced = w.unsynced /\ w'.uncut = w.uncut
    BY <1>0, <1>1 DEF Threads
<1>4. /\ Len(disk') = 1 /\ disk' # <<>>
      /\ Cur'.first = 1 /\ Cur'.geometry = 0 /\ DOMAIN Cur'.recs = {} /\ Len(Cur'.recs) = 0
      /\ ~Cur'.torn /\ Cur'.linked /\ Cur'.durable = 0 /\ q'.appended = 0
    BY <1>0, LinkKeeps DEF FirstUp, Blank
<1>5. /\ w'.enc.index = 0 /\ w'.enc.first = 1 /\ w'.enc.next = 1 /\ w'.enc.count = 0 /\ w'.enc.now = 0
    BY <1>0, <1>2 DEF Blank, Encoder
<1>6. EndsAt(Cur', 0)
    BY <1>4 DEF EndsAt
<1>7. EndsAt(Cur, w.enc.now)'
    BY <1>5, <1>6 DEF EndsAt
<1>8. CurEnd' = 0
    BY <1>4 DEF CurEnd
<1>9. Level'
    BY <1>2, <1>4, <1>5, <1>7, <1>8 DEF Level
<1> QED
    BY <1>2, <1>3, <1>9

\* The segment after a full one is taken over, and the record in hand encoded for it.
LEMMA NextTakenOver ==
    ASSUME RecInv, PublishSyncs, w.rec # Nothing
    PROVE  /\ w' \in Threads /\ w'.last = w.last /\ w'.unsynced = w.unsynced
           /\ w'.pc = "append" /\ w'.rec = w.rec /\ Ahead' /\ w'.uncut = w.uncut
<1> DEFINE d == NextSegment(w.enc)
           e == Encode(d, w.rec)
<1>0. /\ w \in Threads /\ w.pc = "published" /\ NextUp /\ w.len \in Nat /\ w.total \in Int /\ w.rec \in Recs
      /\ w.reason = "none" /\ Cur.recs = <<>>
  <2>1. w.pc = "published"
    BY DEF PublishSyncs
  <2>2. InHand
    BY <2>1 DEF InHand
  <2> QED
    BY <2>1, <2>2, ThreadTypes DEF RecInv, RecTypeOK, WriterAt, InStep
<1>1. /\ w' = [w EXCEPT !.pc = "append", !.enc = e, !.len = 1, !.total = w.total + 1, !.attempted = TRUE,
                        !.before = 1]
      /\ w.total + 1 \in Int
    BY <1>0 DEF PublishSyncs, ToPublish
<1>2. /\ d \in Encoders /\ d.index = w.enc.index + 1 /\ d.first = w.enc.next /\ d.next = w.enc.next
      /\ d.now = w.enc.now /\ d.count = 0
    BY PublishedTypes
<1> HIDE DEF d
<1>3. /\ e \in Encoders /\ e.index = d.index /\ e.first = d.first /\ e.next = d.next + 1
      /\ e.count = d.count + 1 /\ e.now = IF w.rec.kind = "resize" THEN w.rec.size ELSE d.now
    BY <1>0, <1>2, EncodeMoves
<1> HIDE DEF e
<1>4. /\ w' \in Threads /\ w'.last = w.last /\ w'.pc = "append" /\ w'.enc = e /\ w'.len = 1
      /\ w'.before = 1 /\ w'.rec = w.rec /\ w'.reason = "none"
    BY <1>0, <1>1, <1>3 DEF Threads, WriterPcs
<1>5. w'.unsynced = w.unsynced /\ w'.uncut = w.uncut /\ w'.attempted
    BY <1>0, <1>1 DEF Threads
<1>6. /\ Len(disk') = Len(disk) /\ disk' # <<>>
      /\ Cur'.first = Cur.first /\ Cur'.geometry = Cur.geometry /\ Cur'.recs = <<>> /\ Len(Cur'.recs) = 0
      /\ Cur'.linked /\ q'.appended = q.appended
    BY LinkKeeps
<1>7. /\ w.enc.next \in Nat /\ w.enc.index \in Nat /\ q.appended \in Nat /\ w.enc.now \in Nat
      /\ Len(disk) \in Nat
    BY ThreadTypes, QueueTypes, DiskTypes DEF RecInv
<1>8. /\ Cur.first = w.enc.next /\ q.appended + 1 = w.enc.next /\ w.enc.index + 2 = Len(disk)
      /\ EndsAt(Cur, w.enc.now)
    BY <1>0 DEF NextUp
<1>9. CurEnd' = q.appended /\ q.appended + 2 = w.enc.next + 1
  <2>1. CurEnd' = Cur'.first + Len(Cur'.recs) - 1
    BY DEF CurEnd
  <2> QED
    BY <1>6, <1>7, <1>8, <2>1, SMTT(30)
<1>10. EndsAt(Cur', w.enc.now)
    BY <1>0, <1>6, <1>8, EndsAtSame
<1>11. e.index = Len(disk') - 1 /\ e.first = Cur'.first /\ e.next = q.appended + 2 /\ e.count = 1
    BY <1>2, <1>3, <1>6, <1>7, <1>8, <1>9, SMTT(30)
<1>12. \E g \in Nat : EndsAt(Cur', g) /\ w'.enc.now = IF w'.rec.kind = "resize" THEN w'.rec.size ELSE g
    BY <1>2, <1>3, <1>4, <1>7, <1>10
<1>13. Ahead'
    BY <1>4, <1>5, <1>6, <1>9, <1>11, <1>12 DEF Ahead, EndsAt
<1> QED
    BY <1>4, <1>5, <1>13

\* Writer::publish after the directory sync.
LEMMA PublishSyncsKeeps ==
    ASSUME RecInv, PublishSyncs
    PROVE  RecInv'
<1>0. /\ RecTypeOK /\ Numbered /\ InStep /\ WriterAt /\ w.pc = "published" /\ ~w.uncut
      /\ UNCHANGED <<producerVars, sequenced, told, closing>>
    BY DEF PublishSyncs, RecInv, WriterAt, Over
<1>1. /\ Chained' /\ LastSegment' /\ disk' \in Seq(Segments)
      /\ q' \in Queues /\ q'.backlog = q.backlog /\ q'.stopped = q.stopped
      /\ q'.appended = q.appended /\ q'.synced = q.synced
      /\ q'.accepting = q.accepting /\ q'.done = q.done
    BY LinkKeeps
<1>2. Numbered'
    BY <1>0, <1>1 DEF Numbered
<1>3. CASE w.rec = Nothing
  <2>1. /\ w' \in Threads /\ w'.last = w.last /\ w'.unsynced = w.unsynced
        /\ w'.pc = "take" /\ Level' /\ w'.uncut = w.uncut
    BY <1>3, FirstTakenOver
  <2>2. ~InHand /\ ~InHand' /\ ~Over'
    BY <1>0, <1>3, <2>1 DEF InHand, Over
  <2>3. InStep'
    BY <1>0, <1>1, <2>1, <2>2 DEF InStep
  <2>4. WriterAt'
    BY <1>0, <2>1, LevelWriterAt
  <2> QED
    BY <1>0, <1>1, <1>2, <2>1, <2>3, <2>4, StorageKeeps
<1>4. CASE w.rec # Nothing
  <2>1. /\ w' \in Threads /\ w'.last = w.last /\ w'.unsynced = w.unsynced
        /\ w'.pc = "append" /\ w'.rec = w.rec /\ Ahead' /\ w'.uncut = w.uncut
    BY <1>4, NextTakenOver
  <2>2. InHand /\ InHand' /\ ~Over' /\ w'.reason = "none"
    BY <1>0, <1>4, <2>1 DEF InHand, Over, Ahead
  <2>3. InStep'
    BY <1>0, <1>1, <2>1, <2>2 DEF InStep
  <2>4. WriterAt'
    BY <1>0, <2>1, <2>2 DEF WriterAt
  <2> QED
    BY <1>0, <1>1, <1>2, <2>1, <2>3, <2>4, StorageKeeps
<1> QED
    BY <1>3, <1>4

\* The first part of an append: the file ends in a piece of the record.
LEMMA AppendPartKeeps ==
    ASSUME RecInv, AppendPart
    PROVE  RecInv'
<1> DEFINE s == [Cur EXCEPT !.torn = TRUE]
<1>0. /\ RecTypeOK /\ Numbered /\ InStep /\ LastSegment /\ WriterAt /\ w.pc = "append" /\ ~w.uncut /\ Ahead
      /\ UNCHANGED <<producerVars, sequenced, q, w, told, closing>> /\ OnLast(s)
    BY DEF AppendPart, RecInv, WriterAt, Over, Last, Cur
<1>1. disk # <<>> /\ Cur \in Segments
    BY <1>0, DiskTypes DEF Ahead
<1>2. /\ s \in Segments /\ s.index = Cur.index /\ s.first = Cur.first /\ s.geometry = Cur.geometry
      /\ s.recs = Cur.recs /\ s.durable = Cur.durable
    BY <1>1 DEF Segments
<1>3. s.linked = Cur.linked
    BY <1>1 DEF Segments
<1> HIDE DEF s
<1>4. disk' \in Seq(Segments) /\ Len(disk') = Len(disk) /\ disk' # <<>> /\ Cur' = s
    BY <1>0, <1>1, <1>2, OnLastMoves
<1>5. Chained'
    BY <1>0, <1>1, <1>2, LastSameRecs
<1>6. LastSegment'
    BY <1>0, <1>1, <1>2, <1>3, <1>4 DEF LastSegment
<1>7. Ahead'
  <2>1. CurEnd' = CurEnd
    BY <1>2, <1>4 DEF CurEnd
  <2>2. PICK g \in Nat : EndsAt(Cur, g) /\ w.enc.now = IF w.rec.kind = "resize" THEN w.rec.size ELSE g
    BY <1>0 DEF Ahead
  <2>3. EndsAt(Cur', g)
    BY <1>2, <1>4, <2>2, EndsAtSame
  <2>4. \E h \in Nat : EndsAt(Cur', h) /\ w'.enc.now = IF w'.rec.kind = "resize" THEN w'.rec.size ELSE h
    BY <1>0, <2>2, <2>3
  <2> QED
    BY <1>0, <1>2, <1>3, <1>4, <2>1, <2>4 DEF Ahead, EndsAt
<1>8. WriterAt' /\ (InHand' <=> InHand) /\ ~Over'
    BY <1>0, <1>7 DEF WriterAt, InHand, Over, Ahead
<1>9. Numbered'
    BY <1>0 DEF Numbered
<1>10. InStep'
    BY <1>0, <1>8 DEF InStep
<1> QED
    BY <1>0, <1>4, <1>5, <1>6, <1>8, <1>9, <1>10, StorageKeeps DEF RecTypeOK

\* The rest of it: the record is in the file, under its number.
LEMMA AppendRestFile ==
    ASSUME RecInv, AppendRest
    PROVE  /\ Chained' /\ disk' \in Seq(Segments) /\ Len(disk') = Len(disk) /\ disk' # <<>>
           /\ Cur' \in Segments /\ Cur'.first = Cur.first /\ Cur'.geometry = Cur.geometry
           /\ Cur'.recs = Append(Cur.recs, w.rec) /\ Len(Cur'.recs) = Len(Cur.recs) + 1
           /\ Cur'.durable = Cur.durable /\ ~Cur'.torn /\ Cur'.linked = Cur.linked
           /\ EndsAt(Cur', w.enc.now)
<1> DEFINE r == Append(Cur.recs, w.rec)
           s == [Cur EXCEPT !.torn = FALSE, !.recs = r]
<1>0. /\ RecTypeOK /\ InStep /\ w.pc = "append" /\ Ahead /\ sequenced' = sequenced
    BY DEF AppendRest, RecInv, WriterAt
<1>1. disk # <<>> /\ Cur \in Segments /\ Cur.recs \in Seq(Recs) /\ Cur.first \in Nat /\ Len(Cur.recs) \in Nat
    BY <1>0, DiskTypes, SegmentTypes DEF Ahead
<1>2. InHand
    BY <1>0 DEF InHand
<1>3. w.rec \in Recs /\ q.appended + 1 \in DOMAIN sequenced /\ w.rec = sequenced[q.appended + 1]
    BY <1>0, <1>2, ThreadTypes DEF InStep
<1>4. /\ r \in Seq(Recs) /\ Len(r) = Len(Cur.recs) + 1 /\ r[Len(Cur.recs) + 1] = w.rec
      /\ \A i \in 1..Len(Cur.recs) : r[i] = Cur.recs[i]
    BY <1>1, <1>3
<1>5. OnLast(s)
    BY <1>1 DEF AppendRest, Last, Cur, Segments
<1> HIDE DEF r
<1>6. /\ s \in Segments /\ s.index = Cur.index /\ s.first = Cur.first /\ s.geometry = Cur.geometry
      /\ s.recs = r /\ s.durable = Cur.durable
    BY <1>1, <1>4 DEF Segments
<1>7. ~s.torn /\ s.linked = Cur.linked
    BY <1>1 DEF Segments
<1> HIDE DEF s
<1>8. disk' \in Seq(Segments) /\ Len(disk') = Len(disk) /\ disk' # <<>> /\ Cur' = s
    BY <1>0, <1>1, <1>5, <1>6, OnLastMoves
<1>9. \A i \in DOMAIN s.recs : /\ s.first + i - 1 \in DOMAIN sequenced
                               /\ s.recs[i] = sequenced[s.first + i - 1]
  <2>1. DOMAIN s.recs = 1..(Len(Cur.recs) + 1) /\ DOMAIN Cur.recs = 1..Len(Cur.recs)
    BY <1>1, <1>4, <1>6
  <2>2. q.appended + 1 = Cur.first + (Len(Cur.recs) + 1) - 1
    BY <1>0, <1>1 DEF Ahead, CurEnd
  <2> SUFFICES ASSUME NEW i \in 1..(Len(Cur.recs) + 1)
               PROVE  s.first + i - 1 \in DOMAIN sequenced /\ s.recs[i] = sequenced[s.first + i - 1]
    BY <2>1
  <2>3. CASE i = Len(Cur.recs) + 1
    BY <1>3, <1>4, <1>6, <2>2, <2>3
  <2>4. CASE i \in 1..Len(Cur.recs)
    BY <1>1, <1>4, <1>6, <2>1, <2>4, CurChained
  <2> QED
    BY <1>1, <2>3, <2>4
<1>10. Chained'
    BY <1>0, <1>1, <1>5, <1>6, <1>9, LastChained
<1>11. EndsAt(s, w.enc.now)
  <2>1. PICK g \in Nat : EndsAt(Cur, g) /\ w.enc.now = IF w.rec.kind = "resize" THEN w.rec.size ELSE g
    BY <1>0 DEF Ahead
  <2> QED
    BY <1>1, <1>3, <1>6, <2>1, EndsAtAppend DEF r
<1> QED
    BY <1>4, <1>6, <1>7, <1>8, <1>10, <1>11 DEF r

\* The writer's fields after it.
LEMMA AppendRestWriter ==
    ASSUME RecInv, AppendRest
    PROVE  /\ w' \in Threads /\ w'.pc = "settle" /\ w'.len = w.len + 1 /\ w'.enc = w.enc /\ w'.rec = w.rec
           /\ w'.before = w.before /\ w'.last = w.last /\ w'.reason = w.reason
           /\ w'.unsynced /\ w'.uncut = w.uncut /\ w'.attempted = w.attempted
<1>0. w \in Threads /\ w.len + 1 \in Nat /\ w.total + 1 \in Int
    BY ThreadTypes, SMTT(30) DEF RecInv, RecTypeOK
<1>1. w' = [w EXCEPT !.pc = "settle", !.len = w.len + 1, !.total = w.total + 1, !.unsynced = TRUE]
    BY <1>0 DEF AppendRest
<1>2. /\ w' \in Threads /\ w'.pc = "settle" /\ w'.len = w.len + 1 /\ w'.enc = w.enc /\ w'.rec = w.rec
      /\ w'.before = w.before /\ w'.last = w.last /\ w'.reason = w.reason
    BY <1>0, <1>1 DEF Threads, WriterPcs
<1>3. w'.unsynced /\ w'.uncut = w.uncut /\ w'.attempted = w.attempted
    BY <1>0, <1>1 DEF Threads
<1> QED
    BY <1>2, <1>3

\* Writer::append returns.
LEMMA AppendRestKeeps ==
    ASSUME RecInv, AppendRest
    PROVE  RecInv'
<1>0. /\ RecTypeOK /\ Numbered /\ InStep /\ LastSegment /\ w.pc = "append" /\ ~w.uncut /\ Ahead
      /\ UNCHANGED <<producerVars, sequenced, q, told, closing>>
    BY DEF AppendRest, RecInv, WriterAt, Over
<1>1. disk # <<>> /\ Cur \in Segments /\ Cur.first \in Nat /\ Len(Cur.recs) \in Nat /\ Cur.durable \in Nat
    BY <1>0, DiskTypes, SegmentTypes DEF Ahead
<1>2. /\ Chained' /\ disk' \in Seq(Segments) /\ Len(disk') = Len(disk) /\ disk' # <<>>
      /\ Cur'.first = Cur.first /\ Len(Cur'.recs) = Len(Cur.recs) + 1
      /\ Cur'.durable = Cur.durable /\ ~Cur'.torn /\ Cur'.linked = Cur.linked
      /\ EndsAt(Cur', w.enc.now)
    BY AppendRestFile
<1>3. /\ w' \in Threads /\ w'.pc = "settle" /\ w'.len = w.len + 1 /\ w'.enc = w.enc /\ w'.rec = w.rec
      /\ w'.before = w.before /\ w'.last = w.last /\ w'.reason = w.reason
      /\ w'.unsynced /\ w'.uncut = w.uncut /\ w'.attempted = w.attempted
    BY AppendRestWriter
<1>4. LastSegment'
    BY <1>0, <1>1, <1>2 DEF LastSegment, Ahead
<1>5. Written'
  <2>1. CurEnd' = CurEnd + 1 /\ CurEnd \in Int
    <3>1. CurEnd' = Cur'.first + Len(Cur'.recs) - 1
      BY DEF CurEnd
    <3> QED
      BY <1>1, <1>2, <3>1 DEF CurEnd
  <2>2. EndsAt(Cur, w.enc.now)'
    BY <1>2, <1>3 DEF EndsAt
  <2>3. /\ w.enc.next = CurEnd' + 1 /\ w.enc.count = Len(Cur'.recs) /\ q.appended + 1 = CurEnd'
        /\ w.before = Len(Cur'.recs) /\ w'.len = w.before + 1 /\ Cur.durable < Len(Cur'.recs)
        /\ w.enc.index = Len(disk') - 1 /\ w.enc.first = Cur'.first /\ Cur.linked /\ w.attempted
    BY <1>0, <1>1, <1>2, <1>3, <2>1 DEF Ahead, LastSegment
  <2> QED
    BY <1>0, <1>2, <1>3, <2>2, <2>3 DEF Written
<1>6. WriterAt' /\ InHand /\ InHand' /\ ~Over' /\ w.reason = "none"
    BY <1>0, <1>3, <1>5 DEF WriterAt, InHand, Over, Ahead
<1>7. Numbered'
    BY <1>0 DEF Numbered
<1>8. InStep'
    BY <1>0, <1>3, <1>6 DEF InStep
<1> QED
    BY <1>0, <1>2, <1>3, <1>4, <1>6, <1>7, <1>8, StorageKeeps DEF RecTypeOK

\* Writer::append fails: anything up to the whole record may be in the file.
LEMMA AppendFailsKeeps ==
    ASSUME RecInv, AppendFails
    PROVE  RecInv'
<1>0. /\ RecTypeOK /\ LastSegment /\ w.pc = "append" /\ ~w.uncut /\ Ahead /\ w \in Threads
      /\ UNCHANGED <<producerVars, sequenced, q, disk, told, closing>>
      /\ w' = [w EXCEPT !.pc = "settle", !.reason = "write_failed"]
    BY DEF AppendFails, RecInv, WriterAt, Over, RecTypeOK
<1>1. /\ w' \in Threads /\ w'.pc = "settle" /\ w'.reason = "write_failed" /\ w'.rec = w.rec
      /\ w'.before = w.before /\ w'.last = w.last
    BY <1>0 DEF Threads, WriterPcs, Reasons
<1>2. w'.unsynced = w.unsynced /\ w'.uncut = w.uncut /\ w'.attempted = w.attempted
    BY <1>0 DEF Threads
<1>3. Uncertain'
  <2>1. Cur \in Segments /\ Cur.first \in Nat /\ Len(Cur.recs) \in Nat /\ Cur.durable \in Nat
    BY <1>0, DiskTypes, SegmentTypes DEF Ahead
  <2>2. Cur' = Cur
    BY <1>0 DEF Cur
  <2>3. /\ disk # <<>> /\ Cur.linked /\ w.before = Len(Cur.recs) + 1 /\ q.appended = CurEnd
        /\ Cur.durable <= Len(Cur.recs)
    BY <1>0 DEF Ahead, LastSegment
  <2>4. /\ w.before # 0 /\ q.appended + 1 = Cur.first + w.before - 1
        /\ w.before - 1 <= Len(Cur.recs) /\ Len(Cur.recs) <= w.before /\ Cur.durable <= w.before - 1
    BY <2>1, <2>3 DEF CurEnd
  <2>5. disk' = disk /\ q' = q
    BY <1>0
  <2> QED
    BY <1>1, <2>2, <2>3, <2>4, <2>5 DEF Uncertain
<1>4. WriterAt' /\ InHand /\ InHand' /\ ~Over'
    BY <1>0, <1>1, <1>2, <1>3 DEF WriterAt, InHand, Over, Ahead
<1> QED
    BY <1>0, <1>1, <1>2, <1>4, WriterMoves

\* What a record that is past a stop, or was not appended whole, leaves to cut back.
LEMMA SettleUncertain ==
    ASSUME RecInv, w.pc = "settle", w.attempted
    PROVE  Uncertain
<1>0. RecTypeOK /\ WriterAt
    BY DEF RecInv
<1>1. CASE w.reason = "none"
  <2>1. Written
    BY <1>0, <1>1 DEF WriterAt
  <2>2. Cur \in Segments /\ Cur.first \in Nat /\ Len(Cur.recs) \in Nat /\ Cur.durable \in Nat
    BY <1>0, <2>1, DiskTypes, SegmentTypes DEF Written
  <2> QED
    BY <2>1, <2>2 DEF Written, Uncertain, CurEnd
<1>2. CASE w.reason # "none"
    BY <1>0, <1>2 DEF WriterAt
<1> QED
    BY <1>1, <1>2

\* A stop, or a failure, after the append: the boundary is before the record.
LEMMA SettleStops ==
    ASSUME RecInv, w.pc = "settle", q.stopped # Nothing \/ w.reason # "none", Stop(w.reason),
           w' = IF w.attempted THEN [w EXCEPT !.pc = "cut"] ELSE [w EXCEPT !.pc = "sync", !.then = "done"],
           UNCHANGED <<producerVars, sequenced, disk, closing>>
    PROVE  RecInv'
<1>0. WriterAt /\ ~q.done /\ ~w.uncut /\ w.reason \in Reasons
    BY ThreadTypes DEF RecInv, Ends, WriterAt, Over
<1>1. CASE w.attempted
  <2>1. Kept /\ w'.pc = "cut"
    BY <1>1, StepKeeps DEF WriterPcs
  <2>2. /\ size' = size /\ pty' = pty /\ resizing' = resizing /\ chunk' = chunk
        /\ resizing \in BOOLEAN /\ closing \in {"open", "closing", "closed"}
        /\ (chunk # Nothing => chunk.size \in Nat /\ chunk.size <= size)
        /\ (closing # "open" => ~q.accepting)
    BY DEF producerVars, RecInv, RecTypeOK, Sizes, Ends
  <2>3. q'.appended = q.appended
    BY <1>0, StopEffect
  <2>4. Uncertain'
    BY <1>1, <2>1, <2>3, SettleUncertain DEF Uncertain, Cur, Kept
  <2>5. WriterAt' /\ ~InHand'
    BY <1>0, <2>1, <2>4 DEF WriterAt, InHand, Over, Kept
  <2> QED
    BY <1>0, <2>1, <2>2, <2>5, StopKeeps DEF Kept
<1>2. CASE ~w.attempted
  <2>1. Kept /\ w'.pc = "sync" /\ w'.then = "done"
    BY <1>2, JumpKeeps DEF WriterPcs
  <2>2. AtEnd
    BY <1>0, <1>2 DEF WriterAt, Written
  <2>3. Over'
    BY <2>1 DEF Over
  <2> QED
    BY <1>0, <2>1, <2>2, <2>3, StoppingEnds
<1> QED
    BY <1>1, <1>2, ThreadTypes DEF RecInv

\* The writer's fields once a record counts as appended.
LEMMA AppendedFields ==
    ASSUME w \in Threads, NEW n \in Nat, w' = [w EXCEPT !.pc = "appended", !.last = n]
    PROVE  w' \in Threads /\ w'.last = n /\ w'.pc = "appended" /\ w'.enc = w.enc /\ w'.len = w.len
<1>1. w' \in Threads
    BY DEF Threads, WriterPcs
<1>2. w'.last = n /\ w'.pc = "appended" /\ w'.enc = w.enc /\ w'.len = w.len
    BY DEF Threads
<1> QED
    BY <1>1, <1>2

\* The record is recorded.
LEMMA SettleRecords ==
    ASSUME RecInv, w.pc = "settle", q.stopped = Nothing, w.reason = "none",
           q' = [q EXCEPT !.appended = w.rec.seq],
           w' = [w EXCEPT !.pc = "appended", !.last = w.rec.seq],
           UNCHANGED <<producerVars, sequenced, disk, closing, told>>
    PROVE  RecInv'
<1>0. /\ RecTypeOK /\ Numbered /\ InStep /\ LastSegment /\ WriterAt /\ Written /\ ~w.uncut
      /\ q \in Queues /\ w \in Threads /\ InHand /\ disk \in Seq(Segments)
    BY DEF RecInv, WriterAt, Over, RecTypeOK, InHand
<1>1. w.rec.seq = q.appended + 1 /\ q.appended \in Nat /\ q.appended + 1 \in 1..Len(sequenced)
  <2>1. /\ q.appended + 1 \in DOMAIN sequenced /\ w.rec = sequenced[q.appended + 1]
        /\ q.appended \in Nat /\ DOMAIN sequenced = 1..Len(sequenced)
    BY <1>0, QueueTypes DEF InStep
  <2> QED
    BY <1>0, <2>1 DEF Numbered
<1>2. /\ q' \in Queues /\ q'.appended = q.appended + 1 /\ q'.backlog = q.backlog /\ q'.stopped = q.stopped
      /\ q'.synced = q.synced
    BY <1>0, <1>1 DEF Queues
<1>3. q'.accepting = q.accepting /\ q'.done = q.done
    BY <1>0 DEF Queues
<1>4. /\ w' \in Threads /\ w'.last = q.appended + 1 /\ w'.pc = "appended" /\ w'.enc = w.enc /\ w'.len = w.len
  <2>1. q.appended + 1 \in Nat /\ w' = [w EXCEPT !.pc = "appended", !.last = q.appended + 1]
    BY <1>1
  <2> QED
    BY <1>0, <2>1, AppendedFields
<1>5. w'.unsynced = w.unsynced /\ w'.uncut = w.uncut
    BY <1>0 DEF Threads
<1>6. Level'
  <2>1. Cur' = Cur /\ CurEnd' = CurEnd /\ disk' = disk
    BY DEF Cur, CurEnd
  <2>2. /\ disk # <<>> /\ ~Cur.torn /\ Cur.linked
        /\ w.enc.index = Len(disk) - 1 /\ w.enc.first = Cur.first
        /\ w.enc.next = CurEnd + 1 /\ w.enc.count = Len(Cur.recs) /\ EndsAt(Cur, w.enc.now)
        /\ q.appended + 1 = CurEnd /\ w.unsynced /\ w.len = w.before + 1 /\ w.before = Len(Cur.recs)
    BY <1>0 DEF Written
  <2>3. EndsAt(Cur, w.enc.now)'
    BY <1>4, <2>1, <2>2 DEF EndsAt
  <2> QED
    BY <1>2, <1>4, <1>5, <2>1, <2>2, <2>3 DEF Level
<1>7. WriterAt'
    BY <1>0, <1>4, <1>5, <1>6, LevelWriterAt
<1>8. ~InHand' /\ ~Over'
    BY <1>4 DEF InHand, Over
<1>9. Numbered'
    BY <1>0, <1>2 DEF Numbered
<1>10. InStep'
  <2>1. q.appended + Len(q.backlog) + 1 = Len(sequenced) /\ w.unsynced /\ Len(q.backlog) \in Nat
    BY <1>0, QueueTypes DEF InStep, Written
  <2>2. (q.appended + 1) + Len(q.backlog) + 0 = Len(sequenced) /\ q.appended + 1 <= Len(sequenced)
    BY <1>1, <2>1
  <2> QED
    BY <1>2, <1>4, <1>5, <1>8, <2>1, <2>2 DEF InStep
<1>11. Chained'
    BY DEF RecInv, Chained, Chain, Whole, EndsAt
<1>12. LastSegment'
    BY <1>0, <1>2 DEF LastSegment, Cur, Written
<1> QED
    BY <1>0, <1>2, <1>3, <1>4, <1>7, <1>9, <1>10, <1>11, <1>12, StorageKeeps

\* Writer::run, under the lock after an append.
LEMMA SettleKeeps ==
    ASSUME RecInv, Settle
    PROVE  RecInv'
<1>1. CASE q.stopped # Nothing \/ w.reason # "none"
    BY <1>1, SettleStops DEF Settle
<1>2. CASE ~(q.stopped # Nothing \/ w.reason # "none")
    BY <1>2, SettleRecords DEF Settle
<1> QED
    BY <1>1, <1>2

\* Writer::cut_back: the file ends with the last record that was appended.
LEMMA CutBackKeeps ==
    ASSUME RecInv, CutBack
    PROVE  RecInv'
<1> DEFINE r == SubSeq(Cur.recs, 1, w.before - 1)
           s == [Cur EXCEPT !.torn = FALSE, !.recs = r]
<1>0. /\ RecTypeOK /\ Numbered /\ InStep /\ LastSegment /\ w.pc = "cut" /\ ~w.uncut /\ Uncertain
      /\ UNCHANGED <<producerVars, sequenced, q, told, closing>>
    BY DEF CutBack, RecInv, WriterAt, Over
<1>1. /\ disk # <<>> /\ Cur \in Segments /\ Cur.recs \in Seq(Recs) /\ Cur.first \in Nat
      /\ Len(Cur.recs) \in Nat /\ Cur.durable \in Nat
    BY <1>0, DiskTypes, SegmentTypes DEF Uncertain
<1>2. /\ w.before \in Nat /\ w.before # 0 /\ w.before - 1 \in Nat /\ w.before - 1 <= Len(Cur.recs)
      /\ q.appended + 1 = Cur.first + w.before - 1 /\ Cur.durable <= w.before - 1 /\ Cur.linked
      /\ q.appended \in Nat
    BY <1>0, ThreadTypes, QueueTypes, SMTT(30) DEF Uncertain
<1>3. /\ r \in Seq(Recs) /\ Len(r) = w.before - 1 /\ DOMAIN r = 1..(w.before - 1)
      /\ \A i \in 1..(w.before - 1) : r[i] = Cur.recs[i]
    BY <1>1, <1>2, PrefixOf
<1>4. OnLast(s)
    BY <1>1 DEF CutBack, Last, Cur, Segments
<1> HIDE DEF r
<1>5. /\ s \in Segments /\ s.index = Cur.index /\ s.first = Cur.first /\ s.geometry = Cur.geometry
      /\ s.recs = r /\ s.durable = Cur.durable
    BY <1>1, <1>3 DEF Segments
<1>6. ~s.torn /\ s.linked = Cur.linked
    BY <1>1 DEF Segments
<1> HIDE DEF s
<1>7. disk' \in Seq(Segments) /\ disk' # <<>> /\ Cur' = s
    BY <1>0, <1>1, <1>4, <1>5, OnLastMoves
<1>8. Chained'
  <2>1. \A i \in DOMAIN s.recs : /\ s.first + i - 1 \in DOMAIN sequenced
                                 /\ s.recs[i] = sequenced[s.first + i - 1]
    <3> SUFFICES ASSUME NEW i \in 1..(w.before - 1)
                 PROVE  s.first + i - 1 \in DOMAIN sequenced /\ s.recs[i] = sequenced[s.first + i - 1]
      BY <1>3, <1>5
    <3>1. i \in DOMAIN Cur.recs
      BY <1>1, <1>2
    <3> QED
      BY <1>1, <1>3, <1>5, <3>1, CurChained
  <2> QED
    BY <1>0, <1>1, <1>4, <1>5, <2>1, LastChained
<1>9. LastSegment'
    BY <1>0, <1>1, <1>2, <1>3, <1>5, <1>6, <1>7 DEF LastSegment
<1>10. /\ w' \in Threads /\ w'.pc = "sync" /\ w'.then = "done" /\ w'.last = w.last
       /\ w'.unsynced = w.unsynced /\ w'.uncut = w.uncut
  <2>1. w \in Threads /\ w.total - (w.len - w.before) \in Int
    BY <1>0, ThreadTypes, SMTT(30) DEF RecTypeOK
  <2>2. w' = [w EXCEPT !.pc = "sync", !.then = "done", !.total = w.total - (w.len - w.before),
                       !.len = w.before]
    BY <2>1 DEF CutBack
  <2>3. w' \in Threads /\ w'.pc = "sync" /\ w'.then = "done" /\ w'.last = w.last
    BY <1>2, <2>1, <2>2 DEF Threads, WriterPcs
  <2>4. w'.unsynced = w.unsynced /\ w'.uncut = w.uncut
    BY <2>1, <2>2 DEF Threads
  <2> QED
    BY <2>3, <2>4
<1>11. AtEnd'
  <2>1. CurEnd' = q.appended
    <3>1. CurEnd' = Cur'.first + Len(Cur'.recs) - 1
      BY DEF CurEnd
    <3>2. Cur'.first = Cur.first /\ Len(Cur'.recs) = w.before - 1
      BY <1>3, <1>5, <1>7
    <3>3. CurEnd' = Cur.first + (w.before - 1) - 1
      BY <3>1, <3>2
    <3>4. Cur.first + (w.before - 1) - 1 = q.appended
      BY <1>1, <1>2, SMTT(30)
    <3> QED
      BY <3>3, <3>4
  <2> QED
    BY <1>0, <1>2, <1>6, <1>7, <2>1 DEF AtEnd
<1>12. WriterAt' /\ ~InHand' /\ ~InHand
    BY <1>0, <1>10, <1>11 DEF WriterAt, InHand, Over
<1>13. Numbered'
    BY <1>0 DEF Numbered
<1>14. InStep'
    BY <1>0, <1>10, <1>12 DEF InStep
<1> QED
    BY <1>0, <1>7, <1>8, <1>9, <1>10, <1>12, <1>13, <1>14, StorageKeeps DEF RecTypeOK

\* The cut fails: the file keeps what is past the end, and the writer knows.
LEMMA CutBackFailsKeeps ==
    ASSUME RecInv, CutBackFails
    PROVE  RecInv'
<1>0. /\ RecTypeOK /\ InStep /\ w.pc = "cut" /\ Uncertain /\ w \in Threads
      /\ UNCHANGED <<producerVars, sequenced, q, disk, told, closing>>
      /\ w' = [w EXCEPT !.pc = "sync", !.then = "done", !.uncut = TRUE]
    BY DEF CutBackFails, RecInv, WriterAt, RecTypeOK
<1>1. w' \in Threads /\ w'.pc = "sync" /\ w'.then = "done" /\ w'.last = w.last
    BY <1>0 DEF Threads, WriterPcs
<1>2. w'.unsynced = w.unsynced /\ w'.uncut
    BY <1>0 DEF Threads
<1>3. AtEnd'
  <2>1. Cur \in Segments /\ Cur.first \in Nat /\ Len(Cur.recs) \in Nat /\ q.appended \in Nat /\ w.before \in Nat
    BY <1>0, DiskTypes, SegmentTypes, QueueTypes, ThreadTypes DEF Uncertain
  <2>2. w.before - 1 <= Len(Cur.recs) /\ q.appended + 1 = Cur.first + w.before - 1
    BY <1>0 DEF Uncertain
  <2>3. q.appended <= CurEnd
    BY <2>1, <2>2, SMTT(30) DEF CurEnd
  <2>4. CurEnd' = CurEnd /\ q' = q
    BY <1>0 DEF Cur, CurEnd
  <2> QED
    BY <1>2, <2>3, <2>4 DEF AtEnd
<1>4. WriterAt' /\ ~InHand /\ ~InHand'
    BY <1>0, <1>1, <1>2, <1>3 DEF WriterAt, InHand, Over
<1>5. q.stopped # Nothing
    BY <1>0 DEF InStep
<1> QED
    BY <1>0, <1>1, <1>2, <1>4, <1>5, WriterMoves

\* Where a sync leaves the files: all that is written is on disk.
LEMMA SyncFiles ==
    ASSUME RecInv, Sync
    PROVE  /\ Chained' /\ disk' \in Seq(Segments) /\ Len(disk') = Len(disk) /\ (disk' = <<>> <=> disk = <<>>)
           /\ disk # <<>> => /\ Cur'.first = Cur.first /\ Cur'.geometry = Cur.geometry
                             /\ Cur'.recs = Cur.recs /\ Cur'.torn = Cur.torn /\ Cur'.linked = Cur.linked
                             /\ Cur'.durable = IF w.unsynced THEN Len(Cur.recs) ELSE Cur.durable
<1>0. RecTypeOK /\ LastSegment /\ sequenced' = sequenced
    BY DEF Sync, RecInv
<1>1. CASE ~w.unsynced
  <2>1. disk' = disk
    BY <1>1 DEF Sync
  <2>2. Chained'
    BY <1>0, <2>1 DEF RecInv, Chained, Chain, Whole, EndsAt
  <2>3. Cur' = Cur
    BY <2>1 DEF Cur
  <2> QED
    BY <1>0, <1>1, <2>1, <2>2, <2>3 DEF RecTypeOK
<1>2. CASE w.unsynced
  <2> DEFINE s == [Cur EXCEPT !.durable = Len(Cur.recs)]
  <2>1. disk # <<>> /\ OnLast(s)
    BY <1>0, <1>2 DEF Sync, LastSegment, Last, Cur
  <2>2. Cur \in Segments /\ Len(Cur.recs) \in Nat
    BY <1>0, <2>1, DiskTypes, SegmentTypes
  <2>3. /\ s \in Segments /\ s.index = Cur.index /\ s.first = Cur.first /\ s.geometry = Cur.geometry
        /\ s.recs = Cur.recs /\ s.durable = Len(Cur.recs)
    BY <2>2 DEF Segments
  <2>4. s.torn = Cur.torn /\ s.linked = Cur.linked
    BY <2>2 DEF Segments
  <2> HIDE DEF s
  <2>5. disk' \in Seq(Segments) /\ Len(disk') = Len(disk) /\ disk' # <<>> /\ Cur' = s
    BY <1>0, <2>1, <2>3, OnLastMoves
  <2>6. Chained'
    BY <1>0, <2>1, <2>3, LastSameRecs
  <2> QED
    BY <1>2, <2>1, <2>3, <2>4, <2>5, <2>6
<1> QED
    BY <1>1, <1>2, ThreadTypes DEF RecInv

\* Its effect on the queue and on the writer.
LEMMA SyncMoves ==
    ASSUME RecInv, Sync
    PROVE  /\ q' \in Queues /\ q'.backlog = q.backlog /\ q'.stopped = q.stopped
           /\ q'.appended = q.appended /\ q'.synced = q.appended
           /\ q'.accepting = q.accepting /\ q'.done = q.done
           /\ w' \in Threads /\ w'.pc = w.then /\ w'.then = w.then /\ w'.enc = w.enc /\ w'.rec = w.rec
           /\ w'.reason = w.reason /\ w'.last = w.last /\ w'.len = w.len
           /\ ~w'.unsynced /\ w'.uncut = w.uncut
<1>0. /\ q \in Queues /\ w \in Threads /\ w.last = q.appended /\ w.last \in Nat
      /\ (w.unsynced \/ q.synced = w.last) /\ w.then \in {"take", "publish", "done"}
    BY ThreadTypes DEF RecInv, RecTypeOK, InStep
<1>1. w' = [w EXCEPT !.pc = w.then, !.unsynced = FALSE]
    BY DEF Sync
<1>2. /\ w' \in Threads /\ w'.pc = w.then /\ w'.then = w.then /\ w'.enc = w.enc /\ w'.rec = w.rec
      /\ w'.reason = w.reason /\ w'.last = w.last /\ w'.len = w.len
    BY <1>0, <1>1 DEF Threads, WriterPcs
<1>3. ~w'.unsynced /\ w'.uncut = w.uncut
    BY <1>0, <1>1 DEF Threads
<1>4. CASE ~w.unsynced
    BY <1>0, <1>2, <1>3, <1>4 DEF Sync
<1>5. CASE w.unsynced
  <2>1. q' = [q EXCEPT !.synced = w.last]
    BY <1>5 DEF Sync
  <2>2. /\ q' \in Queues /\ q'.backlog = q.backlog /\ q'.stopped = q.stopped
        /\ q'.appended = q.appended /\ q'.synced = q.appended
    BY <1>0, <2>1 DEF Queues
  <2>3. q'.accepting = q.accepting /\ q'.done = q.done
    BY <1>0, <2>1 DEF Queues
  <2> QED
    BY <1>2, <1>3, <2>2, <2>3
<1> QED
    BY <1>4, <1>5

\* Writer::sync.
LEMMA SyncKeeps ==
    ASSUME RecInv, Sync
    PROVE  RecInv'
<1>0. /\ RecTypeOK /\ Numbered /\ InStep /\ LastSegment /\ WriterAt /\ w.pc = "sync"
      /\ UNCHANGED <<producerVars, sequenced, told, closing>> /\ w.then \in {"take", "publish", "done"}
    BY ThreadTypes DEF Sync, RecInv
<1>1. /\ Chained' /\ disk' \in Seq(Segments) /\ Len(disk') = Len(disk) /\ (disk' = <<>> <=> disk = <<>>)
      /\ disk # <<>> => /\ Cur'.first = Cur.first /\ Cur'.geometry = Cur.geometry
                        /\ Cur'.recs = Cur.recs /\ Cur'.torn = Cur.torn /\ Cur'.linked = Cur.linked
                        /\ Cur'.durable = IF w.unsynced THEN Len(Cur.recs) ELSE Cur.durable
    BY SyncFiles
<1>2. /\ q' \in Queues /\ q'.backlog = q.backlog /\ q'.stopped = q.stopped
      /\ q'.appended = q.appended /\ q'.synced = q.appended
      /\ q'.accepting = q.accepting /\ q'.done = q.done
      /\ w' \in Threads /\ w'.pc = w.then /\ w'.then = w.then /\ w'.enc = w.enc /\ w'.rec = w.rec
      /\ w'.reason = w.reason /\ w'.last = w.last /\ w'.len = w.len
      /\ ~w'.unsynced /\ w'.uncut = w.uncut
    BY SyncMoves
<1>3. /\ w.then # "done" => Level
      /\ w.then = "done" => AtEnd
      /\ disk # <<>> => q.appended <= CurEnd
  <2>1. (w.then # "done" => Level) /\ (w.then = "done" => AtEnd)
    BY <1>0 DEF WriterAt, Over
  <2> QED
    BY <1>0, <2>1, LevelEnds DEF AtEnd
<1>4. disk # <<>> => CurEnd' = CurEnd
    BY <1>1 DEF CurEnd
<1>5. LastSegment'
  <2>1. CASE disk = <<>>
    BY <1>0, <1>1, <1>2, <2>1 DEF LastSegment
  <2>2. CASE disk # <<>>
    <3>1. Cur.first \in Nat /\ Len(Cur.recs) \in Nat /\ Cur.durable \in Nat /\ q.synced \in Nat
      BY <1>0, <2>2, DiskTypes, SegmentTypes, QueueTypes
    <3>2. /\ Cur.durable <= Len(Cur.recs) /\ q.synced <= Cur.first + Cur.durable - 1
          /\ Cur.recs = <<>> \/ Cur.linked
      BY <1>0, <2>2 DEF LastSegment
    <3>3. q.appended <= Cur.first + Len(Cur.recs) - 1
      BY <1>3, <2>2 DEF CurEnd
    <3>4. CASE w.unsynced
      BY <1>1, <1>2, <2>2, <3>1, <3>2, <3>3, <3>4 DEF LastSegment
    <3>5. CASE ~w.unsynced
      <4>1. q.synced = q.appended
        BY <1>0, <3>5 DEF InStep
      <4> QED
        BY <1>1, <1>2, <2>2, <3>1, <3>2, <3>5, <4>1 DEF LastSegment
    <3> QED
      BY <3>4, <3>5
  <2> QED
    BY <2>1, <2>2
<1>6. Level => Level' /\ Cur'.durable = Len(Cur'.recs)
  <2> SUFFICES ASSUME Level PROVE Level' /\ Cur'.durable = Len(Cur'.recs)
    OBVIOUS
  <2>1. disk # <<>> /\ Cur'.durable = Len(Cur'.recs)
    BY <1>1 DEF Level
  <2>2. EndsAt(Cur', w.enc.now)
    BY <1>1, <2>1, EndsAtSame DEF Level
  <2>3. EndsAt(Cur, w.enc.now)'
    BY <1>2, <2>2 DEF EndsAt
  <2> QED
    BY <1>1, <1>2, <1>4, <2>1, <2>3 DEF Level
<1>7. AtEnd => AtEnd'
    BY <1>1, <1>2, <1>4 DEF AtEnd
<1>8. /\ InHand' <=> InHand
      /\ InHand => w.rec # Nothing
      /\ Over' <=> Over
    BY <1>0, <1>2 DEF InHand, Over, InStep
<1>9. WriterAt'
  <2>1. w'.uncut => Over'
    BY <1>0, <1>2, <1>8 DEF WriterAt
  <2>2. CASE w.then = "take"
    BY <1>2, <1>3, <1>6, <2>1, <2>2, LevelWriterAt
  <2>3. CASE w.then = "done"
    BY <1>2, <1>3, <1>7, <2>1, <2>3, LevelWriterAt
  <2>4. CASE w.then = "publish"
    <3>1. Level /\ Cur.recs # <<>> /\ InHand
      BY <1>0, <2>4 DEF WriterAt, InHand
    <3>2. w'.rec # Nothing /\ w'.pc = "publish" /\ Level' /\ Cur'.recs # <<>> /\ Cur'.durable = Len(Cur'.recs)
      BY <1>1, <1>2, <1>6, <1>8, <2>4, <3>1 DEF Level
    <3> QED
      BY <1>2, <2>1, <3>2 DEF WriterAt, Over
  <2> QED
    BY <1>0, <2>2, <2>3, <2>4
<1>10. Numbered'
    BY <1>0, <1>2 DEF Numbered
<1>11. InStep'
  <2>1. w'.pc # "cut"
    BY <1>0, <1>2
  <2>2. InHand' => w'.reason = "none"
    BY <1>0, <1>2, <1>8 DEF InStep
  <2> QED
    BY <1>0, <1>2, <1>8, <2>1, <2>2 DEF InStep
<1> QED
    BY <1>0, <1>1, <1>2, <1>5, <1>9, <1>10, <1>11, StorageKeeps

\* A sync fails.
LEMMA SyncFailsKeeps ==
    ASSUME RecInv, SyncFails
    PROVE  RecInv'
<1>0. /\ WriterAt /\ w.pc = "sync" /\ w.then \in {"take", "publish", "done"} /\ ~q.done
      /\ UNCHANGED <<producerVars, sequenced, disk, closing>>
    BY ThreadTypes DEF SyncFails, RecInv, Ends
<1>1. /\ w.then # "done" => Level /\ ~w.uncut
      /\ w.then = "done" => AtEnd
    BY <1>0 DEF WriterAt, Over
<1>2. CASE w.then = "publish"
  <2>1. w' = Refused("write_failed") /\ UNCHANGED <<q, told>>
    BY <1>2 DEF SyncFails
  <2>2. InHand /\ AtEnd /\ disk # <<>> /\ ~w.uncut
    BY <1>0, <1>1, <1>2, LevelEnds DEF InHand, Level
  <2> QED
    BY <1>0, <2>1, <2>2, RefusedKeeps DEF Reasons
<1>3. CASE w.then = "done"
  <2>1. Stop("write_failed") /\ w' = [w EXCEPT !.pc = "done"] /\ "write_failed" \in Reasons
    BY <1>3 DEF SyncFails, Reasons
  <2>2. Kept /\ w'.pc = "done"
    BY <2>1, StepKeeps DEF WriterPcs
  <2>3. Over'
    BY <2>2 DEF Over
  <2> QED
    BY <1>0, <1>1, <1>3, <2>1, <2>2, <2>3, StoppingEnds
<1>4. CASE w.then = "take"
  <2>1. Stop("write_failed") /\ w' = [w EXCEPT !.then = "done"] /\ "write_failed" \in Reasons
    BY <1>4 DEF SyncFails, Reasons
  <2>2. w' = [w EXCEPT !.pc = "sync", !.then = "done"]
    <3>1. w \in Threads
      BY DEF RecInv, RecTypeOK
    <3> QED
      BY <1>0, <2>1, <3>1 DEF Threads
  <2>3. Kept /\ w'.pc = "sync" /\ w'.then = "done"
    BY <2>2, JumpKeeps DEF WriterPcs
  <2>4. Over' /\ AtEnd
    BY <1>1, <1>4, <2>3, LevelEnds DEF Over
  <2> QED
    BY <1>0, <2>1, <2>3, <2>4, StoppingEnds
<1> QED
    BY <1>0, <1>2, <1>3, <1>4

\* The writer thread's last step.
LEMMA WriterDoneKeeps ==
    ASSUME RecInv, WriterDone
    PROVE  RecInv'
<1>0. /\ w.pc = "done" /\ q' = [q EXCEPT !.done = TRUE] /\ q \in Queues
      /\ UNCHANGED <<producerVars, sequenced, w, disk, told, closing>>
    BY DEF WriterDone, RecInv, RecTypeOK
<1>1. /\ q' \in Queues /\ q'.backlog = q.backlog /\ q'.stopped = q.stopped
      /\ q'.appended = q.appended /\ q'.synced = q.synced
    BY <1>0 DEF Queues
<1>2. q'.accepting = q.accepting /\ q'.done
    BY <1>0 DEF Queues
<1>3. size' = size /\ pty' = pty /\ chunk' = chunk /\ resizing' = resizing
    BY <1>0 DEF producerVars
<1>4. RecTypeOK'
    BY <1>0, <1>1, <1>3 DEF RecInv, RecTypeOK
<1>5. WriterAt' /\ (InHand' <=> InHand) /\ (Over' <=> Over)
    BY <1>0, <1>1, WriterAtSame
<1>6. Numbered'
    BY <1>0, <1>1 DEF RecInv, Numbered
<1>7. InStep'
    BY <1>0, <1>1, <1>2, <1>5 DEF RecInv, InStep
<1>8. Chained'
    BY <1>0 DEF RecInv, Chained, Chain, Whole, EndsAt
<1>9. LastSegment'
    BY <1>0, <1>1 DEF RecInv, LastSegment, Cur
<1>10. Ends'
    BY <1>0, <1>1, <1>2 DEF RecInv, Ends
<1>11. Sizes'
  <2>1. Resizes(Len(sequenced))' = Resizes(Len(sequenced))
    BY <1>0 DEF Resizes
  <2> QED
    BY <1>1, <1>2, <1>3, <2>1 DEF RecInv, Sizes
<1>12. ResizeFirst'
    BY <1>0 DEF RecInv, ResizeFirst
<1> QED
    BY <1>4, <1>5, <1>6, <1>7, <1>8, <1>9, <1>10, <1>11, <1>12 DEF RecInv

(***************************************************************************)
(* The invariant                                                           *)
(***************************************************************************)
\* RecorderThread::start: nothing is recorded, and segment 0 is to be published.
LEMMA RecInitInv ==
    ASSUME RecInit
    PROVE  RecInv
<1>0. /\ sequenced = <<>> /\ disk = <<>> /\ told = <<>> /\ closing = "open" /\ resizing = FALSE
      /\ size = 0 /\ pty = <<>> /\ chunk = Nothing
      /\ q = [backlog |-> <<>>, accepting |-> TRUE, appended |-> 0, synced |-> 0,
              segments |-> 0, stopped |-> Nothing, done |-> FALSE]
      /\ w = [pc |-> "publish", then |-> "take", enc |-> Encoder(0, 1, 0), rec |-> Nothing,
              reason |-> "none", attempted |-> FALSE, before |-> 0, len |-> 0, total |-> 0,
              last |-> 0, unsynced |-> FALSE, uncut |-> FALSE]
    BY DEF RecInit
<1>1. Encoder(0, 1, 0) \in Encoders
    BY DEF Encoder, Encoders
<1>2. /\ q.backlog = <<>> /\ q.appended = 0 /\ q.synced = 0 /\ q.stopped = Nothing
      /\ w.pc = "publish" /\ w.enc = Encoder(0, 1, 0) /\ w.rec = Nothing /\ w.last = 0
      /\ w.reason = "none"
    BY <1>0
<1>3. q.accepting /\ ~q.done /\ ~w.unsynced /\ ~w.uncut
    BY <1>0
<1>4. RecTypeOK
  <2>1. <<>> \in Seq(Recs) /\ <<>> \in Seq(Segments) /\ <<>> \in Seq(StopRecords) /\ <<>> \in Seq(Nat)
    OBVIOUS
  <2>2. q \in Queues
    BY <1>0, <2>1 DEF Queues
  <2>3. w \in Threads
    BY <1>0, <1>1 DEF Threads, WriterPcs, Reasons
  <2> QED
    BY <1>0, <2>1, <2>2, <2>3 DEF RecTypeOK
<1>5. DOMAIN sequenced = {} /\ DOMAIN q.backlog = {} /\ Len(sequenced) = 0 /\ Len(q.backlog) = 0
      /\ DOMAIN pty = {} /\ Len(disk) = 0
    BY <1>0, <1>2
<1>6. Numbered
    BY <1>2, <1>5 DEF Numbered
<1>7. ~InHand /\ ~Over
    BY <1>2 DEF InHand, Over
<1>8. InStep
    BY <1>2, <1>3, <1>5, <1>7 DEF InStep
<1>9. Chained /\ LastSegment
    BY <1>0, <1>2, <1>3, <1>5 DEF Chained, LastSegment
<1>10. WriterAt
    BY <1>0, <1>2, <1>3, <1>7 DEF WriterAt, Blank
<1>11. Ends
    BY <1>0, <1>2, <1>3 DEF Ends
<1>12. Sizes
  <2>1. Resizes(0) = {}
    BY DEF Resizes
  <2>2. Cardinality(Resizes(Len(sequenced))) = 0
    BY <1>5, <2>1, FS_EmptySet
  <2> QED
    BY <1>0, <1>5, <2>2 DEF Sizes
<1>13. ResizeFirst
    BY <1>5 DEF ResizeFirst
<1> QED
    BY <1>4, <1>6, <1>8, <1>9, <1>10, <1>11, <1>12, <1>13 DEF RecInv

\* Every step keeps the invariant.
LEMMA RecStep ==
    ASSUME RecInv, [RecNext]_recVars
    PROVE  RecInv'
<1>1. CASE Producers
    BY <1>1, ProducersKeep, OutputKeeps DEF Producers
<1>2. CASE Closing
    BY <1>2, ClosingKeeps DEF Closing
<1>3. CASE Storage
    BY <1>3, NextRecordKeeps, IdleKeeps, PrepareKeeps, PublishFailsKeeps, PublishRenamesKeeps,
       PublishSyncsKeeps, AppendPartKeeps, AppendRestKeeps, AppendFailsKeeps, SettleKeeps,
       CutBackKeeps, CutBackFailsKeeps, SyncKeeps, SyncFailsKeeps, WriterDoneKeeps DEF Storage
<1>4. CASE UNCHANGED recVars
  <2>1. UNCHANGED <<sequenced, q, w, disk, told, closing, size, pty, chunk, resizing>>
    BY <1>4 DEF recVars, producerVars
  <2>2. RecTypeOK'
    BY <2>1 DEF RecInv, RecTypeOK
  <2>3. Sizes'
    BY <2>1 DEF RecInv, Sizes, Resizes
  <2> QED
    BY <2>1, <2>2, <2>3, ProducerKeeps
<1> QED
    BY <1>1, <1>2, <1>3, <1>4 DEF RecNext

\* The recorder's inductive invariant holds of every behaviour.
THEOREM RecInvHolds == RecSpec => []RecInv
<1>1. RecInit => RecInv
    BY RecInitInv
<1>2. RecInv /\ [RecNext]_recVars => RecInv'
    BY RecStep
<1> QED
    BY <1>1, <1>2, PTL DEF RecSpec

\* Output that the child produced at a window size is recorded after that size, however
\* resizes, output and stops interleave.
THEOREM ResizeFirstHolds == RecSpec => []ResizeFirst
<1>1. RecInv => ResizeFirst
    BY DEF RecInv
<1> QED
    BY <1>1, RecInvHolds, PTL

(***************************************************************************)
(* What is left after a crash                                              *)
(***************************************************************************)
\* Files that are the segments, with the last of them cut, are one recording.
LEMMA CutReadsBack ==
    ASSUME RecInv, NEW m \in Nat, m <= Len(disk), m > 0, NEW files \in Seq(Segments), Len(files) = m,
           \A k \in 1..m :
              /\ files[k].index = disk[k].index /\ files[k].first = disk[k].first
              /\ files[k].geometry = disk[k].geometry
              /\ Len(files[k].recs) <= Len(disk[k].recs)
              /\ \A i \in 1..Len(files[k].recs) : files[k].recs[i] = disk[k].recs[i]
              /\ k < m => files[k].recs = disk[k].recs /\ ~files[k].torn
    PROVE  ReadsBack(files)
<1>0. /\ RecTypeOK /\ Numbered /\ Chained /\ Len(disk) \in Nat /\ DOMAIN files = 1..m
      /\ DOMAIN sequenced = 1..Len(sequenced)
    BY QueueTypes, DiskTypes DEF RecInv
<1>1. ASSUME NEW k \in 1..m
      PROVE  /\ files[k] \in Segments /\ disk[k] \in Segments /\ k \in 1..Len(disk)
             /\ Chain(k) /\ (k < m => Whole(k))
             /\ DOMAIN files[k].recs = 1..Len(files[k].recs) /\ Len(files[k].recs) \in Nat
             /\ DOMAIN disk[k].recs = 1..Len(disk[k].recs) /\ Len(disk[k].recs) \in Nat
             /\ disk[k].first \in Nat
  <2>1. files[k] \in Segments /\ k \in 1..Len(disk) /\ disk[k] \in Segments
    BY <1>0, DiskTypes
  <2> QED
    BY <1>0, <2>1, SegmentTypes DEF Chained
<1>2. ASSUME NEW k \in 1..m, NEW i \in 1..Len(files[k].recs)
      PROVE  /\ files[k].recs[i].seq = files[k].first + i - 1
             /\ files[k].first + i - 1 \in DOMAIN sequenced
             /\ files[k].recs[i] = sequenced[files[k].first + i - 1]
  <2>1. i \in DOMAIN disk[k].recs /\ files[k].recs[i] = disk[k].recs[i] /\ files[k].first = disk[k].first
    BY <1>1
  <2>2. /\ disk[k].first + i - 1 \in DOMAIN sequenced
        /\ disk[k].recs[i] = sequenced[disk[k].first + i - 1]
    BY <1>1, <2>1 DEF Chain
  <2>3. sequenced[disk[k].first + i - 1].seq = disk[k].first + i - 1
    BY <1>0, <2>2 DEF Numbered
  <2> QED
    BY <2>1, <2>2, <2>3
<1>3. ASSUME NEW k \in 1..m PROVE SegmentDecodes(files, k) /\ (k < m => ~files[k].torn /\ files[k].recs # <<>>)
  <2>1. /\ files[k].index = k - 1 /\ (k = 1 => files[k].first = 1)
        /\ \A i \in DOMAIN files[k].recs : files[k].recs[i].seq = files[k].first + i - 1
    BY <1>1, <1>2 DEF Chain
  <2>2. k > 1 => /\ files[k].first = files[k - 1].first + Len(files[k - 1].recs)
                 /\ EndsAt(files[k - 1], files[k].geometry)
    <3> SUFFICES ASSUME k > 1
                 PROVE  /\ files[k].first = files[k - 1].first + Len(files[k - 1].recs)
                        /\ EndsAt(files[k - 1], files[k].geometry)
      OBVIOUS
    <3>1. /\ k - 1 \in 1..m /\ k - 1 < m
      OBVIOUS
    <3>2. /\ files[k - 1].recs = disk[k - 1].recs /\ files[k - 1].first = disk[k - 1].first
          /\ files[k - 1].geometry = disk[k - 1].geometry
      BY <3>1
    <3>3. disk[k].first = disk[k - 1].first + Len(disk[k - 1].recs) /\ EndsAt(disk[k - 1], disk[k].geometry)
      BY <1>1 DEF Chain
    <3>4. EndsAt(files[k - 1], disk[k].geometry)
      BY <3>2, <3>3, EndsAtSame
    <3> QED
      BY <3>2, <3>3, <3>4
  <2>3. k < m => ~files[k].torn /\ files[k].recs # <<>>
    BY <1>1 DEF Whole
  <2> QED
    BY <2>1, <2>2, <2>3 DEF SegmentDecodes
<1>4. Decodes(files)
    BY <1>0, <1>3 DEF Decodes
<1>5. Genuine(files)
  <2> SUFFICES ASSUME NEW k \in 1..m, NEW i \in 1..Len(files[k].recs)
               PROVE  /\ files[k].recs[i].seq \in DOMAIN sequenced
                      /\ files[k].recs[i] = sequenced[files[k].recs[i].seq]
    BY <1>0, <1>1 DEF Genuine
  <2> QED
    BY <1>2
<1> QED
    BY <1>4, <1>5 DEF ReadsBack

\* The segments as they are.
LEMMA DiskReadsBack ==
    ASSUME RecInv
    PROVE  ReadsBack(disk)
<1>0. RecTypeOK /\ Chained /\ disk \in Seq(Segments) /\ Len(disk) \in Nat
    BY DiskTypes DEF RecInv, RecTypeOK
<1>1. CASE disk = <<>>
    BY <1>1 DEF ReadsBack, Genuine
<1>2. CASE disk # <<>>
  <2>1. Len(disk) > 0
    BY <1>0, <1>2
  <2>2. \A k \in 1..Len(disk) :
           /\ Len(disk[k].recs) <= Len(disk[k].recs)
           /\ k < Len(disk) => ~disk[k].torn
    <3> TAKE k \in 1..Len(disk)
    <3>1. disk[k] \in Segments /\ Len(disk[k].recs) \in Nat
      BY <1>0, DiskTypes, SegmentTypes
    <3> QED
      BY <1>0, <3>1 DEF Chained, Whole
  <2> QED
    BY <1>0, <2>1, <2>2, CutReadsBack
<1> QED
    BY <1>1, <1>2

\* What a crash may leave of a segment: at least what is on disk, at most what was written.
LEMMA LeafFields ==
    ASSUME NEW s \in Segments, s.durable <= Len(s.recs), NEW f, f \in Leaves(s)
    PROVE  /\ f \in Segments /\ f.index = s.index /\ f.first = s.first /\ f.geometry = s.geometry
           /\ s.durable <= Len(f.recs) /\ Len(f.recs) <= Len(s.recs)
           /\ \A i \in 1..Len(f.recs) : f.recs[i] = s.recs[i]
           /\ s.durable = Len(s.recs) => f.recs = s.recs
           /\ s.durable = Len(s.recs) /\ ~s.torn => ~f.torn
<1>0. s.recs \in Seq(Recs) /\ Len(s.recs) \in Nat /\ s.durable \in Nat /\ s.torn \in BOOLEAN
    BY SegmentTypes
<1>1. PICK n \in s.durable..Len(s.recs), t \in MayTear(s) : f = Left(s, n, t)
    BY DEF Leaves
<1> DEFINE r == SubSeq(s.recs, 1, n)
<1>2. n \in Nat /\ n <= Len(s.recs) /\ s.durable <= n /\ t \in BOOLEAN
    BY <1>0 DEF MayTear
<1>3. r \in Seq(Recs) /\ Len(r) = n /\ \A i \in 1..n : r[i] = s.recs[i]
    BY <1>0, <1>2, PrefixOf
<1>4. n = Len(s.recs) => r = s.recs
    BY <1>0, <1>2, <1>3
<1> HIDE DEF r
<1>5. f = [s EXCEPT !.recs = r, !.torn = t]
    BY <1>1 DEF r, Left
<1>6. /\ f \in Segments /\ f.index = s.index /\ f.first = s.first /\ f.geometry = s.geometry /\ f.recs = r
    BY <1>2, <1>3, <1>5 DEF Segments
<1>7. f.torn = t
    BY <1>5 DEF Segments
<1>8. s.durable = Len(s.recs) /\ ~s.torn => ~t
    BY <1>0 DEF MayTear
<1>9. s.durable = Len(s.recs) => n = Len(s.recs)
    BY <1>0, <1>2
<1> QED
    BY <1>2, <1>3, <1>4, <1>6, <1>7, <1>8, <1>9

\* Whatever a crash leaves reads back, up to what was reported as synced.
LEMMA CrashReads ==
    ASSUME RecInv, NEW files \in Survivors, files # <<>>
    PROVE  ReadsBack(files) /\ LastDecoded(files) >= q.synced
<1> DEFINE n == Len(disk)
           L == UNION {Leaves(disk[k]) : k \in 1..n}
<1>0. RecTypeOK /\ Chained /\ LastSegment /\ n \in Nat /\ q.synced \in Nat
    BY DiskTypes, QueueTypes DEF RecInv
<1>1. PICK m \in (IF n > 0 /\ ~disk[n].linked THEN {n - 1, n} ELSE {n}) :
              files \in [1..m -> L] /\ \A k \in 1..m : files[k] \in Leaves(disk[k])
    BY DEF Survivors
<1>2. m \in Nat /\ m <= n /\ (m # n => m = n - 1 /\ ~disk[n].linked)
    BY <1>0
<1>3. ASSUME NEW k \in 1..n
      PROVE  /\ disk[k] \in Segments /\ disk[k].durable <= Len(disk[k].recs)
             /\ Len(disk[k].recs) \in Nat /\ disk[k].durable \in Nat /\ disk[k].first \in Nat
             /\ k < n => disk[k].durable = Len(disk[k].recs) /\ ~disk[k].torn
  <2>1. disk[k] \in Segments /\ Len(disk[k].recs) \in Nat /\ disk[k].durable \in Nat /\ disk[k].first \in Nat
    BY <1>0, DiskTypes, SegmentTypes
  <2>2. k < n => disk[k].durable = Len(disk[k].recs) /\ ~disk[k].torn
    BY <1>0 DEF Chained, Whole
  <2>3. k = n => disk[k].durable <= Len(disk[k].recs)
    BY <1>0 DEF LastSegment, Cur
  <2> QED
    BY <1>0, <2>1, <2>2, <2>3
<1>4. ASSUME NEW k \in 1..m
      PROVE  /\ files[k] \in Segments /\ files[k].index = disk[k].index /\ files[k].first = disk[k].first
             /\ files[k].geometry = disk[k].geometry
             /\ disk[k].durable <= Len(files[k].recs) /\ Len(files[k].recs) <= Len(disk[k].recs)
             /\ \A i \in 1..Len(files[k].recs) : files[k].recs[i] = disk[k].recs[i]
             /\ k < n => files[k].recs = disk[k].recs /\ ~files[k].torn
  <2>1. k \in 1..n
    BY <1>0, <1>2
  <2> QED
    BY <1>1, <1>3, <2>1, LeafFields, SMTT(30)
<1>5. files \in Seq(Segments) /\ Len(files) = m /\ m > 0
  <2>1. files \in [1..m -> Segments]
    BY <1>1, <1>4
  <2>2. files \in Seq(Segments) /\ Len(files) = m
    BY <1>2, <2>1
  <2> QED
    BY <1>2, <2>2
<1>6. ReadsBack(files)
  <2>1. \A k \in 1..m : k < m => k < n
    BY <1>0, <1>2
  <2> QED
    BY <1>2, <1>4, <1>5, <2>1, CutReadsBack
<1>7. LastDecoded(files) = files[m].first + Len(files[m].recs) - 1
    BY <1>5 DEF LastDecoded, Last
<1>8. m \in 1..m /\ m \in 1..n /\ n \in 1..n /\ disk # <<>>
    BY <1>0, <1>2, <1>5
<1>9. files[m].first = disk[m].first /\ disk[m].durable <= Len(files[m].recs) /\ Len(files[m].recs) \in Nat
  <2>1. files[m] \in Segments /\ files[m].first = disk[m].first /\ disk[m].durable <= Len(files[m].recs)
    BY <1>4, <1>8
  <2> QED
    BY <2>1, SegmentTypes
<1>10. q.synced <= disk[n].first + disk[n].durable - 1 /\ (disk[n].recs = <<>> \/ disk[n].linked)
    BY <1>0, <1>8 DEF LastSegment, Cur
<1>11. q.synced <= disk[m].first + disk[m].durable - 1
  <2>1. CASE m = n
    BY <1>10, <2>1
  <2>2. CASE m # n
    <3>1. m = n - 1 /\ disk[n].recs = <<>> /\ n > 1
      BY <1>0, <1>2, <1>5, <1>10, <2>2
    <3>2. disk[n].durable = 0
      BY <1>3, <1>8, <3>1
    <3>3. disk[n].first = disk[n - 1].first + Len(disk[n - 1].recs)
      BY <1>0, <1>8, <3>1 DEF Chained, Chain
    <3>4. m < n /\ disk[m].durable = Len(disk[m].recs) /\ disk[m].first \in Nat
      BY <1>0, <1>3, <1>8, <3>1
    <3>5. disk[n].first = disk[m].first + Len(disk[m].recs)
      BY <3>1, <3>3
    <3>6. Len(disk[m].recs) \in Nat
      BY <1>3, <1>8
    <3>7. disk[m].first + Len(disk[m].recs) + 0 - 1 = disk[m].first + disk[m].durable - 1
      BY <3>4, <3>6
    <3> QED
      BY <1>10, <3>2, <3>5, <3>7
  <2> QED
    BY <2>1, <2>2
<1>12. disk[m].first + disk[m].durable - 1 <= LastDecoded(files) /\ LastDecoded(files) \in Int
    BY <1>3, <1>7, <1>8, <1>9, SMTT(30)
<1> QED
    BY <1>0, <1>3, <1>6, <1>8, <1>11, <1>12

\* Whenever the process dies or the machine loses power, what is left decodes as one
\* recording: a prefix of what was sequenced, with everything reported as synced.
THEOREM CrashReadableHolds == RecSpec => []CrashReadable
<1>1. RecInv => CrashReadable
    BY CrashReads DEF CrashReadable
<1> QED
    BY <1>1, RecInvHolds, PTL

(***************************************************************************)
(* The end that is reported                                                *)
(***************************************************************************)
\* Once the writer has ended, the files end where the appends did.
LEMMA DoneFiles ==
    ASSUME RecInv
    PROVE  FilesEndThere
<1>a. \A k \in 1..Len(disk) : k < Len(disk) \/ k = Len(disk)
  <2>1. Len(disk) \in Nat
    BY DiskTypes DEF RecInv
  <2> QED
    BY <2>1
<1> SUFFICES ASSUME q.done
             PROVE  /\ ReadsBack(disk) /\ LastDecoded(disk) >= q.appended
                    /\ ~w.uncut => /\ LastDecoded(disk) = q.appended
                                   /\ \A k \in DOMAIN disk : ~disk[k].torn
    BY DEF FilesEndThere
<1>0. /\ RecTypeOK /\ Chained /\ LastSegment /\ AtEnd /\ q.appended \in Nat /\ Len(disk) \in Nat
      /\ DOMAIN disk = 1..Len(disk)
    BY QueueTypes, DiskTypes DEF RecInv, Ends, WriterAt, Over
<1>1. CASE disk = <<>>
    BY <1>0, <1>1, DiskReadsBack DEF LastDecoded, LastSegment
<1>2. CASE disk # <<>>
  <2>1. Cur.first \in Nat /\ Len(Cur.recs) \in Nat /\ LastDecoded(disk) = CurEnd
    BY <1>0, <1>2, DiskTypes, SegmentTypes DEF LastDecoded, Last, CurEnd, Cur
  <2>2. q.appended <= CurEnd /\ CurEnd \in Int /\ (~w.uncut => q.appended = CurEnd /\ ~Cur.torn)
    BY <1>0, <1>2, <2>1 DEF AtEnd, CurEnd
  <2>3. ~w.uncut => \A k \in DOMAIN disk : ~disk[k].torn
    <3> SUFFICES ASSUME ~w.uncut, NEW k \in 1..Len(disk) PROVE ~disk[k].torn
      BY <1>0
    <3>1. CASE k < Len(disk)
      BY <1>0, <3>1 DEF Chained, Whole
    <3>2. CASE k = Len(disk)
      BY <2>2, <3>2 DEF Cur
    <3> QED
      BY <1>a, <3>1, <3>2
  <2> QED
    BY <1>0, <2>1, <2>2, <2>3, DiskReadsBack
<1> QED
    BY <1>1, <1>2

\* A recording that closed without a stop is whole.
LEMMA ClosedWhole ==
    ASSUME RecInv
    PROVE  CleanClose
<1> SUFFICES ASSUME closing = "closed", q.stopped = Nothing
             PROVE  q.done /\ q.appended = Len(sequenced) /\ q.synced = q.appended
    BY DEF CleanClose
<1>1. q.done /\ w.pc = "done" /\ InStep
    BY DEF RecInv, Ends
<1>2. Over /\ ~InHand
    BY <1>1 DEF Over, InHand
<1>3. q.backlog = <<>> /\ ~w.unsynced /\ q.synced = w.last /\ w.last = q.appended
    BY <1>1, <1>2 DEF InStep
<1>4. q.appended + Len(q.backlog) + 0 = Len(sequenced) /\ Len(q.backlog) = 0 /\ q.appended \in Nat
    BY <1>1, <1>2, <1>3, QueueTypes DEF InStep, RecInv
<1> QED
    BY <1>1, <1>3, <1>4

\* The end the recorder reports is the end of the files: a stop stands at the last
\* completed append, whoever stopped it and whatever failed on the way; the files hold what
\* was appended and, unless cutting back failed, nothing past it; and a close without a
\* stop has everything that was sequenced, synced.
THEOREM ReportedEndHolds == RecSpec => []ReportedEnd
<1>1. RecInv => ReportedEnd
    BY DoneFiles, ClosedWhole DEF ReportedEnd, StopStands, RecInv, Ends
<1> QED
    BY <1>1, RecInvHolds, PTL

(***************************************************************************)
(* The contract                                                            *)
(***************************************************************************)
\* A step that stops nothing and closes nothing.
Quiet == q'.stopped = q.stopped /\ told' = told /\ (closing' = "closed" <=> closing = "closed")

\* A step that stops the recorder, or finds it stopped, before it is closed.
Reports ==
    /\ closing # "closed" \/ q.stopped # Nothing
    /\ closing' = closing
    /\ \/ q.stopped # Nothing /\ q' = q /\ told' = told
       \/ q.stopped = Nothing /\ q'.stopped # Nothing /\ told' = Append(told, q'.stopped)

\* A stop by the writer, which has not ended, comes before the close.
LEMMA WriterReports ==
    ASSUME RecInv, NEW reason \in Reasons, Stop(reason), w.pc # "done", closing' = closing
    PROVE  Reports
<1>1. closing # "closed" \/ q.stopped # Nothing
    BY DEF RecInv, Ends
<1> QED
    BY <1>1, StopEffect DEF Reports

\* Producers stop only what still takes records.
LEMMA ProducersReport ==
    ASSUME RecInv, Producers
    PROVE  Quiet \/ Reports
<1>0. RecTypeOK /\ (closing # "open" => ~q.accepting) /\ q \in Queues
    BY DEF RecInv, Ends, RecTypeOK
<1>1. CASE ChildWrites \/ CaptureReads \/ ResizeApplies
    BY <1>1 DEF ChildWrites, CaptureReads, ResizeApplies, Quiet
<1>2. ASSUME NEW kind, NEW at, Enqueue(kind, at), closing' = closing
      PROVE  Quiet \/ Reports
  <2> DEFINE rec == [seq |-> Len(sequenced) + 1, kind |-> kind, size |-> at]
  <2>1. CASE (q.stopped # Nothing \/ ~q.accepting) /\ UNCHANGED <<sequenced, q, told>>
    BY <1>2, <2>1 DEF Quiet
  <2>2. CASE q.accepting /\ q.stopped = Nothing /\ \E reason \in Reasons : Stop(reason)
    <3>1. closing = "open"
      BY <1>0, <2>2
    <3> QED
      BY <1>2, <2>2, <3>1, StopEffect DEF Reports
  <2>3. CASE /\ q.stopped = Nothing /\ q.accepting
             /\ q' = [q EXCEPT !.backlog = Append(@, Offered(kind, at))] /\ UNCHANGED told
    BY <1>0, <1>2, <2>3 DEF Quiet, Queues
  <2>4. \/ (q.stopped # Nothing \/ ~q.accepting) /\ UNCHANGED <<sequenced, q, told>>
        \/ (\E reason \in Reasons : Stop(reason)) /\ UNCHANGED sequenced
        \/ /\ q.stopped = Nothing /\ q.accepting
           /\ sequenced' = Append(sequenced, Offered(kind, at))
           /\ q' = [q EXCEPT !.backlog = Append(@, Offered(kind, at))]
           /\ UNCHANGED told
    BY <1>0, <1>2, EnqueueCases
  <2>5. q.stopped # Nothing \/ ~q.accepting => UNCHANGED <<sequenced, q, told>>
    BY <1>2 DEF Enqueue
  <2> QED
    BY <2>1, <2>2, <2>3, <2>4, <2>5
<1>3. CASE Output \/ ResizeRecorded
    BY <1>2, <1>3 DEF Output, ResizeRecorded
<1> QED
    BY <1>1, <1>3 DEF Producers

\* The writer stops it through Shared::stop, while it runs.
LEMMA StorageReports ==
    ASSUME RecInv, Storage
    PROVE  Quiet \/ Reports
<1>0. q \in Queues /\ w.reason \in Reasons /\ {"size_limit", "write_failed"} \subseteq Reasons
    BY ThreadTypes DEF RecInv, RecTypeOK, Reasons
<1>1. CASE IdleSync \/ Prepare \/ PublishRenames \/ AppendPart \/ AppendRest \/ AppendFails
           \/ CutBack \/ CutBackFails \/ PeriodicSync
    BY <1>1 DEF IdleSync, Prepare, PublishRenames, AppendPart, AppendRest, AppendFails, CutBack,
           CutBackFails, PeriodicSync, Quiet
<1>2. CASE NextRecord
    BY <1>0, <1>2 DEF NextRecord, Queues, Quiet
<1>3. CASE PublishSyncs \/ Sync \/ WriterDone
  <2>1. told' = told /\ closing' = closing
    BY <1>3 DEF PublishSyncs, Sync, WriterDone
  <2>2. q'.stopped = q.stopped
    BY <1>0, <1>3 DEF PublishSyncs, Sync, WriterDone, Queues
  <2> QED
    BY <2>1, <2>2 DEF Quiet
<1>4. CASE PublishRefused \/ PublishFails
  <2>1. /\ closing' = closing /\ w.pc # "done"
        /\ UNCHANGED <<q, told>> \/ \E reason \in Reasons : Stop(reason)
    BY <1>0, <1>4 DEF PublishRefused, PublishFails, PublishFailed, WriterStops
  <2> QED
    BY <2>1, WriterReports DEF Quiet
<1>5. CASE SyncFails
  <2>1. /\ closing' = closing /\ w.pc # "done"
        /\ UNCHANGED <<q, told>> \/ \E reason \in Reasons : Stop(reason)
    BY <1>0, <1>5 DEF SyncFails
  <2> QED
    BY <2>1, WriterReports DEF Quiet
<1>6. CASE Settle
  <2>1. closing' = closing /\ w.pc # "done"
    BY <1>6 DEF Settle
  <2>2. CASE q.stopped # Nothing \/ w.reason # "none"
    <3>1. Stop(w.reason)
      BY <1>6, <2>2 DEF Settle
    <3> QED
      BY <1>0, <2>1, <3>1, WriterReports
  <2>3. CASE ~(q.stopped # Nothing \/ w.reason # "none")
    <3>1. q' = [q EXCEPT !.appended = w.rec.seq] /\ told' = told
      BY <1>6, <2>3 DEF Settle
    <3> QED
      BY <1>0, <2>1, <3>1 DEF Quiet, Queues
  <2> QED
    BY <2>2, <2>3
<1> QED
    BY <1>1, <1>2, <1>3, <1>4, <1>5, <1>6 DEF Storage

\* A step is the contract's, or the contract sees nothing of it.
LEMMA ContractStep ==
    ASSUME RecInv, [RecNext]_recVars
    PROVE  [Contract!ContractNext]_(Contract!contractVars)
<1> USE DEF Contract!ContractNext, Contract!ContractStop, Contract!ContractClose, Contract!Stops,
            Contract!contractVars, Contract!Recorded, Nothing
<1>1. CASE Quiet
    BY <1>1 DEF Quiet
<1>2. CASE Reports
    BY <1>2 DEF Reports
<1>3. CASE Finish
  <2>1. q'.stopped = q.stopped
    <3>1. q \in Queues
      BY DEF RecInv, RecTypeOK
    <3> QED
      BY <1>3, <3>1 DEF Finish, Queues
  <2> QED
    BY <1>3, <2>1 DEF Finish
<1>4. CASE FinishReturns
    BY <1>4 DEF FinishReturns
<1>5. CASE FinishTimesOut
  <2>1. Stop("stalled") /\ closing = "closing" /\ closing' = "closed" /\ "stalled" \in Reasons
    BY <1>5 DEF FinishTimesOut, Reasons
  <2>2. /\ q'.stopped # Nothing
        /\ q.stopped # Nothing => q' = q /\ told' = told
        /\ q.stopped = Nothing => told' = Append(told, q'.stopped)
    BY <2>1, StopEffect
  <2> QED
    BY <2>1, <2>2
<1>6. CASE UNCHANGED recVars
    BY <1>6 DEF recVars
<1> QED
    BY <1>1, <1>2, <1>3, <1>4, <1>5, <1>6, ProducersReport, StorageReports DEF RecNext, Closing

\* The recorder keeps the contract that the run's effects rely on: on_stop is called with
\* the stop as it happens, once, and never after finish has returned.
THEOREM ContractKept == RecSpec => KeepsContract
<1>1. RecInit => Contract!ContractInit
    BY DEF RecInit, Contract!ContractInit, Contract!Recorded, Nothing
<1>2. RecInv /\ [RecNext]_recVars => [Contract!ContractNext]_(Contract!contractVars)
    BY ContractStep
<1> QED
    BY <1>1, <1>2, RecInvHolds, PTL DEF RecSpec, KeepsContract, Contract!ContractSpec

(***************************************************************************)
(* RunEffects: types                                                       *)
(***************************************************************************)
Effects ==
    [kind : {"control"}, change : Changes, n : Nat]
    \cup [kind : {"revoked"}, change : {"revoke"}, n : Nat]
    \cup [kind : {"stopped", "flush"}]
Entries == Effects \cup [kind : {"running", "terminal"}]
Owners == {"agent", "human"}
Metas == [status : {"Starting", "Running", "Terminal"}, pty : BOOLEAN, control : Owners,
          rec : {"none", "recording", "stopped", "complete"}]
FxPcs == {"unborn", "recv", "lock", "write", "stopped"}
EffectsThreads == [pc : FxPcs, effect : Effects \cup {[kind |-> "none"]},
                   patch : Metas \cup {[status |-> "none"]}]

\* The guard's steps: while the run is served, and after the flush.
Serving == {"started", "write_running", "running_folded", "running", "again_folded", "supervising",
            "ending"}
Past == {"terminal_event", "terminal_meta", "terminal_folded", "ended", "unrecorded"}

Types ==
    /\ decided \in Seq(Changes \cup {"revoke"}) /\ chan \in Seq(Effects) /\ log \in Seq(Entries)
    /\ fx \in EffectsThreads /\ owner \in Owners /\ metaLock \in {"free", "effects", "guard"}
    /\ metaFile \in Metas /\ meta \in Metas /\ faults \in Nat /\ rclosed \in BOOLEAN
    /\ guard \in Serving \cup Past \cup {"adopted", "failed", "finished", "flushing"}

(***************************************************************************)
(* The inductive invariant                                                 *)
(***************************************************************************)
\* The queued effects of a kind, by their places.
Placed(kind) == {i \in DOMAIN chan : chan[i].kind = kind}

\* The effects thread lives from the start of the attach side to the flush, and the
\* recorder is closed before that.
Stages ==
    /\ guard \in {"adopted", "failed"} => fx.pc = "unborn"
    /\ guard \in Serving \cup {"finished"} => fx.pc \in {"recv", "lock", "write"} /\ Placed("flush") = {}
    /\ guard = "flushing" => fx.pc \in {"recv", "lock", "write", "stopped"}
    /\ guard \in Past => fx.pc \in {"unborn", "stopped"}
    /\ guard \in {"finished", "flushing"} \/ fx.pc = "stopped" => rclosed
    /\ fx.pc \in {"unborn", "stopped"} => chan = <<>>
    /\ fx.pc = "unborn" => ~meta.pty /\ decided = <<>> /\ rstop = Recorded

MetaLock ==
    /\ metaLock = "effects" <=> fx.pc = "write"
    /\ metaLock = "guard" <=> guard \in {"running_folded", "again_folded", "terminal_folded"}

\* Numbers grow along the log and on through the channel; there is one stop in both, and
\* none behind the flush.
Numbers == {"control", "revoked"}
Queued ==
    /\ \A i \in Placed("flush") : \A j \in DOMAIN chan : j > i => chan[j].kind \in Numbers
    /\ \A i, j \in DOMAIN chan :
          i < j /\ {chan[i].kind, chan[j].kind} \subseteq Numbers => chan[i].n < chan[j].n
    /\ \A i \in DOMAIN log, j \in DOMAIN chan :
          {log[i].kind, chan[j].kind} \subseteq Numbers => log[i].n < chan[j].n
    /\ \A i \in DOMAIN log : log[i].kind \in Numbers => log[i].n <= Len(decided)
    /\ \A j \in DOMAIN chan : chan[j].kind \in Numbers => chan[j].n <= Len(decided)
    /\ \A i, j \in Placed("stopped") : i = j
    /\ Facts("stopped") = {} \/ Placed("stopped") = {}
    /\ Facts("stopped") # {} \/ Placed("stopped") # {} => rstop # Recorded
    /\ rstop # Recorded /\ faults = 0 => Facts("stopped") # {} \/ Placed("stopped") # {}

Ordered ==
    /\ LogOrdered
    /\ guard \notin {"terminal_meta", "terminal_folded", "ended", "unrecorded"} => Facts("terminal") = {}

\* The owner is what the log says, but for a change that was logged and is to be patched.
OwnerFollows ==
    /\ fx.pc \in {"lock", "write"} => fx.effect \in Effects /\ fx.effect.kind \in {"control", "stopped"}
    /\ faults = 0 =>
          IF fx.pc = "lock" /\ fx.effect.kind = "control"
          THEN /\ Facts("control") # {}
               /\ \A i \in Facts("control") : IsLatest(i) => log[i].change = fx.effect.change
          ELSE OwnerLogged(owner)

\* A copy of meta.json that shows the run Running names the owner.
Fresh(m) == m.status = "Running" => m.pty /\ m.rec \in {"recording", "stopped"} /\ m.control = owner

Copies ==
    /\ metaFile.status = "Running" => metaFile.pty /\ metaFile.rec \in {"recording", "stopped"}
    /\ metaLock = "free" /\ faults = 0 => Fresh(metaFile)
    /\ fx.pc = "write" => fx.patch \in Metas
    /\ fx.pc = "write" /\ fx.patch.status = "Running" =>
          fx.patch.pty /\ fx.patch.rec \in {"recording", "stopped"}
    /\ fx.pc = "write" /\ faults = 0 => Fresh(fx.patch)
    /\ guard \in {"running_folded", "again_folded"} => meta.status = "Running" /\ Fresh(meta)
    /\ guard \in {"write_running", "running", "supervising"} => meta.status = "Running" /\ meta.pty

\* The stop is still to be patched.
StopComing == Placed("stopped") # {} \/ (fx.pc = "lock" /\ fx.effect.kind = "stopped")

\* A copy that shows the run Running shows the stop, or it is coming.
Knows(m) == rstop # Recorded /\ m.status = "Running" => m.rec = "stopped" \/ StopComing

StopKnown ==
    /\ metaLock = "free" /\ faults = 0 => Knows(metaFile)
    /\ fx.pc = "write" /\ faults = 0 => Knows(fx.patch)
    /\ guard \in {"running_folded", "again_folded"} /\ faults = 0 => Knows(meta)

\* The guard's copy is the final one after finish_recording and the flush.
Final ==
    /\ guard \in {"finished", "flushing"} \cup Past /\ meta.pty =>
          meta.rec = IF rstop = Recorded THEN "complete" ELSE "stopped"
    /\ guard \in Past /\ meta.pty => meta.control = owner /\ rclosed
    /\ guard \in {"terminal_meta", "terminal_folded", "ended", "unrecorded"} => meta.status = "Terminal"
    /\ guard = "ended" => metaFile = meta

EffectsInv ==
    Types /\ Stages /\ MetaLock /\ Queued /\ Ordered /\ OwnerFollows /\ Copies /\ StopKnown /\ Final

(***************************************************************************)
(* Facts about effects, the log and the channel                            *)
(***************************************************************************)

\* What an entry of the log or the channel holds.
LEMMA EntryTypes ==
    /\ Effects \subseteq Entries
    /\ \A e \in Effects : e.kind \in {"control", "revoked", "stopped", "flush"}
    /\ \A e \in Entries : /\ e.kind \in Numbers => e.n \in Nat
                          /\ e.kind = "control" => e.change \in Changes
    /\ [kind |-> "stopped"] \in Effects /\ [kind |-> "flush"] \in Effects
    /\ [kind |-> "running"] \in Entries /\ [kind |-> "terminal"] \in Entries
<1>1. ASSUME NEW e \in Entries
      PROVE  /\ e.kind \in Numbers => e.n \in Nat
             /\ e.kind = "control" => e.change \in Changes
    BY DEF Entries, Effects, Numbers
<1>2. \A e \in Effects : e.kind \in {"control", "revoked", "stopped", "flush"}
    BY DEF Effects
<1> QED
    BY <1>1, <1>2 DEF Entries, Effects

\* A sequence grows at its end.
LEMMA Grows ==
    ASSUME NEW S, NEW s \in Seq(S), NEW e \in S, NEW t, t = Append(s, e)
    PROVE  /\ t \in Seq(S) /\ Len(s) \in Nat /\ Len(t) = Len(s) + 1
           /\ DOMAIN s = 1..Len(s) /\ DOMAIN t = 1..(Len(s) + 1)
           /\ t[Len(s) + 1] = e /\ \A i \in DOMAIN s : t[i] = s[i]
OBVIOUS

\* A queue gives up its first.
LEMMA Shrinks ==
    ASSUME NEW S, NEW s \in Seq(S), s # <<>>
    PROVE  /\ Head(s) \in S /\ Head(s) = s[1] /\ Tail(s) \in Seq(S)
           /\ Len(s) \in Nat /\ Len(s) >= 1 /\ DOMAIN s = 1..Len(s)
           /\ DOMAIN Tail(s) = 1..(Len(s) - 1)
           /\ \A i \in DOMAIN Tail(s) : i + 1 \in DOMAIN s /\ Tail(s)[i] = s[i + 1]
OBVIOUS

\* The fields of the effects thread.
LEMMA FxTypes ==
    ASSUME fx \in EffectsThreads
    PROVE  /\ fx.pc \in FxPcs
           /\ \A p \in FxPcs : /\ [fx EXCEPT !.pc = p] \in EffectsThreads
                               /\ [fx EXCEPT !.pc = p].pc = p
                               /\ [fx EXCEPT !.pc = p].effect = fx.effect
                               /\ [fx EXCEPT !.pc = p].patch = fx.patch
           /\ \A p \in FxPcs, e \in Effects :
                  /\ [fx EXCEPT !.effect = e, !.pc = p] \in EffectsThreads
                  /\ [fx EXCEPT !.effect = e, !.pc = p].pc = p
                  /\ [fx EXCEPT !.effect = e, !.pc = p].effect = e
           /\ \A p \in FxPcs, m \in Metas :
                  /\ [fx EXCEPT !.pc = p, !.patch = m] \in EffectsThreads
                  /\ [fx EXCEPT !.pc = p, !.patch = m].pc = p
                  /\ [fx EXCEPT !.pc = p, !.patch = m].patch = m
                  /\ [fx EXCEPT !.pc = p, !.patch = m].effect = fx.effect
BY DEF EffectsThreads

\* The sidecar begins with nothing decided and nothing written.
LEMMA EffectsInitInv == EffectsInit => EffectsInv
<1> SUFFICES ASSUME EffectsInit PROVE EffectsInv
    OBVIOUS
<1> USE DEF EffectsInit
<1>1. /\ decided = <<>> /\ chan = <<>> /\ log = <<>> /\ DOMAIN log = {} /\ DOMAIN chan = {}
      /\ fx.pc = "unborn" /\ ~meta.pty /\ rstop = Recorded /\ metaFile.status = "Starting"
      /\ guard = "adopted" /\ rclosed = FALSE /\ owner = "agent" /\ metaLock = "free" /\ faults = 0
    BY DEF ContractInit
<1>2. Types
  <2>1. metaFile \in Metas /\ meta \in Metas /\ owner \in Owners
      BY DEF Metas, Owners
  <2>2. fx \in EffectsThreads
      BY DEF EffectsThreads, FxPcs
  <2>3. decided \in Seq(Changes \cup {"revoke"}) /\ chan \in Seq(Effects) /\ log \in Seq(Entries)
      BY <1>1
  <2>4. rclosed \in BOOLEAN
      BY DEF ContractInit
  <2>5. /\ metaLock \in {"free", "effects", "guard"} /\ faults \in Nat
        /\ guard \in Serving \cup Past \cup {"adopted", "failed", "finished", "flushing"}
      BY <1>1
  <2> QED
      BY <2>1, <2>2, <2>3, <2>4, <2>5 DEF Types
<1>3. \A k : Facts(k) = {} /\ Placed(k) = {}
    BY <1>1 DEF Facts, Placed
<1>4. Stages /\ MetaLock /\ Ordered /\ Final
    BY <1>1, <1>3 DEF Stages, MetaLock, Ordered, Final, Serving, Past, LogOrdered
<1>5. Queued
    BY <1>1, <1>3 DEF Queued
<1>6. OwnerFollows
    BY <1>1, <1>3 DEF OwnerFollows, OwnerLogged
<1>7. Copies /\ StopKnown
    BY <1>1 DEF Copies, StopKnown, Fresh, Knows
<1> QED
    BY <1>2, <1>4, <1>5, <1>6, <1>7 DEF EffectsInv

(***************************************************************************)
(* Deciding effects                                                        *)
(***************************************************************************)

\* What a send leaves in the channel.
LEMMA Sent ==
    ASSUME EffectsInv, NEW e \in Effects, Send(e)
    PROVE  /\ chan' \in Seq(Effects) /\ Len(chan) \in Nat /\ DOMAIN chan = 1..Len(chan)
           /\ fx.pc = "stopped" => chan' = chan
           /\ fx.pc # "stopped" => /\ DOMAIN chan' = 1..(Len(chan) + 1)
                                   /\ chan'[Len(chan) + 1] = e
           /\ \A i \in DOMAIN chan : i \in DOMAIN chan' /\ chan'[i] = chan[i]
           /\ \A i \in DOMAIN chan' : i \in DOMAIN chan \/ (i = Len(chan) + 1 /\ chan'[i] = e)
<1>1. chan \in Seq(Effects)
    BY DEF EffectsInv, Types
<1>2. CASE fx.pc = "stopped"
    BY <1>1, <1>2 DEF Send
<1>3. CASE fx.pc # "stopped"
    BY <1>1, <1>3, Grows DEF Send
<1> QED
    BY <1>2, <1>3

\* Control changes hands, or input is revoked.
LEMMA DecideKeeps ==
    ASSUME EffectsInv, NEW c \in Changes \cup {"revoke"}, Decide(c)
    PROVE  EffectsInv'
<1> DEFINE e == [kind |-> IF c \in Changes THEN "control" ELSE "revoked", change |-> c,
                 n |-> Len(decided) + 1]
<1>0. /\ Types /\ Stages /\ MetaLock /\ Queued /\ Ordered /\ OwnerFollows /\ Copies /\ StopKnown /\ Final
      /\ decided' = Append(decided, c) /\ Send(e) /\ Started
      /\ rstop' = rstop /\ rclosed' = rclosed /\ fx' = fx /\ owner' = owner /\ metaLock' = metaLock
      /\ metaFile' = metaFile /\ meta' = meta /\ guard' = guard /\ log' = log /\ faults' = faults
    BY DEF EffectsInv, Decide, contractVars
<1>1. /\ decided' \in Seq(Changes \cup {"revoke"}) /\ Len(decided) \in Nat
      /\ Len(decided') = Len(decided) + 1
    BY <1>0, Grows DEF Types
<1>2. e \in Effects /\ e.kind \in Numbers /\ e.n = Len(decided) + 1
  <2>1. CASE c \in Changes
    BY <1>1, <2>1 DEF Effects, Numbers
  <2>2. CASE c \notin Changes
    BY <1>1, <2>2 DEF Effects, Numbers
  <2> QED
    BY <2>1, <2>2
<1> HIDE DEF e
<1>3. /\ chan' \in Seq(Effects) /\ Len(chan) \in Nat /\ DOMAIN chan = 1..Len(chan)
      /\ fx.pc = "stopped" => chan' = chan
      /\ \A i \in DOMAIN chan : i \in DOMAIN chan' /\ chan'[i] = chan[i]
      /\ \A i \in DOMAIN chan' : i \in DOMAIN chan \/ (i = Len(chan) + 1 /\ chan'[i] = e)
    BY <1>0, <1>2, Sent
<1>4. /\ Placed("flush")' = Placed("flush") /\ Placed("stopped")' = Placed("stopped")
      /\ Placed("flush") \subseteq DOMAIN chan /\ Placed("stopped") \subseteq DOMAIN chan
    BY <1>2, <1>3 DEF Placed, Numbers
<1>5. /\ Facts("control")' = Facts("control") /\ Facts("revoked")' = Facts("revoked")
      /\ Facts("stopped")' = Facts("stopped") /\ Facts("terminal")' = Facts("terminal")
    BY <1>0 DEF Facts
<1>6. Types'
    BY <1>0, <1>1, <1>3 DEF Types
<1>7. Stages' /\ MetaLock' /\ Final'
    BY <1>0, <1>3, <1>4 DEF Stages, MetaLock, Final, Started
<1>8. Queued'
  <2>1. \A i \in DOMAIN log : log[i].kind \in Numbers => log[i].n \in Nat /\ log[i].n <= Len(decided)
    BY <1>0, EntryTypes DEF Queued, Types
  <2>2. \A i \in DOMAIN chan : chan[i].kind \in Numbers => chan[i].n \in Nat /\ chan[i].n <= Len(decided)
    BY <1>0, EntryTypes DEF Queued, Types
  <2>3. \A i \in Placed("flush") : \A j \in DOMAIN chan' : j > i => chan'[j].kind \in Numbers
    BY <1>0, <1>2, <1>3, <1>4 DEF Queued
  <2>4. \A i, j \in DOMAIN chan' :
          i < j /\ {chan'[i].kind, chan'[j].kind} \subseteq Numbers => chan'[i].n < chan'[j].n
    BY <1>0, <1>1, <1>2, <1>3, <2>2 DEF Queued
  <2>5. \A i \in DOMAIN log, j \in DOMAIN chan' :
          {log[i].kind, chan'[j].kind} \subseteq Numbers => log[i].n < chan'[j].n
    BY <1>0, <1>1, <1>2, <1>3, <2>1 DEF Queued
  <2>6. \A i \in DOMAIN chan' : chan'[i].kind \in Numbers => chan'[i].n <= Len(decided')
    BY <1>1, <1>2, <1>3, <2>2
  <2>7. \A i \in DOMAIN log : log[i].kind \in Numbers => log[i].n <= Len(decided')
    BY <1>1, <2>1
  <2> QED
    BY <1>0, <1>4, <1>5, <2>3, <2>4, <2>5, <2>6, <2>7 DEF Queued
<1>9. Ordered' /\ OwnerFollows'
    BY <1>0, <1>5 DEF Ordered, LogOrdered, OwnerFollows, OwnerLogged, IsLatest
<1>10. Copies' /\ StopKnown'
    BY <1>0, <1>4 DEF Copies, StopKnown, Fresh, Knows, StopComing
<1> QED
    BY <1>6, <1>7, <1>8, <1>9, <1>10 DEF EffectsInv

\* A stop is queued before any flush, and once.
LEMMA StopSent ==
    ASSUME EffectsInv, guard \in Serving, rstop = Recorded, rstop' # Recorded,
           Send([kind |-> "stopped"]), UNCHANGED <<log, faults, decided>>
    PROVE  /\ chan' \in Seq(Effects) /\ Queued' /\ Placed("flush")' = {} /\ Placed("stopped")' # {}
<1> DEFINE e == [kind |-> "stopped"]
<1>0. /\ Types /\ Stages /\ Queued /\ Placed("flush") = {} /\ fx.pc \notin {"stopped", "unborn"}
    BY DEF EffectsInv, Stages
<1>1. e \in Effects /\ e.kind = "stopped" /\ Send(e)
    BY EntryTypes
<1> HIDE DEF e
<1>2. /\ chan' \in Seq(Effects) /\ Len(chan) \in Nat /\ DOMAIN chan = 1..Len(chan)
      /\ DOMAIN chan' = 1..(Len(chan) + 1) /\ chan'[Len(chan) + 1] = e
      /\ \A i \in DOMAIN chan : i \in DOMAIN chan' /\ chan'[i] = chan[i]
      /\ \A i \in DOMAIN chan' : i \in DOMAIN chan \/ (i = Len(chan) + 1 /\ chan'[i] = e)
    BY <1>0, <1>1, Sent
<1>3. Placed("stopped") = {} /\ Facts("stopped") = {} /\ Facts("stopped")' = Facts("stopped")
    BY <1>0 DEF Queued, Facts
<1>4. Placed("flush")' = {} /\ Placed("stopped")' = {Len(chan) + 1}
    BY <1>0, <1>1, <1>2, <1>3 DEF Placed
<1>5. \A i, j \in DOMAIN chan' :
          i < j /\ {chan'[i].kind, chan'[j].kind} \subseteq Numbers => chan'[i].n < chan'[j].n
    BY <1>0, <1>1, <1>2 DEF Queued, Numbers
<1>6. \A i \in DOMAIN log, j \in DOMAIN chan' :
          {log[i].kind, chan'[j].kind} \subseteq Numbers => log[i].n < chan'[j].n
    BY <1>0, <1>1, <1>2 DEF Queued, Numbers
<1>7. \A i \in DOMAIN chan' : chan'[i].kind \in Numbers => chan'[i].n <= Len(decided)
    BY <1>0, <1>1, <1>2 DEF Queued, Numbers
<1> QED
    BY <1>0, <1>2, <1>3, <1>4, <1>5, <1>6, <1>7 DEF Queued

\* Facts of the log that no change of anything else disturbs.
LEMMA LogSame ==
    ASSUME log' = log
    PROVE  /\ Facts("control")' = Facts("control") /\ Facts("revoked")' = Facts("revoked")
           /\ Facts("stopped")' = Facts("stopped") /\ Facts("terminal")' = Facts("terminal")
           /\ LogOrdered' = LogOrdered
           /\ \A i : IsLatest(i)' = IsLatest(i)
           /\ \A o : OwnerLogged(o)' = OwnerLogged(o)
BY DEF Facts, LogOrdered, IsLatest, OwnerLogged

\* The recorder stops while it records.
LEMMA RecorderStopsKeeps ==
    ASSUME EffectsInv, RecorderStops
    PROVE  EffectsInv'
<1>0. /\ Types /\ Stages /\ MetaLock /\ Queued /\ Ordered /\ OwnerFollows /\ Copies /\ StopKnown /\ Final
      /\ rstop = Recorded /\ rstop' # Recorded /\ rclosed' = rclosed /\ ~rclosed /\ Started
      /\ Send([kind |-> "stopped"])
      /\ decided' = decided /\ fx' = fx /\ owner' = owner /\ metaLock' = metaLock
      /\ metaFile' = metaFile /\ meta' = meta /\ guard' = guard /\ log' = log /\ faults' = faults
    BY DEF EffectsInv, RecorderStops, ContractStop, Stops
<1>1. guard \in Serving /\ fx.pc \notin {"unborn", "stopped"}
    BY <1>0 DEF Stages, Types, Started
<1>2. /\ chan' \in Seq(Effects) /\ Queued' /\ Placed("flush")' = {} /\ Placed("stopped")' # {}
    BY <1>0, <1>1, StopSent
<1>3. Types'
    BY <1>0, <1>2 DEF Types
<1>4. Stages' /\ MetaLock' /\ Final'
    BY <1>0, <1>1, <1>2 DEF Stages, MetaLock, Final, Serving, Past
<1>5. Ordered' /\ OwnerFollows'
    BY <1>0, LogSame DEF Ordered, OwnerFollows
<1>6. Copies' /\ StopKnown'
    BY <1>0, <1>2 DEF Copies, StopKnown, Fresh, Knows, StopComing
<1> QED
    BY <1>2, <1>3, <1>4, <1>5, <1>6 DEF EffectsInv

(***************************************************************************)
(* The guard                                                               *)
(***************************************************************************)

\* A channel and a log that stay keep their order.
LEMMA QueueSame ==
    ASSUME chan' = chan, log' = log, decided' = decided, faults' = faults
    PROVE  /\ Placed("flush")' = Placed("flush") /\ Placed("stopped")' = Placed("stopped")
           /\ rstop' = rstop => Queued' = Queued
BY LogSame DEF Placed, Queued

\* finish_recording.
LEMMA FinishRecordingKeeps ==
    ASSUME EffectsInv, FinishRecording
    PROVE  EffectsInv'
<1>0. /\ Types /\ Stages /\ MetaLock /\ Queued /\ Ordered /\ OwnerFollows /\ Copies /\ StopKnown /\ Final
      /\ guard \in {"running", "supervising", "ending"} /\ guard' = "finished" /\ rclosed' = TRUE
      /\ (rstop = Recorded /\ rstop' # Recorded /\ Send([kind |-> "stopped"]))
         \/ (rstop' = rstop /\ chan' = chan)
      /\ meta' = IF meta.pty
                 THEN [meta EXCEPT !.rec = IF rstop' = Recorded THEN "complete" ELSE "stopped"]
                 ELSE meta
      /\ decided' = decided /\ fx' = fx /\ owner' = owner /\ metaLock' = metaLock
      /\ metaFile' = metaFile /\ log' = log /\ faults' = faults
    BY DEF EffectsInv, FinishRecording, ContractClose, Stops, Goto
<1>1. guard \in Serving /\ fx.pc \in {"recv", "lock", "write"} /\ Placed("flush") = {}
    BY <1>0 DEF Stages, Serving
<1>2. /\ chan' \in Seq(Effects) /\ Queued' /\ Placed("flush")' = {}
      /\ rstop' # rstop => Placed("stopped")' # {}
      /\ rstop' = rstop /\ rstop # Recorded => Placed("stopped")' = Placed("stopped")
  <2>1. CASE rstop = Recorded /\ rstop' # Recorded /\ Send([kind |-> "stopped"])
    BY <1>0, <1>1, <2>1, StopSent
  <2>2. CASE rstop' = rstop /\ chan' = chan
    BY <1>0, <1>1, <2>2, QueueSame DEF Types
  <2> QED
    BY <1>0, <2>1, <2>2
<1>3. /\ meta' \in Metas /\ meta'.pty = meta.pty
      /\ meta'.pty => meta'.rec = IF rstop' = Recorded THEN "complete" ELSE "stopped"
    BY <1>0 DEF Types, Metas
<1>4. Types'
    BY <1>0, <1>2, <1>3 DEF Types
<1>5. Stages' /\ MetaLock' /\ Final'
    BY <1>0, <1>1, <1>2, <1>3 DEF Stages, MetaLock, Final, Serving, Past
<1>6. Ordered' /\ OwnerFollows'
    BY <1>0, LogSame DEF Ordered, OwnerFollows
<1>7. Copies' /\ StopKnown'
    BY <1>0, <1>2 DEF Copies, StopKnown, Fresh, Knows, StopComing
<1> QED
    BY <1>2, <1>4, <1>5, <1>6, <1>7 DEF EffectsInv

\* The flush is the last of the guard's effects, and the first of its kind.
LEMMA TeardownKeeps ==
    ASSUME EffectsInv, Teardown
    PROVE  EffectsInv'
<1> DEFINE e == [kind |-> "flush"]
<1>0. /\ Types /\ Stages /\ MetaLock /\ Queued /\ Ordered /\ OwnerFollows /\ Copies /\ StopKnown /\ Final
      /\ guard = "finished" /\ guard' = "flushing" /\ Send(e)
      /\ rstop' = rstop /\ rclosed' = rclosed
      /\ decided' = decided /\ fx' = fx /\ owner' = owner /\ metaLock' = metaLock
      /\ metaFile' = metaFile /\ meta' = meta /\ log' = log /\ faults' = faults
    BY DEF EffectsInv, Teardown, Goto, contractVars
<1>1. fx.pc \in {"recv", "lock", "write"} /\ Placed("flush") = {} /\ rclosed
    BY <1>0 DEF Stages
<1>2. e \in Effects /\ e.kind = "flush" /\ Send(e)
    BY <1>0, EntryTypes
<1> HIDE DEF e
<1>3. /\ chan' \in Seq(Effects) /\ Len(chan) \in Nat /\ DOMAIN chan = 1..Len(chan)
      /\ DOMAIN chan' = 1..(Len(chan) + 1) /\ chan'[Len(chan) + 1] = e
      /\ \A i \in DOMAIN chan : i \in DOMAIN chan' /\ chan'[i] = chan[i]
      /\ \A i \in DOMAIN chan' : i \in DOMAIN chan \/ (i = Len(chan) + 1 /\ chan'[i] = e)
    BY <1>1, <1>2, Sent
<1>4. Placed("flush")' = {Len(chan) + 1} /\ Placed("stopped")' = Placed("stopped")
    BY <1>1, <1>2, <1>3 DEF Placed
<1>5. \A i, j \in DOMAIN chan' :
          i < j /\ {chan'[i].kind, chan'[j].kind} \subseteq Numbers => chan'[i].n < chan'[j].n
    BY <1>0, <1>2, <1>3 DEF Queued, Numbers
<1>6. \A i \in DOMAIN log, j \in DOMAIN chan' :
          {log[i].kind, chan'[j].kind} \subseteq Numbers => log[i].n < chan'[j].n
    BY <1>0, <1>2, <1>3 DEF Queued, Numbers
<1>7. \A i \in DOMAIN chan' : chan'[i].kind \in Numbers => chan'[i].n <= Len(decided)
    BY <1>0, <1>2, <1>3 DEF Queued, Numbers
<1>8. Queued'
    BY <1>0, <1>3, <1>4, <1>5, <1>6, <1>7, LogSame DEF Queued
<1>9. Types'
    BY <1>0, <1>3 DEF Types
<1>10. Stages' /\ MetaLock' /\ Final'
    BY <1>0, <1>1, <1>3 DEF Stages, MetaLock, Final, Serving, Past
<1>11. Ordered' /\ OwnerFollows'
    BY <1>0, LogSame DEF Ordered, OwnerFollows
<1>12. Copies' /\ StopKnown'
    BY <1>0, <1>4 DEF Copies, StopKnown, Fresh, Knows, StopComing
<1> QED
    BY <1>8, <1>9, <1>10, <1>11, <1>12 DEF EffectsInv

(***************************************************************************)
(* The effects thread                                                      *)
(***************************************************************************)

\* What taking an effect leaves in the channel.
LEMMA Taken ==
    ASSUME EffectsInv, chan # <<>>, chan' = Tail(chan)
    PROVE  /\ chan' \in Seq(Effects) /\ Head(chan) \in Effects /\ 1 \in DOMAIN chan /\ Head(chan) = chan[1]
           /\ DOMAIN chan \subseteq Nat \ {0}
           /\ \A i \in DOMAIN chan' : i \in Nat /\ i + 1 \in DOMAIN chan /\ i + 1 > 1 /\ chan'[i] = chan[i + 1]
           /\ \A i \in DOMAIN chan : i # 1 => i - 1 \in DOMAIN chan' /\ chan'[i - 1] = chan[i]
<1>1. chan \in Seq(Effects)
    BY DEF EffectsInv, Types
<1> QED
    BY <1>1, Shrinks

\* A fact is logged, or it is lost.
LEMMA FactLogged ==
    ASSUME EffectsInv, FxFact
    PROVE  /\ log' \in Seq(Entries) /\ Len(log) \in Nat /\ DOMAIN log = 1..Len(log)
           /\ \A i \in DOMAIN log : i \in DOMAIN log' /\ log'[i] = log[i]
           /\ \/ /\ faults' = faults /\ DOMAIN log' = 1..(Len(log) + 1)
                 /\ log'[Len(log) + 1] = Head(chan)
              \/ faults' = faults + 1 /\ log' = log
           /\ \A i \in DOMAIN log' : i \in DOMAIN log \/ (i = Len(log) + 1 /\ log'[i] = Head(chan))
<1>1. log \in Seq(Entries) /\ Head(chan) \in Entries
  <2>1. chan \in Seq(Effects) /\ chan # <<>> /\ log \in Seq(Entries)
    BY DEF EffectsInv, Types, FxFact
  <2> QED
    BY <2>1, Shrinks, EntryTypes
<1>2. CASE log' = Append(log, Head(chan)) /\ faults' = faults
    BY <1>1, <1>2, Grows
<1>3. CASE faults' = faults + 1 /\ log' = log
    BY <1>1, <1>3
<1> QED
    BY <1>2, <1>3 DEF FxFact, Fault

\* Taking the first effect and logging it keeps the order, and there is still one stop.
LEMMA FxFactOrder ==
    ASSUME EffectsInv, FxFact
    PROVE  Queued' /\ Ordered'
<1> DEFINE e == Head(chan)
<1>0. /\ Types /\ Stages /\ Queued /\ Ordered /\ chan # <<>> /\ chan' = Tail(chan) /\ e.kind # "flush"
      /\ decided' = decided /\ guard' = guard /\ rstop' = rstop /\ fx.pc = "recv" /\ faults \in Nat
    BY DEF EffectsInv, Types, FxFact, contractVars
<1>1. /\ e \in Effects /\ 1 \in DOMAIN chan /\ e = chan[1] /\ DOMAIN chan \subseteq Nat \ {0}
      /\ \A i \in DOMAIN chan' : i \in Nat /\ i + 1 \in DOMAIN chan /\ i + 1 > 1 /\ chan'[i] = chan[i + 1]
      /\ \A i \in DOMAIN chan : i # 1 => i - 1 \in DOMAIN chan' /\ chan'[i - 1] = chan[i]
    BY <1>0, Taken
<1>2. /\ Len(log) \in Nat /\ DOMAIN log = 1..Len(log)
      /\ \A i \in DOMAIN log : i \in DOMAIN log' /\ log'[i] = log[i]
      /\ \/ /\ faults' = faults /\ DOMAIN log' = 1..(Len(log) + 1)
            /\ log'[Len(log) + 1] = e
         \/ faults' = faults + 1 /\ log' = log
      /\ \A i \in DOMAIN log' : i \in DOMAIN log \/ (i = Len(log) + 1 /\ log'[i] = e)
    BY FactLogged
<1>3. e.kind \in {"control", "revoked", "stopped"}
    BY <1>0, <1>1, EntryTypes
<1>4. /\ \A i \in DOMAIN log : log[i].kind \in Numbers => log[i].n \in Nat
      /\ \A i \in DOMAIN chan : chan[i].kind \in Numbers => chan[i].n \in Nat
    BY <1>0, EntryTypes DEF Types
<1> HIDE DEF e
<1>5. \A i \in Placed("flush")' : \A j \in DOMAIN chan' : j > i => chan'[j].kind \in Numbers
    BY <1>0, <1>1 DEF Queued, Placed
<1>6. \A i, j \in DOMAIN chan' :
          i < j /\ {chan'[i].kind, chan'[j].kind} \subseteq Numbers => chan'[i].n < chan'[j].n
    BY <1>0, <1>1 DEF Queued
<1>7. \A i \in DOMAIN log', j \in DOMAIN chan' :
          {log'[i].kind, chan'[j].kind} \subseteq Numbers => log'[i].n < chan'[j].n
  <2> SUFFICES ASSUME NEW i \in DOMAIN log', NEW j \in DOMAIN chan',
                      {log'[i].kind, chan'[j].kind} \subseteq Numbers
               PROVE  log'[i].n < chan'[j].n
    OBVIOUS
  <2>1. j + 1 \in DOMAIN chan /\ 1 < j + 1 /\ chan'[j] = chan[j + 1]
    BY <1>1
  <2>2. CASE i \in DOMAIN log
    BY <1>0, <1>2, <2>1, <2>2 DEF Queued
  <2>3. CASE log'[i] = e
    BY <1>0, <1>1, <2>1, <2>3 DEF Queued
  <2> QED
    BY <1>2, <2>2, <2>3
<1>8. \A i \in DOMAIN log' : log'[i].kind \in Numbers => log'[i].n <= Len(decided)
    BY <1>0, <1>1, <1>2 DEF Queued
<1>9. \A j \in DOMAIN chan' : chan'[j].kind \in Numbers => chan'[j].n <= Len(decided)
    BY <1>0, <1>1 DEF Queued
<1>10. \A i, j \in Placed("stopped")' : i = j
    BY <1>0, <1>1 DEF Queued, Placed
<1>11. e.kind = "stopped" => /\ Placed("stopped")' = {} /\ Facts("stopped") = {} /\ rstop # Recorded
    BY <1>0, <1>1 DEF Queued, Placed, Facts
<1>12. ASSUME e.kind # "stopped"
       PROVE  /\ Facts("stopped")' = Facts("stopped")
              /\ Placed("stopped") = {} => Placed("stopped")' = {}
              /\ Placed("stopped") # {} => Placed("stopped")' # {}
  <2>1. Facts("stopped")' = Facts("stopped")
    BY <1>2, <1>12 DEF Facts
  <2>2. \A i \in Placed("stopped") : i - 1 \in Placed("stopped")'
    BY <1>1, <1>12 DEF Placed
  <2>3. \A i \in Placed("stopped")' : i + 1 \in Placed("stopped")
    BY <1>1 DEF Placed
  <2> QED
    BY <2>1, <2>2, <2>3
<1>13. /\ e.kind = "stopped" /\ faults' = faults => Facts("stopped")' = {Len(log) + 1}
       /\ e.kind = "stopped" /\ faults' # faults => Facts("stopped")' = {}
    BY <1>0, <1>2, <1>11 DEF Facts
<1>14. /\ Facts("stopped")' = {} \/ Placed("stopped")' = {}
       /\ Facts("stopped")' # {} \/ Placed("stopped")' # {} => rstop # Recorded
       /\ rstop # Recorded /\ faults' = 0 => Facts("stopped")' # {} \/ Placed("stopped")' # {}
  <2>0. faults' = 0 => faults = 0 /\ faults' = faults
    BY <1>0, <1>2
  <2>1. CASE e.kind = "stopped"
    BY <2>0, <2>1, <1>11, <1>13
  <2>2. CASE e.kind # "stopped"
    BY <1>0, <2>0, <2>2, <1>12 DEF Queued
  <2> QED
    BY <2>1, <2>2
<1>15. Queued'
    BY <1>0, <1>5, <1>6, <1>7, <1>8, <1>9, <1>10, <1>14 DEF Queued
<1>16. guard \notin {"terminal_meta", "terminal_folded", "ended", "unrecorded"}
    BY <1>0 DEF Stages, Past
<1>17. Facts("terminal")' = {}
    BY <1>0, <1>2, <1>3, <1>16 DEF Ordered, Facts
<1>18. \A i, j \in (Facts("control") \cup Facts("revoked"))' : i < j => log'[i].n < log'[j].n
  <2> SUFFICES ASSUME NEW i \in DOMAIN log', NEW j \in DOMAIN log', i < j,
                      log'[i].kind \in Numbers, log'[j].kind \in Numbers
               PROVE  log'[i].n < log'[j].n
    BY DEF Facts, Numbers
  <2>1. i \in DOMAIN log
    BY <1>2
  <2>2. CASE j \in DOMAIN log
    BY <1>0, <1>2, <2>1, <2>2 DEF Ordered, LogOrdered, Facts, Numbers
  <2>3. CASE log'[j] = e
    BY <1>0, <1>1, <1>2, <2>1, <2>3 DEF Queued
  <2> QED
    BY <1>2, <2>2, <2>3
<1>19. \A i, j \in Facts("stopped")' : i = j
    BY <1>0, <1>2, <1>12, <1>13 DEF Ordered, LogOrdered
<1> QED
    BY <1>0, <1>15, <1>16, <1>17, <1>18, <1>19 DEF Ordered, LogOrdered

\* The owner follows the log: a change that was logged is at hand.
LEMMA FxFactOwner ==
    ASSUME EffectsInv, FxFact
    PROVE  OwnerFollows'
<1> DEFINE e == Head(chan)
<1>0. /\ Types /\ OwnerFollows /\ chan # <<>> /\ e.kind # "flush" /\ owner' = owner
      /\ fx.pc = "recv" /\ faults \in Nat /\ chan' = Tail(chan)
      /\ fx' = [fx EXCEPT !.effect = e, !.pc = IF e.kind = "revoked" THEN "recv" ELSE "lock"]
    BY DEF EffectsInv, Types, FxFact
<1>1. e \in Effects /\ e.kind \in {"control", "revoked", "stopped"}
    BY <1>0, Taken, EntryTypes
<1>2. /\ Len(log) \in Nat /\ DOMAIN log = 1..Len(log)
      /\ \A i \in DOMAIN log : i \in DOMAIN log' /\ log'[i] = log[i]
      /\ \/ /\ faults' = faults /\ DOMAIN log' = 1..(Len(log) + 1)
            /\ log'[Len(log) + 1] = e
         \/ faults' = faults + 1 /\ log' = log
      /\ \A i \in DOMAIN log' : i \in DOMAIN log \/ (i = Len(log) + 1 /\ log'[i] = e)
    BY FactLogged
<1> HIDE DEF e
<1>3. fx'.pc = (IF e.kind = "revoked" THEN "recv" ELSE "lock") /\ fx'.effect = e
    BY <1>0, <1>1 DEF Types, EffectsThreads
<1>4. ASSUME faults' = 0
      PROVE  IF fx'.pc = "lock" /\ fx'.effect.kind = "control"
             THEN /\ Facts("control")' # {}
                  /\ \A i \in Facts("control")' : IsLatest(i)' => log'[i].change = fx'.effect.change
             ELSE OwnerLogged(owner)'
  <2>1. /\ faults' = faults /\ DOMAIN log' = 1..(Len(log) + 1) /\ log'[Len(log) + 1] = e
        /\ OwnerLogged(owner)
    BY <1>0, <1>2, <1>4 DEF OwnerFollows
  <2>2. CASE e.kind = "control"
    <3>1. Len(log) + 1 \in Facts("control")' /\ \A i \in Facts("control")' : i \in 1..(Len(log) + 1)
      BY <1>2, <2>1, <2>2 DEF Facts
    <3>2. \A i \in Facts("control")' : IsLatest(i)' => i = Len(log) + 1
      BY <1>2, <3>1 DEF IsLatest
    <3> QED
      BY <1>3, <2>1, <2>2, <3>1, <3>2
  <2>3. CASE e.kind # "control"
    <3>1. Facts("control")' = Facts("control") /\ \A i \in Facts("control") : log'[i] = log[i]
      BY <1>2, <2>1, <2>3 DEF Facts
    <3> QED
      BY <1>0, <1>3, <2>1, <2>3, <3>1 DEF OwnerLogged, IsLatest
  <2> QED
    BY <2>2, <2>3
<1> QED
    BY <1>1, <1>3, <1>4 DEF OwnerFollows

\* A fact is taken from the channel.
LEMMA FxFactKeeps ==
    ASSUME EffectsInv, FxFact
    PROVE  EffectsInv'
<1> DEFINE e == Head(chan)
<1>0. /\ Types /\ Stages /\ MetaLock /\ Copies /\ StopKnown /\ Final
      /\ fx.pc = "recv" /\ chan # <<>> /\ e.kind # "flush" /\ chan' = Tail(chan)
      /\ fx' = [fx EXCEPT !.effect = e, !.pc = IF e.kind = "revoked" THEN "recv" ELSE "lock"]
      /\ rstop' = rstop /\ rclosed' = rclosed /\ decided' = decided /\ owner' = owner
      /\ metaLock' = metaLock /\ metaFile' = metaFile /\ meta' = meta /\ guard' = guard
      /\ fx \in EffectsThreads /\ faults \in Nat
    BY DEF EffectsInv, Types, FxFact, contractVars
<1>1. /\ chan' \in Seq(Effects) /\ e \in Effects /\ 1 \in DOMAIN chan /\ e = chan[1]
      /\ DOMAIN chan \subseteq Nat \ {0}
      /\ \A i \in DOMAIN chan' : i \in Nat /\ i + 1 \in DOMAIN chan /\ i + 1 > 1 /\ chan'[i] = chan[i + 1]
      /\ \A i \in DOMAIN chan : i # 1 => i - 1 \in DOMAIN chan' /\ chan'[i - 1] = chan[i]
    BY <1>0, Taken
<1>2. log' \in Seq(Entries) /\ faults' \in {faults, faults + 1}
    BY FactLogged
<1> HIDE DEF e
<1>3. /\ fx' \in EffectsThreads /\ fx'.effect = e
      /\ fx'.pc = IF e.kind = "revoked" THEN "recv" ELSE "lock"
    BY <1>0, <1>1 DEF EffectsThreads, FxPcs
<1>4. Types'
    BY <1>0, <1>1, <1>2, <1>3 DEF Types
<1>5. Placed("flush") = {} => Placed("flush")' = {}
    BY <1>1 DEF Placed
<1>6. Stages'
    BY <1>0, <1>3, <1>5 DEF Stages
<1>7. MetaLock' /\ Final' /\ Copies'
    BY <1>0, <1>2, <1>3 DEF MetaLock, Final, Copies, Fresh
<1>8. StopComing => StopComing'
  <2>1. ASSUME NEW i \in Placed("stopped") PROVE i = 1 \/ Placed("stopped")' # {}
    BY <1>1 DEF Placed
  <2>2. 1 \in Placed("stopped") => e.kind = "stopped"
    BY <1>1 DEF Placed
  <2> QED
    BY <1>0, <1>3, <2>1, <2>2 DEF StopComing
<1>9. StopKnown'
    BY <1>0, <1>2, <1>3, <1>8 DEF StopKnown, Knows
<1> QED
    BY <1>4, <1>6, <1>7, <1>9, FxFactOrder, FxFactOwner DEF EffectsInv

\* The owner is published and the patch made, under META_WRITE.
LEMMA FxPatchKeeps ==
    ASSUME EffectsInv, FxPatch
    PROVE  EffectsInv'
<1> DEFINE control == fx.effect.kind = "control"
           o == IF control THEN OwnerAfter(fx.effect.change) ELSE owner
           p == CASE control /\ metaFile.pty -> [metaFile EXCEPT !.control = o]
                  [] ~control /\ metaFile.rec # "none" -> [metaFile EXCEPT !.rec = "stopped"]
                  [] OTHER -> metaFile
<1>0. /\ Types /\ Stages /\ MetaLock /\ Queued /\ Ordered /\ OwnerFollows /\ Copies /\ StopKnown /\ Final
      /\ fx.pc = "lock" /\ metaLock = "free" /\ metaLock' = "effects" /\ owner' = o
      /\ fx' = [fx EXCEPT !.pc = "write", !.patch = p]
      /\ rstop' = rstop /\ rclosed' = rclosed /\ decided' = decided /\ chan' = chan
      /\ metaFile' = metaFile /\ meta' = meta /\ guard' = guard /\ log' = log /\ faults' = faults
      /\ fx \in EffectsThreads /\ metaFile \in Metas /\ fx.effect \in Effects
      /\ fx.effect.kind \in {"control", "stopped"}
    BY DEF EffectsInv, Types, FxPatch, contractVars, OwnerFollows
<1>1. o \in Owners /\ p \in Metas /\ p.status = metaFile.status
    BY <1>0, EntryTypes DEF Owners, OwnerAfter, Types, Metas
<1>2. /\ control /\ metaFile.pty => p.control = o /\ p.pty /\ p.rec = metaFile.rec
      /\ ~control /\ metaFile.rec # "none" =>
            p.rec = "stopped" /\ p.control = metaFile.control /\ p.pty = metaFile.pty
    BY <1>0 DEF Metas
<1>3. control => o = OwnerAfter(fx.effect.change)
    OBVIOUS
<1>31. ~control => o = owner
    OBVIOUS
<1> HIDE DEF o, p
<1>4. fx' \in EffectsThreads /\ fx'.pc = "write" /\ fx'.effect = fx.effect /\ fx'.patch = p
    BY <1>0, <1>1, FxTypes DEF FxPcs
<1>5. Types'
    BY <1>0, <1>1, <1>4 DEF Types
<1>6. Queued' /\ Placed("flush")' = Placed("flush") /\ Placed("stopped")' = Placed("stopped")
    BY <1>0, QueueSame
<1>7. guard \notin Past \cup {"adopted", "failed", "running_folded", "again_folded"}
    BY <1>0 DEF Stages, MetaLock
<1>8. Stages' /\ MetaLock' /\ Final'
    BY <1>0, <1>4, <1>6, <1>7 DEF Stages, MetaLock, Final, Past
<1>9. Ordered' /\ \A x : OwnerLogged(x)' = OwnerLogged(x)
    BY <1>0, LogSame DEF Ordered
<1>10. OwnerFollows'
  <2>1. ASSUME faults = 0 PROVE OwnerLogged(o)
    BY <1>0, <1>3, <1>31, <2>1 DEF OwnerFollows, OwnerLogged
  <2> QED
    BY <1>0, <1>4, <1>9, <2>1 DEF OwnerFollows
<1>11. Copies'
  <2>1. p.status = "Running" => p.pty /\ p.rec \in {"recording", "stopped"}
    BY <1>0, <1>1, <1>2 DEF Copies
  <2>2. faults = 0 /\ p.status = "Running" => p.control = o
    BY <1>0, <1>1, <1>2, <1>31 DEF Copies, Fresh
  <2> QED
    BY <1>0, <1>1, <1>4, <1>7, <2>1, <2>2 DEF Copies, Fresh
<1>12. StopKnown'
  <2>1. ASSUME faults = 0, rstop # Recorded, p.status = "Running"
        PROVE  p.rec = "stopped" \/ Placed("stopped") # {}
    BY <1>0, <1>1, <1>2, <2>1 DEF StopKnown, Knows, StopComing, Copies
  <2> QED
    BY <1>0, <1>4, <1>6, <1>7, <2>1 DEF StopKnown, Knows, StopComing
<1> QED
    BY <1>5, <1>6, <1>8, <1>9, <1>10, <1>11, <1>12 DEF EffectsInv

\* The patch is written, or the write fails.
LEMMA FxWriteKeeps ==
    ASSUME EffectsInv, FxWrite
    PROVE  EffectsInv'
<1>0. /\ Types /\ Stages /\ MetaLock /\ Queued /\ Ordered /\ OwnerFollows /\ Copies /\ StopKnown /\ Final
      /\ fx.pc = "write" /\ metaLock' = "free" /\ fx' = [fx EXCEPT !.pc = "recv"]
      /\ (metaFile' = fx.patch /\ faults' = faults) \/ (faults' = faults + 1 /\ metaFile' = metaFile)
      /\ rstop' = rstop /\ rclosed' = rclosed /\ decided' = decided /\ chan' = chan
      /\ owner' = owner /\ meta' = meta /\ guard' = guard /\ log' = log
      /\ fx \in EffectsThreads /\ fx.patch \in Metas /\ metaFile \in Metas /\ faults \in Nat
    BY DEF EffectsInv, Types, FxWrite, contractVars, Copies, Fault
<1>1. fx' \in EffectsThreads /\ fx'.pc = "recv" /\ fx'.effect = fx.effect
    BY <1>0, FxTypes DEF FxPcs
<1>2. Types'
    BY <1>0, <1>1 DEF Types
<1>3. Placed("flush")' = Placed("flush") /\ Placed("stopped")' = Placed("stopped")
    BY <1>0 DEF Placed
<1>4. metaLock = "effects" /\ guard \notin Past \cup {"adopted", "failed", "running_folded", "again_folded"}
    BY <1>0 DEF Stages, MetaLock
<1>5. faults' = 0 => faults = 0 /\ metaFile' = fx.patch
    BY <1>0
<1>6. Queued'
    BY <1>0, <1>3, <1>5, LogSame DEF Queued
<1>7. Stages' /\ MetaLock' /\ Final'
    BY <1>0, <1>1, <1>3, <1>4 DEF Stages, MetaLock, Final, Past
<1>8. Ordered' /\ OwnerFollows'
    BY <1>0, <1>1, <1>5, LogSame DEF Ordered, OwnerFollows
<1>9. Copies'
    BY <1>0, <1>1, <1>4, <1>5 DEF Copies, Fresh
<1>10. StopKnown'
    BY <1>0, <1>1, <1>3, <1>4, <1>5 DEF StopKnown, Knows, StopComing
<1> QED
    BY <1>2, <1>6, <1>7, <1>8, <1>9, <1>10 DEF EffectsInv

\* The flush: no stop is dropped with what is queued behind it.
LEMMA FxFlushKeeps ==
    ASSUME EffectsInv, FxFlush
    PROVE  EffectsInv'
<1>0. /\ Types /\ Stages /\ MetaLock /\ Queued /\ Ordered /\ OwnerFollows /\ Copies /\ StopKnown /\ Final
      /\ fx.pc = "recv" /\ chan # <<>> /\ Head(chan).kind = "flush" /\ chan' = <<>>
      /\ fx' = [fx EXCEPT !.pc = "stopped"] /\ chan \in Seq(Effects)
      /\ rstop' = rstop /\ rclosed' = rclosed /\ decided' = decided /\ owner' = owner /\ metaLock' = metaLock
      /\ metaFile' = metaFile /\ meta' = meta /\ guard' = guard /\ log' = log /\ faults' = faults
    BY DEF EffectsInv, Types, FxFlush, contractVars
<1>1. fx' \in EffectsThreads /\ fx'.pc = "stopped" /\ fx'.effect = fx.effect
    BY <1>0, FxTypes DEF Types, FxPcs
<1>2. 1 \in DOMAIN chan /\ chan[1].kind = "flush" /\ \A i \in DOMAIN chan : i # 1 => i > 1
    BY <1>0, Shrinks
<1>3. Placed("stopped") = {} /\ Placed("flush") # {}
    BY <1>0, <1>2 DEF Queued, Placed, Numbers
<1>4. DOMAIN chan' = {} /\ Placed("stopped")' = {} /\ Placed("flush")' = {}
    BY <1>0 DEF Placed
<1>5. guard = "flushing"
    BY <1>0, <1>3 DEF Stages, Types
<1>6. Types'
    BY <1>0, <1>1 DEF Types
<1>7. Stages' /\ MetaLock' /\ Final'
    BY <1>0, <1>1, <1>4, <1>5 DEF Stages, MetaLock, Final, Serving, Past
<1>8. Queued'
    BY <1>0, <1>3, <1>4, LogSame DEF Queued
<1>9. Ordered' /\ OwnerFollows'
    BY <1>0, <1>1, LogSame DEF Ordered, OwnerFollows
<1>10. Copies' /\ StopKnown'
    BY <1>0, <1>1, <1>3, <1>4, <1>5 DEF Copies, Fresh, StopKnown, Knows, StopComing
<1> QED
    BY <1>6, <1>7, <1>8, <1>9, <1>10 DEF EffectsInv

(***************************************************************************)
(* The guard's record                                                      *)
(***************************************************************************)

\* The attach side starts, or not.
LEMMA StartPtyKeeps ==
    ASSUME EffectsInv, StartPty
    PROVE  EffectsInv'
<1>0. /\ Types /\ Stages /\ MetaLock /\ Queued /\ Ordered /\ OwnerFollows /\ Copies /\ StopKnown /\ Final
      /\ guard = "adopted" /\ fx.pc = "unborn" /\ chan = <<>>
      /\ (guard' = "started" /\ fx' = [fx EXCEPT !.pc = "recv"]) \/ (guard' = "failed" /\ fx' = fx)
      /\ rstop' = rstop /\ rclosed' = rclosed /\ decided' = decided /\ chan' = chan
      /\ owner' = owner /\ metaLock' = metaLock
      /\ metaFile' = metaFile /\ meta' = meta /\ log' = log /\ faults' = faults
    BY DEF EffectsInv, StartPty, Goto, contractVars, Stages
<1>1. /\ fx' \in EffectsThreads /\ fx'.effect = fx.effect
      /\ fx'.pc = IF guard' = "started" THEN "recv" ELSE "unborn"
  <2>0. fx \in EffectsThreads
    BY <1>0 DEF Types
  <2>1. CASE guard' = "started" /\ fx' = [fx EXCEPT !.pc = "recv"]
    <3>1. fx' \in EffectsThreads /\ fx'.pc = "recv" /\ fx'.effect = fx.effect
      BY <2>0, <2>1, FxTypes DEF FxPcs
    <3> QED
      BY <2>1, <3>1
  <2>2. CASE guard' = "failed" /\ fx' = fx
    BY <1>0, <2>2 DEF Types
  <2> QED
    BY <1>0, <2>1, <2>2
<1>2. Types'
    BY <1>0, <1>1 DEF Types, Serving
<1>3. Queued' /\ Placed("flush")' = Placed("flush") /\ Placed("stopped")' = Placed("stopped") /\ Placed("flush") = {}
    BY <1>0, QueueSame DEF Placed
<1>4. Stages' /\ MetaLock' /\ Final'
    BY <1>0, <1>1, <1>3 DEF Stages, MetaLock, Final, Serving, Past
<1>5. Ordered' /\ OwnerFollows'
    BY <1>0, <1>1, LogSame DEF Ordered, OwnerFollows
<1>6. Copies' /\ StopKnown'
    BY <1>0, <1>1, <1>3 DEF Copies, Fresh, StopKnown, Knows, StopComing
<1> QED
    BY <1>2, <1>3, <1>4, <1>5, <1>6 DEF EffectsInv

\* An entry that is no effect leaves the effects' order.
LEMMA LogOther ==
    ASSUME EffectsInv, NEW e \in Entries, e.kind \in {"running", "terminal"}, log' = Append(log, e),
           chan' = chan, decided' = decided, rstop' = rstop, faults' = faults,
           Facts("terminal") = {}
    PROVE  /\ log' \in Seq(Entries) /\ Queued' /\ LogOrdered'
           /\ e.kind = "running" => Facts("terminal")' = {}
           /\ Facts("control")' = Facts("control") /\ \A i \in Facts("control") : log'[i] = log[i]
           /\ Placed("flush")' = Placed("flush") /\ Placed("stopped")' = Placed("stopped")
<1>0. /\ Types /\ Queued /\ Ordered
    BY DEF EffectsInv
<1>1. /\ log' \in Seq(Entries) /\ Len(log) \in Nat /\ DOMAIN log = 1..Len(log) /\ Len(log') = Len(log) + 1
      /\ DOMAIN log' = 1..(Len(log) + 1) /\ log'[Len(log) + 1] = e
      /\ \A i \in DOMAIN log : log'[i] = log[i]
    BY <1>0, Grows DEF Types
<1>2. /\ Facts("control")' = Facts("control") /\ Facts("stopped")' = Facts("stopped")
      /\ Facts("revoked")' = Facts("revoked")
      /\ \A i \in Facts("control") \cup Facts("revoked") : i \in DOMAIN log
    BY <1>1 DEF Facts
<1>3. Facts("terminal")' = IF e.kind = "terminal" THEN {Len(log) + 1} ELSE {}
    BY <1>1 DEF Facts
<1>4. \A i \in DOMAIN log' : log'[i].kind \in Numbers => i \in DOMAIN log /\ log'[i] = log[i]
    BY <1>1 DEF Numbers
<1>5. Placed("flush")' = Placed("flush") /\ Placed("stopped")' = Placed("stopped")
    BY DEF Placed
<1>6. LogOrdered'
    BY <1>0, <1>1, <1>2, <1>3 DEF Ordered, LogOrdered
<1>7. Queued'
  <2>1. \A i \in DOMAIN log', j \in DOMAIN chan :
           {log'[i].kind, chan[j].kind} \subseteq Numbers => log'[i].n < chan[j].n
    BY <1>0, <1>4 DEF Queued
  <2>2. \A i \in DOMAIN log' : log'[i].kind \in Numbers => log'[i].n <= Len(decided)
    BY <1>0, <1>4 DEF Queued
  <2> QED
    BY <1>0, <1>2, <1>5, <2>1, <2>2 DEF Queued
<1> QED
    BY <1>1, <1>2, <1>3, <1>5, <1>6, <1>7

\* The run becomes Running in the guard's copy, or ends before that.
LEMMA PublishRunningKeeps ==
    ASSUME EffectsInv, PublishRunning
    PROVE  EffectsInv'
<1>0. /\ Types /\ Stages /\ MetaLock /\ Queued /\ Ordered /\ OwnerFollows /\ Copies /\ StopKnown /\ Final
      /\ guard = "started"
      /\ rstop' = rstop /\ rclosed' = rclosed /\ decided' = decided /\ chan' = chan /\ fx' = fx
      /\ owner' = owner /\ metaLock' = metaLock /\ metaFile' = metaFile /\ faults' = faults
    BY DEF EffectsInv, PublishRunning, contractVars
<1>1. CASE /\ meta' = [meta EXCEPT !.status = "Running", !.pty = TRUE]
           /\ log' = Append(log, [kind |-> "running"]) /\ guard' = "write_running"
  <2>1. Facts("terminal") = {}
    BY <1>0 DEF Ordered
  <2>2. /\ log' \in Seq(Entries) /\ Queued' /\ LogOrdered' /\ Facts("terminal")' = {}
        /\ Facts("control")' = Facts("control") /\ \A i \in Facts("control") : log'[i] = log[i]
        /\ Placed("flush")' = Placed("flush") /\ Placed("stopped")' = Placed("stopped")
    BY <1>0, <1>1, <2>1, LogOther, EntryTypes
  <2>3. meta' \in Metas /\ meta'.status = "Running" /\ meta'.pty
    BY <1>0, <1>1 DEF Types, Metas
  <2>4. Types'
    BY <1>0, <1>1, <2>2, <2>3 DEF Types, Serving
  <2>5. Stages' /\ MetaLock' /\ Final'
    BY <1>0, <1>1, <2>2 DEF Stages, MetaLock, Final, Serving, Past
  <2>6. Ordered' /\ OwnerFollows'
    BY <1>0, <1>1, <2>2 DEF Ordered, OwnerFollows, OwnerLogged, IsLatest
  <2>7. Copies' /\ StopKnown'
    BY <1>0, <1>1, <2>2, <2>3 DEF Copies, Fresh, StopKnown, Knows, StopComing
  <2> QED
    BY <2>2, <2>4, <2>5, <2>6, <2>7 DEF EffectsInv
<1>2. CASE guard' = "ending" /\ meta' = meta /\ log' = log
  <2>1. Queued' /\ Placed("flush")' = Placed("flush") /\ Placed("stopped")' = Placed("stopped")
    BY <1>0, <1>2, QueueSame
  <2>2. Types'
    BY <1>0, <1>2 DEF Types, Serving
  <2>3. Stages' /\ MetaLock' /\ Final'
    BY <1>0, <1>2, <2>1 DEF Stages, MetaLock, Final, Serving, Past
  <2>4. Ordered' /\ OwnerFollows'
    BY <1>0, <1>2, LogSame DEF Ordered, OwnerFollows
  <2>5. Copies' /\ StopKnown'
    BY <1>0, <1>2, <2>1 DEF Copies, Fresh, StopKnown, Knows, StopComing
  <2> QED
    BY <2>1, <2>2, <2>3, <2>4, <2>5 DEF EffectsInv
<1> QED
    BY <1>1, <1>2 DEF PublishRunning, Goto

\* write_meta folds in the owner and the recording, under META_WRITE.
LEMMA FoldMetaKeeps ==
    ASSUME EffectsInv, NEW to \in {"running_folded", "again_folded"},
           guard \in {"write_running", "running"}, FoldMeta(to)
    PROVE  EffectsInv'
<1>0. /\ Types /\ Stages /\ MetaLock /\ Queued /\ Ordered /\ OwnerFollows /\ Copies /\ StopKnown /\ Final
      /\ metaLock = "free" /\ metaLock' = "guard" /\ guard' = to /\ meta.pty /\ meta.status = "Running"
      /\ meta' = [meta EXCEPT !.control = owner,
                              !.rec = IF rstop = Recorded THEN "recording" ELSE "stopped"]
      /\ rstop' = rstop /\ rclosed' = rclosed /\ decided' = decided /\ chan' = chan /\ fx' = fx
      /\ owner' = owner /\ metaFile' = metaFile /\ log' = log /\ faults' = faults
    BY DEF EffectsInv, FoldMeta, contractVars, Goto, Copies
<1>1. /\ meta' \in Metas /\ meta'.status = "Running" /\ meta'.pty /\ meta'.control = owner
      /\ meta'.rec = IF rstop = Recorded THEN "recording" ELSE "stopped"
    BY <1>0 DEF Types, Metas
<1>2. Types'
    BY <1>0, <1>1 DEF Types, Serving
<1>3. Queued' /\ Placed("flush")' = Placed("flush") /\ Placed("stopped")' = Placed("stopped")
    BY <1>0, QueueSame
<1>4. fx.pc # "write" /\ fx.pc # "unborn"
    BY <1>0 DEF MetaLock, Stages, Serving
<1>5. Stages' /\ MetaLock' /\ Final'
    BY <1>0, <1>3, <1>4 DEF Stages, MetaLock, Final, Serving, Past
<1>6. Ordered' /\ OwnerFollows'
    BY <1>0, LogSame DEF Ordered, OwnerFollows
<1>7. Copies' /\ StopKnown'
    BY <1>0, <1>1, <1>3, <1>4 DEF Copies, Fresh, StopKnown, Knows, StopComing
<1> QED
    BY <1>2, <1>3, <1>5, <1>6, <1>7 DEF EffectsInv

\* The guard writes Running, or fails to.
LEMMA WriteRunningKeeps ==
    ASSUME EffectsInv,
           \/ guard = "running_folded" /\ WriteMeta("running", "ending")
           \/ guard = "again_folded" /\ WriteMeta("supervising", "supervising")
    PROVE  EffectsInv'
<1>0. /\ Types /\ Stages /\ MetaLock /\ Queued /\ Ordered /\ OwnerFollows /\ Copies /\ StopKnown /\ Final
      /\ guard \in {"running_folded", "again_folded"} /\ metaLock' = "free"
      /\ guard' \in {"running", "ending", "supervising"}
      /\ (metaFile' = meta /\ faults' = faults) \/ (faults' = faults + 1 /\ metaFile' = metaFile)
      /\ rstop' = rstop /\ rclosed' = rclosed /\ decided' = decided /\ chan' = chan /\ fx' = fx
      /\ owner' = owner /\ meta' = meta /\ log' = log /\ faults \in Nat
    BY DEF EffectsInv, WriteMeta, contractVars, Goto, Fault, Types
<1>1. fx.pc # "write" /\ fx.pc # "unborn" /\ meta.status = "Running" /\ meta.pty
    BY <1>0 DEF MetaLock, Stages, Serving, Copies, Fresh
<1>2. faults' = 0 => faults = 0 /\ metaFile' = meta
    BY <1>0
<1>3. Types'
    BY <1>0 DEF Types, Serving
<1>4. Placed("flush")' = Placed("flush") /\ Placed("stopped")' = Placed("stopped")
    BY <1>0 DEF Placed
<1>5. Queued'
    BY <1>0, <1>2, <1>4, LogSame DEF Queued
<1>6. Stages' /\ MetaLock' /\ Final'
    BY <1>0, <1>1, <1>4 DEF Stages, MetaLock, Final, Serving, Past
<1>7. Ordered' /\ OwnerFollows'
    BY <1>0, <1>2, LogSame DEF Ordered, OwnerFollows
<1>8. Copies' /\ StopKnown'
    BY <1>0, <1>1, <1>2, <1>4 DEF Copies, Fresh, StopKnown, Knows, StopComing
<1> QED
    BY <1>3, <1>5, <1>6, <1>7, <1>8 DEF EffectsInv

\* The flush is acknowledged, and the owner is final.
LEMMA FlushedKeeps ==
    ASSUME EffectsInv, Flushed
    PROVE  EffectsInv'
<1>0. /\ Types /\ Stages /\ MetaLock /\ Queued /\ Ordered /\ OwnerFollows /\ Copies /\ StopKnown /\ Final
      /\ guard = "flushing" /\ guard' = "terminal_event" /\ fx.pc = "stopped" /\ rclosed
      /\ meta' = IF meta.pty THEN [meta EXCEPT !.control = owner] ELSE meta
      /\ rstop' = rstop /\ rclosed' = rclosed /\ decided' = decided /\ chan' = chan /\ fx' = fx
      /\ owner' = owner /\ metaLock' = metaLock /\ metaFile' = metaFile /\ log' = log /\ faults' = faults
    BY DEF EffectsInv, Flushed, contractVars, Goto, Stages
<1>1. meta' \in Metas /\ meta'.pty = meta.pty /\ meta'.rec = meta.rec /\ (meta'.pty => meta'.control = owner)
    BY <1>0 DEF Types, Metas
<1>2. Types'
    BY <1>0, <1>1 DEF Types, Past
<1>3. Queued' /\ Placed("flush")' = Placed("flush") /\ Placed("stopped")' = Placed("stopped")
    BY <1>0, QueueSame
<1>4. Stages' /\ MetaLock' /\ Final'
    BY <1>0, <1>1, <1>3 DEF Stages, MetaLock, Final, Serving, Past
<1>5. Ordered' /\ OwnerFollows'
    BY <1>0, LogSame DEF Ordered, OwnerFollows
<1>6. Copies' /\ StopKnown'
    BY <1>0, <1>3 DEF Copies, Fresh, StopKnown, Knows, StopComing
<1> QED
    BY <1>2, <1>3, <1>4, <1>5, <1>6 DEF EffectsInv

\* The terminal event is the last.
LEMMA TerminalEventKeeps ==
    ASSUME EffectsInv, TerminalEvent
    PROVE  EffectsInv'
<1>0. /\ Types /\ Stages /\ MetaLock /\ Queued /\ Ordered /\ OwnerFollows /\ Copies /\ StopKnown /\ Final
      /\ guard \in {"terminal_event", "failed"} /\ guard' = "terminal_meta"
      /\ meta' = [meta EXCEPT !.status = "Terminal"] /\ log' = Append(log, [kind |-> "terminal"])
      /\ rstop' = rstop /\ rclosed' = rclosed /\ decided' = decided /\ chan' = chan /\ fx' = fx
      /\ owner' = owner /\ metaLock' = metaLock /\ metaFile' = metaFile /\ faults' = faults
    BY DEF EffectsInv, TerminalEvent, contractVars, Goto
<1>1. /\ Facts("terminal") = {} /\ fx.pc \in {"unborn", "stopped"}
      /\ guard = "failed" => ~meta.pty
    BY <1>0 DEF Ordered, Stages, Past
<1>2. /\ log' \in Seq(Entries) /\ Queued' /\ LogOrdered'
      /\ Facts("control")' = Facts("control") /\ \A i \in Facts("control") : log'[i] = log[i]
      /\ Placed("flush")' = Placed("flush") /\ Placed("stopped")' = Placed("stopped")
    BY <1>0, <1>1, LogOther, EntryTypes
<1>3. /\ meta' \in Metas /\ meta'.pty = meta.pty /\ meta'.rec = meta.rec /\ meta'.control = meta.control
      /\ meta'.status = "Terminal"
    BY <1>0 DEF Types, Metas
<1>4. Types'
    BY <1>0, <1>2, <1>3 DEF Types, Past
<1>5. Stages' /\ MetaLock' /\ Final'
    BY <1>0, <1>1, <1>2, <1>3 DEF Stages, MetaLock, Final, Serving, Past
<1>6. Ordered' /\ OwnerFollows'
    BY <1>0, <1>1, <1>2 DEF Ordered, OwnerFollows, OwnerLogged, IsLatest
<1>7. Copies' /\ StopKnown'
    BY <1>0, <1>2 DEF Copies, Fresh, StopKnown, Knows, StopComing
<1> QED
    BY <1>2, <1>4, <1>5, <1>6, <1>7 DEF EffectsInv

\* The terminal record is written, or not.
LEMMA TerminalMetaKeeps ==
    ASSUME EffectsInv, TerminalMeta
    PROVE  EffectsInv'
<1>0. /\ Types /\ Stages /\ MetaLock /\ Queued /\ Ordered /\ OwnerFollows /\ Copies /\ StopKnown /\ Final
      /\ rstop' = rstop /\ rclosed' = rclosed /\ decided' = decided /\ chan' = chan /\ fx' = fx
      /\ owner' = owner /\ meta' = meta /\ log' = log /\ faults \in Nat
    BY DEF EffectsInv, TerminalMeta, WriteMeta, contractVars, Types
<1>1. Placed("flush")' = Placed("flush") /\ Placed("stopped")' = Placed("stopped")
    BY <1>0 DEF Placed
<1>2. CASE /\ guard = "terminal_meta" /\ metaLock = "free" /\ metaLock' = "guard"
           /\ guard' = "terminal_folded" /\ metaFile' = metaFile /\ faults' = faults
  <2>1. Types'
    BY <1>0, <1>2 DEF Types, Past
  <2>2. Queued'
    BY <1>0, <1>2, QueueSame
  <2>3. Stages' /\ MetaLock' /\ Final'
    BY <1>0, <1>1, <1>2 DEF Stages, MetaLock, Final, Serving, Past
  <2>4. Ordered' /\ OwnerFollows'
    BY <1>0, <1>2, LogSame DEF Ordered, OwnerFollows
  <2>5. Copies' /\ StopKnown'
    BY <1>0, <1>1, <1>2 DEF Copies, Fresh, StopKnown, Knows, StopComing
  <2> QED
    BY <2>1, <2>2, <2>3, <2>4, <2>5 DEF EffectsInv
<1>3. CASE /\ guard = "terminal_folded" /\ metaLock' = "free"
           /\ \/ metaFile' = meta /\ faults' = faults /\ guard' = "ended"
              \/ metaFile' = metaFile /\ faults' = faults + 1 /\ guard' = "unrecorded"
  <2>0. /\ fx.pc \in {"unborn", "stopped"} /\ meta.status = "Terminal"
        /\ faults' = 0 => faults = 0 /\ metaFile' = meta
    BY <1>0, <1>3 DEF Stages, Past, Final
  <2>1. Types'
    BY <1>0, <1>3 DEF Types, Past
  <2>2. Queued'
    BY <1>0, <1>1, <2>0, LogSame DEF Queued
  <2>3. Stages' /\ MetaLock' /\ Final'
    BY <1>0, <1>1, <1>3, <2>0 DEF Stages, MetaLock, Final, Serving, Past
  <2>4. Ordered' /\ OwnerFollows'
    BY <1>0, <1>3, <2>0, LogSame DEF Ordered, OwnerFollows
  <2>5. Copies' /\ StopKnown'
    BY <1>0, <1>1, <1>3, <2>0 DEF Copies, Fresh, StopKnown, Knows, StopComing
  <2> QED
    BY <2>1, <2>2, <2>3, <2>4, <2>5 DEF EffectsInv
<1> QED
    BY <1>2, <1>3 DEF TerminalMeta, WriteMeta, Goto, Fault

(***************************************************************************)
(* The theorem                                                             *)
(***************************************************************************)

\* Every step keeps the invariant.
LEMMA EffectsStep == EffectsInv /\ [EffectsNext]_effectVars => EffectsInv'
<1> SUFFICES ASSUME EffectsInv, [EffectsNext]_effectVars PROVE EffectsInv'
    OBVIOUS
<1>1. CASE \E c \in Changes \cup {"revoke"} : Decide(c)
    BY <1>1, DecideKeeps
<1>2. CASE RecorderStops
    BY <1>2, RecorderStopsKeeps
<1>3. CASE EffectsThread
    BY <1>3, FxFactKeeps, FxPatchKeeps, FxWriteKeeps, FxFlushKeeps DEF EffectsThread
<1>4. CASE Guard
  <2>1. CASE WriteRunning
    BY <2>1, FoldMetaKeeps, WriteRunningKeeps DEF WriteRunning
  <2> QED
    BY <1>4, <2>1, StartPtyKeeps, PublishRunningKeeps, FinishRecordingKeeps, TeardownKeeps,
       FlushedKeeps, TerminalEventKeeps, TerminalMetaKeeps DEF Guard
<1>5. CASE UNCHANGED effectVars
  <2>0. /\ Types /\ Stages /\ MetaLock /\ Queued /\ Ordered /\ OwnerFollows /\ Copies /\ StopKnown /\ Final
        /\ rstop' = rstop /\ rclosed' = rclosed /\ decided' = decided /\ chan' = chan /\ fx' = fx
        /\ owner' = owner /\ metaLock' = metaLock /\ metaFile' = metaFile /\ meta' = meta
        /\ guard' = guard /\ log' = log /\ faults' = faults
    BY <1>5 DEF EffectsInv, effectVars, contractVars
  <2>1. Queued' /\ Placed("flush")' = Placed("flush") /\ Placed("stopped")' = Placed("stopped")
    BY <2>0, QueueSame
  <2>2. Types' /\ Stages' /\ MetaLock' /\ Final'
    BY <2>0, <2>1 DEF Types, Stages, MetaLock, Final
  <2>3. Ordered' /\ OwnerFollows'
    BY <2>0, LogSame DEF Ordered, OwnerFollows
  <2>4. Copies' /\ StopKnown'
    BY <2>0, <2>1 DEF Copies, Fresh, StopKnown, Knows, StopComing
  <2> QED
    BY <2>1, <2>2, <2>3, <2>4 DEF EffectsInv
<1> QED
    BY <1>1, <1>2, <1>3, <1>4, <1>5 DEF EffectsNext

\* meta.json and the log tell the same story of control and of the recording: the guard,

\* which writes meta.json as a whole, and the effects thread, which patches it, never set
\* each other back, and the terminal record and log are complete, however changes of
\* control, stops, writes and the teardown interleave.
THEOREM MetaFollowsHolds == EffectsSpec => []MetaFollows
<1>1. EffectsInv => MetaFollows
  <2> SUFFICES ASSUME EffectsInv PROVE MetaFollows
    OBVIOUS
  <2>0. Types /\ Stages /\ MetaLock /\ Queued /\ Ordered /\ OwnerFollows /\ Copies /\ StopKnown /\ Final
    BY DEF EffectsInv
  <2>1. MetaKeepsUp
    <3> SUFFICES ASSUME metaLock = "free", faults = 0, metaFile.status = "Running"
                 PROVE  /\ metaFile.control = owner
                        /\ (rstop # Recorded /\ chan = <<>> /\ fx.pc \in {"recv", "stopped"}) =>
                              metaFile.rec = "stopped"
      BY DEF MetaKeepsUp
    <3>1. metaFile.control = owner
      BY <2>0 DEF Copies, Fresh
    <3>2. chan = <<>> => Placed("stopped") = {}
      BY DEF Placed
    <3> QED
      BY <2>0, <3>1, <3>2 DEF StopKnown, Knows, StopComing
  <2>2. EndTellsAll
    <3> SUFFICES ASSUME guard = "ended" PROVE
             /\ metaFile = meta
             /\ metaFile.pty /\ faults = 0 =>
                    /\ OwnerLogged(metaFile.control)
                    /\ metaFile.rec = IF rstop = Recorded THEN "complete" ELSE "stopped"
                    /\ rstop # Recorded => Facts("stopped") # {}
      BY DEF EndTellsAll
    <3>1. metaFile = meta /\ fx.pc \in {"unborn", "stopped"} /\ chan = <<>>
      BY <2>0 DEF Final, Stages, Past
    <3>2. Placed("stopped") = {}
      BY <3>1 DEF Placed
    <3>3. faults = 0 => OwnerLogged(owner)
      BY <2>0, <3>1 DEF OwnerFollows
    <3>4. metaFile.pty => /\ metaFile.control = owner
                          /\ metaFile.rec = IF rstop = Recorded THEN "complete" ELSE "stopped"
      BY <2>0, <3>1 DEF Final, Past
    <3>5. rstop # Recorded /\ faults = 0 => Facts("stopped") # {}
      BY <2>0, <3>2 DEF Queued
    <3> QED
      BY <3>1, <3>3, <3>4, <3>5
  <2> QED
    BY <2>0, <2>1, <2>2 DEF MetaFollows, Ordered
<1>2. EffectsInit => EffectsInv
    BY EffectsInitInv
<1>3. EffectsInv /\ [EffectsNext]_effectVars => EffectsInv'
    BY EffectsStep
<1> QED
    BY <1>1, <1>2, <1>3, PTL DEF EffectsSpec
=============================================================================
