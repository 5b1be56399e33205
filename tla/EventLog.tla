------------------------------ MODULE EventLog ------------------------------
(***************************************************************************)
(* The event log of one session (src/events.rs): writers that append lines *)
(* to segments, and a reader that tails them, prints them in merge order   *)
(* and hands out cursors to resume from (src/commands/events.rs).          *)
(*                                                                         *)
(* A line is written as two halves and a newline, so that a write cut      *)
(* short, by a crash or an error, leaves what it leaves in a file; offsets *)
(* count these pieces.  A segment is known by its name, a number: names    *)
(* are minted before the file is created and sort as numbers.  Removing    *)
(* the session removes its segments; a writer keeps the file it has open.  *)
(***************************************************************************)
EXTENDS Naturals, Sequences, FiniteSets

CONSTANTS
    Writers,        \* processes that append, each with one writer identity
    Names,          \* segment names
    Accepted,       \* the writers whose events pass the reader's filters
    BookmarkEvery,  \* records between two bookmarks (100 in the code)
    Setups          \* what may be about to happen, and how often

\* How the reader is started.  now: --from-now.  last: --last, 0 for none.  strict:
\* --strict.
Options == [now : BOOLEAN, last : Nat, strict : BOOLEAN]

ASSUME WritersAssumption == Writers \subseteq Nat /\ Names \subseteq Nat
ASSUME ReaderAssumption == Accepted \subseteq Writers /\ BookmarkEvery \in Nat

\* appends: the events each writer appends.  big: the writers whose payload is spilled
\* to a blob, all to the same one.  opts: how the reader is started.  The bounds are
\* on its restarts, on removals of the session and on failing writes.
ASSUME SetupsAssumption ==
    Setups \subseteq [appends : [Writers -> Nat], big : SUBSET Writers, opts : Options,
                     restarts : Nat, removals : Nat, failures : Nat]

VARIABLES
    setup,     \* the setup
    segs,      \* the segments, each the pieces in it
    blob,      \* the content-addressed blob: "none", "partial" or "whole"
    dir,       \* the events directory exists
    removals,  \* removals so far
    minted,    \* segment names in use
    clock,     \* wall clock, in ticks events can tell apart
    wr,        \* the writers
    failures,  \* failed writes so far
    acked,     \* history: the events whose append returned Ok
    rd,        \* the reader
    out,       \* what it printed, as its consumer has it
    token,     \* the last bookmark, and what was printed and waived by then
    waived,    \* events passed over by request (--from-now, --last)
    restarts

logVars == <<segs, blob, dir, removals, minted, clock, wr, failures, acked>>
readerVars == <<rd, out, token, waived, restarts>>
vars == <<setup, logVars, readerVars>>

(***************************************************************************)
(* Lines                                                                   *)
(***************************************************************************)
Records == [w : Writers, seq : Nat \ {0}, ts : Nat, ref : BOOLEAN]

Head1(r) == [half |-> 1, rec |-> r]
Tail2(r) == [half |-> 2, rec |-> r]
NL == [half |-> 0]

Pieces == [half : {1, 2}, rec : Records] \cup {NL}

Largest(S) == CHOOSE n \in S : \A m \in S : m <= n
Least(S) == CHOOSE n \in S : \A m \in S : n <= m

\* The whole lines of a segment after offset from, as (start, end) offsets: a line
\* begins after a newline and ends with one.
LinesFrom(s, from) ==
    LET ends == {j \in (from + 1)..Len(s) : s[j] = NL}
    IN  {<<Largest({from} \cup {k \in ends : k < j}), j>> : j \in ends}

\* serde_json::from_str succeeds on a line that is one record, whole and alone.
ParsesTo(s, l, r) ==
    /\ l[2] = l[1] + 3
    /\ s[l[1] + 1] = Head1(r) /\ s[l[1] + 2] = Tail2(r)

InLine(s, l) == {s[k].rec : k \in (l[1] + 1)..(l[2] - 1)}
Parsed(s, l) == {r \in InLine(s, l) : ParsesTo(s, l, r)}

\* What read_segment_records returns from an offset: the records with their
\* starts, whether a line would not parse, and the end of the last whole line.
ReadFrom(s, from) ==
    LET ls == LinesFrom(s, from)
    IN  [recs |-> UNION {{[rec |-> r, start |-> l[1]] : r \in Parsed(s, l)} : l \in ls},
         skipped |-> \E l \in ls : l[2] > l[1] + 1 /\ Parsed(s, l) = {},
         to |-> Largest({from} \cup {l[2] : l \in ls})]

\* merge_key: (ts, writer, seq).
Before(r, s) ==
    \/ r.ts < s.ts
    \/ r.ts = s.ts /\ r.w < s.w
    \/ r.ts = s.ts /\ r.w = s.w /\ r.seq < s.seq

(***************************************************************************)
(* Types                                                                   *)
(***************************************************************************)
Holding == {"half", "rest"}
WriterPcs == {"idle", "blob", "rename", "stamp", "list", "create", "lock"}
                \cup Holding
NoName == 0
ReaderPcs == {"start", "idle", "print", "gone", "strict"}
Positions == [n : Names, start : Nat]
Batched == [n : Names, start : Nat, rec : Records]

\* Read positions: the segments read so far, and the offset in each.
Streams == [known : SUBSET Names, at : [Names -> Nat]]

TypeOK ==
    /\ setup \in Setups
    /\ DOMAIN segs \subseteq Names /\ \A n \in DOMAIN segs : segs[n] \in Seq(Pieces)
    /\ blob \in {"none", "partial", "whole"} /\ dir \in BOOLEAN
    /\ removals \in 0..setup.removals /\ minted \subseteq Names /\ clock \in Nat
    /\ wr \in [Writers -> [pc : WriterPcs, next : Nat \ {0}, ts : Nat, ref : BOOLEAN,
                           seg : Names \cup {NoName}, era : Nat]]
    /\ failures \in 0..setup.failures /\ acked \subseteq Records
    /\ rd \in [pc : ReaderPcs, opts : Options, first : BOOLEAN, now : BOOLEAN,
               offs : Streams, pend : SUBSET Positions,
               batch : SUBSET Batched, skipped : BOOLEAN, count : Nat]
    /\ out \in Seq(Records) /\ waived \subseteq Records
    /\ token \in [seen : BOOLEAN, streams : Streams, out : Seq(Records), waived : SUBSET Records]
    /\ restarts \in 0..setup.restarts

NoSegments == [n \in {} |-> <<>>]
NoStreams == [known |-> {}, at |-> [n \in Names |-> 0]]
Fresh(opts, offs) ==
    [pc |-> "start", opts |-> opts, first |-> TRUE, now |-> opts.now, offs |-> offs, pend |-> {},
     batch |-> {}, skipped |-> FALSE, count |-> 0]

\* A session with no log yet; every writer's first seq is 1.
Init ==
    /\ setup \in Setups
    /\ segs = NoSegments /\ blob = "none" /\ dir = TRUE /\ removals = 0 /\ minted = {}
    /\ clock = 1 /\ failures = 0 /\ acked = {}
    /\ wr = [w \in Writers |-> [pc |-> "idle", next |-> 1, ts |-> 0, ref |-> FALSE, seg |-> NoName, era |-> 0]]
    /\ rd = Fresh(setup.opts, NoStreams)
    /\ out = <<>> /\ waived = {} /\ restarts = 0
    /\ token = [seen |-> FALSE, streams |-> NoStreams, out |-> <<>>, waived |-> {}]

(***************************************************************************)
(* EventWriter::append                                                     *)
(***************************************************************************)
With(f, n, v) == [m \in DOMAIN f \cup {n} |-> IF m = n THEN v ELSE f[m]]
Newest == Largest(DOMAIN segs)

Goto(w, pc) == wr' = [wr EXCEPT ![w].pc = pc]
Fails == failures < setup.failures /\ failures' = failures + 1
Event(w) == [w |-> w, seq |-> wr[w].next - 1, ts |-> wr[w].ts, ref |-> wr[w].ref]

\* The timestamp is taken, and the directory made, before the segment is opened.
Tick == clock' \in {clock, clock + 1} /\ dir' = TRUE

\* seq is consumed even if the append fails.
AppendBegins(w) ==
    /\ wr[w].pc = "idle" /\ wr[w].next <= setup.appends[w]
    /\ IF w \in setup.big THEN UNCHANGED <<clock, dir>> ELSE Tick
    /\ wr' = [wr EXCEPT ![w].pc = IF w \in setup.big THEN "blob" ELSE "list", ![w].ref = FALSE,
                        ![w].next = @ + 1, ![w].ts = IF w \in setup.big THEN @ ELSE clock']
    /\ UNCHANGED <<segs, blob, removals, minted, failures, acked, readerVars>>

\* Mutant: the blob is written under its own name.
SpillBlob_InPlace(w) ==
    /\ wr[w].pc = "blob"
    /\ dir' = TRUE
    /\ IF blob # "none"
       THEN wr' = [wr EXCEPT ![w].pc = "stamp", ![w].ref = TRUE] /\ UNCHANGED blob
       ELSE blob' = "partial" /\ wr' = [wr EXCEPT ![w].pc = "rename", ![w].era = removals]
    /\ UNCHANGED <<segs, removals, minted, clock, failures, acked, readerVars>>

\* write_blob: an existing blob is taken as it is, else a temporary file is written.
\* A failure degrades to a preview without a reference.
SpillBlob(w) ==
    /\ wr[w].pc = "blob"
    /\ dir' = TRUE
    /\ \/ /\ blob # "none"
          /\ wr' = [wr EXCEPT ![w].pc = "stamp", ![w].ref = TRUE] /\ UNCHANGED failures
       \/ /\ blob = "none"
          /\ wr' = [wr EXCEPT ![w].pc = "rename", ![w].era = removals] /\ UNCHANGED failures
       \/ blob = "none" /\ Goto(w, "stamp") /\ Fails
    /\ UNCHANGED <<segs, blob, removals, minted, clock, acked, readerVars>>

\* The rename finds the temporary file unless the session was removed meanwhile.
RenameBlob(w) ==
    /\ wr[w].pc = "rename"
    /\ LET there == wr[w].era = removals
       IN  /\ blob' = IF there THEN "whole" ELSE blob
           /\ wr' = [wr EXCEPT ![w].pc = "stamp", ![w].ref = there]
    /\ UNCHANGED <<segs, dir, removals, minted, clock, failures, acked, readerVars>>

Stamp(w) ==
    /\ wr[w].pc = "stamp"
    /\ Tick
    /\ wr' = [wr EXCEPT ![w].pc = "list", ![w].ts = clock']
    /\ UNCHANGED <<segs, blob, removals, minted, failures, acked, readerVars>>

\* open_segment: the newest segment there is, or a new one under a fresh name.  One
\* removed between listing and opening is looked for again, so both are one step.
OpenSegment(w) ==
    /\ wr[w].pc = "list"
    /\ \/ ~dir /\ Goto(w, "idle") /\ UNCHANGED minted
       \/ /\ dir /\ DOMAIN segs # {}
          /\ wr' = [wr EXCEPT ![w].pc = "lock", ![w].seg = Newest]
          /\ UNCHANGED minted
       \/ /\ dir /\ DOMAIN segs = {}
          /\ \E n \in Names \ minted :
                /\ wr' = [wr EXCEPT ![w].pc = "create", ![w].seg = n]
                /\ minted' = minted \cup {n}
    /\ UNCHANGED <<segs, blob, dir, removals, clock, failures, acked, readerVars>>

CreateSegment(w) ==
    /\ wr[w].pc = "create"
    /\ IF dir THEN segs' = With(segs, wr[w].seg, <<>>) /\ Goto(w, "lock")
       ELSE UNCHANGED segs /\ Goto(w, "idle")
    /\ UNCHANGED <<blob, dir, removals, minted, clock, failures, acked, readerVars>>

\* Mutant: no lock.
Lock_None(w) ==
    /\ wr[w].pc = "lock"
    /\ wr' = [wr EXCEPT ![w].pc = "half", ![w].era = removals]
    /\ UNCHANGED <<segs, blob, dir, removals, minted, clock, failures, acked, readerVars>>

\* append.lock excludes the writers that opened the same file: one that was removed
\* and made again is another.
Lock(w) ==
    /\ wr[w].pc = "lock"
    /\ IF dir
       THEN /\ \A v \in Writers : wr[v].pc \in Holding => wr[v].era # removals
            /\ wr' = [wr EXCEPT ![w].pc = "half", ![w].era = removals]
       ELSE Goto(w, "idle")
    /\ UNCHANGED <<segs, blob, dir, removals, minted, clock, failures, acked, readerVars>>

\* open_segment or SegmentLock::acquire fails with the session in place: the directory
\* cannot be listed, the segment not opened or created, or the lock not taken.
AppendFails(w) ==
    /\ wr[w].pc \in {"list", "create", "lock"}
    /\ Goto(w, "idle") /\ Fails
    /\ UNCHANGED <<segs, blob, dir, removals, minted, clock, acked, readerVars>>

\* A write to a segment that was removed goes nowhere.
WritePieces(w, pieces) ==
    segs' = IF wr[w].seg \in DOMAIN segs
            THEN [segs EXCEPT ![wr[w].seg] = @ \o pieces] ELSE segs

\* One write_all, seen half done; an error leaves what was written.  A writer that
\* dies leaves the same, and the kernel drops its lock: it is one that fails and
\* appends no more.
WriteHalf(w) ==
    /\ wr[w].pc = "half"
    /\ \/ WritePieces(w, <<Head1(Event(w))>>) /\ Goto(w, "rest") /\ UNCHANGED failures
       \/ Goto(w, "idle") /\ Fails /\ UNCHANGED segs
    /\ UNCHANGED <<blob, dir, removals, minted, clock, acked, readerVars>>

Rest(w) == <<Tail2(Event(w)), NL>>

\* Mutant: a failed append gives its seq back.
WriteRest_Reuses(w) ==
    /\ wr[w].pc = "rest"
    /\ WritePieces(w, Rest(w))
    /\ \/ acked' = acked \cup {Event(w)} /\ Goto(w, "idle") /\ UNCHANGED failures
       \/ /\ wr' = [wr EXCEPT ![w].pc = "idle", ![w].next = @ - 1]
          /\ Fails /\ UNCHANGED acked
    /\ UNCHANGED <<blob, dir, removals, minted, clock, readerVars>>

\* The write may fail at any piece, and fdatasync with the line in place.
WriteRest(w) ==
    /\ wr[w].pc = "rest" /\ Goto(w, "idle")
    /\ \/ WritePieces(w, Rest(w)) /\ acked' = acked \cup {Event(w)} /\ UNCHANGED failures
       \/ /\ \E k \in 0..2 : WritePieces(w, SubSeq(Rest(w), 1, k))
          /\ Fails /\ UNCHANGED acked
    /\ UNCHANGED <<blob, dir, removals, minted, clock, readerVars>>

WriterStep(w) ==
    \/ AppendBegins(w) \/ SpillBlob(w) \/ RenameBlob(w) \/ Stamp(w)
    \/ OpenSegment(w) \/ CreateSegment(w)
    \/ Lock(w) \/ AppendFails(w) \/ WriteHalf(w) \/ WriteRest(w)

\* prune or replace removes the session directory.
RemoveSession ==
    /\ removals < setup.removals /\ dir
    /\ removals' = removals + 1
    /\ segs' = NoSegments /\ blob' = "none" /\ dir' = FALSE
    /\ UNCHANGED <<minted, clock, wr, failures, acked, readerVars>>

(***************************************************************************)
(* tender events: StreamReader, CursorTracker, emit_batch                  *)
(***************************************************************************)
At(x) == [n |-> x.n, start |-> x.start]

\* poll_segments, one segment: from where it was read to the last whole line.
PollSegment(n) == ReadFrom(segs[n], rd.offs.at[n])

\* --last: all but the last of the first batch.
Excess(batch) ==
    IF rd.first /\ rd.opts.last > 0
    THEN {x \in batch : Cardinality({y \in batch : Before(x.rec, y.rec)}) >= rd.opts.last}
    ELSE {}

\* strict_check, after a batch is printed; otherwise the next poll.
AfterBatch(skipped) == IF rd.opts.strict /\ skipped THEN "strict" ELSE "idle"

\* poll, and the first half of emit_batch.  Segments only grow, so reading them all
\* in one step stands for reading one after the other.  Everything read is
\* consumed; what passes the filters is pending until it is printed.  The history
\* before --from-now, or before the last n, is consumed by request.
Poll ==
    /\ rd.pc \in {"start", "idle"}
    /\ LET got == [n \in DOMAIN segs |-> PollSegment(n)]
           all == UNION {{[n |-> n, start |-> x.start, rec |-> x.rec] : x \in got[n].recs} :
                            n \in DOMAIN segs}
           batch == {x \in all : x.rec.w \in Accepted}
           drop == IF rd.now THEN batch ELSE Excess(batch)
           left == batch \ drop
           skipped == \E n \in DOMAIN segs : got[n].skipped
       IN  /\ waived' = waived \cup {x.rec : x \in drop}
           /\ rd' = [rd EXCEPT
                       !.pc = CASE rd.now -> "start"
                                [] ~rd.now /\ left # {} -> "print"
                                [] OTHER -> AfterBatch(skipped),
                       !.now = FALSE, !.first = rd.now,
                       !.offs = [known |-> @.known \cup DOMAIN segs,
                                 at |-> [n \in Names |-> IF n \in DOMAIN segs THEN got[n].to
                                                         ELSE @.at[n]]],
                       !.batch = left, !.pend = @ \cup {At(x) : x \in left},
                       !.skipped = skipped]
    /\ UNCHANGED <<logVars, out, token, restarts>>

\* Mutant: the cursor is how far the segments were read.
Token_ReadTo(offs, pend) == offs

\* CursorTracker::token: the earliest record read and not printed, or how far the
\* segment was read.
Token(offs, pend) ==
    LET mine(n) == {p.start : p \in {q \in pend : q.n = n}}
    IN  [offs EXCEPT !.at = [n \in Names |-> IF mine(n) = {} THEN @[n] ELSE Least(mine(n))]]

Bookmark(printed, pend) ==
    [seen |-> TRUE, streams |-> Token(rd.offs, pend), out |-> printed, waived |-> waived]

\* Mutant: a printed record stays pending.
PrintNext_Pending ==
    /\ rd.pc = "print"
    /\ LET x == CHOOSE b \in rd.batch : \A c \in rd.batch \ {b} : Before(b.rec, c.rec)
           due == rd.count + 1 >= BookmarkEvery
       IN  /\ out' = Append(out, x.rec)
           /\ rd' = [rd EXCEPT !.pc = IF rd.batch = {x} THEN AfterBatch(rd.skipped) ELSE @,
                               !.batch = @ \ {x},
                               !.count = IF due THEN 0 ELSE @ + 1]
           /\ token' = IF due THEN Bookmark(out', rd'.pend) ELSE token
    /\ UNCHANGED <<logVars, waived, restarts>>

\* One record of emit_batch, in merge order, and the bookmark that may be due.
PrintNext ==
    /\ rd.pc = "print"
    /\ LET x == CHOOSE b \in rd.batch : \A c \in rd.batch \ {b} : Before(b.rec, c.rec)
           due == rd.count + 1 >= BookmarkEvery
       IN  /\ out' = Append(out, x.rec)
           /\ rd' = [rd EXCEPT !.pc = IF rd.batch = {x} THEN AfterBatch(rd.skipped) ELSE @,
                               !.batch = @ \ {x}, !.pend = @ \ {At(x)},
                               !.count = IF due THEN 0 ELSE @ + 1]
           /\ token' = IF due THEN Bookmark(out', rd'.pend) ELSE token
    /\ UNCHANGED <<logVars, waived, restarts>>

\* After five idle seconds, and at the end of a replay that does not follow.
IdleBookmark ==
    /\ rd.pc = "idle"
    /\ token' = Bookmark(out, rd.pend)
    /\ rd' = [rd EXCEPT !.count = 0]
    /\ UNCHANGED <<logVars, out, waived, restarts>>

\* The reader ends, and its consumer resumes from the last bookmark and what it had
\* by then.  A cursor that names a segment that is gone is refused.
Resume ==
    /\ restarts < setup.restarts /\ token.seen /\ rd.pc \notin {"gone", "strict"}
    /\ restarts' = restarts + 1
    /\ LET new == Fresh([rd.opts EXCEPT !.now = FALSE, !.last = 0], token.streams)
       IN  rd' = IF token.streams.known \subseteq DOMAIN segs THEN new
                 ELSE [new EXCEPT !.pc = "gone"]
    /\ out' = token.out /\ waived' = token.waived
    /\ UNCHANGED <<logVars, token>>

ReaderStep == Poll \/ PrintNext

(***************************************************************************)
(* The specification                                                       *)
(***************************************************************************)
Next ==
    /\ \/ \E w \in Writers : WriterStep(w)
       \/ RemoveSession
       \/ ReaderStep \/ IdleBookmark \/ Resume
    /\ UNCHANGED setup

Spec == Init /\ [][Next]_vars

(***************************************************************************)
(* Properties                                                              *)
(***************************************************************************)
Printed == {out[i] : i \in DOMAIN out}
Stored == UNION {{[n |-> n, start |-> x.start, rec |-> x.rec] : x \in ReadFrom(segs[n], 0).recs} :
                    n \in DOMAIN segs}

\* A cursor never drops: whatever was stopped and resumed, an event that passes
\* the filters and lies before the reader's position was printed, passed over by
\* request, or is about to be (CursorTracker's contract).
NeverDropped ==
    \A x \in Stored :
        x.rec.w \in Accepted /\ x.start < rd.offs.at[x.n] =>
            x.rec \in Printed \cup waived \/ At(x) \in rd.pend

\* An event is printed twice only if it lies behind one it precedes in merge order:
\* the timestamp was taken before the lock, and another writer came first.
DuplicatesExplained ==
    \A i, j \in DOMAIN out :
        i < j /\ out[i] = out[j] /\ removals = 0 =>
            \E x, y \in Stored : /\ x.rec = out[i] /\ y.n = x.n
                               /\ y.start < x.start /\ Before(x.rec, y.rec)

\* What a consumer that stops and resumes has seen is the log: nothing is missing, and
\* nothing comes twice that merge order does not explain.
CursorExact == NeverDropped /\ DuplicatesExplained

\* Appends do not disturb one another: an event whose append returned Ok is in a
\* whole line, alone in it unless a failed append left a piece there before it.
AckedInLine ==
    removals = 0 =>
        /\ \A r \in acked : \E n \in DOMAIN segs : \E l \in LinesFrom(segs[n], 0) : r \in InLine(segs[n], l)
        /\ \A n \in DOMAIN segs : \A l \in LinesFrom(segs[n], 0) :
              InLine(segs[n], l) \subseteq acked /\ l[2] > l[1] + 1 => Parsed(segs[n], l) # {}

\* A seq is never reused: two stored events of one writer differ in seq, and lie in
\* its order (a reused seq would be a lie).
SeqHonest ==
    \A x, y \in Stored :
        x.rec.w = y.rec.w /\ x # y =>
            /\ x.rec.seq # y.rec.seq
            /\ x.n = y.n => (x.start < y.start <=> x.rec.seq < y.rec.seq)

\* A stored event that names a blob finds it whole, whoever wrote it and whoever
\* died writing it.
BlobBehindRef == removals = 0 => \A x \in Stored : x.rec.ref => blob = "whole"

\* What concurrent, failing and dying writers leave is a log that can be read back:
\* every acknowledged event, under a seq of its own, with its payload.
LogSound == TypeOK /\ AckedInLine /\ SeqHonest /\ BlobBehindRef

=============================================================================
