------------------------------ MODULE LogFollow ------------------------------
(***************************************************************************)
(* Reading output.log while it grows (src/log.rs): log, log --follow and   *)
(* the follow thread of a foreground run, which then takes the run's exit  *)
(* code from meta.json (src/commands/log.rs, src/commands/run.rs).         *)
(*                                                                         *)
(* A line is what one write of a capture thread or an annotation appends;  *)
(* it may be malformed, and it may be older than --since.                  *)
(***************************************************************************)
EXTENDS Naturals, Sequences, SequencesExt

CONSTANTS
    Queries,   \* LogQuery: tail (NoTail or a number), since; and follow, foreground
    NoTail,    \* --tail is not given
    MaxLines   \* bound: lines in the log

ASSUME LogAssumption ==
    /\ NoTail \notin Nat /\ MaxLines \in Nat
    /\ Queries \subseteq [tail : Nat \cup {NoTail}, since : BOOLEAN, follow : BOOLEAN]

VARIABLES
    logFile,   \* output.log exists
    lines,     \* its lines
    sealed,    \* history: the number of lines when meta.json became terminal, or Unsealed
    query,     \* the query
    reader,    \* the reading process
    printed    \* what it printed

logVars == <<logFile, lines, sealed, query, reader, printed>>

Unsealed == MaxLines + 1
Terminal == sealed # Unsealed

LogInit ==
    /\ logFile = FALSE /\ lines = <<>> /\ sealed = Unsealed
    /\ query \in Queries
    /\ reader = [pc |-> "start", pos |-> 0, from |-> 0, ring |-> <<>>, cut |-> 0]
    /\ printed = <<>>

(***************************************************************************)
(* The run                                                                 *)
(***************************************************************************)
CreatesLog ==
    /\ ~logFile /\ ~Terminal
    /\ logFile' = TRUE
    /\ UNCHANGED <<lines, sealed, query, reader, printed>>

\* A capture thread's line, malformed if its write was cut short; annotations come even
\* after the end.
AppendsLine(kind) ==
    /\ logFile /\ Len(lines) < MaxLines
    /\ lines' = Append(lines, [n |-> Len(lines) + 1, kind |-> kind])
    /\ UNCHANGED <<logFile, sealed, query, reader, printed>>

\* The terminal meta.json follows the end of capture.
WritesTerminal ==
    /\ ~Terminal
    /\ sealed' = Len(lines)
    /\ UNCHANGED <<logFile, lines, query, reader, printed>>

(***************************************************************************)
(* The reader                                                              *)
(***************************************************************************)
Reads == UNCHANGED <<logFile, lines, sealed, query>>
At(pc) == reader.pc = pc
AtEof == reader.pos = Len(lines)

\* A line that parses, and matches_query.
Matches(l, since) == l.kind = "recent" \/ (l.kind = "old" /\ ~since)

\* Mutant: the ring drops a line too early.
RingPush_Short(ring, l, n) ==
    IF n = 0 THEN ring ELSE Append(IF Len(ring) + 1 = n /\ ring # <<>> THEN Tail(ring) ELSE ring, l)

\* The ring of the last n lines.
RingPush(ring, l, n) ==
    IF n = 0 THEN ring ELSE Append(IF Len(ring) = n THEN Tail(ring) ELSE ring, l)

\* follow waits for the file; a plain log of no file is empty.
WaitsForFile ==
    /\ At("start") /\ ~logFile
    /\ reader' = [reader EXCEPT !.pc = IF query.follow THEN "absent" ELSE "done"]
    /\ UNCHANGED printed /\ Reads

StopsOrWaits ==
    /\ At("absent")
    /\ reader' = [reader EXCEPT !.pc = IF Terminal THEN "done" ELSE "start"]
    /\ UNCHANGED printed /\ Reads

\* With neither --tail nor --since, follow begins at the end.
OpensLog ==
    /\ At("start") /\ logFile
    /\ LET from == IF query.follow /\ query.tail = NoTail /\ ~query.since
                   THEN Len(lines) ELSE 0
       IN  reader' = [reader EXCEPT !.pos = from, !.from = from, !.cut = from,
                                    !.pc = IF query.tail = NoTail THEN "read" ELSE "tail"]
    /\ UNCHANGED printed /\ Reads

\* --tail: read to the end, keep the last lines, print them.
ReadsTail ==
    /\ At("tail")
    /\ IF AtEof
       THEN /\ printed' = printed \o reader.ring
            /\ reader' = [reader EXCEPT !.pc = IF query.follow THEN "read" ELSE "done",
                                        !.cut = reader.pos]
       ELSE LET l == lines[reader.pos + 1]
            IN  /\ reader' = [reader EXCEPT !.pos = @ + 1,
                                 !.ring = IF Matches(l, query.since) THEN RingPush(@, l, query.tail) ELSE @]
                /\ UNCHANGED printed
    /\ Reads

ReadsLine ==
    /\ At("read") /\ ~AtEof
    /\ LET l == lines[reader.pos + 1]
       IN  printed' = IF Matches(l, query.since) THEN Append(printed, l) ELSE printed
    /\ reader' = [reader EXCEPT !.pos = @ + 1]
    /\ Reads

\* The read returned nothing.
ReadsEof ==
    /\ At("read") /\ AtEof
    /\ reader' = [reader EXCEPT !.pc = IF query.follow THEN "stop" ELSE "done"]
    /\ UNCHANGED printed /\ Reads

\* Mutant: the terminal status is not looked at.
StopsOrSleeps_Never ==
    /\ At("stop")
    /\ reader' = [reader EXCEPT !.pc = "read"]
    /\ UNCHANGED printed /\ Reads

\* should_stop reads meta.json.
StopsOrSleeps ==
    /\ At("stop")
    /\ reader' = [reader EXCEPT !.pc = IF Terminal THEN "done" ELSE "read"]
    /\ UNCHANGED printed /\ Reads

ReaderSteps ==
    \/ WaitsForFile \/ StopsOrWaits \/ OpensLog
    \/ ReadsTail \/ ReadsLine \/ ReadsEof \/ StopsOrSleeps

LogNext ==
    \/ CreatesLog \/ WritesTerminal
    \/ \E kind \in {"recent", "old", "malformed"} : AppendsLine(kind)
    \/ ReaderSteps

LogSpec == LogInit /\ [][LogNext]_logVars

(***************************************************************************)
(* Properties                                                              *)
(***************************************************************************)
\* The matching lines of s after line a, up to line b.
Matching(s, a, b, since) ==
    LET to[k \in 0..(b - a)] ==
            IF k = 0 THEN <<>>
            ELSE IF Matches(s[a + k], since) THEN Append(to[k - 1], s[a + k]) ELSE to[k - 1]
    IN  to[b - a]

LastLines(s, n) == IF Len(s) <= n THEN s ELSE SubSeq(s, Len(s) - n + 1, Len(s))

\* What is printed are the matching lines, in order and each once: with --tail, the last
\* n of those there were when the end was first reached, and all that came after.
FollowFaithful ==
    LET matching(a, b) == Matching(lines, a, b, query.since)
        kept == IF query.tail = NoTail THEN <<>> ELSE LastLines(matching(0, reader.cut), query.tail)
    IN  reader.pc \in {"read", "stop", "done"} =>
            printed = kept \o matching(reader.cut, reader.pos)

\* Following ends with the run.
FollowEnds == Terminal ~> reader.pc = "done"

\* src/commands/run.rs:128: the follow thread exits only after it has drained all output
\* written before the terminal state.
FollowDrains ==
    reader.pc = "done" /\ query.follow => reader.pos >= sealed

=============================================================================
