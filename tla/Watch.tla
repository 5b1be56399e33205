-------------------------------- MODULE Watch --------------------------------
(***************************************************************************)
(* watch (src/commands/watch.rs) on one session name while its runs come   *)
(* and go.  A scan lists the sessions, reads meta.json, looks for the      *)
(* events directory, reads the new events and then the new log lines, each *)
(* by path: the session can be replaced between any two of these, and what *)
(* is read then belongs to another run than the one meta.json named.       *)
(*                                                                         *)
(* Offsets count whole events and whole lines; lines and events that do    *)
(* not parse, or whose kind was not asked for, are left out.               *)
(***************************************************************************)
EXTENDS Naturals, Sequences, SequencesExt

CONSTANTS
    WatchOptions,   \* the flags: events, logs, fromNow
    WatchRuns,      \* bound: runs of the session
    WatchLines,     \* bound: log lines of a run
    WatchEvents     \* bound: lifecycle events of a run

ASSUME WatchAssumption ==
    /\ {WatchRuns, WatchLines, WatchEvents} \subseteq Nat
    /\ WatchOptions \subseteq [events : BOOLEAN, logs : BOOLEAN, fromNow : BOOLEAN]

VARIABLES
    place,     \* the session's directory, or that it is absent, and its run's files
    flags,     \* the flags of the watch
    scan,      \* where the scan is, and what it has read
    watcher,   \* SessionWatcher, with what it skipped on purpose
    shown      \* what was printed, and whether it was in order (history)

watchVars == <<place, flags, scan, watcher, shown>>

NoWatcher == [known |-> FALSE, label |-> 0, last |-> 0, offset |-> 0, eventMode |-> FALSE,
              taken |-> [r \in 1..WatchRuns |-> 0], skipped |-> [r \in 1..WatchRuns |-> 0],
              skippedLines |-> 0]

WatchInit ==
    /\ place = [here |-> FALSE, run |-> 0, status |-> 0, dir |-> FALSE, events |-> 0, lines |-> 0]
    /\ flags \in WatchOptions
    /\ scan = [pc |-> "invoked", listed |-> FALSE, run |-> 0, status |-> 0, dir |-> FALSE,
               first |-> TRUE, initial |-> FALSE]
    /\ watcher = NoWatcher
    /\ shown = [items |-> {}, inOrder |-> TRUE]

(***************************************************************************)
(* The session                                                             *)
(***************************************************************************)
PlaceChanges == UNCHANGED <<flags, scan, watcher, shown>>

\* A new run's directory, without meta.json (status 0).
SessionCreated ==
    /\ ~place.here /\ place.run < WatchRuns
    /\ place' = [here |-> TRUE, run |-> place.run + 1, status |-> 0, dir |-> FALSE,
                 events |-> 0, lines |-> 0]
    /\ PlaceChanges

\* meta.json: 1 Starting, 2 what comes after it.
MetaWritten ==
    /\ place.here /\ place.status < 2
    /\ place' = [place EXCEPT !.status = @ + 1]
    /\ PlaceChanges

\* The append makes events/ before its segment; either may be all that succeeds.
EventsMade ==
    /\ place.here /\ ~place.dir
    /\ place' = [place EXCEPT !.dir = TRUE]
    /\ PlaceChanges

EventAppended ==
    /\ place.here /\ place.dir /\ place.events < WatchEvents
    /\ place' = [place EXCEPT !.events = @ + 1]
    /\ PlaceChanges

LineLogged ==
    /\ place.here /\ place.status > 0 /\ place.lines < WatchLines
    /\ place' = [place EXCEPT !.lines = @ + 1]
    /\ PlaceChanges

SessionRemoved ==
    /\ place.here
    /\ place' = [here |-> FALSE, run |-> place.run, status |-> 0, dir |-> FALSE,
                 events |-> 0, lines |-> 0]
    /\ PlaceChanges

(***************************************************************************)
(* The watch                                                               *)
(***************************************************************************)
ScanTo(pc) == scan' = [scan EXCEPT !.pc = pc]
Reading == UNCHANGED <<place, flags>>

\* emit_event: a line and a status go out under the watcher's run id, an event under its own.
Item(what, run, n) ==
    [what |-> what, run |-> run, n |-> n, label |-> IF what = "event" THEN run ELSE watcher'.label]
Precedes(a, b) == a.what = b.what /\ a.run = b.run /\ a.label = b.label /\ a.n < b.n
Shows(items) ==
    shown' = [items |-> shown.items \cup Range(items),
              inOrder |-> /\ shown.inOrder
                          /\ \A a \in Range(items), b \in shown.items :
                                a.what # "status" => a # b /\ ~Precedes(a, b)]

\* The sessions at invocation are remembered for --from-now only.
WatchInvoked ==
    /\ scan.pc = "invoked"
    /\ scan' = [scan EXCEPT !.pc = "list", !.initial = flags.fromNow /\ place.here]
    /\ Reading /\ UNCHANGED <<watcher, shown>>

ListsSessions ==
    /\ scan.pc = "list"
    /\ scan' = [scan EXCEPT !.listed = place.here, !.pc = IF place.here THEN "open" ELSE "forget"]
    /\ Reading /\ UNCHANGED <<watcher, shown>>

\* open and read_meta; a session without meta.json is passed over.
ReadsMeta ==
    /\ scan.pc = "open"
    /\ scan' = IF place.here /\ place.status > 0
               THEN [scan EXCEPT !.pc = "probe", !.run = place.run, !.status = place.status]
               ELSE [scan EXCEPT !.pc = "forget"]
    /\ Reading /\ UNCHANGED <<watcher, shown>>

ProbesEvents ==
    /\ scan.pc = "probe"
    /\ scan' = [scan EXCEPT !.pc = IF watcher.known THEN "events" ELSE "discover",
                            !.dir = place.here /\ place.dir]
    /\ Reading /\ UNCHANGED <<watcher, shown>>

\* Mutant: the offset into the log survives the change of run.
Relabelled_KeepsOffset(w) ==
    IF w.label = scan.run THEN w ELSE [w EXCEPT !.label = scan.run, !.last = 0]
\* A change of run: from the start of the log, and with its status.
Relabelled(w) ==
    IF w.label = scan.run THEN w
    ELSE [w EXCEPT !.label = scan.run, !.last = 0, !.offset = 0, !.skippedLines = 0]

\* An events directory that appears switches to the event log, from its start.
Switched(w) ==
    IF w.eventMode \/ ~scan.dir THEN w
    ELSE [w EXCEPT !.eventMode = TRUE, !.taken = NoWatcher.taken, !.skipped = NoWatcher.skipped]

\* read_new_run_events: offsets are kept per segment, and each run has segments of its own;
\* a directory that is gone has nothing new.
NewEvents(w) ==
    IF place.here THEN [i \in 1..(place.events - w.taken[place.run]) |-> w.taken[place.run] + i]
    ELSE <<>>
\* Mutant: the history of a session that is discovered is read without moving the offsets.
Took_NotHistory(w) ==
    IF place.here /\ watcher.known THEN [w EXCEPT !.taken[place.run] = place.events] ELSE w
Took(w) ==
    IF place.here THEN [w EXCEPT !.taken[place.run] = place.events] ELSE w

ShowsEvents(w) ==
    LET new == NewEvents(w) IN Shows([i \in DOMAIN new |-> Item("event", place.run, new[i])])
ShowsStatus == Shows(<<Item("status", scan.run, scan.status)>>)

\* A session that is watched already.
NewsOfSession ==
    /\ scan.pc = "events"
    /\ LET w == Switched(Relabelled(watcher)) IN
        IF ~flags.events THEN watcher' = w /\ UNCHANGED shown
        ELSE IF w.eventMode
        THEN watcher' = [Took(w) EXCEPT !.last = scan.status] /\ ShowsEvents(w)
        ELSE /\ watcher' = [w EXCEPT !.last = scan.status]
             /\ IF w.last # scan.status THEN ShowsStatus ELSE UNCHANGED shown
    /\ ScanTo("log")
    /\ Reading

\* A new one: with --from-now nothing of a session that was there at invocation; on the
\* first scan its current state; later its whole history.
Discovers ==
    /\ scan.pc = "discover"
    /\ LET fresh == [NoWatcher EXCEPT !.known = TRUE, !.label = scan.run, !.last = scan.status,
                                      !.eventMode = scan.dir]
           silent == scan.initial \/ ~flags.events
           history == NewEvents(fresh)
           consumed == Took(fresh)
       IN IF ~scan.dir
          THEN watcher' = fresh /\ IF silent THEN UNCHANGED shown ELSE ShowsStatus
          ELSE IF silent \/ scan.first
          THEN /\ watcher' = [consumed EXCEPT !.skipped = consumed.taken]
               /\ IF silent THEN UNCHANGED shown
                  ELSE IF history = <<>> THEN ShowsStatus
                  ELSE Shows(<<Item("event", place.run, Last(history))>>)
          ELSE watcher' = consumed /\ ShowsEvents(fresh)
    /\ ScanTo(IF scan.initial THEN "skip" ELSE "log")
    /\ Reading

SkipsLog ==
    /\ scan.pc = "skip"
    /\ watcher' = IF place.here
                  THEN [watcher EXCEPT !.offset = place.lines, !.skippedLines = place.lines]
                  ELSE watcher
    /\ ScanTo("log")
    /\ Reading /\ UNCHANGED shown

\* To the end of the file; an offset past it reads nothing.
ReadsLog ==
    /\ scan.pc = "log"
    /\ IF flags.logs /\ place.here /\ watcher.offset < place.lines
       THEN /\ watcher' = [watcher EXCEPT !.offset = place.lines]
            /\ Shows([i \in 1..(place.lines - watcher.offset) |->
                        Item("line", place.run, watcher.offset + i)])
       ELSE UNCHANGED <<watcher, shown>>
    /\ ScanTo("forget")
    /\ Reading

\* Watchers of sessions that the scan did not list are dropped; after the first scan the
\* ready file is made.
Forgets ==
    /\ scan.pc = "forget"
    /\ watcher' = IF scan.listed THEN watcher ELSE NoWatcher
    /\ scan' = [scan EXCEPT !.pc = "list", !.first = FALSE]
    /\ Reading /\ UNCHANGED shown

\* The reader of standard output is gone, or the ready file exists already.
WatchEnds ==
    /\ scan.pc \in {"events", "discover", "log"} \/ (scan.pc = "forget" /\ scan.first)
    /\ ScanTo("over")
    /\ Reading /\ UNCHANGED <<watcher, shown>>

WatchNext ==
    \/ SessionCreated \/ MetaWritten \/ EventsMade \/ EventAppended \/ LineLogged \/ SessionRemoved
    \/ WatchInvoked \/ ListsSessions \/ ReadsMeta \/ ProbesEvents \/ NewsOfSession \/ Discovers
    \/ SkipsLog \/ ReadsLog \/ Forgets \/ WatchEnds

WatchSpec == WatchInit /\ [][WatchNext]_watchVars

-----------------------------------------------------------------------------
Shown(what, run, n, label) == [what |-> what, run |-> run, n |-> n, label |-> label] \in shown.items

\* What watch prints of a session that is replaced under it (cmd_watch): an event is never
\* printed twice or out of order, nor is a line under one run id, and no line goes out under
\* the id of a later run; and between two scans, while the run that the watcher names is still there,
\* every event and every line that it has consumed and did not skip as history has been
\* printed, the lines under that run's id: what was read in the window where meta.json
\* still named the run before is printed again under the right one.
WatchFaithful ==
    /\ shown.inOrder
    /\ \A item \in shown.items : item.label <= item.run
    /\ scan.pc = "list" /\ watcher.known /\ place.here /\ place.run = watcher.label =>
        /\ flags.logs => \A n \in (watcher.skippedLines + 1)..watcher.offset :
                            Shown("line", place.run, n, place.run)
        /\ flags.events => \A n \in (watcher.skipped[place.run] + 1)..watcher.taken[place.run] :
                            Shown("event", place.run, n, place.run)

=============================================================================
