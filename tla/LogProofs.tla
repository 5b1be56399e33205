------------------------------ MODULE LogProofs ------------------------------
(***************************************************************************)
(* Proofs about watch (Watch), for any number of runs of the session, log  *)
(* lines and events, and about the event log (EventLog), for any number of *)
(* writers, events, failed writes, removals and resumptions of the reader. *)
(***************************************************************************)
EXTENDS Watch, EventLog, DataLemmas

(***************************************************************************)
(* Watch: the inductive invariant                                          *)
(***************************************************************************)
Runs == 1..WatchRuns
Places == [here : BOOLEAN, run : Nat, status : Nat, dir : BOOLEAN, events : Nat, lines : Nat]
ScanPcs == {"invoked", "list", "open", "probe", "events", "discover", "skip", "log", "forget", "over"}
Scans == [pc : ScanPcs, listed : BOOLEAN, run : Nat, status : Nat, dir : BOOLEAN,
          first : BOOLEAN, initial : BOOLEAN]
Watchers == [known : BOOLEAN, label : Nat, last : Nat, offset : Nat, eventMode : BOOLEAN,
             taken : [Runs -> Nat], skipped : [Runs -> Nat], skippedLines : Nat]
Items == [what : {"event", "line", "status"}, run : Nat, n : Nat, label : Nat]

\* The session's files are those of run place.run; runs before it never come back.
WatchTypes ==
    /\ place \in Places /\ place.run <= WatchRuns /\ (place.here => place.run >= 1)
    /\ flags \in WatchOptions /\ scan \in Scans /\ watcher \in Watchers
    /\ shown.items \subseteq Items /\ shown = [items |-> shown.items, inOrder |-> shown.inOrder]
Gone(r) == r < place.run \/ (r = place.run /\ ~place.here)

\* The scan is of a session it listed, of a run that is not later than the session's; its
\* first part decides whether the session has a watcher.
ScanPoints ==
    /\ scan.pc \in {"open", "probe", "events", "discover", "skip", "log"} => scan.listed
    /\ scan.pc \in {"probe", "events", "discover"} =>
          scan.run <= place.run /\ (watcher.known => watcher.label <= scan.run)
    /\ scan.pc \in {"events", "skip", "log"} => watcher.known
    /\ scan.pc = "discover" => ~watcher.known
    /\ scan.pc = "skip" => watcher.offset = 0

\* What was printed is of runs up to the present one.  A watcher is dropped only when they
\* are all gone, and the run of a scan that finds a new session is later than they are.
Behind ==
    /\ \A item \in shown.items : item.label <= item.run /\ item.run <= place.run
    /\ ~watcher.known \/ (scan.pc = "forget" /\ ~scan.listed) => \A item \in shown.items : Gone(item.run)
    /\ ~watcher.known /\ scan.pc \in {"probe", "discover"} => \A item \in shown.items : item.run < scan.run

\* What watcher w and the printed items say of each other.  Under its run id no line beyond
\* the offset was printed, and none under a later one.
Labelled(w, items) ==
    w.known =>
        /\ w.label <= place.run
        /\ \A item \in items : item.what = "line" =>
              item.label <= w.label /\ (item.label = w.label => item.n <= w.offset)

\* Of a run that is there, no event beyond those taken was printed.
Taken(w, items) ==
    /\ \A item \in items : item.what = "event" =>
          /\ item.label = item.run
          /\ Gone(item.run) \/ (w.known /\ w.eventMode /\ item.n <= w.taken[item.run])
    /\ \A r \in Runs : /\ r > place.run => w.taken[r] = 0
                       /\ r = place.run /\ place.here => w.taken[r] <= place.events

\* What was consumed and not skipped was printed.
WasPrinted(items, what, r, n) == [what |-> what, run |-> r, n |-> n, label |-> r] \in items
Complete(w, items) ==
    /\ flags.events => \A r \in Runs : \A n \in Nat :
          w.skipped[r] < n /\ n <= w.taken[r] => WasPrinted(items, "event", r, n)
    /\ flags.logs /\ w.known /\ place.here /\ place.run = w.label => \A n \in Nat :
          w.skippedLines < n /\ n <= w.offset => WasPrinted(items, "line", w.label, n)

WatchInv ==
    /\ WatchTypes /\ ScanPoints /\ Behind /\ shown.inOrder
    /\ Labelled(watcher, shown.items) /\ Taken(watcher, shown.items) /\ Complete(watcher, shown.items)

(***************************************************************************)
(* The session                                                             *)
(***************************************************************************)
\* A run that is gone stays so; the one that is there only grows.
LEMMA SessionGoesOn ==
    ASSUME WatchTypes,
           SessionCreated \/ MetaWritten \/ EventsMade \/ EventAppended \/ LineLogged \/ SessionRemoved
    PROVE  /\ UNCHANGED <<flags, scan, watcher, shown>> /\ place' \in Places
           /\ place'.run <= WatchRuns /\ (place'.here => place'.run >= 1) /\ place'.run >= place.run
           /\ place'.here => place'.run > place.run \/ (place.here /\ place'.events >= place.events)
           /\ place'.run # place.run => ~place.here
<1>1. /\ place \in Places /\ place.run <= WatchRuns /\ (place.here => place.run >= 1) /\ WatchRuns \in Nat
      /\ UNCHANGED <<flags, scan, watcher, shown>>
    BY WatchAssumption
       DEF WatchTypes, SessionCreated, MetaWritten, EventsMade, EventAppended, LineLogged, SessionRemoved, PlaceChanges
<1>2. CASE SessionCreated
    BY <1>1, <1>2 DEF SessionCreated, Places
<1>3. CASE MetaWritten
    BY <1>1, <1>3 DEF MetaWritten, Places
<1>4. CASE EventsMade
  <2>1. place' = [place EXCEPT !.dir = TRUE]
    BY <1>4 DEF EventsMade
  <2>2. /\ place' \in Places /\ place'.run = place.run /\ place'.here = place.here
        /\ place'.events = place.events
    BY <1>1, <2>1 DEF Places
  <2>3. place.run \in Nat /\ place.events \in Nat
    BY <1>1 DEF Places
  <2> QED
    BY <1>1, <2>2, <2>3
<1>5. CASE EventAppended
    BY <1>1, <1>5 DEF EventAppended, Places
<1>6. CASE LineLogged
    BY <1>1, <1>6 DEF LineLogged, Places
<1>7. CASE SessionRemoved
    BY <1>1, <1>7 DEF SessionRemoved, Places
<1> QED
    BY <1>2, <1>3, <1>4, <1>5, <1>6, <1>7

LEMMA SessionKeeps ==
    ASSUME WatchInv,
           SessionCreated \/ MetaWritten \/ EventsMade \/ EventAppended \/ LineLogged \/ SessionRemoved
    PROVE  WatchInv'
<1>1. /\ UNCHANGED <<flags, scan, watcher, shown>> /\ place' \in Places /\ place \in Places
      /\ place'.run <= WatchRuns /\ (place'.here => place'.run >= 1) /\ place'.run >= place.run
      /\ place'.here => place'.run > place.run \/ (place.here /\ place'.events >= place.events)
      /\ place'.run # place.run => ~place.here
      /\ watcher \in Watchers /\ shown.items \subseteq Items /\ scan \in Scans
  <2>1. WatchTypes
    BY DEF WatchInv
  <2> QED
    BY <2>1, SessionGoesOn DEF WatchTypes
<1>2. place.run \in Nat /\ place'.run \in Nat /\ place.events \in Nat /\ place'.events \in Nat
    BY <1>1 DEF Places
<1>3. \A r \in Nat : Gone(r) => Gone(r)'
    BY <1>1, <1>2 DEF Gone
<1>4. \A item \in shown.items : item.run \in Nat /\ item.label \in Nat /\ item.n \in Nat
    BY <1>1 DEF Items
<1>5. watcher.label \in Nat /\ scan.run \in Nat /\ watcher.taken \in [Runs -> Nat]
    BY <1>1 DEF Watchers, Scans
<1>6. WatchTypes'
    BY <1>1 DEF WatchInv, WatchTypes
<1>7. ScanPoints'
    BY <1>1, <1>2, <1>5 DEF WatchInv, ScanPoints
<1>8. Behind'
    BY <1>1, <1>2, <1>3, <1>4 DEF WatchInv, Behind
<1>9. Labelled(watcher, shown.items)'
    BY <1>1, <1>2, <1>5 DEF WatchInv, Labelled
<1>10. Taken(watcher, shown.items)'
  <2>1. ASSUME NEW item \in shown.items, item.what = "event"
        PROVE  /\ item.label = item.run
               /\ Gone(item.run)' \/ (watcher.known /\ watcher.eventMode /\ item.n <= watcher.taken[item.run])
    BY <1>3, <1>4, <2>1 DEF WatchInv, Taken
  <2>2. ASSUME NEW r \in Runs
        PROVE  /\ r > place'.run => watcher.taken[r] = 0
               /\ r = place'.run /\ place'.here => watcher.taken[r] <= place'.events
    <3>1. /\ r > place.run => watcher.taken[r] = 0
          /\ r = place.run /\ place.here => watcher.taken[r] <= place.events
      BY DEF WatchInv, Taken
    <3>2. watcher.taken[r] \in Nat
      BY <1>5
    <3>3. r \in Nat
      BY DEF Runs
    <3> QED
      BY <1>1, <1>2, <3>1, <3>2, <3>3
  <2> QED
    BY <1>1, <2>1, <2>2 DEF Taken
<1>11. Complete(watcher, shown.items)'
  <2>1. watcher.known => watcher.label <= place.run
    BY DEF WatchInv, Labelled
  <2>2. watcher.known /\ place'.here /\ place'.run = watcher.label => place.here /\ place.run = watcher.label
    BY <1>1, <1>2, <1>5, <2>1
  <2>3. Complete(watcher, shown.items)
    BY DEF WatchInv
  <2> QED
    BY <1>1, <2>2, <2>3 DEF Complete, WasPrinted
<1> QED
    BY <1>1, <1>6, <1>7, <1>8, <1>9, <1>10, <1>11 DEF WatchInv

(***************************************************************************)
(* The watch                                                               *)
(***************************************************************************)
\* A step of the scan that neither prints nor changes what the watcher has consumed.
LEMMA ScanMoves ==
    ASSUME WatchInv, UNCHANGED <<place, flags, watcher, shown>>, scan' \in Scans, ScanPoints',
           (scan'.pc = "forget" /\ ~scan'.listed) => \A item \in shown.items : Gone(item.run),
           ~watcher.known /\ scan'.pc \in {"probe", "discover"} => \A item \in shown.items : item.run < scan'.run
    PROVE  WatchInv'
<1>1. WatchTypes'
    BY DEF WatchInv, WatchTypes
<1>2. Behind'
    BY DEF WatchInv, Behind, Gone
<1>3. Labelled(watcher, shown.items)' /\ Taken(watcher, shown.items)' /\ Complete(watcher, shown.items)'
    BY DEF WatchInv, Labelled, Taken, Complete, Gone, WasPrinted
<1> QED
    BY <1>1, <1>2, <1>3 DEF WatchInv

\* Up to the point at which the scan knows the session and its run.
LEMMA LookingKeeps ==
    ASSUME WatchInv, WatchInvoked \/ ListsSessions \/ ReadsMeta \/ ProbesEvents \/ WatchEnds
    PROVE  WatchInv'
<1>0. /\ WatchTypes /\ ScanPoints /\ scan \in Scans /\ place \in Places /\ watcher \in Watchers /\ shown.items \subseteq Items
      /\ Labelled(watcher, shown.items) /\ Behind
      /\ UNCHANGED <<place, flags, watcher, shown>>
    BY DEF WatchInv, WatchTypes, WatchInvoked, ListsSessions, ReadsMeta, ProbesEvents, WatchEnds, Reading
<1>1. place.run \in Nat /\ watcher.label \in Nat /\ place.here \in BOOLEAN /\ place.dir \in BOOLEAN /\ place.status \in Nat
    BY <1>0 DEF Places, Watchers
<1>2. \A item \in shown.items : item.run <= place.run /\ item.run \in Nat
    BY <1>0 DEF Behind, Items
<1>3. CASE WatchInvoked
  <2>1. scan' = [scan EXCEPT !.pc = "list", !.initial = flags.fromNow /\ place.here]
    BY <1>3 DEF WatchInvoked
  <2>2. flags.fromNow \in BOOLEAN
    BY <1>0, WatchAssumption DEF WatchTypes
  <2>3. scan' \in Scans /\ scan'.pc = "list"
    BY <1>0, <1>1, <2>1, <2>2 DEF Scans, ScanPcs
  <2> QED
    BY <1>0, <2>3, ScanMoves DEF ScanPoints
<1>4. CASE ListsSessions
  <2> DEFINE p == IF place.here THEN "open" ELSE "forget"
  <2>1. scan' = [scan EXCEPT !.listed = place.here, !.pc = p]
    BY <1>4 DEF ListsSessions
  <2>2. p \in ScanPcs /\ p \in {"open", "forget"} /\ (p = "open" => place.here)
    BY DEF ScanPcs
  <2> HIDE DEF p
  <2>3. scan' \in Scans /\ scan'.pc = p /\ scan'.listed = place.here
    BY <1>0, <1>1, <2>1, <2>2 DEF Scans
  <2>4. ~place.here => \A item \in shown.items : Gone(item.run)
    BY <1>1, <1>2 DEF Gone
  <2> QED
    BY <1>0, <2>2, <2>3, <2>4, ScanMoves DEF ScanPoints
<1>5. CASE ReadsMeta
  <2>0. scan.pc = "open" /\ scan.listed
    BY <1>0, <1>5 DEF ReadsMeta, ScanPoints
  <2>1. CASE place.here /\ place.status > 0
    <3>1. scan' = [scan EXCEPT !.pc = "probe", !.run = place.run, !.status = place.status]
      BY <1>5, <2>1 DEF ReadsMeta
    <3>2. scan' \in Scans /\ scan'.pc = "probe" /\ scan'.listed /\ scan'.run = place.run
      BY <1>0, <1>1, <2>0, <3>1 DEF Scans, ScanPcs
    <3>3. watcher.known => watcher.label <= place.run
      BY <1>0 DEF Labelled
    <3>4. ~watcher.known => \A item \in shown.items : item.run < place.run
      <4>1. ~watcher.known => \A item \in shown.items : Gone(item.run)
        BY <1>0 DEF Behind
      <4> QED
        BY <2>1, <4>1 DEF Gone
    <3>5. ScanPoints'
      BY <1>0, <1>1, <3>2, <3>3 DEF ScanPoints
    <3> QED
      BY <1>0, <3>2, <3>4, <3>5, ScanMoves
  <2>2. CASE ~(place.here /\ place.status > 0)
    <3>1. scan' = [scan EXCEPT !.pc = "forget"]
      BY <1>5, <2>2 DEF ReadsMeta
    <3>2. scan' \in Scans /\ scan'.pc = "forget" /\ scan'.listed
      BY <1>0, <2>0, <3>1 DEF Scans, ScanPcs
    <3> QED
      BY <1>0, <3>2, ScanMoves DEF ScanPoints
  <2> QED
    BY <2>1, <2>2
<1>6. CASE ProbesEvents
  <2> DEFINE p == IF watcher.known THEN "events" ELSE "discover"
             d == place.here /\ place.dir
  <2>0. scan.pc = "probe" /\ scan.listed /\ scan.run <= place.run /\ (watcher.known => watcher.label <= scan.run)
    BY <1>0, <1>6 DEF ProbesEvents, ScanPoints
  <2>1. scan' = [scan EXCEPT !.pc = p, !.dir = d]
    BY <1>6 DEF ProbesEvents
  <2>2. /\ p \in ScanPcs /\ p \in {"events", "discover"} /\ d \in BOOLEAN
        /\ (p = "events" => watcher.known) /\ (p = "discover" => ~watcher.known)
    BY <1>1 DEF ScanPcs
  <2> HIDE DEF p, d
  <2>3. scan' \in Scans /\ scan'.pc = p /\ scan'.listed /\ scan'.run = scan.run
    BY <1>0, <2>0, <2>1, <2>2 DEF Scans
  <2>4. ~watcher.known => \A item \in shown.items : item.run < scan.run
    BY <1>0, <2>0 DEF Behind
  <2>5. ScanPoints'
    BY <1>0, <2>0, <2>2, <2>3 DEF ScanPoints
  <2>6. scan'.pc # "forget"
    BY <2>2, <2>3
  <2> QED
    BY <1>0, <2>3, <2>4, <2>5, <2>6, ScanMoves
<1>7. CASE WatchEnds
  <2>1. scan' = [scan EXCEPT !.pc = "over"]
    BY <1>7 DEF WatchEnds, ScanTo
  <2>2. scan' \in Scans /\ scan'.pc = "over"
    BY <1>0, <2>1 DEF Scans, ScanPcs
  <2> QED
    BY <1>0, <2>2, ScanMoves DEF ScanPoints
<1> QED
    BY <1>3, <1>4, <1>5, <1>6, <1>7

\* The scan goes on with watcher w of its session, and what was printed is items.
LEMMA NewsKept ==
    ASSUME WatchInv, scan.pc \in {"events", "discover", "skip", "log"},
           NEW p \in {"log", "skip", "forget"}, ScanTo(p), UNCHANGED <<place, flags>>,
           NEW w \in Watchers, watcher' = w, w.known, p = "skip" => w.offset = 0,
           NEW items, items \subseteq Items, shown'.items = items, shown'.inOrder,
           shown' = [items |-> shown'.items, inOrder |-> shown'.inOrder],
           \A item \in items : item.label <= item.run /\ item.run <= place.run,
           Labelled(w, items), Taken(w, items), Complete(w, items)
    PROVE  WatchInv'
<1>0. scan \in Scans /\ scan.listed
    BY DEF WatchInv, WatchTypes, ScanPoints
<1>1. scan' \in Scans /\ scan'.pc = p /\ scan'.listed
  <2>1. scan' = [scan EXCEPT !.pc = p]
    BY DEF ScanTo
  <2>2. p \in ScanPcs
    BY DEF ScanPcs
  <2> QED
    BY <1>0, <2>1, <2>2 DEF Scans
<1>2. WatchTypes'
    BY <1>1 DEF WatchInv, WatchTypes
<1>3. ScanPoints'
    BY <1>1 DEF ScanPoints
<1>4. Behind'
    BY <1>1 DEF Behind
<1>5. Labelled(watcher, shown.items)' /\ Taken(watcher, shown.items)' /\ Complete(watcher, shown.items)'
    BY DEF Labelled, Taken, Complete, Gone, WasPrinted
<1> QED
    BY <1>2, <1>3, <1>4, <1>5 DEF WatchInv

\* What was printed before is kept, and the order with it if nothing new is printed twice
\* or precedes what was printed.
LEMMA ShowsMore ==
    ASSUME WatchInv, NEW s, Shows(s), NEW new, Range(s) = new,
           \A a \in new, b \in shown.items : a.what # "status" => a # b /\ ~Precedes(a, b)
    PROVE  /\ shown'.items = shown.items \cup new /\ shown'.inOrder
           /\ shown' = [items |-> shown'.items, inOrder |-> shown'.inOrder]
BY DEF Shows, WatchInv

\* With --from-now the log is passed over; lines that are new go out under the run id that
\* the watcher has.
LEMMA LogKeeps ==
    ASSUME WatchInv, SkipsLog \/ ReadsLog
    PROVE  WatchInv'
<1>0. /\ WatchTypes /\ place \in Places /\ watcher \in Watchers /\ shown.items \subseteq Items
      /\ Labelled(watcher, shown.items) /\ Taken(watcher, shown.items) /\ Complete(watcher, shown.items)
      /\ Behind /\ shown.inOrder /\ shown = [items |-> shown.items, inOrder |-> shown.inOrder]
      /\ watcher.known /\ UNCHANGED <<place, flags>>
      /\ \A item \in shown.items : item.label <= item.run /\ item.run <= place.run
    BY DEF WatchInv, WatchTypes, ScanPoints, Behind, SkipsLog, ReadsLog, Reading
<1>1. /\ place.run \in Nat /\ place.lines \in Nat /\ watcher.offset \in Nat /\ watcher.label \in Nat
      /\ watcher.label <= place.run
    BY <1>0 DEF Places, Watchers, Labelled
<1>2. \A item \in shown.items : item.n \in Nat /\ item.label \in Nat /\ item.run \in Nat
    BY <1>0 DEF Items
<1>3. CASE SkipsLog
  <2>1. scan.pc = "skip" /\ watcher.offset = 0 /\ shown' = shown /\ ScanTo("log")
    BY <1>3 DEF SkipsLog, WatchInv, ScanPoints
  <2>2. CASE place.here
    <3> DEFINE w == [watcher EXCEPT !.offset = place.lines, !.skippedLines = place.lines]
    <3>1. watcher' = w
      BY <1>3, <2>2 DEF SkipsLog
    <3>2. /\ w \in Watchers /\ w.known /\ w.label = watcher.label /\ w.taken = watcher.taken
          /\ w.skipped = watcher.skipped /\ w.eventMode = watcher.eventMode
          /\ w.offset = place.lines /\ w.skippedLines = place.lines
      BY <1>0, <1>1 DEF Watchers
    <3> HIDE DEF w
    <3>3. PICK v \in Watchers : v = w
      BY <3>2
    <3>4. Labelled(v, shown.items)
      BY <1>0, <1>1, <1>2, <2>1, <3>2, <3>3 DEF Labelled
    <3>5. Taken(v, shown.items)
      BY <1>0, <3>2, <3>3 DEF Taken
    <3>6. Complete(v, shown.items)
      BY <1>0, <1>1, <3>2, <3>3 DEF Complete
    <3>7. PICK items : items = shown.items
      OBVIOUS
    <3> QED
      BY <1>0, <2>1, <3>1, <3>2, <3>3, <3>4, <3>5, <3>6, <3>7, NewsKept
  <2>3. CASE ~place.here
    <3>1. watcher' = watcher
      BY <1>3, <2>3 DEF SkipsLog
    <3>2. PICK v \in Watchers : v = watcher
      BY <1>0
    <3>3. PICK items : items = shown.items
      OBVIOUS
    <3> QED
      BY <1>0, <2>1, <3>1, <3>2, <3>3, NewsKept
  <2> QED
    BY <2>2, <2>3
<1>4. CASE ReadsLog
  <2>0. scan.pc = "log" /\ ScanTo("forget")
    BY <1>4 DEF ReadsLog
  <2>1. CASE flags.logs /\ place.here /\ watcher.offset < place.lines
    <3> DEFINE w == [watcher EXCEPT !.offset = place.lines]
               s == [i \in 1..(place.lines - watcher.offset) |->
                        [what |-> "line", run |-> place.run, n |-> watcher.offset + i, label |-> watcher.label]]
    <3>1. watcher' = w /\ Shows([i \in 1..(place.lines - watcher.offset) |-> Item("line", place.run, watcher.offset + i)])
      BY <1>4, <2>1 DEF ReadsLog
    <3>2. /\ w \in Watchers /\ w.known /\ w.label = watcher.label /\ w.taken = watcher.taken
          /\ w.skipped = watcher.skipped /\ w.eventMode = watcher.eventMode
          /\ w.offset = place.lines /\ w.skippedLines = watcher.skippedLines
      BY <1>0, <1>1 DEF Watchers
    <3>3. watcher'.label = watcher.label
      BY <3>1, <3>2
    <3> HIDE DEF w
    <3>4. Shows(s)
      BY <3>1, <3>3 DEF Item
    <3>5. PICK new : new = Range(s)
      OBVIOUS
    <3>6. /\ \A a \in new : /\ a \in Items /\ a.what = "line" /\ a.run = place.run /\ a.label = watcher.label
                            /\ a.n > watcher.offset /\ a.n <= place.lines
          /\ \A n \in Nat : watcher.offset < n /\ n <= place.lines =>
                [what |-> "line", run |-> place.run, n |-> n, label |-> watcher.label] \in new
      <4>1. ASSUME NEW a \in new
            PROVE  /\ a \in Items /\ a.what = "line" /\ a.run = place.run /\ a.label = watcher.label
                   /\ a.n > watcher.offset /\ a.n <= place.lines
        <5>1. PICK i \in 1..(place.lines - watcher.offset) :
                 a = [what |-> "line", run |-> place.run, n |-> watcher.offset + i, label |-> watcher.label]
          BY <3>5, <4>1 DEF Range
        <5> QED
          BY <1>1, <5>1 DEF Items
      <4>2. ASSUME NEW n \in Nat, watcher.offset < n, n <= place.lines
            PROVE  [what |-> "line", run |-> place.run, n |-> n, label |-> watcher.label] \in new
        <5>1. n - watcher.offset \in 1..(place.lines - watcher.offset) /\ watcher.offset + (n - watcher.offset) = n
          BY <1>1, <4>2
        <5>2. n - watcher.offset \in DOMAIN s /\ s[n - watcher.offset] \in Range(s)
          BY <5>1 DEF Range
        <5> QED
          BY <3>5, <5>1, <5>2
      <4> QED
        BY <4>1, <4>2
    <3> HIDE DEF s
    <3>7. ASSUME NEW a \in new, NEW b \in shown.items PROVE a # b /\ ~Precedes(a, b)
      <4>1. b.what = "line" /\ b.label = watcher.label => b.n <= watcher.offset
        BY <1>0 DEF Labelled
      <4>2. a.n \in Nat /\ b.n \in Nat
        BY <1>2, <3>6 DEF Items
      <4> QED
        BY <1>1, <3>6, <4>1, <4>2 DEF Precedes
    <3>8. /\ shown'.items = shown.items \cup new /\ shown'.inOrder
          /\ shown' = [items |-> shown'.items, inOrder |-> shown'.inOrder]
      <4>1. PICK q : q = s
        OBVIOUS
      <4> QED
        BY <3>4, <3>5, <3>7, <4>1, ShowsMore
    <3>9. PICK items : items = shown.items \cup new
      OBVIOUS
    <3>10. items \subseteq Items /\ \A item \in items : item.label <= item.run /\ item.run <= place.run
      BY <1>0, <1>1, <3>6, <3>9
    <3>11. PICK v \in Watchers : v = w
      BY <3>2
    <3>12. Labelled(v, items)
      <4>1. \A item \in items : item.what = "line" =>
               item.label <= watcher.label /\ (item.label = watcher.label => item.n <= place.lines)
        <5>1. ASSUME NEW item \in shown.items, item.what = "line"
              PROVE  item.label <= watcher.label /\ (item.label = watcher.label => item.n <= place.lines)
          <6>1. item.label <= watcher.label /\ (item.label = watcher.label => item.n <= watcher.offset)
            BY <1>0, <5>1 DEF Labelled
          <6> QED
            BY <1>1, <1>2, <2>1, <6>1
        <5> QED
          BY <1>1, <3>6, <3>9, <5>1
      <4> QED
        BY <1>1, <3>2, <3>11, <4>1 DEF Labelled
    <3>13. Taken(v, items)
      BY <1>0, <3>2, <3>6, <3>9, <3>11 DEF Taken
    <3>14. Complete(v, items)
      <4>1. ASSUME place.run = watcher.label, NEW n \in Nat, watcher.skippedLines < n, n <= place.lines
            PROVE  WasPrinted(items, "line", watcher.label, n)
        <5>1. CASE n <= watcher.offset
          BY <1>0, <2>1, <3>9, <4>1, <5>1 DEF Complete, WasPrinted
        <5>2. CASE ~(n <= watcher.offset)
          BY <1>1, <3>6, <3>9, <4>1, <5>2 DEF WasPrinted
        <5> QED
          BY <5>1, <5>2
      <4>2. Complete(watcher, shown.items)
        BY <1>0
      <4> QED
        BY <3>2, <3>9, <3>11, <4>1, <4>2 DEF Complete, WasPrinted
    <3> QED
      BY <1>0, <2>0, <3>1, <3>2, <3>8, <3>9, <3>10, <3>11, <3>12, <3>13, <3>14, NewsKept
  <2>2. CASE ~(flags.logs /\ place.here /\ watcher.offset < place.lines)
    <3>1. watcher' = watcher /\ shown' = shown
      BY <1>4, <2>2 DEF ReadsLog
    <3>2. PICK v \in Watchers : v = watcher
      BY <1>0
    <3>3. PICK items : items = shown.items
      OBVIOUS
    <3> QED
      BY <1>0, <2>0, <3>1, <3>2, <3>3, NewsKept
  <2> QED
    BY <2>1, <2>2
<1> QED
    BY <1>3, <1>4

\* A watcher is dropped when its session was not listed: everything printed is of runs
\* that are gone.
LEMMA ForgetsKeeps ==
    ASSUME WatchInv, Forgets
    PROVE  WatchInv'
<1>0. /\ WatchTypes /\ scan \in Scans /\ place \in Places /\ UNCHANGED <<place, flags, shown>>
      /\ scan.pc = "forget" /\ shown.items \subseteq Items /\ WatchRuns \in Nat
      /\ scan' = [scan EXCEPT !.pc = "list", !.first = FALSE]
    BY WatchAssumption DEF WatchInv, WatchTypes, Forgets, Reading
<1>1. scan' \in Scans /\ scan'.pc = "list"
    BY <1>0 DEF Scans, ScanPcs
<1>2. CASE scan.listed
  <2>1. watcher' = watcher
    BY <1>2 DEF Forgets
  <2> QED
    BY <1>0, <1>1, <2>1, ScanMoves DEF ScanPoints
<1>3. CASE ~scan.listed
  <2>1. watcher' = NoWatcher
    BY <1>3 DEF Forgets
  <2>2. /\ watcher' \in Watchers /\ ~watcher'.known /\ \A r \in Runs : watcher'.taken[r] = 0 /\ watcher'.skipped[r] = 0
    BY <2>1 DEF NoWatcher, Watchers, Runs
  <2>3. \A item \in shown.items : Gone(item.run)
    BY <1>0, <1>3 DEF WatchInv, Behind
  <2>4. WatchTypes'
    BY <1>0, <1>1, <2>2 DEF WatchTypes
  <2>5. ScanPoints'
    BY <1>1 DEF ScanPoints
  <2>6. Behind'
    BY <1>0, <1>1, <2>3 DEF WatchInv, Behind, Gone
  <2>7. Labelled(watcher, shown.items)'
    BY <2>2 DEF Labelled
  <2>8. Taken(watcher, shown.items)'
    <3>1. place.events \in Nat /\ place.run \in Nat
      BY <1>0 DEF Places
    <3> QED
      BY <1>0, <2>2, <2>3, <3>1 DEF WatchInv, Taken, Gone
  <2>9. Complete(watcher, shown.items)'
    BY <2>2 DEF Complete
  <2> QED
    BY <1>0, <2>4, <2>5, <2>6, <2>7, <2>8, <2>9 DEF WatchInv
<1> QED
    BY <1>2, <1>3

\* The events of the session's run beyond those taken go out, in order and none twice; they
\* are taken then.
LEMMA EventsKept ==
    ASSUME WatchInv, NEW w \in Watchers, w.known, w.eventMode, ShowsEvents(w),
           Labelled(w, shown.items), Taken(w, shown.items), Complete(w, shown.items),
           NEW v \in Watchers, v.known, v.eventMode, v.label = w.label, v.offset = w.offset,
           v.skipped = w.skipped, v.skippedLines = w.skippedLines,
           v.taken = IF place.here THEN [w.taken EXCEPT ![place.run] = place.events] ELSE w.taken
    PROVE  \E items \in SUBSET Items :
              /\ shown'.items = items /\ shown'.inOrder
              /\ shown' = [items |-> shown'.items, inOrder |-> shown'.inOrder]
              /\ \A item \in items : item.label <= item.run /\ item.run <= place.run
              /\ Labelled(v, items) /\ Taken(v, items) /\ Complete(v, items)
<1>0. /\ place \in Places /\ shown.items \subseteq Items /\ (place.here => place.run \in Runs)
      /\ \A item \in shown.items : item.label <= item.run /\ item.run <= place.run
  <2>1. WatchTypes /\ Behind
    BY DEF WatchInv
  <2>2. place.run \in Nat /\ place.run <= WatchRuns /\ (place.here => place.run >= 1) /\ WatchRuns \in Nat
    BY <2>1, WatchAssumption DEF WatchTypes, Places
  <2> QED
    BY <2>1, <2>2 DEF WatchTypes, Behind, Runs
<1>1. place.run \in Nat /\ place.events \in Nat /\ place.here \in BOOLEAN /\ w.taken \in [Runs -> Nat]
    BY <1>0 DEF Places, Watchers
<1>2. \A item \in shown.items : item.n \in Nat /\ item.label \in Nat /\ item.run \in Nat
    BY <1>0 DEF Items
<1> DEFINE new0 == NewEvents(w)
           s == [i \in DOMAIN new0 |-> Item("event", place.run, new0[i])]
<1>3. Shows(s)
    BY DEF ShowsEvents
<1>4. PICK new : new = Range(s)
    OBVIOUS
<1>5. CASE ~place.here
  <2>1. new0 = <<>>
    BY <1>5 DEF NewEvents
  <2> HIDE DEF new0
  <2>2. new = {}
    BY <1>4, <2>1 DEF Range
  <2> HIDE DEF s
  <2>3. PICK q : q = s
    OBVIOUS
  <2>4. /\ shown'.items = shown.items \cup new /\ shown'.inOrder
        /\ shown' = [items |-> shown'.items, inOrder |-> shown'.inOrder]
    BY <1>3, <1>4, <2>2, <2>3, ShowsMore
  <2>5. shown'.items = shown.items
    BY <2>2, <2>4
  <2>6. v.taken = w.taken
    BY <1>5
  <2>7. Labelled(v, shown.items) /\ Taken(v, shown.items) /\ Complete(v, shown.items)
    BY <2>6 DEF Labelled, Taken, Complete
  <2> QED
    BY <1>0, <2>4, <2>5, <2>7
<1>6. CASE place.here
  <2> DEFINE t == w.taken[place.run]
  <2>1. t \in Nat /\ t <= place.events /\ place.run \in Runs
    BY <1>0, <1>1, <1>6 DEF Taken
  <2>2. /\ v.taken[place.run] = place.events
        /\ \A r \in Runs : r # place.run => v.taken[r] = w.taken[r]
    BY <1>1, <1>6, <2>1
  <2>3. new0 = [i \in 1..(place.events - t) |-> t + i]
    BY <1>6 DEF NewEvents
  <2>4. s = [i \in 1..(place.events - t) |->
                [what |-> "event", run |-> place.run, n |-> t + i, label |-> place.run]]
    BY <2>3 DEF Item
  <2> HIDE DEF new0, s
  <2>5. ASSUME NEW a \in new
        PROVE  /\ a \in Items /\ a.what = "event" /\ a.run = place.run /\ a.label = place.run
               /\ a.n > t /\ a.n <= place.events
    <3>1. PICK i \in 1..(place.events - t) :
             a = [what |-> "event", run |-> place.run, n |-> t + i, label |-> place.run]
      BY <1>4, <2>4, <2>5 DEF Range
    <3> HIDE DEF t
    <3> QED
      BY <1>1, <2>1, <3>1 DEF Items
  <2>6. ASSUME NEW n \in Nat, t < n, n <= place.events
        PROVE  [what |-> "event", run |-> place.run, n |-> n, label |-> place.run] \in new
    <3> HIDE DEF t
    <3>1. n - t \in 1..(place.events - t) /\ t + (n - t) = n
      BY <1>1, <2>1, <2>6
    <3>2. n - t \in DOMAIN s /\ s[n - t] \in Range(s)
      BY <2>4, <3>1 DEF Range
    <3> QED
      BY <1>4, <2>4, <3>1, <3>2
  <2>7. ASSUME NEW b \in shown.items, b.what = "event", b.run = place.run
        PROVE  b.label = place.run /\ b.n <= t
    <3>1. ~Gone(place.run)
      BY <1>1, <1>6 DEF Gone
    <3> QED
      BY <2>7, <3>1 DEF Taken
  <2>8. ASSUME NEW a \in new, NEW b \in shown.items PROVE a # b /\ ~Precedes(a, b)
    <3> HIDE DEF t
    <3>1. a.n \in Nat /\ b.n \in Nat
      BY <1>2, <2>5 DEF Items
    <3> QED
      BY <1>1, <2>1, <2>5, <2>7, <3>1 DEF Precedes
  <2>9. /\ shown'.items = shown.items \cup new /\ shown'.inOrder
        /\ shown' = [items |-> shown'.items, inOrder |-> shown'.inOrder]
    <3>1. PICK q : q = s
      OBVIOUS
    <3> QED
      BY <1>3, <1>4, <2>8, <3>1, ShowsMore
  <2>10. PICK items : items = shown.items \cup new
    OBVIOUS
  <2>11. items \in SUBSET Items /\ \A item \in items : item.label <= item.run /\ item.run <= place.run
    BY <1>0, <1>1, <2>5, <2>10
  <2>12. Labelled(v, items)
    BY <2>5, <2>10 DEF Labelled
  <2>13. Taken(v, items)
    <3>1. ASSUME NEW item \in items, item.what = "event"
          PROVE  item.label = item.run /\ (Gone(item.run) \/ item.n <= v.taken[item.run])
      <4>1. CASE item \in new
        BY <2>2, <2>5, <4>1
      <4>2. CASE item \in shown.items
        <5>1. item.label = item.run
          BY <3>1, <4>2 DEF Taken
        <5>2. CASE item.run = place.run
          <6>1. item.n <= t /\ item.n \in Nat
            BY <1>2, <2>7, <3>1, <4>2, <5>2
          <6> HIDE DEF t
          <6>2. item.n <= place.events
            BY <1>1, <2>1, <6>1
          <6> QED
            BY <2>2, <5>1, <5>2, <6>2
        <5>3. CASE item.run # place.run
          <6>1. item.run < place.run
            BY <1>0, <1>1, <1>2, <4>2, <5>3
          <6> QED
            BY <5>1, <6>1 DEF Gone
        <5> QED
          BY <5>2, <5>3
      <4> QED
        BY <2>10, <4>1, <4>2
    <3>2. ASSUME NEW r \in Runs
          PROVE  /\ r > place.run => v.taken[r] = 0
                 /\ r = place.run /\ place.here => v.taken[r] <= place.events
      <4>1. r > place.run => w.taken[r] = 0 /\ r # place.run
        BY <1>1 DEF Taken, Runs
      <4> QED
        BY <1>1, <2>2, <4>1
    <3> QED
      BY <3>1, <3>2 DEF Taken
  <2>14. Complete(v, items)
    <3>1. ASSUME flags.events, NEW r \in Runs, NEW n \in Nat, v.skipped[r] < n, n <= v.taken[r]
          PROVE  WasPrinted(items, "event", r, n)
      <4>1. CASE n <= w.taken[r]
        BY <2>10, <3>1, <4>1 DEF Complete, WasPrinted
      <4>2. CASE ~(n <= w.taken[r])
        <5>1. r = place.run
          BY <2>2, <3>1, <4>2
        <5> HIDE DEF t
        <5>2. t < n /\ n <= place.events
          <6>1. t = w.taken[place.run]
            BY DEF t
          <6> QED
            BY <2>1, <2>2, <3>1, <4>2, <5>1, <6>1
        <5> QED
          BY <2>6, <2>10, <5>1, <5>2 DEF WasPrinted
      <4> QED
        BY <4>1, <4>2
    <3>2. flags.logs /\ v.known /\ place.here /\ place.run = v.label => \A n \in Nat :
             v.skippedLines < n /\ n <= v.offset => WasPrinted(items, "line", v.label, n)
      BY <2>10 DEF Complete, WasPrinted
    <3> QED
      BY <3>1, <3>2 DEF Complete
  <2> QED
    BY <2>9, <2>10, <2>11, <2>12, <2>13, <2>14
<1> QED
    BY <1>1, <1>5, <1>6

\* A status goes out under the run id that meta.json gave.
LEMMA StatusKept ==
    ASSUME WatchInv, ShowsStatus, scan.run <= place.run, watcher'.label = scan.run,
           NEW w \in Watchers, Labelled(w, shown.items), Taken(w, shown.items), Complete(w, shown.items)
    PROVE  \E items \in SUBSET Items :
              /\ shown'.items = items /\ shown'.inOrder
              /\ shown' = [items |-> shown'.items, inOrder |-> shown'.inOrder]
              /\ \A item \in items : item.label <= item.run /\ item.run <= place.run
              /\ Labelled(w, items) /\ Taken(w, items) /\ Complete(w, items)
<1>0. /\ scan.run \in Nat /\ scan.status \in Nat /\ shown.items \subseteq Items
      /\ \A item \in shown.items : item.label <= item.run /\ item.run <= place.run
    BY DEF WatchInv, WatchTypes, Scans, Behind
<1>1. PICK status : status = [what |-> "status", run |-> scan.run, n |-> scan.status, label |-> scan.run]
    OBVIOUS
<1>2. Shows(<<status>>)
    BY <1>1 DEF ShowsStatus, Item
<1>3. PICK s : s = <<status>>
    OBVIOUS
<1>4. PICK new : new = Range(s)
    OBVIOUS
<1>5. \A a \in new : a = status
    BY <1>3, <1>4 DEF Range
<1>6. status \in Items /\ status.what = "status" /\ status.run = scan.run /\ status.label = scan.run
    BY <1>0, <1>1 DEF Items
<1>7. /\ shown'.items = shown.items \cup new /\ shown'.inOrder
      /\ shown' = [items |-> shown'.items, inOrder |-> shown'.inOrder]
    BY <1>2, <1>3, <1>4, <1>5, <1>6, ShowsMore
<1>8. PICK items : items = shown.items \cup new
    OBVIOUS
<1>9. items \in SUBSET Items /\ \A item \in items : item.label <= item.run /\ item.run <= place.run
    BY <1>0, <1>5, <1>6, <1>8
<1>10. Labelled(w, items)
    BY <1>5, <1>6, <1>8 DEF Labelled
<1>11. Taken(w, items)
    BY <1>5, <1>6, <1>8 DEF Taken
<1>12. Complete(w, items)
    BY <1>8 DEF Complete, WasPrinted
<1> QED
    BY <1>7, <1>8, <1>9, <1>10, <1>11, <1>12

\* A change of run starts at the head of a log of which nothing was printed, and the event
\* log is switched to when all that was taken of it is gone.
LEMMA SwitchedKeeps ==
    ASSUME WatchInv, scan.pc = "events"
    PROVE  \E w \in Watchers :
              /\ w = Switched(Relabelled(watcher)) /\ w.known /\ w.label = scan.run /\ scan.run <= place.run
              /\ Labelled(w, shown.items) /\ Taken(w, shown.items) /\ Complete(w, shown.items)
<1>0. /\ watcher \in Watchers /\ scan \in Scans /\ place \in Places /\ shown.items \subseteq Items
      /\ watcher.known /\ scan.run <= place.run /\ watcher.label <= scan.run
      /\ Labelled(watcher, shown.items) /\ Taken(watcher, shown.items) /\ Complete(watcher, shown.items)
    BY DEF WatchInv, WatchTypes, ScanPoints
<1>1. /\ watcher.label \in Nat /\ watcher.offset \in Nat /\ scan.run \in Nat /\ place.run \in Nat /\ place.events \in Nat
      /\ watcher.eventMode \in BOOLEAN /\ scan.dir \in BOOLEAN
    BY <1>0 DEF Watchers, Scans, Places
<1>2. \A item \in shown.items : item.label \in Nat /\ item.n \in Nat
    BY <1>0 DEF Items
<1>3. PICK u \in Watchers :
         /\ u = Relabelled(watcher) /\ u.known /\ u.label = scan.run /\ u.eventMode = watcher.eventMode
         /\ u.taken = watcher.taken /\ u.skipped = watcher.skipped
         /\ \/ scan.run = watcher.label /\ u.offset = watcher.offset /\ u.skippedLines = watcher.skippedLines
            \/ watcher.label < scan.run /\ u.offset = 0 /\ u.skippedLines = 0
  <2>1. CASE watcher.label = scan.run
    BY <1>0, <2>1 DEF Relabelled
  <2>2. CASE watcher.label # scan.run
    <3> DEFINE u == [watcher EXCEPT !.label = scan.run, !.last = 0, !.offset = 0, !.skippedLines = 0]
    <3>1. u = Relabelled(watcher)
      BY <2>2 DEF Relabelled
    <3>2. /\ u \in Watchers /\ u.known /\ u.label = scan.run /\ u.eventMode = watcher.eventMode
          /\ u.taken = watcher.taken /\ u.skipped = watcher.skipped /\ u.offset = 0 /\ u.skippedLines = 0
      BY <1>0, <1>1 DEF Watchers
    <3>3. watcher.label < scan.run
      BY <1>0, <1>1, <2>2
    <3> HIDE DEF u
    <3> QED
      BY <3>1, <3>2, <3>3
  <2> QED
    BY <2>1, <2>2
<1>4. Labelled(u, shown.items)
  <2>1. ASSUME NEW item \in shown.items, item.what = "line"
        PROVE  item.label <= scan.run /\ (item.label = scan.run => item.n <= u.offset)
    <3>1. item.label <= watcher.label /\ (item.label = watcher.label => item.n <= watcher.offset)
      BY <1>0, <2>1 DEF Labelled
    <3> QED
      BY <1>0, <1>1, <1>2, <1>3, <3>1
  <2> QED
    BY <1>0, <1>3, <2>1 DEF Labelled
<1>5. Taken(u, shown.items)
    BY <1>0, <1>3 DEF Taken
<1>6. Complete(u, shown.items)
  <2>1. \A n \in Nat : u.skippedLines < n /\ n <= u.offset => scan.run = watcher.label
    BY <1>3
  <2> QED
    BY <1>0, <1>3, <2>1 DEF Complete, WasPrinted
<1>7. CASE u.eventMode \/ ~scan.dir
  <2>1. u = Switched(Relabelled(watcher))
    BY <1>3, <1>7 DEF Switched
  <2> QED
    BY <1>0, <1>3, <1>4, <1>5, <1>6, <2>1
<1>8. CASE ~(u.eventMode \/ ~scan.dir)
  <2> DEFINE w == [u EXCEPT !.eventMode = TRUE, !.taken = NoWatcher.taken, !.skipped = NoWatcher.skipped]
  <2>1. w = Switched(Relabelled(watcher))
    BY <1>3, <1>8 DEF Switched
  <2>2. /\ w \in Watchers /\ w.known /\ w.label = u.label /\ w.offset = u.offset /\ w.skippedLines = u.skippedLines
        /\ w.eventMode /\ \A r \in Runs : w.taken[r] = 0 /\ w.skipped[r] = 0
    <3>1. /\ NoWatcher.taken \in [Runs -> Nat] /\ NoWatcher.skipped \in [Runs -> Nat]
          /\ \A r \in Runs : NoWatcher.taken[r] = 0 /\ NoWatcher.skipped[r] = 0
      BY DEF NoWatcher, Runs
    <3> QED
      BY <1>3, <3>1 DEF Watchers
  <2> HIDE DEF w
  <2>3. PICK x \in Watchers : x = w
    BY <2>2
  <2>30. /\ x.label = u.label /\ x.offset = u.offset /\ x.skippedLines = u.skippedLines /\ x.known /\ u.known
         /\ \A r \in Runs : x.taken[r] = 0 /\ x.skipped[r] = 0
    BY <1>3, <2>2, <2>3
  <2>4. Labelled(x, shown.items)
    BY <1>4, <2>30 DEF Labelled
  <2>5. Taken(x, shown.items)
    <3>1. \A item \in shown.items : item.what = "event" => item.label = item.run /\ Gone(item.run)
      BY <1>3, <1>5, <1>8 DEF Taken
    <3> QED
      BY <1>1, <2>2, <2>3, <3>1 DEF Taken
  <2>6. Complete(x, shown.items)
    <3>1. \A r \in Runs : \A n \in Nat : ~(x.skipped[r] < n /\ n <= x.taken[r])
      BY <2>30
    <3> QED
      BY <1>6, <2>30, <3>1 DEF Complete
  <2> QED
    BY <1>0, <1>3, <2>1, <2>2, <2>3, <2>4, <2>5, <2>6
<1> QED
    BY <1>7, <1>8

LEMMA TookIs ==
    ASSUME WatchInv, NEW w \in Watchers
    PROVE  /\ Took(w) \in Watchers /\ Took(w).known = w.known /\ Took(w).eventMode = w.eventMode
           /\ Took(w).label = w.label /\ Took(w).offset = w.offset /\ Took(w).skipped = w.skipped
           /\ Took(w).skippedLines = w.skippedLines
           /\ Took(w).taken = IF place.here THEN [w.taken EXCEPT ![place.run] = place.events] ELSE w.taken
<1>1. place \in Places /\ (place.here => place.run \in Runs)
  <2>1. WatchTypes
    BY DEF WatchInv
  <2>2. place.run \in Nat /\ place.run <= WatchRuns /\ (place.here => place.run >= 1) /\ WatchRuns \in Nat
    BY <2>1, WatchAssumption DEF WatchTypes, Places
  <2> QED
    BY <2>1, <2>2 DEF WatchTypes, Runs
<1>2. CASE place.here
  <2>1. [w.taken EXCEPT ![place.run] = place.events] \in [Runs -> Nat]
    BY <1>1, <1>2 DEF Places, Watchers
  <2> QED
    BY <1>2, <2>1 DEF Took, Watchers
<1>3. CASE ~place.here
    BY <1>3 DEF Took
<1> QED
    BY <1>1, <1>2, <1>3 DEF Places

\* The status that was seen last has no part in the invariant.
LEMMA LastIs ==
    ASSUME NEW w \in Watchers, NEW status \in Nat
    PROVE  \E v \in Watchers :
              /\ v = [w EXCEPT !.last = status] /\ v.known = w.known /\ v.eventMode = w.eventMode
              /\ v.label = w.label /\ v.offset = w.offset /\ v.skipped = w.skipped
              /\ v.skippedLines = w.skippedLines /\ v.taken = w.taken
<1> DEFINE v == [w EXCEPT !.last = status]
<1>1. /\ v \in Watchers /\ v.known = w.known /\ v.eventMode = w.eventMode
      /\ v.label = w.label /\ v.offset = w.offset /\ v.skipped = w.skipped
      /\ v.skippedLines = w.skippedLines /\ v.taken = w.taken
    BY DEF Watchers
<1> QED
    BY <1>1

\* A session that is watched already.
LEMMA NewsKeeps ==
    ASSUME WatchInv, NewsOfSession
    PROVE  WatchInv'
<1>0. /\ scan.pc = "events" /\ ScanTo("log") /\ UNCHANGED <<place, flags>> /\ scan.status \in Nat
      /\ shown.inOrder /\ shown = [items |-> shown.items, inOrder |-> shown.inOrder]
      /\ shown.items \subseteq Items
      /\ \A item \in shown.items : item.label <= item.run /\ item.run <= place.run
    BY DEF NewsOfSession, Reading, WatchInv, WatchTypes, Behind, Scans
<1>1. PICK w \in Watchers :
         /\ w = Switched(Relabelled(watcher)) /\ w.known /\ w.label = scan.run /\ scan.run <= place.run
         /\ Labelled(w, shown.items) /\ Taken(w, shown.items) /\ Complete(w, shown.items)
    BY <1>0, SwitchedKeeps
<1>2. PICK old : old = shown.items
    OBVIOUS
<1>3. CASE ~flags.events
  <2>1. watcher' = w /\ shown' = shown
    BY <1>1, <1>3 DEF NewsOfSession
  <2> QED
    BY <1>0, <1>1, <1>2, <2>1, NewsKept
<1>4. CASE flags.events /\ w.eventMode
  <2>1. watcher' = [Took(w) EXCEPT !.last = scan.status] /\ ShowsEvents(w)
    BY <1>1, <1>4 DEF NewsOfSession
  <2>2. PICK u \in Watchers :
           /\ u = Took(w) /\ u.known = w.known /\ u.eventMode = w.eventMode
           /\ u.label = w.label /\ u.offset = w.offset /\ u.skipped = w.skipped /\ u.skippedLines = w.skippedLines
           /\ u.taken = IF place.here THEN [w.taken EXCEPT ![place.run] = place.events] ELSE w.taken
    BY TookIs
  <2>3. PICK v \in Watchers :
           /\ v = [u EXCEPT !.last = scan.status] /\ v.known = w.known /\ v.eventMode = w.eventMode
           /\ v.label = w.label /\ v.offset = w.offset /\ v.skipped = w.skipped /\ v.skippedLines = w.skippedLines
           /\ v.taken = u.taken
    BY <1>0, <2>2, LastIs
  <2>4. watcher' = v
    BY <2>1, <2>2, <2>3
  <2>5. PICK items \in SUBSET Items :
              /\ shown'.items = items /\ shown'.inOrder
              /\ shown' = [items |-> shown'.items, inOrder |-> shown'.inOrder]
              /\ \A item \in items : item.label <= item.run /\ item.run <= place.run
              /\ Labelled(v, items) /\ Taken(v, items) /\ Complete(v, items)
    BY <1>1, <1>4, <2>1, <2>2, <2>3, EventsKept
  <2> QED
    BY <1>0, <1>1, <2>3, <2>4, <2>5, NewsKept
<1>5. CASE flags.events /\ ~w.eventMode
  <2>1. /\ watcher' = [w EXCEPT !.last = scan.status]
        /\ IF w.last # scan.status THEN ShowsStatus ELSE UNCHANGED shown
    BY <1>1, <1>5 DEF NewsOfSession
  <2>2. PICK v \in Watchers :
           /\ v = [w EXCEPT !.last = scan.status] /\ v.known = w.known /\ v.eventMode = w.eventMode
           /\ v.label = w.label /\ v.offset = w.offset /\ v.skipped = w.skipped /\ v.skippedLines = w.skippedLines
           /\ v.taken = w.taken
    BY <1>0, LastIs
  <2>3. Labelled(v, shown.items) /\ Taken(v, shown.items) /\ Complete(v, shown.items)
    BY <1>1, <2>2 DEF Labelled, Taken, Complete
  <2>4. CASE w.last # scan.status
    <3>1. watcher'.label = scan.run /\ ShowsStatus
      BY <1>1, <2>1, <2>2, <2>4
    <3>2. PICK items \in SUBSET Items :
              /\ shown'.items = items /\ shown'.inOrder
              /\ shown' = [items |-> shown'.items, inOrder |-> shown'.inOrder]
              /\ \A item \in items : item.label <= item.run /\ item.run <= place.run
              /\ Labelled(v, items) /\ Taken(v, items) /\ Complete(v, items)
      BY <1>1, <2>3, <3>1, StatusKept
    <3> QED
      BY <1>0, <1>1, <2>1, <2>2, <3>2, NewsKept
  <2>5. CASE w.last = scan.status
    BY <1>0, <1>1, <1>2, <2>1, <2>2, <2>3, <2>5, NewsKept
  <2> QED
    BY <2>4, <2>5
<1> QED
    BY <1>3, <1>4, <1>5

\* A new session: everything printed was of earlier runs, so that the watcher can start with
\* its whole history, with a part of it that is left out on purpose, or at its present state.
LEMMA DiscoversKeeps ==
    ASSUME WatchInv, Discovers
    PROVE  WatchInv'
<1>0. /\ scan \in Scans /\ place \in Places /\ scan.pc = "discover" /\ UNCHANGED <<place, flags>>
      /\ shown.inOrder /\ shown = [items |-> shown.items, inOrder |-> shown.inOrder]
      /\ shown.items \subseteq Items /\ scan.run <= place.run
      /\ \A item \in shown.items : item.label <= item.run /\ item.run <= place.run /\ Gone(item.run) /\ item.run < scan.run
    BY DEF Discovers, Reading, WatchInv, WatchTypes, ScanPoints, Behind
<1>1. /\ scan.run \in Nat /\ scan.status \in Nat /\ scan.dir \in BOOLEAN /\ place.run \in Nat /\ place.events \in Nat
    BY <1>0 DEF Scans, Places
<1>2. \A item \in shown.items : item.label \in Nat /\ item.n \in Nat /\ item.run \in Nat
    BY <1>0 DEF Items
<1>3. PICK p : p = IF scan.initial THEN "skip" ELSE "log"
    OBVIOUS
<1>4. p \in {"log", "skip", "forget"} /\ ScanTo(p)
    BY <1>3 DEF Discovers
<1> DEFINE fresh == [NoWatcher EXCEPT !.known = TRUE, !.label = scan.run, !.last = scan.status, !.eventMode = scan.dir]
           silent == scan.initial \/ ~flags.events
           history == NewEvents(fresh)
           consumed == Took(fresh)
<1>5. PICK w \in Watchers :
         /\ w = fresh /\ w.known /\ w.label = scan.run /\ w.eventMode = scan.dir /\ w.offset = 0 /\ w.skippedLines = 0
         /\ \A r \in Runs : w.taken[r] = 0 /\ w.skipped[r] = 0
  <2>1. /\ NoWatcher \in Watchers /\ NoWatcher.offset = 0 /\ NoWatcher.skippedLines = 0
        /\ \A r \in Runs : NoWatcher.taken[r] = 0 /\ NoWatcher.skipped[r] = 0
    BY DEF NoWatcher, Watchers, Runs
  <2>2. /\ fresh \in Watchers /\ fresh.known /\ fresh.label = scan.run /\ fresh.eventMode = scan.dir
        /\ fresh.offset = NoWatcher.offset /\ fresh.skippedLines = NoWatcher.skippedLines
        /\ fresh.taken = NoWatcher.taken /\ fresh.skipped = NoWatcher.skipped
    BY <1>1, <2>1 DEF Watchers
  <2> HIDE DEF fresh
  <2> QED
    BY <2>1, <2>2
<1>6. \/ ~scan.dir /\ watcher' = fresh /\ IF silent THEN UNCHANGED shown ELSE ShowsStatus
      \/ /\ scan.dir /\ (silent \/ scan.first)
         /\ watcher' = [consumed EXCEPT !.skipped = consumed.taken]
         /\ IF silent THEN UNCHANGED shown
            ELSE IF history = <<>> THEN ShowsStatus
            ELSE Shows(<<Item("event", place.run, Last(history))>>)
      \/ scan.dir /\ watcher' = consumed /\ ShowsEvents(fresh)
  <2> HIDE DEF fresh, silent, history, consumed
  <2> QED
    BY DEF Discovers, fresh, silent, history, consumed
<1>7. PICK old : old = shown.items
    OBVIOUS
<1> HIDE DEF fresh, silent
<1>8. ASSUME NEW v \in Watchers, v.known, v.label = scan.run, v.offset = 0, v.skippedLines = 0,
             \A r \in Runs : /\ v.skipped[r] = v.taken[r] /\ (r > place.run => v.taken[r] = 0)
                             /\ (r = place.run /\ place.here => v.taken[r] <= place.events)
      PROVE  Labelled(v, shown.items) /\ Taken(v, shown.items) /\ Complete(v, shown.items)
  <2>1. Labelled(v, shown.items)
    BY <1>0, <1>1, <1>2, <1>8 DEF Labelled
  <2>2. \A item \in shown.items : item.what = "event" => item.label = item.run
    BY DEF WatchInv, Taken
  <2>3. Taken(v, shown.items)
    BY <1>0, <1>8, <2>2 DEF Taken
  <2>4. Complete(v, shown.items)
    <3>1. \A r \in Runs : v.taken[r] \in Nat
      BY DEF Watchers
    <3> QED
      BY <1>8, <3>1 DEF Complete
  <2> QED
    BY <2>1, <2>3, <2>4
<1>9. \A r \in Runs : r = place.run /\ place.here => 0 <= place.events
    BY <1>1
<1>10. Labelled(w, shown.items) /\ Taken(w, shown.items) /\ Complete(w, shown.items)
    BY <1>5, <1>8, <1>9
<1>11. PICK u \in Watchers :
         /\ u = Took(w) /\ u.known = w.known /\ u.eventMode = w.eventMode
         /\ u.label = w.label /\ u.offset = w.offset /\ u.skipped = w.skipped /\ u.skippedLines = w.skippedLines
         /\ u.taken = IF place.here THEN [w.taken EXCEPT ![place.run] = place.events] ELSE w.taken
    BY TookIs
<1>12. CASE ~scan.dir /\ watcher' = fresh /\ IF silent THEN UNCHANGED shown ELSE ShowsStatus
  <2>1. watcher' = w
    BY <1>5, <1>12
  <2>2. CASE silent
    BY <1>0, <1>4, <1>5, <1>7, <1>10, <1>12, <2>1, <2>2, NewsKept
  <2>3. CASE ~silent
    <3>1. PICK items \in SUBSET Items :
              /\ shown'.items = items /\ shown'.inOrder
              /\ shown' = [items |-> shown'.items, inOrder |-> shown'.inOrder]
              /\ \A item \in items : item.label <= item.run /\ item.run <= place.run
              /\ Labelled(w, items) /\ Taken(w, items) /\ Complete(w, items)
      BY <1>0, <1>5, <1>10, <1>12, <2>1, <2>3, StatusKept
    <3> QED
      BY <1>0, <1>4, <1>5, <2>1, <3>1, NewsKept
  <2> QED
    BY <2>2, <2>3
<1>13. CASE /\ scan.dir /\ (silent \/ scan.first)
            /\ watcher' = [consumed EXCEPT !.skipped = consumed.taken]
            /\ IF silent THEN UNCHANGED shown
               ELSE IF history = <<>> THEN ShowsStatus
               ELSE Shows(<<Item("event", place.run, Last(history))>>)
  <2>1. PICK v \in Watchers :
           /\ v = [u EXCEPT !.skipped = u.taken] /\ v.known /\ v.eventMode /\ v.label = scan.run /\ v.offset = 0
           /\ v.skippedLines = 0 /\ v.taken = u.taken /\ v.skipped = u.taken
    <3> DEFINE x == [u EXCEPT !.skipped = u.taken]
    <3>1. /\ x \in Watchers /\ x.known = u.known /\ x.eventMode = u.eventMode /\ x.label = u.label
          /\ x.offset = u.offset /\ x.skippedLines = u.skippedLines /\ x.taken = u.taken /\ x.skipped = u.taken
      BY DEF Watchers
    <3> HIDE DEF x
    <3> QED
      BY <1>5, <1>11, <1>13, <3>1, ZenonT(30) DEF x
  <2>2. watcher' = v
    BY <1>5, <1>11, <1>13, <2>1
  <2>3. ASSUME NEW r \in Runs
        PROVE  /\ v.skipped[r] = v.taken[r] /\ (r > place.run => v.taken[r] = 0)
               /\ (r = place.run /\ place.here => v.taken[r] = place.events /\ v.taken[r] <= place.events)
    <3>1. w.taken \in [Runs -> Nat] /\ r \in Nat
      BY DEF Watchers, Runs
    <3> QED
      BY <1>1, <1>5, <1>11, <2>1, <3>1
  <2>4. Labelled(v, shown.items) /\ Taken(v, shown.items) /\ Complete(v, shown.items)
    BY <1>8, <2>1, <2>3
  <2>5. CASE silent
    BY <1>0, <1>4, <1>7, <1>13, <2>1, <2>2, <2>4, <2>5, NewsKept
  <2>6. CASE ~silent /\ history = <<>>
    <3>1. ShowsStatus
      BY <1>13, <2>6
    <3>2. PICK items \in SUBSET Items :
              /\ shown'.items = items /\ shown'.inOrder
              /\ shown' = [items |-> shown'.items, inOrder |-> shown'.inOrder]
              /\ \A item \in items : item.label <= item.run /\ item.run <= place.run
              /\ Labelled(v, items) /\ Taken(v, items) /\ Complete(v, items)
      BY <1>0, <2>1, <2>2, <2>4, <3>1, StatusKept
    <3> QED
      BY <1>0, <1>4, <2>1, <2>2, <3>2, NewsKept
  <2>7. CASE ~silent /\ history # <<>>
    <3>1. place.here /\ place.run \in Runs /\ place.events > 0 /\ Last(history) = place.events
      <4>1. place.here
        BY <2>7 DEF NewEvents
      <4>2. place.run \in Runs
        <5>1. WatchTypes /\ WatchRuns \in Nat
          BY WatchAssumption DEF WatchInv
        <5> QED
          BY <1>1, <4>1, <5>1 DEF WatchTypes, Runs
      <4>3. w.taken[place.run] = 0
        BY <1>5, <4>2
      <4>4. history = [i \in 1..place.events |-> i]
        <5>1. history = [i \in 1..(place.events - 0) |-> 0 + i]
          BY <1>5, <4>1, <4>3 DEF NewEvents
        <5> QED
          BY <1>1, <5>1
      <4> HIDE DEF history
      <4>5. place.events > 0
        <5>1. CASE place.events = 0
          BY <2>7, <4>4, <5>1
        <5> QED
          BY <1>1, <5>1
      <4>6. Len(history) = place.events
        BY <1>1, <4>4
      <4> QED
        BY <1>1, <4>1, <4>2, <4>4, <4>5, <4>6 DEF Last
    <3> HIDE DEF history
    <3>2. PICK event : event = [what |-> "event", run |-> place.run, n |-> place.events, label |-> place.run]
      OBVIOUS
    <3>3. PICK s : s = <<event>>
      OBVIOUS
    <3>4. Shows(s)
      BY <1>13, <2>7, <3>1, <3>2, <3>3 DEF Item
    <3>5. PICK new : new = Range(s)
      OBVIOUS
    <3>6. \A a \in new : a = event
      BY <3>3, <3>5 DEF Range
    <3>7. event \in Items /\ event.what = "event" /\ event.run = place.run /\ event.label = place.run /\ event.n = place.events
      BY <1>1, <3>2 DEF Items
    <3>8. \A a \in new, b \in shown.items : a # b /\ ~Precedes(a, b)
      BY <1>0, <1>1, <1>2, <3>6, <3>7 DEF Precedes
    <3>9. /\ shown'.items = shown.items \cup new /\ shown'.inOrder
          /\ shown' = [items |-> shown'.items, inOrder |-> shown'.inOrder]
      BY <3>4, <3>5, <3>8, ShowsMore
    <3>10. PICK items : items = shown.items \cup new
      OBVIOUS
    <3>11. items \in SUBSET Items /\ \A item \in items : item.label <= item.run /\ item.run <= place.run
      BY <1>0, <1>1, <3>6, <3>7, <3>10
    <3>12. Labelled(v, items)
      BY <2>4, <3>6, <3>7, <3>10 DEF Labelled
    <3>13. Taken(v, items)
      <4>1. v.taken[place.run] = place.events
        BY <2>3, <3>1
      <4>2. event.n <= v.taken[event.run] /\ event.label = event.run
        BY <1>1, <3>7, <4>1
      <4> QED
        BY <2>1, <2>4, <3>6, <3>10, <4>2 DEF Taken
    <3>14. Complete(v, items)
      BY <2>4, <3>10 DEF Complete, WasPrinted
    <3> QED
      BY <1>0, <1>4, <2>1, <2>2, <3>9, <3>10, <3>11, <3>12, <3>13, <3>14, NewsKept
  <2> QED
    BY <2>5, <2>6, <2>7
<1>14. CASE scan.dir /\ watcher' = consumed /\ ShowsEvents(fresh)
  <2>1. watcher' = u /\ ShowsEvents(w)
    BY <1>5, <1>11, <1>14
  <2>2. PICK items \in SUBSET Items :
              /\ shown'.items = items /\ shown'.inOrder
              /\ shown' = [items |-> shown'.items, inOrder |-> shown'.inOrder]
              /\ \A item \in items : item.label <= item.run /\ item.run <= place.run
              /\ Labelled(u, items) /\ Taken(u, items) /\ Complete(u, items)
    BY <1>5, <1>10, <1>11, <1>14, <2>1, EventsKept
  <2> QED
    BY <1>0, <1>4, <1>5, <1>11, <2>1, <2>2, NewsKept
<1> QED
    BY <1>6, <1>12, <1>13, <1>14

(***************************************************************************)
(* What is printed                                                         *)
(***************************************************************************)
LEMMA WatchInitInv == WatchInit => WatchInv
<1> SUFFICES ASSUME WatchInit PROVE WatchInv
    OBVIOUS
<1>1. WatchRuns \in Nat /\ flags \in WatchOptions
    BY WatchAssumption DEF WatchInit
<1>2. /\ watcher \in Watchers /\ ~watcher.known /\ \A r \in Runs : watcher.taken[r] = 0 /\ watcher.skipped[r] = 0
    BY DEF WatchInit, NoWatcher, Watchers, Runs
<1>3. shown = [items |-> {}, inOrder |-> TRUE] /\ shown.items = {} /\ shown.inOrder
    BY DEF WatchInit
<1>4. /\ place \in Places /\ place.run = 0 /\ ~place.here
      /\ scan \in Scans /\ scan.pc = "invoked" /\ scan.run = 0
    BY DEF WatchInit, Places, Scans, ScanPcs
<1>5. WatchTypes
    BY <1>1, <1>2, <1>3, <1>4 DEF WatchTypes
<1>6. ScanPoints /\ Behind
    BY <1>3, <1>4 DEF ScanPoints, Behind
<1>7. Labelled(watcher, shown.items) /\ Taken(watcher, shown.items)
    BY <1>2, <1>3, <1>4 DEF Labelled, Taken
<1>8. Complete(watcher, shown.items)
    BY <1>2 DEF Complete
<1> QED
    BY <1>3, <1>5, <1>6, <1>7, <1>8 DEF WatchInv

LEMMA WatchStep == WatchInv /\ [WatchNext]_watchVars => WatchInv'
<1> SUFFICES ASSUME WatchInv, [WatchNext]_watchVars PROVE WatchInv'
    OBVIOUS
<1>1. CASE SessionCreated \/ MetaWritten \/ EventsMade \/ EventAppended \/ LineLogged \/ SessionRemoved
    BY <1>1, SessionKeeps
<1>2. CASE WatchInvoked \/ ListsSessions \/ ReadsMeta \/ ProbesEvents \/ WatchEnds
    BY <1>2, LookingKeeps
<1>3. CASE NewsOfSession
    BY <1>3, NewsKeeps
<1>4. CASE Discovers
    BY <1>4, DiscoversKeeps
<1>5. CASE SkipsLog \/ ReadsLog
    BY <1>5, LogKeeps
<1>6. CASE Forgets
    BY <1>6, ForgetsKeeps
<1>7. CASE UNCHANGED watchVars
  <2>1. UNCHANGED <<place, flags, scan, watcher, shown>>
    BY <1>7 DEF watchVars
  <2>2. WatchTypes' /\ ScanPoints' /\ Behind' /\ shown'.inOrder
    BY <2>1 DEF WatchInv, WatchTypes, ScanPoints, Behind, Gone
  <2>3. Labelled(watcher, shown.items)' /\ Taken(watcher, shown.items)' /\ Complete(watcher, shown.items)'
    BY <2>1 DEF WatchInv, Labelled, Taken, Complete, Gone, WasPrinted
  <2> QED
    BY <2>2, <2>3 DEF WatchInv
<1> QED
    BY <1>1, <1>2, <1>3, <1>4, <1>5, <1>6, <1>7 DEF WatchNext

\* watch (src/commands/watch.rs) prints the events and the lines of a session that is replaced
\* under it once each and in order, no line under the id of a later run, and, between two
\* scans, everything it has consumed of a run that is still there and did not skip.
THEOREM WatchFaithfulHolds == WatchSpec => []WatchFaithful
<1>1. ASSUME WatchInv
      PROVE  WatchFaithful
  <2>1. /\ watcher \in Watchers /\ place \in Places /\ shown.inOrder
        /\ \A item \in shown.items : item.label <= item.run
        /\ Complete(watcher, shown.items)
    BY <1>1 DEF WatchInv, WatchTypes, Behind
  <2>2. ASSUME scan.pc = "list", watcher.known, place.here, place.run = watcher.label, flags.logs,
               NEW n \in (watcher.skippedLines + 1)..watcher.offset
        PROVE  Shown("line", place.run, n, place.run)
    <3>1. n \in Nat /\ watcher.skippedLines < n /\ n <= watcher.offset
      BY <2>1, <2>2 DEF Watchers
    <3> QED
      BY <2>1, <2>2, <3>1 DEF Complete, WasPrinted, Shown
  <2>3. ASSUME scan.pc = "list", watcher.known, place.here, place.run = watcher.label, flags.events,
               NEW n \in (watcher.skipped[place.run] + 1)..watcher.taken[place.run]
        PROVE  Shown("event", place.run, n, place.run)
    <3>1. place.run \in Runs
      <4>1. /\ place.run \in Nat /\ place.run <= WatchRuns /\ place.run >= 1 /\ WatchRuns \in Nat
        BY <1>1, <2>1, <2>3, WatchAssumption DEF WatchInv, WatchTypes, Places
      <4> QED
        BY <4>1 DEF Runs
    <3>2. n \in Nat /\ watcher.skipped[place.run] < n /\ n <= watcher.taken[place.run]
      <4>1. watcher.skipped[place.run] \in Nat /\ watcher.taken[place.run] \in Nat
        BY <2>1, <3>1 DEF Watchers
      <4> QED
        BY <2>3, <4>1
    <3> QED
      BY <2>1, <2>3, <3>1, <3>2 DEF Complete, WasPrinted, Shown
  <2> QED
    BY <2>1, <2>2, <2>3 DEF WatchFaithful
<1> QED
    BY <1>1, WatchInitInv, WatchStep, PTL DEF WatchSpec

(***************************************************************************)
(* EventLog: the lines of a segment                                        *)
(***************************************************************************)
\* A line of s after offset from: between two newlines, or from and a newline.
Line(s, from, a, b) ==
    /\ a \in Nat /\ b \in Nat /\ from <= a /\ a < b /\ b <= Len(s) /\ s[b] = NL
    /\ a = from \/ s[a] = NL
    /\ \A k \in (a + 1)..(b - 1) : s[k] # NL

LEMMA LargestIs ==
    ASSUME NEW T, T \subseteq Nat, T # {}, NEW b \in Nat, \A n \in T : n <= b
    PROVE  Largest(T) \in T /\ \A m \in T : m <= Largest(T)
<1>1. \E n \in T : \A m \in T : m <= n
    BY LargestNatural
<1> QED
    BY <1>1 DEF Largest

LEMMA LeastIs ==
    ASSUME NEW T, T \subseteq Nat, T # {}
    PROVE  Least(T) \in T /\ \A m \in T : Least(T) <= m
<1>1. \E n \in T : \A m \in T : n <= m
    BY LeastNatural
<1> QED
    BY <1>1 DEF Least

EndsOf(s, from) == {j \in (from + 1)..Len(s) : s[j] = NL}

\* The line that ends with a newline begins after the one before.
LEMMA LineBegins ==
    ASSUME NEW s \in Seq(Pieces), NEW from \in Nat, NEW j \in EndsOf(s, from),
           NEW a, a = Largest({from} \cup {k \in EndsOf(s, from) : k < j})
    PROVE  Line(s, from, a, j)
<1> DEFINE T == {from} \cup {k \in EndsOf(s, from) : k < j}
<1>1. j \in Nat /\ from < j /\ j <= Len(s) /\ s[j] = NL
    BY DEF EndsOf
<1>2. T \subseteq Nat /\ T # {} /\ (\A k \in T : k <= j) /\ a = Largest(T)
    BY <1>1 DEF EndsOf
<1> HIDE DEF T
<1>3. a \in T /\ \A m \in T : m <= a
    BY <1>1, <1>2, LargestIs
<1>4. a \in Nat /\ from <= a /\ a < j /\ (a = from \/ s[a] = NL)
    BY <1>1, <1>3 DEF T, EndsOf
<1>5. ASSUME NEW k \in (a + 1)..(j - 1), s[k] = NL
      PROVE  FALSE
  <2>1. k \in Nat /\ from + 1 <= k /\ k < j /\ k <= Len(s) /\ a < k
    BY <1>1, <1>4, <1>5
  <2>2. k \in T
    BY <1>1, <1>5, <2>1 DEF T, EndsOf
  <2> QED
    BY <1>3, <1>4, <2>1, <2>2
<1> QED
    BY <1>1, <1>4, <1>5 DEF Line

LEMMA LinesAre ==
    ASSUME NEW s \in Seq(Pieces), NEW from \in Nat, NEW l \in LinesFrom(s, from)
    PROVE  l = <<l[1], l[2]>> /\ Line(s, from, l[1], l[2])
<1>1. PICK j \in EndsOf(s, from) :
          l = <<Largest({from} \cup {k \in EndsOf(s, from) : k < j}), j>>
    BY DEF LinesFrom, EndsOf
<1>2. PICK a : a = Largest({from} \cup {k \in EndsOf(s, from) : k < j})
    OBVIOUS
<1>3. Line(s, from, a, j)
    BY <1>2, LineBegins
<1> QED
    BY <1>1, <1>2, <1>3

\* Where a line ends, it began.
LEMMA LineIsThere ==
    ASSUME NEW s \in Seq(Pieces), NEW from \in Nat, NEW j \in Nat, from < j, j <= Len(s), s[j] = NL
    PROVE  \E a \in Nat : <<a, j>> \in LinesFrom(s, from) /\ Line(s, from, a, j)
<1>1. j \in EndsOf(s, from)
    BY DEF EndsOf
<1>2. PICK a : a = Largest({from} \cup {k \in EndsOf(s, from) : k < j})
    OBVIOUS
<1>3. Line(s, from, a, j)
    BY <1>1, <1>2, LineBegins
<1>4. <<a, j>> \in LinesFrom(s, from)
    BY <1>1, <1>2 DEF LinesFrom, EndsOf
<1> QED
    BY <1>3, <1>4 DEF Line

\* A line is determined by where it ends, and by where it begins.
LEMMA LineUnique ==
    ASSUME NEW s \in Seq(Pieces), NEW from \in Nat, NEW a, NEW b, NEW c, NEW d, Line(s, from, a, b),
           Line(s, from, c, d)
    PROVE  (b = d => a = c) /\ (a = c => b = d)
<1>0. /\ a \in Nat /\ b \in Nat /\ c \in Nat /\ d \in Nat /\ from <= a /\ from <= c /\ a < b /\ c < d
      /\ s[b] = NL /\ s[d] = NL /\ (a = from \/ s[a] = NL) /\ (c = from \/ s[c] = NL)
    BY DEF Line
<1>1. ASSUME b = d, a < c PROVE FALSE
    BY <1>0, <1>1, c \in (a + 1)..(b - 1) DEF Line
<1>2. ASSUME b = d, c < a PROVE FALSE
    BY <1>0, <1>2, a \in (c + 1)..(d - 1) DEF Line
<1>3. ASSUME a = c, b < d PROVE FALSE
    BY <1>0, <1>3, b \in (c + 1)..(d - 1) DEF Line
<1>4. ASSUME a = c, d < b PROVE FALSE
    BY <1>0, <1>4, d \in (a + 1)..(b - 1) DEF Line
<1> QED
    BY <1>0, <1>1, <1>2, <1>3, <1>4

\* A line that parses is the two halves of one record and the newline.
Whole(s, k, r) == s[k + 1] = Head1(r) /\ s[k + 2] = Tail2(r) /\ s[k + 3] = NL
Record(s, from, k, r) ==
    /\ r \in Records /\ k \in Nat /\ from <= k /\ k + 3 <= Len(s) /\ Whole(s, k, r)
    /\ k = from \/ s[k] = NL

LEMMA PieceTypes ==
    ASSUME NEW r, NEW p \in Pieces
    PROVE  /\ p = Head1(r) => r \in Records
           /\ p = Tail2(r) => r \in Records
           /\ Head1(r) # NL /\ Tail2(r) # NL
           /\ \A q : Head1(r) # Tail2(q) /\ (Head1(r) = Head1(q) => r = q) /\ (Tail2(r) = Tail2(q) => r = q)
<1>1. /\ Head1(r).half = 1 /\ Head1(r).rec = r /\ Tail2(r).half = 2 /\ Tail2(r).rec = r /\ NL.half = 0
      /\ \A q : /\ Head1(q).half = 1 /\ Head1(q).rec = q /\ Tail2(q).half = 2 /\ Tail2(q).rec = q
    BY DEF Head1, Tail2, NL
<1>2. p # NL => p.rec \in Records
    BY DEF Pieces
<1> QED
    BY <1>1, <1>2

LEMMA RecordsAre ==
    ASSUME NEW s \in Seq(Pieces), NEW from \in Nat, NEW x \in ReadFrom(s, from).recs
    PROVE  x = [rec |-> x.rec, start |-> x.start] /\ Record(s, from, x.start, x.rec)
<1>1. PICK l \in LinesFrom(s, from) : \E r \in Parsed(s, l) : x = [rec |-> r, start |-> l[1]]
    BY DEF ReadFrom
<1>0. PICK r \in Parsed(s, l) : x = [rec |-> r, start |-> l[1]]
    BY <1>1
<1>2. PICK a, b : a = l[1] /\ b = l[2]
    OBVIOUS
<1>3. Line(s, from, a, b)
    BY <1>2, LinesAre
<1>4. b = a + 3 /\ s[a + 1] = Head1(r) /\ s[a + 2] = Tail2(r)
    BY <1>2 DEF Parsed, ParsesTo
<1>5. a \in Nat /\ from <= a /\ a + 3 <= Len(s) /\ s[a + 3] = NL /\ (a = from \/ s[a] = NL)
    BY <1>3, <1>4 DEF Line
<1>6. s[a + 1] \in Pieces
    BY <1>5
<1>7. r \in Records
    BY <1>4, <1>6, PieceTypes
<1> QED
    BY <1>0, <1>2, <1>4, <1>5, <1>7 DEF Record, Whole

LEMMA RecordIsRead ==
    ASSUME NEW s \in Seq(Pieces), NEW from \in Nat, NEW k, NEW r, Record(s, from, k, r)
    PROVE  [rec |-> r, start |-> k] \in ReadFrom(s, from).recs
<1>1. /\ k \in Nat /\ from <= k /\ k + 3 <= Len(s) /\ s[k + 1] = Head1(r) /\ s[k + 2] = Tail2(r)
      /\ s[k + 3] = NL /\ (k = from \/ s[k] = NL)
    BY DEF Record, Whole
<1>2. PICK j \in Nat : j = k + 3
    BY <1>1
<1>3. PICK a \in Nat : <<a, j>> \in LinesFrom(s, from) /\ Line(s, from, a, j)
    BY <1>1, <1>2, LineIsThere
<1>4. Line(s, from, k, j)
  <2>1. ASSUME NEW i \in (k + 1)..(j - 1) PROVE s[i] # NL
    <3>1. i = k + 1 \/ i = k + 2
      BY <1>1, <1>2
    <3>2. NL \in Pieces
      BY DEF Pieces
    <3> QED
      BY <1>1, <3>1, <3>2, PieceTypes
  <2> QED
    BY <1>1, <1>2, <2>1 DEF Line
<1>5. a = k
    BY <1>3, <1>4, LineUnique
<1>6. PICK l : l = <<k, j>>
    OBVIOUS
<1>7. l \in LinesFrom(s, from) /\ l[1] = k /\ l[2] = j
    BY <1>3, <1>5, <1>6
<1>8. r \in InLine(s, l)
  <2>1. k + 1 \in (k + 1)..(j - 1) /\ s[k + 1].rec = r
    BY <1>1, <1>2 DEF Head1
  <2> QED
    BY <1>7, <2>1 DEF InLine
<1>9. r \in Parsed(s, l)
    BY <1>1, <1>2, <1>7, <1>8 DEF Parsed, ParsesTo
<1> QED
    BY <1>7, <1>9 DEF ReadFrom

(***************************************************************************)
(* EventLog: the inductive invariant of the writers                        *)
(***************************************************************************)
WriterRecs == [pc : WriterPcs, next : Nat \ {0}, ts : Nat, ref : BOOLEAN, seg : Names \cup {NoName},
               era : Nat]
Unwritten == WriterPcs \ {"idle", "rest"}
Named == {"create", "lock"} \cup Holding

\* The event that a writer in state x appends.
EventOf(x, w) == [w |-> w, seq |-> x.next - 1, ts |-> x.ts, ref |-> x.ref]

HeadAt(S, n, k, r) == n \in DOMAIN S /\ k \in 1..Len(S[n]) /\ S[n][k] = Head1(r)
HeadLast(S, n, r) == Len(S[n]) > 0 /\ S[n][Len(S[n])] = Head1(r)

\* The segments: a second half follows its first; and the first halves of one writer
\* differ in seq and lie in its order.
SegsTyped(S) ==
    /\ S = [n \in DOMAIN S |-> S[n]]
    /\ \A n \in DOMAIN S : S[n] \in Seq(Pieces)
TailsFollow(S) ==
    \A n \in DOMAIN S : \A k \in 1..Len(S[n]) : \A r \in Records :
        S[n][k] = Tail2(r) => HeadAt(S, n, k - 1, r)
HeadsApart(S) ==
    \A n, m \in DOMAIN S : \A k, i \in Nat : \A q, r \in Records :
        HeadAt(S, n, k, q) /\ HeadAt(S, m, i, r) /\ q.w = r.w =>
            /\ q.seq = r.seq => n = m /\ k = i
            /\ n = m => (k < i <=> q.seq < r.seq)
SegsInv(S) == SegsTyped(S) /\ TailsFollow(S) /\ HeadsApart(S)

\* An acknowledged event is in a line of its own; a reference has its blob.
WholeAt(S, n, k, r) == HeadAt(S, n, k, r) /\ k + 2 <= Len(S[n]) /\ S[n][k + 1] = Tail2(r) /\ S[n][k + 2] = NL
AckedWhole(S, ak) == \A r \in ak : r \in Records /\ \E n \in DOMAIN S : \E k \in Nat : WholeAt(S, n, k, r)
RefsWhole(S, bl) ==
    \A n \in DOMAIN S : \A k \in Nat : \A r \in Records : HeadAt(S, n, k, r) /\ r.ref => bl = "whole"

\* Names are minted once, so that there is a last one.
BoundedBy(T, b) == \A n \in T : n <= b
MintedInv(S, mt) == DOMAIN S \subseteq mt /\ mt \subseteq Names /\ \E b \in Nat : BoundedBy(mt, b)

\* One writer: its segment, the era in which it took the lock, its next seq.
Fits(S, R, mt, bl, x, w) ==
    /\ x \in WriterRecs
    /\ x.pc # "idle" => x.next >= 2
    /\ x.pc \in Named => x.seg \in mt
    /\ x.pc = "create" => x.seg \notin DOMAIN S
    /\ x.pc \in Holding => x.era <= R /\ (x.era # R => x.seg \notin DOMAIN S)
    /\ R = 0 /\ x.pc \in Named \ {"create"} => x.seg \in DOMAIN S
    /\ x.pc = "rest" /\ x.seg \in DOMAIN S => HeadLast(S, x.seg, EventOf(x, w))
    /\ R = 0 /\ x.ref => bl = "whole"
SeqsOf(S, x, w) ==
    \A n \in DOMAIN S : \A k \in Nat : \A r \in Records :
        HeadAt(S, n, k, r) /\ r.w = w => r.seq < x.next /\ (x.pc \in Unwritten => r.seq < x.next - 1)

\* Two writers: one holds the lock, and a name is created by the one that minted it.
Apart(R, x, y) ==
    /\ ~(x.pc \in Holding /\ y.pc \in Holding /\ x.era = R /\ y.era = R)
    /\ x.pc = "create" /\ y.pc \in Named => x.seg # y.seg
    /\ y.pc = "create" /\ x.pc \in Named => x.seg # y.seg

OthersFit(S, R, mt, bl, W, w, x) ==
    \A v \in Writers \ {w} :
        Apart(R, W[v], x) /\ Fits(S, R, mt, bl, W[v], v) /\ SeqsOf(S, W[v], v)
AllFit(S, R, mt, bl, W) ==
    /\ W = [w \in Writers |-> W[w]]
    /\ \A w \in Writers : Fits(S, R, mt, bl, W[w], w) /\ SeqsOf(S, W[w], w) /\ OthersFit(S, R, mt, bl, W, w, W[w])

LogState(S, R, mt, bl, ak) ==
    /\ SegsInv(S) /\ MintedInv(S, mt) /\ bl \in {"none", "whole"} /\ ak \subseteq Records
    /\ R = 0 => AckedWhole(S, ak) /\ RefsWhole(S, bl)

LogCounters ==
    /\ setup \in Setups /\ dir \in BOOLEAN /\ removals \in 0..setup.removals /\ clock \in Nat
    /\ failures \in 0..setup.failures

LogInv ==
    /\ LogCounters
    /\ LogState(segs, removals, minted, blob, acked)
    /\ AllFit(segs, removals, minted, blob, wr)

\* One writer moves; the others still fit.
LEMMA MovesFit ==
    ASSUME NEW S, NEW R, NEW mt, NEW bl, NEW S2, NEW mt2, NEW bl2, NEW W, AllFit(S, R, mt, bl, W),
           NEW w \in Writers, NEW x, Fits(S2, R, mt2, bl2, x, w), SeqsOf(S2, x, w),
           OthersFit(S2, R, mt2, bl2, W, w, x)
    PROVE  AllFit(S2, R, mt2, bl2, [W EXCEPT ![w] = x])
<1> DEFINE V == [W EXCEPT ![w] = x]
<1>1. V = [v \in Writers |-> V[v]] /\ V[w] = x /\ \A v \in Writers \ {w} : V[v] = W[v]
    BY DEF AllFit
<1> HIDE DEF V
<1>2. ASSUME NEW v \in Writers
      PROVE  Fits(S2, R, mt2, bl2, V[v], v) /\ SeqsOf(S2, V[v], v)
    BY <1>1 DEF OthersFit
<1>3. ASSUME NEW u \in Writers, NEW v \in Writers, u # v
      PROVE  Apart(R, V[u], V[v])
  <2>1. CASE v = w
    BY <1>1, <1>3, <2>1 DEF OthersFit
  <2>2. CASE u = w
    <3>1. Apart(R, W[v], x)
      BY <1>3, <2>2 DEF OthersFit
    <3> QED
      BY <1>1, <1>3, <2>2, <3>1 DEF Apart
  <2>3. CASE u # w /\ v # w
    <3>1. Apart(R, W[u], W[v])
      BY <1>3 DEF AllFit, OthersFit
    <3> QED
      BY <1>1, <2>3, <3>1
  <2> QED
    BY <2>1, <2>2, <2>3
<1>4. ASSUME NEW v \in Writers PROVE OthersFit(S2, R, mt2, bl2, V, v, V[v])
    BY <1>2, <1>3 DEF OthersFit
<1>5. AllFit(S2, R, mt2, bl2, V)
    BY <1>1, <1>2, <1>4 DEF AllFit
<1> QED
    BY <1>5 DEF V

\* A writer that leaves the segments alone: names may be minted, the blob may come.
LEMMA StillFit ==
    ASSUME NEW S, NEW R, NEW mt, NEW bl, NEW mt2, NEW bl2, NEW W, AllFit(S, R, mt, bl, W),
           mt \subseteq mt2, bl = "whole" => bl2 = "whole", NEW v \in Writers
    PROVE  Fits(S, R, mt2, bl2, W[v], v) /\ SeqsOf(S, W[v], v)
BY DEF AllFit, Fits

\* What is not being created is created by no one else.
LEMMA QuietApart ==
    ASSUME NEW R, NEW x, x.pc \notin Named, NEW y
    PROVE  Apart(R, y, x)
BY DEF Apart, Named, Holding

ApartFrom(R, W, w, x) == \A v \in Writers \ {w} : Apart(R, W[v], x)

LEMMA LogMoves ==
    ASSUME LogInv, NEW w \in Writers, NEW x, wr' = [wr EXCEPT ![w] = x],
           UNCHANGED <<segs, removals, acked>>, LogCounters',
           minted \subseteq minted', MintedInv(segs, minted'),
           blob' \in {"none", "whole"}, blob = "whole" => blob' = "whole",
           Fits(segs, removals, minted', blob', x, w), SeqsOf(segs, x, w), ApartFrom(removals, wr, w, x)
    PROVE  LogInv'
<1>1. LogState(segs, removals, minted', blob', acked)
    BY DEF LogInv, LogState, RefsWhole
<1>2. OthersFit(segs, removals, minted', blob', wr, w, x)
  <2>1. ASSUME NEW v \in Writers PROVE Fits(segs, removals, minted', blob', wr[v], v) /\ SeqsOf(segs, wr[v], v)
    <3>1. AllFit(segs, removals, minted, blob, wr)
      BY DEF LogInv
    <3> QED
      BY <3>1, StillFit
  <2> QED
    BY <2>1 DEF OthersFit, ApartFrom
<1>3. AllFit(segs, removals, minted', blob', [wr EXCEPT ![w] = x])
  <2>1. AllFit(segs, removals, minted, blob, wr)
    BY DEF LogInv
  <2> QED
    BY <1>2, <2>1, MovesFit
<1>4. segs' = segs /\ removals' = removals /\ acked' = acked
    OBVIOUS
<1> QED
    BY <1>1, <1>3, <1>4 DEF LogInv

\* What is known of one writer.
LEMMA WriterKnown ==
    ASSUME LogInv, NEW w \in Writers
    PROVE  /\ Fits(segs, removals, minted, blob, wr[w], w) /\ SeqsOf(segs, wr[w], w)
           /\ ApartFrom(removals, wr, w, wr[w]) /\ wr[w] \in WriterRecs
           /\ DOMAIN wr = Writers
BY DEF LogInv, AllFit, OthersFit, ApartFrom, Fits

LEMMA TickKeeps ==
    ASSUME LogCounters, UNCHANGED <<setup, removals, failures>>, UNCHANGED <<clock, dir>> \/ Tick
    PROVE  clock' \in Nat /\ dir' \in BOOLEAN
<1>1. clock \in Nat /\ dir \in BOOLEAN /\ clock + 1 \in Nat
    BY DEF LogCounters
<1>2. CASE UNCHANGED <<clock, dir>>
    BY <1>1, <1>2
<1>3. CASE Tick
  <2>1. (clock' = clock \/ clock' = clock + 1) /\ dir' = TRUE
    BY <1>3 DEF Tick
  <2> QED
    BY <1>1, <2>1
<1> QED
    BY <1>2, <1>3

\* Before the lock, and outside of it, a writer prepares its event.
LEMMA PreparesKeeps ==
    ASSUME LogInv, NEW w \in Writers, UNCHANGED setup,
           AppendBegins(w) \/ SpillBlob(w) \/ RenameBlob(w) \/ Stamp(w)
    PROVE  LogInv'
<1>0. PICK y \in WriterRecs : y = wr[w]
    BY WriterKnown
<1>1. Fits(segs, removals, minted, blob, y, w) /\ SeqsOf(segs, y, w) /\ DOMAIN wr = Writers
    BY <1>0, WriterKnown
<1>2. LogCounters /\ blob \in {"none", "whole"} /\ MintedInv(segs, minted)
    BY DEF LogInv, LogState
<1>3. ASSUME NEW x, wr' = [wr EXCEPT ![w] = x], UNCHANGED <<segs, removals, acked, minted>>, LogCounters',
             blob' \in {"none", "whole"}, blob = "whole" => blob' = "whole",
             Fits(segs, removals, minted, blob', x, w), SeqsOf(segs, x, w), x.pc \notin Named
      PROVE  LogInv'
  <2>1. ApartFrom(removals, wr, w, x)
    BY <1>3, QuietApart DEF ApartFrom
  <2> QED
    BY <1>2, <1>3, <2>1, LogMoves
<1>4. CASE AppendBegins(w)
  <2>1. PICK x : x = [y EXCEPT !.pc = IF w \in setup.big THEN "blob" ELSE "list", !.ref = FALSE,
                               !.next = @ + 1, !.ts = IF w \in setup.big THEN @ ELSE clock']
    OBVIOUS
  <2>2. clock' \in Nat /\ LogCounters' /\ UNCHANGED <<segs, removals, acked, minted, blob>>
    <3>1. UNCHANGED <<segs, removals, acked, minted, blob, failures>> /\ (UNCHANGED <<clock, dir>> \/ Tick)
      BY <1>4 DEF AppendBegins
    <3> QED
      BY <1>2, <3>1, TickKeeps DEF LogCounters
  <2>3. wr' = [wr EXCEPT ![w] = x] /\ y.pc = "idle"
    BY <1>0, <1>1, <1>4, <2>1 DEF AppendBegins
  <2>4. /\ x \in WriterRecs /\ x.pc \in {"blob", "list"} /\ x.next = y.next + 1 /\ x.next \in Nat
        /\ y.next \in Nat \ {0} /\ x.ref = FALSE
    <3>1. PICK pc \in {"blob", "list"} : pc = IF w \in setup.big THEN "blob" ELSE "list"
      OBVIOUS
    <3>2. PICK n \in Nat \ {0} : n = y.next + 1
      BY <1>0 DEF WriterRecs
    <3>3. PICK ts \in Nat : ts = IF w \in setup.big THEN y.ts ELSE clock'
      BY <1>0, <2>2 DEF WriterRecs
    <3>4. x = [y EXCEPT !.pc = pc, !.ref = FALSE, !.next = n, !.ts = ts]
      BY <2>1, <3>1, <3>2, <3>3
    <3> QED
      BY <1>0, <3>2, <3>4 DEF WriterRecs, WriterPcs
  <2>5. x.pc \notin Named /\ x.pc \notin Holding /\ x.pc # "create" /\ x.pc # "rest"
    BY <2>4 DEF Named, Holding
  <2>6. Fits(segs, removals, minted, blob, x, w)
    BY <2>4, <2>5 DEF Fits
  <2>7. SeqsOf(segs, x, w)
    BY <1>1, <2>4 DEF SeqsOf, Records
  <2> QED
    BY <1>2, <1>3, <2>2, <2>3, <2>5, <2>6, <2>7
<1>5. CASE SpillBlob(w)
  <2>1. /\ UNCHANGED <<segs, removals, acked, minted, blob>> /\ y.pc = "blob" /\ LogCounters'
        /\ removals \in Nat
    BY <1>0, <1>2, <1>5, SetupsAssumption DEF SpillBlob, LogCounters, Fails
  <2>2. PICK x : /\ wr' = [wr EXCEPT ![w] = x]
                 /\ \/ x = [y EXCEPT !.pc = "stamp", !.ref = TRUE] /\ blob = "whole"
                    \/ x = [y EXCEPT !.pc = "rename", !.era = removals]
                    \/ x = [y EXCEPT !.pc = "stamp"]
    BY <1>0, <1>1, <1>2, <1>5 DEF SpillBlob, Goto
  <2>3. /\ x \in WriterRecs /\ x.pc \in {"stamp", "rename"} /\ x.next = y.next
        /\ x.ref => y.ref \/ blob = "whole"
    BY <2>1, <2>2 DEF WriterRecs, WriterPcs
  <2>4. x.pc \notin Named /\ x.pc \notin Holding /\ x.pc # "create" /\ x.pc # "rest"
    BY <2>3 DEF Named, Holding
  <2>5. Fits(segs, removals, minted, blob, x, w)
    BY <1>1, <2>1, <2>3, <2>4 DEF Fits
  <2>6. SeqsOf(segs, x, w)
    BY <1>1, <2>1, <2>3 DEF SeqsOf, Unwritten, WriterPcs
  <2> QED
    BY <1>2, <1>3, <2>1, <2>2, <2>4, <2>5, <2>6
<1>6. CASE RenameBlob(w)
  <2>1. PICK there \in BOOLEAN : there = (y.era = removals)
    OBVIOUS
  <2>2. PICK x : x = [y EXCEPT !.pc = "stamp", !.ref = there]
    OBVIOUS
  <2>3. /\ wr' = [wr EXCEPT ![w] = x] /\ blob' = (IF there THEN "whole" ELSE blob) /\ y.pc = "rename"
        /\ UNCHANGED <<segs, removals, acked, minted>> /\ LogCounters'
    BY <1>0, <1>1, <1>2, <1>6, <2>1, <2>2 DEF RenameBlob, LogCounters
  <2>4. x \in WriterRecs /\ x.pc = "stamp" /\ x.next = y.next /\ (x.ref => blob' = "whole")
    BY <2>2, <2>3 DEF WriterRecs, WriterPcs
  <2>5. x.pc \notin Named /\ x.pc \notin Holding /\ x.pc # "create" /\ x.pc # "rest"
    BY <2>4 DEF Named, Holding
  <2>6. Fits(segs, removals, minted, blob', x, w)
    BY <1>1, <2>3, <2>4, <2>5 DEF Fits
  <2>7. SeqsOf(segs, x, w)
    BY <1>1, <2>3, <2>4 DEF SeqsOf, Unwritten, WriterPcs
  <2> QED
    BY <1>2, <1>3, <2>3, <2>5, <2>6, <2>7
<1>7. CASE Stamp(w)
  <2>1. PICK x : x = [y EXCEPT !.pc = "list", !.ts = clock']
    OBVIOUS
  <2>2. /\ wr' = [wr EXCEPT ![w] = x] /\ y.pc = "stamp" /\ clock' \in Nat
        /\ UNCHANGED <<segs, removals, acked, minted, blob>> /\ LogCounters'
    <3>1. UNCHANGED <<segs, removals, acked, minted, blob, failures>> /\ Tick
      BY <1>7 DEF Stamp
    <3>2. clock' \in Nat /\ LogCounters'
      BY <1>2, <3>1, TickKeeps DEF LogCounters
    <3> QED
      BY <1>0, <1>1, <1>7, <2>1, <3>1, <3>2 DEF Stamp
  <2>3. x \in WriterRecs /\ x.pc = "list" /\ x.next = y.next /\ x.ref = y.ref
    BY <2>1, <2>2 DEF WriterRecs, WriterPcs
  <2>4. x.pc \notin Named /\ x.pc \notin Holding /\ x.pc # "create" /\ x.pc # "rest"
    BY <2>3 DEF Named, Holding
  <2>5. Fits(segs, removals, minted, blob, x, w)
    BY <1>1, <2>2, <2>3, <2>4 DEF Fits
  <2>6. SeqsOf(segs, x, w)
    BY <1>1, <2>2, <2>3 DEF SeqsOf, Unwritten, WriterPcs
  <2> QED
    BY <1>2, <1>3, <2>2, <2>4, <2>5, <2>6
<1> QED
    BY <1>4, <1>5, <1>6, <1>7

\* What concerns the writers with a segment: it is opened, created, and locked.
LEMMA OpensSegment ==
    ASSUME LogInv, NEW w \in Writers, UNCHANGED setup, OpenSegment(w)
    PROVE  LogInv'
<1>0. PICK y \in WriterRecs : y = wr[w]
    BY WriterKnown
<1>1. /\ Fits(segs, removals, minted, blob, y, w) /\ SeqsOf(segs, y, w) /\ DOMAIN wr = Writers
      /\ ApartFrom(removals, wr, w, y)
    BY <1>0, WriterKnown
<1>2. /\ LogCounters' /\ blob \in {"none", "whole"} /\ MintedInv(segs, minted) /\ y.pc = "list"
      /\ UNCHANGED <<segs, removals, acked, blob>>
    BY <1>0 DEF LogInv, LogState, LogCounters, OpenSegment
<1>3. \A v \in Writers : Fits(segs, removals, minted, blob, wr[v], v)
    BY WriterKnown
<1>4. CASE ~dir /\ Goto(w, "idle") /\ UNCHANGED minted
  <2>1. PICK x : x = [y EXCEPT !.pc = "idle"]
    OBVIOUS
  <2>2. wr' = [wr EXCEPT ![w] = x]
    BY <1>0, <1>1, <1>4, <2>1 DEF Goto
  <2>3. x \in WriterRecs /\ x.pc = "idle" /\ x.next = y.next /\ x.ref = y.ref
    BY <2>1 DEF WriterRecs, WriterPcs
  <2>4. Fits(segs, removals, minted, blob, x, w) /\ SeqsOf(segs, x, w) /\ x.pc \notin Named
    BY <1>1, <2>3 DEF Fits, SeqsOf, Unwritten, Named, Holding
  <2>5. ApartFrom(removals, wr, w, x)
    BY <2>4, QuietApart DEF ApartFrom
  <2> QED
    BY <1>2, <1>4, <2>2, <2>4, <2>5, LogMoves
<1>5. CASE dir /\ DOMAIN segs # {} /\ wr' = [wr EXCEPT ![w].pc = "lock", ![w].seg = Newest] /\ UNCHANGED minted
  <2>1. PICK n : n = Newest
    OBVIOUS
  <2>2. n \in DOMAIN segs
    <3>1. PICK b \in Nat : BoundedBy(minted, b)
      BY <1>2 DEF MintedInv
    <3>2. PICK T : T = DOMAIN segs
      OBVIOUS
    <3>3. T \subseteq Nat /\ T # {} /\ \A k \in T : k <= b
      BY <1>2, <1>5, <3>1, <3>2, WritersAssumption DEF MintedInv, BoundedBy
    <3>4. Largest(T) \in T
      BY <3>3, LargestIs
    <3> QED
      BY <2>1, <3>2, <3>4 DEF Newest
  <2>3. n \in minted /\ n \in Names
    BY <1>2, <2>2 DEF MintedInv
  <2>4. PICK x : x = [y EXCEPT !.pc = "lock", !.seg = n]
    OBVIOUS
  <2>5. wr' = [wr EXCEPT ![w] = x]
    BY <1>0, <1>1, <1>5, <2>1, <2>4
  <2>6. x \in WriterRecs /\ x.pc = "lock" /\ x.next = y.next /\ x.ref = y.ref /\ x.seg = n
    BY <2>3, <2>4 DEF WriterRecs, WriterPcs
  <2>7. Fits(segs, removals, minted, blob, x, w)
    BY <1>1, <1>2, <2>2, <2>3, <2>6 DEF Fits, Named, Holding
  <2>8. SeqsOf(segs, x, w)
    BY <1>1, <1>2, <2>6 DEF SeqsOf, Unwritten, WriterPcs
  <2>9. ASSUME NEW v \in Writers PROVE Apart(removals, wr[v], x)
    BY <1>3, <2>2, <2>6 DEF Apart, Fits, Holding
  <2>10. ApartFrom(removals, wr, w, x)
    BY <2>9 DEF ApartFrom
  <2> QED
    BY <1>2, <1>5, <2>5, <2>7, <2>8, <2>10, LogMoves
<1>6. ASSUME NEW n \in Names \ minted, wr' = [wr EXCEPT ![w].pc = "create", ![w].seg = n],
             minted' = minted \cup {n}
      PROVE  LogInv'
  <2>1. PICK x : x = [y EXCEPT !.pc = "create", !.seg = n]
    OBVIOUS
  <2>2. wr' = [wr EXCEPT ![w] = x]
    BY <1>0, <1>1, <1>6, <2>1
  <2>3. x \in WriterRecs /\ x.pc = "create" /\ x.next = y.next /\ x.ref = y.ref /\ x.seg = n
    BY <2>1 DEF WriterRecs, WriterPcs
  <2>4. MintedInv(segs, minted')
    <3>1. PICK b \in Nat : BoundedBy(minted, b)
      BY <1>2 DEF MintedInv
    <3>2. n \in Nat
      BY WritersAssumption
    <3>3. PICK c \in Nat : c = b + n
      BY <3>2
    <3>4. minted \subseteq Nat
      BY <1>2, WritersAssumption DEF MintedInv
    <3>5. ASSUME NEW m \in minted' PROVE m <= c
      <4>1. CASE m = n
        BY <3>2, <3>3, <4>1
      <4>2. CASE m \in minted
        BY <3>1, <3>2, <3>3, <3>4, <4>2 DEF BoundedBy
      <4> QED
        BY <1>6, <4>1, <4>2
    <3>6. BoundedBy(minted', c)
      BY <3>5 DEF BoundedBy
    <3> QED
      BY <1>2, <1>6, <3>6 DEF MintedInv
  <2>5. Fits(segs, removals, minted', blob, x, w)
    BY <1>1, <1>2, <1>6, <2>3 DEF Fits, Named, Holding, MintedInv
  <2>6. SeqsOf(segs, x, w)
    BY <1>1, <1>2, <2>3 DEF SeqsOf, Unwritten, WriterPcs
  <2>7. ASSUME NEW v \in Writers PROVE Apart(removals, wr[v], x)
    BY <1>3, <1>6, <2>3 DEF Apart, Fits, Holding, Named
  <2>8. ApartFrom(removals, wr, w, x)
    BY <2>7 DEF ApartFrom
  <2> QED
    BY <1>2, <1>6, <2>2, <2>4, <2>5, <2>6, <2>8, LogMoves
<1> QED
  <2>1. SUFFICES ASSUME dir, DOMAIN segs = {} PROVE LogInv'
    BY <1>4, <1>5 DEF OpenSegment
  <2> QED
    BY <1>6, <2>1 DEF OpenSegment

\* Lock, and the ways a writer gives up.
LEMMA LocksKeeps ==
    ASSUME LogInv, NEW w \in Writers, UNCHANGED setup, UNCHANGED <<segs, blob, removals, minted, acked>>,
           \/ Lock(w)
           \/ Goto(w, "idle") /\ UNCHANGED dir /\ UNCHANGED clock /\ (Fails \/ UNCHANGED failures)
    PROVE  LogInv'
<1>0. PICK y \in WriterRecs : y = wr[w]
    BY WriterKnown
<1>1. /\ Fits(segs, removals, minted, blob, y, w) /\ SeqsOf(segs, y, w) /\ DOMAIN wr = Writers
      /\ ApartFrom(removals, wr, w, y)
    BY <1>0, WriterKnown
<1>2. blob \in {"none", "whole"} /\ MintedInv(segs, minted) /\ removals \in Nat
    BY SetupsAssumption DEF LogInv, LogState, LogCounters
<1>3. LogCounters'
  <2>1. failures' \in 0..setup.failures
    <3>1. PICK m \in Nat : m = setup.failures
      BY SetupsAssumption DEF LogInv, LogCounters
    <3>2. failures \in 0..m /\ (failures' = failures \/ (failures < m /\ failures' = failures + 1))
      BY <3>1 DEF LogInv, LogCounters, Lock, Fails
    <3> QED
      BY <3>1, <3>2
  <2> QED
    BY <2>1 DEF LogInv, LogCounters, Lock
<1>4. CASE Goto(w, "idle")
  <2>1. PICK x : x = [y EXCEPT !.pc = "idle"]
    OBVIOUS
  <2>2. wr' = [wr EXCEPT ![w] = x]
    BY <1>0, <1>1, <1>4, <2>1 DEF Goto
  <2>3. x \in WriterRecs /\ x.pc = "idle" /\ x.next = y.next /\ x.ref = y.ref
    BY <2>1 DEF WriterRecs, WriterPcs
  <2>4. Fits(segs, removals, minted, blob, x, w) /\ SeqsOf(segs, x, w) /\ x.pc \notin Named
    BY <1>1, <2>3 DEF Fits, SeqsOf, Unwritten, Named, Holding
  <2>5. ApartFrom(removals, wr, w, x)
    BY <2>4, QuietApart DEF ApartFrom
  <2> QED
    BY <1>2, <1>3, <2>2, <2>4, <2>5, LogMoves
<1>5. CASE Lock(w) /\ dir
  <2>1. PICK x : x = [y EXCEPT !.pc = "half", !.era = removals]
    OBVIOUS
  <2>2. /\ wr' = [wr EXCEPT ![w] = x] /\ y.pc = "lock"
        /\ \A v \in Writers : wr[v].pc \in Holding => wr[v].era # removals
    BY <1>0, <1>1, <1>5, <2>1 DEF Lock
  <2>3. x \in WriterRecs /\ x.pc = "half" /\ x.next = y.next /\ x.ref = y.ref /\ x.seg = y.seg /\ x.era = removals
    BY <1>2, <2>1 DEF WriterRecs, WriterPcs, Holding
  <2>4. Fits(segs, removals, minted, blob, x, w)
    BY <1>1, <1>2, <2>2, <2>3 DEF Fits, Named, Holding
  <2>5. SeqsOf(segs, x, w)
    BY <1>1, <2>2, <2>3 DEF SeqsOf, Unwritten, WriterPcs
  <2>6. ASSUME NEW v \in Writers \ {w} PROVE Apart(removals, wr[v], x)
    <3>1. Apart(removals, wr[v], y)
      BY <1>1 DEF ApartFrom
    <3> QED
      BY <2>2, <2>3, <3>1 DEF Apart, Named, Holding
  <2>7. ApartFrom(removals, wr, w, x)
    BY <2>6 DEF ApartFrom
  <2> QED
    BY <1>2, <1>3, <2>2, <2>4, <2>5, <2>7, LogMoves
<1> QED
    BY <1>4, <1>5 DEF Lock

\* What an append can only add to: a segment keeps what is in it.
Extends(S, S2) ==
    \A n \in DOMAIN S : /\ n \in DOMAIN S2 /\ Len(S[n]) <= Len(S2[n])
                        /\ \A k \in 1..Len(S[n]) : S2[n][k] = S[n][k]
NoNewHeads(S, S2) ==
    \A n \in DOMAIN S2 : \A k \in Nat : \A r \in Records : HeadAt(S2, n, k, r) => HeadAt(S, n, k, r)

LEMMA ExtendsKeeps ==
    ASSUME NEW S, NEW S2, SegsTyped(S), SegsTyped(S2), Extends(S, S2), NEW ak, AckedWhole(S, ak)
    PROVE  AckedWhole(S2, ak)
<1>1. ASSUME NEW r \in ak PROVE r \in Records /\ \E n \in DOMAIN S2 : \E k \in Nat : WholeAt(S2, n, k, r)
  <2>1. PICK n \in DOMAIN S : \E k \in Nat : WholeAt(S, n, k, r)
    BY DEF AckedWhole
  <2>2. PICK k \in Nat : WholeAt(S, n, k, r)
    BY <2>1
  <2>3. PICK l \in Nat : l = Len(S[n])
    BY DEF SegsTyped
  <2>4. /\ k \in 1..l /\ k + 1 \in 1..l /\ k + 2 \in 1..l /\ n \in DOMAIN S2
        /\ Len(S2[n]) \in Nat /\ l <= Len(S2[n])
    BY <2>2, <2>3 DEF WholeAt, HeadAt, Extends, SegsTyped
  <2>5. S2[n][k] = S[n][k] /\ S2[n][k + 1] = S[n][k + 1] /\ S2[n][k + 2] = S[n][k + 2]
    BY <2>3, <2>4 DEF Extends
  <2>6. WholeAt(S2, n, k, r)
    BY <2>2, <2>3, <2>4, <2>5 DEF WholeAt, HeadAt
  <2> QED
    BY <2>4, <2>6 DEF AckedWhole
<1> QED
    BY <1>1 DEF AckedWhole

LEMMA NoNewHeadsKeeps ==
    ASSUME NEW S, NEW S2, NoNewHeads(S, S2)
    PROVE  /\ HeadsApart(S) => HeadsApart(S2)
           /\ \A bl : RefsWhole(S, bl) => RefsWhole(S2, bl)
           /\ \A x, w : SeqsOf(S, x, w) => SeqsOf(S2, x, w)
<1>0. \A n \in DOMAIN S2 : \A k \in Nat : \A r \in Records :
          HeadAt(S2, n, k, r) => HeadAt(S, n, k, r) /\ n \in DOMAIN S
    BY DEF NoNewHeads, HeadAt
<1>1. HeadsApart(S) => HeadsApart(S2)
    BY <1>0 DEF HeadsApart
<1>2. ASSUME NEW bl, RefsWhole(S, bl) PROVE RefsWhole(S2, bl)
    BY <1>0, <1>2 DEF RefsWhole
<1>3. ASSUME NEW x, NEW w, SeqsOf(S, x, w) PROVE SeqsOf(S2, x, w)
    BY <1>0, <1>3 DEF SeqsOf
<1> QED
    BY <1>1, <1>2, <1>3

LEMMA LogWrites ==
    ASSUME LogInv, NEW w \in Writers, NEW x, wr' = [wr EXCEPT ![w] = x],
           UNCHANGED <<removals, minted, blob>>, LogCounters',
           LogState(segs', removals, minted, blob, acked'),
           Fits(segs', removals, minted, blob, x, w), SeqsOf(segs', x, w),
           OthersFit(segs', removals, minted, blob, wr, w, x)
    PROVE  LogInv'
<1>1. AllFit(segs, removals, minted, blob, wr)
    BY DEF LogInv
<1>2. AllFit(segs', removals, minted, blob, [wr EXCEPT ![w] = x])
    BY <1>1, MovesFit
<1>3. removals' = removals /\ minted' = minted /\ blob' = blob
    OBVIOUS
<1> QED
    BY <1>2, <1>3 DEF LogInv

\* An empty segment has no heads.
LEMMA CreateKeeps ==
    ASSUME LogInv, NEW w \in Writers, UNCHANGED setup, CreateSegment(w), dir
    PROVE  LogInv'
<1>0. PICK y \in WriterRecs : y = wr[w]
    BY WriterKnown
<1>1. /\ Fits(segs, removals, minted, blob, y, w) /\ SeqsOf(segs, y, w) /\ DOMAIN wr = Writers
      /\ ApartFrom(removals, wr, w, y)
    BY <1>0, WriterKnown
<1>2. /\ LogCounters' /\ blob \in {"none", "whole"} /\ MintedInv(segs, minted) /\ SegsInv(segs) /\ y.pc = "create"
      /\ acked \subseteq Records /\ (removals = 0 => AckedWhole(segs, acked) /\ RefsWhole(segs, blob))
      /\ UNCHANGED <<removals, acked, blob, minted>>
    BY <1>0 DEF LogInv, LogState, LogCounters, CreateSegment
<1>3. PICK n : n = y.seg
    OBVIOUS
<1>4. n \in minted /\ n \notin DOMAIN segs
    BY <1>1, <1>2, <1>3 DEF Fits, Named
<1>5. PICK S2 : S2 = With(segs, n, <<>>)
    OBVIOUS
<1>6. segs' = S2
    BY <1>0, <1>3, <1>5 DEF CreateSegment
<1>7. /\ DOMAIN S2 = DOMAIN segs \cup {n} /\ S2[n] = <<>> /\ \A m \in DOMAIN segs : S2[m] = segs[m]
      /\ S2 = [m \in DOMAIN S2 |-> S2[m]]
    BY <1>4, <1>5 DEF With
<1>8. NoNewHeads(segs, S2)
  <2>1. ASSUME NEW m \in DOMAIN S2, NEW k \in Nat, NEW r \in Records, HeadAt(S2, m, k, r) PROVE HeadAt(segs, m, k, r)
    <3>1. m # n
      BY <1>7, <2>1 DEF HeadAt
    <3> QED
      BY <1>7, <2>1, <3>1 DEF HeadAt
  <2> QED
    BY <2>1 DEF NoNewHeads
<1>9. Extends(segs, S2)
  <2>1. SegsTyped(segs)
    BY <1>2 DEF SegsInv
  <2>2. ASSUME NEW m \in DOMAIN segs PROVE Len(segs[m]) \in Nat
    BY <2>1 DEF SegsTyped
  <2> QED
    BY <1>7, <2>2 DEF Extends
<1>10. SegsInv(S2)
  <2>1. SegsTyped(S2)
    <3>1. <<>> \in Seq(Pieces)
      OBVIOUS
    <3> QED
      BY <1>2, <1>7, <3>1 DEF SegsInv, SegsTyped
  <2>2. TailsFollow(S2)
    <3>1. ASSUME NEW m \in DOMAIN S2, NEW k \in 1..Len(S2[m]), NEW r \in Records, S2[m][k] = Tail2(r)
          PROVE  HeadAt(S2, m, k - 1, r)
      <4>1. m # n
        BY <1>7, <3>1
      <4>2. m \in DOMAIN segs /\ S2[m] = segs[m]
        BY <1>7, <4>1
      <4>3. HeadAt(segs, m, k - 1, r)
        BY <1>2, <3>1, <4>2 DEF SegsInv, TailsFollow
      <4> QED
        BY <4>2, <4>3 DEF HeadAt
    <3> QED
      BY <3>1 DEF TailsFollow
  <2>3. HeadsApart(S2)
    BY <1>2, <1>8, NoNewHeadsKeeps DEF SegsInv
  <2> QED
    BY <2>1, <2>2, <2>3 DEF SegsInv
<1>11. LogState(S2, removals, minted, blob, acked)
  <2>1. MintedInv(S2, minted)
    BY <1>2, <1>4, <1>7 DEF MintedInv
  <2>2. removals = 0 => AckedWhole(S2, acked) /\ RefsWhole(S2, blob)
    <3>1. SegsTyped(segs) /\ SegsTyped(S2)
      BY <1>2, <1>10 DEF SegsInv
    <3> QED
      BY <1>2, <1>8, <1>9, <3>1, ExtendsKeeps, NoNewHeadsKeeps
  <2> QED
    BY <1>2, <1>10, <2>1, <2>2 DEF LogState
<1>12. PICK x : x = [y EXCEPT !.pc = "lock"]
    OBVIOUS
<1>13. wr' = [wr EXCEPT ![w] = x]
    BY <1>0, <1>1, <1>12 DEF CreateSegment, Goto
<1>14. x \in WriterRecs /\ x.pc = "lock" /\ x.next = y.next /\ x.ref = y.ref /\ x.seg = n
    BY <1>3, <1>12 DEF WriterRecs, WriterPcs
<1>15. Fits(S2, removals, minted, blob, x, w)
    BY <1>1, <1>2, <1>4, <1>7, <1>14 DEF Fits, Named, Holding
<1>16. SeqsOf(S2, x, w)
  <2>1. SeqsOf(segs, x, w)
    BY <1>1, <1>2, <1>14 DEF SeqsOf, Unwritten, WriterPcs
  <2> QED
    BY <1>8, <2>1, NoNewHeadsKeeps
<1>17. OthersFit(S2, removals, minted, blob, wr, w, x)
  <2>1. ASSUME NEW v \in Writers \ {w}
        PROVE  Apart(removals, wr[v], x) /\ Fits(S2, removals, minted, blob, wr[v], v) /\ SeqsOf(S2, wr[v], v)
    <3>1. PICK z : z = wr[v]
      OBVIOUS
    <3>2. Fits(segs, removals, minted, blob, z, v) /\ SeqsOf(segs, z, v)
      BY <3>1, WriterKnown
    <3>3. Apart(removals, z, y)
      BY <1>1, <3>1 DEF ApartFrom
    <3>4. z.pc \in Named => z.seg # n
      BY <1>2, <1>3, <3>3 DEF Apart
    <3>5. Apart(removals, z, x)
      BY <1>14, <3>4 DEF Apart, Named, Holding
    <3>6. SeqsOf(S2, z, v)
      BY <1>8, <3>2, NoNewHeadsKeeps
    <3>7. z.pc \in Named => (z.seg \in DOMAIN S2 <=> z.seg \in DOMAIN segs) /\ (z.seg \in DOMAIN S2 => S2[z.seg] = segs[z.seg])
      BY <1>7, <3>4
    <3>8. Fits(S2, removals, minted, blob, z, v)
      BY <3>2, <3>7 DEF Fits, Named, Holding, HeadLast
    <3> QED
      BY <3>1, <3>5, <3>6, <3>8
  <2> QED
    BY <2>1 DEF OthersFit
<1> QED
    BY <1>2, <1>6, <1>11, <1>13, <1>15, <1>16, <1>17, LogWrites

\* An append to one segment.
Appends(S, S2, n, q) ==
    /\ DOMAIN S2 = DOMAIN S /\ \A m \in DOMAIN S : m # n => S2[m] = S[m]
    /\ Len(S2[n]) = Len(S[n]) + Len(q)
    /\ \A k \in 1..Len(S[n]) : S2[n][k] = S[n][k]
    /\ \A k \in 1..Len(q) : S2[n][Len(S[n]) + k] = q[k]

LEMMA AppendAdds ==
    ASSUME NEW S, SegsTyped(S), NEW n \in DOMAIN S, NEW q \in Seq(Pieces), NEW S2, S2 = [S EXCEPT ![n] = @ \o q]
    PROVE  SegsTyped(S2) /\ Extends(S, S2) /\ Appends(S, S2, n, q)
<1>1. PICK s \in Seq(Pieces) : s = S[n]
    BY DEF SegsTyped
<1>2. PICK t : t = s \o q
    OBVIOUS
<1>3. /\ t \in Seq(Pieces) /\ Len(t) = Len(s) + Len(q)
      /\ \A k \in 1..Len(s) : t[k] = s[k]
      /\ \A k \in 1..Len(q) : t[Len(s) + k] = q[k]
    BY <1>2
<1>4. S2 = [S EXCEPT ![n] = t]
    BY <1>1, <1>2
<1>5. DOMAIN S2 = DOMAIN S /\ S2[n] = t /\ (\A m \in DOMAIN S : m # n => S2[m] = S[m]) /\ S2 = [m \in DOMAIN S2 |-> S2[m]]
    BY <1>4
<1>6. SegsTyped(S2)
    BY <1>3, <1>5 DEF SegsTyped
<1>7. Appends(S, S2, n, q)
    BY <1>1, <1>3, <1>5 DEF Appends
<1>8. Extends(S, S2)
  <2>1. ASSUME NEW m \in DOMAIN S PROVE Len(S[m]) \in Nat
    BY DEF SegsTyped
  <2>2. Len(q) \in Nat
    OBVIOUS
  <2>3. ASSUME NEW m \in DOMAIN S
        PROVE  m \in DOMAIN S2 /\ Len(S[m]) <= Len(S2[m]) /\ \A k \in 1..Len(S[m]) : S2[m][k] = S[m][k]
    <3>1. CASE m = n
      BY <1>7, <2>1, <2>2, <3>1 DEF Appends
    <3>2. CASE m # n
      BY <1>7, <2>1, <3>2 DEF Appends
    <3> QED
      BY <3>1, <3>2
  <2> QED
    BY <2>3 DEF Extends
<1> QED
    BY <1>6, <1>7, <1>8

LEMMA ExtendsTails ==
    ASSUME NEW S, NEW S2, Extends(S, S2), SegsTyped(S), SegsTyped(S2), TailsFollow(S), NEW n \in DOMAIN S,
           NEW k \in 1..Len(S[n]), NEW r \in Records, S2[n][k] = Tail2(r)
    PROVE  HeadAt(S2, n, k - 1, r)
<1>1. PICK l \in Nat : l = Len(S[n])
    BY DEF SegsTyped
<1>2. n \in DOMAIN S2 /\ Len(S2[n]) \in Nat /\ l <= Len(S2[n]) /\ \A i \in 1..l : S2[n][i] = S[n][i]
    BY <1>1 DEF Extends, SegsTyped
<1>3. S[n][k] = Tail2(r)
    BY <1>1, <1>2
<1>4. HeadAt(S, n, k - 1, r)
    BY <1>3 DEF TailsFollow
<1>5. k - 1 \in 1..l /\ S[n][k - 1] = Head1(r)
    BY <1>1, <1>4 DEF HeadAt
<1>6. k - 1 \in 1..Len(S2[n]) /\ S2[n][k - 1] = Head1(r)
    BY <1>1, <1>2, <1>5
<1> QED
    BY <1>2, <1>6 DEF HeadAt

\* The writer that holds the lock appends; the others still fit.
LEMMA AppendFits ==
    ASSUME NEW S, NEW S2, NEW n \in DOMAIN S, NEW q, Appends(S, S2, n, q), NEW R, NEW mt, NEW bl, NEW y,
           NEW u, Fits(S, R, mt, bl, y, u), y.pc \in Holding, y.seg = n,
           NEW z, NEW v, Fits(S, R, mt, bl, z, v), Apart(R, z, y)
    PROVE  Fits(S2, R, mt, bl, z, v)
<1>1. DOMAIN S2 = DOMAIN S /\ \A m \in DOMAIN S : m # n => S2[m] = S[m]
    BY DEF Appends
<1>2. y.era = R
    BY DEF Fits
<1>3. z.pc \in Holding /\ z.seg = n => FALSE
    BY <1>2 DEF Fits, Apart
<1>4. z.pc = "rest" /\ z.seg \in DOMAIN S2 => HeadLast(S2, z.seg, EventOf(z, v))
  <2>1. SUFFICES ASSUME z.pc = "rest", z.seg \in DOMAIN S2 PROVE HeadLast(S2, z.seg, EventOf(z, v))
    OBVIOUS
  <2>2. HeadLast(S, z.seg, EventOf(z, v))
    BY <1>1, <2>1 DEF Fits
  <2>3. z.seg # n
    BY <1>3, <2>1 DEF Holding
  <2> QED
    BY <1>1, <2>1, <2>2, <2>3 DEF HeadLast
<1> QED
    BY <1>1, <1>4 DEF Fits

\* One new first half, the last of its writer.
NewHead(S, S2, n, l, e) ==
    \A m \in DOMAIN S2 : \A k \in Nat : \A r \in Records :
        HeadAt(S2, m, k, r) => HeadAt(S, m, k, r) \/ (m = n /\ k = l + 1 /\ r = e)

LEMMA NewHeadApart ==
    ASSUME NEW S, NEW S2, NEW n \in DOMAIN S, NEW l \in Nat, l = Len(S[n]), NEW e \in Records, NewHead(S, S2, n, l, e),
           HeadsApart(S), NEW y, NEW w, SeqsOf(S, y, w), y.pc \in Unwritten, e.seq = y.next - 1, e.w = w,
           y.next \in Nat
    PROVE  HeadsApart(S2)
<1>0. e.seq \in Nat /\ \A r \in Records : r.seq \in Nat
    BY DEF Records
<1>1. ASSUME NEW m \in DOMAIN S, NEW k \in Nat, NEW r \in Records, HeadAt(S, m, k, r), r.w = w
      PROVE  r.seq < e.seq /\ (m = n => k < l + 1)
    BY <1>1 DEF SeqsOf, HeadAt
<1>2. ASSUME NEW m \in DOMAIN S2, NEW j \in DOMAIN S2, NEW k \in Nat, NEW i \in Nat, NEW q \in Records, NEW r \in Records,
             HeadAt(S2, m, k, q), HeadAt(S2, j, i, r), q.w = r.w
      PROVE  /\ q.seq = r.seq => m = j /\ k = i
             /\ m = j => (k < i <=> q.seq < r.seq)
  <2>1. HeadAt(S, m, k, q) \/ (m = n /\ k = l + 1 /\ q = e)
    BY <1>2 DEF NewHead
  <2>2. HeadAt(S, j, i, r) \/ (j = n /\ i = l + 1 /\ r = e)
    BY <1>2 DEF NewHead
  <2>3. CASE HeadAt(S, m, k, q) /\ HeadAt(S, j, i, r)
    <3>1. m \in DOMAIN S /\ j \in DOMAIN S
      BY <2>3 DEF HeadAt
    <3> QED
      BY <1>2, <2>3, <3>1 DEF HeadsApart
  <2>4. CASE HeadAt(S, m, k, q) /\ j = n /\ i = l + 1 /\ r = e
    <3>1. m \in DOMAIN S
      BY <2>4 DEF HeadAt
    <3>2. q.seq < e.seq /\ (m = n => k < l + 1)
      BY <1>1, <1>2, <2>4, <3>1
    <3> QED
      BY <1>0, <2>4, <3>2
  <2>5. CASE m = n /\ k = l + 1 /\ q = e /\ HeadAt(S, j, i, r)
    <3>1. j \in DOMAIN S
      BY <2>5 DEF HeadAt
    <3>2. r.seq < e.seq /\ (j = n => i < l + 1)
      BY <1>1, <1>2, <2>5, <3>1
    <3> QED
      BY <1>0, <2>5, <3>2
  <2>6. CASE m = n /\ k = l + 1 /\ q = e /\ j = n /\ i = l + 1 /\ r = e
    BY <1>0, <2>6
  <2> QED
    BY <2>1, <2>2, <2>3, <2>4, <2>5, <2>6
<1> QED
    BY <1>2 DEF HeadsApart

LEMMA EventIs ==
    ASSUME NEW w \in Writers, NEW y \in WriterRecs, y.next >= 2, NEW e, e = EventOf(y, w)
    PROVE  e \in Records /\ e.seq = y.next - 1 /\ e.w = w /\ e.ref = y.ref
<1>1. PICK next \in Nat : next = y.next /\ next >= 2
    BY DEF WriterRecs
<1>2. next - 1 \in Nat \ {0}
    BY <1>1
<1>3. PICK ts \in Nat : ts = y.ts
    BY DEF WriterRecs
<1>4. PICK ref \in BOOLEAN : ref = y.ref
    BY DEF WriterRecs
<1>5. e = [w |-> w, seq |-> next - 1, ts |-> ts, ref |-> ref]
    BY <1>1, <1>3, <1>4 DEF EventOf
<1> QED
    BY <1>1, <1>2, <1>4, <1>5 DEF Records

\* The first half of a line, written under the lock.
LEMMA WriteHalfKeeps ==
    ASSUME LogInv, NEW w \in Writers, UNCHANGED setup, WriteHalf(w)
    PROVE  LogInv'
<1>0. PICK y \in WriterRecs : y = wr[w]
    BY WriterKnown
<1>1. /\ Fits(segs, removals, minted, blob, y, w) /\ SeqsOf(segs, y, w) /\ DOMAIN wr = Writers
      /\ ApartFrom(removals, wr, w, y)
    BY <1>0, WriterKnown
<1>2. /\ blob \in {"none", "whole"} /\ MintedInv(segs, minted) /\ SegsInv(segs) /\ y.pc = "half"
      /\ acked \subseteq Records /\ (removals = 0 => AckedWhole(segs, acked) /\ RefsWhole(segs, blob))
      /\ UNCHANGED <<removals, acked, blob, minted, clock, dir>> /\ removals \in Nat
    BY <1>0, SetupsAssumption DEF LogInv, LogState, LogCounters, WriteHalf
<1>3. CASE Goto(w, "idle") /\ Fails /\ UNCHANGED segs
    BY <1>2, <1>3, LocksKeeps
<1>4. CASE WritePieces(w, <<Head1(Event(w))>>) /\ Goto(w, "rest") /\ UNCHANGED failures
  <2>1. LogCounters'
    BY <1>2, <1>4 DEF LogInv, LogCounters
  <2>2. PICK n : n = y.seg
    OBVIOUS
  <2>3. PICK e : e = EventOf(y, w)
    OBVIOUS
  <2>4. PICK next \in Nat : next = y.next /\ next >= 2
    BY <1>0, <1>1, <1>2 DEF Fits, WriterRecs
  <2>5. e = Event(w) /\ e \in Records /\ e.seq = y.next - 1 /\ e.w = w /\ e.ref = y.ref
    <3>1. e = Event(w)
      BY <1>0, <2>3 DEF EventOf, Event
    <3>2. y.next >= 2
      BY <2>4
    <3>3. e \in Records /\ e.seq = y.next - 1 /\ e.w = w /\ e.ref = y.ref
      BY <2>3, <3>2, EventIs
    <3> QED
      BY <3>1, <3>3
  <2>6. PICK x : x = [y EXCEPT !.pc = "rest"]
    OBVIOUS
  <2>7. wr' = [wr EXCEPT ![w] = x]
    BY <1>0, <1>1, <1>4, <2>6 DEF Goto
  <2>8. /\ x \in WriterRecs /\ x.pc = "rest" /\ x.next = y.next /\ x.ref = y.ref /\ x.seg = n /\ x.era = y.era
        /\ EventOf(x, w) = e
    BY <2>2, <2>3, <2>6 DEF WriterRecs, WriterPcs, Holding, EventOf
  <2>9. n \in minted
    BY <1>1, <1>2, <2>2 DEF Fits, Named, Holding
  <2>10. ASSUME NEW v \in Writers \ {w}, NEW z, z = wr[v]
         PROVE  Fits(segs, removals, minted, blob, z, v) /\ SeqsOf(segs, z, v) /\ Apart(removals, z, y) /\ Apart(removals, z, x)
    <3>1. Fits(segs, removals, minted, blob, z, v) /\ SeqsOf(segs, z, v)
      BY <2>10, WriterKnown
    <3>2. Apart(removals, z, y)
      BY <1>1, <2>10 DEF ApartFrom
    <3>3. Apart(removals, z, x)
      BY <1>2, <2>2, <2>8, <3>2 DEF Apart, Named, Holding
    <3> QED
      BY <3>1, <3>2, <3>3
  <2>11. CASE n \notin DOMAIN segs
    <3>1. segs' = segs
      BY <1>0, <1>4, <2>2, <2>11 DEF WritePieces
    <3>2. Fits(segs, removals, minted, blob, x, w)
      BY <1>1, <1>2, <2>2, <2>8, <2>11 DEF Fits, Named, Holding
    <3>3. SeqsOf(segs, x, w)
      BY <1>1, <2>8 DEF SeqsOf, Unwritten
    <3>4. ApartFrom(removals, wr, w, x)
      BY <2>10 DEF ApartFrom
    <3> QED
      BY <1>2, <2>1, <2>7, <3>1, <3>2, <3>3, <3>4, LogMoves
  <2>12. CASE n \in DOMAIN segs
    <3>1. PICK q \in Seq(Pieces) : q = <<Head1(e)>>
      <4>1. Head1(e) \in Pieces
        BY <2>5 DEF Pieces, Head1
      <4>2. PICK h \in Pieces : h = Head1(e)
        BY <4>1
      <4>3. <<h>> \in Seq(Pieces)
        OBVIOUS
      <4> QED
        BY <4>2, <4>3
    <3>2. PICK S2 : S2 = [segs EXCEPT ![n] = @ \o q]
      OBVIOUS
    <3>3. segs' = S2
      BY <1>0, <1>4, <2>2, <2>5, <2>12, <3>1, <3>2 DEF WritePieces
    <3>4. SegsTyped(segs)
      BY <1>2 DEF SegsInv
    <3>5. SegsTyped(S2) /\ Extends(segs, S2) /\ Appends(segs, S2, n, q)
      BY <2>12, <3>2, <3>4, AppendAdds
    <3>6. PICK l \in Nat : l = Len(segs[n])
      BY <2>12, <3>4 DEF SegsTyped
    <3>7. Len(S2[n]) = l + 1 /\ S2[n][l + 1] = Head1(e) /\ \A k \in 1..l : S2[n][k] = segs[n][k]
      <4>1. Len(q) = 1 /\ q[1] = Head1(e) /\ 1 \in 1..Len(q)
        BY <3>1
      <4> QED
        BY <3>5, <3>6, <4>1 DEF Appends
    <3>8. DOMAIN S2 = DOMAIN segs /\ \A m \in DOMAIN segs : m # n => S2[m] = segs[m]
      BY <3>5 DEF Appends
    <3>9. NewHead(segs, S2, n, l, e)
      <4>1. ASSUME NEW m \in DOMAIN S2, NEW k \in Nat, NEW r \in Records, HeadAt(S2, m, k, r)
            PROVE  HeadAt(segs, m, k, r) \/ (m = n /\ k = l + 1 /\ r = e)
        <5>1. CASE m # n
          BY <3>8, <4>1, <5>1 DEF HeadAt
        <5>2. CASE m = n /\ k \in 1..l
          BY <2>12, <3>6, <3>7, <4>1, <5>2 DEF HeadAt
        <5>3. CASE m = n /\ k = l + 1
          BY <3>7, <4>1, <5>3 DEF HeadAt, Head1
        <5> QED
          BY <3>7, <4>1, <5>1, <5>2, <5>3 DEF HeadAt
      <4> QED
        BY <4>1 DEF NewHead
    <3>10. TailsFollow(S2)
      <4>1. ASSUME NEW m \in DOMAIN S2, NEW k \in 1..Len(S2[m]), NEW r \in Records, S2[m][k] = Tail2(r)
            PROVE  HeadAt(S2, m, k - 1, r)
        <5>1. k \in 1..Len(segs[m])
          <6>1. CASE m # n
            BY <3>8, <4>1, <6>1
          <6>2. CASE m = n
            <7>1. k # l + 1
              BY <3>7, <4>1, <6>2 DEF Head1, Tail2
            <7> QED
              BY <3>6, <3>7, <4>1, <6>2, <7>1
          <6> QED
            BY <6>1, <6>2
        <5>2. TailsFollow(segs) /\ m \in DOMAIN segs
          BY <1>2, <3>8 DEF SegsInv
        <5> QED
          BY <3>4, <3>5, <4>1, <5>1, <5>2, ExtendsTails
      <4> QED
        BY <4>1 DEF TailsFollow
    <3>11. HeadsApart(S2)
      <4>1. HeadsApart(segs) /\ y.pc \in Unwritten /\ y.next \in Nat
        BY <1>2, <2>4 DEF SegsInv, Unwritten, WriterPcs, Holding
      <4> QED
        BY <1>1, <2>5, <2>12, <3>6, <3>9, <4>1, NewHeadApart
    <3>12. removals = 0 => AckedWhole(S2, acked) /\ RefsWhole(S2, blob)
      <4>1. SUFFICES ASSUME removals = 0 PROVE AckedWhole(S2, acked) /\ RefsWhole(S2, blob)
        OBVIOUS
      <4>2. AckedWhole(S2, acked)
        BY <1>2, <3>4, <3>5, <4>1, ExtendsKeeps
      <4>3. e.ref => blob = "whole"
        BY <1>1, <2>5, <4>1 DEF Fits
      <4>4. RefsWhole(segs, blob)
        BY <1>2, <4>1
      <4>5. RefsWhole(S2, blob)
        <5>1. ASSUME NEW m \in DOMAIN S2, NEW k \in Nat, NEW r \in Records, HeadAt(S2, m, k, r), r.ref PROVE blob = "whole"
          BY <3>8, <3>9, <4>3, <4>4, <5>1 DEF RefsWhole, NewHead
        <5> QED
          BY <5>1 DEF RefsWhole
      <4> QED
        BY <4>2, <4>5
    <3>13. LogState(S2, removals, minted, blob, acked)
      BY <1>2, <3>5, <3>8, <3>10, <3>11, <3>12 DEF LogState, SegsInv, MintedInv
    <3>14. Fits(S2, removals, minted, blob, x, w)
      <4>1. HeadLast(S2, n, e)
        BY <3>7 DEF HeadLast
      <4> QED
        BY <1>1, <1>2, <2>2, <2>8, <3>8, <4>1 DEF Fits, Named, Holding
    <3>15. ASSUME NEW z, NEW v \in Writers, SeqsOf(segs, z, v), v = w => z = x
           PROVE  SeqsOf(S2, z, v)
      <4>1. ASSUME NEW m \in DOMAIN S2, NEW k \in Nat, NEW r \in Records, HeadAt(S2, m, k, r), r.w = v
            PROVE  r.seq < z.next /\ (z.pc \in Unwritten => r.seq < z.next - 1)
        <5>1. CASE HeadAt(segs, m, k, r)
          BY <3>8, <3>15, <4>1, <5>1 DEF SeqsOf
        <5>2. CASE r = e
          <6>1. z = x /\ r.seq = next - 1 /\ x.next = next
            BY <2>4, <2>5, <2>8, <3>15, <4>1, <5>2
          <6> QED
            BY <2>8, <6>1 DEF Unwritten
        <5> QED
          BY <3>9, <4>1, <5>1, <5>2 DEF NewHead
      <4> QED
        BY <4>1 DEF SeqsOf
    <3>16. SeqsOf(S2, x, w)
      <4>1. SeqsOf(segs, x, w)
        BY <1>1, <2>8 DEF SeqsOf, Unwritten
      <4> QED
        BY <3>15, <4>1
    <3>17. OthersFit(S2, removals, minted, blob, wr, w, x)
      <4>1. ASSUME NEW v \in Writers \ {w}
            PROVE  Apart(removals, wr[v], x) /\ Fits(S2, removals, minted, blob, wr[v], v) /\ SeqsOf(S2, wr[v], v)
        <5>1. PICK z : z = wr[v]
          OBVIOUS
        <5>2. Fits(segs, removals, minted, blob, z, v) /\ SeqsOf(segs, z, v) /\ Apart(removals, z, y) /\ Apart(removals, z, x)
          BY <2>10, <5>1
        <5>3. y.pc \in Holding
          BY <1>2 DEF Holding
        <5>4. Fits(S2, removals, minted, blob, z, v)
          BY <1>1, <2>2, <2>12, <3>5, <5>2, <5>3, AppendFits
        <5>5. SeqsOf(S2, z, v)
          BY <3>15, <5>2
        <5> QED
          BY <5>1, <5>2, <5>4, <5>5
      <4> QED
        BY <4>1 DEF OthersFit
    <3> QED
      BY <1>2, <2>1, <2>7, <3>3, <3>13, <3>14, <3>16, <3>17, LogWrites
  <2> QED
    BY <2>11, <2>12
<1> QED
    BY <1>3, <1>4 DEF WriteHalf

\* The rest of a line, as far as it goes.
LEMMA RestsAre ==
    ASSUME NEW e \in Records, NEW q, NEW k \in 0..2, q = SubSeq(<<Tail2(e), NL>>, 1, k)
    PROVE  /\ q \in Seq(Pieces) /\ Len(q) \in 0..2
           /\ \A i \in 1..Len(q) : q[i] = IF i = 1 THEN Tail2(e) ELSE NL
           /\ k = 2 => Len(q) = 2
<1>1. PICK t \in Pieces : t = Tail2(e)
    BY DEF Pieces, Tail2
<1>2. PICK b \in Pieces : b = NL
    BY DEF Pieces
<1>3. PICK s : s = <<t, b>>
    OBVIOUS
<1>4. s \in Seq(Pieces) /\ Len(s) = 2 /\ s[1] = t /\ s[2] = b
    BY <1>3
<1>5. q = SubSeq(s, 1, k)
    BY <1>1, <1>2, <1>3
<1>6. k = 0 \/ k = 1 \/ k = 2
    OBVIOUS
<1>7. q \in Seq(Pieces) /\ Len(q) = k /\ \A i \in 1..k : q[i] = s[i]
    BY <1>4, <1>5, <1>6
<1>8. \A i \in 1..k : i = 1 \/ i = 2
    BY <1>6
<1> QED
    BY <1>1, <1>2, <1>4, <1>6, <1>7, <1>8

\* What an append of a second half and a newline leaves.
LEMMA RestAppends ==
    ASSUME NEW S, SegsInv(S), NEW n \in DOMAIN S, NEW e \in Records, HeadLast(S, n, e),
           NEW q \in Seq(Pieces), Len(q) \in 0..2, \A i \in 1..Len(q) : q[i] = IF i = 1 THEN Tail2(e) ELSE NL,
           NEW S2, S2 = [S EXCEPT ![n] = @ \o q]
    PROVE  /\ SegsInv(S2) /\ NoNewHeads(S, S2) /\ Extends(S, S2) /\ Appends(S, S2, n, q)
           /\ Len(q) = 2 => \E k \in Nat : WholeAt(S2, n, k, e)
<1>1. SegsTyped(S) /\ TailsFollow(S) /\ HeadsApart(S)
    BY DEF SegsInv
<1>2. SegsTyped(S2) /\ Extends(S, S2) /\ Appends(S, S2, n, q)
    BY <1>1, AppendAdds
<1>3. PICK l \in Nat : l = Len(S[n])
    BY <1>1 DEF SegsTyped
<1>4. PICK d \in 0..2 : d = Len(q)
    OBVIOUS
<1>5. /\ DOMAIN S2 = DOMAIN S /\ \A m \in DOMAIN S : m # n => S2[m] = S[m]
      /\ Len(S2[n]) = l + d /\ \A k \in 1..l : S2[n][k] = S[n][k]
    BY <1>2, <1>3, <1>4 DEF Appends
<1>6. d >= 1 => S2[n][l + 1] = Tail2(e)
  <2>1. SUFFICES ASSUME d >= 1 PROVE S2[n][l + 1] = Tail2(e)
    OBVIOUS
  <2>2. 1 \in 1..Len(q)
    BY <1>4, <2>1
  <2> QED
    BY <1>2, <1>3, <2>2 DEF Appends
<1>7. d = 2 => S2[n][l + 2] = NL
  <2>1. SUFFICES ASSUME d = 2 PROVE S2[n][l + 2] = NL
    OBVIOUS
  <2>2. 2 \in 1..Len(q)
    BY <1>4, <2>1
  <2> QED
    BY <1>2, <1>3, <2>2 DEF Appends
<1>8. l > 0 /\ S[n][l] = Head1(e) /\ S2[n][l] = Head1(e)
    BY <1>3, <1>5 DEF HeadLast
<1>9. ASSUME NEW k \in 1..Len(S2[n]) PROVE k \in 1..l \/ (k = l + 1 /\ d >= 1) \/ (k = l + 2 /\ d = 2)
    BY <1>5
<1>10. NoNewHeads(S, S2)
  <2>1. ASSUME NEW m \in DOMAIN S2, NEW k \in Nat, NEW r \in Records, HeadAt(S2, m, k, r) PROVE HeadAt(S, m, k, r)
    <3>1. CASE m # n
      BY <1>5, <2>1, <3>1 DEF HeadAt
    <3>2. CASE m = n /\ k \in 1..l
      BY <1>3, <1>5, <2>1, <3>2 DEF HeadAt
    <3>3. CASE m = n /\ k = l + 1 /\ d >= 1
      BY <1>6, <2>1, <3>3 DEF HeadAt, Head1, Tail2
    <3>4. CASE m = n /\ k = l + 2 /\ d = 2
      BY <1>7, <2>1, <3>4 DEF HeadAt, Head1, NL
    <3> QED
      BY <1>9, <2>1, <3>1, <3>2, <3>3, <3>4 DEF HeadAt
  <2> QED
    BY <2>1 DEF NoNewHeads
<1>11. TailsFollow(S2)
  <2>1. ASSUME NEW m \in DOMAIN S2, NEW k \in 1..Len(S2[m]), NEW r \in Records, S2[m][k] = Tail2(r)
        PROVE  HeadAt(S2, m, k - 1, r)
    <3>1. CASE k \in 1..Len(S[m])
      BY <1>1, <1>2, <1>5, <2>1, <3>1, ExtendsTails
    <3>2. CASE m # n
      BY <1>5, <2>1, <3>1, <3>2
    <3>3. CASE m = n /\ k = l + 1 /\ d >= 1
      <4>1. r = e
        BY <1>6, <2>1, <3>3 DEF Tail2
      <4> QED
        BY <1>5, <1>8, <3>3, <4>1 DEF HeadAt
    <3>4. CASE m = n /\ k = l + 2 /\ d = 2
      BY <1>7, <2>1, <3>4 DEF Tail2, NL
    <3> QED
      BY <1>3, <1>9, <2>1, <3>1, <3>2, <3>3, <3>4
  <2> QED
    BY <2>1 DEF TailsFollow
<1>12. HeadsApart(S2)
    BY <1>1, <1>10, NoNewHeadsKeeps
<1>13. Len(q) = 2 => \E k \in Nat : WholeAt(S2, n, k, e)
  <2>1. SUFFICES ASSUME d = 2 PROVE WholeAt(S2, n, l, e)
    BY <1>4
  <2> QED
    BY <1>5, <1>6, <1>7, <1>8, <2>1 DEF WholeAt, HeadAt
<1> QED
    BY <1>2, <1>10, <1>11, <1>12, <1>13 DEF SegsInv

\* The end of a write: what was written stays, and the lock is given up.
LEMMA WriteRestKeeps ==
    ASSUME LogInv, NEW w \in Writers, UNCHANGED setup, WriteRest(w)
    PROVE  LogInv'
<1>0. PICK y \in WriterRecs : y = wr[w]
    BY WriterKnown
<1>1. /\ Fits(segs, removals, minted, blob, y, w) /\ SeqsOf(segs, y, w) /\ DOMAIN wr = Writers
      /\ ApartFrom(removals, wr, w, y)
    BY <1>0, WriterKnown
<1>2. /\ blob \in {"none", "whole"} /\ MintedInv(segs, minted) /\ SegsInv(segs) /\ y.pc = "rest"
      /\ acked \subseteq Records /\ (removals = 0 => AckedWhole(segs, acked) /\ RefsWhole(segs, blob))
      /\ UNCHANGED <<removals, blob, minted, clock, dir>> /\ removals \in Nat
    BY <1>0, SetupsAssumption DEF LogInv, LogState, LogCounters, WriteRest
<1>3. PICK n : n = y.seg
    OBVIOUS
<1>4. PICK e : e = EventOf(y, w)
    OBVIOUS
<1>5. e = Event(w) /\ e \in Records
  <2>1. y.next >= 2
    BY <1>1, <1>2 DEF Fits
  <2>2. e = Event(w)
    BY <1>0, <1>4 DEF EventOf, Event
  <2> QED
    BY <1>4, <2>1, <2>2, EventIs
<1>6. LogCounters'
  <2>1. failures' \in 0..setup.failures
    <3>1. PICK m \in Nat : m = setup.failures
      BY SetupsAssumption DEF LogInv, LogCounters
    <3>2. failures \in 0..m /\ (failures' = failures \/ (failures < m /\ failures' = failures + 1))
      BY <3>1 DEF LogInv, LogCounters, WriteRest, Fails
    <3> QED
      BY <3>1, <3>2
  <2> QED
    BY <1>2, <2>1 DEF LogInv, LogCounters
<1>7. PICK q : WritePieces(w, q) /\ \E k \in 0..2 :
          /\ q = SubSeq(<<Tail2(e), NL>>, 1, k)
          /\ acked' = acked \/ (k = 2 /\ acked' = acked \cup {e})
  <2>1. CASE WritePieces(w, Rest(w)) /\ acked' = acked \cup {Event(w)}
    <3>1. PICK t : t = Rest(w)
      OBVIOUS
    <3>2. t = SubSeq(<<Tail2(e), NL>>, 1, 2)
      BY <1>5, <3>1 DEF Rest
    <3>3. WritePieces(w, t) /\ acked' = acked \cup {e} /\ 2 \in 0..2
      BY <1>5, <2>1, <3>1
    <3> QED
      BY <3>2, <3>3
  <2>2. CASE (\E k \in 0..2 : WritePieces(w, SubSeq(Rest(w), 1, k))) /\ UNCHANGED acked
    BY <1>5, <2>2 DEF Rest
  <2> QED
    BY <2>1, <2>2 DEF WriteRest
<1>8. PICK k \in 0..2 : q = SubSeq(<<Tail2(e), NL>>, 1, k) /\ (acked' = acked \/ (k = 2 /\ acked' = acked \cup {e}))
    BY <1>7
<1>9. /\ q \in Seq(Pieces) /\ Len(q) \in 0..2 /\ (k = 2 => Len(q) = 2)
      /\ \A i \in 1..Len(q) : q[i] = IF i = 1 THEN Tail2(e) ELSE NL
    BY <1>5, <1>8, RestsAre
<1>10. PICK x : x = [y EXCEPT !.pc = "idle"]
    OBVIOUS
<1>11. wr' = [wr EXCEPT ![w] = x]
    BY <1>0, <1>1, <1>10 DEF WriteRest, Goto
<1>12. x \in WriterRecs /\ x.pc = "idle" /\ x.next = y.next /\ x.ref = y.ref
    BY <1>10 DEF WriterRecs, WriterPcs
<1>13. x.pc \notin Named
    BY <1>12 DEF Named, Holding
<1>14. \A v \in Writers \ {w} : Apart(removals, wr[v], x)
    BY <1>13, QuietApart
<1>15. SeqsOf(segs, x, w)
    BY <1>1, <1>12 DEF SeqsOf, Unwritten
<1>16. acked' \subseteq Records
    BY <1>2, <1>5, <1>8
<1>17. CASE n \notin DOMAIN segs
  <2>1. segs' = segs
    BY <1>0, <1>3, <1>7, <1>17 DEF WritePieces
  <2>2. removals # 0
    BY <1>1, <1>2, <1>3, <1>17 DEF Fits, Named, Holding
  <2>3. LogState(segs, removals, minted, blob, acked')
    BY <1>2, <1>16, <2>2 DEF LogState
  <2>4. Fits(segs, removals, minted, blob, x, w)
    BY <1>1, <1>12, <1>13 DEF Fits, Named
  <2>5. OthersFit(segs, removals, minted, blob, wr, w, x)
    BY <1>14, WriterKnown DEF OthersFit
  <2> QED
    BY <1>2, <1>6, <1>11, <1>15, <2>1, <2>3, <2>4, <2>5, LogWrites
<1>18. CASE n \in DOMAIN segs
  <2>1. PICK S2 : S2 = [segs EXCEPT ![n] = @ \o q]
    OBVIOUS
  <2>2. segs' = S2
    BY <1>0, <1>3, <1>7, <1>18, <2>1 DEF WritePieces
  <2>3. HeadLast(segs, n, e)
    BY <1>1, <1>2, <1>3, <1>4, <1>18 DEF Fits
  <2>4. /\ SegsInv(S2) /\ NoNewHeads(segs, S2) /\ Extends(segs, S2) /\ Appends(segs, S2, n, q)
        /\ Len(q) = 2 => \E i \in Nat : WholeAt(S2, n, i, e)
    BY <1>2, <1>5, <1>9, <1>18, <2>1, <2>3, RestAppends
  <2>5. DOMAIN S2 = DOMAIN segs
    BY <2>4 DEF Appends
  <2>6. removals = 0 => AckedWhole(S2, acked') /\ RefsWhole(S2, blob)
    <3>1. SUFFICES ASSUME removals = 0 PROVE AckedWhole(S2, acked') /\ RefsWhole(S2, blob)
      OBVIOUS
    <3>2. SegsTyped(segs) /\ SegsTyped(S2)
      BY <1>2, <2>4 DEF SegsInv
    <3>3. AckedWhole(S2, acked)
      BY <1>2, <2>4, <3>1, <3>2, ExtendsKeeps
    <3>4. RefsWhole(S2, blob)
      BY <1>2, <2>4, <3>1, NoNewHeadsKeeps
    <3>5. AckedWhole(S2, acked')
      <4>1. acked' = acked \/ (Len(q) = 2 /\ acked' = acked \cup {e})
        BY <1>8, <1>9
      <4> QED
        BY <1>5, <1>18, <2>4, <2>5, <3>3, <4>1 DEF AckedWhole
    <3> QED
      BY <3>4, <3>5
  <2>7. LogState(S2, removals, minted, blob, acked')
    BY <1>2, <1>16, <2>4, <2>5, <2>6 DEF LogState, MintedInv
  <2>8. Fits(S2, removals, minted, blob, x, w)
    BY <1>1, <1>12, <1>13 DEF Fits, Named
  <2>9. SeqsOf(S2, x, w)
    BY <1>15, <2>4, NoNewHeadsKeeps
  <2>10. OthersFit(S2, removals, minted, blob, wr, w, x)
    <3>1. ASSUME NEW v \in Writers \ {w}
          PROVE  Apart(removals, wr[v], x) /\ Fits(S2, removals, minted, blob, wr[v], v) /\ SeqsOf(S2, wr[v], v)
      <4>1. PICK z : z = wr[v]
        OBVIOUS
      <4>2. Fits(segs, removals, minted, blob, z, v) /\ SeqsOf(segs, z, v)
        BY <4>1, WriterKnown
      <4>3. Apart(removals, z, y) /\ y.pc \in Holding
        BY <1>1, <1>2, <4>1 DEF ApartFrom, Holding
      <4>4. Fits(S2, removals, minted, blob, z, v)
        BY <1>1, <1>3, <1>18, <2>4, <4>2, <4>3, AppendFits
      <4>5. SeqsOf(S2, z, v)
        BY <2>4, <4>2, NoNewHeadsKeeps
      <4> QED
        BY <1>14, <4>1, <4>4, <4>5
    <3> QED
      BY <3>1 DEF OthersFit
  <2> QED
    BY <1>2, <1>6, <1>11, <2>2, <2>7, <2>8, <2>9, <2>10, LogWrites
<1> QED
    BY <1>17, <1>18

\* A session that is removed takes its segments with it; who held a lock holds none.
LEMMA RemoveKeeps ==
    ASSUME LogInv, UNCHANGED setup, RemoveSession
    PROVE  LogInv'
<1>1. PICK R \in Nat : R = removals
    BY SetupsAssumption DEF LogInv, LogCounters
<1>2. /\ segs' = NoSegments /\ removals' = R + 1 /\ blob' = "none" /\ dir' = FALSE
      /\ UNCHANGED <<minted, clock, wr, failures, acked>> /\ R < setup.removals
    BY <1>1 DEF RemoveSession
<1>3. DOMAIN NoSegments = {} /\ NoSegments = [n \in DOMAIN NoSegments |-> NoSegments[n]]
    BY DEF NoSegments
<1>4. LogCounters'
  <2>1. PICK m \in Nat : m = setup.removals
    BY SetupsAssumption DEF LogInv, LogCounters
  <2>2. R + 1 \in 0..m
    BY <1>2, <2>1
  <2> QED
    BY <1>2, <2>1, <2>2 DEF LogInv, LogCounters
<1>5. LogState(NoSegments, R + 1, minted, "none", acked)
  <2>1. SegsInv(NoSegments)
    BY <1>3 DEF SegsInv, SegsTyped, TailsFollow, HeadsApart
  <2>2. MintedInv(NoSegments, minted) /\ acked \subseteq Records
    BY <1>3 DEF LogInv, LogState, MintedInv
  <2> QED
    BY <2>1, <2>2 DEF LogState
<1>6. ASSUME NEW v \in Writers, NEW z, Fits(segs, R, minted, blob, z, v), SeqsOf(segs, z, v)
      PROVE  /\ Fits(NoSegments, R + 1, minted, "none", z, v) /\ SeqsOf(NoSegments, z, v)
             /\ z.pc \in Holding => z.era # R + 1
  <2>1. z \in WriterRecs /\ z.era \in Nat
    BY <1>6 DEF Fits, WriterRecs
  <2>2. z.pc \in Holding => z.era <= R + 1 /\ z.era # R + 1
    BY <1>6, <2>1 DEF Fits
  <2>3. Fits(NoSegments, R + 1, minted, "none", z, v)
    BY <1>3, <1>6, <2>2 DEF Fits
  <2> QED
    BY <1>3, <2>2, <2>3 DEF SeqsOf, HeadAt
<1>7. AllFit(NoSegments, R + 1, minted, "none", wr)
  <2>1. AllFit(segs, R, minted, blob, wr)
    BY <1>1 DEF LogInv
  <2>2. ASSUME NEW v \in Writers
        PROVE  /\ Fits(NoSegments, R + 1, minted, "none", wr[v], v) /\ SeqsOf(NoSegments, wr[v], v)
               /\ wr[v].pc \in Holding => wr[v].era # R + 1
    BY <1>6, <2>1 DEF AllFit
  <2>3. ASSUME NEW v \in Writers, NEW u \in Writers \ {v} PROVE Apart(R + 1, wr[u], wr[v])
    <3>1. Apart(R, wr[u], wr[v])
      BY <2>1 DEF AllFit, OthersFit
    <3> QED
      BY <2>2, <3>1 DEF Apart
  <2>4. ASSUME NEW v \in Writers PROVE OthersFit(NoSegments, R + 1, minted, "none", wr, v, wr[v])
    BY <2>2, <2>3 DEF OthersFit
  <2>5. wr = [v \in Writers |-> wr[v]]
    BY <2>1 DEF AllFit
  <2> QED
    BY <2>2, <2>4, <2>5 DEF AllFit
<1> QED
    BY <1>2, <1>4, <1>5, <1>7 DEF LogInv

LEMMA LogStarts == Init => LogInv
<1> SUFFICES ASSUME Init PROVE LogInv
    OBVIOUS
<1>1. /\ segs = NoSegments /\ blob = "none" /\ dir = TRUE /\ removals = 0 /\ minted = {}
      /\ clock = 1 /\ failures = 0 /\ acked = {} /\ setup \in Setups
    BY DEF Init
<1>2. DOMAIN NoSegments = {} /\ NoSegments = [n \in DOMAIN NoSegments |-> NoSegments[n]]
    BY DEF NoSegments
<1>3. LogCounters
  <2>1. 0 \in 0..setup.removals /\ 0 \in 0..setup.failures
    BY <1>1, SetupsAssumption
  <2> QED
    BY <1>1, <2>1 DEF LogCounters
<1>4. LogState(segs, removals, minted, blob, acked)
  <2>1. SegsInv(NoSegments)
    BY <1>2 DEF SegsInv, SegsTyped, TailsFollow, HeadsApart
  <2>2. BoundedBy({}, 0) /\ MintedInv(NoSegments, {})
    BY <1>2 DEF BoundedBy, MintedInv
  <2>3. AckedWhole(NoSegments, {}) /\ RefsWhole(NoSegments, "none")
    BY <1>2 DEF AckedWhole, RefsWhole
  <2> QED
    BY <1>1, <2>1, <2>2, <2>3 DEF LogState
<1>5. AllFit(segs, removals, minted, blob, wr)
  <2>1. PICK x : x = [pc |-> "idle", next |-> 1, ts |-> 0, ref |-> FALSE, seg |-> NoName, era |-> 0]
    OBVIOUS
  <2>2. wr = [w \in Writers |-> x]
    BY <2>1 DEF Init
  <2>3. x \in WriterRecs /\ x.pc = "idle" /\ x.ref = FALSE
    BY <2>1 DEF WriterRecs, WriterPcs
  <2>4. x.pc \notin Named
    BY <2>3 DEF Named, Holding
  <2>5. ASSUME NEW w \in Writers PROVE Fits(segs, removals, minted, blob, x, w) /\ SeqsOf(segs, x, w)
    BY <1>1, <1>2, <2>3, <2>4 DEF Fits, SeqsOf, Named
  <2>6. Apart(removals, x, x)
    BY <2>4, QuietApart
  <2> QED
    BY <2>2, <2>5, <2>6 DEF AllFit, OthersFit
<1> QED
    BY <1>3, <1>4, <1>5 DEF LogInv

\* The reader leaves the log alone.
LEMMA ReadersKeep ==
    ASSUME LogInv, UNCHANGED setup, UNCHANGED logVars
    PROVE  LogInv'
BY DEF LogInv, LogCounters, logVars

LEMMA LogStep ==
    ASSUME LogInv, [Next]_vars
    PROVE  LogInv'
<1>1. CASE UNCHANGED vars
    BY <1>1, ReadersKeep DEF vars
<1>2. CASE Next
  <2>1. UNCHANGED setup
    BY <1>2 DEF Next
  <2>2. ASSUME NEW w \in Writers, WriterStep(w) PROVE LogInv'
    <3>1. CASE CreateSegment(w)
      <4>1. CASE dir
        BY <2>1, <3>1, <4>1, CreateKeeps
      <4>2. CASE ~dir
        <5>1. Goto(w, "idle") /\ UNCHANGED <<segs, blob, removals, minted, acked, dir, clock, failures>>
          BY <3>1, <4>2 DEF CreateSegment
        <5> QED
          BY <2>1, <5>1, LocksKeeps
      <4> QED
        BY <4>1, <4>2
    <3>2. CASE Lock(w)
      <4>1. UNCHANGED <<segs, blob, removals, minted, acked>>
        BY <3>2 DEF Lock
      <4> QED
        BY <2>1, <3>2, <4>1, LocksKeeps
    <3>3. CASE AppendFails(w)
      <4>1. Goto(w, "idle") /\ Fails /\ UNCHANGED <<segs, blob, removals, minted, acked, dir, clock>>
        BY <3>3 DEF AppendFails
      <4> QED
        BY <2>1, <4>1, LocksKeeps
    <3> QED
      BY <2>1, <2>2, <3>1, <3>2, <3>3, PreparesKeeps, OpensSegment, WriteHalfKeeps, WriteRestKeeps DEF WriterStep
  <2>3. CASE RemoveSession
    BY <2>1, <2>3, RemoveKeeps
  <2>4. CASE ReaderStep \/ IdleBookmark \/ Resume
    <3>1. UNCHANGED logVars
      BY <2>4 DEF ReaderStep, Poll, PrintNext, IdleBookmark, Resume
    <3> QED
      BY <2>1, <3>1, ReadersKeep
  <2> QED
    BY <1>2, <2>2, <2>3, <2>4 DEF Next
<1> QED
    BY <1>1, <1>2

(***************************************************************************)
(* EventLog: what the log holds                                            *)
(***************************************************************************)
LEMMA StoredIs ==
    ASSUME SegsTyped(segs), NEW x \in Stored
    PROVE  /\ x.n \in DOMAIN segs /\ x = [n |-> x.n, start |-> x.start, rec |-> x.rec]
           /\ Record(segs[x.n], 0, x.start, x.rec) /\ HeadAt(segs, x.n, x.start + 1, x.rec)
           /\ x.rec \in Records /\ x.start \in Nat
<1>1. PICK n \in DOMAIN segs : \E z \in ReadFrom(segs[n], 0).recs : x = [n |-> n, start |-> z.start, rec |-> z.rec]
    BY DEF Stored
<1>2. PICK z \in ReadFrom(segs[n], 0).recs : x = [n |-> n, start |-> z.start, rec |-> z.rec]
    BY <1>1
<1>3. PICK s \in Seq(Pieces) : s = segs[n]
    BY DEF SegsTyped
<1>4. Record(s, 0, z.start, z.rec)
  <2>1. z \in ReadFrom(s, 0).recs
    BY <1>2, <1>3
  <2> QED
    BY <2>1, RecordsAre
<1>5. PICK a, r : a = z.start /\ r = z.rec
    OBVIOUS
<1>6. x.n = n /\ x.start = a /\ x.rec = r /\ x = [n |-> n, start |-> a, rec |-> r]
    BY <1>2, <1>5
<1>7. a \in Nat /\ a + 1 \in 1..Len(s) /\ s[a + 1] = Head1(r) /\ r \in Records
    BY <1>4, <1>5 DEF Record, Whole
<1> QED
    BY <1>3, <1>4, <1>5, <1>6, <1>7 DEF HeadAt

LEMMA LogIsSeqHonest == LogInv => SeqHonest
<1> SUFFICES ASSUME LogInv, NEW x \in Stored, NEW y \in Stored, x.rec.w = y.rec.w, x # y
             PROVE  /\ x.rec.seq # y.rec.seq
                    /\ x.n = y.n => (x.start < y.start <=> x.rec.seq < y.rec.seq)
    BY DEF SeqHonest
<1>1. SegsTyped(segs) /\ HeadsApart(segs)
    BY DEF LogInv, LogState, SegsInv
<1>2. PICK n, a, q : n = x.n /\ a = x.start /\ q = x.rec
    OBVIOUS
<1>3. PICK m, b, r : m = y.n /\ b = y.start /\ r = y.rec
    OBVIOUS
<1>4. n \in DOMAIN segs /\ x = [n |-> n, start |-> a, rec |-> q] /\ HeadAt(segs, n, a + 1, q) /\ q \in Records /\ a \in Nat
    BY <1>1, <1>2, StoredIs
<1>5. m \in DOMAIN segs /\ y = [n |-> m, start |-> b, rec |-> r] /\ HeadAt(segs, m, b + 1, r) /\ r \in Records /\ b \in Nat
    BY <1>1, <1>3, StoredIs
<1>6. PICK k \in Nat, i \in Nat : k = a + 1 /\ i = b + 1
    BY <1>4, <1>5
<1>7. (q.seq = r.seq => n = m /\ k = i) /\ (n = m => (k < i <=> q.seq < r.seq))
    BY <1>1, <1>2, <1>3, <1>4, <1>5, <1>6 DEF HeadsApart
<1>8. q.seq # r.seq
  <2>1. ASSUME q.seq = r.seq PROVE FALSE
    <3>1. n = m /\ a = b
      BY <1>4, <1>5, <1>6, <1>7, <2>1
    <3>2. Head1(q) = Head1(r)
      BY <1>4, <1>5, <3>1 DEF HeadAt
    <3>3. q = r
      BY <3>2 DEF Head1
    <3> QED
      BY <1>4, <1>5, <3>1, <3>3
  <2> QED
    BY <2>1
<1> QED
    BY <1>2, <1>3, <1>4, <1>5, <1>6, <1>7, <1>8

LEMMA LogIsBlobBehindRef == LogInv => BlobBehindRef
<1> SUFFICES ASSUME LogInv, removals = 0, NEW x \in Stored, x.rec.ref PROVE blob = "whole"
    BY DEF BlobBehindRef
<1>1. SegsTyped(segs) /\ RefsWhole(segs, blob)
    BY DEF LogInv, LogState, SegsInv
<1>2. PICK n, a, q : n = x.n /\ a = x.start /\ q = x.rec
    OBVIOUS
<1>3. n \in DOMAIN segs /\ HeadAt(segs, n, a + 1, q) /\ q \in Records /\ a \in Nat
    BY <1>1, <1>2, StoredIs
<1>4. PICK k \in Nat : k = a + 1
    BY <1>3
<1> QED
    BY <1>1, <1>2, <1>3, <1>4 DEF RefsWhole

\* An acknowledged event is in a whole line; a line that holds only acknowledged ones
\* begins with the first half of one, and that one is whole.
LEMMA LogIsAckedInLine == LogInv => AckedInLine
<1> SUFFICES ASSUME LogInv, removals = 0
             PROVE  /\ \A r \in acked : \E n \in DOMAIN segs : \E l \in LinesFrom(segs[n], 0) : r \in InLine(segs[n], l)
                    /\ \A n \in DOMAIN segs : \A l \in LinesFrom(segs[n], 0) :
                          InLine(segs[n], l) \subseteq acked /\ l[2] > l[1] + 1 => Parsed(segs[n], l) # {}
    BY DEF AckedInLine
<1>1. SegsTyped(segs) /\ HeadsApart(segs) /\ TailsFollow(segs) /\ AckedWhole(segs, acked)
    BY DEF LogInv, LogState, SegsInv
<1>2. \A r : Head1(r) # NL /\ Tail2(r) # NL /\ Head1(r).rec = r /\ Tail2(r).rec = r
    BY DEF Head1, Tail2, NL
<1>3. ASSUME NEW r \in acked
      PROVE  \E n \in DOMAIN segs : \E l \in LinesFrom(segs[n], 0) : r \in InLine(segs[n], l)
  <2>1. PICK n \in DOMAIN segs : \E k \in Nat : WholeAt(segs, n, k, r)
    BY <1>1 DEF AckedWhole
  <2>2. PICK k \in Nat : WholeAt(segs, n, k, r)
    BY <2>1
  <2>3. PICK s \in Seq(Pieces) : s = segs[n]
    BY <1>1 DEF SegsTyped
  <2>4. k \in 1..Len(s) /\ k + 2 <= Len(s) /\ s[k] = Head1(r) /\ s[k + 1] = Tail2(r) /\ s[k + 2] = NL
    BY <2>2, <2>3 DEF WholeAt, HeadAt
  <2>5. PICK j \in Nat : j = k + 2
    BY <2>4
  <2>6. PICK a \in Nat : <<a, j>> \in LinesFrom(s, 0) /\ Line(s, 0, a, j)
    BY <2>4, <2>5, LineIsThere
  <2>7. k \in (a + 1)..(j - 1)
    <3>1. a < j /\ (a = 0 \/ s[a] = NL)
      BY <2>6 DEF Line
    <3>2. a # k /\ a # k + 1
      BY <1>2, <2>4, <3>1
    <3> QED
      BY <2>4, <2>5, <3>1, <3>2
  <2>8. PICK l : l = <<a, j>>
    OBVIOUS
  <2>9. l \in LinesFrom(s, 0) /\ l[1] = a /\ l[2] = j
    BY <2>6, <2>8
  <2>10. r \in InLine(s, l)
    BY <1>2, <2>4, <2>7, <2>9 DEF InLine
  <2> QED
    BY <2>3, <2>9, <2>10
<1>4. ASSUME NEW n \in DOMAIN segs, NEW l \in LinesFrom(segs[n], 0), InLine(segs[n], l) \subseteq acked, l[2] > l[1] + 1
      PROVE  Parsed(segs[n], l) # {}
  <2>1. PICK s \in Seq(Pieces) : s = segs[n]
    BY <1>1 DEF SegsTyped
  <2>2. PICK a, b : a = l[1] /\ b = l[2]
    OBVIOUS
  <2>3. Line(s, 0, a, b)
    BY <2>1, <2>2, LinesAre
  <2>4. a \in Nat /\ b \in Nat /\ b > a + 1 /\ b <= Len(s) /\ s[b] = NL /\ (a = 0 \/ s[a] = NL)
    BY <1>4, <2>2, <2>3 DEF Line
  <2>5. a + 1 \in (a + 1)..(b - 1) /\ a + 1 \in 1..Len(s)
    BY <2>4
  <2>6. s[a + 1] # NL /\ s[a + 1] \in Pieces
    BY <2>3, <2>5 DEF Line
  <2>7. PICK r \in Records : s[a + 1] = Head1(r) \/ s[a + 1] = Tail2(r)
    BY <2>6 DEF Pieces, Head1, Tail2
  <2>8. s[a + 1] = Head1(r)
    <3>1. ASSUME s[a + 1] = Tail2(r) PROVE FALSE
      <4>1. PICK k \in 1..Len(s) : k = a + 1
        BY <2>5
      <4>2. HeadAt(segs, n, k - 1, r)
        BY <1>1, <2>1, <3>1, <4>1 DEF TailsFollow
      <4>3. a \in 1..Len(s) /\ s[a] = Head1(r)
        BY <2>1, <2>4, <4>1, <4>2 DEF HeadAt
      <4> QED
        BY <1>2, <2>4, <4>3
    <3> QED
      BY <2>7, <3>1
  <2>9. r \in InLine(s, l)
    BY <1>2, <2>2, <2>5, <2>8 DEF InLine
  <2>10. r \in acked
    BY <1>4, <2>1, <2>9
  <2>11. PICK m \in DOMAIN segs : \E k \in Nat : WholeAt(segs, m, k, r)
    BY <1>1, <2>10 DEF AckedWhole
  <2>12. PICK k \in Nat : WholeAt(segs, m, k, r)
    BY <2>11
  <2>13. m = n /\ k = a + 1
    <3>1. HeadAt(segs, n, a + 1, r)
      BY <2>1, <2>5, <2>8 DEF HeadAt
    <3>2. HeadAt(segs, m, k, r)
      BY <2>12 DEF WholeAt
    <3>3. PICK i \in Nat : i = a + 1
      BY <2>4
    <3> QED
      BY <1>1, <3>1, <3>2, <3>3 DEF HeadsApart
  <2>14. a + 3 <= Len(s) /\ s[a + 2] = Tail2(r) /\ s[a + 3] = NL
    <3>1. k + 2 <= Len(s) /\ s[k + 1] = Tail2(r) /\ s[k + 2] = NL
      BY <2>1, <2>12, <2>13 DEF WholeAt
    <3> QED
      BY <2>4, <2>13, <3>1
  <2>15. b = a + 3
    <3>1. ASSUME NEW i \in (a + 1)..(a + 3 - 1) PROVE s[i] # NL
      BY <1>2, <2>4, <2>8, <2>14, i = a + 1 \/ i = a + 2
    <3>2. Line(s, 0, a, a + 3)
      BY <2>4, <2>14, <3>1 DEF Line
    <3> QED
      BY <2>3, <3>2, LineUnique
  <2>16. r \in Parsed(s, l)
    BY <2>2, <2>8, <2>9, <2>14, <2>15 DEF Parsed, ParsesTo
  <2> QED
    BY <2>1, <2>16
<1> QED
    BY <1>3, <1>4

(***************************************************************************)
(* EventLog: the reader's invariant                                        *)
(***************************************************************************)
\* Names that a segment may still get, and how the log moves under a reader.
Unborn == {n \in Names : n \notin minted \/ \E w \in Writers : wr[w].pc = "create" /\ wr[w].seg = n}
Grows(S, S2, U) == Extends(S, S2) /\ DOMAIN S2 \subseteq DOMAIN S \cup U
Moves(S, R, U, S2, R2, U2) ==
    /\ U \subseteq Names /\ U2 \subseteq U /\ SegsTyped(S) /\ SegsTyped(S2) /\ DOMAIN S \subseteq Names
    /\ (S2 = NoSegments /\ R2 # 0) \/ (Grows(S, S2, U) /\ R2 = R)

\* A position is the beginning of a segment or the end of a line; names that come are
\* still to be read from the beginning.
OffsFit(S, U, at) ==
    \A n \in Names : at[n] # 0 =>
        n \notin U /\ (n \in DOMAIN S => at[n] <= Len(S[n]) /\ S[n][at[n]] = NL)

\* What lies before the positions has been printed, or waived, or is pending.
Never(S, at, pos, prn, wv) ==
    \A n \in DOMAIN S : \A k \in Nat : \A r \in Records :
        Record(S[n], 0, k, r) /\ r.w \in Accepted /\ k < at[n] =>
            r \in prn \cup wv \/ [n |-> n, start |-> k] \in pos

\* What was printed lies before all that is pending, unless merge order explains it.
Explained(S, n, k, r) == \E i \in Nat : \E q \in Records : i < k /\ Record(S[n], 0, i, q) /\ Before(r, q)
Past(n, k, at, pos) == k < at[n] /\ \A p \in pos : p.n = n => k < p.start
PrintedAt(S, at, pos, prn) ==
    \A r \in prn : \E n \in DOMAIN S : \E k \in Nat :
        Record(S[n], 0, k, r) /\ (Past(n, k, at, pos) \/ Explained(S, n, k, r))
Twice(S, r) == \E n \in DOMAIN S : \E k \in Nat : Record(S[n], 0, k, r) /\ Explained(S, n, k, r)
DupsOf(S, o) == \A i, j \in DOMAIN o : i < j /\ o[i] = o[j] => Twice(S, o[i])

Within(o) == {o[i] : i \in DOMAIN o}
CursorFit(S, R, U, at, pos, o, wv) ==
    /\ OffsFit(S, U, at) /\ Never(S, at, pos, Within(o), wv)
    /\ R = 0 => PrintedAt(S, at, pos, Within(o)) /\ DupsOf(S, o)

\* What is about to be printed: events apart in place, and in writer or seq.
BatchThere(S, R, at, batch) ==
    \A b \in batch : /\ b.start < at[b.n] /\ (R = 0 => b.n \in DOMAIN S)
                     /\ b.n \in DOMAIN S => Record(S[b.n], 0, b.start, b.rec)
BatchApart(batch) ==
    \A b, c \in batch : b # c => At(b) # At(c) /\ (b.rec.w # c.rec.w \/ b.rec.seq # c.rec.seq)

ReaderRecs == [pc : ReaderPcs, opts : Options, first : BOOLEAN, now : BOOLEAN,
               offs : Streams, pend : SUBSET Positions,
               batch : SUBSET Batched, skipped : BOOLEAN, count : Nat]
TokenRecs == [seen : BOOLEAN, streams : Streams, out : Seq(Records), waived : SUBSET Records]

ReaderTypes == /\ rd \in ReaderRecs /\ out \in Seq(Records) /\ waived \subseteq Records /\ token \in TokenRecs
               /\ restarts \in 0..setup.restarts
ReaderInv ==
    /\ ReaderTypes
    /\ rd.pend = {At(b) : b \in rd.batch} /\ (rd.pc = "print" <=> rd.batch # {}) /\ BatchApart(rd.batch)
    /\ BatchThere(segs, removals, rd.offs.at, rd.batch)
    /\ CursorFit(segs, removals, Unborn, rd.offs.at, rd.pend, out, waived)
    /\ CursorFit(segs, removals, Unborn, token.streams.at, {}, token.out, token.waived)

\* A record stays where it is; one that lies before a position was there before.
LEMMA RecordStays ==
    ASSUME NEW S, NEW S2, Extends(S, S2), SegsTyped(S), SegsTyped(S2), NEW n \in DOMAIN S, NEW k, NEW r,
           Record(S[n], 0, k, r)
    PROVE  n \in DOMAIN S2 /\ Record(S2[n], 0, k, r)
<1>1. PICK s \in Seq(Pieces) : s = S[n]
    BY DEF SegsTyped
<1>2. n \in DOMAIN S2
    BY DEF Extends
<1>3. PICK t \in Seq(Pieces) : t = S2[n]
    BY <1>2 DEF SegsTyped
<1>4. Len(s) <= Len(t) /\ \A i \in 1..Len(s) : t[i] = s[i]
    BY <1>1, <1>3 DEF Extends
<1>5. /\ r \in Records /\ k \in Nat /\ k + 3 <= Len(s) /\ s[k + 1] = Head1(r) /\ s[k + 2] = Tail2(r)
      /\ s[k + 3] = NL /\ (k = 0 \/ s[k] = NL)
    BY <1>1 DEF Record, Whole
<1>6. k + 1 \in 1..Len(s) /\ k + 2 \in 1..Len(s) /\ k + 3 \in 1..Len(s) /\ (k = 0 \/ k \in 1..Len(s))
    BY <1>5
<1>7. k + 3 <= Len(t)
    BY <1>4, <1>5
<1>8. Record(t, 0, k, r)
    BY <1>4, <1>5, <1>6, <1>7 DEF Record, Whole
<1> QED
    BY <1>2, <1>3, <1>8

LEMMA RecordWas ==
    ASSUME NEW S, NEW S2, Extends(S, S2), SegsTyped(S), SegsTyped(S2), NEW n \in DOMAIN S, NEW k, NEW r,
           Record(S2[n], 0, k, r), NEW a \in Nat, k < a, a <= Len(S[n]), S[n][a] = NL
    PROVE  Record(S[n], 0, k, r)
<1>1. PICK s \in Seq(Pieces) : s = S[n]
    BY DEF SegsTyped
<1>2. n \in DOMAIN S2
    BY DEF Extends
<1>3. PICK t \in Seq(Pieces) : t = S2[n]
    BY <1>2 DEF SegsTyped
<1>4. Len(s) <= Len(t) /\ \A i \in 1..Len(s) : t[i] = s[i]
    BY <1>1, <1>3 DEF Extends
<1>5. /\ r \in Records /\ k \in Nat /\ k + 3 <= Len(t) /\ t[k + 1] = Head1(r) /\ t[k + 2] = Tail2(r)
      /\ t[k + 3] = NL /\ (k = 0 \/ t[k] = NL)
    BY <1>3 DEF Record, Whole
<1>6. a \in 1..Len(s) /\ t[a] = NL
    BY <1>1, <1>4, <1>5
<1>7. Head1(r) # NL /\ Tail2(r) # NL
    BY DEF Head1, Tail2, NL
<1>8. a # k + 1 /\ a # k + 2
    BY <1>5, <1>6, <1>7
<1>9. k + 3 <= Len(s)
    BY <1>5, <1>6, <1>8
<1>10. k + 1 \in 1..Len(s) /\ k + 2 \in 1..Len(s) /\ k + 3 \in 1..Len(s) /\ (k = 0 \/ k \in 1..Len(s))
    BY <1>5, <1>9
<1>11. Record(s, 0, k, r)
    BY <1>4, <1>5, <1>9, <1>10 DEF Record, Whole
<1> QED
    BY <1>1, <1>11

LEMMA ExplainedStays ==
    ASSUME NEW S, NEW S2, Extends(S, S2), SegsTyped(S), SegsTyped(S2), NEW n \in DOMAIN S, NEW k, NEW r,
           Explained(S, n, k, r)
    PROVE  Explained(S2, n, k, r)
<1>1. PICK i \in Nat, q \in Records : i < k /\ Record(S[n], 0, i, q) /\ Before(r, q)
    BY DEF Explained
<1>2. Record(S2[n], 0, i, q)
    BY <1>1, RecordStays
<1> QED
    BY <1>1, <1>2 DEF Explained

\* However the log moves, a cursor stays what it is.
LEMMA CursorStays ==
    ASSUME NEW S, NEW R, NEW U, NEW S2, NEW R2, NEW U2, Moves(S, R, U, S2, R2, U2), NEW at \in [Names -> Nat],
           NEW pos, NEW o, NEW wv, CursorFit(S, R, U, at, pos, o, wv)
    PROVE  CursorFit(S2, R2, U2, at, pos, o, wv)
<1>1. /\ U \subseteq Names /\ U2 \subseteq U /\ SegsTyped(S) /\ SegsTyped(S2) /\ DOMAIN S \subseteq Names
      /\ OffsFit(S, U, at) /\ Never(S, at, pos, Within(o), wv)
      /\ (R = 0 => PrintedAt(S, at, pos, Within(o)) /\ DupsOf(S, o))
    BY DEF Moves, CursorFit
<1>2. CASE S2 = NoSegments /\ R2 # 0
  <2>1. DOMAIN S2 = {}
    BY <1>2 DEF NoSegments
  <2>2. OffsFit(S2, U2, at)
    BY <1>1, <2>1 DEF OffsFit
  <2>3. Never(S2, at, pos, Within(o), wv)
    BY <2>1 DEF Never
  <2> QED
    BY <1>2, <2>2, <2>3 DEF CursorFit
<1>3. CASE Grows(S, S2, U) /\ R2 = R
  <2>1. Extends(S, S2) /\ DOMAIN S2 \subseteq DOMAIN S \cup U
    BY <1>3 DEF Grows
  <2>2. ASSUME NEW n \in Names, at[n] # 0, n \in DOMAIN S2
        PROVE  n \in DOMAIN S /\ at[n] \in Nat \ {0} /\ at[n] <= Len(S[n]) /\ S[n][at[n]] = NL
    BY <1>1, <2>1, <2>2 DEF OffsFit
  <2>3. OffsFit(S2, U2, at)
    <3>1. ASSUME NEW n \in Names, at[n] # 0, n \in DOMAIN S2 PROVE at[n] <= Len(S2[n]) /\ S2[n][at[n]] = NL
      <4>1. PICK a \in Nat \ {0} : a = at[n]
        BY <2>2, <3>1
      <4>2. n \in DOMAIN S /\ a <= Len(S[n]) /\ S[n][a] = NL
        BY <2>2, <3>1, <4>1
      <4>3. PICK l \in Nat : l = Len(S[n])
        BY <1>1, <4>2 DEF SegsTyped
      <4>4. Len(S2[n]) \in Nat
        BY <1>1, <3>1 DEF SegsTyped
      <4>5. a \in 1..l /\ l <= Len(S2[n]) /\ \A i \in 1..l : S2[n][i] = S[n][i]
        BY <2>1, <4>2, <4>3 DEF Extends
      <4> QED
        BY <4>1, <4>2, <4>4, <4>5
    <3> QED
      BY <1>1, <3>1 DEF OffsFit
  <2>4. Never(S2, at, pos, Within(o), wv)
    <3>1. ASSUME NEW n \in DOMAIN S2, NEW k \in Nat, NEW r \in Records, Record(S2[n], 0, k, r), r.w \in Accepted, k < at[n]
          PROVE  r \in Within(o) \cup wv \/ [n |-> n, start |-> k] \in pos
      <4>1. n \in Names
        BY <1>1, <2>1
      <4>2. PICK a \in Nat : a = at[n]
        BY <4>1
      <4>3. a # 0
        BY <3>1, <4>2
      <4>4. n \in DOMAIN S /\ a <= Len(S[n]) /\ S[n][a] = NL
        BY <2>2, <4>1, <4>2, <4>3
      <4>5. Record(S[n], 0, k, r)
        BY <1>1, <2>1, <3>1, <4>2, <4>4, RecordWas
      <4> QED
        BY <1>1, <3>1, <4>4, <4>5 DEF Never
    <3> QED
      BY <3>1 DEF Never
  <2>5. R = 0 => PrintedAt(S2, at, pos, Within(o))
    <3>1. ASSUME R = 0, NEW r \in Within(o)
          PROVE  \E n \in DOMAIN S2 : \E k \in Nat : Record(S2[n], 0, k, r) /\ (Past(n, k, at, pos) \/ Explained(S2, n, k, r))
      <4>1. PICK n \in DOMAIN S, k \in Nat : Record(S[n], 0, k, r) /\ (Past(n, k, at, pos) \/ Explained(S, n, k, r))
        BY <1>1, <3>1 DEF PrintedAt
      <4>2. n \in DOMAIN S2 /\ Record(S2[n], 0, k, r)
        BY <1>1, <2>1, <4>1, RecordStays
      <4>3. Past(n, k, at, pos) \/ Explained(S2, n, k, r)
        BY <1>1, <2>1, <4>1, ExplainedStays
      <4> QED
        BY <4>2, <4>3
    <3> QED
      BY <3>1 DEF PrintedAt
  <2>6. R = 0 => DupsOf(S2, o)
    <3>1. ASSUME R = 0, NEW i \in DOMAIN o, NEW j \in DOMAIN o, i < j, o[i] = o[j] PROVE Twice(S2, o[i])
      <4>1. PICK r : r = o[i]
        OBVIOUS
      <4>2. Twice(S, r)
        BY <1>1, <3>1, <4>1 DEF DupsOf
      <4>3. PICK n \in DOMAIN S, k \in Nat : Record(S[n], 0, k, r) /\ Explained(S, n, k, r)
        BY <4>2 DEF Twice
      <4>4. n \in DOMAIN S2 /\ Record(S2[n], 0, k, r)
        BY <1>1, <2>1, <4>3, RecordStays
      <4>5. Explained(S2, n, k, r)
        BY <1>1, <2>1, <4>3, ExplainedStays
      <4> QED
        BY <4>1, <4>4, <4>5 DEF Twice
    <3> QED
      BY <3>1 DEF DupsOf
  <2> QED
    BY <1>3, <2>3, <2>4, <2>5, <2>6 DEF CursorFit
<1> QED
    BY <1>2, <1>3 DEF Moves

LEMMA BatchStays ==
    ASSUME NEW S, NEW R, NEW U, NEW S2, NEW R2, NEW U2, Moves(S, R, U, S2, R2, U2), NEW at \in [Names -> Nat],
           OffsFit(S, U, at), NEW batch \in SUBSET Batched, BatchThere(S, R, at, batch)
    PROVE  BatchThere(S2, R2, at, batch)
<1> SUFFICES ASSUME NEW b \in batch
             PROVE  /\ b.start < at[b.n] /\ (R2 = 0 => b.n \in DOMAIN S2)
                    /\ b.n \in DOMAIN S2 => Record(S2[b.n], 0, b.start, b.rec)
    BY DEF BatchThere
<1>1. PICK n, k, r : n = b.n /\ k = b.start /\ r = b.rec
    OBVIOUS
<1>2. n \in Names /\ k \in Nat /\ k < at[n] /\ (R = 0 => n \in DOMAIN S) /\ (n \in DOMAIN S => Record(S[n], 0, k, r))
    BY <1>1 DEF BatchThere, Batched
<1>3. n \notin U
    BY <1>2 DEF OffsFit
<1>4. CASE S2 = NoSegments /\ R2 # 0
    BY <1>1, <1>2, <1>4 DEF NoSegments
<1>5. CASE Grows(S, S2, U) /\ R2 = R
  <2>1. Extends(S, S2) /\ (n \in DOMAIN S2 <=> n \in DOMAIN S)
    BY <1>3, <1>5 DEF Grows, Extends
  <2>2. n \in DOMAIN S => Record(S2[n], 0, k, r)
    BY <1>2, <2>1, RecordStays DEF Moves
  <2> QED
    BY <1>1, <1>2, <1>5, <2>1, <2>2
<1> QED
    BY <1>4, <1>5 DEF Moves

\* Every step of the log is such a move.
LEMMA UnbornShrinks ==
    ASSUME LogInv, minted \subseteq minted', NEW w \in Writers, NEW x, wr' = [wr EXCEPT ![w] = x],
           x.pc = "create" => x.seg \notin minted \/ (wr[w].pc = "create" /\ x.seg = wr[w].seg)
    PROVE  Unborn' \subseteq Unborn
<1>1. DOMAIN wr = Writers
    BY WriterKnown
<1>2. wr'[w] = x /\ \A v \in Writers : v # w => wr'[v] = wr[v]
    BY <1>1
<1>3. ASSUME NEW n \in Unborn' PROVE n \in Unborn
  <2>1. n \in Names /\ (n \notin minted' \/ \E v \in Writers : wr'[v].pc = "create" /\ wr'[v].seg = n)
    BY <1>3 DEF Unborn
  <2>2. ASSUME NEW v \in Writers, wr'[v].pc = "create", wr'[v].seg = n PROVE n \in Unborn
    <3>1. CASE v = w
      BY <1>2, <2>1, <2>2, <3>1 DEF Unborn
    <3>2. CASE v # w
      BY <1>2, <2>1, <2>2, <3>2 DEF Unborn
    <3> QED
      BY <3>1, <3>2
  <2>3. n \notin minted' => n \in Unborn
    BY <2>1 DEF Unborn
  <2> QED
    BY <2>1, <2>2, <2>3
<1> QED
    BY <1>3

LEMMA WritesExtend ==
    ASSUME LogInv, NEW w \in Writers, NEW q \in Seq(Pieces), WritePieces(w, q)
    PROVE  Extends(segs, segs') /\ DOMAIN segs' = DOMAIN segs
<1>1. SegsTyped(segs)
    BY DEF LogInv, LogState, SegsInv
<1>2. PICK n : n = wr[w].seg
    OBVIOUS
<1>3. CASE n \in DOMAIN segs
  <2>1. PICK S2 : S2 = [segs EXCEPT ![n] = @ \o q]
    OBVIOUS
  <2>2. segs' = S2
    BY <1>2, <1>3, <2>1 DEF WritePieces
  <2>3. Extends(segs, S2) /\ Appends(segs, S2, n, q)
    BY <1>1, <1>3, <2>1, AppendAdds
  <2> QED
    BY <2>2, <2>3 DEF Appends
<1>4. CASE n \notin DOMAIN segs
  <2>1. segs' = segs
    BY <1>2, <1>4 DEF WritePieces
  <2>2. \A m \in DOMAIN segs : Len(segs[m]) \in Nat
    BY <1>1 DEF SegsTyped
  <2> QED
    BY <2>1, <2>2 DEF Extends
<1> QED
    BY <1>3, <1>4

LEMMA LogMovesSo ==
    ASSUME LogInv, LogInv', (\E w \in Writers : WriterStep(w)) \/ RemoveSession
    PROVE  Moves(segs, removals, Unborn, segs', removals', Unborn')
<1>1. /\ Unborn \subseteq Names /\ SegsTyped(segs) /\ SegsTyped(segs') /\ DOMAIN segs \subseteq Names
      /\ minted \subseteq Names /\ DOMAIN wr = Writers
    BY DEF Unborn, LogInv, LogState, SegsInv, MintedInv, AllFit
<1>2. CASE RemoveSession
  <2>1. PICK R \in Nat : R = removals
    BY SetupsAssumption DEF LogInv, LogCounters
  <2>2. segs' = NoSegments /\ removals' = R + 1 /\ minted' = minted /\ wr' = wr
    BY <1>2, <2>1 DEF RemoveSession
  <2>3. removals' # 0
    BY <2>1, <2>2
  <2>4. Unborn' = Unborn
    BY <2>2 DEF Unborn
  <2> QED
    BY <1>1, <2>2, <2>3, <2>4 DEF Moves
<1>3. ASSUME NEW w \in Writers, WriterStep(w) PROVE Moves(segs, removals, Unborn, segs', removals', Unborn')
  <2>0. PICK y \in WriterRecs : y = wr[w]
    BY WriterKnown
  <2>1. Extends(segs, segs)
    <3>1. \A m \in DOMAIN segs : Len(segs[m]) \in Nat
      BY <1>1 DEF SegsTyped
    <3> QED
      BY <3>1 DEF Extends
  <2>2. ASSUME NEW x, wr' = [wr EXCEPT ![w] = x], minted \subseteq minted', Grows(segs, segs', Unborn),
               removals' = removals, x.pc = "create" => x.seg \notin minted
        PROVE  Moves(segs, removals, Unborn, segs', removals', Unborn')
    <3>1. Unborn' \subseteq Unborn
      BY <2>2, UnbornShrinks
    <3> QED
      BY <1>1, <2>2, <3>1 DEF Moves
  <2>3. ASSUME UNCHANGED <<segs, removals>>, minted \subseteq minted', NEW x, wr' = [wr EXCEPT ![w] = x],
               x.pc = "create" => x.seg \notin minted
        PROVE  Moves(segs, removals, Unborn, segs', removals', Unborn')
    <3>1. Grows(segs, segs', Unborn)
      BY <2>1, <2>3 DEF Grows
    <3> QED
      BY <2>2, <2>3, <3>1
  <2>4. ASSUME UNCHANGED <<segs, removals, minted>>, NEW p \in WriterPcs \ {"create"}, Goto(w, p)
        PROVE  Moves(segs, removals, Unborn, segs', removals', Unborn')
    <3>1. PICK x : x = [y EXCEPT !.pc = p]
      OBVIOUS
    <3>2. wr' = [wr EXCEPT ![w] = x] /\ x.pc # "create"
      BY <1>1, <2>0, <2>4, <3>1 DEF Goto, WriterRecs
    <3> QED
      BY <2>3, <2>4, <3>2
  <2>5. CASE AppendBegins(w)
    <3>1. PICK x : x = [y EXCEPT !.pc = IF w \in setup.big THEN "blob" ELSE "list", !.ref = FALSE,
                                 !.next = @ + 1, !.ts = IF w \in setup.big THEN @ ELSE clock']
      OBVIOUS
    <3>2. wr' = [wr EXCEPT ![w] = x] /\ x.pc # "create"
      BY <1>1, <2>0, <2>5, <3>1 DEF AppendBegins, WriterRecs
    <3>3. UNCHANGED <<segs, removals, minted>>
      BY <2>5 DEF AppendBegins
    <3> QED
      BY <2>3, <3>2, <3>3
  <2>6. CASE SpillBlob(w)
    <3>1. PICK x : /\ wr' = [wr EXCEPT ![w] = x]
                   /\ \/ x = [y EXCEPT !.pc = "stamp", !.ref = TRUE]
                      \/ x = [y EXCEPT !.pc = "rename", !.era = removals]
                      \/ x = [y EXCEPT !.pc = "stamp"]
      BY <1>1, <2>0, <2>6 DEF SpillBlob, Goto
    <3>2. x.pc # "create"
      BY <3>1 DEF WriterRecs
    <3>3. UNCHANGED <<segs, removals, minted>>
      BY <2>6 DEF SpillBlob
    <3> QED
      BY <2>3, <3>1, <3>2, <3>3
  <2>7. CASE RenameBlob(w)
    <3>1. PICK x : x = [y EXCEPT !.pc = "stamp", !.ref = (y.era = removals)]
      OBVIOUS
    <3>2. wr' = [wr EXCEPT ![w] = x] /\ x.pc # "create"
      BY <1>1, <2>0, <2>7, <3>1 DEF RenameBlob, WriterRecs
    <3>3. UNCHANGED <<segs, removals, minted>>
      BY <2>7 DEF RenameBlob
    <3> QED
      BY <2>3, <3>2, <3>3
  <2>8. CASE Stamp(w)
    <3>1. PICK x : x = [y EXCEPT !.pc = "list", !.ts = clock']
      OBVIOUS
    <3>2. wr' = [wr EXCEPT ![w] = x] /\ x.pc # "create"
      BY <1>1, <2>0, <2>8, <3>1 DEF Stamp, WriterRecs
    <3>3. UNCHANGED <<segs, removals, minted>>
      BY <2>8 DEF Stamp
    <3> QED
      BY <2>3, <3>2, <3>3
  <2>9. CASE OpenSegment(w)
    <3>1. UNCHANGED <<segs, removals>>
      BY <2>9 DEF OpenSegment
    <3>2. CASE ~dir /\ Goto(w, "idle") /\ UNCHANGED minted
      BY <2>4, <3>1, <3>2 DEF WriterPcs
    <3>3. CASE wr' = [wr EXCEPT ![w].pc = "lock", ![w].seg = Newest] /\ UNCHANGED minted
      <4>1. PICK x : x = [y EXCEPT !.pc = "lock", !.seg = Newest]
        OBVIOUS
      <4>2. wr' = [wr EXCEPT ![w] = x] /\ x.pc # "create"
        BY <1>1, <2>0, <3>3, <4>1 DEF WriterRecs
      <4> QED
        BY <2>3, <3>1, <3>3, <4>2
    <3>4. ASSUME NEW n \in Names \ minted, wr' = [wr EXCEPT ![w].pc = "create", ![w].seg = n],
                 minted' = minted \cup {n}
          PROVE  Moves(segs, removals, Unborn, segs', removals', Unborn')
      <4>1. PICK x : x = [y EXCEPT !.pc = "create", !.seg = n]
        OBVIOUS
      <4>2. wr' = [wr EXCEPT ![w] = x] /\ x.seg = n
        BY <1>1, <2>0, <3>4, <4>1 DEF WriterRecs
      <4> QED
        BY <2>3, <3>1, <3>4, <4>2
    <3> QED
      BY <2>9, <3>2, <3>3, <3>4 DEF OpenSegment
  <2>10. CASE CreateSegment(w)
    <3>1. y.pc = "create" /\ UNCHANGED <<removals, minted>>
      BY <2>0, <2>10 DEF CreateSegment
    <3>2. CASE ~dir
      <4>1. Goto(w, "idle") /\ UNCHANGED segs
        BY <2>10, <3>2 DEF CreateSegment
      <4> QED
        BY <2>4, <3>1, <4>1 DEF WriterPcs
    <3>3. CASE dir
      <4>1. PICK n : n = y.seg
        OBVIOUS
      <4>2. segs' = With(segs, n, <<>>) /\ Goto(w, "lock")
        BY <2>0, <2>10, <3>3, <4>1 DEF CreateSegment
      <4>3. n \in minted /\ n \notin DOMAIN segs
        BY <2>0, <3>1, <4>1, WriterKnown DEF Fits, Named
      <4>4. n \in Unborn
        BY <1>1, <2>0, <3>1, <4>1, <4>3 DEF Unborn
      <4>5. DOMAIN segs' = DOMAIN segs \cup {n} /\ \A m \in DOMAIN segs : segs'[m] = segs[m]
        BY <4>2, <4>3 DEF With
      <4>6. Extends(segs, segs')
        BY <2>1, <4>5 DEF Extends
      <4>7. Grows(segs, segs', Unborn)
        BY <4>4, <4>5, <4>6 DEF Grows
      <4>8. PICK x : x = [y EXCEPT !.pc = "lock"]
        OBVIOUS
      <4>9. wr' = [wr EXCEPT ![w] = x] /\ x.pc # "create"
        BY <1>1, <2>0, <4>2, <4>8 DEF Goto, WriterRecs
      <4> QED
        BY <2>2, <3>1, <4>7, <4>9
    <3> QED
      BY <3>2, <3>3
  <2>11. CASE Lock(w)
    <3>1. UNCHANGED <<segs, removals, minted>>
      BY <2>11 DEF Lock
    <3>2. CASE Goto(w, "idle")
      BY <2>4, <3>1, <3>2 DEF WriterPcs
    <3>3. CASE wr' = [wr EXCEPT ![w].pc = "half", ![w].era = removals]
      <4>1. PICK x : x = [y EXCEPT !.pc = "half", !.era = removals]
        OBVIOUS
      <4>2. wr' = [wr EXCEPT ![w] = x] /\ x.pc # "create"
        BY <1>1, <2>0, <3>3, <4>1 DEF WriterRecs
      <4> QED
        BY <2>3, <3>1, <4>2
    <3> QED
      BY <2>11, <3>2, <3>3 DEF Lock
  <2>12. CASE AppendFails(w)
    <3>1. Goto(w, "idle") /\ UNCHANGED <<segs, removals, minted>>
      BY <2>12 DEF AppendFails
    <3> QED
      BY <2>4, <3>1 DEF WriterPcs
  <2>13. CASE WriteHalf(w) \/ WriteRest(w)
    <3>1. UNCHANGED <<removals, minted>> /\ \E p \in WriterPcs \ {"create"} : Goto(w, p)
      BY <2>13 DEF WriteHalf, WriteRest, WriterPcs, Holding
    <3>2. PICK e : e = Event(w)
      OBVIOUS
    <3>3. e \in Records
      <4>1. y.pc \in {"half", "rest"}
        BY <2>0, <2>13 DEF WriteHalf, WriteRest
      <4>2. y.next >= 2
        BY <2>0, <4>1, WriterKnown DEF Fits
      <4>3. e = EventOf(y, w)
        BY <2>0, <3>2 DEF EventOf, Event
      <4> QED
        BY <4>2, <4>3, EventIs
    <3>4. PICK h \in Pieces : h = Head1(e)
      BY <3>3 DEF Pieces, Head1
    <3>5. Extends(segs, segs') /\ DOMAIN segs' = DOMAIN segs
      <4>1. CASE UNCHANGED segs
        BY <2>1, <4>1
      <4>2. CASE WritePieces(w, <<Head1(Event(w))>>)
        <5>1. PICK q : q = <<h>>
          OBVIOUS
        <5>2. q \in Seq(Pieces) /\ WritePieces(w, q)
          BY <3>2, <3>4, <4>2, <5>1
        <5> QED
          BY <5>2, WritesExtend
      <4>3. ASSUME NEW k \in 0..2, WritePieces(w, SubSeq(Rest(w), 1, k)) PROVE Extends(segs, segs') /\ DOMAIN segs' = DOMAIN segs
        <5>1. PICK q : q = SubSeq(<<Tail2(e), NL>>, 1, k)
          OBVIOUS
        <5>2. WritePieces(w, q)
          BY <3>2, <4>3, <5>1 DEF Rest
        <5>3. q \in Seq(Pieces)
          BY <3>3, <5>1, RestsAre
        <5> QED
          BY <5>2, <5>3, WritesExtend
      <4>4. CASE WritePieces(w, Rest(w))
        <5>1. PICK q : q = <<Tail2(e), NL>>
          OBVIOUS
        <5>2. WritePieces(w, q)
          BY <3>2, <4>4, <5>1 DEF Rest
        <5>3. q \in Seq(Pieces)
          <6>1. PICK t \in Pieces, b \in Pieces : t = Tail2(e) /\ b = NL
            BY <3>3 DEF Pieces, Tail2
          <6>2. <<t, b>> \in Seq(Pieces)
            OBVIOUS
          <6> QED
            BY <5>1, <6>1, <6>2
        <5> QED
          BY <5>2, <5>3, WritesExtend
      <4> QED
        BY <2>13, <4>1, <4>2, <4>3, <4>4 DEF WriteHalf, WriteRest
    <3>6. Grows(segs, segs', Unborn)
      BY <3>5 DEF Grows
    <3>7. PICK p \in WriterPcs \ {"create"} : Goto(w, p)
      BY <3>1
    <3>8. PICK x : x = [y EXCEPT !.pc = p]
      OBVIOUS
    <3>9. wr' = [wr EXCEPT ![w] = x] /\ x.pc # "create"
      BY <1>1, <2>0, <3>7, <3>8 DEF Goto, WriterRecs
    <3> QED
      BY <2>2, <3>1, <3>6, <3>9
  <2> QED
    BY <1>3, <2>5, <2>6, <2>7, <2>8, <2>9, <2>10, <2>11, <2>12, <2>13 DEF WriterStep
<1> QED
    BY <1>2, <1>3

LEMMA ReaderStays ==
    ASSUME LogInv, LogInv', ReaderInv, UNCHANGED <<setup, readerVars>>,
           (\E w \in Writers : WriterStep(w)) \/ RemoveSession
    PROVE  ReaderInv'
<1>1. rd' = rd /\ out' = out /\ waived' = waived /\ token' = token /\ restarts' = restarts /\ setup' = setup
    BY DEF readerVars
<1>2. Moves(segs, removals, Unborn, segs', removals', Unborn')
    BY LogMovesSo
<1>3. rd.offs.at \in [Names -> Nat] /\ token.streams.at \in [Names -> Nat] /\ rd.batch \in SUBSET Batched
    BY DEF ReaderInv, ReaderTypes, ReaderRecs, TokenRecs, Streams
<1>4. CursorFit(segs', removals', Unborn', rd.offs.at, rd.pend, out, waived)
  <2>1. CursorFit(segs, removals, Unborn, rd.offs.at, rd.pend, out, waived)
    BY DEF ReaderInv
  <2> QED
    BY <1>2, <1>3, <2>1, CursorStays
<1>5. CursorFit(segs', removals', Unborn', token.streams.at, {}, token.out, token.waived)
  <2>1. CursorFit(segs, removals, Unborn, token.streams.at, {}, token.out, token.waived)
    BY DEF ReaderInv
  <2> QED
    BY <1>2, <1>3, <2>1, CursorStays
<1>6. BatchThere(segs', removals', rd.offs.at, rd.batch)
  <2>1. OffsFit(segs, Unborn, rd.offs.at) /\ BatchThere(segs, removals, rd.offs.at, rd.batch)
    BY DEF ReaderInv, CursorFit
  <2> QED
    BY <1>2, <1>3, <2>1, BatchStays
<1> QED
    BY <1>1, <1>4, <1>5, <1>6 DEF ReaderInv, ReaderTypes

(***************************************************************************)
(* EventLog: reading on                                                    *)
(***************************************************************************)
ReadAll(S, at) ==
    UNION {{[n |-> n, start |-> x.start, rec |-> x.rec] : x \in ReadFrom(S[n], at[n]).recs} : n \in DOMAIN S}
ReadOn(S, at, at2) ==
    /\ at2 \in [Names -> Nat]
    /\ \A n \in Names : at2[n] = IF n \in DOMAIN S THEN ReadFrom(S[n], at[n]).to ELSE at[n]

LEMMA ReadToIs ==
    ASSUME NEW s \in Seq(Pieces), NEW from \in Nat, NEW t, t = ReadFrom(s, from).to
    PROVE  /\ t \in Nat /\ from <= t /\ (t = from \/ (t <= Len(s) /\ s[t] = NL))
           /\ \A j \in EndsOf(s, from) : j <= t
<1> DEFINE T == {from} \cup {l[2] : l \in LinesFrom(s, from)}
<1>1. t = Largest(T)
    BY DEF ReadFrom
<1>2. ASSUME NEW j \in T PROVE j = from \/ j \in EndsOf(s, from)
  <2>1. CASE j = from
    BY <2>1
  <2>2. CASE \E l \in LinesFrom(s, from) : j = l[2]
    <3>1. PICK l \in LinesFrom(s, from) : j = l[2]
      BY <2>2
    <3>2. PICK a, b : a = l[1] /\ b = l[2]
      OBVIOUS
    <3>3. Line(s, from, a, b)
      BY <3>2, LinesAre
    <3> QED
      BY <3>1, <3>2, <3>3 DEF Line, EndsOf
  <2> QED
    BY <1>2, <2>1, <2>2
<1>3. ASSUME NEW j \in EndsOf(s, from) PROVE j \in T
  <2>1. j \in Nat /\ from < j /\ j <= Len(s) /\ s[j] = NL
    BY DEF EndsOf
  <2>2. PICK a \in Nat : <<a, j>> \in LinesFrom(s, from)
    BY <2>1, LineIsThere
  <2>3. PICK l : l = <<a, j>>
    OBVIOUS
  <2> QED
    BY <2>2, <2>3
<1>4. from \in T
    OBVIOUS
<1> HIDE DEF T
<1>5. PICK b \in Nat : b = from + Len(s)
    OBVIOUS
<1>6. T \subseteq Nat /\ T # {} /\ \A j \in T : j <= b
    BY <1>2, <1>4, <1>5 DEF EndsOf
<1>7. t \in T /\ \A j \in T : j <= t
    BY <1>1, <1>6, LargestIs
<1> QED
    BY <1>2, <1>3, <1>4, <1>6, <1>7 DEF EndsOf

\* What was read lies between the old position and the new one, and is all of it.
LEMMA ReadAllIs ==
    ASSUME NEW S, SegsTyped(S), NEW U, DOMAIN S \subseteq Names, NEW at \in [Names -> Nat], OffsFit(S, U, at),
           NEW at2, ReadOn(S, at, at2), NEW x \in ReadAll(S, at)
    PROVE  /\ x \in Batched /\ x.n \in DOMAIN S /\ x = [n |-> x.n, start |-> x.start, rec |-> x.rec]
           /\ Record(S[x.n], 0, x.start, x.rec) /\ at[x.n] <= x.start /\ x.start < at2[x.n]
<1>1. PICK n \in DOMAIN S : \E z \in ReadFrom(S[n], at[n]).recs : x = [n |-> n, start |-> z.start, rec |-> z.rec]
    BY DEF ReadAll
<1>2. PICK z \in ReadFrom(S[n], at[n]).recs : x = [n |-> n, start |-> z.start, rec |-> z.rec]
    BY <1>1
<1>3. PICK s \in Seq(Pieces) : s = S[n]
    BY DEF SegsTyped
<1>4. PICK f \in Nat : f = at[n]
    OBVIOUS
<1>5. z \in ReadFrom(s, f).recs
    BY <1>2, <1>3, <1>4
<1>6. PICK a, r : a = z.start /\ r = z.rec
    OBVIOUS
<1>7. Record(s, f, a, r)
    BY <1>5, <1>6, RecordsAre
<1>8. f = 0 \/ (f \in 1..Len(s) /\ s[f] = NL)
    BY <1>3, <1>4 DEF OffsFit
<1>9. Record(s, 0, a, r) /\ a \in Nat /\ r \in Records /\ f <= a
    BY <1>7, <1>8 DEF Record
<1>10. PICK t : t = ReadFrom(s, f).to
    OBVIOUS
<1>11. t = at2[n]
    BY <1>3, <1>4, <1>10 DEF ReadOn
<1>12. a < t
  <2>1. a + 3 \in EndsOf(s, f)
    BY <1>7, <1>9 DEF Record, Whole, EndsOf
  <2>2. t \in Nat /\ a + 3 <= t
    BY <1>10, <2>1, ReadToIs
  <2> QED
    BY <1>9, <2>2
<1>13. x = [n |-> n, start |-> a, rec |-> r]
    BY <1>2, <1>6
<1> QED
    BY <1>3, <1>4, <1>9, <1>11, <1>12, <1>13 DEF Batched

LEMMA ReadAllHas ==
    ASSUME NEW S, SegsTyped(S), NEW at \in [Names -> Nat], NEW n \in DOMAIN S, n \in Names, NEW k \in Nat, NEW r \in Records,
           Record(S[n], 0, k, r), at[n] <= k
    PROVE  [n |-> n, start |-> k, rec |-> r] \in ReadAll(S, at)
<1>1. PICK s \in Seq(Pieces) : s = S[n]
    BY DEF SegsTyped
<1>2. PICK f \in Nat : f = at[n]
    OBVIOUS
<1>3. Record(s, f, k, r)
    BY <1>1, <1>2 DEF Record
<1>4. PICK z : z = [rec |-> r, start |-> k]
    OBVIOUS
<1>5. z \in ReadFrom(S[n], at[n]).recs
    BY <1>1, <1>2, <1>3, <1>4, RecordIsRead
<1>6. [n |-> n, start |-> k, rec |-> r] = [n |-> n, start |-> z.start, rec |-> z.rec]
    BY <1>4
<1> QED
    BY <1>5, <1>6 DEF ReadAll

\* Two records in different places differ in writer or seq.
LEMMA RecordsApart ==
    ASSUME NEW S, SegsTyped(S), HeadsApart(S), NEW n \in DOMAIN S, NEW m \in DOMAIN S, NEW a, NEW b, NEW q, NEW r,
           Record(S[n], 0, a, q), Record(S[m], 0, b, r)
    PROVE  /\ q.w = r.w /\ q.seq = r.seq => n = m /\ a = b
           /\ n = m /\ a = b => q = r
<1>1. a \in Nat /\ b \in Nat /\ q \in Records /\ r \in Records /\ S[n][a + 1] = Head1(q) /\ S[m][b + 1] = Head1(r)
    BY DEF Record, Whole
<1>2. PICK k \in Nat, i \in Nat : k = a + 1 /\ i = b + 1
    BY <1>1
<1>3. HeadAt(S, n, k, q) /\ HeadAt(S, m, i, r)
  <2>1. Len(S[n]) \in Nat /\ Len(S[m]) \in Nat
    BY DEF SegsTyped
  <2> QED
    BY <1>1, <1>2, <2>1 DEF HeadAt, Record
<1>4. q.w = r.w /\ q.seq = r.seq => n = m /\ a = b
    BY <1>1, <1>2, <1>3 DEF HeadsApart
<1>5. n = m /\ a = b => q = r
    BY <1>1 DEF Head1
<1> QED
    BY <1>4, <1>5

LEMMA ReadsOn ==
    ASSUME NEW S, NEW R, NEW U, SegsTyped(S), HeadsApart(S), DOMAIN S \subseteq Names, \A n \in DOMAIN S : n \notin U,
           NEW at \in [Names -> Nat], NEW at2, ReadOn(S, at, at2), NEW o, NEW wv, CursorFit(S, R, U, at, {}, o, wv),
           NEW left, NEW drop, left \cup drop = {x \in ReadAll(S, at) : x.rec.w \in Accepted}
    PROVE  /\ CursorFit(S, R, U, at2, {At(b) : b \in left}, o, wv \cup {x.rec : x \in drop})
           /\ BatchThere(S, R, at2, left) /\ BatchApart(left) /\ left \subseteq Batched
<1>1. OffsFit(S, U, at) /\ Never(S, at, {}, Within(o), wv)
    BY DEF CursorFit
<1>2. ASSUME NEW n \in Names
      PROVE  /\ at2[n] \in Nat /\ at[n] <= at2[n] /\ (n \notin DOMAIN S => at2[n] = at[n])
             /\ n \in DOMAIN S /\ at2[n] # 0 => at2[n] <= Len(S[n]) /\ S[n][at2[n]] = NL
  <2>1. CASE n \in DOMAIN S
    <3>1. PICK s \in Seq(Pieces) : s = S[n]
      BY <2>1 DEF SegsTyped
    <3>2. PICK f \in Nat : f = at[n]
      OBVIOUS
    <3>3. PICK t : t = ReadFrom(s, f).to
      OBVIOUS
    <3>4. t \in Nat /\ f <= t /\ (t = f \/ (t <= Len(s) /\ s[t] = NL))
      BY <3>3, ReadToIs
    <3>5. t = at2[n]
      BY <2>1, <3>1, <3>2, <3>3 DEF ReadOn
    <3>6. f # 0 => f <= Len(s) /\ s[f] = NL
      BY <1>1, <2>1, <3>1, <3>2 DEF OffsFit
    <3> QED
      BY <2>1, <3>1, <3>2, <3>4, <3>5, <3>6
  <2>2. CASE n \notin DOMAIN S
    BY <2>2 DEF ReadOn
  <2> QED
    BY <2>1, <2>2
<1>3. OffsFit(S, U, at2)
  <2>1. ASSUME NEW n \in Names, at2[n] # 0 PROVE n \notin U
    BY <1>1, <1>2, <2>1 DEF OffsFit
  <2> QED
    BY <1>2, <2>1 DEF OffsFit
<1>4. ASSUME NEW x \in left \cup drop
      PROVE  /\ x \in Batched /\ x.n \in DOMAIN S /\ x = [n |-> x.n, start |-> x.start, rec |-> x.rec]
             /\ Record(S[x.n], 0, x.start, x.rec) /\ at[x.n] <= x.start /\ x.start < at2[x.n]
  <2>1. x \in ReadAll(S, at)
    BY <1>4
  <2> QED
    BY <1>1, <2>1, ReadAllIs
<1>5. Never(S, at2, {At(b) : b \in left}, Within(o), wv \cup {x.rec : x \in drop})
  <2>1. ASSUME NEW n \in DOMAIN S, NEW k \in Nat, NEW r \in Records, Record(S[n], 0, k, r), r.w \in Accepted, k < at2[n]
        PROVE  r \in Within(o) \cup (wv \cup {x.rec : x \in drop}) \/ [n |-> n, start |-> k] \in {At(b) : b \in left}
    <3>1. PICK f \in Nat : f = at[n]
      OBVIOUS
    <3>2. CASE k < f
      BY <1>1, <2>1, <3>1, <3>2 DEF Never
    <3>3. CASE f <= k
      <4>1. PICK x : x = [n |-> n, start |-> k, rec |-> r]
        OBVIOUS
      <4>2. x \in ReadAll(S, at)
        BY <2>1, <3>1, <3>3, <4>1, ReadAllHas
      <4>3. x \in left \/ x \in drop
        BY <2>1, <4>1, <4>2
      <4>4. x.rec = r /\ At(x) = [n |-> n, start |-> k]
        BY <4>1 DEF At
      <4> QED
        BY <4>3, <4>4
    <3> QED
      BY <3>1, <3>2, <3>3
  <2> QED
    BY <2>1 DEF Never
<1>6. R = 0 => PrintedAt(S, at2, {At(b) : b \in left}, Within(o)) /\ DupsOf(S, o)
  <2>1. SUFFICES ASSUME R = 0 PROVE PrintedAt(S, at2, {At(b) : b \in left}, Within(o)) /\ DupsOf(S, o)
    OBVIOUS
  <2>2. PrintedAt(S, at, {}, Within(o)) /\ DupsOf(S, o)
    BY <2>1 DEF CursorFit
  <2>3. ASSUME NEW n \in DOMAIN S, NEW k \in Nat, Past(n, k, at, {}) PROVE Past(n, k, at2, {At(b) : b \in left})
    <3>1. PICK f \in Nat, t \in Nat : f = at[n] /\ t = at2[n] /\ f <= t
      BY <1>2
    <3>2. k < f
      BY <2>3, <3>1 DEF Past
    <3>3. ASSUME NEW b \in left, At(b).n = n PROVE k < At(b).start
      <4>1. PICK a : a = b.start
        OBVIOUS
      <4>2. b.n = n /\ At(b).start = a
        BY <3>3, <4>1 DEF At
      <4>3. a \in Nat /\ f <= a
        BY <1>4, <3>1, <4>1, <4>2 DEF Record
      <4> QED
        BY <3>2, <4>2, <4>3
    <3> QED
      BY <3>1, <3>2, <3>3 DEF Past
  <2>4. PrintedAt(S, at2, {At(b) : b \in left}, Within(o))
    BY <2>2, <2>3 DEF PrintedAt
  <2> QED
    BY <2>2, <2>4
<1>7. BatchThere(S, R, at2, left)
    BY <1>4 DEF BatchThere
<1>8. BatchApart(left)
  <2>1. ASSUME NEW b \in left, NEW c \in left, b # c
        PROVE  At(b) # At(c) /\ (b.rec.w # c.rec.w \/ b.rec.seq # c.rec.seq)
    <3>1. PICK n, a, q : n = b.n /\ a = b.start /\ q = b.rec
      OBVIOUS
    <3>2. PICK m, d, r : m = c.n /\ d = c.start /\ r = c.rec
      OBVIOUS
    <3>3. n \in DOMAIN S /\ b = [n |-> n, start |-> a, rec |-> q] /\ Record(S[n], 0, a, q)
      BY <1>4, <3>1
    <3>4. m \in DOMAIN S /\ c = [n |-> m, start |-> d, rec |-> r] /\ Record(S[m], 0, d, r)
      BY <1>4, <3>2
    <3>5. (q.w = r.w /\ q.seq = r.seq => n = m /\ a = d) /\ (n = m /\ a = d => q = r)
      BY <3>3, <3>4, RecordsApart
    <3>6. ~(n = m /\ a = d)
      BY <2>1, <3>3, <3>4, <3>5
    <3>7. At(b) # At(c)
      <4>1. At(b) = [n |-> n, start |-> a] /\ At(c) = [n |-> m, start |-> d]
        BY <3>1, <3>2 DEF At
      <4> QED
        BY <3>6, <4>1
    <3> QED
      BY <3>1, <3>2, <3>5, <3>6, <3>7
  <2> QED
    BY <2>1 DEF BatchApart
<1> QED
    BY <1>3, <1>4, <1>5, <1>6, <1>7, <1>8 DEF CursorFit

\* What Poll does, in the terms of the lemma.
Polls(left, drop, at2, sk, pc) ==
    /\ sk \in BOOLEAN /\ pc \in {"start", "print", "strict", "idle"} /\ (pc = "print" <=> left # {})
    /\ left \cup drop = {x \in ReadAll(segs, rd.offs.at) : x.rec.w \in Accepted}
    /\ at2 = [n \in Names |-> IF n \in DOMAIN segs THEN ReadFrom(segs[n], rd.offs.at[n]).to
                              ELSE rd.offs.at[n]]
    /\ waived' = waived \cup {x.rec : x \in drop}
    /\ rd' = [rd EXCEPT !.pc = pc, !.now = FALSE, !.first = rd.now,
                        !.offs = [known |-> rd.offs.known \cup DOMAIN segs, at |-> at2],
                        !.batch = left, !.pend = rd.pend \cup {At(x) : x \in left}, !.skipped = sk]

LEMMA PollIs ==
    ASSUME Poll
    PROVE  \E left, drop, at2, sk, pc : Polls(left, drop, at2, sk, pc)
<1>1. PICK got : got = [n \in DOMAIN segs |-> PollSegment(n)]
    OBVIOUS
<1>2. \A n \in DOMAIN segs : got[n] = ReadFrom(segs[n], rd.offs.at[n])
    BY <1>1 DEF PollSegment
<1>3. PICK all : all = UNION {{[n |-> n, start |-> x.start, rec |-> x.rec] : x \in got[n].recs} : n \in DOMAIN segs}
    OBVIOUS
<1>4. all = ReadAll(segs, rd.offs.at)
    BY <1>2, <1>3 DEF ReadAll
<1>5. PICK batch : batch = {x \in all : x.rec.w \in Accepted}
    OBVIOUS
<1>6. PICK drop : drop = IF rd.now THEN batch ELSE Excess(batch)
    OBVIOUS
<1>7. PICK left : left = batch \ drop
    OBVIOUS
<1>8. PICK sk : sk = \E n \in DOMAIN segs : got[n].skipped
    OBVIOUS
<1>9. PICK at2 : at2 = [n \in Names |-> IF n \in DOMAIN segs THEN got[n].to ELSE rd.offs.at[n]]
    OBVIOUS
<1>10. PICK pc : pc = CASE rd.now -> "start" [] ~rd.now /\ left # {} -> "print" [] OTHER -> AfterBatch(sk)
    OBVIOUS
<1>11. waived' = waived \cup {x.rec : x \in drop}
    BY <1>1, <1>3, <1>5, <1>6 DEF Poll
<1>12. rd' = [rd EXCEPT !.pc = pc, !.now = FALSE, !.first = rd.now,
                        !.offs = [known |-> rd.offs.known \cup DOMAIN segs, at |-> at2],
                        !.batch = left, !.pend = rd.pend \cup {At(x) : x \in left}, !.skipped = sk]
    BY <1>1, <1>3, <1>5, <1>6, <1>7, <1>8, <1>9, <1>10 DEF Poll
<1>13. drop \subseteq batch
    BY <1>6 DEF Excess
<1>14. left \cup drop = batch
    BY <1>7, <1>13
<1>15. pc \in {"start", "print", "strict", "idle"} /\ (pc = "print" <=> left # {})
    BY <1>6, <1>7, <1>10, <1>13 DEF AfterBatch
<1>16. sk \in BOOLEAN
    BY <1>8
<1>17. at2 = [n \in Names |-> IF n \in DOMAIN segs THEN ReadFrom(segs[n], rd.offs.at[n]).to ELSE rd.offs.at[n]]
    BY <1>2, <1>9
<1>18. Polls(left, drop, at2, sk, pc)
    BY <1>4, <1>5, <1>11, <1>12, <1>14, <1>15, <1>16, <1>17 DEF Polls
<1> QED
    BY <1>18

LEMMA SegsBorn ==
    ASSUME LogInv
    PROVE  /\ SegsTyped(segs) /\ HeadsApart(segs) /\ DOMAIN segs \subseteq Names /\ \A n \in DOMAIN segs : n \notin Unborn
           /\ removals \in Nat
<1>1. \A w \in Writers : wr[w].pc = "create" => wr[w].seg \notin DOMAIN segs
    BY WriterKnown DEF Fits
<1> QED
    BY <1>1, SetupsAssumption DEF LogInv, LogState, LogCounters, SegsInv, MintedInv, Unborn

\* The reader's record, field by field.
LEMMA PollKeeps ==
    ASSUME LogInv, ReaderInv, UNCHANGED setup, Poll
    PROVE  ReaderInv'
<1>0. PICK left, drop, at2, sk, pc : Polls(left, drop, at2, sk, pc)
    BY PollIs
<1>1. /\ left \cup drop = {x \in ReadAll(segs, rd.offs.at) : x.rec.w \in Accepted}
      /\ at2 = [n \in Names |-> IF n \in DOMAIN segs THEN ReadFrom(segs[n], rd.offs.at[n]).to
                                ELSE rd.offs.at[n]]
      /\ waived' = waived \cup {x.rec : x \in drop}
      /\ (pc = "print" <=> left # {})
      /\ rd' = [rd EXCEPT !.pc = pc, !.now = FALSE, !.first = rd.now,
                          !.offs = [known |-> rd.offs.known \cup DOMAIN segs, at |-> at2],
                          !.batch = left, !.pend = rd.pend \cup {At(x) : x \in left}, !.skipped = sk]
      /\ sk \in BOOLEAN /\ pc \in {"start", "print", "strict", "idle"}
    BY <1>0 DEF Polls
<1>2. PICK y \in ReaderRecs : y = rd
    BY DEF ReaderInv, ReaderTypes
<1>3. PICK at \in [Names -> Nat], known \in SUBSET Names : at = y.offs.at /\ known = y.offs.known
    BY DEF ReaderRecs, Streams
<1>4. /\ UNCHANGED <<segs, removals, minted, wr, out, token, restarts>> /\ y.pc \in {"start", "idle"}
      /\ Unborn' = Unborn
    BY <1>2 DEF Poll, logVars, Unborn
<1>5. y.pend = {} /\ y.batch = {}
    BY <1>2, <1>4 DEF ReaderInv
<1>6. ReadOn(segs, at, at2)
  <2>1. ASSUME NEW n \in DOMAIN segs PROVE ReadFrom(segs[n], at[n]).to \in Nat
    <3>1. PICK s \in Seq(Pieces) : s = segs[n]
      BY SegsBorn DEF SegsTyped
    <3>2. PICK f \in Nat : f = at[n]
      BY SegsBorn
    <3>3. PICK t : t = ReadFrom(s, f).to
      OBVIOUS
    <3> QED
      BY <3>1, <3>2, <3>3, ReadToIs
  <2>2. at2 = [n \in Names |-> IF n \in DOMAIN segs THEN ReadFrom(segs[n], at[n]).to ELSE at[n]]
    BY <1>1, <1>2, <1>3
  <2> QED
    BY <2>1, <2>2 DEF ReadOn
<1>7. /\ CursorFit(segs, removals, Unborn, at2, {At(b) : b \in left}, out, waived \cup {x.rec : x \in drop})
      /\ BatchThere(segs, removals, at2, left) /\ BatchApart(left) /\ left \subseteq Batched
  <2>1. CursorFit(segs, removals, Unborn, at, {}, out, waived)
    BY <1>2, <1>3, <1>5 DEF ReaderInv
  <2>2. left \cup drop = {x \in ReadAll(segs, at) : x.rec.w \in Accepted}
    BY <1>1, <1>2, <1>3
  <2> QED
    BY <1>6, <2>1, <2>2, SegsBorn, ReadsOn
<1>8. drop \subseteq Batched
  <2>1. ASSUME NEW x \in drop PROVE x \in Batched
    <3>1. x \in ReadAll(segs, at)
      BY <1>1, <1>2, <1>3, <2>1
    <3>2. OffsFit(segs, Unborn, at)
      BY <1>2, <1>3 DEF ReaderInv, CursorFit
    <3> QED
      BY <1>6, <3>1, <3>2, SegsBorn, ReadAllIs
  <2> QED
    BY <2>1
<1>9. PICK pend : pend = {At(b) : b \in left}
    OBVIOUS
<1>10. pend \subseteq Positions
    BY <1>7, <1>9 DEF At, Batched, Positions
<1>11. PICK offs \in Streams : offs = [known |-> known \cup DOMAIN segs, at |-> at2]
    BY <1>6, SegsBorn DEF ReadOn, Streams
<1>12. PICK now \in BOOLEAN : now = y.now
    BY DEF ReaderRecs
<1>13. PICK z : z = [y EXCEPT !.pc = pc, !.now = FALSE, !.first = now, !.offs = offs, !.batch = left, !.pend = pend, !.skipped = sk]
    OBVIOUS
<1>14. z \in ReaderRecs /\ z.pc = pc /\ z.offs = offs /\ z.batch = left /\ z.pend = pend
  <2>1. sk \in BOOLEAN /\ pc \in ReaderPcs /\ left \in SUBSET Batched /\ pend \in SUBSET Positions
    BY <1>1, <1>7, <1>10 DEF ReaderPcs
  <2> QED
    BY <1>13, <2>1 DEF ReaderRecs
<1>15. rd' = z
  <2>1. y.pend \cup {At(x) : x \in left} = pend
    BY <1>5, <1>9
  <2> QED
    BY <1>1, <1>2, <1>3, <1>11, <1>12, <1>13, <2>1
<1>16. waived' \subseteq Records /\ waived' = waived \cup {x.rec : x \in drop}
    BY <1>1, <1>8 DEF ReaderInv, ReaderTypes, Batched
<1>17. ReaderTypes'
    BY <1>4, <1>14, <1>15, <1>16 DEF ReaderInv, ReaderTypes
<1>18. offs.at = at2
    BY <1>11
<1>19. CursorFit(segs, removals, Unborn, offs.at, pend, out, waived') /\ BatchThere(segs, removals, offs.at, left)
    BY <1>7, <1>9, <1>16, <1>18
<1>20. CursorFit(segs, removals, Unborn, token.streams.at, {}, token.out, token.waived)
    BY DEF ReaderInv
<1> QED
    BY <1>1, <1>4, <1>7, <1>9, <1>14, <1>15, <1>17, <1>19, <1>20 DEF ReaderInv

(***************************************************************************)
(* EventLog: printing, and bookmarks                                       *)
(***************************************************************************)
\* A batch has a first event in merge order.
LEMMA FirstIs ==
    ASSUME NEW batch \in SUBSET Batched, batch # {}, BatchApart(batch)
    PROVE  \E b \in batch : \A c \in batch \ {b} : Before(b.rec, c.rec)
<1>0. \A b \in batch : b.rec.ts \in Nat /\ b.rec.w \in Nat /\ b.rec.seq \in Nat
    BY WritersAssumption DEF Batched, Records
<1>1. PICK T1 : T1 = {b.rec.ts : b \in batch}
    OBVIOUS
<1>2. PICK t : t = Least(T1)
    OBVIOUS
<1>3. t \in T1 /\ \A m \in T1 : t <= m
  <2>1. T1 \subseteq Nat /\ T1 # {}
    BY <1>0, <1>1
  <2> QED
    BY <1>2, <2>1, LeastIs
<1>4. PICK T2 : T2 = {b.rec.w : b \in {c \in batch : c.rec.ts = t}}
    OBVIOUS
<1>5. PICK w : w = Least(T2)
    OBVIOUS
<1>6. T2 \subseteq Nat /\ T2 # {}
    BY <1>0, <1>1, <1>3, <1>4
<1>7. w \in T2 /\ \A m \in T2 : w <= m
    BY <1>5, <1>6, LeastIs
<1>8. PICK T3 : T3 = {b.rec.seq : b \in {c \in batch : c.rec.ts = t /\ c.rec.w = w}}
    OBVIOUS
<1>9. PICK q : q = Least(T3)
    OBVIOUS
<1>10. T3 \subseteq Nat /\ T3 # {}
    BY <1>0, <1>4, <1>7, <1>8
<1>11. q \in T3 /\ \A m \in T3 : q <= m
    BY <1>9, <1>10, LeastIs
<1>12. PICK b \in batch : b.rec.ts = t /\ b.rec.w = w /\ b.rec.seq = q
    BY <1>8, <1>11
<1>13. ASSUME NEW c \in batch \ {b} PROVE Before(b.rec, c.rec)
  <2>1. PICK ts \in Nat, v \in Nat, i \in Nat : ts = c.rec.ts /\ v = c.rec.w /\ i = c.rec.seq
    BY <1>0
  <2>2. t \in Nat /\ w \in Nat /\ q \in Nat
    BY <1>0, <1>12
  <2>3. t <= ts
    BY <1>1, <1>3, <2>1
  <2>4. ts = t => w <= v
    BY <1>4, <1>7, <2>1
  <2>5. ts = t /\ v = w => q <= i
    BY <1>8, <1>11, <2>1
  <2>6. ~(v = w /\ i = q)
    BY <1>12, <1>13, <2>1 DEF BatchApart
  <2> QED
    BY <1>12, <2>1, <2>2, <2>3, <2>4, <2>5, <2>6 DEF Before
<1> QED
    BY <1>13

LEMMA WithinAppend ==
    ASSUME NEW o \in Seq(Records), NEW e \in Records, NEW p, p = Append(o, e)
    PROVE  p \in Seq(Records) /\ Within(p) = Within(o) \cup {e}
<1>1. PICK l \in Nat : l = Len(o)
    OBVIOUS
<1>2. p \in Seq(Records) /\ Len(p) = l + 1 /\ p[l + 1] = e /\ \A i \in 1..l : p[i] = o[i]
    BY <1>1
<1>3. DOMAIN o = 1..l /\ DOMAIN p = 1..(l + 1)
    BY <1>1, <1>2
<1>4. 1..(l + 1) = (1..l) \cup {l + 1}
    BY <1>1
<1>5. Within(p) = Within(o) \cup {e}
  <2>1. ASSUME NEW r \in Within(p) PROVE r \in Within(o) \cup {e}
    <3>1. PICK i \in 1..(l + 1) : r = p[i]
      BY <1>3, <2>1 DEF Within
    <3> QED
      BY <1>2, <1>3, <1>4, <3>1 DEF Within
  <2>2. ASSUME NEW r \in Within(o) \cup {e} PROVE r \in Within(p)
    <3>1. CASE r = e
      BY <1>2, <1>3, <1>4, <3>1 DEF Within
    <3>2. CASE r \in Within(o)
      <4>1. PICK i \in 1..l : r = o[i]
        BY <1>3, <3>2 DEF Within
      <4> QED
        BY <1>2, <1>3, <1>4, <4>1 DEF Within
    <3> QED
      BY <2>2, <3>1, <3>2
  <2> QED
    BY <2>1, <2>2
<1> QED
    BY <1>1, <1>2, <1>3, <1>4, <1>5

\* The first of a batch is printed.
FirstOf(batch, x) == x \in batch /\ \A c \in batch \ {x} : Before(x.rec, c.rec)
Spots(batch) == {At(b) : b \in batch}

CanPrint(S, R, U, at, batch, o, wv, x, p) ==
    /\ SegsTyped(S) /\ HeadsApart(S) /\ at \in [Names -> Nat] /\ batch \in SUBSET Batched
    /\ BatchThere(S, R, at, batch) /\ BatchApart(batch) /\ o \in Seq(Records)
    /\ CursorFit(S, R, U, at, Spots(batch), o, wv) /\ FirstOf(batch, x) /\ p = Append(o, x.rec)
HasPrinted(S, R, U, at, batch, left, wv, x, p) ==
    /\ CursorFit(S, R, U, at, Spots(left), p, wv) /\ BatchThere(S, R, at, left) /\ BatchApart(left)
    /\ Spots(batch) \ {At(x)} = Spots(left)

LEMMA PrintsOne ==
    ASSUME NEW S, NEW R, NEW U, NEW at, NEW batch, NEW o, NEW wv, NEW x, NEW p, CanPrint(S, R, U, at, batch, o, wv, x, p),
           NEW left, left = batch \ {x}
    PROVE  HasPrinted(S, R, U, at, batch, left, wv, x, p)
<1> SUFFICES ASSUME SegsTyped(S), HeadsApart(S), at \in [Names -> Nat], batch \in SUBSET Batched,
                    BatchThere(S, R, at, batch), BatchApart(batch), o \in Seq(Records), p = Append(o, x.rec),
                    CursorFit(S, R, U, at, {At(b) : b \in batch}, o, wv), x \in batch,
                    \A c \in batch \ {x} : Before(x.rec, c.rec)
             PROVE  /\ CursorFit(S, R, U, at, {At(b) : b \in batch \ {x}}, p, wv)
                    /\ BatchThere(S, R, at, batch \ {x}) /\ BatchApart(batch \ {x})
                    /\ {At(b) : b \in batch} \ {At(x)} = {At(b) : b \in batch \ {x}}
    BY DEF CanPrint, HasPrinted, Spots, FirstOf
<1>0. PICK n, k, e : n = x.n /\ k = x.start /\ e = x.rec
    OBVIOUS
<1>1. n \in Names /\ k \in Nat /\ e \in Records /\ k < at[n] /\ (R = 0 => n \in DOMAIN S) /\ (n \in DOMAIN S => Record(S[n], 0, k, e))
    BY <1>0 DEF Batched, BatchThere
<1>2. BatchThere(S, R, at, batch \ {x}) /\ BatchApart(batch \ {x})
    BY DEF BatchThere, BatchApart
<1>3. \A b \in batch \ {x} : At(b) # At(x)
    BY DEF BatchApart
<1>4. {At(b) : b \in batch} \ {At(x)} = {At(b) : b \in batch \ {x}}
    BY <1>3
<1>5. Within(p) = Within(o) \cup {e}
  <2>1. p = Append(o, e)
    BY <1>0
  <2> QED
    BY <1>1, <2>1, WithinAppend
<1>6. OffsFit(S, U, at)
    BY DEF CursorFit
<1>7. Never(S, at, {At(b) : b \in batch \ {x}}, Within(p), wv)
  <2>1. ASSUME NEW m \in DOMAIN S, NEW i \in Nat, NEW r \in Records, Record(S[m], 0, i, r), r.w \in Accepted, i < at[m]
        PROVE  r \in Within(p) \cup wv \/ [n |-> m, start |-> i] \in {At(b) : b \in batch \ {x}}
    <3>1. r \in Within(o) \cup wv \/ [n |-> m, start |-> i] \in {At(b) : b \in batch}
      BY <2>1 DEF CursorFit, Never
    <3>2. CASE [n |-> m, start |-> i] = At(x)
      <4>1. m = n /\ i = k
        BY <1>0, <3>2 DEF At
      <4>2. r = e
        BY <1>1, <2>1, <4>1, RecordsApart
      <4> QED
        BY <1>5, <4>2
    <3> QED
      BY <1>4, <1>5, <3>1, <3>2
  <2> QED
    BY <2>1 DEF Never
<1>8. R = 0 => PrintedAt(S, at, {At(b) : b \in batch \ {x}}, Within(p)) /\ DupsOf(S, p)
  <2>1. SUFFICES ASSUME R = 0 PROVE PrintedAt(S, at, {At(b) : b \in batch \ {x}}, Within(p)) /\ DupsOf(S, p)
    OBVIOUS
  <2>2. PrintedAt(S, at, {At(b) : b \in batch}, Within(o)) /\ DupsOf(S, o) /\ n \in DOMAIN S /\ Record(S[n], 0, k, e)
    BY <1>1, <2>1 DEF CursorFit
  <2>3. \A m, i : Past(m, i, at, {At(b) : b \in batch}) => Past(m, i, at, {At(b) : b \in batch \ {x}})
    BY DEF Past
  <2>4. Past(n, k, at, {At(b) : b \in batch \ {x}}) \/ Explained(S, n, k, e)
    <3>1. SUFFICES ASSUME ~Past(n, k, at, {At(b) : b \in batch \ {x}}) PROVE Explained(S, n, k, e)
      OBVIOUS
    <3>2. PICK b \in batch \ {x} : At(b).n = n /\ ~(k < At(b).start)
      BY <1>1, <3>1 DEF Past
    <3>3. PICK i, q : i = b.start /\ q = b.rec
      OBVIOUS
    <3>4. b.n = n /\ At(b).start = i /\ i \in Nat /\ q \in Records /\ At(b) = [n |-> n, start |-> i]
      BY <3>2, <3>3 DEF At, Batched
    <3>5. i # k
      BY <1>0, <1>3, <3>4 DEF At
    <3>6. i < k
      BY <1>1, <3>2, <3>4, <3>5
    <3>7. Record(S[n], 0, i, q)
      BY <2>2, <3>3, <3>4 DEF BatchThere
    <3>8. Before(e, q)
      BY <1>0, <3>3
    <3> QED
      BY <3>4, <3>6, <3>7, <3>8 DEF Explained
  <2>5. PrintedAt(S, at, {At(b) : b \in batch \ {x}}, Within(p))
    <3>1. ASSUME NEW r \in Within(p)
          PROVE  \E m \in DOMAIN S : \E i \in Nat :
                     Record(S[m], 0, i, r) /\ (Past(m, i, at, {At(b) : b \in batch \ {x}}) \/ Explained(S, m, i, r))
      <4>1. CASE r = e
        BY <1>1, <2>2, <2>4, <4>1
      <4>2. CASE r \in Within(o)
        BY <2>2, <2>3, <4>2 DEF PrintedAt
      <4> QED
        BY <1>5, <3>1, <4>1, <4>2
    <3> QED
      BY <3>1 DEF PrintedAt
  <2>6. e \in Within(o) => Twice(S, e)
    <3>1. SUFFICES ASSUME e \in Within(o) PROVE Twice(S, e)
      OBVIOUS
    <3>2. PICK m \in DOMAIN S, i \in Nat :
              Record(S[m], 0, i, e) /\ (Past(m, i, at, {At(b) : b \in batch}) \/ Explained(S, m, i, e))
      BY <2>2, <3>1 DEF PrintedAt
    <3>3. m = n /\ i = k
      BY <2>2, <3>2, RecordsApart
    <3>4. ~Past(n, k, at, {At(b) : b \in batch})
      <4>1. At(x).n = n /\ At(x).start = k /\ ~(k < k)
        BY <1>0, <1>1 DEF At
      <4> QED
        BY <4>1 DEF Past
    <3> QED
      BY <3>2, <3>3, <3>4 DEF Twice
  <2>7. DupsOf(S, p)
    <3>1. ASSUME NEW i \in DOMAIN p, NEW j \in DOMAIN p, i < j, p[i] = p[j] PROVE Twice(S, p[i])
      <4>1. PICK l \in Nat : l = Len(o)
        OBVIOUS
      <4>2. /\ Len(p) = l + 1 /\ p[l + 1] = e /\ (\A h \in 1..l : p[h] = o[h])
            /\ DOMAIN p = 1..(l + 1) /\ DOMAIN o = 1..l
        <5>1. p = Append(o, e) /\ p \in Seq(Records)
          BY <1>0, <1>1
        <5> QED
          BY <1>1, <4>1, <5>1
      <4>3. i \in 1..l
        BY <3>1, <4>2
      <4>4. CASE j \in 1..l
        <5>1. o[i] = o[j] /\ p[i] = o[i]
          BY <3>1, <4>2, <4>3, <4>4
        <5> QED
          BY <2>2, <3>1, <4>2, <4>3, <4>4, <5>1 DEF DupsOf
      <4>5. CASE j = l + 1
        <5>1. p[i] = e /\ o[i] = e
          BY <3>1, <4>2, <4>3, <4>5
        <5> QED
          BY <2>6, <4>2, <4>3, <5>1 DEF Within
      <4> QED
        BY <3>1, <4>2, <4>4, <4>5
    <3> QED
      BY <3>1 DEF DupsOf
  <2> QED
    BY <2>5, <2>7
<1> QED
    BY <1>2, <1>4, <1>6, <1>7, <1>8 DEF CursorFit

\* The token lies at the first pending event of each segment, or where reading stopped.
TokenAt(offs, pend, n, v) ==
    /\ v \in Nat /\ (v = offs.at[n] \/ \E p \in pend : p.n = n /\ p.start = v)
    /\ \A p \in pend : p.n = n => v <= p.start

LEMMA TokenIs ==
    ASSUME NEW offs \in Streams, NEW pend \in SUBSET Positions, NEW n \in Names, NEW v, v = Token(offs, pend).at[n]
    PROVE  TokenAt(offs, pend, n, v)
<1>1. PICK T : T = {p.start : p \in {q \in pend : q.n = n}}
    OBVIOUS
<1>2. v = IF T = {} THEN offs.at[n] ELSE Least(T)
    BY <1>1 DEF Token, Streams
<1>3. T \subseteq Nat
    BY <1>1 DEF Positions
<1>4. T # {} => v \in T /\ \A m \in T : v <= m
  <2>1. SUFFICES ASSUME T # {} PROVE v \in T /\ \A m \in T : v <= m
    OBVIOUS
  <2>2. v = Least(T)
    BY <1>2, <2>1
  <2>3. Least(T) \in T /\ \A m \in T : Least(T) <= m
    BY <1>3, <2>1, LeastIs
  <2> QED
    BY <2>2, <2>3
<1>5. offs.at[n] \in Nat
    BY DEF Streams
<1>6. CASE T = {}
    BY <1>1, <1>2, <1>5, <1>6 DEF TokenAt
<1>7. CASE T # {}
    BY <1>1, <1>3, <1>4, <1>7 DEF TokenAt
<1> QED
    BY <1>6, <1>7

LEMMA TokenTyped ==
    ASSUME NEW offs \in Streams, NEW pend \in SUBSET Positions
    PROVE  Token(offs, pend) \in Streams
<1>1. PICK t : t = Token(offs, pend)
    OBVIOUS
<1>2. PICK at : at = t.at
    OBVIOUS
<1>3. at = [n \in Names |-> at[n]] /\ t = [known |-> offs.known, at |-> at] /\ offs.known \in SUBSET Names
    BY <1>1, <1>2 DEF Token, Streams
<1>4. \A n \in Names : at[n] \in Nat
    BY <1>1, <1>2, TokenIs DEF TokenAt
<1>5. at \in [Names -> Nat]
    BY <1>3, <1>4
<1> QED
    BY <1>1, <1>3, <1>5 DEF Streams

\* A bookmark is a cursor with nothing pending.
LEMMA BookmarkFits ==
    ASSUME NEW S, NEW R, NEW U, SegsTyped(S), DOMAIN S \subseteq Names, NEW offs \in Streams,
           NEW batch \in SUBSET Batched, BatchThere(S, R, offs.at, batch),
           NEW pend \in SUBSET Positions, pend = {At(b) : b \in batch},
           NEW o, NEW wv, CursorFit(S, R, U, offs.at, pend, o, wv), NEW t, t = Token(offs, pend)
    PROVE  CursorFit(S, R, U, t.at, {}, o, wv)
<1>1. PICK at \in [Names -> Nat] : at = offs.at
    BY DEF Streams
<1>2. PICK a2 \in [Names -> Nat] : a2 = t.at
  <2>1. t \in Streams
    BY TokenTyped
  <2> QED
    BY <2>1 DEF Streams
<1>3. ASSUME NEW p \in pend
      PROVE  /\ p.n \in Names /\ p.start \in Nat /\ p.start < at[p.n]
             /\ p.n \in DOMAIN S => p.start = 0 \/ (p.start <= Len(S[p.n]) /\ S[p.n][p.start] = NL)
  <2>1. PICK b \in batch : p = At(b)
    BY <1>3
  <2>2. PICK n, k, e : n = b.n /\ k = b.start /\ e = b.rec
    OBVIOUS
  <2>3. p.n = n /\ p.start = k
    BY <2>1, <2>2 DEF At
  <2>4. n \in Names /\ k \in Nat /\ k < at[n] /\ (n \in DOMAIN S => Record(S[n], 0, k, e))
    BY <1>1, <2>2 DEF Batched, BatchThere
  <2>5. n \in DOMAIN S => k = 0 \/ (k <= Len(S[n]) /\ S[n][k] = NL)
    <3>1. SUFFICES ASSUME n \in DOMAIN S PROVE k = 0 \/ (k <= Len(S[n]) /\ S[n][k] = NL)
      OBVIOUS
    <3>2. Len(S[n]) \in Nat
      BY <3>1 DEF SegsTyped
    <3> QED
      BY <2>4, <3>1, <3>2 DEF Record
  <2> QED
    BY <2>3, <2>4, <2>5
<1>4. ASSUME NEW n \in Names
      PROVE  /\ a2[n] = at[n] \/ \E p \in pend : p.n = n /\ p.start = a2[n]
             /\ \A p \in pend : p.n = n => a2[n] <= p.start
  <2>1. PICK v : v = Token(offs, pend).at[n]
    OBVIOUS
  <2>2. a2[n] = v /\ at[n] = offs.at[n]
    BY <1>1, <1>2, <2>1
  <2>3. TokenAt(offs, pend, n, v)
    BY <2>1, TokenIs
  <2> QED
    BY <2>2, <2>3 DEF TokenAt
<1>5. ASSUME NEW n \in Names PROVE a2[n] <= at[n]
  <2>1. CASE a2[n] = at[n]
    BY <2>1
  <2>2. CASE \E p \in pend : p.n = n /\ p.start = a2[n]
    BY <1>3, <2>2
  <2> QED
    BY <1>4, <2>1, <2>2
<1>6. OffsFit(S, U, at) /\ Never(S, at, pend, Within(o), wv)
    BY <1>1 DEF CursorFit
<1>7. OffsFit(S, U, a2)
  <2>1. ASSUME NEW n \in Names, a2[n] # 0
        PROVE  n \notin U /\ (n \in DOMAIN S => a2[n] <= Len(S[n]) /\ S[n][a2[n]] = NL)
    <3>1. at[n] # 0
      BY <1>5, <2>1
    <3>2. CASE a2[n] = at[n]
      BY <1>6, <3>1, <3>2 DEF OffsFit
    <3>3. CASE \E p \in pend : p.n = n /\ p.start = a2[n]
      BY <1>3, <1>6, <2>1, <3>1, <3>3 DEF OffsFit
    <3> QED
      BY <1>4, <3>2, <3>3
  <2> QED
    BY <2>1 DEF OffsFit
<1>8. Never(S, a2, {}, Within(o), wv)
  <2>1. ASSUME NEW n \in DOMAIN S, NEW k \in Nat, NEW r \in Records, Record(S[n], 0, k, r), r.w \in Accepted, k < a2[n]
        PROVE  r \in Within(o) \cup wv
    <3>1. k < at[n]
      BY <1>5, <2>1
    <3>2. ASSUME [n |-> n, start |-> k] \in pend PROVE FALSE
      <4>1. a2[n] <= k
        BY <1>4, <3>2
      <4> QED
        BY <2>1, <4>1
    <3> QED
      BY <1>6, <2>1, <3>1, <3>2 DEF Never
  <2> QED
    BY <2>1 DEF Never
<1>9. R = 0 => PrintedAt(S, a2, {}, Within(o)) /\ DupsOf(S, o)
  <2>1. SUFFICES ASSUME R = 0 PROVE PrintedAt(S, a2, {}, Within(o)) /\ DupsOf(S, o)
    OBVIOUS
  <2>2. PrintedAt(S, at, pend, Within(o)) /\ DupsOf(S, o)
    BY <1>1, <2>1 DEF CursorFit
  <2>3. ASSUME NEW n \in DOMAIN S, NEW k \in Nat, Past(n, k, at, pend) PROVE Past(n, k, a2, {})
    <3>1. a2[n] = at[n] \/ \E p \in pend : p.n = n /\ p.start = a2[n]
      BY <1>4
    <3>2. k < a2[n]
      BY <2>3, <3>1 DEF Past
    <3> QED
      BY <3>2 DEF Past
  <2> QED
    BY <2>2, <2>3 DEF PrintedAt
<1> QED
    BY <1>2, <1>7, <1>8, <1>9 DEF CursorFit

LEMMA BookmarkTyped ==
    ASSUME ReaderInv, NEW o \in Seq(Records), NEW pend \in SUBSET Positions, NEW t, t = Bookmark(o, pend)
    PROVE  t \in TokenRecs /\ t.streams = Token(rd.offs, pend) /\ t.out = o /\ t.waived = waived
<1>1. PICK s \in Streams : s = Token(rd.offs, pend)
    BY TokenTyped DEF ReaderInv, ReaderTypes, ReaderRecs
<1>2. PICK wv \in SUBSET Records : wv = waived
    BY DEF ReaderInv, ReaderTypes
<1>3. t = [seen |-> TRUE, streams |-> s, out |-> o, waived |-> wv]
    BY <1>1, <1>2 DEF Bookmark
<1> QED
    BY <1>1, <1>2, <1>3 DEF TokenRecs

\* One event printed, and the bookmark that may be due.
LEMMA PrintKeeps ==
    ASSUME LogInv, ReaderInv, UNCHANGED setup, PrintNext
    PROVE  ReaderInv'
<1>1. PICK y \in ReaderRecs : y = rd
    BY DEF ReaderInv, ReaderTypes
<1>2. PICK batch \in SUBSET Batched, pend \in SUBSET Positions, offs \in Streams, count \in Nat :
          batch = y.batch /\ pend = y.pend /\ offs = y.offs /\ count = y.count
    BY DEF ReaderRecs
<1>3. PICK at \in [Names -> Nat] : at = offs.at
    BY DEF Streams
<1>4. /\ out \in Seq(Records) /\ waived \subseteq Records /\ token \in TokenRecs /\ restarts \in 0..setup.restarts
      /\ pend = {At(b) : b \in batch} /\ (y.pc = "print" <=> batch # {}) /\ BatchApart(batch)
      /\ BatchThere(segs, removals, at, batch) /\ CursorFit(segs, removals, Unborn, at, pend, out, waived)
      /\ CursorFit(segs, removals, Unborn, token.streams.at, {}, token.out, token.waived)
    BY <1>1, <1>2, <1>3 DEF ReaderInv, ReaderTypes
<1>5. /\ y.pc = "print" /\ UNCHANGED <<segs, removals, minted, wr, waived, restarts>> /\ Unborn' = Unborn
    BY <1>1 DEF PrintNext, logVars, Unborn
<1>6. PICK x : x = CHOOSE b \in batch : \A c \in batch \ {b} : Before(b.rec, c.rec)
    OBVIOUS
<1>7. x \in batch /\ \A c \in batch \ {x} : Before(x.rec, c.rec)
    BY <1>4, <1>5, <1>6, FirstIs
<1>8. PICK p : p = Append(out, x.rec)
    OBVIOUS
<1>9. p \in Seq(Records)
  <2>1. PICK e \in Records : e = x.rec
    BY <1>7 DEF Batched
  <2> QED
    BY <1>4, <1>8, <2>1, WithinAppend
<1>10. PICK pend2 : pend2 = {At(b) : b \in batch \ {x}}
    OBVIOUS
<1>11. /\ CursorFit(segs, removals, Unborn, at, pend2, p, waived) /\ BatchThere(segs, removals, at, batch \ {x})
       /\ BatchApart(batch \ {x}) /\ pend \ {At(x)} = pend2
  <2>1. Spots(batch) = pend /\ Spots(batch \ {x}) = pend2
    BY <1>4, <1>10 DEF Spots
  <2>2. FirstOf(batch, x)
    BY <1>7 DEF FirstOf
  <2>3. CursorFit(segs, removals, Unborn, at, Spots(batch), out, waived)
    BY <1>4, <2>1
  <2>4. PICK left, e : left = batch \ {x} /\ e = x.rec
    OBVIOUS
  <2>5. CanPrint(segs, removals, Unborn, at, batch, out, waived, x, p)
    BY <1>4, <1>8, <2>2, <2>3, SegsBorn DEF CanPrint
  <2>6. PICK S, R, U, o, wv : S = segs /\ R = removals /\ U = Unborn /\ o = out /\ wv = waived
    OBVIOUS
  <2>7. HasPrinted(S, R, U, at, batch, left, wv, x, p)
    BY <2>4, <2>5, <2>6, PrintsOne
  <2>8. /\ CursorFit(segs, removals, Unborn, at, Spots(left), p, waived)
        /\ BatchThere(segs, removals, at, left) /\ BatchApart(left) /\ Spots(batch) \ {At(x)} = Spots(left)
    BY <2>6, <2>7 DEF HasPrinted
  <2> QED
    BY <2>1, <2>4, <2>8
<1>12. pend2 \in SUBSET Positions /\ batch \ {x} \in SUBSET Batched
    BY <1>11
<1>13. PICK due \in BOOLEAN : due = IF count + 1 >= BookmarkEvery THEN TRUE ELSE FALSE
    OBVIOUS
<1>14. PICK n \in Nat : n = IF due THEN 0 ELSE count + 1
    OBVIOUS
<1>15. PICK pc : pc = IF batch = {x} THEN AfterBatch(y.skipped) ELSE y.pc
    OBVIOUS
<1>16. pc \in ReaderPcs /\ (pc = "print" <=> batch \ {x} # {})
    BY <1>5, <1>7, <1>15 DEF AfterBatch, ReaderPcs
<1>17. PICK z : z = [y EXCEPT !.pc = pc, !.batch = batch \ {x}, !.pend = pend2, !.count = n]
    OBVIOUS
<1>18. z \in ReaderRecs /\ z.pc = pc /\ z.batch = batch \ {x} /\ z.pend = pend2 /\ z.offs = offs
    BY <1>2, <1>12, <1>16, <1>17 DEF ReaderRecs
<1>19. out' = p
    BY <1>1, <1>2, <1>6, <1>8 DEF PrintNext
<1>20. rd' = z
  <2>1. rd' = [y EXCEPT !.pc = IF y.batch = {x} THEN AfterBatch(y.skipped) ELSE @,
                        !.batch = @ \ {x}, !.pend = @ \ {At(x)},
                        !.count = IF y.count + 1 >= BookmarkEvery THEN 0 ELSE @ + 1]
    BY <1>1, <1>2, <1>6 DEF PrintNext
  <2> QED
    BY <1>2, <1>11, <1>13, <1>14, <1>15, <1>17, <2>1
<1>21. token' = IF due THEN Bookmark(p, pend2) ELSE token
    BY <1>1, <1>2, <1>13, <1>18, <1>19, <1>20 DEF PrintNext
<1>22. token' \in TokenRecs /\ CursorFit(segs, removals, Unborn, token'.streams.at, {}, token'.out, token'.waived)
  <2>1. CASE ~due
    BY <1>4, <1>21, <2>1
  <2>2. CASE due
    <3>1. PICK t : t = Bookmark(p, pend2)
      OBVIOUS
    <3>2. t \in TokenRecs /\ t.streams = Token(offs, pend2) /\ t.out = p /\ t.waived = waived
      BY <1>1, <1>2, <1>9, <1>12, <3>1, BookmarkTyped
    <3>3. PICK s : s = Token(offs, pend2)
      OBVIOUS
    <3>4. PICK left : left = batch \ {x}
      OBVIOUS
    <3>5. CursorFit(segs, removals, Unborn, s.at, {}, p, waived)
      <4>1. /\ left \in SUBSET Batched /\ BatchThere(segs, removals, offs.at, left) /\ pend2 = {At(b) : b \in left}
            /\ CursorFit(segs, removals, Unborn, offs.at, pend2, p, waived)
        BY <1>3, <1>10, <1>11, <1>12, <3>4
      <4> QED
        BY <1>12, <3>3, <4>1, SegsBorn, BookmarkFits
    <3>6. token' = t
      BY <1>21, <2>2, <3>1
    <3> QED
      BY <3>2, <3>3, <3>5, <3>6
  <2> QED
    BY <2>1, <2>2
<1>23. ReaderTypes'
    BY <1>4, <1>5, <1>9, <1>18, <1>19, <1>20, <1>22 DEF ReaderTypes
<1>24. rd'.offs.at = at
    BY <1>3, <1>18, <1>20
<1> QED
    BY <1>5, <1>10, <1>11, <1>16, <1>18, <1>19, <1>20, <1>22, <1>23, <1>24 DEF ReaderInv

LEMMA IdleKeeps ==
    ASSUME LogInv, ReaderInv, UNCHANGED setup, IdleBookmark
    PROVE  ReaderInv'
<1>1. PICK y \in ReaderRecs : y = rd
    BY DEF ReaderInv, ReaderTypes
<1>2. PICK offs \in Streams : offs = y.offs
    BY DEF ReaderRecs
<1>3. /\ out \in Seq(Records) /\ waived \subseteq Records /\ restarts \in 0..setup.restarts /\ y.pc = "idle"
      /\ y.batch = {} /\ y.pend = {} /\ CursorFit(segs, removals, Unborn, offs.at, {}, out, waived)
    BY <1>1, <1>2 DEF ReaderInv, ReaderTypes, IdleBookmark
<1>4. /\ UNCHANGED <<segs, removals, minted, wr, out, waived, restarts>> /\ Unborn' = Unborn
      /\ token' = Bookmark(out, rd.pend) /\ rd' = [rd EXCEPT !.count = 0]
    BY DEF IdleBookmark, logVars, Unborn
<1>5. PICK z : z = [y EXCEPT !.count = 0]
    OBVIOUS
<1>6. z \in ReaderRecs /\ z.pc = y.pc /\ z.batch = y.batch /\ z.pend = y.pend /\ z.offs = y.offs /\ rd' = z
    BY <1>1, <1>4, <1>5 DEF ReaderRecs
<1>7. PICK pend \in SUBSET Positions : pend = {}
    OBVIOUS
<1>8. PICK t : t = Bookmark(out, pend)
    OBVIOUS
<1>9. t \in TokenRecs /\ t.streams = Token(offs, pend) /\ t.out = out /\ t.waived = waived
    BY <1>1, <1>2, <1>3, <1>8, BookmarkTyped
<1>10. token' = t
    BY <1>1, <1>3, <1>4, <1>7, <1>8
<1>11. PICK s : s = Token(offs, pend)
    OBVIOUS
<1>12. CursorFit(segs, removals, Unborn, s.at, {}, out, waived)
  <2>1. PICK batch \in SUBSET Batched : batch = {}
    OBVIOUS
  <2>2. BatchThere(segs, removals, offs.at, batch) /\ pend = {At(b) : b \in batch}
    BY <1>7, <2>1 DEF BatchThere
  <2>3. CursorFit(segs, removals, Unborn, offs.at, pend, out, waived)
    BY <1>3, <1>7
  <2> QED
    BY <1>11, <2>2, <2>3, SegsBorn, BookmarkFits
<1>13. ReaderTypes'
    BY <1>3, <1>4, <1>6, <1>9, <1>10 DEF ReaderTypes
<1>14. CursorFit(segs, removals, Unborn, token'.streams.at, {}, token'.out, token'.waived)
    BY <1>9, <1>10, <1>11, <1>12
<1> QED
    BY <1>1, <1>4, <1>6, <1>13, <1>14 DEF ReaderInv

\* A reader that begins has nothing to print.
LEMMA FreshIs ==
    ASSUME NEW opts \in Options, NEW offs \in Streams, NEW z, z = Fresh(opts, offs)
    PROVE  /\ z \in ReaderRecs /\ z.pc = "start" /\ z.batch = {} /\ z.pend = {} /\ z.offs = offs
           /\ [z EXCEPT !.pc = "gone"] \in ReaderRecs
           /\ \A x : x = [z EXCEPT !.pc = "gone"] => x.pc = "gone" /\ x.batch = {} /\ x.pend = {} /\ x.offs = offs
<1>1. PICK now \in BOOLEAN : now = opts.now
    BY DEF Options
<1>2. z = [pc |-> "start", opts |-> opts, first |-> TRUE, now |-> now, offs |-> offs, pend |-> {},
           batch |-> {}, skipped |-> FALSE, count |-> 0]
    BY <1>1 DEF Fresh
<1>3. z \in ReaderRecs /\ z.pc = "start" /\ z.batch = {} /\ z.pend = {} /\ z.offs = offs
    BY <1>2 DEF ReaderRecs, ReaderPcs
<1>4. ASSUME NEW x, x = [z EXCEPT !.pc = "gone"]
      PROVE  x \in ReaderRecs /\ x.pc = "gone" /\ x.batch = {} /\ x.pend = {} /\ x.offs = offs
    BY <1>3, <1>4 DEF ReaderRecs, ReaderPcs
<1> QED
    BY <1>3, <1>4

LEMMA ResumeKeeps ==
    ASSUME LogInv, ReaderInv, UNCHANGED setup, Resume
    PROVE  ReaderInv'
<1>1. PICK y \in ReaderRecs : y = rd
    BY DEF ReaderInv, ReaderTypes
<1>2. /\ token \in TokenRecs /\ restarts \in 0..setup.restarts
      /\ CursorFit(segs, removals, Unborn, token.streams.at, {}, token.out, token.waived)
    BY DEF ReaderInv, ReaderTypes
<1>3. PICK offs \in Streams : offs = token.streams
    BY <1>2 DEF TokenRecs
<1>4. /\ UNCHANGED <<segs, removals, minted, wr, token>> /\ Unborn' = Unborn
      /\ out' = token.out /\ waived' = token.waived /\ restarts < setup.restarts /\ restarts' = restarts + 1
    BY DEF Resume, logVars, Unborn
<1>5. PICK opts : opts = [y.opts EXCEPT !.now = FALSE, !.last = 0]
    OBVIOUS
<1>6. opts \in Options
  <2>1. PICK o \in Options : o = y.opts
    BY DEF ReaderRecs
  <2> QED
    BY <1>5, <2>1 DEF Options
<1>7. PICK new : new = Fresh(opts, offs)
    OBVIOUS
<1>8. PICK z : z = IF offs.known \subseteq DOMAIN segs THEN new ELSE [new EXCEPT !.pc = "gone"]
    OBVIOUS
<1>9. rd' = z
    BY <1>1, <1>3, <1>5, <1>7, <1>8 DEF Resume
<1>10. z \in ReaderRecs /\ z.pc # "print" /\ z.batch = {} /\ z.pend = {} /\ z.offs = offs
  <2>1. CASE offs.known \subseteq DOMAIN segs
    BY <1>6, <1>7, <1>8, <2>1, FreshIs
  <2>2. CASE ~(offs.known \subseteq DOMAIN segs)
    <3>1. z = [new EXCEPT !.pc = "gone"]
      BY <1>8, <2>2
    <3>2. z \in ReaderRecs /\ z.pc = "gone" /\ z.batch = {} /\ z.pend = {} /\ z.offs = offs
      BY <1>6, <1>7, <3>1, FreshIs
    <3> QED
      BY <3>2
  <2> QED
    BY <2>1, <2>2
<1>11. restarts' \in 0..setup.restarts
  <2>1. PICK m \in Nat : m = setup.restarts
    BY SetupsAssumption DEF LogInv, LogCounters
  <2> QED
    BY <1>2, <1>4, <2>1
<1>12. out' \in Seq(Records) /\ waived' \subseteq Records
    BY <1>2, <1>4 DEF TokenRecs
<1>13. ReaderTypes'
    BY <1>2, <1>4, <1>9, <1>10, <1>11, <1>12 DEF ReaderTypes
<1>14. BatchThere(segs, removals, offs.at, {}) /\ BatchApart({}) /\ {} = {At(b) : b \in {}}
    BY DEF BatchThere, BatchApart
<1>15. CursorFit(segs, removals, Unborn, offs.at, {}, out', waived')
    BY <1>2, <1>3, <1>4
<1> QED
    BY <1>2, <1>4, <1>9, <1>10, <1>13, <1>14, <1>15 DEF ReaderInv

LEMMA ReaderStarts == Init => ReaderInv
<1> SUFFICES ASSUME Init PROVE ReaderInv
    OBVIOUS
<1>1. PICK opts \in Options, m \in Nat : opts = setup.opts /\ m = setup.restarts
    BY SetupsAssumption DEF Init
<1>2. PICK at \in [Names -> Nat] : at = [n \in Names |-> 0]
    OBVIOUS
<1>3. PICK offs \in Streams : offs = NoStreams /\ offs.at = at
  <2>1. PICK offs : offs = [known |-> {}, at |-> at]
    OBVIOUS
  <2>2. offs \in Streams /\ offs.at = at
    BY <2>1 DEF Streams
  <2>3. offs = NoStreams
    BY <1>2, <2>1 DEF NoStreams
  <2> QED
    BY <2>2, <2>3
<1>4. PICK z : z = Fresh(opts, offs)
    OBVIOUS
<1>5. z \in ReaderRecs /\ z.pc = "start" /\ z.batch = {} /\ z.pend = {} /\ z.offs = offs
    BY <1>4, FreshIs
<1>6. PICK o \in Seq(Records), wv \in SUBSET Records : o = <<>> /\ wv = {}
  <2>1. <<>> \in Seq(Records)
    OBVIOUS
  <2>2. PICK wv \in SUBSET Records : wv = {}
    OBVIOUS
  <2>3. PICK o \in Seq(Records) : o = <<>>
    BY <2>1
  <2> QED
    BY <2>2, <2>3
<1>7. PICK t : t = [seen |-> FALSE, streams |-> offs, out |-> o, waived |-> wv]
    OBVIOUS
<1>8. t \in TokenRecs /\ t.streams = offs /\ t.out = o /\ t.waived = wv
    BY <1>7 DEF TokenRecs
<1>9. rd = z /\ out = o /\ waived = wv /\ token = t /\ restarts = 0
    BY <1>1, <1>3, <1>4, <1>6, <1>7 DEF Init
<1>10. ReaderTypes
    BY <1>1, <1>5, <1>8, <1>9 DEF ReaderTypes
<1>11. CursorFit(segs, removals, Unborn, at, {}, o, wv)
  <2>1. DOMAIN segs = {}
    BY DEF Init, NoSegments
  <2>2. OffsFit(segs, Unborn, at) /\ Never(segs, at, {}, Within(o), wv)
    BY <1>2, <2>1 DEF OffsFit, Never
  <2>3. PrintedAt(segs, at, {}, Within(o)) /\ DupsOf(segs, o)
    BY <1>6 DEF PrintedAt, DupsOf, Within
  <2> QED
    BY <2>2, <2>3 DEF CursorFit
<1>12. BatchThere(segs, removals, at, {}) /\ BatchApart({}) /\ {} = {At(b) : b \in {}}
    BY DEF BatchThere, BatchApart
<1> QED
    BY <1>3, <1>5, <1>8, <1>9, <1>10, <1>11, <1>12 DEF ReaderInv

LEMMA ReaderMoves ==
    ASSUME LogInv, ReaderInv, [Next]_vars
    PROVE  ReaderInv'
<1>1. LogInv'
    BY LogStep
<1>2. CASE UNCHANGED vars
  <2>1. /\ UNCHANGED <<setup, segs, removals, minted, wr, rd, out, token, waived, restarts>> /\ Unborn' = Unborn
    BY <1>2 DEF vars, logVars, readerVars, Unborn
  <2> QED
    BY <2>1 DEF ReaderInv, ReaderTypes
<1>3. CASE Next
  <2>1. UNCHANGED setup
    BY <1>3 DEF Next
  <2>2. CASE (\E w \in Writers : WriterStep(w)) \/ RemoveSession
    <3>1. UNCHANGED readerVars
      BY <2>2 DEF WriterStep, AppendBegins, SpillBlob, RenameBlob, Stamp, OpenSegment, CreateSegment, Lock,
                  AppendFails, WriteHalf, WriteRest, RemoveSession
    <3> QED
      BY <1>1, <2>1, <2>2, <3>1, ReaderStays
  <2>3. CASE ReaderStep \/ IdleBookmark \/ Resume
    BY <2>1, <2>3, PollKeeps, PrintKeeps, IdleKeeps, ResumeKeeps DEF ReaderStep
  <2> QED
    BY <1>3, <2>2, <2>3 DEF Next
<1> QED
    BY <1>2, <1>3

(***************************************************************************)
(* EventLog: the log can be read back, and a cursor is exact               *)
(***************************************************************************)
LEMMA LogIsTyped == LogInv /\ ReaderInv => TypeOK
<1> SUFFICES ASSUME LogInv, ReaderInv PROVE TypeOK
    OBVIOUS
<1>1. DOMAIN segs \subseteq Names /\ \A n \in DOMAIN segs : segs[n] \in Seq(Pieces)
    BY DEF LogInv, LogState, SegsInv, SegsTyped, MintedInv
<1>2. blob \in {"none", "partial", "whole"} /\ minted \subseteq Names /\ acked \subseteq Records
    BY DEF LogInv, LogState, MintedInv
<1>3. wr \in [Writers -> WriterRecs]
  <2>1. wr = [w \in Writers |-> wr[w]] /\ \A w \in Writers : wr[w] \in WriterRecs
    BY DEF LogInv, AllFit, Fits
  <2> QED
    BY <2>1
<1>4. setup \in Setups /\ dir \in BOOLEAN /\ removals \in 0..setup.removals /\ clock \in Nat /\ failures \in 0..setup.failures
    BY DEF LogInv, LogCounters
<1>5. rd \in ReaderRecs /\ out \in Seq(Records) /\ waived \subseteq Records /\ token \in TokenRecs /\ restarts \in 0..setup.restarts
    BY DEF ReaderInv, ReaderTypes
<1> QED
    BY <1>1, <1>2, <1>3, <1>4, <1>5 DEF TypeOK, WriterRecs, ReaderRecs, TokenRecs

LEMMA CursorNeverDrops == LogInv /\ ReaderInv => NeverDropped
<1> SUFFICES ASSUME LogInv, ReaderInv, NEW x \in Stored, x.rec.w \in Accepted, x.start < rd.offs.at[x.n]
             PROVE  x.rec \in Printed \cup waived \/ At(x) \in rd.pend
    BY DEF NeverDropped
<1>1. SegsTyped(segs)
    BY DEF LogInv, LogState, SegsInv
<1>2. PICK n, k, r : n = x.n /\ k = x.start /\ r = x.rec
    OBVIOUS
<1>3. n \in DOMAIN segs /\ Record(segs[n], 0, k, r) /\ r \in Records /\ k \in Nat
    BY <1>1, <1>2, StoredIs
<1>4. Never(segs, rd.offs.at, rd.pend, Within(out), waived)
    BY DEF ReaderInv, CursorFit
<1>5. r.w \in Accepted /\ k < rd.offs.at[n]
    BY <1>2
<1>6. r \in Within(out) \cup waived \/ [n |-> n, start |-> k] \in rd.pend
    BY <1>3, <1>4, <1>5 DEF Never
<1>7. At(x) = [n |-> n, start |-> k] /\ Printed = Within(out)
    BY <1>2 DEF At, Printed, Within
<1> QED
    BY <1>2, <1>6, <1>7

\* A line that is a record is stored.
LEMMA RecordIsStored ==
    ASSUME SegsTyped(segs), NEW n \in DOMAIN segs, NEW k, NEW r, Record(segs[n], 0, k, r)
    PROVE  [n |-> n, start |-> k, rec |-> r] \in Stored
<1>1. PICK s \in Seq(Pieces) : s = segs[n]
    BY DEF SegsTyped
<1>2. PICK z : z = [rec |-> r, start |-> k]
    OBVIOUS
<1>3. z \in ReadFrom(segs[n], 0).recs
  <2>1. Record(s, 0, k, r)
    BY <1>1
  <2> QED
    BY <1>1, <1>2, <2>1, RecordIsRead
<1>4. z.rec = r /\ z.start = k
    BY <1>2
<1> QED
    BY <1>3, <1>4 DEF Stored

LEMMA CursorExplains == LogInv /\ ReaderInv => DuplicatesExplained
<1> SUFFICES ASSUME LogInv, ReaderInv, NEW i \in DOMAIN out, NEW j \in DOMAIN out, i < j, out[i] = out[j], removals = 0
             PROVE  \E x, y \in Stored : /\ x.rec = out[i] /\ y.n = x.n
                                         /\ y.start < x.start /\ Before(x.rec, y.rec)
    BY DEF DuplicatesExplained
<1>1. SegsTyped(segs)
    BY DEF LogInv, LogState, SegsInv
<1>2. DupsOf(segs, out)
    BY DEF ReaderInv, CursorFit
<1>3. PICK r : r = out[i]
    OBVIOUS
<1>4. Twice(segs, r)
    BY <1>2, <1>3 DEF DupsOf
<1>5. PICK n \in DOMAIN segs : \E k \in Nat : Record(segs[n], 0, k, r) /\ Explained(segs, n, k, r)
    BY <1>4 DEF Twice
<1>6. PICK k \in Nat : Record(segs[n], 0, k, r) /\ Explained(segs, n, k, r)
    BY <1>5
<1>7. PICK b \in Nat : \E q \in Records : b < k /\ Record(segs[n], 0, b, q) /\ Before(r, q)
    BY <1>6 DEF Explained
<1>8. PICK q \in Records : b < k /\ Record(segs[n], 0, b, q) /\ Before(r, q)
    BY <1>7
<1>9. PICK x, y : x = [n |-> n, start |-> k, rec |-> r] /\ y = [n |-> n, start |-> b, rec |-> q]
    OBVIOUS
<1>10. x \in Stored /\ y \in Stored
    BY <1>1, <1>6, <1>8, <1>9, RecordIsStored
<1>11. x.rec = r /\ y.rec = q /\ x.n = n /\ y.n = n /\ x.start = k /\ y.start = b
    BY <1>9
<1> QED
    BY <1>3, <1>8, <1>10, <1>11

\* What concurrent, failing and dying writers of EventWriter::append leave can be read
\* back, for any number of writers, events, failed writes and removals of the session:
\* an acknowledged event is in a line of its own, no seq is stored twice, and a stored
\* reference finds its blob whole.
THEOREM LogSoundHolds == Spec => []LogSound
<1>1. Init => LogInv /\ ReaderInv
    BY LogStarts, ReaderStarts
<1>2. LogInv /\ ReaderInv /\ [Next]_vars => (LogInv /\ ReaderInv)'
    BY LogStep, ReaderMoves
<1>3. LogInv /\ ReaderInv => LogSound
    BY LogIsTyped, LogIsAckedInLine, LogIsSeqHonest, LogIsBlobBehindRef DEF LogSound
<1> QED
    BY <1>1, <1>2, <1>3, PTL DEF Spec

\* A reader of tender events that stops anywhere and resumes from its last bookmark
\* misses no event that passes its filters, and sees one twice only where merge order
\* puts it before one that was written ahead of it: CursorTracker's token is exact for
\* any number of writers, resumptions and removals.
THEOREM CursorExactHolds == Spec => []CursorExact
<1>1. Init => LogInv /\ ReaderInv
    BY LogStarts, ReaderStarts
<1>2. LogInv /\ ReaderInv /\ [Next]_vars => (LogInv /\ ReaderInv)'
    BY LogStep, ReaderMoves
<1>3. LogInv /\ ReaderInv => CursorExact
    BY CursorNeverDrops, CursorExplains DEF CursorExact
<1> QED
    BY <1>1, <1>2, <1>3, PTL DEF Spec

=============================================================================
