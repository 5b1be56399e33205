------------------------------ MODULE PtyInput ------------------------------
(***************************************************************************)
(* Who may type into a PTY (src/model/pty_control.rs, src/pty_input.rs and *)
(* the attach side of src/sidecar.rs).                                     *)
(*                                                                         *)
(* One writer thread owns the arbiter and the PTY's input.  Every          *)
(* connection has a handler thread: an attach, a takeover or a push from   *)
(* the socket, or a frame from the stdin FIFO.  Handlers reach the writer  *)
(* through two bounded queues, and meet it, and one another, in the        *)
(* registry of live connections and in the sink, the one viewer that       *)
(* output is teed to.  A connection is its own holder identity.            *)
(***************************************************************************)
EXTENDS Naturals, Sequences, FiniteSets, FiniteSetsExt

CONSTANTS
    Conns,            \* connections, which are holder identities
    InputCapacity,    \* queued inputs before senders wait (32 in the code)
    ControlCapacity,  \* queued controls before senders wait (16)
    ViewerCapacity,   \* chunks a viewer may fall behind (8 MiB)
    MaxConnections,   \* connections served at once (8)
    MaxEpoch,         \* the largest epoch (2^64 - 1)
    PtyRoom,          \* bytes the PTY takes before it is full
    Setups            \* which connections there are, and what they send

ASSUME ConnsAssumption == Conns \subseteq Nat \ {0}
ASSUME CapacityAssumption ==
    /\ InputCapacity \in Nat \ {0} /\ ControlCapacity \in Nat \ {0} /\ PtyRoom \in Nat \ {0}
    /\ ViewerCapacity \in Nat /\ MaxConnections \in Nat /\ MaxEpoch \in Nat

Modes == {"attach", "takeover", "push", "fifo", "absent"}
\* frames: what the client sends, the bytes of an input, or 0 for a resize.  vanish:
\* the clients that may hang up, or the FIFO frames whose read may fail.  output: chunks
\* of output.  ends: the run ends.  past: how often control was taken and given up before.
ASSUME SetupsAssumption ==
    Setups \subseteq [mode : [Conns -> Modes], frames : [Conns -> Seq(Nat)],
                      vanish : SUBSET Conns, output : Nat, ends : BOOLEAN, past : 0..MaxEpoch]

VARIABLES
    setup,
    arb,       \* the arbiter: owned or not, its epoch and its last holder
    controls,  \* queued controls
    inputs,    \* queued inputs
    wr,        \* the writer thread: what it took, and the request being written
    conn,      \* the handlers
    hung,      \* connections whose client is gone
    shut,      \* connections whose socket the sidecar shut down
    revoked,   \* pushes flagged as superseded, and no longer readable
    reg,       \* the registry: live connections, and whether it is closed
    sink,      \* the viewer installed and the connection holding the sink's lock
    retire,    \* threads that retire superseded viewers
    view,      \* the viewers' queues: chunks queued, and whether closed
    chunks,    \* chunks of output so far
    pty,       \* free bytes of the PTY's input buffer, and whether it is open
    fifo,      \* the FIFO forwarder still runs
    applied,   \* history: bytes and sizes that reached the PTY
    fx         \* the effects sent to the effects thread

authority == <<arb, controls, inputs, wr>>
sockets == <<hung, shut, revoked, reg>>
viewing == <<sink, retire, view, chunks>>
vars == <<setup, authority, conn, sockets, viewing, pty, fifo, applied, fx>>

None == 0
Mode(c) == setup.mode[c]
Kind(c) == IF Mode(c) \in {"push", "fifo"} THEN "Agent" ELSE "Human"

(***************************************************************************)
(* Types                                                                   *)
(***************************************************************************)
Controls == [op : {"claim", "takeover", "resize", "disconnect"}, c : Conns, e : Nat]
Inputs == [op : {"write", "end"}, c : Conns, e : Nat, tot : Nat, acc : Nat]
NoInput == [op |-> "none"]
Accepted == [why : {"accepted", "revoked", "closed", "ended"}, acc : Nat]
NoOutcome == [why |-> "none"]
Reports == [what : {"written", "revoked", "closed"}, acc : Nat, left : Nat]
NoReport == [what |-> "none"]
Pcs == {"new", "hello", "ask", "reply", "accept", "check", "put", "relay", "queue", "resize",
        "await", "poll", "drain", "end", "ended", "stop", "gone", "quit", "bye", "unreg",
        "unsink", "done"}
Effects == [k : {"human", "released"}] \cup [k : {"revoked"}, c : Conns, acc : Nat, tot : Nat]

TypeOK ==
    /\ setup \in Setups
    /\ arb \in [owned : BOOLEAN, epoch : 0..MaxEpoch, holder : Conns \cup {None}]
    /\ controls \in Seq(Controls) /\ Len(controls) <= ControlCapacity
    /\ inputs \in Seq(Inputs) /\ Len(inputs) <= InputCapacity
    /\ wr \in [pc : {"take", "serve"}, batch : Seq(Controls), cur : Inputs \cup {NoInput},
               end : Inputs \cup {NoInput}]
    /\ conn \in [Conns -> [pc : Pcs, ans : {"none", "granted", "Agent", "Human", "exhausted"},
                           epoch : 0..MaxEpoch, next : Nat, wrote : Nat,
                           out : Accepted \cup {NoOutcome}, report : Reports \cup {NoReport}]]
    /\ hung \subseteq Conns /\ shut \subseteq Conns /\ revoked \subseteq Conns
    /\ reg \in [live : SUBSET Conns, closed : BOOLEAN]
    /\ sink \in [viewer : Conns \cup {None}, lock : Conns \cup {None}]
    /\ retire \in [Conns -> {"no", "shut", "clear", "done"}]
    /\ view \in [Conns -> [n : 0..ViewerCapacity, closed : BOOLEAN]]
    /\ chunks \in 0..setup.output
    /\ pty \in [room : 0..PtyRoom, open : BOOLEAN] /\ fifo \in BOOLEAN
    /\ applied \in Seq([what : {"byte", "size"}, c : Conns, e : Nat]) /\ fx \in Seq(Effects)

Init ==
    /\ setup \in Setups
    /\ arb = [owned |-> FALSE, epoch |-> setup.past, holder |-> None]
    /\ controls = <<>> /\ inputs = <<>>
    /\ wr = [pc |-> "take", batch |-> <<>>, cur |-> NoInput, end |-> NoInput]
    /\ conn = [c \in Conns |-> [pc |-> "new", ans |-> "none", epoch |-> 0, next |-> 1, wrote |-> 0,
                                out |-> NoOutcome, report |-> NoReport]]
    /\ hung = {} /\ shut = {} /\ revoked = {}
    /\ reg = [live |-> {}, closed |-> FALSE]
    /\ sink = [viewer |-> None, lock |-> None]
    /\ retire = [c \in Conns |-> "no"]
    /\ view = [c \in Conns |-> [n |-> 0, closed |-> FALSE]] /\ chunks = 0
    /\ pty = [room |-> PtyRoom, open |-> TRUE] /\ fifo = TRUE
    /\ applied = <<>> /\ fx = <<>>

(***************************************************************************)
(* The arbiter                                                             *)
(***************************************************************************)
\* Mutant: any handle authorizes while control is owned.
Stale_Owned(c, e) == ~arb.owned

\* stale_reason: a handle authorizes while its epoch and holder are current.
Stale(c, e) == ~(arb.owned /\ arb.epoch = e /\ arb.holder = c)

Own(c) == [owned |-> TRUE, epoch |-> arb.epoch + 1, holder |-> c]

\* Mutant: any handle releases.
AfterRelease_Any(c, e) == [arb EXCEPT !.owned = FALSE]

\* release: only the current handle does, and a human's release is told.
AfterRelease(c, e) == IF Stale(c, e) THEN arb ELSE [arb EXCEPT !.owned = FALSE]

ReleaseTold(c, e) == IF ~Stale(c, e) /\ Kind(c) = "Human" THEN <<[k |-> "released"]>> ELSE <<>>

Revoked(c, acc, tot) == [k |-> "revoked", c |-> c, acc |-> acc, tot |-> tot]

(***************************************************************************)
(* The writer thread                                                       *)
(***************************************************************************)
Serving == wr.pc = "serve"
Unserved == wr.batch # <<>>

\* Mutant: controls wait for the write in progress.
Take_Busy ==
    /\ wr.pc = "take"
    /\ controls # <<>> \/ inputs # <<>> \/ wr.cur # NoInput
    /\ LET next == IF wr.cur = NoInput /\ inputs # <<>> THEN Head(inputs) ELSE NoInput
       IN  /\ wr' = [pc |-> "serve", batch |-> IF wr.cur = NoInput THEN controls ELSE <<>>,
                     cur |-> IF next.op = "write" THEN next ELSE wr.cur,
                     end |-> IF next.op = "end" THEN next ELSE NoInput]
           /\ inputs' = IF next = NoInput THEN inputs ELSE Tail(inputs)
    /\ controls' = IF wr.cur = NoInput THEN <<>> ELSE controls
    /\ UNCHANGED <<arb, conn, sockets, viewing, pty, fifo, applied, fx>>

\* All controls, and the next input if nothing is being written.
Take ==
    /\ wr.pc = "take"
    /\ controls # <<>> \/ inputs # <<>> \/ wr.cur # NoInput
    /\ LET next == IF wr.cur = NoInput /\ inputs # <<>> THEN Head(inputs) ELSE NoInput
       IN  /\ wr' = [pc |-> "serve", batch |-> controls,
                     cur |-> IF next.op = "write" THEN next ELSE wr.cur,
                     end |-> IF next.op = "end" THEN next ELSE NoInput]
           /\ inputs' = IF next = NoInput THEN inputs ELSE Tail(inputs)
    /\ controls' = <<>>
    /\ UNCHANGED <<arb, conn, sockets, viewing, pty, fifo, applied, fx>>

\* The control being served.
Served(op) == Serving /\ Unserved /\ Head(wr.batch).op = op
Now == Head(wr.batch)
Done == wr' = [wr EXCEPT !.batch = Tail(@)]

Answer(c, ans) == conn' = [conn EXCEPT ![c].ans = ans, ![c].epoch = IF ans = "granted" THEN arb'.epoch ELSE @]

ServeClaim ==
    /\ Served("claim") /\ Done
    /\ LET c == Now.c
       IN  \/ /\ arb.owned
              /\ Answer(c, Kind(arb.holder)) /\ UNCHANGED <<arb, fx>>
           \/ /\ ~arb.owned /\ arb.epoch = MaxEpoch
              /\ Answer(c, "exhausted") /\ UNCHANGED <<arb, fx>>
           \/ /\ ~arb.owned /\ arb.epoch < MaxEpoch
              /\ arb' = Own(c) /\ Answer(c, "granted")
              /\ fx' = fx \o IF Kind(c) = "Human" THEN <<[k |-> "human"]>> ELSE <<>>
    /\ UNCHANGED <<controls, inputs, sockets, viewing, pty, fifo, applied>>

\* hooks.retire: the superseded connection leaves the registry at once; a push is
\* flagged and its read side shut, a viewer gets a thread of its own.
Retire(c) ==
    IF c \notin reg.live THEN UNCHANGED <<reg, revoked, retire>>
    ELSE /\ reg' = [reg EXCEPT !.live = @ \ {c}]
         /\ IF Mode(c) = "push" THEN revoked' = revoked \cup {c} /\ UNCHANGED retire
            ELSE retire' = [retire EXCEPT ![c] = "shut"] /\ UNCHANGED revoked

ServeTakeover ==
    /\ Served("takeover") /\ Done
    /\ IF arb.epoch = MaxEpoch
       THEN Answer(Now.c, "exhausted") /\ UNCHANGED <<arb, fx, reg, revoked, retire>>
       ELSE /\ arb' = Own(Now.c) /\ Answer(Now.c, "granted")
            /\ fx' = Append(fx, [k |-> "human"])
            /\ IF arb.owned THEN Retire(arb.holder) ELSE UNCHANGED <<reg, revoked, retire>>
    /\ UNCHANGED <<controls, inputs, hung, shut, sink, view, chunks, pty, fifo, applied>>

ServeResize ==
    /\ Served("resize") /\ Done
    /\ applied' = IF Stale(Now.c, Now.e) THEN applied ELSE Append(applied, [what |-> "size", c |-> Now.c, e |-> Now.e])
    /\ UNCHANGED <<arb, controls, inputs, conn, sockets, viewing, pty, fifo, fx>>

\* The item is c's.
Belongs(i, c) == i # NoInput /\ i.c = c

\* The queue's partition: the items that are not c's.
Others(s, c) ==
    LET kept[n \in 0..Len(s)] ==
            IF n = 0 THEN <<>>
            ELSE IF Belongs(s[n], c) THEN kept[n - 1] ELSE Append(kept[n - 1], s[n])
    IN  kept[Len(s)]

\* Mutant: what the writer has taken is forgotten.
InHand_Queued == inputs

\* Everything queued, staged or in flight.
InHand == inputs \o <<wr.end, wr.cur>>

SumOf(f) == MapThenSumSet(LAMBDA i : f[i], DOMAIN f)
Tot(s, c) == SumOf([i \in DOMAIN s |-> IF Belongs(s[i], c) THEN s[i].tot ELSE 0])
Acc(s, c) == SumOf([i \in DOMAIN s |-> IF Belongs(s[i], c) THEN s[i].acc ELSE 0])

\* disconnect: release ahead of all input, cancel what the holder still has, and
\* report it once.  Its handler is not waiting for any of it.
ServeDisconnect ==
    /\ Served("disconnect")
    /\ LET c == Now.c
           bytes == Tot(InHand, c)
       IN  /\ arb' = AfterRelease(c, Now.e)
           /\ fx' = fx \o ReleaseTold(c, Now.e)
                       \o IF bytes > 0 THEN <<Revoked(c, Acc(InHand, c), bytes)>> ELSE <<>>
           /\ inputs' = Others(inputs, c)
           /\ wr' = [wr EXCEPT !.batch = Tail(@),
                               !.cur = IF Belongs(@, c) THEN NoInput ELSE @,
                               !.end = IF Belongs(@, c) THEN NoInput ELSE @]
    /\ UNCHANGED <<controls, conn, sockets, viewing, pty, fifo, applied>>

Idle == wr' = [pc |-> "take", batch |-> <<>>, cur |-> NoInput, end |-> NoInput]

\* The outcome, to a handler that still waits for it.
Tell(c, why, acc) ==
    conn' = IF conn[c].pc \in {"await", "poll", "ended"}
            THEN [conn EXCEPT ![c].out = [why |-> why, acc |-> acc]] ELSE conn

\* The end marker, which is served last and starts the loop again.
ServeEnd ==
    /\ Serving /\ ~Unserved /\ wr.end # NoInput
    /\ arb' = AfterRelease(wr.end.c, wr.end.e)
    /\ fx' = fx \o ReleaseTold(wr.end.c, wr.end.e)
    /\ Tell(wr.end.c, "ended", 0)
    /\ wr' = [wr EXCEPT !.pc = "take", !.end = NoInput]
    /\ UNCHANGED <<controls, inputs, sockets, viewing, pty, fifo, applied>>

Bytes(c, e, n) == [i \in 1..n |-> [what |-> "byte", c |-> c, e |-> e]]

\* write_step: authorize and attempt one write.
WriteStep ==
    /\ Serving /\ ~Unserved /\ wr.end = NoInput /\ wr.cur # NoInput
    /\ LET q == wr.cur
           left == q.tot - q.acc
       IN  \/ /\ Stale(q.c, q.e)
              /\ Tell(q.c, "revoked", q.acc) /\ Idle
              /\ fx' = Append(fx, Revoked(q.c, q.acc, q.tot))
              /\ UNCHANGED <<pty, applied>>
           \/ /\ ~Stale(q.c, q.e) /\ ~pty.open
              /\ Tell(q.c, "closed", q.acc) /\ Idle
              /\ UNCHANGED <<fx, pty, applied>>
           \/ /\ ~Stale(q.c, q.e) /\ pty.open
              /\ \E n \in (IF pty.room = 0 THEN {0} ELSE 1..pty.room) :
                    /\ n <= left
                    /\ applied' = applied \o Bytes(q.c, q.e, n)
                    /\ pty' = [pty EXCEPT !.room = @ - n]
                    /\ IF n = left THEN Tell(q.c, "accepted", q.tot) /\ Idle
                       ELSE /\ wr' = [wr EXCEPT !.pc = "take", !.cur.acc = @ + n]
                            /\ UNCHANGED conn
              /\ UNCHANGED fx
    /\ UNCHANGED <<arb, controls, inputs, sockets, viewing, fifo>>

NothingLeft ==
    /\ Serving /\ ~Unserved /\ wr.end = NoInput /\ wr.cur = NoInput
    /\ Idle
    /\ UNCHANGED <<arb, controls, inputs, conn, sockets, viewing, pty, fifo, applied, fx>>

WriterLoop ==
    \/ Take \/ ServeClaim \/ ServeTakeover \/ ServeResize \/ ServeDisconnect
    \/ ServeEnd \/ WriteStep \/ NothingLeft

(***************************************************************************)
(* The handlers                                                            *)
(***************************************************************************)
At(c, pc) == conn[c].pc = pc
Goto(c, pc) == conn' = [conn EXCEPT ![c].pc = pc]
OnSocket(c) == Mode(c) \in {"attach", "takeover", "push"}
Viewing(c) == Mode(c) \in {"attach", "takeover"}

\* The client is gone, as a write or a poll for hang-up shows.
Gone(c) == c \in hung \cup shut

PushControl(op, c) ==
    /\ Len(controls) < ControlCapacity
    /\ controls' = Append(controls, [op |-> op, c |-> c, e |-> conn[c].epoch])

PushInput(op, c, n) ==
    /\ Len(inputs) < InputCapacity
    /\ inputs' = Append(inputs, [op |-> op, c |-> c, e |-> conn[c].epoch, tot |-> n, acc |-> 0])

Slots == {c \in Conns : OnSocket(c) /\ conn[c].pc \notin {"new", "done"}}

\* The listener takes a connection while there is a slot; the forwarder takes one frame
\* after the other, and asks for control without registering.
Connect(c) ==
    /\ At(c, "new")
    /\ \/ OnSocket(c) /\ Goto(c, IF Cardinality(Slots) < MaxConnections THEN "hello" ELSE "done")
       \/ /\ Mode(c) = "fifo" /\ fifo
          /\ \A d \in Conns \ {c} : Mode(d) = "fifo" => conn[d].pc \in {"new", "done"}
          /\ Goto(c, "ask")
    /\ UNCHANGED <<authority, sockets, viewing, pty, fifo, applied, fx>>

\* Registered before it asks, unless the run has ended.  A hello that does not come
\* in time is refused.
Hello(c) ==
    /\ At(c, "hello")
    /\ \/ reg.closed /\ Goto(c, "done") /\ UNCHANGED reg
       \/ ~reg.closed /\ Goto(c, "ask") /\ reg' = [reg EXCEPT !.live = @ \cup {c}]
       \/ c \in hung /\ Goto(c, "done") /\ UNCHANGED reg
    /\ UNCHANGED <<authority, hung, shut, revoked, viewing, pty, fifo, applied, fx>>

Ask(c) ==
    /\ At(c, "ask")
    /\ PushControl(IF Mode(c) = "takeover" THEN "takeover" ELSE "claim", c)
    /\ conn' = [conn EXCEPT ![c].pc = "reply", ![c].ans = "none"]
    /\ UNCHANGED <<arb, inputs, wr, sockets, viewing, pty, fifo, applied, fx>>

\* A FIFO frame waits out another agent, and is drained if a human holds control.
Reply(c) ==
    /\ At(c, "reply") /\ conn[c].ans # "none"
    /\ LET granted == conn[c].ans = "granted"
       IN  \/ OnSocket(c) /\ granted /\ Goto(c, "accept") /\ UNCHANGED reg
           \/ /\ OnSocket(c) /\ ~granted /\ Goto(c, "done")
              /\ reg' = [reg EXCEPT !.live = @ \ {c}]
           \/ /\ ~OnSocket(c) /\ UNCHANGED reg
              /\ Goto(c, CASE granted -> "relay" [] conn[c].ans = "Agent" -> "ask" [] OTHER -> "drain")
    /\ UNCHANGED <<authority, hung, shut, revoked, viewing, pty, fifo, applied, fx>>

\* The grant is answered before the viewer is installed.
Accept(c) ==
    /\ At(c, "accept")
    /\ \/ ~Gone(c) /\ Goto(c, IF Viewing(c) THEN "check" ELSE "relay")
       \/ Gone(c) /\ Goto(c, IF Viewing(c) THEN "bye" ELSE "gone")
    /\ UNCHANGED <<authority, sockets, viewing, pty, fifo, applied, fx>>

\* Mutant: the registry is asked before the sink is locked.
CheckViewer_Unlocked(c) ==
    /\ At(c, "check")
    /\ Goto(c, IF c \in reg.live THEN "put" ELSE "relay")
    /\ UNCHANGED <<authority, sockets, viewing, pty, fifo, applied, fx>>

\* install_viewer: the registry is asked, and the viewer put, under the sink's lock.
CheckViewer(c) ==
    /\ At(c, "check") /\ sink.lock = None
    /\ IF c \in reg.live THEN Goto(c, "put") /\ sink' = [sink EXCEPT !.lock = c]
       ELSE Goto(c, "relay") /\ UNCHANGED sink
    /\ UNCHANGED <<authority, sockets, retire, view, chunks, pty, fifo, applied, fx>>

PutViewer(c) ==
    /\ At(c, "put") /\ Goto(c, "relay")
    /\ sink' = [viewer |-> c, lock |-> None]
    /\ UNCHANGED <<authority, sockets, retire, view, chunks, pty, fifo, applied, fx>>

Frame(c) == setup.frames[c][conn[c].next]
More(c) == conn[c].next <= Len(setup.frames[c])

\* A frame arrives: an input is queued, a viewer's resize applied, others ignored.
ReadFrame(c) ==
    /\ At(c, "relay") /\ More(c)
    /\ \/ Frame(c) > 0 /\ Goto(c, "queue")
       \/ Frame(c) = 0 /\ Viewing(c) /\ Goto(c, "resize")
       \/ Frame(c) = 0 /\ ~Viewing(c) /\ conn' = [conn EXCEPT ![c].next = @ + 1]
    /\ UNCHANGED <<authority, sockets, viewing, pty, fifo, applied, fx>>

\* Detach, or the end of the FIFO's input.
ReadEnd(c) ==
    /\ At(c, "relay") /\ ~More(c)
    /\ conn' = [conn EXCEPT ![c].pc = IF Viewing(c) THEN "bye" ELSE "end",
                            ![c].report = IF Mode(c) = "push"
                                          THEN [what |-> "written", acc |-> conn[c].wrote, left |-> 0] ELSE @]
    /\ UNCHANGED <<authority, sockets, viewing, pty, fifo, applied, fx>>

\* The next read fails; on the FIFO, that ends the forwarder.
ReadFails(c) ==
    /\ At(c, "relay") /\ (Gone(c) \/ c \in revoked)
    /\ \/ Viewing(c) /\ Goto(c, "bye") /\ UNCHANGED fifo
       \/ Mode(c) = "push" /\ c \notin revoked /\ Goto(c, "gone") /\ UNCHANGED fifo
       \/ /\ Mode(c) = "push" /\ c \in revoked
          /\ conn' = [conn EXCEPT ![c].pc = "stop",
                                  ![c].report = [what |-> "revoked", acc |-> conn[c].wrote, left |-> 0]]
          /\ UNCHANGED fifo
       \/ Mode(c) = "fifo" /\ Goto(c, "quit") /\ fifo' = FALSE
    /\ UNCHANGED <<authority, sockets, viewing, pty, applied, fx>>

\* A viewer does not wait for the outcome, nor for space once its client is gone.
QueueInput(c) ==
    /\ At(c, "queue")
    /\ \/ /\ PushInput("write", c, Frame(c))
          /\ conn' = [conn EXCEPT ![c].pc = IF Viewing(c) THEN "relay" ELSE "await",
                                  ![c].next = @ + 1, ![c].out = NoOutcome]
       \/ /\ Viewing(c) /\ Len(inputs) >= InputCapacity /\ Gone(c)
          /\ Goto(c, "bye") /\ UNCHANGED inputs
    /\ UNCHANGED <<arb, controls, wr, sockets, viewing, pty, fifo, applied, fx>>

QueueResize(c) ==
    /\ At(c, "resize") /\ PushControl("resize", c)
    /\ conn' = [conn EXCEPT ![c].pc = "relay", ![c].next = @ + 1]
    /\ UNCHANGED <<arb, inputs, wr, sockets, viewing, pty, fifo, applied, fx>>

\* The size of the frame last queued.
Size(c) == setup.frames[c][conn[c].next - 1]

\* Mutant: the part of the last frame that was written is not counted.
Stopped_Whole(c, what) ==
    conn' = [conn EXCEPT ![c].pc = "stop",
                         ![c].report = [what |-> what, acc |-> conn[c].wrote, left |-> Size(c)]]

Stopped(c, what) ==
    conn' = [conn EXCEPT ![c].pc = "stop",
                         ![c].report = [what |-> what, acc |-> conn[c].wrote + conn[c].out.acc,
                                        left |-> Size(c) - conn[c].out.acc]]

\* Mutant: a push waits for its outcome and nothing else.
Await_Blind(c) ==
    /\ At(c, "await")
    /\ LET why == conn[c].out.why
       IN  \/ /\ why = "accepted" /\ UNCHANGED fifo
              /\ conn' = [conn EXCEPT ![c].pc = "relay", ![c].wrote = @ + Size(c)]
           \/ Mode(c) = "push" /\ why = "revoked" /\ Stopped(c, "revoked") /\ UNCHANGED fifo
           \/ Mode(c) = "push" /\ why = "closed" /\ Stopped(c, "closed") /\ UNCHANGED fifo
           \/ Mode(c) = "fifo" /\ why = "revoked" /\ Goto(c, "drain") /\ UNCHANGED fifo
           \/ Mode(c) = "fifo" /\ why = "closed" /\ Goto(c, "quit") /\ fifo' = FALSE
    /\ UNCHANGED <<authority, sockets, viewing, pty, applied, fx>>

\* The outcome of the write it waited for; a push that is not revoked looks in between
\* whether its client hung up.  A FIFO frame goes on reading what it may not write; a
\* closed PTY ends the forwarder.
Await(c) ==
    /\ At(c, "await")
    /\ LET why == conn[c].out.why
       IN  \/ /\ why = "accepted" /\ UNCHANGED fifo
              /\ conn' = [conn EXCEPT ![c].pc = "relay", ![c].wrote = @ + Size(c)]
           \/ Mode(c) = "push" /\ why = "revoked" /\ Stopped(c, "revoked") /\ UNCHANGED fifo
           \/ Mode(c) = "push" /\ why = "closed" /\ Stopped(c, "closed") /\ UNCHANGED fifo
           \/ Mode(c) = "push" /\ why = "none" /\ c \notin revoked /\ Goto(c, "poll") /\ UNCHANGED fifo
           \/ Mode(c) = "fifo" /\ why = "revoked" /\ Goto(c, "drain") /\ UNCHANGED fifo
           \/ Mode(c) = "fifo" /\ why = "closed" /\ Goto(c, "quit") /\ fifo' = FALSE
    /\ UNCHANGED <<authority, sockets, viewing, pty, applied, fx>>

\* await_push_write, after it has found the push not revoked.
PollClient(c) ==
    /\ At(c, "poll") /\ Goto(c, IF Gone(c) THEN "gone" ELSE "await")
    /\ UNCHANGED <<authority, sockets, viewing, pty, fifo, applied, fx>>

\* The rest of a frame without control; its end marker releases nothing.
Drain(c) ==
    /\ At(c, "drain")
    /\ \/ Goto(c, IF conn[c].epoch = 0 THEN "done" ELSE "end") /\ UNCHANGED fifo
       \/ c \in hung /\ Goto(c, IF conn[c].epoch = 0 THEN "done" ELSE "quit") /\ fifo' = FALSE
    /\ UNCHANGED <<authority, sockets, viewing, pty, applied, fx>>

\* end_of_input_and_wait.
QueueEnd(c) ==
    /\ At(c, "end") /\ PushInput("end", c, 0)
    /\ conn' = [conn EXCEPT ![c].pc = "ended", ![c].out = NoOutcome]
    /\ UNCHANGED <<arb, controls, wr, sockets, viewing, pty, fifo, applied, fx>>

Ended(c) ==
    /\ At(c, "ended") /\ conn[c].out.why = "ended"
    /\ Goto(c, IF Mode(c) = "push" THEN "unreg" ELSE "done")
    /\ UNCHANGED <<authority, sockets, viewing, pty, fifo, applied, fx>>

\* A push that vanished leaves the registry, then gives up control.
VanishedPush(c) ==
    /\ At(c, "gone") /\ Goto(c, "quit")
    /\ reg' = [reg EXCEPT !.live = @ \ {c}] /\ shut' = shut \cup {c}
    /\ UNCHANGED <<authority, hung, revoked, viewing, pty, fifo, applied, fx>>

\* disconnect: by a push that stopped, one that is gone, or a viewer that ends.
Disconnect(c) ==
    /\ conn[c].pc \in {"stop", "quit", "bye"}
    /\ PushControl("disconnect", c)
    /\ shut' = IF At(c, "bye") THEN shut \cup {c} ELSE shut
    /\ Goto(c, IF At(c, "quit") THEN "done" ELSE "unreg")
    /\ UNCHANGED <<arb, inputs, wr, hung, revoked, reg, viewing, pty, fifo, applied, fx>>

Unregister(c) ==
    /\ At(c, "unreg") /\ Goto(c, IF Viewing(c) THEN "unsink" ELSE "done")
    /\ reg' = [reg EXCEPT !.live = @ \ {c}]
    /\ UNCHANGED <<authority, hung, shut, revoked, viewing, pty, fifo, applied, fx>>

\* Only one's own viewer is taken out of the sink.
ClearViewer(c) ==
    /\ sink.lock = None
    /\ sink' = IF sink.viewer = c THEN [sink EXCEPT !.viewer = None] ELSE sink

Unsink(c) ==
    /\ At(c, "unsink") /\ Goto(c, "done") /\ ClearViewer(c)
    /\ view' = [view EXCEPT ![c].closed = TRUE]
    /\ UNCHANGED <<authority, sockets, retire, chunks, pty, fifo, applied, fx>>

HandlerStep(c) ==
    \/ Hello(c) \/ Ask(c) \/ Reply(c) \/ Accept(c) \/ CheckViewer(c) \/ PutViewer(c)
    \/ ReadFails(c) \/ QueueInput(c) \/ QueueResize(c) \/ Await(c) \/ PollClient(c) \/ Drain(c)
    \/ QueueEnd(c) \/ Ended(c) \/ VanishedPush(c) \/ Disconnect(c) \/ Unregister(c) \/ Unsink(c)

(***************************************************************************)
(* Retirement, output, the outside                                         *)
(***************************************************************************)
\* retire_connection: shut the socket down, then take the viewer out.
RetireShuts(c) ==
    /\ retire[c] = "shut" /\ retire' = [retire EXCEPT ![c] = "clear"]
    /\ shut' = shut \cup {c}
    /\ UNCHANGED <<authority, conn, hung, revoked, reg, sink, view, chunks, pty, fifo, applied, fx>>

RetireClears(c) ==
    /\ retire[c] = "clear" /\ retire' = [retire EXCEPT ![c] = "done"]
    /\ ClearViewer(c)
    /\ view' = [view EXCEPT ![c].closed = @ \/ sink.viewer = c]
    /\ UNCHANGED <<authority, conn, sockets, chunks, pty, fifo, applied, fx>>

\* ViewerQueue::offer returns false.
Refuses(v) == view[v].closed \/ view[v].n = ViewerCapacity

\* capture_stream_with_tee: offer a chunk; a viewer that is closed or a full queue
\* behind is shut down and dropped.
Tee ==
    /\ chunks < setup.output /\ chunks' = chunks + 1
    /\ sink.lock = None
    /\ LET v == sink.viewer
       IN  \/ v = None /\ UNCHANGED <<sink, view, shut>>
           \/ /\ v # None /\ ~Refuses(v)
              /\ view' = [view EXCEPT ![v].n = @ + 1] /\ UNCHANGED <<sink, shut>>
           \/ /\ v # None /\ Refuses(v)
              /\ view' = [view EXCEPT ![v] = [n |-> 0, closed |-> TRUE]]
              /\ sink' = [sink EXCEPT !.viewer = None] /\ shut' = shut \cup {v}
    /\ UNCHANGED <<authority, conn, hung, revoked, reg, retire, pty, fifo, applied, fx>>

\* run_viewer_sender: one chunk to the client, who may be gone.
SendChunk(c) ==
    /\ view[c].n > 0 /\ ~view[c].closed
    /\ view' = IF Gone(c) THEN [view EXCEPT ![c].closed = TRUE] ELSE [view EXCEPT ![c].n = @ - 1]
    /\ UNCHANGED <<authority, conn, sockets, sink, retire, chunks, pty, fifo, applied, fx>>

Vanish(c) ==
    /\ c \in setup.vanish \ hung /\ conn[c].pc \notin {"new", "done"}
    /\ hung' = hung \cup {c}
    /\ UNCHANGED <<authority, conn, shut, revoked, reg, viewing, pty, fifo, applied, fx>>

ChildReads ==
    /\ pty.open /\ pty.room < PtyRoom
    /\ pty' = [pty EXCEPT !.room = PtyRoom]
    /\ UNCHANGED <<authority, conn, sockets, viewing, fifo, applied, fx>>

ChildExits ==
    /\ setup.ends /\ pty.open
    /\ pty' = [pty EXCEPT !.open = FALSE]
    /\ UNCHANGED <<authority, conn, sockets, viewing, fifo, applied, fx>>

\* ConnectionRegistry::close, when the run has ended.
CloseRegistry ==
    /\ ~pty.open /\ ~reg.closed
    /\ reg' = [live |-> {}, closed |-> TRUE]
    /\ revoked' = revoked \cup {c \in reg.live : Mode(c) = "push"}
    /\ shut' = shut \cup reg.live
    /\ UNCHANGED <<authority, conn, hung, viewing, pty, fifo, applied, fx>>

(***************************************************************************)
(* The specification                                                       *)
(***************************************************************************)
Next ==
    /\ \/ WriterLoop
       \/ \E c \in Conns :
             \/ Connect(c) \/ HandlerStep(c) \/ ReadFrame(c) \/ ReadEnd(c)
             \/ RetireShuts(c) \/ RetireClears(c) \/ SendChunk(c) \/ Vanish(c)
       \/ Tee \/ ChildReads \/ ChildExits \/ CloseRegistry
    /\ UNCHANGED setup

\* Threads run.  Nothing is assumed of clients, of the child or of output.
Fairness ==
    /\ WF_vars(WriterLoop /\ UNCHANGED setup)
    /\ \A c \in Conns : WF_vars(HandlerStep(c) /\ UNCHANGED setup)

Spec == Init /\ [][Next]_vars /\ Fairness

(***************************************************************************)
(* Properties                                                              *)
(***************************************************************************)
Written(c) == Cardinality({i \in DOMAIN applied : applied[i].what = "byte" /\ applied[i].c = c})

Queued(c) ==
    SumOf([i \in {k \in DOMAIN setup.frames[c] : k < conn[c].next} |-> setup.frames[c][i]])

\* A superseded controller is silent: once a connection knows that it was granted
\* control, no byte and no size of an earlier epoch reaches the PTY, however much the
\* earlier controller had queued or half written.
SupersededIsSilent ==
    [][\A i \in DOMAIN applied' \ DOMAIN applied :
          \A c \in Conns : conn[c].epoch <= applied'[i].e]_vars

\* A push reports exactly what was written, what it sent beyond that, and that all was
\* written only if all was (handle_push_connection).
ReportIsExact ==
    \A c \in Conns :
        At(c, "done") /\ conn[c].report # NoReport =>
            /\ conn[c].report.acc = Written(c)
            /\ conn[c].report.acc + conn[c].report.left = Queued(c)
            /\ conn[c].report.what = "written" =>
                  Written(c) = SumOf(setup.frames[c])

\* A stale connection never takes its successor's viewer out, nor puts its own over it.
SuccessorKeepsViewer ==
    [][LET v == sink.viewer w == sink'.viewer
       IN  v # None /\ w # v =>
             \/ w # None /\ conn[w].epoch > conn[v].epoch
             \/ w = None /\ (v \in shut' \/ conn[v].pc = "unsink")]_vars

\* The effects sent tell who holds the PTY: the last one about control says human
\* exactly when a human does.
TellsHuman ==
    \E i \in DOMAIN fx : fx[i].k = "human" /\ \A j \in DOMAIN fx : j > i => fx[j].k = "revoked"
ControlTold == TellsHuman <=> (arb.owned /\ Kind(arb.holder) = "Human")

\* Every byte queued is written, still waiting, or reported as revoked, exactly once,
\* as long as the PTY is open.
Pending(c) == Tot(Append(inputs, wr.cur), c) - Acc(Append(inputs, wr.cur), c)
Lost(c) ==
    SumOf([i \in DOMAIN fx |-> IF fx[i].k = "revoked" /\ fx[i].c = c THEN fx[i].tot - fx[i].acc ELSE 0])
BytesAccounted ==
    pty.open => \A c \in Conns : Queued(c) = Written(c) + Pending(c) + Lost(c)

\* No byte is lost track of, and whoever sent it is told where it went.
InputAccounted == TypeOK /\ BytesAccounted /\ ReportIsExact

\* A takeover is answered whatever the child does: a full PTY or a long queue never
\* delays it.
TakeoverAnswered ==
    \A c \in Conns : (Mode(c) = "takeover" /\ At(c, "ask")) ~> conn[c].ans # "none"

\* A client of the socket that vanished does not keep control, even if the child never
\* reads what it typed.
VanishedReleases ==
    \A c \in Conns : (OnSocket(c) /\ c \in hung) ~> ~(arb.owned /\ arb.holder = c)

\* Control of the PTY is never stuck: neither with a child that does not read, nor
\* with a client that is gone.
ControlNeverStuck == TakeoverAnswered /\ VanishedReleases

=============================================================================
