--------------------------- MODULE ControlProofs ----------------------------
(***************************************************************************)
(* Proofs about who may type into a PTY, and about what the log is told of *)
(* it, for any connections, capacities and frames.                         *)
(*                                                                         *)
(* Sound is inductive. Its parts say what the writer's loop holds at each  *)
(* point (WriterShape), how epochs tell who was granted control last       *)
(* (EpochsOrdered), which requests are on their way and from whom          *)
(* (ControlsKnown), where each connection may be and what its outcome and  *)
(* its report can be about (Whereabouts, OutcomeFits, Unreported), and who *)
(* still waits for what is queued, one item at a time (ItemsKnown,         *)
(* OneAtATime). Beside it, LiveControls and SinkHeld say which viewer may  *)
(* be installed.                                                           *)
(***************************************************************************)
EXTENDS PtyInput, DataLemmas

(***************************************************************************)
(* The queue's partition, and what it weighs                               *)
(***************************************************************************)
Item == Inputs \cup {NoInput}

\* What the partition keeps of the first n items, for each n.
Keeps(kept, s, c, m) ==
    kept = [n \in 0..m |->
               IF n = 0 THEN <<>>
               ELSE IF Belongs(s[n], c) THEN kept[n - 1] ELSE Append(kept[n - 1], s[n])]

LEMMA KeepsExist ==
    ASSUME NEW s, NEW c, NEW m \in Nat
    PROVE  \E kept : Keeps(kept, s, c, m)
<1> DEFINE T == {n \in Nat : \E kept : Keeps(kept, s, c, n)}
<1>1. 0 \in T
    <2>1. Keeps([n \in 0..0 |-> <<>>], s, c, 0)
        BY DEF Keeps
    <2> QED
        BY <2>1
<1>2. ASSUME NEW n \in Nat, n \in T
      PROVE  n + 1 \in T
    <2>1. PICK g : Keeps(g, s, c, n)
        BY <1>2
    <2> DEFINE h == [i \in 0..(n + 1) |->
                        IF i \in 0..n THEN g[i]
                        ELSE IF Belongs(s[i], c) THEN g[i - 1] ELSE Append(g[i - 1], s[i])]
               k == [i \in 0..(n + 1) |->
                        IF i = 0 THEN <<>>
                        ELSE IF Belongs(s[i], c) THEN h[i - 1] ELSE Append(h[i - 1], s[i])]
    <2>2. ASSUME NEW i \in 0..(n + 1)
          PROVE  h[i] = k[i]
        <3>1. CASE i = n + 1
            <4>1. h[i - 1] = g[i - 1] /\ i # 0 /\ i \notin 0..n
                BY <3>1
            <4> QED
                BY <4>1
        <3>2. CASE i # n + 1
            <4>1. i \in 0..n /\ h[i] = g[i] /\ (i # 0 => i - 1 \in 0..(n + 1) /\ h[i - 1] = g[i - 1])
                BY <3>2
            <4>2. g[i] = IF i = 0 THEN <<>>
                         ELSE IF Belongs(s[i], c) THEN g[i - 1] ELSE Append(g[i - 1], s[i])
                BY <2>1, <4>1 DEF Keeps
            <4> QED
                BY <4>1, <4>2
        <3> QED
            BY <3>1, <3>2
    <2>3. h = k
        BY <2>2
    <2>4. Keeps(h, s, c, n + 1)
        BY <2>3 DEF Keeps
    <2> HIDE DEF h
    <2>5. \E kept : Keeps(kept, s, c, n + 1)
        BY <2>4
    <2> QED
        BY <2>5
<1> HIDE DEF T
<1>3. Nat \subseteq T
    BY <1>1, <1>2, NatSetInduction
<1> QED
    BY <1>3 DEF T

LEMMA OthersLookup ==
    ASSUME NEW s, NEW c
    PROVE  Others(s, c) = (CHOOSE kept : Keeps(kept, s, c, Len(s)))[Len(s)]
BY DEF Others, Keeps

\* What the items weigh that are not c's.
Without(w, c) == [x \in Item |-> IF Belongs(x, c) THEN 0 ELSE w[x]]

\* t is what is left of s without c's items: each was in s, and they weigh what the
\* others weighed.
WeighsAs(t, s, c) == \A w \in [Item -> Nat] : Along(w, t) = Along(Without(w, c), s)
Left(t, s, c) ==
    /\ t \in Seq(Item) /\ Len(t) <= Len(s)
    /\ \A j \in DOMAIN t : ~Belongs(t[j], c) /\ \E i \in DOMAIN s : t[j] = s[i]
    /\ WeighsAs(t, s, c)

LEMMA LeftSkip ==
    ASSUME NEW s \in Seq(Item), NEW t \in Seq(Item), NEW c, NEW x \in Item, Left(t, s, c), Belongs(x, c)
    PROVE  Left(t, Append(s, x), c)
<1>1. Len(Append(s, x)) = Len(s) + 1 /\ \A i \in DOMAIN s : i \in DOMAIN Append(s, x) /\ Append(s, x)[i] = s[i]
    OBVIOUS
<1>2. WeighsAs(t, Append(s, x), c)
    <2> SUFFICES ASSUME NEW w \in [Item -> Nat]
                 PROVE  Along(w, t) = Along(Without(w, c), Append(s, x))
        BY DEF WeighsAs
    <2>1. Without(w, c) \in [Item -> Nat] /\ Without(w, c)[x] = 0
        BY DEF Without
    <2>2. Along(w, t) = Along(Without(w, c), s)
        BY DEF Left, WeighsAs
    <2>3. Along(Without(w, c), Append(s, x)) = Along(Without(w, c), s) + 0
        BY <2>1, AlongAppend
    <2>4. Along(w, t) \in Nat
        BY AlongType
    <2> QED
        BY <2>2, <2>3, <2>4
<1> QED
    BY <1>1, <1>2 DEF Left

LEMMA LeftKeep ==
    ASSUME NEW s \in Seq(Item), NEW t \in Seq(Item), NEW c, NEW x \in Item, Left(t, s, c), ~Belongs(x, c)
    PROVE  Left(Append(t, x), Append(s, x), c)
<1>1. /\ Len(Append(s, x)) = Len(s) + 1 /\ Len(Append(t, x)) = Len(t) + 1 /\ Append(t, x) \in Seq(Item)
      /\ \A i \in DOMAIN s : i \in DOMAIN Append(s, x) /\ Append(s, x)[i] = s[i]
      /\ Len(s) + 1 \in DOMAIN Append(s, x) /\ Append(s, x)[Len(s) + 1] = x
      /\ \A j \in DOMAIN Append(t, x) : (j \in DOMAIN t /\ Append(t, x)[j] = t[j]) \/ Append(t, x)[j] = x
    OBVIOUS
<1>2. ASSUME NEW j \in DOMAIN Append(t, x)
      PROVE  ~Belongs(Append(t, x)[j], c) /\ \E i \in DOMAIN Append(s, x) : Append(t, x)[j] = Append(s, x)[i]
    <2>1. CASE j \in DOMAIN t /\ Append(t, x)[j] = t[j]
        <3>1. PICK i \in DOMAIN s : t[j] = s[i]
            BY <2>1 DEF Left
        <3> QED
            BY <1>1, <2>1, <3>1 DEF Left
    <2>2. CASE Append(t, x)[j] = x
        BY <1>1, <2>2
    <2> QED
        BY <1>1, <2>1, <2>2
<1>3. WeighsAs(Append(t, x), Append(s, x), c)
    <2> SUFFICES ASSUME NEW w \in [Item -> Nat]
                 PROVE  Along(w, Append(t, x)) = Along(Without(w, c), Append(s, x))
        BY DEF WeighsAs
    <2>1. Without(w, c) \in [Item -> Nat] /\ Without(w, c)[x] = w[x]
        BY DEF Without
    <2>2. Along(w, t) = Along(Without(w, c), s)
        BY DEF Left, WeighsAs
    <2>3. Along(Without(w, c), Append(s, x)) = Along(Without(w, c), s) + w[x]
        BY <2>1, AlongAppend
    <2>4. Along(w, Append(t, x)) = Along(w, t) + w[x]
        BY AlongAppend
    <2> QED
        BY <2>2, <2>3, <2>4
<1> QED
    BY <1>1, <1>2, <1>3 DEF Left

\* The queue's partition leaves what is not c's, and nothing else.
LEMMA OthersLeft ==
    ASSUME NEW s \in Seq(Item), NEW c
    PROVE  Left(Others(s, c), s, c)
<1>0. Len(s) \in Nat /\ DOMAIN s = 1..Len(s) /\ \A i \in 1..Len(s) : s[i] \in Item
    OBVIOUS
<1>1. PICK g : g = (CHOOSE kept : Keeps(kept, s, c, Len(s))) /\ Keeps(g, s, c, Len(s))
    BY <1>0, KeepsExist
<1>2. \A n \in 0..Len(s) :
         g[n] = IF n = 0 THEN <<>>
                ELSE IF Belongs(s[n], c) THEN g[n - 1] ELSE Append(g[n - 1], s[n])
    BY <1>1 DEF Keeps
<1> DEFINE T == {n \in Nat : n <= Len(s) => Left(g[n], SubSeq(s, 1, n), c)}
<1>3. 0 \in T
    <2>1. g[0] = <<>> /\ SubSeq(s, 1, 0) = <<>>
        BY <1>0, <1>2, SubSeqEmpty
    <2>2. WeighsAs(<<>>, <<>>, c)
        BY AlongEmpty DEF WeighsAs
    <2>3. Left(<<>>, <<>>, c)
        BY <2>2, EmptySeq DEF Left
    <2> QED
        BY <2>1, <2>3
<1>4. ASSUME NEW n \in Nat, n \in T
      PROVE  n + 1 \in T
    <2>1. ASSUME n + 1 <= Len(s)
          PROVE  Left(g[n + 1], SubSeq(s, 1, n + 1), c)
        <3>1. n + 1 \in 0..Len(s) /\ n + 1 # 0 /\ (n + 1) - 1 = n /\ n + 1 \in 1..Len(s) /\ n <= Len(s)
            BY <1>0, <2>1
        <3>2. PICK x \in Item : x = s[n + 1]
            BY <1>0, <3>1
        <3>3. g[n + 1] = IF Belongs(x, c) THEN g[n] ELSE Append(g[n], x)
            BY <1>2, <3>1, <3>2
        <3>4. SubSeq(s, 1, n) \in Seq(Item) /\ SubSeq(s, 1, n + 1) = Append(SubSeq(s, 1, n), x)
            BY <1>0, <3>1, <3>2
        <3>5. Left(g[n], SubSeq(s, 1, n), c) /\ g[n] \in Seq(Item)
            BY <1>4, <3>1 DEF Left
        <3> QED
            BY <3>2, <3>3, <3>4, <3>5, LeftSkip, LeftKeep
    <2> QED
        BY <2>1
<1> HIDE DEF T
<1>5. Nat \subseteq T
    BY <1>3, <1>4, NatSetInduction
<1>6. Left(g[Len(s)], SubSeq(s, 1, Len(s)), c)
    BY <1>0, <1>5 DEF T
<1>7. SubSeq(s, 1, Len(s)) = s
    BY SubSeqFull
<1> QED
    BY <1>1, <1>6, <1>7, OthersLookup

(***************************************************************************)
(* Types                                                                   *)
(***************************************************************************)
Handlers == [pc : Pcs, ans : {"none", "granted", "Agent", "Human", "exhausted"},
             epoch : 0..MaxEpoch, next : Nat, wrote : Nat,
             out : Accepted \cup {NoOutcome}, report : Reports \cup {NoReport}]
Writers == [pc : {"take", "serve"}, batch : Seq(Controls), cur : Item, end : Item]

AuthorityTyped ==
    /\ arb \in [owned : BOOLEAN, epoch : 0..MaxEpoch, holder : Conns \cup {None}]
    /\ controls \in Seq(Controls) /\ Len(controls) <= ControlCapacity
    /\ inputs \in Seq(Inputs) /\ Len(inputs) <= InputCapacity
    /\ wr \in Writers
ConnsTyped == setup \in Setups /\ conn \in [Conns -> Handlers]
SocketsTyped ==
    /\ hung \subseteq Conns /\ shut \subseteq Conns /\ revoked \subseteq Conns
    /\ reg \in [live : SUBSET Conns, closed : BOOLEAN]
ViewingTyped ==
    /\ sink \in [viewer : Conns \cup {None}, lock : Conns \cup {None}]
    /\ retire \in [Conns -> {"no", "shut", "clear", "done"}]
    /\ view \in [Conns -> [n : 0..ViewerCapacity, closed : BOOLEAN]]
    /\ chunks \in 0..setup.output
OutputTyped ==
    /\ pty \in [room : 0..PtyRoom, open : BOOLEAN] /\ fifo \in BOOLEAN
    /\ applied \in Seq([what : {"byte", "size"}, c : Conns, e : Nat]) /\ fx \in Seq(Effects)

LEMMA TypeParts ==
    TypeOK <=> AuthorityTyped /\ ConnsTyped /\ SocketsTyped /\ ViewingTyped /\ OutputTyped
BY DEF TypeOK, AuthorityTyped, ConnsTyped, SocketsTyped, ViewingTyped, OutputTyped, Handlers, Writers, Item

LEMMA SetupTyped ==
    ASSUME setup \in Setups
    PROVE  /\ setup.mode \in [Conns -> Modes] /\ setup.frames \in [Conns -> Seq(Nat)]
           /\ setup.output \in Nat /\ setup.past \in 0..MaxEpoch /\ setup.vanish \subseteq Conns
BY SetupsAssumption

(***************************************************************************)
(* What a handler does, and what the outside does                          *)
(***************************************************************************)
HandlerMoves(c) == Connect(c) \/ HandlerStep(c) \/ ReadFrame(c) \/ ReadEnd(c)
Outside ==
    \/ \E c \in Conns : RetireShuts(c) \/ RetireClears(c) \/ SendChunk(c) \/ Vanish(c)
    \/ Tee \/ ChildReads \/ ChildExits \/ CloseRegistry

LEMMA StepKinds ==
    ASSUME Next
    PROVE  /\ setup' = setup
           /\ WriterLoop \/ (\E c \in Conns : HandlerMoves(c)) \/ Outside
BY DEF Next, HandlerMoves, Outside

\* What a handler may change of its own state: never what it was granted.
Moved(c) ==
    /\ conn' = [conn EXCEPT ![c] = conn'[c]] /\ conn'[c].epoch = conn[c].epoch
    /\ conn'[c].ans # conn[c].ans => At(c, "ask") /\ conn'[c].ans = "none"

LEMMA HandlerFrame ==
    ASSUME NEW c \in Conns, ConnsTyped, HandlerMoves(c)
    PROVE  UNCHANGED <<arb, wr, retire, chunks, pty, applied, fx>>
BY DEF HandlerMoves, HandlerStep, Connect, Hello, Ask, Reply, Accept, CheckViewer, PutViewer,
       ReadFails, QueueInput, QueueResize, Await, PollClient, Drain, QueueEnd, Ended, VanishedPush,
       Disconnect, Unregister, Unsink, ReadFrame, ReadEnd, authority, sockets, viewing

LEMMA OutsideFrame ==
    ASSUME Outside
    PROVE  UNCHANGED <<arb, controls, inputs, wr, conn, fifo, applied, fx>>
BY DEF Outside, RetireShuts, RetireClears, SendChunk, Vanish, Tee, ChildReads, ChildExits,
       CloseRegistry, authority, sockets, viewing

(***************************************************************************)
(* The inductive invariant                                                 *)
(***************************************************************************)
\* The writer's loop begins with nothing staged; it stages an end marker or a request.
WriterShape ==
    /\ wr.pc = "take" => wr.batch = <<>> /\ wr.end = NoInput
    /\ wr.cur # NoInput => wr.cur.op = "write"
    /\ wr.end # NoInput => wr.end.op = "end" /\ wr.cur = NoInput

\* No two connections were granted control in the same epoch, and the owner was granted
\* it in the current one.
EpochsOrdered ==
    /\ \A c \in Conns : conn[c].epoch <= arb.epoch
    /\ arb.owned => arb.holder \in Conns /\ conn[arb.holder].epoch = arb.epoch /\ arb.epoch > 0
    /\ \A c, d \in Conns : c # d /\ conn[c].epoch = conn[d].epoch => conn[c].epoch = 0

\* Whoever asks is waiting for the answer, and asks once; whoever disconnects is leaving.
Asks(k) == k.op \in {"claim", "takeover"}
ControlKnown(k) ==
    /\ Asks(k) => /\ At(k.c, "reply") /\ conn[k.c].ans = "none"
                  /\ k.op = "takeover" <=> Mode(k.c) = "takeover"
    /\ k.op = "disconnect" => conn[k.c].pc \in {"unreg", "unsink", "done"}
Asked == wr.batch \o controls
ControlsKnown ==
    /\ \A i \in DOMAIN Asked : ControlKnown(Asked[i])
    /\ \A i, j \in DOMAIN Asked :
          Asks(Asked[i]) /\ Asks(Asked[j]) /\ Asked[i].c = Asked[j].c => i = j

\* Where each kind of connection may be.
Whereabouts(c) ==
    /\ Mode(c) = "absent" => At(c, "new")
    /\ conn[c].pc \in {"check", "put", "resize", "bye", "unsink"} => Viewing(c)
    /\ conn[c].pc \in {"hello", "accept", "unreg"} => OnSocket(c)
    /\ conn[c].pc \in {"await", "poll", "end", "ended", "drain", "stop", "gone", "quit"} =>
          Mode(c) \in {"push", "fifo"}
    /\ conn[c].pc \in {"stop", "gone", "poll"} => Mode(c) = "push"
    /\ At(c, "drain") => Mode(c) = "fifo"
    /\ At(c, "accept") => conn[c].ans = "granted"
    /\ conn[c].next \in 1..(Len(setup.frames[c]) + 1)
    /\ At(c, "queue") => More(c) /\ Frame(c) > 0
    /\ At(c, "resize") => More(c) /\ Frame(c) = 0
    /\ conn[c].pc \in {"await", "poll"} => conn[c].next > 1

\* The outcome that a handler waits for is about the frame it queued last.
OutcomeFits(c) ==
    conn[c].pc \in {"await", "poll"} /\ conn[c].out # NoOutcome =>
        /\ conn[c].out.why \in {"accepted", "revoked", "closed"} /\ conn[c].out.acc <= Size(c)
        /\ conn[c].out.why = "accepted" => conn[c].out.acc = Size(c)

\* Only a push reports, and only once it reads no more.
Unreported(c) ==
    conn[c].report # NoReport =>
        Mode(c) = "push" /\ conn[c].pc \in {"stop", "end", "ended", "unreg", "done"}

\* What is queued, staged or being written: a request is not yet done; its handler waits
\* for it, unless it is a viewer's or its push has vanished.
Items == {inputs[i] : i \in DOMAIN inputs} \cup ({wr.cur, wr.end} \ {NoInput})
ItemKnown(x) ==
    /\ x.op = "write" => x.acc < x.tot
    /\ x.op = "end" => /\ x.tot = 0 /\ x.acc = 0
                       /\ ~Viewing(x.c) /\ At(x.c, "ended") /\ conn[x.c].out = NoOutcome
    /\ x.op = "write" /\ ~Viewing(x.c) =>
          /\ conn[x.c].pc \in {"await", "poll", "gone", "quit", "done"}
          /\ conn[x.c].report = NoReport
          /\ conn[x.c].pc \in {"await", "poll"} => conn[x.c].out = NoOutcome /\ x.tot = Size(x.c)
ItemsKnown == \A x \in Items : ItemKnown(x)

\* Who waits for each of its requests has one at a time.
One(c) == [x \in Item |-> IF Belongs(x, c) THEN 1 ELSE 0]
Held(w) == Along(w, inputs) + w[wr.end] + w[wr.cur]
OneAtATime == \A c \in Conns : ~Viewing(c) => Held(One(c)) <= 1

Sound ==
    /\ TypeOK /\ WriterShape /\ EpochsOrdered /\ ControlsKnown
    /\ \A c \in Conns : Whereabouts(c) /\ OutcomeFits(c) /\ Unreported(c)
    /\ ItemsKnown /\ OneAtATime

(***************************************************************************)
(* Each handler's step moves its own connection                            *)
(***************************************************************************)
LEMMA FramesTyped ==
    ASSUME NEW c \in Conns, ConnsTyped
    PROVE  /\ setup.frames[c] \in Seq(Nat) /\ Len(setup.frames[c]) \in Nat
           /\ conn[c] \in Handlers /\ conn[c].next \in Nat /\ conn[c].wrote \in Nat /\ Mode(c) \in Modes
           /\ More(c) /\ conn[c].next > 0 => Frame(c) \in Nat
           /\ Whereabouts(c) /\ conn[c].next > 1 => Size(c) \in Nat
<1>1. setup.frames[c] \in Seq(Nat) /\ setup.mode[c] \in Modes
    BY SetupTyped DEF ConnsTyped
<1>2. conn[c] \in Handlers
    BY DEF ConnsTyped
<1>3. conn[c].next \in Nat /\ conn[c].wrote \in Nat
    BY <1>2 DEF Handlers
<1>4. /\ Len(setup.frames[c]) \in Nat
      /\ \A i \in Nat : i > 0 /\ i <= Len(setup.frames[c]) => setup.frames[c][i] \in Nat
    BY <1>1
<1>5. More(c) /\ conn[c].next > 0 => Frame(c) \in Nat
    BY <1>3, <1>4 DEF More, Frame
<1>6. Whereabouts(c) => conn[c].next \in 1..(Len(setup.frames[c]) + 1)
    BY DEF Whereabouts
<1>7. Whereabouts(c) /\ conn[c].next > 1 => Size(c) \in Nat
    <2> SUFFICES ASSUME conn[c].next \in 1..(Len(setup.frames[c]) + 1), conn[c].next > 1
                 PROVE  Size(c) \in Nat
        BY <1>6
    <2>1. conn[c].next - 1 \in Nat /\ conn[c].next - 1 > 0 /\ conn[c].next - 1 <= Len(setup.frames[c])
        BY <1>4
    <2> QED
        BY <1>4, <2>1 DEF Size
<1> QED
    BY <1>1, <1>2, <1>3, <1>4, <1>5, <1>7 DEF Mode

LEMMA HandlerMoved ==
    ASSUME NEW c \in Conns, ConnsTyped, \A d \in Conns : Whereabouts(d) /\ OutcomeFits(d), HandlerMoves(c)
    PROVE  Moved(c) /\ conn'[c] \in Handlers
<1> USE DEF Moved, At, Goto
<1>0. /\ conn \in [Conns -> Handlers] /\ conn[c] \in Handlers /\ conn[c].next \in Nat /\ conn[c].wrote \in Nat
    BY FramesTyped DEF ConnsTyped
<1>1. CASE Connect(c)
    BY <1>0, <1>1 DEF Connect, Handlers, Pcs
<1>2. CASE Hello(c)
    BY <1>0, <1>2 DEF Hello, Handlers, Pcs
<1>3. CASE Ask(c)
    BY <1>0, <1>3 DEF Ask, Handlers, Pcs
<1>4. CASE Reply(c)
    BY <1>0, <1>4 DEF Reply, Handlers, Pcs
<1>5. CASE Accept(c)
    BY <1>0, <1>5 DEF Accept, Handlers, Pcs
<1>6. CASE CheckViewer(c)
    BY <1>0, <1>6 DEF CheckViewer, Handlers, Pcs
<1>7. CASE PutViewer(c)
    BY <1>0, <1>7 DEF PutViewer, Handlers, Pcs
<1>8. CASE ReadFails(c)
    BY <1>0, <1>8 DEF ReadFails, Handlers, Pcs, Reports
<1>9. CASE QueueInput(c)
    BY <1>0, <1>9 DEF QueueInput, Handlers, Pcs
<1>10. CASE QueueResize(c)
    BY <1>0, <1>10 DEF QueueResize, Handlers, Pcs
<1>12. CASE PollClient(c)
    BY <1>0, <1>12 DEF PollClient, Handlers, Pcs
<1>13. CASE Drain(c)
    BY <1>0, <1>13 DEF Drain, Handlers, Pcs
<1>14. CASE QueueEnd(c)
    BY <1>0, <1>14 DEF QueueEnd, Handlers, Pcs
<1>15. CASE Ended(c)
    BY <1>0, <1>15 DEF Ended, Handlers, Pcs
<1>16. CASE VanishedPush(c)
    BY <1>0, <1>16 DEF VanishedPush, Handlers, Pcs
<1>17. CASE Disconnect(c)
    BY <1>0, <1>17 DEF Disconnect, Handlers, Pcs
<1>18. CASE Unregister(c)
    BY <1>0, <1>18 DEF Unregister, Handlers, Pcs
<1>19. CASE Unsink(c)
    BY <1>0, <1>19 DEF Unsink, Handlers, Pcs
<1>20. CASE ReadFrame(c)
    BY <1>0, <1>20 DEF ReadFrame, Handlers, Pcs
<1>21. CASE ReadEnd(c)
    BY <1>0, <1>21 DEF ReadEnd, Handlers, Pcs, Reports
<1>11. CASE Await(c)
    <2>1. /\ Size(c) \in Nat /\ conn[c].out \in Accepted \cup {NoOutcome}
          /\ conn[c].out # NoOutcome => conn[c].out.acc <= Size(c)
        BY <1>0, <1>11, FramesTyped DEF Await, Whereabouts, OutcomeFits, Handlers
    <2>2. conn[c].out.why \in {"revoked", "closed"} =>
             conn[c].out.acc \in Nat /\ Size(c) - conn[c].out.acc \in Nat
        BY <2>1 DEF Accepted, NoOutcome
    <2> QED
        BY <1>0, <1>11, <2>1, <2>2 DEF Await, Stopped, Handlers, Pcs, Reports
<1> QED
    BY <1>1, <1>2, <1>3, <1>4, <1>5, <1>6, <1>7, <1>8, <1>9, <1>10, <1>11, <1>12, <1>13, <1>14,
       <1>15, <1>16, <1>17, <1>18, <1>19, <1>20, <1>21 DEF HandlerMoves, HandlerStep

(***************************************************************************)
(* The writer's steps                                                      *)
(***************************************************************************)
LEMMA WriterTyped ==
    ASSUME AuthorityTyped
    PROVE  /\ wr = [pc |-> wr.pc, batch |-> wr.batch, cur |-> wr.cur, end |-> wr.end]
           /\ wr.batch \in Seq(Controls) /\ wr.cur \in Item /\ wr.end \in Item
           /\ wr.cur # NoInput => wr.cur \in Inputs
           /\ wr.end # NoInput => wr.end \in Inputs
BY DEF AuthorityTyped, Writers, Item

LEMMA NowTyped ==
    ASSUME AuthorityTyped, Unserved
    PROVE  /\ Now \in Controls /\ Now.c \in Conns /\ Tail(wr.batch) \in Seq(Controls)
           /\ Len(Tail(wr.batch)) = Len(wr.batch) - 1
           /\ \A i \in DOMAIN Tail(wr.batch) : i + 1 \in DOMAIN wr.batch /\ Tail(wr.batch)[i] = wr.batch[i + 1]
<1>1. wr.batch \in Seq(Controls) /\ wr.batch # <<>>
    BY WriterTyped DEF Unserved
<1>2. Now \in Controls
    BY <1>1 DEF Now
<1> QED
    BY <1>1, <1>2 DEF Controls

LEMMA ArbTyped ==
    ASSUME AuthorityTyped
    PROVE  /\ arb.owned \in BOOLEAN /\ arb.epoch \in 0..MaxEpoch /\ arb.holder \in Conns \cup {None}
           /\ arb = [owned |-> arb.owned, epoch |-> arb.epoch, holder |-> arb.holder]
BY DEF AuthorityTyped

LEMMA ConnsKept ==
    ASSUME Sound, [Next]_vars
    PROVE  ConnsTyped'
<1>0. /\ AuthorityTyped /\ ConnsTyped /\ conn \in [Conns -> Handlers]
      /\ \A d \in Conns : Whereabouts(d) /\ OutcomeFits(d)
    BY TypeParts DEF Sound, ConnsTyped
<1>1. CASE UNCHANGED vars
    BY <1>0, <1>1 DEF vars, ConnsTyped
<1>2. CASE Next
    <2>0. setup' = setup /\ setup \in Setups
        BY <1>0, <1>2, StepKinds DEF ConnsTyped
    <2>1. CASE Outside
        BY <1>0, <2>0, <2>1, OutsideFrame DEF ConnsTyped
    <2>2. ASSUME NEW c \in Conns, HandlerMoves(c)
          PROVE  ConnsTyped'
        BY <1>0, <2>0, <2>2, HandlerMoved DEF ConnsTyped, Moved
    <2>3. CASE WriterLoop
        <3>1. CASE Take \/ ServeResize \/ ServeDisconnect \/ NothingLeft
            BY <1>0, <2>0, <3>1 DEF Take, ServeResize, ServeDisconnect, NothingLeft, ConnsTyped
        <3>2. CASE ServeClaim \/ ServeTakeover
            <4>1. Now.c \in Conns /\ arb.epoch \in 0..MaxEpoch /\ MaxEpoch \in Nat
                BY <1>0, <3>2, NowTyped, ArbTyped, CapacityAssumption DEF ServeClaim, ServeTakeover, Served
            <4>2. PICK ans \in {"granted", "Agent", "Human", "exhausted"} :
                      Answer(Now.c, ans) /\ (ans = "granted" => arb'.epoch \in 0..MaxEpoch)
                BY <3>2, <4>1 DEF ServeClaim, ServeTakeover, Own, Kind
            <4>3. conn' \in [Conns -> Handlers]
                BY <1>0, <4>1, <4>2 DEF Answer, Handlers
            <4> QED
                BY <2>0, <4>3 DEF ConnsTyped
        <3>3. CASE ServeEnd \/ WriteStep
            <4>1. ASSUME NEW c \in Conns, NEW why \in {"accepted", "revoked", "closed", "ended"}, NEW acc \in Nat,
                         Tell(c, why, acc)
                  PROVE  conn' \in [Conns -> Handlers]
                <5>1. [why |-> why, acc |-> acc] \in Accepted
                    BY DEF Accepted
                <5> QED
                    BY <1>0, <4>1, <5>1 DEF Tell, Handlers
            <4>2. conn' \in [Conns -> Handlers]
                <5>1. CASE ServeEnd
                    <6>1. wr.end.c \in Conns /\ Tell(wr.end.c, "ended", 0)
                        BY <1>0, <5>1, WriterTyped DEF ServeEnd, Inputs
                    <6> QED
                        BY <4>1, <6>1
                <5>2. CASE WriteStep
                    <6>1. wr.cur.c \in Conns /\ wr.cur.acc \in Nat /\ wr.cur.tot \in Nat
                        BY <1>0, <5>2, WriterTyped DEF WriteStep, Inputs
                    <6>2. \/ \E why \in {"accepted", "revoked", "closed", "ended"}, acc \in Nat : Tell(wr.cur.c, why, acc)
                          \/ UNCHANGED conn
                        BY <5>2, <6>1 DEF WriteStep
                    <6> QED
                        BY <1>0, <4>1, <6>1, <6>2
                <5> QED
                    BY <3>3, <5>1, <5>2
            <4> QED
                BY <2>0, <4>2 DEF ConnsTyped
        <3> QED
            BY <2>3, <3>1, <3>2, <3>3 DEF WriterLoop
    <2> QED
        BY <1>2, <2>1, <2>2, <2>3, StepKinds
<1> QED
    BY <1>1, <1>2

\* A control or an input that a handler queues.
LEMMA Pushed ==
    ASSUME NEW c \in Conns, ConnsTyped, \A d \in Conns : Whereabouts(d) /\ OutcomeFits(d), HandlerMoves(c)
    PROVE  /\ \/ controls' = controls
              \/ /\ Len(controls) < ControlCapacity
                 /\ \E k \in Controls : k.c = c /\ k.e = conn[c].epoch /\ controls' = Append(controls, k)
           /\ \/ inputs' = inputs
              \/ /\ Len(inputs) < InputCapacity
                 /\ \E x \in Inputs : x.c = c /\ x.e = conn[c].epoch /\ inputs' = Append(inputs, x)
<1>0. conn[c] \in Handlers /\ conn[c].epoch \in Nat
    BY FramesTyped, CapacityAssumption DEF Handlers
<1>1. ASSUME NEW op \in {"claim", "takeover", "resize", "disconnect"}, PushControl(op, c)
      PROVE  /\ Len(controls) < ControlCapacity
             /\ \E k \in Controls : k.c = c /\ k.e = conn[c].epoch /\ controls' = Append(controls, k)
    BY <1>0, <1>1 DEF PushControl, Controls
<1>2. ASSUME NEW op \in {"write", "end"}, NEW n \in Nat, PushInput(op, c, n)
      PROVE  /\ Len(inputs) < InputCapacity
             /\ \E x \in Inputs : x.c = c /\ x.e = conn[c].epoch /\ inputs' = Append(inputs, x)
    BY <1>0, <1>2 DEF PushInput, Inputs
<1>3. CASE Ask(c) \/ QueueResize(c) \/ Disconnect(c)
    <2>1. inputs' = inputs /\ \E op \in {"claim", "takeover", "resize", "disconnect"} : PushControl(op, c)
        BY <1>3 DEF Ask, QueueResize, Disconnect
    <2> QED
        BY <1>1, <2>1
<1>4. CASE QueueInput(c) \/ QueueEnd(c)
    <2>1. QueueInput(c) => Frame(c) \in Nat
        BY FramesTyped DEF QueueInput, Whereabouts
    <2>2. controls' = controls /\ (inputs' = inputs \/ \E op \in {"write", "end"}, n \in Nat : PushInput(op, c, n))
        BY <1>4, <2>1 DEF QueueInput, QueueEnd, authority
    <2> QED
        BY <1>2, <2>2
<1>5. CASE /\ ~Ask(c) /\ ~QueueResize(c) /\ ~Disconnect(c)
           /\ ~QueueInput(c) /\ ~QueueEnd(c)
    BY <1>5 DEF HandlerMoves, HandlerStep, Connect, Hello, Reply, Accept, CheckViewer, PutViewer,
       ReadFails, Await, PollClient, Drain, Ended, VanishedPush, Unregister, Unsink, ReadFrame, ReadEnd, authority
<1> QED
    BY <1>3, <1>4, <1>5

LEMMA OthersTyped ==
    ASSUME inputs \in Seq(Inputs), NEW c
    PROVE  /\ Others(inputs, c) \in Seq(Inputs) /\ Len(Others(inputs, c)) <= Len(inputs)
           /\ \A j \in DOMAIN Others(inputs, c) : /\ ~Belongs(Others(inputs, c)[j], c)
                                                  /\ \E i \in DOMAIN inputs : Others(inputs, c)[j] = inputs[i]
           /\ WeighsAs(Others(inputs, c), inputs, c)
<1>1. inputs \in Seq(Item)
    BY DEF Item
<1>2. PICK t : t = Others(inputs, c)
    OBVIOUS
<1>3. Left(t, inputs, c)
    BY <1>1, <1>2, OthersLeft
<1>4. t \in Seq(Item) /\ \A j \in DOMAIN t : t[j] \in Inputs
    BY <1>3 DEF Left
<1>5. t \in Seq(Inputs)
    BY <1>4
<1> QED
    BY <1>2, <1>3, <1>5 DEF Left

LEMMA AuthorityKept ==
    ASSUME Sound, [Next]_vars
    PROVE  AuthorityTyped'
<1>0. /\ AuthorityTyped /\ ConnsTyped /\ \A d \in Conns : Whereabouts(d) /\ OutcomeFits(d)
      /\ inputs \in Seq(Inputs) /\ controls \in Seq(Controls)
    BY TypeParts DEF Sound, AuthorityTyped
<1>1. CASE UNCHANGED vars
    BY <1>0, <1>1 DEF vars, authority, AuthorityTyped
<1>2. CASE Outside
    BY <1>0, <1>2, OutsideFrame DEF AuthorityTyped
<1>3. ASSUME NEW c \in Conns, HandlerMoves(c)
      PROVE  AuthorityTyped'
    <2>1. arb' = arb /\ wr' = wr
        BY <1>0, <1>3, HandlerFrame
    <2>2. /\ \/ controls' = controls
             \/ Len(controls) < ControlCapacity /\ \E k \in Controls : controls' = Append(controls, k)
          /\ \/ inputs' = inputs
             \/ Len(inputs) < InputCapacity /\ \E x \in Inputs : inputs' = Append(inputs, x)
        BY <1>0, <1>3, Pushed
    <2>3. /\ controls' \in Seq(Controls) /\ Len(controls') <= ControlCapacity
          /\ inputs' \in Seq(Inputs) /\ Len(inputs') <= InputCapacity
        <3>1. ASSUME NEW k \in Controls, Len(controls) < ControlCapacity
              PROVE  Append(controls, k) \in Seq(Controls) /\ Len(Append(controls, k)) <= ControlCapacity
            BY <1>0, <3>1, CapacityAssumption
        <3>2. ASSUME NEW x \in Inputs, Len(inputs) < InputCapacity
              PROVE  Append(inputs, x) \in Seq(Inputs) /\ Len(Append(inputs, x)) <= InputCapacity
            BY <1>0, <3>2, CapacityAssumption
        <3>3. Len(controls) <= ControlCapacity /\ Len(inputs) <= InputCapacity
            BY <1>0 DEF AuthorityTyped
        <3> QED
            BY <1>0, <2>2, <3>1, <3>2, <3>3
    <2> QED
        BY <1>0, <2>1, <2>3 DEF AuthorityTyped
<1>4. CASE WriterLoop
    <2>1. CASE Take
        <3>1. inputs # <<>> => Head(inputs) \in Inputs /\ Tail(inputs) \in Seq(Inputs) /\ Len(Tail(inputs)) <= Len(inputs)
            BY <1>0
        <3>2. wr' \in Writers
            BY <1>0, <2>1, <3>1, WriterTyped DEF Take, Writers, Item
        <3>3. inputs' \in Seq(Inputs) /\ Len(inputs') <= InputCapacity
            BY <1>0, <2>1, <3>1, CapacityAssumption DEF Take, AuthorityTyped, Item, NoInput, Inputs
        <3> QED
            BY <1>0, <2>1, <3>2, <3>3, CapacityAssumption, EmptySeq DEF Take, AuthorityTyped
    <2>2. CASE ServeClaim \/ ServeTakeover \/ ServeResize
        <3>1. wr' \in Writers
            BY <1>0, <2>2, NowTyped DEF ServeClaim, ServeTakeover, ServeResize, Served, Done, AuthorityTyped, Writers
        <3>2. arb' \in [owned : BOOLEAN, epoch : 0..MaxEpoch, holder : Conns \cup {None}]
            <4>1. Now.c \in Conns
                BY <1>0, <2>2, NowTyped DEF ServeClaim, ServeTakeover, ServeResize, Served
            <4>2. arb' = arb \/ (arb.epoch # MaxEpoch /\ arb' = Own(Now.c))
                BY <1>0, <2>2, ArbTyped, CapacityAssumption DEF ServeClaim, ServeTakeover, ServeResize
            <4>3. arb.epoch \in 0..MaxEpoch
                BY <1>0, ArbTyped
            <4>4. arb.epoch # MaxEpoch => arb.epoch + 1 \in 0..MaxEpoch
                BY <4>3, CapacityAssumption
            <4>5. CASE arb' = arb
                BY <1>0, <4>5 DEF AuthorityTyped
            <4>6. CASE arb.epoch # MaxEpoch /\ arb' = Own(Now.c)
                <5>1. PICK e \in 0..MaxEpoch : e = arb.epoch + 1
                    BY <4>4, <4>6
                <5>2. arb' = [owned |-> TRUE, epoch |-> e, holder |-> Now.c]
                    BY <4>6, <5>1 DEF Own
                <5> QED
                    BY <4>1, <5>2
            <4> QED
                BY <4>2, <4>5, <4>6
        <3> QED
            BY <1>0, <2>2, <3>1, <3>2 DEF ServeClaim, ServeTakeover, ServeResize, AuthorityTyped
    <2>3. CASE ServeDisconnect
        <3>1. inputs' = Others(inputs, Now.c) /\ Unserved
            BY <2>3 DEF ServeDisconnect, Served
        <3>2. inputs' \in Seq(Inputs) /\ Len(inputs') <= InputCapacity
            BY <1>0, <3>1, OthersTyped, CapacityAssumption DEF AuthorityTyped
        <3>3. wr' \in Writers
            BY <1>0, <2>3, <3>1, NowTyped DEF ServeDisconnect, AuthorityTyped, Writers, Item
        <3>4. arb' \in [owned : BOOLEAN, epoch : 0..MaxEpoch, holder : Conns \cup {None}]
            BY <1>0, <2>3 DEF ServeDisconnect, AfterRelease, AuthorityTyped
        <3> QED
            BY <1>0, <2>3, <3>2, <3>3, <3>4 DEF ServeDisconnect, AuthorityTyped
    <2>4. CASE ServeEnd
        <3>1. wr' \in Writers
            BY <1>0, <2>4 DEF ServeEnd, AuthorityTyped, Writers, Item
        <3>2. arb' \in [owned : BOOLEAN, epoch : 0..MaxEpoch, holder : Conns \cup {None}]
            BY <1>0, <2>4 DEF ServeEnd, AfterRelease, AuthorityTyped
        <3> QED
            BY <1>0, <2>4, <3>1, <3>2 DEF ServeEnd, AuthorityTyped
    <2>5. CASE WriteStep
        <3>1. wr.cur \in Inputs
            BY <1>0, <2>5, WriterTyped DEF WriteStep
        <3>2. Idle \/ \E n \in Nat : wr' = [wr EXCEPT !.pc = "take", !.cur.acc = @ + n]
            <4>1. CASE Idle
                BY <4>1
            <4>2. CASE ~Idle
                <5>1. pty.room \in Nat
                    BY TypeParts, CapacityAssumption DEF Sound, OutputTyped
                <5>2. PICK n \in (IF pty.room = 0 THEN {0} ELSE 1..pty.room) :
                          wr' = [wr EXCEPT !.pc = "take", !.cur.acc = @ + n]
                    BY <2>5, <4>2 DEF WriteStep
                <5>3. n \in Nat
                    BY <5>1
                <5> QED
                    BY <5>2, <5>3
            <4> QED
                BY <4>1, <4>2
        <3>3. wr' \in Writers
            <4>1. CASE Idle
                BY <4>1, EmptySeq DEF Idle, Writers, Item
            <4>2. ASSUME NEW n \in Nat, wr' = [wr EXCEPT !.pc = "take", !.cur.acc = @ + n]
                  PROVE  wr' \in Writers
                <5>1. [wr.cur EXCEPT !.acc = @ + n] \in Inputs
                    BY <3>1, <4>2 DEF Inputs
                <5> QED
                    BY <1>0, <4>2, <5>1 DEF AuthorityTyped, Writers, Item
            <4> QED
                BY <3>2, <4>1, <4>2
        <3> QED
            BY <1>0, <2>5, <3>3 DEF WriteStep, AuthorityTyped
    <2>6. CASE NothingLeft
        BY <1>0, <2>6, EmptySeq DEF NothingLeft, Idle, AuthorityTyped, Writers, Item
    <2> QED
        BY <1>4, <2>1, <2>2, <2>3, <2>4, <2>5, <2>6 DEF WriterLoop
<1> QED
    BY <1>1, <1>2, <1>3, <1>4, StepKinds

(***************************************************************************)
(* What a connection has queued, staged and being written                  *)
(***************************************************************************)
TotOf(c) == [x \in Item |-> IF Belongs(x, c) THEN x.tot ELSE 0]
AccOf(c) == [x \in Item |-> IF Belongs(x, c) THEN x.acc ELSE 0]

LEMMA WeightsTyped ==
    ASSUME NEW c
    PROVE  /\ TotOf(c) \in [Item -> Nat] /\ AccOf(c) \in [Item -> Nat] /\ One(c) \in [Item -> Nat]
           /\ NoInput \in Item /\ ~Belongs(NoInput, c)
           /\ TotOf(c)[NoInput] = 0 /\ AccOf(c)[NoInput] = 0 /\ One(c)[NoInput] = 0
BY DEF TotOf, AccOf, One, Item, Inputs, Belongs, NoInput

LEMMA SumOfIsSum ==
    ASSUME NEW f
    PROVE  SumOf(f) = SumOver(f, DOMAIN f)
BY DEF SumOf, SumOver

LEMMA TotAlong ==
    ASSUME NEW s \in Seq(Item), NEW c
    PROVE  Tot(s, c) = Along(TotOf(c), s) /\ Acc(s, c) = Along(AccOf(c), s)
<1>1. \A i \in DOMAIN s : s[i] \in Item
    OBVIOUS
<1> DEFINE f == [i \in DOMAIN s |-> IF Belongs(s[i], c) THEN s[i].tot ELSE 0]
           g == [i \in DOMAIN s |-> IF Belongs(s[i], c) THEN s[i].acc ELSE 0]
<1>2. f = [i \in DOMAIN s |-> TotOf(c)[s[i]]] /\ g = [i \in DOMAIN s |-> AccOf(c)[s[i]]]
    BY <1>1 DEF TotOf, AccOf
<1>3. DOMAIN f = DOMAIN s /\ DOMAIN g = DOMAIN s
    OBVIOUS
<1>4. Tot(s, c) = SumOf(f) /\ Acc(s, c) = SumOf(g)
    BY DEF Tot, Acc
<1> HIDE DEF f, g
<1>5. Tot(s, c) = SumOver(f, DOMAIN s) /\ Acc(s, c) = SumOver(g, DOMAIN s)
    BY <1>3, <1>4, SumOfIsSum
<1> QED
    BY <1>2, <1>5 DEF Along

LEMMA HeldTyped ==
    ASSUME AuthorityTyped, NEW w \in [Item -> Nat]
    PROVE  /\ Held(w) \in Nat /\ Along(w, inputs) \in Nat /\ w[wr.end] \in Nat /\ w[wr.cur] \in Nat
           /\ Along(w, InHand) = Held(w)
           /\ InHand \in Seq(Item) /\ inputs \in Seq(Item)
<1>1. inputs \in Seq(Item) /\ wr.cur \in Item /\ wr.end \in Item
    BY WriterTyped DEF AuthorityTyped, Item
<1>2. InHand = Append(Append(inputs, wr.end), wr.cur) /\ Append(inputs, wr.end) \in Seq(Item)
    BY <1>1 DEF InHand
<1>3. Along(w, InHand) = (Along(w, inputs) + w[wr.end]) + w[wr.cur]
    BY <1>1, <1>2, AlongAppend
<1>4. Along(w, inputs) \in Nat
    BY <1>1, AlongType
<1>5. w[wr.end] \in Nat /\ w[wr.cur] \in Nat
    BY <1>1
<1>6. InHand \in Seq(Item)
    BY <1>1, <1>2
<1> QED
    BY <1>1, <1>3, <1>4, <1>5, <1>6 DEF Held

\* What the writer counts for a connection that disconnects.
LEMMA InHandWeighs ==
    ASSUME AuthorityTyped, NEW c
    PROVE  /\ Tot(InHand, c) = Held(TotOf(c)) /\ Acc(InHand, c) = Held(AccOf(c))
           /\ Tot(InHand, c) \in Nat /\ Acc(InHand, c) \in Nat
BY HeldTyped, TotAlong, WeightsTyped

LEMMA SocketsKept ==
    ASSUME Sound, [Next]_vars
    PROVE  SocketsTyped'
<1>0. /\ AuthorityTyped /\ ConnsTyped /\ SocketsTyped /\ ViewingTyped
    BY TypeParts DEF Sound
<1>1. /\ hung \subseteq Conns /\ shut \subseteq Conns /\ revoked \subseteq Conns
      /\ reg \in [live : SUBSET Conns, closed : BOOLEAN] /\ sink.viewer \in Conns \cup {None}
    BY <1>0 DEF SocketsTyped, ViewingTyped
<1>2. CASE UNCHANGED vars
    BY <1>1, <1>2 DEF vars, sockets, SocketsTyped
<1>3. ASSUME NEW c \in Conns, HandlerMoves(c)
      PROVE  SocketsTyped'
    <2>1. /\ hung' = hung /\ revoked' = revoked
          /\ shut' = shut \/ shut' = shut \cup {c}
          /\ \/ reg' = reg \/ reg' = [reg EXCEPT !.live = @ \ {c}] \/ reg' = [reg EXCEPT !.live = @ \cup {c}]
        BY <1>3 DEF HandlerMoves, HandlerStep, Connect, Hello, Ask, Reply, Accept, CheckViewer, PutViewer,
           ReadFails, QueueInput, QueueResize, Await, PollClient, Drain, QueueEnd, Ended, VanishedPush,
           Disconnect, Unregister, Unsink, ReadFrame, ReadEnd, authority, sockets, viewing
    <2> QED
        BY <1>1, <2>1 DEF SocketsTyped
<1>4. CASE Outside
    <2>1. ASSUME NEW c \in Conns, RetireShuts(c) \/ RetireClears(c) \/ SendChunk(c) \/ Vanish(c)
          PROVE  SocketsTyped'
        <3>1. reg' = reg /\ revoked' = revoked
            BY <2>1 DEF RetireShuts, RetireClears, SendChunk, Vanish, sockets
        <3>2. hung' \in {hung, hung \cup {c}} /\ shut' \in {shut, shut \cup {c}}
            BY <2>1 DEF RetireShuts, RetireClears, SendChunk, Vanish, sockets
        <3> QED
            BY <1>1, <3>1, <3>2 DEF SocketsTyped
    <2>2. CASE Tee
        BY <1>1, <2>2 DEF Tee, SocketsTyped
    <2>3. CASE ChildReads \/ ChildExits
        BY <1>1, <2>3 DEF ChildReads, ChildExits, sockets, SocketsTyped
    <2>4. CASE CloseRegistry
        BY <1>1, <2>4 DEF CloseRegistry, SocketsTyped
    <2> QED
        BY <1>4, <2>1, <2>2, <2>3, <2>4 DEF Outside
<1>5. CASE WriterLoop
    <2>1. \/ UNCHANGED sockets
          \/ /\ hung' = hung /\ shut' = shut /\ arb.owned /\ Retire(arb.holder)
        BY <1>5 DEF WriterLoop, Take, ServeClaim, ServeTakeover, ServeResize, ServeDisconnect, ServeEnd,
           WriteStep, NothingLeft, sockets
    <2> QED
        BY <1>1, <2>1 DEF sockets, Retire, SocketsTyped
<1> QED
    BY <1>2, <1>3, <1>4, <1>5, StepKinds

LEMMA Grows ==
    ASSUME NEW T, NEW s \in Seq(T)
    PROVE  /\ <<>> \in Seq(T)
           /\ \A x \in T : Append(s, x) \in Seq(T) /\ <<x>> \in Seq(T)
           /\ \A t \in Seq(T) : s \o t \in Seq(T)
OBVIOUS

Sinks == [viewer : Conns \cup {None}, lock : Conns \cup {None}]
Views == [n : 0..ViewerCapacity, closed : BOOLEAN]

LEMMA SinkChanges ==
    ASSUME sink \in Sinks, NEW c \in Conns
    PROVE  /\ [sink EXCEPT !.lock = c] \in Sinks /\ [sink EXCEPT !.viewer = None] \in Sinks
           /\ [viewer |-> c, lock |-> None] \in Sinks
BY DEF Sinks

LEMMA ViewChanges ==
    ASSUME view \in [Conns -> Views], NEW c \in Conns
    PROVE  /\ \A b \in BOOLEAN : [view EXCEPT ![c].closed = b] \in [Conns -> Views]
           /\ [view EXCEPT ![c].closed = TRUE] \in [Conns -> Views]
           /\ \A m \in 0..ViewerCapacity : [view EXCEPT ![c].n = m] \in [Conns -> Views]
           /\ [view EXCEPT ![c] = [n |-> 0, closed |-> TRUE]] \in [Conns -> Views]
<1>1. 0 \in 0..ViewerCapacity
    BY CapacityAssumption
<1>2. view[c] \in Views
    OBVIOUS
<1>3. /\ \A b \in BOOLEAN : [view[c] EXCEPT !.closed = b] \in Views
      /\ \A m \in 0..ViewerCapacity : [view[c] EXCEPT !.n = m] \in Views
      /\ [n |-> 0, closed |-> TRUE] \in Views
    BY <1>1, <1>2 DEF Views
<1> QED
    BY <1>3

LEMMA ViewingKept ==
    ASSUME Sound, [Next]_vars
    PROVE  ViewingTyped'
<1>0. /\ AuthorityTyped /\ ConnsTyped /\ SocketsTyped /\ ViewingTyped
    BY TypeParts DEF Sound
<1>1. /\ sink \in Sinks /\ view \in [Conns -> Views]
      /\ retire \in [Conns -> {"no", "shut", "clear", "done"}]
      /\ chunks \in 0..setup.output /\ setup.output \in Nat /\ ViewerCapacity \in Nat
    BY <1>0, SetupTyped, CapacityAssumption DEF ViewingTyped, ConnsTyped, Sinks, Views
<1>2. CASE UNCHANGED vars
    BY <1>0, <1>2 DEF vars, viewing, ViewingTyped
<1>3. ASSUME NEW c \in Conns, HandlerMoves(c), Next
      PROVE  ViewingTyped'
    <2>1. /\ retire' = retire /\ chunks' = chunks /\ setup' = setup
        BY <1>0, <1>3, HandlerFrame, StepKinds
    <2>2. /\ view' = view \/ view' = [view EXCEPT ![c].closed = TRUE]
          /\ \/ sink' = sink \/ sink' = [sink EXCEPT !.lock = c]
             \/ sink' = [viewer |-> c, lock |-> None] \/ sink' = [sink EXCEPT !.viewer = None]
        BY <1>3 DEF HandlerMoves, HandlerStep, Connect, Hello, Ask, Reply, Accept, CheckViewer, PutViewer,
           ReadFails, QueueInput, QueueResize, Await, PollClient, Drain, QueueEnd, Ended, VanishedPush,
           Disconnect, Unregister, Unsink, ClearViewer, ReadFrame, ReadEnd, authority, sockets, viewing
    <2>3. view' \in [Conns -> Views]
        BY <1>1, <1>3, <2>2, ViewChanges
    <2>4. sink' \in Sinks
        BY <1>1, <1>3, <2>2, SinkChanges
    <2> QED
        BY <1>1, <2>1, <2>3, <2>4 DEF ViewingTyped, Sinks, Views
<1>4. CASE Outside /\ Next
    <2>0. setup' = setup
        BY <1>4, StepKinds
    <2>1. ASSUME NEW c \in Conns, RetireShuts(c) \/ RetireClears(c) \/ Vanish(c)
          PROVE  ViewingTyped'
        <3>1. chunks' = chunks /\ (view' = view \/ \E b \in BOOLEAN : view' = [view EXCEPT ![c].closed = b])
            BY <1>1, <2>1 DEF RetireShuts, RetireClears, Vanish, ClearViewer, viewing, Views
        <3>2. sink' = sink \/ sink' = [sink EXCEPT !.viewer = None]
            BY <2>1 DEF RetireShuts, RetireClears, Vanish, ClearViewer, viewing
        <3>3. retire' = retire \/ \E r \in {"clear", "done"} : retire' = [retire EXCEPT ![c] = r]
            BY <2>1 DEF RetireShuts, RetireClears, Vanish, ClearViewer, viewing
        <3>4. view' \in [Conns -> Views]
            <4>1. CASE view' = view
                BY <1>1, <4>1
            <4>2. CASE view' # view
                <5>1. PICK b \in BOOLEAN : view' = [view EXCEPT ![c].closed = b]
                    BY <3>1, <4>2
                <5> QED
                    BY <1>1, <2>1, <5>1, ViewChanges
            <4> QED
                BY <4>1, <4>2
        <3>5. sink' \in Sinks
            BY <1>1, <2>1, <3>2, SinkChanges
        <3>6. retire' \in [Conns -> {"no", "shut", "clear", "done"}]
            BY <1>1, <3>3
        <3> QED
            BY <1>1, <2>0, <3>1, <3>4, <3>5, <3>6 DEF ViewingTyped, Sinks, Views
    <2>2. ASSUME NEW c \in Conns, SendChunk(c)
          PROVE  ViewingTyped'
        <3>1. view' \in [Conns -> Views]
            <4>1. PICK m \in 0..ViewerCapacity : m = view[c].n - 1
                BY <1>1, <2>2 DEF SendChunk, Views
            <4>2. view' = [view EXCEPT ![c].closed = TRUE] \/ view' = [view EXCEPT ![c].n = m]
                BY <2>2, <4>1 DEF SendChunk
            <4>3. CASE view' = [view EXCEPT ![c].closed = TRUE]
                BY <1>1, <2>2, <4>3, ViewChanges
            <4>4. CASE view' = [view EXCEPT ![c].n = m]
                BY <1>1, <2>2, <4>4, ViewChanges
            <4> QED
                BY <4>2, <4>3, <4>4
        <3> QED
            BY <1>1, <2>0, <2>2, <3>1 DEF SendChunk, ViewingTyped, Sinks, Views
    <2>3. CASE Tee
        <3>1. chunks' \in 0..setup.output
            BY <1>1, <2>3 DEF Tee
        <3>2. CASE sink.viewer = None
            BY <1>1, <2>0, <2>3, <3>1, <3>2 DEF Tee, ViewingTyped, Sinks, Views
        <3>3. CASE sink.viewer # None
            <4>1. PICK v \in Conns : v = sink.viewer
                BY <1>1, <3>3 DEF Sinks
            <4>2. CASE ~Refuses(v)
                <5>1. PICK m \in 0..ViewerCapacity : m = view[v].n + 1
                    BY <1>1, <4>2 DEF Refuses, Views
                <5>2. view' = [view EXCEPT ![v].n = m] /\ sink' = sink
                    BY <2>3, <3>3, <4>1, <4>2, <5>1 DEF Tee
                <5>3. view' \in [Conns -> Views]
                    BY <1>1, <5>2, ViewChanges
                <5> QED
                    BY <1>1, <2>0, <2>3, <3>1, <5>2, <5>3 DEF Tee, ViewingTyped, Sinks, Views
            <4>3. CASE Refuses(v)
                <5>1. view' = [view EXCEPT ![v] = [n |-> 0, closed |-> TRUE]] /\ sink' = [sink EXCEPT !.viewer = None]
                    BY <2>3, <3>3, <4>1, <4>3 DEF Tee
                <5>2. view' \in [Conns -> Views] /\ sink' \in Sinks
                    BY <1>1, <5>1, ViewChanges, SinkChanges
                <5> QED
                    BY <1>1, <2>0, <2>3, <3>1, <5>2 DEF Tee, ViewingTyped, Sinks, Views
            <4> QED
                BY <4>2, <4>3
        <3> QED
            BY <3>2, <3>3
    <2>4. CASE ChildReads \/ ChildExits \/ CloseRegistry
        BY <1>0, <2>0, <2>4 DEF ChildReads, ChildExits, CloseRegistry, viewing, ViewingTyped
    <2> QED
        BY <1>4, <2>1, <2>2, <2>3, <2>4 DEF Outside
<1>5. CASE WriterLoop /\ Next
    <2>0. setup' = setup
        BY <1>5, StepKinds
    <2>1. /\ sink' = sink /\ view' = view /\ chunks' = chunks
          /\ \/ retire' = retire
             \/ arb.holder \in reg.live /\ retire' = [retire EXCEPT ![arb.holder] = "shut"]
        <3>1. CASE ServeTakeover
            BY <3>1 DEF ServeTakeover, Retire
        <3>2. CASE ~ServeTakeover
            BY <1>5, <3>2 DEF WriterLoop, Take, ServeClaim, ServeResize, ServeDisconnect, ServeEnd,
               WriteStep, NothingLeft, viewing
        <3> QED
            BY <3>1, <3>2
    <2>2. retire' \in [Conns -> {"no", "shut", "clear", "done"}]
        BY <1>1, <2>1
    <2> QED
        BY <1>0, <2>0, <2>1, <2>2 DEF ViewingTyped
<1> QED
    BY <1>2, <1>3, <1>4, <1>5, StepKinds

Entries == [what : {"byte", "size"}, c : Conns, e : Nat]

LEMMA BytesTyped ==
    ASSUME NEW c \in Conns, NEW e \in Nat, NEW n \in Nat
    PROVE  /\ Bytes(c, e, n) \in Seq(Entries) /\ DOMAIN Bytes(c, e, n) = 1..n
           /\ \A j \in 1..n : Bytes(c, e, n)[j] = [what |-> "byte", c |-> c, e |-> e]
<1>1. PICK x \in Entries : x = [what |-> "byte", c |-> c, e |-> e]
    BY DEF Entries
<1>2. Bytes(c, e, n) = [i \in 1..n |-> x]
    BY <1>1 DEF Bytes
<1>3. [i \in 1..n |-> x] \in Seq(Entries)
    OBVIOUS
<1> QED
    BY <1>1, <1>2, <1>3

\* What a write step lets through.
LEMMA Writes ==
    ASSUME AuthorityTyped, OutputTyped, WriteStep
    PROVE  /\ wr.cur \in Inputs /\ wr.cur.c \in Conns /\ wr.cur.e \in Nat
           /\ wr.cur.acc \in Nat /\ wr.cur.tot \in Nat
           /\ \/ /\ pty' = pty /\ applied' = applied /\ Idle
                 /\ \/ fx' = fx /\ ~pty.open /\ Tell(wr.cur.c, "closed", wr.cur.acc)
                    \/ /\ fx' = Append(fx, Revoked(wr.cur.c, wr.cur.acc, wr.cur.tot))
                       /\ Tell(wr.cur.c, "revoked", wr.cur.acc)
              \/ /\ ~Stale(wr.cur.c, wr.cur.e) /\ pty.open /\ fx' = fx
                 /\ \E n, m \in Nat :
                       /\ n <= wr.cur.tot - wr.cur.acc /\ m = pty.room - n /\ m <= PtyRoom
                       /\ applied' = applied \o Bytes(wr.cur.c, wr.cur.e, n)
                       /\ pty' = [pty EXCEPT !.room = m]
                       /\ IF n = wr.cur.tot - wr.cur.acc
                          THEN Tell(wr.cur.c, "accepted", wr.cur.tot) /\ Idle
                          ELSE wr' = [wr EXCEPT !.pc = "take", !.cur.acc = @ + n] /\ conn' = conn
<1>1. /\ wr.cur \in Inputs /\ wr.cur.c \in Conns /\ wr.cur.e \in Nat
      /\ wr.cur.acc \in Nat /\ wr.cur.tot \in Nat
    BY WriterTyped DEF WriteStep, Inputs
<1>2. pty.room \in Nat /\ pty.room <= PtyRoom /\ PtyRoom \in Nat
    BY CapacityAssumption DEF OutputTyped
<1>3. CASE Stale(wr.cur.c, wr.cur.e) \/ ~pty.open
    BY <1>1, <1>3 DEF WriteStep
<1>4. CASE ~Stale(wr.cur.c, wr.cur.e) /\ pty.open
    <2>1. PICK n \in (IF pty.room = 0 THEN {0} ELSE 1..pty.room) :
              /\ n <= wr.cur.tot - wr.cur.acc
              /\ applied' = applied \o Bytes(wr.cur.c, wr.cur.e, n)
              /\ pty' = [pty EXCEPT !.room = @ - n]
              /\ IF n = wr.cur.tot - wr.cur.acc
                 THEN Tell(wr.cur.c, "accepted", wr.cur.tot) /\ Idle
                 ELSE wr' = [wr EXCEPT !.pc = "take", !.cur.acc = @ + n] /\ conn' = conn
        BY <1>4 DEF WriteStep
    <2>2. n \in Nat
        BY <1>2
    <2>3. PICK m \in Nat : m = pty.room - n /\ m <= PtyRoom
        BY <1>2
    <2>4. pty' = [pty EXCEPT !.room = m]
        BY <2>1, <2>3
    <2>5. fx' = fx
        BY <1>4 DEF WriteStep
    <2> QED
        BY <1>1, <1>4, <2>1, <2>2, <2>3, <2>4, <2>5
<1> QED
    BY <1>3, <1>4

LEMMA OutputKept ==
    ASSUME Sound, [Next]_vars
    PROVE  OutputTyped'
<1>0. /\ AuthorityTyped /\ ConnsTyped /\ OutputTyped
    BY TypeParts DEF Sound
<1>1. /\ pty \in [room : 0..PtyRoom, open : BOOLEAN] /\ fifo \in BOOLEAN
      /\ applied \in Seq(Entries) /\ fx \in Seq(Effects) /\ PtyRoom \in Nat
    BY <1>0, CapacityAssumption DEF OutputTyped, Entries
<1>2. CASE UNCHANGED vars
    BY <1>0, <1>2 DEF vars, OutputTyped
<1>3. ASSUME NEW c \in Conns, HandlerMoves(c)
      PROVE  OutputTyped'
    <2>1. fifo' \in BOOLEAN
        BY <1>1, <1>3 DEF HandlerMoves, HandlerStep, Connect, Hello, Ask, Reply, Accept, CheckViewer, PutViewer,
           ReadFails, QueueInput, QueueResize, Await, PollClient, Drain, QueueEnd, Ended, VanishedPush,
           Disconnect, Unregister, Unsink, ReadFrame, ReadEnd
    <2> QED
        BY <1>0, <1>3, <2>1, HandlerFrame DEF OutputTyped
<1>4. CASE Outside
    <2>1. pty' = pty \/ pty' = [pty EXCEPT !.room = PtyRoom] \/ pty' = [pty EXCEPT !.open = FALSE]
        BY <1>4 DEF Outside, RetireShuts, RetireClears, SendChunk, Vanish, Tee, ChildReads, ChildExits, CloseRegistry
    <2>2. PICK m \in 0..PtyRoom : m = PtyRoom
        BY <1>1
    <2>3. [pty EXCEPT !.room = m] \in [room : 0..PtyRoom, open : BOOLEAN]
        BY <1>1
    <2>4. [pty EXCEPT !.open = FALSE] \in [room : 0..PtyRoom, open : BOOLEAN]
        BY <1>1
    <2>5. pty' \in [room : 0..PtyRoom, open : BOOLEAN]
        BY <1>1, <2>1, <2>2, <2>3, <2>4
    <2> QED
        BY <1>0, <1>4, <2>5, OutsideFrame DEF OutputTyped
<1>5. CASE WriterLoop
    <2>1. CASE Take \/ NothingLeft
        BY <1>0, <2>1 DEF Take, NothingLeft, OutputTyped
    <2>2. CASE ServeClaim \/ ServeTakeover
        <3>1. [k |-> "human"] \in Effects
            BY DEF Effects
        <3>2. fx' = fx \/ fx' = Append(fx, [k |-> "human"]) \/ fx' = fx \o <<[k |-> "human"]>> \/ fx' = fx \o <<>>
            BY <2>2 DEF ServeClaim, ServeTakeover
        <3>3. fx' \in Seq(Effects)
            BY <1>1, <3>1, <3>2, Grows
        <3> QED
            BY <1>0, <2>2, <3>3 DEF ServeClaim, ServeTakeover, OutputTyped
    <2>3. CASE ServeResize
        <3>1. Now.c \in Conns /\ Now.e \in Nat
            BY <1>0, <2>3, NowTyped DEF ServeResize, Served, Controls
        <3>2. [what |-> "size", c |-> Now.c, e |-> Now.e] \in Entries
            BY <3>1 DEF Entries
        <3>3. applied' = applied \/ applied' = Append(applied, [what |-> "size", c |-> Now.c, e |-> Now.e])
            BY <2>3 DEF ServeResize
        <3>4. applied' \in Seq(Entries)
            BY <1>1, <3>2, <3>3, Grows
        <3> QED
            BY <1>0, <2>3, <3>4 DEF ServeResize, OutputTyped, Entries
    <2>4. CASE ServeDisconnect \/ ServeEnd
        <3>1. \A c \in Conns : Revoked(c, Acc(InHand, c), Tot(InHand, c)) \in Effects
            BY <1>0, InHandWeighs DEF Revoked, Effects
        <3>2. ASSUME NEW c, NEW e
              PROVE  ReleaseTold(c, e) \in Seq(Effects)
            <4>1. [k |-> "released"] \in Effects
                BY DEF Effects
            <4> QED
                BY <1>1, <4>1, Grows DEF ReleaseTold
        <3>3. CASE ServeDisconnect
            <4>1. PICK c \in Conns : fx' = fx \o ReleaseTold(c, Now.e) \o
                       IF Tot(InHand, c) > 0 THEN <<Revoked(c, Acc(InHand, c), Tot(InHand, c))>> ELSE <<>>
                BY <1>0, <3>3, NowTyped DEF ServeDisconnect, Served
            <4>2. (IF Tot(InHand, c) > 0 THEN <<Revoked(c, Acc(InHand, c), Tot(InHand, c))>> ELSE <<>>) \in Seq(Effects)
                BY <1>1, <3>1, Grows
            <4>3. fx \o ReleaseTold(c, Now.e) \in Seq(Effects)
                BY <1>1, <3>2, Grows
            <4>4. fx' \in Seq(Effects)
                BY <4>1, <4>2, <4>3, Grows
            <4> QED
                BY <1>0, <3>3, <4>4 DEF ServeDisconnect, OutputTyped
        <3>4. CASE ServeEnd
            <4>1. fx' \in Seq(Effects)
                BY <1>1, <3>2, <3>4, Grows DEF ServeEnd
            <4> QED
                BY <1>0, <3>4, <4>1 DEF ServeEnd, OutputTyped
        <3> QED
            BY <2>4, <3>3, <3>4
    <2>5. CASE WriteStep
        <3>1. Revoked(wr.cur.c, wr.cur.acc, wr.cur.tot) \in Effects
            BY <1>0, <2>5, Writes DEF Revoked, Effects
        <3>2. fx' = fx \/ fx' = Append(fx, Revoked(wr.cur.c, wr.cur.acc, wr.cur.tot))
            BY <1>0, <2>5, Writes
        <3>3. fx' \in Seq(Effects)
            BY <1>1, <3>1, <3>2, Grows
        <3>4. pty' \in [room : 0..PtyRoom, open : BOOLEAN] /\ applied' \in Seq(Entries)
            <4>1. CASE pty' = pty /\ applied' = applied
                BY <1>1, <4>1
            <4>2. CASE ~(pty' = pty /\ applied' = applied)
                <5>1. PICK n, m \in Nat : /\ m <= PtyRoom /\ pty' = [pty EXCEPT !.room = m]
                                          /\ applied' = applied \o Bytes(wr.cur.c, wr.cur.e, n)
                    BY <1>0, <2>5, <4>2, Writes
                <5>2. Bytes(wr.cur.c, wr.cur.e, n) \in Seq(Entries)
                    BY <1>0, <2>5, Writes, BytesTyped
                <5>3. applied' \in Seq(Entries)
                    BY <1>1, <5>1, <5>2, Grows
                <5>4. m \in 0..PtyRoom
                    BY <1>1, <5>1
                <5>5. pty' \in [room : 0..PtyRoom, open : BOOLEAN]
                    BY <1>1, <5>1, <5>4
                <5> QED
                    BY <5>3, <5>5
            <4> QED
                BY <4>1, <4>2
        <3> QED
            BY <1>0, <2>5, <3>3, <3>4 DEF WriteStep, OutputTyped, Entries
    <2> QED
        BY <1>5, <2>1, <2>2, <2>3, <2>4, <2>5 DEF WriterLoop
<1> QED
    BY <1>2, <1>3, <1>4, <1>5, StepKinds

LEMMA TypesKept ==
    ASSUME Sound, [Next]_vars
    PROVE  TypeOK'
BY TypeParts, AuthorityKept, ConnsKept, SocketsKept, ViewingKept, OutputKept, PTL
(***************************************************************************)
(* Where the connections are, and what they are told                       *)
(***************************************************************************)
\* The first of the controls.
LEMMA NowAsked ==
    ASSUME AuthorityTyped, Unserved
    PROVE  1 \in DOMAIN Asked /\ Asked[1] = Now /\ Now \in Controls /\ Asked \in Seq(Controls)
<1>1. wr.batch \in Seq(Controls) /\ controls \in Seq(Controls) /\ wr.batch # <<>>
    BY WriterTyped DEF Unserved, AuthorityTyped
<1>2. Len(wr.batch) > 0 /\ wr.batch[1] = Now
    BY <1>1 DEF Now
<1> QED
    BY <1>1, <1>2, NowTyped DEF Asked

\* What the writer changes of a handler: the answer it waits for, or an outcome.
Answered(d) ==
    /\ Unserved /\ d = Now.c /\ Asks(Now) /\ At(d, "reply") /\ conn[d].ans = "none"
    /\ conn'[d].ans # "none" /\ conn'[d].out = conn[d].out
    /\ \/ conn'[d].ans # "granted" /\ conn'[d].epoch = conn[d].epoch /\ arb' = arb
       \/ /\ conn'[d].ans = "granted" /\ arb' = Own(d) /\ conn'[d].epoch = arb'.epoch
          /\ arb.epoch < MaxEpoch
Told(d) ==
    /\ conn'[d].ans = conn[d].ans /\ conn'[d].epoch = conn[d].epoch
    /\ conn[d].pc \in {"await", "poll", "ended"}
    /\ \/ ServeEnd /\ d = wr.end.c /\ conn'[d].out = [why |-> "ended", acc |-> 0]
       \/ /\ WriteStep /\ d = wr.cur.c
          /\ \/ \E why \in {"revoked", "closed"} : conn'[d].out = [why |-> why, acc |-> wr.cur.acc]
             \/ conn'[d].out = [why |-> "accepted", acc |-> wr.cur.tot]
Stays(d) ==
    /\ conn'[d].pc = conn[d].pc /\ conn'[d].next = conn[d].next
    /\ conn'[d].wrote = conn[d].wrote /\ conn'[d].report = conn[d].report

LEMMA WriterTells ==
    ASSUME Sound, WriterLoop, NEW d \in Conns
    PROVE  Stays(d) /\ (conn'[d] = conn[d] \/ Answered(d) \/ Told(d))
<1>0. AuthorityTyped /\ OutputTyped /\ ConnsTyped /\ ControlsKnown
    BY TypeParts DEF Sound
<1>1. CASE Take \/ ServeResize \/ ServeDisconnect \/ NothingLeft
    BY <1>1 DEF Take, ServeResize, ServeDisconnect, NothingLeft, Stays
<1>2. CASE ServeClaim \/ ServeTakeover
    <2>1. Unserved /\ Asks(Now)
        BY <1>2 DEF ServeClaim, ServeTakeover, Served, Asks, Now
    <2>2. At(Now.c, "reply") /\ conn[Now.c].ans = "none" /\ Now.c \in Conns
        BY <1>0, <2>1, NowAsked, NowTyped DEF ControlsKnown, ControlKnown
    <2>3. arb.epoch \in 0..MaxEpoch /\ MaxEpoch \in Nat
        BY <1>0, ArbTyped, CapacityAssumption
    <2>4. PICK ans \in {"granted", "Agent", "Human", "exhausted"} :
              /\ Answer(Now.c, ans)
              /\ ans = "granted" => arb' = Own(Now.c) /\ arb.epoch < MaxEpoch
              /\ ans # "granted" => arb' = arb
        BY <1>2, <2>3 DEF ServeClaim, ServeTakeover, Kind
    <2>5. conn \in [Conns -> Handlers]
        BY <1>0 DEF ConnsTyped
    <2>6. CASE d = Now.c
        BY <2>1, <2>2, <2>4, <2>5, <2>6 DEF Answer, Answered, Stays, Handlers
    <2>7. CASE d # Now.c
        BY <2>4, <2>5, <2>7 DEF Answer, Stays
    <2> QED
        BY <2>6, <2>7
<1>3. CASE ServeEnd \/ WriteStep
    <2>1. ASSUME NEW c, NEW why, NEW acc, Tell(c, why, acc)
          PROVE  /\ Stays(d) /\ conn'[d].ans = conn[d].ans /\ conn'[d].epoch = conn[d].epoch
                 /\ conn'[d] # conn[d] => /\ d = c /\ conn[d].pc \in {"await", "poll", "ended"}
                                          /\ conn'[d].out = [why |-> why, acc |-> acc]
        <3>1. conn \in [Conns -> Handlers]
            BY <1>0 DEF ConnsTyped
        <3> QED
            BY <2>1, <3>1 DEF Tell, Stays, Handlers
    <2>2. CASE ServeEnd
        <3>1. Tell(wr.end.c, "ended", 0)
            BY <2>2 DEF ServeEnd
        <3> QED
            BY <2>1, <2>2, <3>1 DEF Told
    <2>3. CASE WriteStep
        <3>1. \/ conn' = conn \/ Tell(wr.cur.c, "closed", wr.cur.acc)
              \/ Tell(wr.cur.c, "revoked", wr.cur.acc) \/ Tell(wr.cur.c, "accepted", wr.cur.tot)
            BY <1>0, <2>3, Writes
        <3> QED
            BY <2>1, <2>3, <3>1 DEF Told, Stays
    <2> QED
        BY <1>3, <2>2, <2>3
<1> QED
    BY <1>1, <1>2, <1>3 DEF WriterLoop

Kept(c) ==
    /\ conn'[c].ans = conn[c].ans /\ conn'[c].next = conn[c].next /\ conn'[c].wrote = conn[c].wrote
    /\ conn'[c].out = conn[c].out /\ conn'[c].report = conn[c].report

LEMMA GoesTo ==
    ASSUME conn \in [Conns -> Handlers], NEW c \in Conns, NEW pc, Goto(c, pc)
    PROVE  conn'[c].pc = pc /\ Kept(c)
BY DEF Goto, Kept, Handlers

\* What a handler's step does to its place among the frames.
Reads(c) ==
    /\ \/ conn'[c].next = conn[c].next
       \/ /\ More(c) /\ conn'[c].next = conn[c].next + 1
          /\ \/ At(c, "relay") /\ Frame(c) = 0 /\ ~Viewing(c) /\ conn'[c].pc = "relay"
             \/ At(c, "resize") /\ conn'[c].pc = "relay"
             \/ /\ At(c, "queue") /\ conn'[c].pc = IF Viewing(c) THEN "relay" ELSE "await"
                /\ conn'[c].out = NoOutcome
    /\ conn'[c].pc \in {"queue", "resize"} => 
          /\ At(c, "relay") /\ More(c) /\ conn'[c].next = conn[c].next
          /\ conn'[c].pc = "queue" => Frame(c) > 0
          /\ conn'[c].pc = "resize" => Frame(c) = 0
    /\ conn'[c].pc \in {"await", "poll"} =>
          \/ conn'[c].next = conn[c].next /\ conn[c].pc \in {"await", "poll"} /\ conn'[c].out = conn[c].out
          \/ At(c, "queue") /\ conn'[c].next = conn[c].next + 1 /\ conn'[c].out = NoOutcome

\* Where a handler's step takes it.
Goes(c) ==
    /\ Mode(c) # "absent"
    /\ conn'[c].pc \in {"check", "put", "resize", "bye", "unsink"} => Viewing(c)
    /\ conn'[c].pc \in {"hello", "accept", "unreg"} => OnSocket(c)
    /\ conn'[c].pc \in {"await", "poll", "end", "ended", "drain", "stop", "gone", "quit"} =>
          Mode(c) \in {"push", "fifo"}
    /\ conn'[c].pc \in {"stop", "gone", "poll"} => Mode(c) = "push"
    /\ conn'[c].pc = "drain" => Mode(c) = "fifo"
    /\ conn'[c].pc = "accept" => conn'[c].ans = "granted"

LEMMA HandlerReads ==
    ASSUME NEW c \in Conns, ConnsTyped, Whereabouts(c), HandlerMoves(c)
    PROVE  Reads(c) /\ Goes(c)
<1> USE DEF Reads, Goes, At, Kept, OnSocket, Viewing, Modes, Whereabouts
<1>1. /\ conn \in [Conns -> Handlers] /\ conn[c] \in Handlers /\ conn[c].next \in Nat /\ Mode(c) \in Modes
      /\ conn[c].next + 1 # conn[c].next
    BY FramesTyped DEF ConnsTyped
<1>2. \A pc : Goto(c, pc) => conn'[c].pc = pc /\ Kept(c)
    BY <1>1, GoesTo
<1>3. CASE Connect(c)
    BY <1>1, <1>2, <1>3 DEF Connect
<1>4. CASE Hello(c)
    BY <1>1, <1>2, <1>4 DEF Hello
<1>5. CASE Ask(c)
    BY <1>1, <1>2, <1>5 DEF Ask
<1>6. CASE Reply(c)
    BY <1>1, <1>2, <1>6 DEF Reply
<1>7. CASE Accept(c)
    BY <1>1, <1>2, <1>7 DEF Accept
<1>8. CASE CheckViewer(c)
    BY <1>1, <1>2, <1>8 DEF CheckViewer
<1>9. CASE PutViewer(c)
    BY <1>1, <1>2, <1>9 DEF PutViewer
<1>10. CASE ReadFails(c)
    BY <1>1, <1>2, <1>10 DEF ReadFails, Handlers
<1>11. CASE QueueInput(c)
    BY <1>1, <1>2, <1>11 DEF QueueInput, Handlers
<1>12. CASE QueueResize(c)
    BY <1>1, <1>2, <1>12 DEF QueueResize
<1>13. CASE Await(c)
    BY <1>1, <1>2, <1>13 DEF Await, Stopped, NoOutcome, Handlers
<1>14. CASE PollClient(c)
    BY <1>1, <1>2, <1>14 DEF PollClient
<1>15. CASE Drain(c)
    BY <1>1, <1>2, <1>15 DEF Drain
<1>16. CASE QueueEnd(c)
    BY <1>1, <1>2, <1>16 DEF QueueEnd
<1>17. CASE Ended(c)
    BY <1>1, <1>2, <1>17 DEF Ended
<1>18. CASE VanishedPush(c)
    BY <1>1, <1>2, <1>18 DEF VanishedPush
<1>19. CASE Disconnect(c)
    BY <1>1, <1>2, <1>19 DEF Disconnect
<1>20. CASE Unregister(c)
    BY <1>1, <1>2, <1>20 DEF Unregister
<1>21. CASE Unsink(c)
    BY <1>1, <1>2, <1>21 DEF Unsink
<1>22. CASE ReadFrame(c)
    BY <1>1, <1>2, <1>22 DEF ReadFrame, Handlers
<1>23. CASE ReadEnd(c)
    BY <1>1, <1>2, <1>23 DEF ReadEnd
<1> QED
    BY <1>3, <1>4, <1>5, <1>6, <1>7, <1>8, <1>9, <1>10, <1>11, <1>12, <1>13, <1>14, <1>15, <1>16, <1>17, <1>18, <1>19, <1>20, <1>21, <1>22, <1>23
       DEF HandlerMoves, HandlerStep

LEMMA OutcomesKept ==
    ASSUME Sound, Next, NEW d \in Conns
    PROVE  Whereabouts(d)' /\ OutcomeFits(d)'
<1>0. /\ AuthorityTyped /\ ConnsTyped /\ OutputTyped /\ Whereabouts(d) /\ OutcomeFits(d) /\ setup' = setup
      /\ \A c \in Conns : Whereabouts(c) /\ OutcomeFits(c)
    BY TypeParts, StepKinds DEF Sound
<1>1. CASE conn'[d] = conn[d]
    <2>1. Whereabouts(d)'
        BY <1>0, <1>1 DEF Whereabouts, At, Mode, Viewing, OnSocket, More, Frame
    <2>2. OutcomeFits(d)'
        BY <1>0, <1>1 DEF OutcomeFits, Size
    <2> QED
        BY <2>1, <2>2
<1>2. CASE WriterLoop
    <2>1. Stays(d) /\ (conn'[d] = conn[d] \/ Answered(d) \/ Told(d))
        BY <1>2, WriterTells
    <2>2. CASE Answered(d)
        <3>1. Whereabouts(d)'
            BY <1>0, <2>1, <2>2 DEF Whereabouts, At, Mode, Viewing, OnSocket, More, Frame, Answered, Stays
        <3>2. OutcomeFits(d)'
            BY <1>0, <2>1, <2>2 DEF OutcomeFits, Size, Answered, Stays, At
        <3> QED
            BY <3>1, <3>2
    <2>3. CASE Told(d)
        <3>1. Whereabouts(d)'
            BY <1>0, <2>1, <2>3 DEF Whereabouts, At, Mode, Viewing, OnSocket, More, Frame, Told, Stays
        <3>2. CASE ServeEnd
            <4>1. wr.end \in Items /\ wr.end # NoInput
                BY <3>2 DEF ServeEnd, Items
            <4>2. At(wr.end.c, "ended")
                BY <4>1 DEF Sound, ItemsKnown, ItemKnown, WriterShape
            <4>3. d = wr.end.c
                BY <2>3, <3>2 DEF Told, ServeEnd, WriteStep
            <4> QED
                BY <2>1, <3>1, <4>2, <4>3 DEF OutcomeFits, At, Stays
        <3>3. CASE WriteStep /\ conn[d].pc \in {"await", "poll"}
            <4>1. wr.cur \in Items /\ wr.cur # NoInput /\ wr.cur.op = "write" /\ d = wr.cur.c
                BY <2>3, <3>3 DEF WriteStep, ServeEnd, Items, Sound, WriterShape, Told
            <4>2. wr.cur.acc < wr.cur.tot /\ ~Viewing(d) /\ wr.cur.tot = Size(d)
                BY <1>0, <3>3, <4>1 DEF Sound, ItemsKnown, ItemKnown, Whereabouts, Viewing
            <4>3. wr.cur.acc \in Nat /\ wr.cur.tot \in Nat
                BY <1>0, <3>3, Writes
            <4>4. Size(d)' = Size(d)
                BY <1>0, <2>1 DEF Size, Stays
            <4>5. \/ \E why \in {"revoked", "closed"} : conn'[d].out = [why |-> why, acc |-> wr.cur.acc]
                  \/ conn'[d].out = [why |-> "accepted", acc |-> wr.cur.tot]
                BY <2>3, <3>3 DEF Told, ServeEnd, WriteStep
            <4> QED
                BY <3>1, <4>2, <4>3, <4>4, <4>5 DEF OutcomeFits
        <3>4. CASE ~(conn[d].pc \in {"await", "poll"})
            BY <2>1, <3>1, <3>4 DEF OutcomeFits, Stays
        <3> QED
            BY <2>3, <3>2, <3>3, <3>4 DEF Told
    <2> QED
        BY <1>1, <2>1, <2>2, <2>3
<1>3. CASE Outside
    BY <1>1, <1>3, OutsideFrame
<1>4. ASSUME NEW c \in Conns, HandlerMoves(c)
      PROVE  Whereabouts(d)' /\ OutcomeFits(d)'
    <2>1. Moved(c) /\ conn'[c] \in Handlers /\ conn \in [Conns -> Handlers]
        BY <1>0, <1>4, HandlerMoved DEF ConnsTyped
    <2>2. CASE d # c
        BY <1>1, <2>1, <2>2 DEF Moved
    <2>3. CASE d = c
        <3>0. /\ HandlerMoves(d) /\ conn[d] \in Handlers /\ conn[d].next \in Nat /\ Len(setup.frames[d]) \in Nat
              /\ Mode(d) \in Modes
            BY <1>0, <1>4, <2>3, FramesTyped
        <3>1. Mode(d)' = Mode(d) /\ Viewing(d)' = Viewing(d) /\ OnSocket(d)' = OnSocket(d)
            BY <1>0 DEF Mode, Viewing, OnSocket
        <3>2. Reads(d) /\ Goes(d)
            BY <1>0, <1>4, <2>3, HandlerReads
        <3>3. CASE conn'[d].next = conn[d].next
            <4>1. More(d)' = More(d) /\ Frame(d)' = Frame(d) /\ Size(d)' = Size(d)
                BY <1>0, <3>3 DEF More, Frame, Size
            <4>2. Whereabouts(d)'
                BY <1>0, <3>0, <3>1, <3>2, <3>3, <4>1 DEF Reads, Goes, Whereabouts, At
            <4>3. OutcomeFits(d)'
                BY <1>0, <3>0, <3>1, <3>2, <3>3, <4>1 DEF Reads, Goes, OutcomeFits, At
            <4> QED
                BY <4>2, <4>3
        <3>4. CASE conn'[d].next # conn[d].next
            <4>1. /\ More(d) /\ conn'[d].next = conn[d].next + 1
                  /\ conn'[d].pc \in {"relay", "await"}
                  /\ conn'[d].pc = "await" => conn'[d].out = NoOutcome
                BY <3>2, <3>4 DEF Reads
            <4>2. /\ conn'[d].next \in 1..(Len(setup.frames[d]) + 1) /\ conn'[d].next > 1
                BY <1>0, <3>0, <4>1 DEF Whereabouts, More
            <4>3. Whereabouts(d)'
                BY <1>0, <3>0, <3>1, <3>2, <4>1, <4>2 DEF Goes, Whereabouts, At
            <4>4. OutcomeFits(d)'
                BY <4>1 DEF OutcomeFits
            <4> QED
                BY <4>3, <4>4
        <3> QED
            BY <3>3, <3>4
    <2> QED
        BY <2>2, <2>3
<1> QED
    BY <1>2, <1>3, <1>4, StepKinds
(***************************************************************************)
(* The writer, the epochs and the controls                                 *)
(***************************************************************************)
LEMMA WriterShapeKept ==
    ASSUME Sound, Next
    PROVE  WriterShape'
<1>0. AuthorityTyped /\ WriterShape /\ ConnsTyped
    BY TypeParts DEF Sound
<1>1. CASE Take
    <2>1. inputs # <<>> => Head(inputs) \in Inputs
        BY <1>0 DEF AuthorityTyped
    <2>2. /\ \A x \in Inputs : x.op \in {"write", "end"} /\ x # NoInput
          /\ NoInput.op = "none"
        BY DEF Inputs, NoInput
    <2> QED
        BY <1>0, <1>1, <2>1, <2>2 DEF Take, WriterShape
<1>2. CASE ServeClaim \/ ServeTakeover \/ ServeResize \/ ServeDisconnect \/ ServeEnd
    <2>1. /\ wr'.pc = IF ServeEnd THEN "take" ELSE "serve"
          /\ ServeEnd => wr'.batch = <<>> /\ wr'.end = NoInput
          /\ wr'.cur = wr.cur \/ wr'.cur = NoInput
          /\ wr'.end = wr.end \/ wr'.end = NoInput
        <3>1. CASE ServeClaim \/ ServeTakeover \/ ServeResize
            BY <1>0, <3>1, WriterTyped DEF ServeClaim, ServeTakeover, ServeResize, ServeEnd, Served, Serving, Done
        <3>2. CASE ServeDisconnect
            BY <1>0, <3>2, WriterTyped DEF ServeDisconnect, ServeEnd, Served, Serving
        <3>3. CASE ServeEnd
            BY <1>0, <3>3, WriterTyped DEF ServeEnd, Unserved
        <3> QED
            BY <1>2, <3>1, <3>2, <3>3
    <2> QED
        BY <1>0, <2>1 DEF WriterShape
<1>3. CASE WriteStep
    <2>1. Idle \/ \E n \in Nat : wr' = [wr EXCEPT !.pc = "take", !.cur.acc = @ + n]
        <3>1. OutputTyped
            BY TypeParts DEF Sound
        <3> QED
            BY <1>0, <1>3, <3>1, Writes
    <2>2. CASE Idle
        BY <2>2 DEF Idle, WriterShape
    <2>3. ASSUME NEW n \in Nat, wr' = [wr EXCEPT !.pc = "take", !.cur.acc = @ + n]
          PROVE  WriterShape'
        BY <1>0, <1>3, <2>3, WriterTyped DEF WriteStep, Unserved, WriterShape, Inputs
    <2> QED
        BY <2>1, <2>2, <2>3
<1>4. CASE NothingLeft
    BY <1>4 DEF NothingLeft, Idle, WriterShape
<1>5. CASE ~WriterLoop
    <2>1. wr' = wr
        BY <1>0, <1>5, StepKinds, HandlerFrame, OutsideFrame
    <2> QED
        BY <1>0, <2>1 DEF WriterShape
<1> QED
    BY <1>1, <1>2, <1>3, <1>4, <1>5 DEF WriterLoop

\* Who holds control changes only in the writer, and a grant is answered at once.
Granted ==
    /\ Unserved /\ Asks(Now) /\ Now.c \in Conns /\ arb.epoch < MaxEpoch
    /\ arb' = Own(Now.c) /\ conn'[Now.c].epoch = arb'.epoch /\ conn'[Now.c].ans = "granted"
    /\ ServeClaim \/ ServeTakeover

LEMMA ControlMoves ==
    ASSUME Sound, WriterLoop
    PROVE  \/ Granted
           \/ /\ arb' = arb \/ arb' = [arb EXCEPT !.owned = FALSE]
              /\ \A d \in Conns : conn'[d].epoch = conn[d].epoch
<1>0. AuthorityTyped /\ ConnsTyped /\ OutputTyped
    BY TypeParts DEF Sound
<1>1. CASE ServeClaim \/ ServeTakeover
    <2>1. Unserved /\ Asks(Now) /\ Now.c \in Conns
        BY <1>0, <1>1, NowTyped DEF ServeClaim, ServeTakeover, Served, Asks, Now
    <2>2. arb.epoch \in Nat /\ arb.epoch <= MaxEpoch /\ MaxEpoch \in Nat
        BY <1>0, ArbTyped, CapacityAssumption
    <2>3. CASE arb' = arb
        <3>1. Own(Now.c) # arb
            BY <2>2 DEF Own
        <3>2. \A d \in Conns : conn'[d].epoch = conn[d].epoch
            BY <2>3, <3>1, WriterTells DEF Answered, Told
        <3> QED
            BY <2>3, <3>2
    <2>4. CASE arb' # arb
        <3>1. arb' = Own(Now.c) /\ arb.epoch < MaxEpoch /\ Answer(Now.c, "granted")
            BY <1>1, <2>2, <2>4 DEF ServeClaim, ServeTakeover
        <3>2. conn'[Now.c].epoch = arb'.epoch /\ conn'[Now.c].ans = "granted"
            BY <1>0, <2>1, <3>1 DEF Answer, ConnsTyped, Handlers
        <3> QED
            BY <1>1, <2>1, <3>1, <3>2 DEF Granted
    <2> QED
        BY <2>3, <2>4
<1>2. CASE ~(ServeClaim \/ ServeTakeover)
    <2>1. arb' = arb \/ arb' = [arb EXCEPT !.owned = FALSE]
        BY <1>2 DEF WriterLoop, Take, ServeResize, ServeDisconnect, ServeEnd, WriteStep, NothingLeft, AfterRelease
    <2>2. \A c : arb' # Own(c)
        BY <1>0, <2>1, ArbTyped DEF Own
    <2>3. \A d \in Conns : conn'[d].epoch = conn[d].epoch
        BY <2>2, WriterTells DEF Answered, Told
    <2> QED
        BY <2>1, <2>3
<1> QED
    BY <1>1, <1>2

LEMMA EpochsKept ==
    ASSUME Sound, Next
    PROVE  EpochsOrdered'
<1>0. /\ AuthorityTyped /\ ConnsTyped /\ EpochsOrdered /\ arb.epoch \in Nat
      /\ \A d \in Conns : conn[d].epoch \in Nat
      /\ \A d \in Conns : Whereabouts(d) /\ OutcomeFits(d)
    BY TypeParts, ArbTyped, FramesTyped, CapacityAssumption DEF Sound, Handlers
<1>1. ASSUME arb' = arb \/ arb' = [arb EXCEPT !.owned = FALSE],
             \A d \in Conns : conn'[d].epoch = conn[d].epoch
      PROVE  EpochsOrdered'
    BY <1>0, <1>1, ArbTyped DEF EpochsOrdered
<1>2. CASE Outside
    BY <1>1, <1>2, OutsideFrame
<1>3. ASSUME NEW c \in Conns, HandlerMoves(c)
      PROVE  EpochsOrdered'
    <2>1. Moved(c) /\ arb' = arb
        BY <1>0, <1>3, HandlerMoved, HandlerFrame
    <2>2. \A d \in Conns : conn'[d].epoch = conn[d].epoch
        BY <1>0, <2>1 DEF Moved, ConnsTyped
    <2> QED
        BY <1>1, <2>1, <2>2
<1>4. CASE WriterLoop /\ ~Granted
    BY <1>1, <1>4, ControlMoves
<1>5. CASE WriterLoop /\ Granted
    <2>1. /\ arb'.epoch = arb.epoch + 1 /\ arb'.owned /\ arb'.holder = Now.c
          /\ Now.c \in Conns /\ conn'[Now.c].epoch = arb.epoch + 1
        BY <1>5 DEF Granted, Own
    <2>2. ASSUME NEW d \in Conns, d # Now.c
          PROVE  conn'[d].epoch = conn[d].epoch
        BY <1>5, <2>2, WriterTells DEF Answered, Told
    <2> QED
        BY <1>0, <2>1, <2>2 DEF EpochsOrdered
<1> QED
    BY <1>2, <1>3, <1>4, <1>5, StepKinds

\* What a handler queues for control, and that it does not move on before its answer.
LEMMA HandlerAsks ==
    ASSUME NEW c \in Conns, ConnsTyped, HandlerMoves(c)
    PROVE  /\ ~(At(c, "reply") /\ conn[c].ans = "none")
           /\ conn[c].pc \in {"unreg", "unsink", "done"} => conn'[c].pc \in {"unreg", "unsink", "done"}
           /\ \/ controls' = controls
              \/ \E k \in Controls :
                    /\ k.c = c /\ controls' = Append(controls, k)
                    /\ Asks(k) => /\ At(c, "ask") /\ conn'[c].pc = "reply" /\ conn'[c].ans = "none"
                                  /\ k.op = "takeover" <=> Mode(c) = "takeover"
                    /\ k.op = "disconnect" => conn'[c].pc \in {"unreg", "unsink", "done"}
<1>1. conn \in [Conns -> Handlers] /\ conn[c] \in Handlers /\ conn[c].epoch \in Nat
    BY FramesTyped, CapacityAssumption DEF ConnsTyped, Handlers
<1>2. \A pc : Goto(c, pc) => conn'[c].pc = pc /\ Kept(c)
    BY <1>1, GoesTo
<1>3. ASSUME NEW op \in {"claim", "takeover", "resize", "disconnect"}, PushControl(op, c)
      PROVE  \E k \in Controls : k.c = c /\ k.op = op /\ controls' = Append(controls, k)
    BY <1>1, <1>3 DEF PushControl, Controls
<1>4. CASE Ask(c)
    <2>1. PICK op \in {"claim", "takeover"} : PushControl(op, c) /\ (op = "takeover" <=> Mode(c) = "takeover")
        BY <1>4 DEF Ask
    <2>2. conn'[c].pc = "reply" /\ conn'[c].ans = "none" /\ At(c, "ask")
        BY <1>1, <1>4 DEF Ask, Handlers
    <2> QED
        BY <1>3, <2>1, <2>2 DEF At
<1>5. CASE QueueResize(c)
    <2>1. PushControl("resize", c) /\ At(c, "resize")
        BY <1>5 DEF QueueResize
    <2> QED
        BY <1>3, <2>1 DEF At, Asks
<1>6. CASE Disconnect(c)
    <2>1. PushControl("disconnect", c) /\ conn[c].pc \in {"stop", "quit", "bye"} /\ conn'[c].pc \in {"unreg", "done"}
        BY <1>2, <1>6 DEF Disconnect
    <2> QED
        BY <1>3, <2>1 DEF At, Asks
<1>7. CASE ~Ask(c) /\ ~QueueResize(c) /\ ~Disconnect(c)
    BY <1>2, <1>7 DEF HandlerMoves, HandlerStep, Connect, Hello, Reply, Accept, CheckViewer, PutViewer,
       ReadFails, QueueInput, QueueEnd, Await, PollClient, Drain, Ended, VanishedPush, Unregister, Unsink,
       ReadFrame, ReadEnd, authority, At
<1> QED
    BY <1>4, <1>5, <1>6, <1>7
LEMMA Joins ==
    ASSUME NEW T, NEW s \in Seq(T), NEW t \in Seq(T)
    PROVE  /\ s \o t \in Seq(T)
           /\ s # <<>> => Tail(s) \o t = Tail(s \o t)
OBVIOUS

LEMMA AskedAppend ==
    ASSUME AuthorityTyped, NEW k \in Controls, wr' = wr, controls' = Append(controls, k)
    PROVE  Asked' = Append(Asked, k)
<1>1. PICK b \in Seq(Controls) : b = wr.batch
    BY WriterTyped
<1>2. controls \in Seq(Controls)
    BY DEF AuthorityTyped
<1>3. b \o Append(controls, k) = Append(b \o controls, k)
    BY <1>2
<1> QED
    BY <1>1, <1>3 DEF Asked

\* The controls of which the writer has to answer some: served from the front, queued
\* at the back.
AskedServed == Unserved /\ WriterLoop /\ Asked' = Tail(Asked)
AskedMore(c) ==
    HandlerMoves(c) /\ \E k \in Controls : controls' = Append(controls, k) /\ k.c = c /\ Asked' = Append(Asked, k)

LEMMA AskedMoves ==
    ASSUME Sound, Next
    PROVE  \/ Asked' = Asked
           \/ AskedServed
           \/ \E c \in Conns : AskedMore(c)
<1>0. /\ AuthorityTyped /\ ConnsTyped /\ OutputTyped /\ WriterShape /\ controls \in Seq(Controls) /\ wr.batch \in Seq(Controls)
      /\ \A d \in Conns : Whereabouts(d) /\ OutcomeFits(d)
    BY TypeParts, WriterTyped DEF Sound, AuthorityTyped
<1>1. CASE Take
    <2>1. wr.batch = <<>> /\ wr'.batch = controls /\ controls' = <<>>
        BY <1>0, <1>1 DEF Take, WriterShape
    <2> QED
        BY <1>0, <2>1 DEF Asked
<1>2. CASE ServeClaim \/ ServeTakeover \/ ServeResize \/ ServeDisconnect
    <2>1. Unserved /\ wr'.batch = Tail(wr.batch) /\ controls' = controls
        BY <1>0, <1>2, WriterTyped DEF ServeClaim, ServeTakeover, ServeResize, ServeDisconnect, Served, Done
    <2>2. wr.batch # <<>>
        BY <2>1 DEF Unserved
    <2>3. Asked' = Tail(wr.batch) \o controls
        BY <2>1 DEF Asked
    <2>4. Tail(wr.batch) \o controls = Tail(wr.batch \o controls)
        BY <1>0, <2>2, Joins
    <2> QED
        BY <1>2, <2>1, <2>3, <2>4 DEF AskedServed, Asked, WriterLoop
<1>3. CASE ServeEnd \/ WriteStep \/ NothingLeft
    <2>1. ~Unserved /\ wr'.batch = <<>> /\ controls' = controls
        <3>1. CASE ServeEnd
            BY <1>0, <3>1, WriterTyped DEF ServeEnd, Unserved
        <3>2. CASE NothingLeft
            BY <3>2 DEF NothingLeft, Idle
        <3>3. CASE WriteStep
            <4>1. Idle \/ \E n \in Nat : wr' = [wr EXCEPT !.pc = "take", !.cur.acc = @ + n]
                BY <1>0, <3>3, Writes
            <4>2. ~Unserved /\ controls' = controls
                BY <3>3 DEF WriteStep
            <4>3. Idle => wr'.batch = <<>>
                BY DEF Idle
            <4>4. ASSUME NEW n \in Nat, wr' = [wr EXCEPT !.pc = "take", !.cur.acc = @ + n]
                  PROVE  wr'.batch = <<>>
                BY <1>0, <4>2, <4>4, WriterTyped DEF Unserved
            <4> QED
                BY <4>1, <4>2, <4>3, <4>4
        <3> QED
            BY <1>3, <3>1, <3>2, <3>3
    <2>2. wr.batch = <<>>
        BY <2>1 DEF Unserved
    <2> QED
        BY <2>1, <2>2 DEF Asked
<1>4. CASE Outside
    BY <1>4, OutsideFrame DEF Asked
<1>5. ASSUME NEW c \in Conns, HandlerMoves(c)
      PROVE  Asked' = Asked \/ AskedMore(c)
    <2>1. wr' = wr
        BY <1>0, <1>5, HandlerFrame
    <2>2. CASE controls' = controls
        BY <2>1, <2>2 DEF Asked
    <2>3. CASE controls' # controls
        <3>1. PICK k \in Controls : k.c = c /\ controls' = Append(controls, k)
            BY <1>0, <1>5, <2>3, HandlerAsks
        <3>2. Asked' = Append(Asked, k)
            BY <1>0, <2>1, <3>1, AskedAppend
        <3> QED
            BY <1>5, <3>1, <3>2 DEF AskedMore
    <2> QED
        BY <2>2, <2>3
<1> QED
    BY <1>1, <1>2, <1>3, <1>4, <1>5, StepKinds DEF WriterLoop

LEMMA ControlsKept ==
    ASSUME Sound, Next
    PROVE  ControlsKnown'
<1>0. /\ AuthorityTyped /\ ConnsTyped /\ ControlsKnown /\ setup' = setup
      /\ \A d \in Conns : Whereabouts(d) /\ OutcomeFits(d)
    BY TypeParts, StepKinds DEF Sound
<1>1. PICK s : s = Asked
    OBVIOUS
<1>2. /\ s \in Seq(Controls)
      /\ \A i \in DOMAIN s : ControlKnown(s[i]) /\ s[i] \in Controls /\ s[i].c \in Conns
      /\ \A i, j \in DOMAIN s : Asks(s[i]) /\ Asks(s[j]) /\ s[i].c = s[j].c => i = j
    <2>1. s \in Seq(Controls)
        <3>1. wr.batch \in Seq(Controls) /\ controls \in Seq(Controls)
            BY <1>0, WriterTyped DEF AuthorityTyped
        <3> QED
            BY <1>1, <3>1, Joins DEF Asked
    <2>2. \A i \in DOMAIN s : s[i] \in Controls /\ s[i].c \in Conns
        <3>1. \A k \in Controls : k.c \in Conns
            BY DEF Controls
        <3>2. \A i \in DOMAIN s : s[i] \in Controls
            BY <2>1
        <3> QED
            BY <3>1, <3>2
    <2> QED
        BY <1>0, <1>1, <2>1, <2>2 DEF ControlsKnown
<1>3. \A k : Asks(k)' = Asks(k)
    BY DEF Asks
<1>4. ASSUME NEW k \in Controls, ControlKnown(k), k.c \in Conns, Stays(k.c),
             Asks(k) => conn'[k.c].ans = conn[k.c].ans
      PROVE  ControlKnown(k)'
    BY <1>0, <1>3, <1>4 DEF ControlKnown, At, Mode, Stays
<1>5. ASSUME NEW t, Asked' = t, \A i \in DOMAIN t : ControlKnown(t[i])',
             \A i, j \in DOMAIN t : Asks(t[i]) /\ Asks(t[j]) /\ t[i].c = t[j].c => i = j
      PROVE  ControlsKnown'
    BY <1>3, <1>5 DEF ControlsKnown
<1>6. CASE WriterLoop
    <2>1. (Asked' = s) \/ (Unserved /\ Asked' = Tail(s))
        <3>1. ASSUME NEW c \in Conns, AskedMore(c)
              PROVE  FALSE
            <4>1. PICK k : controls' = Append(controls, k)
                BY <3>1 DEF AskedMore
            <4>2. controls' = <<>> \/ controls' = controls
                BY <1>6 DEF WriterLoop, Take, ServeClaim, ServeTakeover, ServeResize, ServeDisconnect, ServeEnd, WriteStep, NothingLeft
            <4>3. controls \in Seq(Controls)
                BY <1>0 DEF AuthorityTyped
            <4>4. Len(Append(controls, k)) = Len(controls) + 1 /\ Len(controls) \in Nat
                BY <4>3
            <4> QED
                BY <4>1, <4>2, <4>4
        <3> QED
            BY <1>1, <3>1, AskedMoves DEF AskedServed
    <2>2. CASE Asked' = s /\ ~Unserved
        <3>1. ASSUME NEW i \in DOMAIN s
              PROVE  ControlKnown(s[i])'
            <4>1. Stays(s[i].c) /\ conn'[s[i].c].ans = conn[s[i].c].ans
                BY <1>2, <1>6, <2>2, WriterTells DEF Answered, Told
            <4> QED
                BY <1>2, <1>4, <4>1
        <3> QED
            BY <1>2, <1>5, <2>2, <3>1
    <2>3. CASE Unserved
        <3>1. 1 \in DOMAIN s /\ s[1] = Now /\ s # <<>> /\ Asked' = Tail(s)
            <4>1. 1 \in DOMAIN s /\ s[1] = Now /\ s # <<>>
                BY <1>0, <1>1, <1>2, <2>3, NowAsked
            <4>2. ~(Take \/ ServeEnd \/ WriteStep \/ NothingLeft)
                BY <1>0, <2>3 DEF Take, ServeEnd, WriteStep, NothingLeft, Sound, WriterShape, Unserved
            <4>3. wr'.batch = Tail(wr.batch) /\ controls' = controls
                BY <1>0, <1>6, <4>2, WriterTyped DEF WriterLoop, ServeClaim, ServeTakeover, ServeResize, ServeDisconnect, Done
            <4>4. Asked' = Tail(wr.batch) \o controls
                BY <4>3 DEF Asked
            <4>5. wr.batch # <<>> /\ wr.batch \in Seq(Controls) /\ controls \in Seq(Controls)
                BY <1>0, <2>3, WriterTyped DEF Unserved, AuthorityTyped
            <4> QED
                BY <1>1, <4>1, <4>4, <4>5, Joins DEF Asked
        <3>2. ASSUME NEW i \in DOMAIN s, i # 1
              PROVE  ControlKnown(s[i])'
            <4>1. Asks(s[i]) /\ Asks(s[1]) => s[i].c # s[1].c
                BY <1>2, <3>1, <3>2
            <4>2. Stays(s[i].c) /\ (Asks(s[i]) => conn'[s[i].c].ans = conn[s[i].c].ans)
                BY <1>2, <1>6, <3>1, <4>1, WriterTells DEF Answered, Told
            <4> QED
                BY <1>2, <1>4, <4>2
        <3>3. PICK t : t = Tail(s)
            OBVIOUS
        <3>4. \A i \in DOMAIN t : i + 1 \in DOMAIN s /\ i + 1 # 1 /\ t[i] = s[i + 1] /\ i \in Nat
            BY <1>2, <3>1, <3>3
        <3>5. \A i \in DOMAIN t : ControlKnown(t[i])'
            BY <3>2, <3>4
        <3>6. ASSUME NEW i \in DOMAIN t, NEW j \in DOMAIN t, Asks(t[i]), Asks(t[j]), t[i].c = t[j].c
              PROVE  i = j
            <4>1. i + 1 = j + 1
                BY <1>2, <3>4, <3>6
            <4> QED
                BY <3>4, <4>1
        <3> QED
            BY <1>5, <3>1, <3>3, <3>5, <3>6
    <2> QED
        BY <2>1, <2>2, <2>3
<1>7. CASE Outside
    <2>1. conn' = conn /\ Asked' = s
        BY <1>1, <1>7, OutsideFrame DEF Asked
    <2>2. ASSUME NEW i \in DOMAIN s
          PROVE  ControlKnown(s[i])'
        BY <1>2, <1>4, <2>1 DEF Stays
    <2> QED
        BY <1>2, <1>5, <2>1, <2>2
<1>8. ASSUME NEW c \in Conns, HandlerMoves(c)
      PROVE  ControlsKnown'
    <2>1. /\ Moved(c) /\ conn \in [Conns -> Handlers] /\ wr' = wr
          /\ ~(At(c, "reply") /\ conn[c].ans = "none")
          /\ conn[c].pc \in {"unreg", "unsink", "done"} => conn'[c].pc \in {"unreg", "unsink", "done"}
        BY <1>0, <1>8, HandlerMoved, HandlerAsks, HandlerFrame DEF ConnsTyped
    <2>2. ASSUME NEW i \in DOMAIN s
          PROVE  ControlKnown(s[i])'
        <3>1. s[i].c \in Conns /\ ControlKnown(s[i])
            BY <1>2
        <3>2. CASE s[i].c # c
            <4>1. conn'[s[i].c] = conn[s[i].c]
                BY <2>1, <3>1, <3>2 DEF Moved
            <4> QED
                BY <1>2, <1>4, <3>1, <4>1 DEF Stays
        <3>3. CASE s[i].c = c
            <4>1. ~Asks(s[i])
                BY <2>1, <3>1, <3>3 DEF ControlKnown
            <4> QED
                BY <1>3, <2>1, <3>1, <3>3, <4>1 DEF ControlKnown
        <3> QED
            BY <3>2, <3>3
    <2>3. CASE controls' = controls
        <3>1. Asked' = s
            BY <1>1, <2>1, <2>3 DEF Asked
        <3> QED
            BY <1>2, <1>5, <2>2, <3>1
    <2>4. CASE controls' # controls
        <3>1. PICK k \in Controls :
                    /\ k.c = c /\ controls' = Append(controls, k)
                    /\ Asks(k) => /\ At(c, "ask") /\ conn'[c].pc = "reply" /\ conn'[c].ans = "none"
                                  /\ k.op = "takeover" <=> Mode(c) = "takeover"
                    /\ k.op = "disconnect" => conn'[c].pc \in {"unreg", "unsink", "done"}
            BY <1>0, <1>8, <2>4, HandlerAsks
        <3>2. Mode(c)' = Mode(c)
            BY <1>0 DEF Mode
        <3>3. ControlKnown(k)'
            BY <1>3, <3>1, <3>2 DEF ControlKnown, At
        <3>5. PICK t : t = Append(s, k)
            OBVIOUS
        <3>6. Asked' = t
            BY <1>0, <1>1, <2>1, <3>1, <3>5, AskedAppend
        <3>7. /\ \A i \in DOMAIN t : (i \in DOMAIN s /\ t[i] = s[i]) \/ (i = Len(s) + 1 /\ t[i] = k)
            BY <1>2, <3>5
        <3>8. \A i \in DOMAIN t : ControlKnown(t[i])'
            BY <2>2, <3>3, <3>7
        <3>9. \A i \in DOMAIN s : Asks(s[i]) /\ Asks(k) => s[i].c # k.c
            BY <1>2, <3>1 DEF ControlKnown, At
        <3>10. \A i, j \in DOMAIN t : Asks(t[i]) /\ Asks(t[j]) /\ t[i].c = t[j].c => i = j
            BY <1>2, <3>7, <3>9
        <3> QED
            BY <1>5, <3>6, <3>8, <3>10
    <2> QED
        BY <2>3, <2>4
<1> QED
    BY <1>6, <1>7, <1>8, StepKinds
(***************************************************************************)
(* How the weight of what is held changes                                  *)
(***************************************************************************)
LEMMA HeldSame ==
    ASSUME NEW w, inputs' = inputs, wr'.end = wr.end, wr'.cur = wr.cur
    PROVE  Held(w)' = Held(w)
BY DEF Held

LEMMA HeldAppend ==
    ASSUME AuthorityTyped, NEW w \in [Item -> Nat], NEW x \in Inputs, inputs' = Append(inputs, x), wr' = wr
    PROVE  Held(w)' = Held(w) + w[x] /\ w[x] \in Nat
<1>1. x \in Item /\ inputs \in Seq(Item)
    BY HeldTyped DEF Item
<1>2. Along(w, Append(inputs, x)) = Along(w, inputs) + w[x]
    BY <1>1, AlongAppend
<1>3. Along(w, inputs) \in Nat /\ w[wr.end] \in Nat /\ w[wr.cur] \in Nat /\ w[x] \in Nat
    BY <1>1, HeldTyped
<1>4. Held(w)' = Along(w, Append(inputs, x)) + w[wr.end] + w[wr.cur]
    BY DEF Held
<1> QED
    BY <1>2, <1>3, <1>4 DEF Held

LEMMA HeldTake ==
    ASSUME AuthorityTyped, WriterShape, NEW w \in [Item -> Nat], w[NoInput] = 0, Take
    PROVE  Held(w)' = Held(w)
<1>1. wr.end = NoInput
    BY DEF Take, WriterShape
<1>2. CASE wr.cur # NoInput \/ inputs = <<>>
    <2>1. wr'.cur = wr.cur /\ wr'.end = NoInput /\ inputs' = inputs
        BY <1>2 DEF Take, NoInput
    <2> QED
        BY <1>1, <2>1, HeldSame
<1>3. CASE wr.cur = NoInput /\ inputs # <<>>
    <2>1. PICK x \in Inputs : x = Head(inputs)
        BY <1>3 DEF AuthorityTyped
    <2>2. x # NoInput /\ x.op \in {"write", "end"}
        BY DEF Inputs, NoInput
    <2>3. /\ inputs' = Tail(inputs)
          /\ x.op = "write" => wr'.cur = x /\ wr'.end = NoInput
          /\ x.op = "end" => wr'.cur = NoInput /\ wr'.end = x
        BY <1>3, <2>1, <2>2 DEF Take
    <2>4. inputs \in Seq(Item) /\ x \in Item
        BY HeldTyped DEF Item
    <2>5. Along(w, inputs) = w[x] + Along(w, Tail(inputs))
        BY <1>3, <2>1, <2>4, AlongTail
    <2>6. Tail(inputs) \in Seq(Item)
        BY <1>3, <2>4
    <2>7. Along(w, Tail(inputs)) \in Nat /\ w[x] \in Nat
        BY <2>4, <2>6, AlongType
    <2>8. Held(w)' = Along(w, Tail(inputs)) + w[wr'.end] + w[wr'.cur]
        BY <2>3 DEF Held
    <2>9. Held(w) = Along(w, inputs) + 0 + 0
        BY <1>1, <1>3 DEF Held
    <2> QED
        BY <2>2, <2>3, <2>5, <2>7, <2>8, <2>9
<1> QED
    BY <1>2, <1>3

LEMMA HeldDisconnect ==
    ASSUME AuthorityTyped, NEW w \in [Item -> Nat], w[NoInput] = 0, ServeDisconnect
    PROVE  Held(w)' = Held(Without(w, Now.c)) /\ Without(w, Now.c) \in [Item -> Nat]
<1>1. PICK c : c = Now.c
    OBVIOUS
<1>2. /\ inputs' = Others(inputs, c)
      /\ wr'.cur = IF Belongs(wr.cur, c) THEN NoInput ELSE wr.cur
      /\ wr'.end = IF Belongs(wr.end, c) THEN NoInput ELSE wr.end
    BY <1>1, WriterTyped DEF ServeDisconnect
<1>3. Without(w, c) \in [Item -> Nat]
    BY DEF Without
<1>4. Along(w, Others(inputs, c)) = Along(Without(w, c), inputs)
    BY OthersTyped DEF WeighsAs, AuthorityTyped
<1>5. \A x \in Item : Without(w, c)[x] = IF Belongs(x, c) THEN 0 ELSE w[x]
    BY DEF Without
<1>6. wr.cur \in Item /\ wr.end \in Item
    BY WriterTyped
<1>7. w[wr'.cur] = Without(w, c)[wr.cur] /\ w[wr'.end] = Without(w, c)[wr.end]
    BY <1>2, <1>5, <1>6
<1>8. Held(w)' = Along(w, inputs') + w[wr'.end] + w[wr'.cur]
    BY DEF Held
<1> QED
    BY <1>1, <1>2, <1>3, <1>4, <1>7, <1>8 DEF Held

LEMMA HeldEnd ==
    ASSUME AuthorityTyped, NEW w \in [Item -> Nat], w[NoInput] = 0, ServeEnd
    PROVE  Held(w) = Held(w)' + w[wr.end] /\ w[wr.end] \in Nat /\ Held(w)' \in Nat
<1>1. wr'.end = NoInput /\ wr'.cur = wr.cur /\ inputs' = inputs
    BY WriterTyped DEF ServeEnd
<1>2. Along(w, inputs) \in Nat /\ w[wr.end] \in Nat /\ w[wr.cur] \in Nat
    BY HeldTyped
<1>3. Held(w)' = Along(w, inputs) + 0 + w[wr.cur]
    BY <1>1 DEF Held
<1> QED
    BY <1>2, <1>3 DEF Held

LEMMA HeldWrite ==
    ASSUME AuthorityTyped, NEW w \in [Item -> Nat], w[NoInput] = 0, WriteStep
    PROVE  /\ wr'.end = NoInput /\ wr.end = NoInput /\ inputs' = inputs
           /\ Idle => Held(w) = Held(w)' + w[wr.cur]
           /\ Held(w)' = Along(w, inputs) + w[wr'.cur] /\ Held(w) = Along(w, inputs) + w[wr.cur]
           /\ Along(w, inputs) \in Nat /\ w[wr.cur] \in Nat
<1>0. Idle \/ \E n : wr' = [wr EXCEPT !.pc = "take", !.cur.acc = @ + n]
    BY DEF WriteStep
<1>1. wr'.end = NoInput /\ wr.end = NoInput /\ inputs' = inputs
    <2>1. wr.end = NoInput /\ inputs' = inputs
        BY DEF WriteStep
    <2>2. Idle => wr'.end = NoInput
        BY DEF Idle
    <2>3. ASSUME NEW n, wr' = [wr EXCEPT !.pc = "take", !.cur.acc = @ + n]
          PROVE  wr'.end = wr.end
        BY <2>3, WriterTyped
    <2> QED
        BY <1>0, <2>1, <2>2, <2>3
<1>2. Along(w, inputs) \in Nat /\ w[wr.end] \in Nat /\ w[wr.cur] \in Nat
    BY HeldTyped
<1>3. Held(w)' = Along(w, inputs) + 0 + w[wr'.cur] /\ Held(w) = Along(w, inputs) + 0 + w[wr.cur]
    BY <1>1 DEF Held
<1>4. Idle => wr'.cur = NoInput
    BY DEF Idle
<1>5. Idle => Held(w)' = Along(w, inputs) + 0
    BY <1>2, <1>3, <1>4
<1> QED
    BY <1>1, <1>2, <1>3, <1>5

\* What a handler queues for the PTY.
LEMMA HandlerQueues ==
    ASSUME NEW c \in Conns, ConnsTyped, Whereabouts(c), HandlerMoves(c)
    PROVE  \/ inputs' = inputs
           \/ \E x \in Inputs :
                 /\ inputs' = Append(inputs, x) /\ x.c = c /\ x.acc = 0
                 /\ conn'[c].out = NoOutcome /\ conn'[c].report = conn[c].report /\ conn'[c].wrote = conn[c].wrote
                 /\ \/ /\ x.op = "write" /\ At(c, "queue") /\ More(c) /\ Frame(c) > 0 /\ x.tot = Frame(c)
                       /\ conn'[c].next = conn[c].next + 1
                       /\ conn'[c].pc = IF Viewing(c) THEN "relay" ELSE "await"
                    \/ /\ x.op = "end" /\ At(c, "end") /\ x.tot = 0
                       /\ conn'[c].next = conn[c].next /\ conn'[c].pc = "ended"
<1>1. conn \in [Conns -> Handlers] /\ conn[c] \in Handlers /\ conn[c].epoch \in Nat
    BY FramesTyped, CapacityAssumption DEF ConnsTyped, Handlers
<1>2. ASSUME NEW op \in {"write", "end"}, NEW n \in Nat, PushInput(op, c, n)
      PROVE  \E x \in Inputs : /\ x.op = op /\ x.c = c /\ x.tot = n /\ x.acc = 0 /\ inputs' = Append(inputs, x)
    BY <1>1, <1>2 DEF PushInput, Inputs
<1>3. CASE QueueInput(c) /\ inputs' # inputs
    <2>1. At(c, "queue") /\ More(c) /\ Frame(c) > 0 /\ Frame(c) \in Nat
        BY <1>3, FramesTyped DEF QueueInput, Whereabouts
    <2>2. PushInput("write", c, Frame(c))
        BY <1>3 DEF QueueInput
    <2>3. conn' = [conn EXCEPT ![c].pc = IF Viewing(c) THEN "relay" ELSE "await",
                               ![c].next = @ + 1, ![c].out = NoOutcome]
        BY <1>3 DEF QueueInput
    <2>4. /\ conn'[c].out = NoOutcome /\ conn'[c].report = conn[c].report /\ conn'[c].wrote = conn[c].wrote
          /\ conn'[c].next = conn[c].next + 1
          /\ conn'[c].pc = IF Viewing(c) THEN "relay" ELSE "await"
        BY <1>1, <2>3 DEF Handlers
    <2> QED
        BY <1>2, <2>1, <2>2, <2>4
<1>4. CASE QueueEnd(c)
    <2>1. At(c, "end") /\ PushInput("end", c, 0)
        BY <1>4 DEF QueueEnd
    <2>2. /\ conn'[c].out = NoOutcome /\ conn'[c].report = conn[c].report /\ conn'[c].wrote = conn[c].wrote
          /\ conn'[c].next = conn[c].next /\ conn'[c].pc = "ended"
        BY <1>1, <1>4 DEF QueueEnd, Handlers
    <2> QED
        BY <1>2, <2>1, <2>2
<1>5. CASE ~QueueInput(c) /\ ~QueueEnd(c)
    BY <1>5 DEF HandlerMoves, HandlerStep, Connect, Hello, Ask, Reply, Accept, CheckViewer, PutViewer,
       ReadFails, QueueResize, Disconnect, Await, PollClient, Drain, Ended, VanishedPush, Unregister, Unsink,
       ReadFrame, ReadEnd, authority
<1> QED
    BY <1>3, <1>4, <1>5
(***************************************************************************)
(* What is queued, staged and being written                                *)
(***************************************************************************)
LEMMA OneOf ==
    ASSUME NEW c, NEW x \in Inputs
    PROVE  x \in Item /\ One(c)[x] = IF x.c = c THEN 1 ELSE 0
BY DEF One, Item, Belongs, Inputs, NoInput

LEMMA ItemsTyped ==
    ASSUME AuthorityTyped, NEW x \in Items
    PROVE  x \in Inputs /\ x \in Item /\ x.c \in Conns /\ x.acc \in Nat /\ x.tot \in Nat
           /\ x.op \in {"write", "end"}
<1>1. x \in Inputs
    BY WriterTyped DEF Items, AuthorityTyped
<1> QED
    BY <1>1 DEF Inputs, Item

\* What the writer has taken of someone who waits is all there is.
LEMMA Alone ==
    ASSUME Sound, NEW x \in Inputs, (x = wr.end) \/ (x = wr.cur), ~Viewing(x.c)
    PROVE  \A i \in DOMAIN inputs : inputs[i].c # x.c
<1>0. PICK c \in Conns : c = x.c
    BY DEF Inputs
<1>1. AuthorityTyped /\ inputs \in Seq(Inputs) /\ inputs \in Seq(Item)
    BY TypeParts, HeldTyped DEF Sound, AuthorityTyped, Item
<1>2. One(c) \in [Item -> Nat] /\ One(c)[x] = 1
    BY <1>0, OneOf, WeightsTyped
<1>3. Along(One(c), inputs) \in Nat /\ One(c)[wr.end] \in Nat /\ One(c)[wr.cur] \in Nat
    BY <1>1, <1>2, HeldTyped
<1>4. Held(One(c)) <= 1
    BY <1>0 DEF Sound, OneAtATime
<1>5. Along(One(c), inputs) = 0
    BY <1>2, <1>3, <1>4 DEF Held
<1>6. \A i \in DOMAIN inputs : One(c)[inputs[i]] = 0 /\ inputs[i] \in Inputs
    BY <1>1, <1>2, <1>5, AlongBounds
<1>7. \A i \in DOMAIN inputs : inputs[i].c # c
    BY <1>6, OneOf
<1> QED
    BY <1>0, <1>7

LEMMA OneAtATimeKept ==
    ASSUME Sound, Next
    PROVE  OneAtATime'
<1> SUFFICES ASSUME NEW c \in Conns, ~Viewing(c)
             PROVE  Held(One(c))' <= 1
    <2>1. \A d \in Conns : Viewing(d)' <=> Viewing(d)
        BY StepKinds DEF Viewing, Mode
    <2> QED
        BY <2>1 DEF OneAtATime
<1>0. /\ AuthorityTyped /\ ConnsTyped /\ WriterShape /\ Held(One(c)) <= 1 /\ Held(One(c)) \in Nat
      /\ One(c) \in [Item -> Nat] /\ One(c)[NoInput] = 0
      /\ \A d \in Conns : Whereabouts(d) /\ OutcomeFits(d)
    BY TypeParts, WeightsTyped, HeldTyped DEF Sound, OneAtATime
<1>1. ASSUME inputs' = inputs, wr'.end = wr.end, wr'.cur = wr.cur
      PROVE  Held(One(c))' <= 1
    BY <1>0, <1>1, HeldSame
<1>2. CASE Outside
    BY <1>1, <1>2, OutsideFrame
<1>3. ASSUME NEW d \in Conns, HandlerMoves(d)
      PROVE  Held(One(c))' <= 1
    <2>1. wr' = wr
        BY <1>0, <1>3, HandlerFrame
    <2>2. CASE inputs' = inputs
        BY <1>1, <2>1, <2>2
    <2>3. CASE inputs' # inputs
        <3>1. PICK x \in Inputs : /\ inputs' = Append(inputs, x) /\ x.c = d
                                  /\ At(d, "queue") \/ At(d, "end")
            BY <1>0, <1>3, <2>3, HandlerQueues
        <3>2. Held(One(c))' = Held(One(c)) + One(c)[x]
            BY <1>0, <2>1, <3>1, HeldAppend
        <3>3. CASE c # d
            BY <1>0, <3>1, <3>2, <3>3, OneOf
        <3>4. CASE c = d
            <4>1. ASSUME NEW y \in Items, y.c = c
                  PROVE  FALSE
                <5>1. ItemKnown(y) /\ y.op \in {"write", "end"}
                    BY <1>0, ItemsTyped DEF Sound, ItemsKnown
                <5> QED
                    BY <3>1, <3>4, <4>1, <5>1 DEF ItemKnown, At
            <4>2. \A y \in Items : y \in Inputs /\ One(c)[y] = 0
                BY <1>0, <4>1, ItemsTyped, OneOf
            <4>3. One(c)[wr.end] = 0 /\ One(c)[wr.cur] = 0
                BY <1>0, <4>2 DEF Items
            <4>4. \A i \in DOMAIN inputs : One(c)[inputs[i]] = 0
                BY <4>2 DEF Items
            <4>5. Along(One(c), inputs) = 0
                BY <1>0, <4>4, HeldTyped, AlongBounds
            <4>6. Held(One(c)) = 0
                BY <4>3, <4>5 DEF Held
            <4>7. One(c)[x] = 1
                BY <3>1, <3>4, OneOf
            <4> QED
                BY <3>2, <4>6, <4>7
        <3> QED
            BY <3>3, <3>4
    <2> QED
        BY <2>2, <2>3
<1>4. CASE WriterLoop
    <2>1. CASE Take
        BY <1>0, <2>1, HeldTake
    <2>2. CASE ServeClaim \/ ServeTakeover \/ ServeResize
        BY <1>0, <1>1, <2>2, WriterTyped DEF ServeClaim, ServeTakeover, ServeResize, Done
    <2>3. CASE ServeDisconnect
        <3>1. Held(One(c))' = Held(Without(One(c), Now.c)) /\ Without(One(c), Now.c) \in [Item -> Nat]
            BY <1>0, <2>3, HeldDisconnect
        <3>2. \A x \in Item : Without(One(c), Now.c)[x] <= One(c)[x] /\ One(c)[x] \in Nat
            BY <1>0 DEF Without, One
        <3>3. inputs \in Seq(Item) /\ wr.end \in Item /\ wr.cur \in Item
            BY <1>0, HeldTyped, WriterTyped
        <3>4. Along(Without(One(c), Now.c), inputs) <= Along(One(c), inputs)
            <4>1. \A i \in DOMAIN inputs : Without(One(c), Now.c)[inputs[i]] <= One(c)[inputs[i]]
                BY <3>2, <3>3
            <4> QED
                BY <1>0, <3>1, <3>3, <4>1, AlongOrder
        <3>5. /\ Along(Without(One(c), Now.c), inputs) \in Nat /\ Along(One(c), inputs) \in Nat
              /\ Without(One(c), Now.c)[wr.end] \in Nat /\ Without(One(c), Now.c)[wr.cur] \in Nat
            BY <1>0, <3>1, HeldTyped
        <3> QED
            BY <1>0, <3>1, <3>2, <3>3, <3>4, <3>5, SMTT(20) DEF Held
    <2>4. CASE ServeEnd
        BY <1>0, <2>4, HeldEnd
    <2>5. CASE WriteStep
        <3>1. /\ Held(One(c))' = Along(One(c), inputs) + One(c)[wr'.cur]
              /\ Held(One(c)) = Along(One(c), inputs) + One(c)[wr.cur]
              /\ Along(One(c), inputs) \in Nat /\ One(c)[wr.cur] \in Nat
            BY <1>0, <2>5, HeldWrite
        <3>2. One(c)[wr'.cur] \in Nat /\ One(c)[wr'.cur] <= One(c)[wr.cur]
            <4>1. CASE Idle
                BY <1>0, <3>1, <4>1 DEF Idle
            <4>2. ASSUME NEW n \in Nat, wr' = [wr EXCEPT !.pc = "take", !.cur.acc = @ + n]
                  PROVE  One(c)[wr'.cur] = One(c)[wr.cur]
                <5>1. wr.cur \in Inputs
                    BY <1>0, <2>5, WriterTyped DEF WriteStep
                <5>2. wr'.cur \in Inputs /\ wr'.cur.c = wr.cur.c
                    <6>1. wr = [pc |-> wr.pc, batch |-> wr.batch, cur |-> wr.cur, end |-> wr.end]
                        BY <1>0, WriterTyped
                    <6>2. PICK y \in Inputs : y = wr.cur
                        BY <5>1
                    <6>3. wr'.cur = [y EXCEPT !.acc = @ + n]
                        BY <4>2, <6>1, <6>2
                    <6> QED
                        BY <6>2, <6>3 DEF Inputs
                <5> QED
                    BY <5>1, <5>2, OneOf
            <4>3. Idle \/ \E n \in Nat : wr' = [wr EXCEPT !.pc = "take", !.cur.acc = @ + n]
                BY <1>0, <2>5, Writes, TypeParts DEF Sound
            <4>4. CASE ~Idle
                <5>1. PICK n \in Nat : wr' = [wr EXCEPT !.pc = "take", !.cur.acc = @ + n]
                    BY <4>3, <4>4
                <5>2. One(c)[wr'.cur] = One(c)[wr.cur]
                    BY <4>2, <5>1
                <5> QED
                    BY <3>1, <5>2
            <4> QED
                BY <4>1, <4>4
        <3> QED
            BY <1>0, <3>1, <3>2
    <2>6. CASE NothingLeft
        BY <1>0, <1>1, <2>6 DEF NothingLeft, Idle
    <2> QED
        BY <1>4, <2>1, <2>2, <2>3, <2>4, <2>5, <2>6 DEF WriterLoop
<1> QED
    BY <1>2, <1>3, <1>4, StepKinds
\* What is held after a step of the writer: all but what it finished.
LEMMA ItemsMove ==
    ASSUME Sound, WriterLoop, NEW x \in Items'
    PROVE  \/ x \in Items /\ ~ServeEnd /\ ~WriteStep
           \/ /\ ServeEnd \/ WriteStep
              /\ \E i \in DOMAIN inputs : x = inputs[i]
           \/ /\ WriteStep /\ ~Idle /\ x = wr'.cur
              /\ \E n \in Nat : n < wr.cur.tot - wr.cur.acc /\ wr'.cur = [wr.cur EXCEPT !.acc = @ + n]
<1>0. /\ AuthorityTyped /\ OutputTyped /\ WriterShape /\ inputs \in Seq(Inputs)
    BY TypeParts DEF Sound, AuthorityTyped
<1>1. x \in {inputs'[i] : i \in DOMAIN inputs'} \/ ((x = wr'.cur \/ x = wr'.end) /\ x # NoInput)
    BY DEF Items
<1>2. CASE Take
    <2>1. CASE wr.cur # NoInput \/ inputs = <<>>
        <3>1. wr'.cur = wr.cur /\ wr'.end = NoInput /\ inputs' = inputs
            BY <2>1, <1>2 DEF Take, NoInput
        <3>2. x \in Items
            BY <1>1, <3>1 DEF Items
        <3> QED
            BY <1>2, <3>2 DEF Take, ServeEnd, WriteStep, Serving
    <2>2. CASE wr.cur = NoInput /\ inputs # <<>>
        <3>1. PICK y \in Inputs : y = Head(inputs)
            BY <1>0, <2>2
        <3>2. /\ inputs' = Tail(inputs) /\ wr'.cur \in {y, NoInput} /\ wr'.end \in {y, NoInput}
            <4>1. y # NoInput /\ y.op \in {"write", "end"}
                BY DEF Inputs, NoInput
            <4>2. /\ inputs' = Tail(inputs)
                  /\ y.op = "write" => wr'.cur = y /\ wr'.end = NoInput
                  /\ y.op = "end" => wr'.cur = NoInput /\ wr'.end = y
                BY <1>2, <2>2, <3>1, <4>1 DEF Take
            <4> QED
                BY <4>1, <4>2
        <3>3. 1 \in DOMAIN inputs /\ y = inputs[1]
            BY <1>0, <2>2, <3>1
        <3>4. \A i \in DOMAIN Tail(inputs) : i + 1 \in DOMAIN inputs /\ Tail(inputs)[i] = inputs[i + 1]
            BY <1>0, <2>2
        <3>5. x \in {inputs[i] : i \in DOMAIN inputs}
            BY <1>1, <3>2, <3>3, <3>4
        <3>6. x \in Items
            BY <3>5 DEF Items
        <3> QED
            BY <1>2, <3>6 DEF Take, ServeEnd, WriteStep, Serving
    <2> QED
        BY <2>1, <2>2
<1>3. CASE ServeClaim \/ ServeTakeover \/ ServeResize
    <2>1. inputs' = inputs /\ wr'.cur = wr.cur /\ wr'.end = wr.end /\ ~ServeEnd /\ ~WriteStep
        BY <1>0, <1>3, WriterTyped DEF ServeClaim, ServeTakeover, ServeResize, Done, Served, ServeEnd, WriteStep
    <2> QED
        BY <1>1, <2>1 DEF Items
<1>4. CASE ServeDisconnect
    <2>1. /\ inputs' = Others(inputs, Now.c) /\ wr'.cur \in {wr.cur, NoInput} /\ wr'.end \in {wr.end, NoInput}
          /\ ~ServeEnd /\ ~WriteStep
        BY <1>0, <1>4, WriterTyped DEF ServeDisconnect, Served, ServeEnd, WriteStep
    <2>2. PICK t : t = inputs' /\ \A j \in DOMAIN t : \E i \in DOMAIN inputs : t[j] = inputs[i]
        BY <1>0, <2>1, OthersTyped
    <2>3. x \in {inputs[i] : i \in DOMAIN inputs} \/ ((x = wr'.cur \/ x = wr'.end) /\ x # NoInput)
        BY <1>1, <2>2
    <2> QED
        BY <2>1, <2>3 DEF Items
<1>5. CASE NothingLeft
    <2>1. inputs' = inputs /\ wr'.cur = NoInput /\ wr'.end = NoInput /\ ~ServeEnd /\ ~WriteStep
        BY <1>5 DEF NothingLeft, Idle, ServeEnd, WriteStep
    <2> QED
        BY <1>1, <2>1 DEF Items
<1>6. CASE ServeEnd
    <2>1. inputs' = inputs /\ wr'.cur = NoInput /\ wr'.end = NoInput
        BY <1>0, <1>6, WriterTyped DEF ServeEnd, WriterShape
    <2> QED
        BY <1>1, <1>6, <2>1
<1>7. CASE WriteStep
    <2>1. inputs' = inputs /\ wr'.end = NoInput
        <3>1. inputs' = inputs /\ wr.end = NoInput
            BY <1>7 DEF WriteStep
        <3>2. One(0) \in [Item -> Nat] /\ One(0)[NoInput] = 0
            BY WeightsTyped
        <3> QED
            BY <1>0, <1>7, <3>1, <3>2, HeldWrite
    <2>2. CASE Idle
        <3>1. wr'.cur = NoInput
            BY <2>2 DEF Idle
        <3> QED
            BY <1>1, <1>7, <2>1, <3>1
    <2>3. CASE ~Idle
        <3>1. PICK n \in Nat : /\ n <= wr.cur.tot - wr.cur.acc /\ n # wr.cur.tot - wr.cur.acc
                               /\ wr' = [wr EXCEPT !.pc = "take", !.cur.acc = @ + n]
            <4>1. PICK n, m \in Nat :
                     /\ n <= wr.cur.tot - wr.cur.acc
                     /\ IF n = wr.cur.tot - wr.cur.acc
                        THEN Tell(wr.cur.c, "accepted", wr.cur.tot) /\ Idle
                        ELSE wr' = [wr EXCEPT !.pc = "take", !.cur.acc = @ + n] /\ conn' = conn
                BY <1>0, <1>7, <2>3, Writes
            <4> QED
                BY <2>3, <4>1
        <3>2. PICK t \in Nat, a \in Nat : t = wr.cur.tot /\ a = wr.cur.acc
            BY <1>0, <1>7, Writes
        <3>3. n < t - a
            BY <3>1, <3>2
        <3>4. wr'.cur = [wr.cur EXCEPT !.acc = @ + n] /\ n < wr.cur.tot - wr.cur.acc
            BY <1>0, <3>1, <3>2, <3>3, WriterTyped
        <3> QED
            BY <1>1, <1>7, <2>1, <2>3, <3>4
    <2> QED
        BY <2>2, <2>3
<1> QED
    BY <1>2, <1>3, <1>4, <1>5, <1>6, <1>7 DEF WriterLoop

LEMMA ItemStays ==
    ASSUME NEW x, ItemKnown(x), setup' = setup, Stays(x.c), conn'[x.c].out = conn[x.c].out
    PROVE  ItemKnown(x)'
BY DEF ItemKnown, Stays, At, Viewing, Mode, Size

\* A handler with something in hand waits for it, or is leaving without it.
LEMMA Waits ==
    ASSUME Sound, NEW c \in Conns, HandlerMoves(c), ~Viewing(c), NEW x \in Items, x.c = c
    PROVE  /\ inputs' = inputs /\ conn[c].pc \in {"await", "poll", "gone", "quit"}
           /\ conn'[c].pc \in {"await", "poll", "gone", "quit", "done"}
           /\ conn'[c].pc \in {"await", "poll"} => conn[c].pc \in {"await", "poll"}
           /\ Kept(c)
<1>1. /\ AuthorityTyped /\ ConnsTyped /\ ItemKnown(x) /\ x.op \in {"write", "end"}
      /\ conn \in [Conns -> Handlers]
    BY TypeParts, ItemsTyped DEF Sound, ItemsKnown, ConnsTyped
<1>2. \A pc : Goto(c, pc) => conn'[c].pc = pc /\ Kept(c)
    BY <1>1, GoesTo
<1>3. \/ conn[c].pc \in {"await", "poll"} /\ conn[c].out = NoOutcome
      \/ conn[c].pc \in {"gone", "quit", "done"}
      \/ At(c, "ended") /\ conn[c].out = NoOutcome
    BY <1>1 DEF ItemKnown
<1>4. conn[c].pc \in {"await", "poll", "gone", "quit"}
    BY <1>3 DEF At, HandlerMoves, HandlerStep, Connect, Hello, Ask, Reply, Accept, CheckViewer, PutViewer,
       ReadFails, QueueInput, QueueResize, Await, PollClient, Drain, QueueEnd, Ended, VanishedPush, Disconnect,
       Unregister, Unsink, ReadFrame, ReadEnd, NoOutcome
<1>5. Await(c) \/ PollClient(c) \/ VanishedPush(c) \/ Disconnect(c)
    BY <1>4 DEF At, HandlerMoves, HandlerStep, Connect, Hello, Ask, Reply, Accept, CheckViewer, PutViewer,
       ReadFails, QueueInput, QueueResize, Drain, QueueEnd, Ended, Unregister, Unsink, ReadFrame, ReadEnd
<1>6. CASE Await(c)
    <2>1. At(c, "await") /\ conn[c].out.why = "none"
        BY <1>3, <1>6 DEF Await, At, NoOutcome
    <2>2. Goto(c, "poll") /\ inputs' = inputs
        BY <1>6, <2>1 DEF Await, authority
    <2> QED
        BY <1>2, <2>1, <2>2 DEF At
<1>7. CASE PollClient(c)
    BY <1>2, <1>7 DEF PollClient, authority, At
<1>8. CASE VanishedPush(c)
    BY <1>2, <1>8 DEF VanishedPush, authority, At
<1>9. CASE Disconnect(c)
    BY <1>2, <1>4, <1>9 DEF Disconnect, At
<1> QED
    BY <1>5, <1>6, <1>7, <1>8, <1>9

LEMMA ItemsKept ==
    ASSUME Sound, Next
    PROVE  ItemsKnown'
<1> SUFFICES ASSUME NEW x \in Items'
             PROVE  ItemKnown(x)'
    BY DEF ItemsKnown
<1>0. /\ AuthorityTyped /\ ConnsTyped /\ OutputTyped /\ WriterShape /\ setup' = setup
      /\ inputs \in Seq(Inputs) /\ \A d \in Conns : Whereabouts(d) /\ OutcomeFits(d)
    BY TypeParts, StepKinds DEF Sound, AuthorityTyped
<1>1. ASSUME NEW y \in Items
      PROVE  y \in Inputs /\ y.c \in Conns /\ ItemKnown(y) /\ y.op \in {"write", "end"}
    BY <1>0, ItemsTyped DEF Sound, ItemsKnown
<1>2. ASSUME x \in Items, conn'[x.c] = conn[x.c]
      PROVE  ItemKnown(x)'
    BY <1>0, <1>1, <1>2, ItemStays DEF Stays
<1>3. CASE Outside
    <2>1. x \in Items
        BY <1>3, OutsideFrame DEF Items
    <2> QED
        BY <1>2, <1>3, <2>1, OutsideFrame
<1>4. ASSUME NEW c \in Conns, HandlerMoves(c)
      PROVE  ItemKnown(x)'
    <2>1. wr' = wr /\ Moved(c) /\ conn \in [Conns -> Handlers] /\ conn[c].next \in Nat
        BY <1>0, <1>4, HandlerFrame, HandlerMoved, FramesTyped DEF ConnsTyped
    <2>2. CASE x \in Items
        <3>1. CASE x.c # c
            <4>1. conn'[x.c] = conn[x.c]
                BY <1>1, <2>1, <2>2, <3>1 DEF Moved
            <4> QED
                BY <1>2, <2>2, <4>1
        <3>2. CASE x.c = c /\ Viewing(c)
            <4>1. x.op = "write" /\ x.acc < x.tot
                BY <1>1, <2>2, <3>2 DEF ItemKnown
            <4>2. Viewing(c)'
                BY <1>0, <3>2 DEF Viewing, Mode
            <4> QED
                BY <3>2, <4>1, <4>2 DEF ItemKnown
        <3>3. CASE x.c = c /\ ~Viewing(c)
            <4>1. /\ conn[c].pc \in {"await", "poll", "gone", "quit"}
                  /\ conn'[c].pc \in {"await", "poll", "gone", "quit", "done"}
                  /\ conn'[c].pc \in {"await", "poll"} => conn[c].pc \in {"await", "poll"}
                  /\ Kept(c)
                BY <1>4, <2>2, <3>3, Waits
            <4>2. x.op = "write" /\ ItemKnown(x)
                BY <1>1, <2>2, <3>3, <4>1 DEF ItemKnown, At
            <4>3. Viewing(c)' = Viewing(c) /\ Size(c)' = Size(c)
                BY <1>0, <4>1 DEF Viewing, Mode, Size, Kept
            <4> QED
                BY <3>3, <4>1, <4>2, <4>3 DEF ItemKnown, Kept
        <3> QED
            BY <3>1, <3>2, <3>3
    <2>3. CASE x \notin Items
        <3>1. PICK y \in Inputs :
                 /\ inputs' = Append(inputs, y) /\ y.c = c /\ y.acc = 0
                 /\ conn'[c].out = NoOutcome /\ conn'[c].report = conn[c].report
                 /\ \/ /\ y.op = "write" /\ At(c, "queue") /\ Frame(c) > 0 /\ y.tot = Frame(c)
                       /\ conn'[c].next = conn[c].next + 1
                       /\ conn'[c].pc = IF Viewing(c) THEN "relay" ELSE "await"
                    \/ /\ y.op = "end" /\ At(c, "end") /\ y.tot = 0
                       /\ conn'[c].pc = "ended"
            <4>1. inputs' # inputs
                BY <2>1, <2>3 DEF Items
            <4> QED
                BY <1>0, <1>4, <4>1, HandlerQueues
        <3>2. \A i \in DOMAIN inputs' : inputs'[i] = y \/ (i \in DOMAIN inputs /\ inputs'[i] = inputs[i])
            BY <1>0, <3>1
        <3>3. x = y
            BY <2>1, <2>3, <3>2 DEF Items
        <3>4. Viewing(c)' = Viewing(c)
            BY <1>0 DEF Viewing, Mode
        <3>5. CASE y.op = "write"
            <4>1. Size(c)' = Frame(c)
                <5>1. (conn[c].next + 1) - 1 = conn[c].next
                    BY <2>1
                <5> QED
                    BY <1>0, <3>1, <3>5, <5>1 DEF Size, Frame
            <4>2. conn'[c].report = NoReport
                BY <3>1, <3>5 DEF Sound, Unreported, At
            <4> QED
                BY <3>1, <3>3, <3>4, <3>5, <4>1, <4>2 DEF ItemKnown
        <3>6. CASE y.op = "end"
            <4>1. ~Viewing(c)
                BY <1>0, <3>1, <3>6 DEF Whereabouts, Viewing, At
            <4> QED
                BY <3>1, <3>3, <3>4, <3>6, <4>1 DEF ItemKnown, At
        <3> QED
            BY <3>1, <3>5, <3>6
    <2> QED
        BY <2>2, <2>3
<1>5. CASE WriterLoop
    <2>1. CASE x \in Items /\ ~ServeEnd /\ ~WriteStep
        <3>1. Stays(x.c) /\ conn'[x.c].out = conn[x.c].out
            BY <1>1, <1>5, <2>1, WriterTells DEF Answered, Told
        <3> QED
            BY <1>0, <1>1, <2>1, <3>1, ItemStays
    <2>2. ASSUME NEW i \in DOMAIN inputs, x = inputs[i], ServeEnd \/ WriteStep
          PROVE  ItemKnown(x)'
        <3>1. x \in Items
            BY <2>2 DEF Items
        <3>2. CASE ~Viewing(x.c)
            <4>1. x.c # wr.end.c \/ ~ServeEnd
                <5>1. ServeEnd => wr.end \in Inputs
                    BY <1>0, WriterTyped DEF ServeEnd
                <5> QED
                    BY <2>2, <3>2, <5>1, Alone
            <4>2. x.c # wr.cur.c \/ ~WriteStep
                <5>1. WriteStep => wr.cur \in Inputs
                    BY <1>0, WriterTyped DEF WriteStep
                <5> QED
                    BY <2>2, <3>2, <5>1, Alone
            <4>3. ~Told(x.c)
                BY <4>1, <4>2 DEF Told
            <4>4. Stays(x.c) /\ conn'[x.c].out = conn[x.c].out
                BY <1>1, <1>5, <3>1, <4>3, WriterTells DEF Answered
            <4> QED
                BY <1>0, <1>1, <3>1, <4>4, ItemStays
        <3>3. CASE Viewing(x.c)
            <4>1. x.op = "write" /\ x.acc < x.tot
                BY <1>1, <3>1, <3>3 DEF ItemKnown
            <4>2. Viewing(x.c)'
                BY <1>0, <3>3 DEF Viewing, Mode
            <4> QED
                BY <4>1, <4>2 DEF ItemKnown
        <3> QED
            BY <3>2, <3>3
    <2>3. ASSUME WriteStep, ~Idle, x = wr'.cur, NEW n \in Nat, n < wr.cur.tot - wr.cur.acc,
                 wr'.cur = [wr.cur EXCEPT !.acc = @ + n]
          PROVE  ItemKnown(x)'
        <3>1. PICK y \in Inputs : y = wr.cur /\ y \in Items
            BY <1>0, <2>3, WriterTyped DEF WriteStep, Items
        <3>2. y.acc \in Nat /\ y.tot \in Nat /\ n < y.tot - y.acc /\ y.op = "write"
            BY <1>0, <2>3, <3>1 DEF Inputs, WriterShape, WriteStep
        <3>3. /\ x.op = "write" /\ x.c = y.c /\ x.tot = y.tot /\ x.acc = y.acc + n
            BY <2>3, <3>1, <3>2 DEF Inputs
        <3>4. conn' = conn
            BY <1>0, <2>3, Writes
        <3>5. ItemKnown(y)'
            BY <1>0, <1>1, <3>1, <3>4, ItemStays DEF Stays
        <3> QED
            BY <3>2, <3>3, <3>5 DEF ItemKnown
    <2> QED
        BY <1>5, <2>1, <2>2, <2>3, ItemsMove
<1> QED
    BY <1>3, <1>4, <1>5, StepKinds
(***************************************************************************)
(* What a push reports                                                     *)
(***************************************************************************)
LEMMA UnreportedKept ==
    ASSUME Sound, Next, NEW d \in Conns
    PROVE  Unreported(d)'
<1>0. /\ ConnsTyped /\ Unreported(d) /\ Mode(d)' = Mode(d) /\ conn \in [Conns -> Handlers]
      /\ \A c \in Conns : Whereabouts(c) /\ OutcomeFits(c)
    BY TypeParts, StepKinds DEF Sound, Mode, ConnsTyped
<1>1. CASE conn'[d].report = conn[d].report /\ conn'[d].pc = conn[d].pc
    BY <1>0, <1>1 DEF Unreported
<1>2. CASE WriterLoop
    BY <1>1, <1>2, WriterTells DEF Stays
<1>3. CASE Outside
    BY <1>1, <1>3, OutsideFrame
<1>4. ASSUME NEW c \in Conns, HandlerMoves(c)
      PROVE  Unreported(d)'
    <2>1. CASE c # d
        <3>1. Moved(c)
            BY <1>0, <1>4, HandlerMoved
        <3> QED
            BY <1>0, <1>1, <2>1, <3>1 DEF Moved
    <2>2. CASE c = d
        <3>0. /\ HandlerMoves(d) /\ Whereabouts(d)
              /\ \A pc : Goto(d, pc) => conn'[d].pc = pc /\ Kept(d)
            BY <1>0, <1>4, <2>2, GoesTo
        <3> USE DEF Unreported, At, Kept
        <3>1. CASE Connect(d)
            BY <1>0, <3>0, <3>1 DEF Connect
        <3>2. CASE Hello(d)
            BY <1>0, <3>0, <3>2 DEF Hello
        <3>3. CASE Ask(d)
            BY <1>0, <3>0, <3>3 DEF Ask, Handlers
        <3>4. CASE Reply(d)
            BY <1>0, <3>0, <3>4 DEF Reply
        <3>5. CASE Accept(d)
            BY <1>0, <3>0, <3>5 DEF Accept
        <3>6. CASE CheckViewer(d)
            BY <1>0, <3>0, <3>6 DEF CheckViewer
        <3>7. CASE PutViewer(d)
            BY <1>0, <3>0, <3>7 DEF PutViewer
        <3>8. CASE ReadFails(d)
            BY <1>0, <3>0, <3>8 DEF ReadFails, Handlers, Viewing
        <3>9. CASE QueueInput(d)
            BY <1>0, <3>0, <3>9 DEF QueueInput, Handlers
        <3>10. CASE QueueResize(d)
            BY <1>0, <3>0, <3>10 DEF QueueResize, Handlers
        <3>11. CASE Await(d)
            BY <1>0, <3>0, <3>11 DEF Await, Stopped, NoOutcome, Handlers, Whereabouts
        <3>12. CASE PollClient(d)
            BY <1>0, <3>0, <3>12 DEF PollClient
        <3>13. CASE Drain(d)
            BY <1>0, <3>0, <3>13 DEF Drain
        <3>14. CASE QueueEnd(d)
            BY <1>0, <3>0, <3>14 DEF QueueEnd, Handlers
        <3>15. CASE Ended(d)
            BY <1>0, <3>0, <3>15 DEF Ended
        <3>16. CASE VanishedPush(d)
            BY <1>0, <3>0, <3>16 DEF VanishedPush
        <3>17. CASE Disconnect(d)
            BY <1>0, <3>0, <3>17 DEF Disconnect, Whereabouts, Viewing
        <3>18. CASE Unregister(d)
            BY <1>0, <3>0, <3>18 DEF Unregister, Viewing
        <3>19. CASE Unsink(d)
            BY <1>0, <3>0, <3>19 DEF Unsink
        <3>20. CASE ReadFrame(d)
            BY <1>0, <3>0, <3>20 DEF ReadFrame, Handlers
        <3>21. CASE ReadEnd(d)
            BY <1>0, <3>0, <3>21 DEF ReadEnd, Handlers, Viewing
        <3> QED
            BY <3>0, <3>1, <3>2, <3>3, <3>4, <3>5, <3>6, <3>7, <3>8, <3>9, <3>10, <3>11, <3>12, <3>13, <3>14, <3>15, <3>16, <3>17, <3>18, <3>19, <3>20, <3>21
               DEF HandlerMoves, HandlerStep
    <2> QED
        BY <2>1, <2>2
<1> QED
    BY <1>2, <1>3, <1>4, StepKinds
(***************************************************************************)
(* The invariant holds                                                     *)
(***************************************************************************)
LEMMA SoundInit ==
    ASSUME Init
    PROVE  Sound
<1>1. setup \in Setups /\ setup.past \in 0..MaxEpoch /\ setup.output \in Nat
    BY SetupTyped DEF Init
<1>2. TypeOK
    <2>1. AuthorityTyped
        BY <1>1, EmptySeq, CapacityAssumption DEF Init, AuthorityTyped, Writers, Item
    <2>2. ConnsTyped
        BY <1>1, CapacityAssumption DEF Init, ConnsTyped, Handlers, Pcs
    <2>3. SocketsTyped
        BY DEF Init, SocketsTyped
    <2>4. ViewingTyped
        <3>1. 0 \in 0..ViewerCapacity /\ 0 \in 0..setup.output
            BY <1>1, CapacityAssumption
        <3> QED
            BY <3>1 DEF Init, ViewingTyped
    <2>5. OutputTyped
        <3>1. PtyRoom \in 0..PtyRoom /\ applied \in Seq(Entries) /\ fx \in Seq(Effects)
            BY CapacityAssumption, EmptySeq DEF Init
        <3>2. PICK m \in 0..PtyRoom : m = PtyRoom
            BY <3>1
        <3>3. pty = [room |-> m, open |-> TRUE]
            BY <3>2 DEF Init
        <3>4. pty \in [room : 0..PtyRoom, open : BOOLEAN]
            BY <3>3
        <3> QED
            BY <3>1, <3>4 DEF Init, OutputTyped, Entries
    <2> QED
        BY <2>1, <2>2, <2>3, <2>4, <2>5, TypeParts
<1>3. WriterShape
    BY DEF Init, WriterShape
<1>4. EpochsOrdered
    BY <1>1, CapacityAssumption DEF Init, EpochsOrdered
<1>5. ControlsKnown
    <2>1. DOMAIN Asked = {}
        BY DEF Asked, Init
    <2> QED
        BY <2>1 DEF ControlsKnown
<1>6. ASSUME NEW c \in Conns
      PROVE  Whereabouts(c) /\ OutcomeFits(c) /\ Unreported(c)
    <2>1. conn[c].pc = "new" /\ conn[c].next = 1 /\ conn[c].report = NoReport
        BY DEF Init
    <2>2. Len(setup.frames[c]) \in Nat
        BY <1>1, SetupTyped
    <2> QED
        BY <2>1, <2>2 DEF Whereabouts, OutcomeFits, Unreported, At
<1>7. ItemsKnown
    BY DEF Init, ItemsKnown, Items
<1>8. OneAtATime
    <2>1. ASSUME NEW c \in Conns
          PROVE  Held(One(c)) = 0
        <3>1. One(c)[NoInput] = 0
            BY WeightsTyped
        <3>2. Held(One(c)) = Along(One(c), <<>>) + One(c)[NoInput] + One(c)[NoInput]
            BY DEF Init, Held
        <3> QED
            BY <3>1, <3>2, AlongEmpty
    <2> QED
        BY <2>1 DEF OneAtATime
<1> QED
    BY <1>2, <1>3, <1>4, <1>5, <1>6, <1>7, <1>8 DEF Sound

LEMMA SoundKept ==
    ASSUME Sound, [Next]_vars
    PROVE  Sound'
<1>1. CASE Next
    <2>1. TypeOK'
        BY TypesKept
    <2>2. \A c \in Conns : (Whereabouts(c) /\ OutcomeFits(c) /\ Unreported(c))'
        BY <1>1, OutcomesKept, UnreportedKept
    <2>3. WriterShape' /\ EpochsOrdered' /\ ControlsKnown' /\ ItemsKnown' /\ OneAtATime'
        BY <1>1, WriterShapeKept, EpochsKept, ControlsKept, ItemsKept, OneAtATimeKept
    <2> QED
        BY <2>1, <2>2, <2>3 DEF Sound
<1>2. CASE UNCHANGED vars
    <2>1. UNCHANGED <<setup, arb, controls, inputs, wr, conn>>
        BY <1>2 DEF vars, authority
    <2>2. TypeOK'
        BY TypesKept
    <2>3. (WriterShape /\ EpochsOrdered /\ ControlsKnown /\ ItemsKnown /\ OneAtATime)'
        BY <2>1 DEF Sound, WriterShape, EpochsOrdered, ControlsKnown, ControlKnown, Asked, ItemsKnown, ItemKnown, Items,
           OneAtATime, Held, At, Mode, Viewing, Size
    <2>4. ASSUME NEW c \in Conns
          PROVE  (Whereabouts(c) /\ OutcomeFits(c) /\ Unreported(c))'
        BY <2>1 DEF Sound, Whereabouts, OutcomeFits, Unreported, At, Mode, Viewing, OnSocket, More, Frame, Size
    <2> QED
        BY <2>2, <2>3, <2>4 DEF Sound
<1> QED
    BY <1>1, <1>2

\* Types, and all that the proofs below know of the system's states.
THEOREM ControlSound == Spec => []Sound
<1>1. Init => Sound
    BY SoundInit
<1>2. Sound /\ [Next]_vars => Sound'
    BY SoundKept
<1> QED
    BY <1>1, <1>2, PTL DEF Spec
(***************************************************************************)
(* What the effects tell of who holds control                              *)
(***************************************************************************)
Tells(s) == \E i \in DOMAIN s : s[i].k = "human" /\ \A j \in DOMAIN s : j > i => s[j].k = "revoked"

LEMMA TellsNext ==
    ASSUME NEW T, NEW s \in Seq(T), NEW x \in T
    PROVE  Tells(Append(s, x)) <=> (x.k = "human" \/ (x.k = "revoked" /\ Tells(s)))
<1>1. PICK t : t = Append(s, x)
    OBVIOUS
<1>2. /\ Len(s) \in Nat /\ DOMAIN s = 1..Len(s) /\ DOMAIN t = 1..(Len(s) + 1) /\ t[Len(s) + 1] = x
      /\ \A i \in DOMAIN s : t[i] = s[i] /\ i \in DOMAIN t /\ i # Len(s) + 1 /\ Len(s) + 1 > i
      /\ \A i \in DOMAIN t : i \in DOMAIN s \/ i = Len(s) + 1
    BY <1>1
<1>3. Len(s) + 1 \in DOMAIN t /\ \A j \in DOMAIN t : ~(j > Len(s) + 1)
    BY <1>2
<1>4. CASE x.k = "human"
    BY <1>1, <1>2, <1>3, <1>4 DEF Tells
<1>5. CASE x.k # "human" /\ x.k # "revoked"
    <2>1. ASSUME NEW i \in DOMAIN t, t[i].k = "human", \A j \in DOMAIN t : j > i => t[j].k = "revoked"
          PROVE  FALSE
        BY <1>2, <1>3, <1>5, <2>1
    <2>2. ~Tells(t)
        BY <2>1 DEF Tells
    <2> QED
        BY <1>1, <1>5, <2>2
<1>6. CASE x.k = "revoked"
    <2>1. Tells(s) => Tells(t)
        <3> SUFFICES ASSUME NEW i \in DOMAIN s, s[i].k = "human", \A j \in DOMAIN s : j > i => s[j].k = "revoked"
                     PROVE  Tells(t)
            BY DEF Tells
        <3>1. \A j \in DOMAIN t : j > i => t[j].k = "revoked"
            BY <1>2, <1>6
        <3>2. i \in DOMAIN t /\ t[i].k = "human"
            BY <1>2
        <3> QED
            BY <3>1, <3>2 DEF Tells
    <2>2. Tells(t) => Tells(s)
        <3> SUFFICES ASSUME NEW i \in DOMAIN t, t[i].k = "human", \A j \in DOMAIN t : j > i => t[j].k = "revoked"
                     PROVE  Tells(s)
            BY DEF Tells
        <3>1. i \in DOMAIN s /\ s[i].k = "human"
            BY <1>2, <1>6
        <3>2. \A j \in DOMAIN s : j > i => s[j].k = "revoked"
            BY <1>2
        <3> QED
            BY <3>1, <3>2 DEF Tells
    <2>3. Tells(t) <=> Tells(s)
        BY <2>1, <2>2
    <2>4. x.k # "human"
        BY <1>6
    <2> QED
        BY <1>1, <1>6, <2>3, <2>4
<1> QED
    BY <1>4, <1>5, <1>6

LEMMA Joined ==
    ASSUME NEW T, NEW s \in Seq(T)
    PROVE  s \o <<>> = s /\ \A x \in T : s \o <<x>> = Append(s, x)
OBVIOUS

LEMMA EffectsOf ==
    /\ [k |-> "human"] \in Effects /\ [k |-> "released"] \in Effects
    /\ \A c \in Conns, acc, tot \in Nat : Revoked(c, acc, tot) \in Effects /\ Revoked(c, acc, tot).k = "revoked"
BY DEF Effects, Revoked

LEMMA ToldKept ==
    ASSUME Sound, ControlTold, [Next]_vars
    PROVE  ControlTold'
<1>0. /\ AuthorityTyped /\ ConnsTyped /\ OutputTyped /\ fx \in Seq(Effects)
      /\ Tells(fx) <=> (arb.owned /\ Kind(arb.holder) = "Human")
      /\ \A d \in Conns : Whereabouts(d) /\ OutcomeFits(d)
    BY TypeParts DEF Sound, OutputTyped, ControlTold, TellsHuman, Tells
<1>1. setup' = setup
    BY StepKinds DEF vars
<1>2. \A c : Kind(c)' = Kind(c)
    BY <1>1 DEF Kind, Mode
<1>3. ASSUME Tells(fx') <=> (arb'.owned /\ Kind(arb'.holder) = "Human")
      PROVE  ControlTold'
    BY <1>1, <1>3 DEF ControlTold, TellsHuman, Tells, Kind, Mode
<1>4. CASE fx' = fx /\ arb' = arb
    BY <1>0, <1>3, <1>4
<1>5. CASE UNCHANGED vars
    BY <1>4, <1>5 DEF vars, authority
<1>6. CASE Next /\ ~WriterLoop
    BY <1>0, <1>4, <1>6, StepKinds, HandlerFrame, OutsideFrame
<1>7. CASE Take \/ ServeResize \/ NothingLeft
    BY <1>4, <1>7 DEF Take, ServeResize, NothingLeft
<1>8. CASE ServeClaim
    <2>1. Unserved
        BY <1>8 DEF ServeClaim, Served
    <2>2. CASE fx' = fx /\ arb' = arb
        BY <1>4, <2>2
    <2>3. CASE ~(fx' = fx /\ arb' = arb)
        <3>1. /\ ~arb.owned /\ arb' = Own(Now.c)
              /\ fx' = fx \o IF Kind(Now.c) = "Human" THEN <<[k |-> "human"]>> ELSE <<>>
            BY <1>8, <2>3 DEF ServeClaim
        <3>2. CASE Kind(Now.c) = "Human"
            <4>1. fx' = Append(fx, [k |-> "human"])
                BY <1>0, <3>1, <3>2, Joined, EffectsOf
            <4>2. Tells(fx')
                BY <1>0, <4>1, TellsNext, EffectsOf
            <4> QED
                BY <1>3, <3>1, <3>2, <4>2 DEF Own
        <3>3. CASE Kind(Now.c) # "Human"
            <4>1. fx' = fx
                BY <1>0, <3>1, <3>3, Joined
            <4> QED
                BY <1>0, <1>3, <3>1, <3>3, <4>1 DEF Own
        <3> QED
            BY <3>2, <3>3
    <2> QED
        BY <2>2, <2>3
<1>9. CASE ServeTakeover
    <2>1. CASE fx' = fx /\ arb' = arb
        BY <1>4, <2>1
    <2>2. CASE ~(fx' = fx /\ arb' = arb)
        <3>1. /\ arb' = Own(Now.c) /\ fx' = Append(fx, [k |-> "human"]) /\ Unserved /\ Now.op = "takeover"
            BY <1>9, <2>2 DEF ServeTakeover, Served, Now
        <3>2. Tells(fx')
            BY <1>0, <3>1, TellsNext, EffectsOf
        <3>3. ControlKnown(Now)
            BY <1>0, <3>1, NowAsked DEF Sound, ControlsKnown
        <3>4. Kind(Now.c) = "Human"
            BY <3>1, <3>3 DEF ControlKnown, Asks, Kind
        <3> QED
            BY <1>3, <3>1, <3>2, <3>4 DEF Own
    <2> QED
        BY <2>1, <2>2
<1>10. ASSUME NEW c, NEW e, arb' = AfterRelease(c, e), NEW more \in Seq(Effects),
              fx' = fx \o ReleaseTold(c, e) \o more,
              \/ more = <<>>
              \/ \E x \in Effects : x.k = "revoked" /\ more = <<x>>
       PROVE  ControlTold'
    <2>1. PICK s : s = fx \o ReleaseTold(c, e)
        OBVIOUS
    <2>2. s \in Seq(Effects) /\ (Tells(s) <=> (arb'.owned /\ Kind(arb'.holder) = "Human"))
        <3>1. CASE Stale(c, e)
            <4>1. s = fx /\ arb' = arb
                BY <1>0, <1>10, <2>1, <3>1, Joined DEF AfterRelease, ReleaseTold
            <4> QED
                BY <1>0, <4>1
        <3>2. CASE ~Stale(c, e) /\ Kind(c) = "Human"
            <4>1. s = Append(fx, [k |-> "released"]) /\ ~arb'.owned
                BY <1>0, <1>10, <2>1, <3>2, Joined, EffectsOf, ArbTyped DEF AfterRelease, ReleaseTold
            <4>2. s \in Seq(Effects)
                BY <1>0, <4>1, EffectsOf, Grows
            <4>3. ~Tells(s)
                BY <1>0, <4>1, EffectsOf, TellsNext
            <4> QED
                BY <4>1, <4>2, <4>3
        <3>3. CASE ~Stale(c, e) /\ Kind(c) # "Human"
            <4>1. s = fx /\ ~arb'.owned /\ arb.holder = c
                BY <1>0, <1>10, <2>1, <3>3, Joined, ArbTyped DEF AfterRelease, ReleaseTold, Stale
            <4> QED
                BY <1>0, <3>3, <4>1
        <3> QED
            BY <3>1, <3>2, <3>3
    <2>3. CASE more = <<>>
        <3>1. fx' = s
            BY <1>10, <2>1, <2>2, <2>3, Joined
        <3> QED
            BY <1>3, <2>2, <3>1
    <2>4. ASSUME NEW x \in Effects, x.k = "revoked", more = <<x>>
          PROVE  ControlTold'
        <3>1. fx' = Append(s, x)
            BY <1>10, <2>1, <2>2, <2>4, Joined
        <3>2. Tells(fx') <=> Tells(s)
            BY <2>2, <2>4, <3>1, TellsNext
        <3> QED
            BY <1>3, <2>2, <3>2
    <2> QED
        BY <1>10, <2>3, <2>4
<1>11. CASE ServeDisconnect
    <2>1. PICK c \in Conns : c = Now.c
        BY <1>0, <1>11, NowTyped DEF ServeDisconnect, Served
    <2>2. PICK more : more = IF Tot(InHand, c) > 0 THEN <<Revoked(c, Acc(InHand, c), Tot(InHand, c))>> ELSE <<>>
        OBVIOUS
    <2>3. arb' = AfterRelease(c, Now.e) /\ fx' = fx \o ReleaseTold(c, Now.e) \o more
        BY <1>11, <2>1, <2>2 DEF ServeDisconnect
    <2>4. PICK x \in Effects : x = Revoked(c, Acc(InHand, c), Tot(InHand, c)) /\ x.k = "revoked"
        BY <1>0, InHandWeighs, EffectsOf
    <2>5. more = <<>> \/ more = <<x>>
        BY <2>2, <2>4
    <2>6. more \in Seq(Effects)
        BY <1>0, <2>5, Grows
    <2> QED
        BY <1>10, <2>3, <2>4, <2>5, <2>6
<1>12. CASE ServeEnd
    <2>1. arb' = AfterRelease(wr.end.c, wr.end.e) /\ fx' = fx \o ReleaseTold(wr.end.c, wr.end.e)
        BY <1>12 DEF ServeEnd
    <2>2. fx \o ReleaseTold(wr.end.c, wr.end.e) \in Seq(Effects)
        BY <1>0, Grows, EffectsOf DEF ReleaseTold
    <2>3. fx' = fx \o ReleaseTold(wr.end.c, wr.end.e) \o <<>> /\ <<>> \in Seq(Effects)
        BY <1>0, <2>1, <2>2, Joined, Grows
    <2> QED
        BY <1>10, <2>1, <2>3
<1>13. CASE WriteStep
    <2>1. arb' = arb
        BY <1>13 DEF WriteStep
    <2>2. PICK x \in Effects : x = Revoked(wr.cur.c, wr.cur.acc, wr.cur.tot) /\ x.k = "revoked"
        BY <1>0, <1>13, Writes, EffectsOf
    <2>3. fx' = fx \/ fx' = Append(fx, x)
        BY <1>0, <1>13, <2>2, Writes
    <2>4. fx' = Append(fx, x) => (Tells(fx') <=> Tells(fx))
        BY <1>0, <2>2, TellsNext
    <2> QED
        BY <1>0, <1>3, <2>1, <2>3, <2>4
<1> QED
    BY <1>5, <1>6, <1>7, <1>8, <1>9, <1>11, <1>12, <1>13 DEF WriterLoop

\* The effects always tell who holds control of the PTY: a human took it last, or gave it
\* up last, exactly as the arbiter has it, through claims, takeovers, ends of input and
\* disconnects of whoever (PtyArbiter::claim, takeover, release, writer_loop).
THEOREM EffectsTellControl == Spec => []ControlTold
<1>1. Init => ControlTold
    BY DEF Init, ControlTold, TellsHuman
<1>2. Sound /\ ControlTold /\ [Next]_vars => ControlTold'
    BY ToldKept
<1> QED
    BY <1>1, <1>2, ControlSound, PTL DEF Spec

\* What reaches the PTY after a step reached it in the current epoch, which is that of the
\* last grant: whoever was superseded is silent, however much it had queued
\* (PtyArbiter::stale_reason, write_step).
THEOREM Silence == Spec => SupersededIsSilent
<1> DEFINE A == \A i \in DOMAIN applied' \ DOMAIN applied : \A c \in Conns : conn[c].epoch <= applied'[i].e
<1>1. Sound /\ [Next]_vars => [A]_vars
    <2> SUFFICES ASSUME Sound, Next
                 PROVE  A
        OBVIOUS
    <2>0. /\ AuthorityTyped /\ ConnsTyped /\ OutputTyped /\ applied \in Seq(Entries)
          /\ \A d \in Conns : Whereabouts(d) /\ OutcomeFits(d)
          /\ \A c \in Conns : conn[c].epoch <= arb.epoch
        BY TypeParts DEF Sound, OutputTyped, Entries, EpochsOrdered
    <2>1. ASSUME NEW c \in Conns, NEW e \in Nat, ~Stale(c, e), NEW n \in Nat, applied' = applied \o Bytes(c, e, n)
          PROVE  A
        <3>1. PICK b : b = Bytes(c, e, n)
            OBVIOUS
        <3>2. b \in Seq(Entries) /\ \A j \in DOMAIN b : b[j].e = e
            <4>1. b \in Seq(Entries) /\ DOMAIN b = 1..n /\ \A j \in 1..n : b[j] = [what |-> "byte", c |-> c, e |-> e]
                BY <3>1, BytesTyped
            <4> QED
                BY <4>1
        <3>3. ASSUME NEW i \in DOMAIN (applied \o b) \ DOMAIN applied
              PROVE  (applied \o b)[i].e = e
            <4>0. PICK s \in Seq(Entries) : s = applied
                BY <2>0
            <4>1. i - Len(s) \in DOMAIN b /\ (s \o b)[i] = b[i - Len(s)]
                BY <3>2, <3>3, <4>0
            <4> QED
                BY <3>2, <4>0, <4>1
        <3>4. e = arb.epoch
            BY <2>1 DEF Stale
        <3> QED
            BY <2>0, <2>1, <3>1, <3>3, <3>4
    <2>2. CASE applied' = applied
        BY <2>2
    <2>3. CASE ServeResize
        <3>1. CASE ~Stale(Now.c, Now.e)
            <4>1. PICK x : x = [what |-> "size", c |-> Now.c, e |-> Now.e]
                OBVIOUS
            <4>2. applied' = Append(applied, x) /\ x.e = arb.epoch
                BY <2>3, <3>1, <4>1 DEF ServeResize, Stale
            <4>3. ASSUME NEW i \in DOMAIN applied' \ DOMAIN applied
                  PROVE  applied'[i] = x
                BY <2>0, <4>2, <4>3
            <4> QED
                BY <2>0, <4>2, <4>3
        <3>2. CASE Stale(Now.c, Now.e)
            BY <2>2, <2>3, <3>2 DEF ServeResize
        <3> QED
            BY <3>1, <3>2
    <2>4. CASE WriteStep
        <3>1. CASE applied' # applied
            <4>1. PICK n \in Nat : ~Stale(wr.cur.c, wr.cur.e) /\ applied' = applied \o Bytes(wr.cur.c, wr.cur.e, n)
                BY <2>0, <2>4, <3>1, Writes
            <4>2. wr.cur.c \in Conns /\ wr.cur.e \in Nat
                BY <2>0, <2>4, Writes
            <4> QED
                BY <2>1, <4>1, <4>2
        <3> QED
            BY <2>2, <3>1
    <2>5. CASE WriterLoop /\ ~ServeResize /\ ~WriteStep
        BY <2>2, <2>5 DEF WriterLoop, Take, ServeClaim, ServeTakeover, ServeDisconnect, ServeEnd, NothingLeft
    <2>6. CASE ~WriterLoop
        BY <2>0, <2>2, <2>6, StepKinds, HandlerFrame, OutsideFrame
    <2> QED
        BY <2>3, <2>4, <2>5, <2>6
<1> QED
    BY <1>1, ControlSound, PTL DEF Spec, SupersededIsSilent
(***************************************************************************)
(* The viewer that output is teed to                                       *)
(***************************************************************************)
\* A viewer that is still registered has control from its grant until it leaves.
Seats == {"accept", "check", "put", "relay", "queue", "resize", "bye"}
Seated(c) == Viewing(c) /\ (conn[c].pc \in Seats \/ (At(c, "reply") /\ conn[c].ans = "granted"))
LiveControls == \A c \in reg.live : Seated(c) => arb.owned /\ arb.holder = c

\* Whoever is about to put its viewer holds the sink's lock and was granted control after
\* whoever is in the sink.
SinkHeld ==
    /\ \A c \in Conns : At(c, "put") => sink.lock = c
    /\ sink.viewer # None => /\ Viewing(sink.viewer)
                             /\ conn[sink.viewer].pc \in {"relay", "queue", "resize", "bye", "unreg", "unsink"}
    /\ \A c \in Conns : At(c, "put") /\ sink.viewer # None => conn[sink.viewer].epoch < conn[c].epoch
    /\ \A c \in Conns : retire[c] \in {"clear", "done"} => c \in shut

\* What a handler does with the sink, and that it takes a seat only with a grant.
Seating(c) ==
    /\ conn'[c].pc \in Seats \/ (conn'[c].pc = "reply" /\ conn'[c].ans = "granted") =>
          ~Viewing(c) \/ Seated(c)
    /\ reg'.live \subseteq reg.live \/ (reg'.live = reg.live \cup {c} /\ conn'[c].pc = "ask")
    /\ shut \subseteq shut'
AtSink(c) == conn[c].pc \in {"relay", "queue", "resize", "bye", "unreg", "unsink"}
Sinking(c) ==
    /\ conn'[c].pc = "put" => /\ At(c, "check") /\ c \in reg.live /\ sink.lock = None
                              /\ sink' = [sink EXCEPT !.lock = c]
    /\ At(c, "put") => sink' = [viewer |-> c, lock |-> None] /\ conn'[c].pc = "relay"
    /\ \/ sink' = sink \/ conn'[c].pc = "put" \/ At(c, "put")
       \/ At(c, "unsink") /\ sink.viewer = c /\ sink' = [sink EXCEPT !.viewer = None]
    /\ AtSink(c) /\ Viewing(c) =>
          \/ conn'[c].pc \in {"relay", "queue", "resize", "bye", "unreg", "unsink"}
          \/ At(c, "unsink") /\ (sink.viewer = c => sink' = [sink EXCEPT !.viewer = None])

LEMMA HandlerSits ==
    ASSUME NEW c \in Conns, ConnsTyped, SocketsTyped, Whereabouts(c), HandlerMoves(c)
    PROVE  Seating(c) /\ Sinking(c)
<1>1. /\ conn \in [Conns -> Handlers] /\ conn[c] \in Handlers /\ Mode(c) \in Modes
      /\ reg \in [live : SUBSET Conns, closed : BOOLEAN]
      /\ \A pc : Goto(c, pc) => conn'[c].pc = pc /\ Kept(c)
    BY GoesTo, FramesTyped DEF ConnsTyped, SocketsTyped
<1> USE DEF Seating, Sinking, AtSink, Seated, Seats, At, Kept, Viewing, authority, sockets, viewing
<1>2. CASE Connect(c)
    BY <1>1, <1>2 DEF Connect, OnSocket
<1>3. CASE Hello(c)
    BY <1>1, <1>3 DEF Hello, Whereabouts
<1>4. CASE Ask(c)
    BY <1>1, <1>4 DEF Ask, Handlers
<1>5. CASE Reply(c)
    BY <1>1, <1>5 DEF Reply, OnSocket
<1>6. CASE Accept(c)
    BY <1>1, <1>6 DEF Accept, Whereabouts
<1>7. CASE CheckViewer(c)
    BY <1>1, <1>7 DEF CheckViewer, Whereabouts
<1>8. CASE PutViewer(c)
    BY <1>1, <1>8 DEF PutViewer
<1>9. CASE ReadFails(c)
    BY <1>1, <1>9 DEF ReadFails, Handlers
<1>10. CASE QueueInput(c)
    BY <1>1, <1>10 DEF QueueInput, Handlers
<1>11. CASE QueueResize(c)
    BY <1>1, <1>11 DEF QueueResize, Handlers
<1>12. CASE Await(c)
    BY <1>1, <1>12 DEF Await, Stopped, NoOutcome, Handlers, Whereabouts
<1>13. CASE PollClient(c)
    BY <1>1, <1>13 DEF PollClient
<1>14. CASE Drain(c)
    BY <1>1, <1>14 DEF Drain
<1>15. CASE QueueEnd(c)
    BY <1>1, <1>15 DEF QueueEnd, Handlers
<1>16. CASE Ended(c)
    BY <1>1, <1>16 DEF Ended
<1>17. CASE VanishedPush(c)
    BY <1>1, <1>17 DEF VanishedPush
<1>18. CASE Disconnect(c)
    BY <1>1, <1>18 DEF Disconnect, Whereabouts
<1>19. CASE Unregister(c)
    BY <1>1, <1>19 DEF Unregister
<1>20. CASE Unsink(c)
    BY <1>1, <1>20 DEF Unsink, ClearViewer
<1>21. CASE ReadFrame(c)
    BY <1>1, <1>21 DEF ReadFrame, Handlers
<1>22. CASE ReadEnd(c)
    BY <1>1, <1>22 DEF ReadEnd, Handlers
<1> QED
    BY <1>2, <1>3, <1>4, <1>5, <1>6, <1>7, <1>8, <1>9, <1>10, <1>11, <1>12, <1>13, <1>14, <1>15, <1>16, <1>17, <1>18, <1>19, <1>20, <1>21, <1>22
       DEF HandlerMoves, HandlerStep
LEMMA SameMode ==
    ASSUME setup' = setup
    PROVE  \A c : Viewing(c)' = Viewing(c) /\ Mode(c)' = Mode(c)
BY DEF Viewing, Mode

LEMMA LiveControlsKept ==
    ASSUME Sound, LiveControls, Next
    PROVE  LiveControls'
<1>0. /\ AuthorityTyped /\ ConnsTyped /\ SocketsTyped /\ WriterShape /\ EpochsOrdered /\ setup' = setup
      /\ \A d \in Conns : Whereabouts(d) /\ OutcomeFits(d)
      /\ reg \in [live : SUBSET Conns, closed : BOOLEAN] /\ reg.live \subseteq Conns
    BY TypeParts, StepKinds DEF Sound, SocketsTyped
<1>1. \A c : Viewing(c)' = Viewing(c)
    BY <1>0, SameMode
<1>2. ASSUME reg'.live \subseteq reg.live, arb' = arb,
             \A c \in Conns : Seated(c)' => Seated(c)
      PROVE  LiveControls'
    BY <1>0, <1>2 DEF LiveControls
<1>3. CASE Outside
    <2>1. conn' = conn /\ arb' = arb
        BY <1>3, OutsideFrame
    <2>2. reg'.live \subseteq reg.live
        BY <1>3 DEF Outside, RetireShuts, RetireClears, SendChunk, Vanish, Tee, ChildReads, ChildExits, CloseRegistry, sockets
    <2>3. \A c \in Conns : Seated(c)' => Seated(c)
        BY <1>1, <2>1 DEF Seated, At
    <2> QED
        BY <1>2, <2>1, <2>2, <2>3
<1>4. ASSUME NEW c \in Conns, HandlerMoves(c)
      PROVE  LiveControls'
    <2>1. arb' = arb /\ Moved(c) /\ Seating(c)
        BY <1>0, <1>4, HandlerFrame, HandlerMoved, HandlerSits
    <2>2. \A d \in Conns : Seated(d)' => Seated(d)
        <3>1. \A d \in Conns : d # c => conn'[d] = conn[d]
            BY <1>0, <2>1 DEF Moved, ConnsTyped
        <3> QED
            BY <1>1, <2>1, <3>1 DEF Seated, Seating, At
    <2>3. ~(reg'.live \subseteq reg.live) => reg'.live = reg.live \cup {c} /\ ~Seated(c)'
        BY <2>1 DEF Seating, Seated, Seats, At
    <2> QED
        BY <1>0, <2>1, <2>2, <2>3 DEF LiveControls
<1>5. CASE WriterLoop
    <2>1. \A d \in Conns : Seated(d)' => Seated(d) \/ (Granted /\ d = Now.c)
        <3>1. ASSUME NEW d \in Conns, Seated(d)', ~Seated(d)
              PROVE  Granted /\ d = Now.c
            <4>1. Stays(d) /\ (conn'[d] = conn[d] \/ Answered(d) \/ Told(d))
                BY <1>5, WriterTells
            <4>2. Answered(d) /\ conn'[d].ans = "granted"
                BY <1>1, <3>1, <4>1 DEF Seated, At, Stays, Told, Answered
            <4>3. arb' # arb /\ arb' # [arb EXCEPT !.owned = FALSE]
                BY <1>0, <4>2, ArbTyped, CapacityAssumption DEF Answered, Own
            <4> QED
                BY <1>5, <4>2, <4>3, ControlMoves DEF Answered
        <3> QED
            BY <3>1
    <2>2. reg'.live \subseteq reg.live
        BY <1>0, <1>5 DEF WriterLoop, Take, ServeClaim, ServeTakeover, ServeResize, ServeDisconnect, ServeEnd,
           WriteStep, NothingLeft, sockets, Retire
    <2>3. CASE Granted
        <3>1. arb' = Own(Now.c) /\ (ServeClaim \/ ServeTakeover) /\ arb' # arb
            BY <1>0, <2>3, ArbTyped, CapacityAssumption DEF Granted, Own
        <3>2. ASSUME NEW d \in reg'.live, Seated(d)', d # Now.c
              PROVE  FALSE
            <4>1. d \in Conns /\ d \in reg.live /\ Seated(d)
                BY <1>0, <2>1, <2>2, <3>2
            <4>2. arb.owned /\ arb.holder = d
                BY <4>1 DEF LiveControls
            <4>3. ServeTakeover /\ Retire(d)
                BY <3>1, <4>2 DEF ServeClaim, ServeTakeover
            <4>4. reg' = [reg EXCEPT !.live = @ \ {d}]
                BY <4>1, <4>3 DEF Retire
            <4>5. d \notin reg'.live
                BY <1>0, <4>4
            <4> QED
                BY <3>2, <4>5
        <3> QED
            BY <3>1, <3>2 DEF LiveControls, Own
    <2>4. CASE ~Granted
        <3>1. ASSUME NEW d \in reg'.live, Seated(d)'
              PROVE  arb'.owned /\ arb'.holder = d
            <4>1. d \in Conns /\ d \in reg.live /\ Seated(d)
                BY <1>0, <2>1, <2>2, <2>4, <3>1
            <4>2. arb.owned /\ arb.holder = d
                BY <4>1 DEF LiveControls
            <4>3. CASE arb' = arb
                BY <4>2, <4>3
            <4>4. CASE arb' # arb
                <5>1. ServeDisconnect \/ ServeEnd
                    <6>1. arb' = [arb EXCEPT !.owned = FALSE]
                        BY <1>5, <2>4, <4>4, ControlMoves
                    <6>2. arb'.epoch = arb.epoch
                        BY <1>0, <6>1, ArbTyped
                    <6>3. arb.epoch \in Nat
                        BY <1>0, ArbTyped, CapacityAssumption
                    <6>4. ~ServeClaim /\ ~ServeTakeover
                        BY <4>4, <6>2, <6>3 DEF ServeClaim, ServeTakeover, Own
                    <6> QED
                        BY <1>5, <4>4, <6>4 DEF WriterLoop, Take, ServeResize, WriteStep, NothingLeft
                <5>2. CASE ServeDisconnect
                    <6>1. Unserved /\ Now.op = "disconnect" /\ Now.c = d
                        BY <4>2, <4>4, <5>2 DEF ServeDisconnect, Served, Now, AfterRelease, Stale
                    <6>2. ControlKnown(Now)
                        BY <1>0, <6>1, NowAsked DEF Sound, ControlsKnown
                    <6>3. conn[d].pc \in {"unreg", "unsink", "done"}
                        BY <6>1, <6>2 DEF ControlKnown
                    <6> QED
                        BY <4>1, <6>3 DEF Seated, Seats, At
                <5>3. CASE ServeEnd
                    <6>1. wr.end # NoInput /\ wr.end.c = d /\ wr.end \in Items
                        BY <4>2, <4>4, <5>3 DEF ServeEnd, AfterRelease, Stale, Items
                    <6>2. wr.end.op = "end" /\ ItemKnown(wr.end)
                        BY <1>0, <6>1 DEF WriterShape, Sound, ItemsKnown
                    <6> QED
                        BY <4>1, <6>1, <6>2 DEF ItemKnown, Seated
                <5> QED
                    BY <5>1, <5>2, <5>3
            <4> QED
                BY <4>3, <4>4
        <3> QED
            BY <3>1 DEF LiveControls
    <2> QED
        BY <2>3, <2>4
<1> QED
    BY <1>3, <1>4, <1>5, StepKinds

LEMMA SinkHeldKept ==
    ASSUME Sound, LiveControls, SinkHeld, Next
    PROVE  SinkHeld'
<1>0. /\ AuthorityTyped /\ ConnsTyped /\ SocketsTyped /\ ViewingTyped /\ EpochsOrdered /\ setup' = setup
      /\ \A d \in Conns : Whereabouts(d) /\ OutcomeFits(d)
      /\ sink \in Sinks /\ retire \in [Conns -> {"no", "shut", "clear", "done"}]
      /\ conn \in [Conns -> Handlers]
      /\ \A d \in Conns : conn[d].epoch \in Nat
      /\ arb.epoch \in Nat
    <2>1. /\ AuthorityTyped /\ ConnsTyped /\ SocketsTyped /\ ViewingTyped /\ EpochsOrdered
          /\ \A d \in Conns : Whereabouts(d) /\ OutcomeFits(d)
        BY TypeParts DEF Sound
    <2>2. setup' = setup
        BY StepKinds
    <2>3. sink \in Sinks /\ retire \in [Conns -> {"no", "shut", "clear", "done"}]
        BY <2>1 DEF ViewingTyped, Sinks
    <2>4. conn \in [Conns -> Handlers]
        BY <2>1 DEF ConnsTyped
    <2>5. \A d \in Conns : conn[d].epoch \in Nat
        BY <2>4, CapacityAssumption DEF Handlers
    <2>6. arb.epoch \in Nat
        BY <2>1, ArbTyped, CapacityAssumption
    <2> QED
        BY <2>1, <2>2, <2>3, <2>4, <2>5, <2>6
<1>1. \A c : Viewing(c)' = Viewing(c)
    BY <1>0, SameMode
<1>2. sink = [viewer |-> sink.viewer, lock |-> sink.lock] /\ sink.viewer \in Conns \cup {None} /\ None \notin Conns
    BY <1>0, ConnsAssumption DEF Sinks, None
<1>3. CASE Outside
    <2>1. conn' = conn
        BY <1>3, OutsideFrame
    <2>2. sink'.lock = sink.lock /\ (sink'.viewer = sink.viewer \/ sink'.viewer = None) /\ shut \subseteq shut'
        <3>1. ASSUME NEW c \in Conns, RetireShuts(c) \/ RetireClears(c) \/ SendChunk(c) \/ Vanish(c)
              PROVE  sink'.lock = sink.lock /\ (sink'.viewer = sink.viewer \/ sink'.viewer = None) /\ shut \subseteq shut'
            BY <1>2, <3>1 DEF RetireShuts, RetireClears, SendChunk, Vanish, ClearViewer, sockets, viewing
        <3>2. CASE Tee
            BY <1>2, <3>2 DEF Tee
        <3>3. CASE ChildReads \/ ChildExits \/ CloseRegistry
            BY <3>3 DEF ChildReads, ChildExits, CloseRegistry, sockets, viewing
        <3> QED
            BY <1>3, <3>1, <3>2, <3>3 DEF Outside
    <2>3. \A c \in Conns : retire'[c] \in {"clear", "done"} => c \in shut'
        <3>1. ASSUME NEW d \in Conns, RetireShuts(d) \/ RetireClears(d)
              PROVE  \A c \in Conns : retire'[c] \in {"clear", "done"} => c \in shut'
            BY <1>0, <2>2, <3>1 DEF RetireShuts, RetireClears, SinkHeld
        <3>2. (\E d \in Conns : RetireShuts(d) \/ RetireClears(d)) \/ retire' = retire
            BY <1>3 DEF Outside, SendChunk, Vanish, Tee, ChildReads, ChildExits, CloseRegistry, viewing
        <3> QED
            BY <2>2, <3>1, <3>2 DEF SinkHeld
    <2> QED
        BY <1>1, <2>1, <2>2, <2>3 DEF SinkHeld, At
<1>4. CASE WriterLoop
    <2>1. sink' = sink /\ shut' = shut
        BY <1>4 DEF WriterLoop, Take, ServeClaim, ServeTakeover, ServeResize, ServeDisconnect, ServeEnd,
           WriteStep, NothingLeft, sockets, viewing
    <2>2. \A c \in Conns : retire'[c] \in {"clear", "done"} => retire[c] \in {"clear", "done"}
        <3>1. retire' = retire \/ retire' = [retire EXCEPT ![arb.holder] = "shut"]
            <4>1. CASE ServeTakeover
                BY <4>1 DEF ServeTakeover, Retire
            <4>2. CASE ~ServeTakeover
                BY <1>4, <4>2 DEF WriterLoop, Take, ServeClaim, ServeResize, ServeDisconnect, ServeEnd,
                   WriteStep, NothingLeft, viewing
            <4> QED
                BY <4>1, <4>2
        <3> QED
            BY <1>0, <3>1
    <2>3. ASSUME NEW c \in Conns
          PROVE  conn'[c].pc = conn[c].pc /\ (conn[c].pc # "reply" => conn'[c].epoch = conn[c].epoch)
        BY <1>4, WriterTells DEF Stays, Answered, Told, At
    <2> QED
        BY <1>1, <1>2, <2>1, <2>2, <2>3 DEF SinkHeld, At
<1>5. ASSUME NEW c \in Conns, HandlerMoves(c)
      PROVE  SinkHeld'
    <2>1. Moved(c) /\ Seating(c) /\ Sinking(c) /\ retire' = retire
        BY <1>0, <1>5, HandlerMoved, HandlerSits, HandlerFrame
    <2>2. /\ \A d \in Conns : d # c => conn'[d] = conn[d]
          /\ \A d \in Conns : conn'[d].epoch = conn[d].epoch
        BY <1>0, <2>1 DEF Moved
    <2>3. \A d \in Conns : retire'[d] \in {"clear", "done"} => d \in shut'
        BY <2>1 DEF SinkHeld, Seating
    <2>4. CASE At(c, "put")
        <3>1. sink' = [viewer |-> c, lock |-> None] /\ conn'[c].pc = "relay" /\ Viewing(c)
            BY <1>0, <2>1, <2>4 DEF Sinking, Whereabouts, At
        <3>2. \A d \in Conns : conn'[d].pc # "put"
            BY <2>2, <2>4, <3>1 DEF SinkHeld, At
        <3> QED
            BY <1>1, <2>3, <3>1, <3>2 DEF SinkHeld, At
    <2>5. CASE conn'[c].pc = "put"
        <3>1. At(c, "check") /\ c \in reg.live /\ sink.lock = None /\ sink'.lock = c /\ sink'.viewer = sink.viewer
            BY <1>2, <2>1, <2>5 DEF Sinking
        <3>2. \A d \in Conns : d # c => conn'[d].pc # "put"
            BY <1>2, <2>2, <3>1 DEF SinkHeld, At
        <3>3. Seated(c)
            BY <1>0, <3>1 DEF Seated, Seats, Whereabouts, At
        <3>4. arb.owned /\ arb.holder = c /\ conn[c].epoch = arb.epoch /\ arb.epoch > 0
            BY <3>1, <3>3, <1>0 DEF LiveControls, EpochsOrdered
        <3>5. sink.viewer # None => sink.viewer # c /\ conn[sink.viewer].epoch < conn[c].epoch
            <4>1. ASSUME sink.viewer # None
                  PROVE  sink.viewer # c /\ conn[sink.viewer].epoch < conn[c].epoch
                <5>1. PICK v \in Conns : v = sink.viewer
                    BY <1>2, <4>1
                <5>2. v # c
                    BY <3>1, <4>1, <5>1 DEF SinkHeld, At
                <5>3. conn[v].epoch <= arb.epoch /\ conn[v].epoch # conn[c].epoch
                    BY <1>0, <3>4, <5>2 DEF EpochsOrdered
                <5> QED
                    BY <1>0, <3>4, <5>1, <5>2, <5>3
            <4> QED
                BY <4>1
        <3>6. sink'.viewer # None => conn'[sink'.viewer].pc = conn[sink'.viewer].pc
            BY <1>2, <2>2, <3>1, <3>5
        <3>7. sink'.viewer # None => conn'[sink'.viewer].epoch < conn'[c].epoch
            BY <1>2, <2>2, <3>1, <3>5
        <3>8. \A d \in Conns : conn'[d].pc = "put" => d = c /\ sink'.lock = d
            BY <3>1, <3>2
        <3> QED
            BY <1>1, <2>3, <3>1, <3>6, <3>7, <3>8 DEF SinkHeld, At
    <2>6. CASE ~At(c, "put") /\ conn'[c].pc # "put"
        <3>1. sink'.lock = sink.lock /\ (sink'.viewer = sink.viewer \/ sink'.viewer = None)
            BY <1>2, <2>1, <2>6 DEF Sinking
        <3>2. sink'.viewer # None =>
                 conn'[sink'.viewer].pc \in {"relay", "queue", "resize", "bye", "unreg", "unsink"}
            <4>1. ASSUME sink'.viewer # None
                  PROVE  conn'[sink'.viewer].pc \in {"relay", "queue", "resize", "bye", "unreg", "unsink"}
                <5>1. PICK v \in Conns : v = sink.viewer /\ sink'.viewer = v
                    BY <1>2, <3>1, <4>1
                <5>2. CASE v # c
                    BY <2>2, <4>1, <5>1, <5>2 DEF SinkHeld
                <5>3. CASE v = c
                    <6>1. AtSink(c) /\ Viewing(c)
                        BY <4>1, <5>1, <5>3, <3>1 DEF SinkHeld, AtSink
                    <6>2. sink' # [sink EXCEPT !.viewer = None]
                        BY <1>2, <4>1
                    <6> QED
                        BY <2>1, <5>1, <5>3, <6>1, <6>2 DEF Sinking
                <5> QED
                    BY <5>2, <5>3
            <4> QED
                BY <4>1
        <3>3. \A d \in Conns : conn'[d].pc = "put" => conn[d].pc = "put"
            BY <2>2, <2>6
        <3> QED
            BY <1>1, <1>2, <2>2, <2>3, <3>1, <3>2, <3>3 DEF SinkHeld, At
    <2> QED
        BY <2>4, <2>5, <2>6
<1> QED
    BY <1>3, <1>4, <1>5, StepKinds

LEMMA ViewersKept ==
    ASSUME Sound, LiveControls, SinkHeld, [Next]_vars
    PROVE  (LiveControls /\ SinkHeld)'
<1>1. CASE Next
    BY <1>1, LiveControlsKept, SinkHeldKept
<1>2. CASE UNCHANGED vars
    <2>1. UNCHANGED <<setup, arb, conn, reg, sink, retire, shut>>
        BY <1>2 DEF vars, authority, sockets, viewing
    <2> QED
        BY <2>1 DEF LiveControls, SinkHeld, Seated, Viewing, Mode, At
<1> QED
    BY <1>1, <1>2

\* A stale connection never takes its successor's viewer out of the sink, nor puts its own
\* over it: whoever replaces a viewer was granted control later, and whoever takes one out
\* has shut its connection down or is that connection leaving (install_viewer,
\* retire_connection, ViewerSink).
THEOREM ViewerSurvives == Spec => SuccessorKeepsViewer
<1> DEFINE A == LET v == sink.viewer w == sink'.viewer
                IN  v # None /\ w # v =>
                      \/ w # None /\ conn[w].epoch > conn[v].epoch
                      \/ w = None /\ (v \in shut' \/ conn[v].pc = "unsink")
<1>1. Init => LiveControls /\ SinkHeld
    BY DEF Init, LiveControls, SinkHeld, At
<1>2. Sound /\ LiveControls /\ SinkHeld /\ [Next]_vars => (LiveControls /\ SinkHeld)'
    BY ViewersKept
<1>3. Sound /\ LiveControls /\ SinkHeld /\ [Next]_vars => [A]_vars
    <2> SUFFICES ASSUME Sound, SinkHeld, Next, sink.viewer # None, sink'.viewer # sink.viewer
                 PROVE  \/ sink'.viewer # None /\ conn[sink'.viewer].epoch > conn[sink.viewer].epoch
                        \/ sink'.viewer = None /\ (sink.viewer \in shut' \/ conn[sink.viewer].pc = "unsink")
        OBVIOUS
    <2>0. /\ ConnsTyped /\ SocketsTyped /\ sink \in Sinks /\ sink.viewer \in Conns /\ None \notin Conns
          /\ \A d \in Conns : Whereabouts(d) /\ OutcomeFits(d) /\ conn[d].epoch \in Nat
        BY TypeParts, FramesTyped, ConnsAssumption, CapacityAssumption DEF Sound, ViewingTyped, Sinks, None, Handlers
    <2>1. CASE WriterLoop
        BY <2>1 DEF WriterLoop, Take, ServeClaim, ServeTakeover, ServeResize, ServeDisconnect, ServeEnd,
           WriteStep, NothingLeft, viewing
    <2>2. ASSUME NEW c \in Conns, HandlerMoves(c)
          PROVE  \/ sink'.viewer # None /\ conn[sink'.viewer].epoch > conn[sink.viewer].epoch
                 \/ sink'.viewer = None /\ conn[sink.viewer].pc = "unsink"
        <3>1. Sinking(c)
            BY <2>0, <2>2, HandlerSits
        <3>2. CASE At(c, "put")
            <4>1. sink'.viewer = c /\ conn[sink.viewer].epoch < conn[c].epoch
                BY <3>1, <3>2 DEF Sinking, SinkHeld
            <4> QED
                BY <2>0, <4>1
        <3>3. CASE ~At(c, "put")
            BY <2>0, <3>1, <3>3 DEF Sinking, Sinks, At
        <3> QED
            BY <3>2, <3>3
    <2>3. CASE Outside
        <3>1. ASSUME NEW c \in Conns, RetireClears(c)
              PROVE  sink'.viewer = None /\ sink.viewer \in shut'
            BY <2>0, <3>1 DEF RetireClears, ClearViewer, SinkHeld, Sinks, sockets
        <3>2. CASE Tee
            BY <2>0, <3>2 DEF Tee, Sinks
        <3>3. CASE ~Tee /\ ~(\E c \in Conns : RetireClears(c))
            BY <2>3, <3>3 DEF Outside, RetireShuts, SendChunk, Vanish, ChildReads, ChildExits, CloseRegistry, viewing
        <3> QED
            BY <3>1, <3>2, <3>3
    <2> QED
        BY <2>1, <2>2, <2>3, StepKinds
<1> QED
    BY <1>1, <1>2, <1>3, ControlSound, PTL DEF Spec, SuccessorKeepsViewer
=============================================================================
