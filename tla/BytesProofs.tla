---------------------------- MODULE BytesProofs -----------------------------
(***************************************************************************)
(* Proofs about what becomes of the bytes of input, for any connections,   *)
(* capacities and frames, on top of the invariant Sound of ControlProofs.  *)
(*                                                                         *)
(* Accounts is inductive on top of Sound. AllBalanced: while the PTY is    *)
(* open, what a connection has queued is what was written for it, what is  *)
(* still in the queue or in the writer's hands, and what its revocations   *)
(* told as lost. PushKnown: at each point of a push, what it counts,       *)
(* awaits or reports agrees with that.                                     *)
(***************************************************************************)
EXTENDS ControlProofs

(***************************************************************************)
(* What was written, what was lost and what was sent                       *)
(***************************************************************************)
WrittenIn(s, c) == {i \in DOMAIN s : s[i].what = "byte" /\ s[i].c = c}

LEMMA WrittenTyped ==
    ASSUME NEW s \in Seq(Entries), NEW c
    PROVE  /\ IsFiniteSet(WrittenIn(s, c)) /\ Cardinality(WrittenIn(s, c)) \in Nat
           /\ WrittenIn(s, c) \subseteq 1..Len(s)
<1>1. WrittenIn(s, c) \subseteq 1..Len(s)
    BY DEF WrittenIn
<1>2. IsFiniteSet(1..Len(s))
    BY FS_Interval
<1> QED
    BY <1>1, <1>2, FS_Subset, FS_CardinalityType

LEMMA WrittenSize ==
    ASSUME NEW s \in Seq(Entries), NEW c, NEW x \in Entries, x.what = "size"
    PROVE  WrittenIn(Append(s, x), c) = WrittenIn(s, c)
<1>1. Len(s) \in Nat /\ DOMAIN s = 1..Len(s) /\ DOMAIN Append(s, x) = 1..(Len(s) + 1)
    OBVIOUS
<1>2. \A i \in 1..Len(s) : Append(s, x)[i] = s[i]
    OBVIOUS
<1>3. Append(s, x)[Len(s) + 1] = x
    OBVIOUS
<1>4. \A i \in 1..(Len(s) + 1) : i \in 1..Len(s) \/ i = Len(s) + 1
    BY <1>1
<1> QED
    BY <1>1, <1>2, <1>3, <1>4 DEF WrittenIn

\* n bytes of d's make n more of d's, and no more of anyone else's.
LEMMA WrittenBytes ==
    ASSUME NEW s \in Seq(Entries), NEW c, NEW d \in Conns, NEW e \in Nat, NEW n \in Nat
    PROVE  Cardinality(WrittenIn(s \o Bytes(d, e, n), c)) = Cardinality(WrittenIn(s, c)) + IF c = d THEN n ELSE 0
<1> DEFINE t == s \o Bytes(d, e, n)
           new == (Len(s) + 1)..(Len(s) + n)
<1>1. Len(s) \in Nat /\ DOMAIN s = 1..Len(s)
    OBVIOUS
<1>2. /\ Bytes(d, e, n) \in Seq(Entries) /\ DOMAIN Bytes(d, e, n) = 1..n
      /\ \A j \in 1..n : Bytes(d, e, n)[j] = [what |-> "byte", c |-> d, e |-> e]
    BY BytesTyped
<1>3. Len(Bytes(d, e, n)) = n
    BY <1>2
<1>4. DOMAIN t = 1..(Len(s) + n)
    BY <1>1, <1>2, <1>3
<1>5. \A i \in 1..Len(s) : t[i] = s[i]
    BY <1>2
<1>6. ASSUME NEW i \in new
      PROVE  t[i].what = "byte" /\ t[i].c = d
    <2>1. PICK j \in 1..n : i = Len(s) + j
        BY <1>1, SMT
    <2>2. t[i] = Bytes(d, e, n)[j]
        BY <1>1, <1>2, <1>3, <2>1
    <2> QED
        BY <1>2, <2>1, <2>2
<1>7. \A i : i \in 1..(Len(s) + n) <=> i \in 1..Len(s) \/ i \in new
    BY <1>1
<1>8. WrittenIn(t, c) = WrittenIn(s, c) \cup IF c = d THEN new ELSE {}
    <2> HIDE DEF t, new
    <2> QED
        BY <1>1, <1>4, <1>5, <1>6, <1>7 DEF WrittenIn
<1>9. WrittenIn(s, c) \cap new = {}
    BY <1>1, WrittenTyped
<1>10. IsFiniteSet(new) /\ Cardinality(new) = n
    <2>1. PICK a, b \in Int : a = Len(s) + 1 /\ b = Len(s) + n
        BY <1>1
    <2>2. IsFiniteSet(a..b) /\ Cardinality(a..b) = IF a > b THEN 0 ELSE b - a + 1
        BY FS_Interval
    <2>3. (IF a > b THEN 0 ELSE b - a + 1) = n
        BY <1>1, <2>1
    <2> QED
        BY <2>1, <2>2, <2>3
<1> HIDE DEF t, new
<1>11. CASE c = d
    <2>1. Cardinality(WrittenIn(t, c)) = Cardinality(WrittenIn(s, c)) + Cardinality(new) - Cardinality(WrittenIn(s, c) \cap new)
        BY <1>8, <1>10, <1>11, WrittenTyped, FS_Union
    <2>2. Cardinality(WrittenIn(s, c) \cap new) = 0
        BY <1>9, FS_EmptySet
    <2> QED
        BY <1>10, <1>11, <2>1, <2>2, WrittenTyped DEF t
<1>12. CASE c # d
    BY <1>8, <1>12, WrittenTyped DEF t
<1> QED
    BY <1>11, <1>12
\* The bytes of the frames before the nth.
FramesBefore(f, n) == {k \in DOMAIN f : k < n}

LEMMA SentTyped ==
    ASSUME NEW f \in Seq(Nat), NEW n \in Nat
    PROVE  /\ IsFiniteSet(FramesBefore(f, n)) /\ Naturals(f, FramesBefore(f, n))
           /\ SumOver(f, FramesBefore(f, n)) \in Nat
<1>0. PICK a, b \in Int : a = 1 /\ b = Len(f)
    OBVIOUS
<1>1. FramesBefore(f, n) \subseteq 1..Len(f) /\ IsFiniteSet(1..Len(f))
    BY <1>0, FS_Interval DEF FramesBefore
<1>2. IsFiniteSet(FramesBefore(f, n))
    BY <1>1, FS_Subset
<1>3. Naturals(f, FramesBefore(f, n))
    BY <1>1 DEF Naturals
<1> QED
    BY <1>2, <1>3, SumType

LEMMA SentNext ==
    ASSUME NEW f \in Seq(Nat), NEW n \in Nat, n > 0, n <= Len(f)
    PROVE  SumOver(f, FramesBefore(f, n + 1)) = SumOver(f, FramesBefore(f, n)) + f[n]
<1>1. FramesBefore(f, n + 1) = FramesBefore(f, n) \cup {n} /\ n \notin FramesBefore(f, n)
    BY DEF FramesBefore
<1>2. IsFiniteSet(FramesBefore(f, n)) /\ Naturals(f, FramesBefore(f, n + 1))
    BY SentTyped
<1> QED
    BY <1>1, <1>2, SumAdd

Sent(f, n) == SumOf([i \in {k \in DOMAIN f : k < n} |-> f[i]])

LEMMA SentIs ==
    ASSUME NEW f \in Seq(Nat), NEW n \in Nat
    PROVE  Sent(f, n) = SumOver(f, FramesBefore(f, n))
<1> DEFINE g == [i \in FramesBefore(f, n) |-> f[i]]
<1>1. Sent(f, n) = SumOf(g)
    BY DEF Sent, FramesBefore
<1>2. DOMAIN g = FramesBefore(f, n) /\ Agree(g, f, FramesBefore(f, n))
    BY DEF Agree
<1> HIDE DEF g
<1>3. SumOf(g) = SumOver(g, FramesBefore(f, n))
    BY <1>2, SumOfIsSum
<1>4. SumOver(g, FramesBefore(f, n)) = SumOver(f, FramesBefore(f, n))
    BY <1>2, SentTyped, SumCongruence
<1> QED
    BY <1>1, <1>3, <1>4

LEMMA QueuedIs ==
    ASSUME ConnsTyped, NEW c \in Conns
    PROVE  Queued(c) = Sent(setup.frames[c], conn[c].next) /\ Queued(c) \in Nat
<1>1. PICK f \in Seq(Nat), n \in Nat : f = setup.frames[c] /\ n = conn[c].next
    BY FramesTyped
<1>2. Queued(c) = Sent(f, n)
    BY <1>1 DEF Queued, Sent
<1>3. Sent(f, n) \in Nat
    BY SentIs, SentTyped
<1> QED
    BY <1>1, <1>2, <1>3

LEMMA QueuedAll ==
    ASSUME ConnsTyped, NEW c \in Conns, ~More(c)
    PROVE  Queued(c) = SumOf(setup.frames[c])
<1>1. PICK f \in Seq(Nat), n \in Nat : f = setup.frames[c] /\ n = conn[c].next
    BY FramesTyped
<1>2. ~(n <= Len(f)) /\ DOMAIN f = 1..Len(f) /\ Len(f) \in Nat
    BY <1>1 DEF More
<1>3. FramesBefore(f, n) = DOMAIN f
    BY <1>2 DEF FramesBefore
<1> QED
    BY <1>1, <1>3, QueuedIs, SentIs, SumOfIsSum

LEMMA QueuedKept ==
    ASSUME ConnsTyped, ConnsTyped', setup' = setup, NEW c \in Conns
    PROVE  /\ conn'[c].next = conn[c].next => Queued(c)' = Queued(c)
           /\ More(c) /\ conn[c].next > 0 /\ conn'[c].next = conn[c].next + 1 => Queued(c)' = Queued(c) + Frame(c)
<1>1. PICK f \in Seq(Nat), n \in Nat, m \in Nat : f = setup.frames[c] /\ n = conn[c].next /\ m = conn'[c].next
    <2>1. conn'[c].next \in Nat
        BY DEF ConnsTyped, Handlers
    <2> QED
        BY <2>1, FramesTyped
<1>2. Queued(c) = SumOver(f, FramesBefore(f, n))
    BY <1>1, QueuedIs, SentIs
<1>3. Queued(c)' = SumOver(f, FramesBefore(f, m))
    <2>1. Queued(c)' = Sent(f, m)
        BY <1>1 DEF Queued, Sent
    <2> QED
        BY <2>1, SentIs
<1>4. More(c) <=> n <= Len(f)
    BY <1>1 DEF More
<1>5. Frame(c) = f[n]
    BY <1>1 DEF Frame
<1> QED
    BY <1>1, <1>2, <1>3, <1>4, <1>5, SentNext
\* Every report of revoked input counts what was written as part of it.
ExactEffects == {x \in Effects : x.k = "revoked" => x.acc <= x.tot}
LossOf(c) == [x \in ExactEffects |-> IF x.k = "revoked" /\ x.c = c THEN x.tot - x.acc ELSE 0]
LostIn(s, c) == SumOf([i \in DOMAIN s |-> IF s[i].k = "revoked" /\ s[i].c = c THEN s[i].tot - s[i].acc ELSE 0])

LEMMA LossTyped ==
    ASSUME NEW c
    PROVE  LossOf(c) \in [ExactEffects -> Nat]
<1>1. ASSUME NEW x \in ExactEffects, x.k = "revoked"
      PROVE  x.tot - x.acc \in Nat
    <2>1. PICK t, a \in Nat : t = x.tot /\ a = x.acc
        BY <1>1 DEF ExactEffects, Effects
    <2>2. a <= t
        BY <1>1, <2>1 DEF ExactEffects
    <2>3. t - a \in Nat
        BY <2>1, <2>2
    <2> QED
        BY <2>1, <2>3
<1> QED
    BY <1>1 DEF LossOf

LEMMA LostAlong ==
    ASSUME NEW s \in Seq(ExactEffects), NEW c
    PROVE  LostIn(s, c) = Along(LossOf(c), s) /\ LostIn(s, c) \in Nat
<1> DEFINE f == [i \in DOMAIN s |-> IF s[i].k = "revoked" /\ s[i].c = c THEN s[i].tot - s[i].acc ELSE 0]
<1>1. \A i \in DOMAIN s : s[i] \in ExactEffects
    OBVIOUS
<1>2. f = [i \in DOMAIN s |-> LossOf(c)[s[i]]]
    BY <1>1 DEF LossOf
<1>3. DOMAIN f = DOMAIN s /\ LostIn(s, c) = SumOf(f)
    BY DEF LostIn
<1> HIDE DEF f
<1>4. LostIn(s, c) = SumOver(f, DOMAIN s)
    BY <1>3, SumOfIsSum
<1>5. LostIn(s, c) = Along(LossOf(c), s)
    BY <1>2, <1>4 DEF Along
<1> QED
    BY <1>5, LossTyped, AlongType

LEMMA LostMore ==
    ASSUME NEW s \in Seq(ExactEffects), NEW c, NEW x \in ExactEffects
    PROVE  /\ LostIn(Append(s, x), c) = LostIn(s, c) + IF x.k = "revoked" /\ x.c = c THEN x.tot - x.acc ELSE 0
           /\ Append(s, x) \in Seq(ExactEffects)
<1>1. Append(s, x) \in Seq(ExactEffects)
    OBVIOUS
<1>2. Along(LossOf(c), Append(s, x)) = Along(LossOf(c), s) + LossOf(c)[x]
    BY LossTyped, AlongAppend
<1>3. LossOf(c)[x] = IF x.k = "revoked" /\ x.c = c THEN x.tot - x.acc ELSE 0
    BY DEF LossOf
<1> QED
    BY <1>1, <1>2, <1>3, LostAlong

\* What each connection has in hand: what was written of it is part of it, and end
\* markers weigh nothing.
LEMMA HandWeighs ==
    ASSUME Sound, NEW c \in Conns
    PROVE  /\ Held(TotOf(c)) \in Nat /\ Held(AccOf(c)) \in Nat /\ Held(AccOf(c)) <= Held(TotOf(c))
           /\ TotOf(c)[wr.end] = 0 /\ AccOf(c)[wr.end] = 0
<1>0. /\ AuthorityTyped /\ inputs \in Seq(Item)
      /\ TotOf(c) \in [Item -> Nat] /\ AccOf(c) \in [Item -> Nat]
      /\ TotOf(c)[NoInput] = 0 /\ AccOf(c)[NoInput] = 0
    BY TypeParts, HeldTyped, WeightsTyped DEF Sound
<1>1. ASSUME NEW x \in Items
      PROVE  AccOf(c)[x] <= TotOf(c)[x]
    <2>1. ItemKnown(x) /\ x \in Item /\ x.op \in {"write", "end"} /\ x.acc \in Nat /\ x.tot \in Nat
        BY <1>0, ItemsTyped DEF Sound, ItemsKnown
    <2>2. PICK a, t \in Nat : a = x.acc /\ t = x.tot
        BY <2>1
    <2>3. a <= t
        BY <2>1, <2>2 DEF ItemKnown
    <2> QED
        BY <2>1, <2>2, <2>3 DEF AccOf, TotOf
<1>2. TotOf(c)[wr.end] = 0 /\ AccOf(c)[wr.end] = 0
    <2>1. CASE wr.end = NoInput
        BY <1>0, <2>1
    <2>2. CASE wr.end # NoInput
        <3>1. wr.end \in Items /\ wr.end.op = "end"
            BY <2>2 DEF Items, Sound, WriterShape
        <3>2. ItemKnown(wr.end) /\ wr.end \in Item
            BY <1>0, <3>1, ItemsTyped DEF Sound, ItemsKnown
        <3>3. wr.end.tot = 0 /\ wr.end.acc = 0
            BY <3>1, <3>2 DEF ItemKnown
        <3> QED
            BY <3>2, <3>3 DEF TotOf, AccOf
    <2> QED
        BY <2>1, <2>2
<1>3. AccOf(c)[wr.cur] <= TotOf(c)[wr.cur]
    BY <1>0, <1>1 DEF Items
<1>4. \A i \in DOMAIN inputs : AccOf(c)[inputs[i]] <= TotOf(c)[inputs[i]]
    BY <1>1 DEF Items
<1>5. Along(AccOf(c), inputs) <= Along(TotOf(c), inputs)
    BY <1>0, <1>4, AlongOrder
<1>6. /\ Along(AccOf(c), inputs) \in Nat /\ Along(TotOf(c), inputs) \in Nat
      /\ AccOf(c)[wr.cur] \in Nat /\ TotOf(c)[wr.cur] \in Nat
    BY <1>0, HeldTyped
<1> QED
    BY <1>2, <1>3, <1>5, <1>6 DEF Held

LEMMA PendingIs ==
    ASSUME Sound, NEW c \in Conns
    PROVE  Pending(c) = Held(TotOf(c)) - Held(AccOf(c))
<1>0. /\ AuthorityTyped /\ inputs \in Seq(Item) /\ wr.cur \in Item
      /\ TotOf(c) \in [Item -> Nat] /\ AccOf(c) \in [Item -> Nat]
    BY TypeParts, HeldTyped, WeightsTyped, WriterTyped DEF Sound
<1>1. Append(inputs, wr.cur) \in Seq(Item)
    BY <1>0
<1>2. /\ Tot(Append(inputs, wr.cur), c) = Along(TotOf(c), inputs) + TotOf(c)[wr.cur]
      /\ Acc(Append(inputs, wr.cur), c) = Along(AccOf(c), inputs) + AccOf(c)[wr.cur]
    <2>1. PICK x \in Item : x = wr.cur
        BY <1>0
    <2>2. /\ Along(TotOf(c), Append(inputs, x)) = Along(TotOf(c), inputs) + TotOf(c)[x]
          /\ Along(AccOf(c), Append(inputs, x)) = Along(AccOf(c), inputs) + AccOf(c)[x]
        BY <1>0, AlongAppend
    <2>3. Append(inputs, x) \in Seq(Item)
        BY <1>0
    <2> QED
        BY <2>1, <2>2, <2>3, TotAlong
<1>3. /\ Along(AccOf(c), inputs) \in Nat /\ Along(TotOf(c), inputs) \in Nat
      /\ AccOf(c)[wr.cur] \in Nat /\ TotOf(c)[wr.cur] \in Nat
    BY <1>0, HeldTyped
<1>4. TotOf(c)[wr.end] = 0 /\ AccOf(c)[wr.end] = 0
    BY HandWeighs
<1> QED
    BY <1>2, <1>3, <1>4 DEF Pending, Held

\* Who has nothing in hand weighs nothing.
LEMMA NothingHeld ==
    ASSUME Sound, NEW c \in Conns, \A x \in Items : x.c # c
    PROVE  Held(AccOf(c)) = 0 /\ Held(TotOf(c)) = 0
<1>0. /\ AuthorityTyped /\ inputs \in Seq(Item)
      /\ TotOf(c) \in [Item -> Nat] /\ AccOf(c) \in [Item -> Nat]
      /\ TotOf(c)[NoInput] = 0 /\ AccOf(c)[NoInput] = 0
    BY TypeParts, HeldTyped, WeightsTyped DEF Sound
<1>1. ASSUME NEW x \in Items
      PROVE  AccOf(c)[x] = 0 /\ TotOf(c)[x] = 0
    BY <1>0, <1>1, ItemsTyped DEF AccOf, TotOf, Belongs
<1>2. \A i \in DOMAIN inputs : AccOf(c)[inputs[i]] = 0 /\ TotOf(c)[inputs[i]] = 0
    BY <1>1 DEF Items
<1>3. Along(AccOf(c), inputs) = 0 /\ Along(TotOf(c), inputs) = 0
    BY <1>0, <1>2, AlongBounds
<1>4. /\ AccOf(c)[wr.cur] = 0 /\ TotOf(c)[wr.cur] = 0
      /\ AccOf(c)[wr.end] = 0 /\ TotOf(c)[wr.end] = 0
    BY <1>0, <1>1 DEF Items
<1> QED
    BY <1>3, <1>4 DEF Held
(***************************************************************************)
(* Every byte is accounted for                                             *)
(***************************************************************************)
Balanced(c) == Queued(c) + Held(AccOf(c)) = Written(c) + Held(TotOf(c)) + Lost(c)
AllBalanced == fx \in Seq(ExactEffects) /\ (pty.open => \A c \in Conns : Balanced(c))

LEMMA CountsTyped ==
    ASSUME Sound, fx \in Seq(ExactEffects), NEW c \in Conns
    PROVE  /\ Queued(c) \in Nat /\ Written(c) \in Nat /\ Lost(c) \in Nat
           /\ Held(TotOf(c)) \in Nat /\ Held(AccOf(c)) \in Nat
           /\ Written(c) = Cardinality(WrittenIn(applied, c)) /\ Lost(c) = LostIn(fx, c)
           /\ applied \in Seq(Entries)
<1>1. applied \in Seq(Entries)
    BY TypeParts DEF Sound, OutputTyped, Entries
<1>2. Written(c) = Cardinality(WrittenIn(applied, c)) /\ Lost(c) = LostIn(fx, c)
    BY DEF Written, WrittenIn, Lost, LostIn
<1>3. Queued(c) \in Nat
    BY TypeParts, QueuedIs DEF Sound
<1> QED
    BY <1>1, <1>2, <1>3, WrittenTyped, LostAlong, HandWeighs

LEMMA BalanceSame ==
    ASSUME ConnsTyped, ConnsTyped', setup' = setup, NEW c \in Conns, Balanced(c),
           conn'[c].next = conn[c].next, applied' = applied, fx' = fx,
           Held(TotOf(c))' = Held(TotOf(c)), Held(AccOf(c))' = Held(AccOf(c))
    PROVE  Balanced(c)'
<1>1. Queued(c)' = Queued(c)
    BY QueuedKept
<1>2. Written(c)' = Written(c) /\ Lost(c)' = Lost(c)
    BY DEF Written, Lost
<1> QED
    BY <1>1, <1>2 DEF Balanced

\* What a handler sends is queued.
LEMMA HandlerSends ==
    ASSUME NEW c \in Conns, ConnsTyped, Whereabouts(c), HandlerMoves(c), inputs \in Seq(Inputs)
    PROVE  \/ /\ inputs' = inputs
              /\ \/ conn'[c].next = conn[c].next
                 \/ More(c) /\ Frame(c) = 0 /\ conn'[c].next = conn[c].next + 1
           \/ \E x \in Inputs :
                 /\ inputs' = Append(inputs, x) /\ x.c = c /\ x.acc = 0
                 /\ \/ More(c) /\ x.tot = Frame(c) /\ conn'[c].next = conn[c].next + 1
                    \/ x.tot = 0 /\ conn'[c].next = conn[c].next
<1>1. CASE inputs' # inputs
    <2>1. PICK x \in Inputs :
             /\ inputs' = Append(inputs, x) /\ x.c = c /\ x.acc = 0
             /\ \/ x.op = "write" /\ More(c) /\ x.tot = Frame(c) /\ conn'[c].next = conn[c].next + 1
                \/ x.op = "end" /\ x.tot = 0 /\ conn'[c].next = conn[c].next
        BY <1>1, HandlerQueues
    <2> QED
        BY <2>1
<1>2. CASE inputs' = inputs
    <2>1. Reads(c)
        BY HandlerReads
    <2>2. At(c, "queue") => conn'[c].next = conn[c].next
        <3>1. SUFFICES ASSUME At(c, "queue")
                       PROVE  conn'[c].next = conn[c].next
            OBVIOUS
        <3>2. QueueInput(c)
            BY <3>1 DEF At, HandlerMoves, HandlerStep, Connect, Hello, Ask, Reply, Accept, CheckViewer, PutViewer,
               ReadFails, QueueResize, Await, PollClient, Drain, QueueEnd, Ended, VanishedPush, Disconnect,
               Unregister, Unsink, ReadFrame, ReadEnd
        <3>3. ~PushInput("write", c, Frame(c))
            <4>1. \A x : Append(inputs, x) # inputs
                <5>1. Len(inputs) \in Nat /\ \A x : Len(Append(inputs, x)) = Len(inputs) + 1
                    OBVIOUS
                <5> QED
                    BY <5>1
            <4> QED
                BY <1>2, <4>1 DEF PushInput
        <3>4. Goto(c, "bye")
            BY <3>2, <3>3 DEF QueueInput
        <3>5. conn \in [Conns -> Handlers]
            BY DEF ConnsTyped
        <3> QED
            BY <3>4, <3>5, GoesTo DEF Kept
    <2>3. At(c, "resize") => Frame(c) = 0
        BY DEF Whereabouts
    <2> QED
        BY <1>2, <2>1, <2>2, <2>3 DEF Reads
<1> QED
    BY <1>1, <1>2

LEMMA HandlerBalances ==
    ASSUME Sound, ConnsTyped', Next, AllBalanced, NEW d \in Conns, HandlerMoves(d), pty.open, NEW c \in Conns
    PROVE  Balanced(c)'
<1>0. /\ AuthorityTyped /\ ConnsTyped /\ setup' = setup /\ Balanced(c) /\ Whereabouts(d)
      /\ inputs \in Seq(Inputs) /\ Moved(d) /\ conn \in [Conns -> Handlers] /\ conn[d].next > 0
      /\ UNCHANGED <<wr, applied, fx>>
    <2>1. AuthorityTyped /\ ConnsTyped /\ (\A b \in Conns : Whereabouts(b) /\ OutcomeFits(b)) /\ setup' = setup
        BY TypeParts, StepKinds DEF Sound
    <2>2. conn[d].next > 0
        BY <2>1 DEF Whereabouts
    <2>3. inputs \in Seq(Inputs) /\ conn \in [Conns -> Handlers] /\ Balanced(c)
        BY <2>1 DEF AuthorityTyped, ConnsTyped, AllBalanced
    <2>4. Moved(d) /\ UNCHANGED <<wr, applied, fx>>
        BY <2>1, HandlerFrame, HandlerMoved
    <2> QED
        BY <2>1, <2>2, <2>3, <2>4
<1>1. Written(c)' = Written(c) /\ Lost(c)' = Lost(c)
    BY <1>0 DEF Written, Lost
<1>2. /\ Queued(c) \in Nat /\ Written(c) \in Nat /\ Lost(c) \in Nat
      /\ Held(TotOf(c)) \in Nat /\ Held(AccOf(c)) \in Nat
    BY CountsTyped DEF AllBalanced
<1>3. CASE inputs' = inputs
    <2>1. Held(TotOf(c))' = Held(TotOf(c)) /\ Held(AccOf(c))' = Held(AccOf(c))
        BY <1>0, <1>3, HeldSame
    <2>2. Queued(c)' = Queued(c)
        <3>1. CASE c # d
            <4>1. conn'[c].next = conn[c].next
                BY <1>0, <3>1 DEF Moved
            <4> QED
                BY <1>0, <4>1, QueuedKept
        <3>2. CASE c = d
            <4>1. \/ conn'[c].next = conn[c].next
                  \/ More(c) /\ Frame(c) = 0 /\ conn'[c].next = conn[c].next + 1
                <5>1. \A x \in Inputs : inputs' # Append(inputs, x)
                    <6>1. Len(inputs) \in Nat /\ \A x \in Inputs : Len(Append(inputs, x)) = Len(inputs) + 1
                        BY <1>0
                    <6> QED
                        BY <1>3, <6>1
                <5> QED
                    BY <1>0, <3>2, <5>1, HandlerSends
            <4> QED
                BY <1>0, <1>2, <3>2, <4>1, QueuedKept
        <3> QED
            BY <3>1, <3>2
    <2> QED
        BY <1>0, <1>1, <2>1, <2>2 DEF Balanced
<1>4. CASE inputs' # inputs
    <2>1. PICK x \in Inputs :
             /\ inputs' = Append(inputs, x) /\ x.c = d /\ x.acc = 0
             /\ \/ More(d) /\ x.tot = Frame(d) /\ conn'[d].next = conn[d].next + 1
                \/ x.tot = 0 /\ conn'[d].next = conn[d].next
        BY <1>0, <1>4, HandlerSends
    <2>2. /\ Held(TotOf(c))' = Held(TotOf(c)) + TotOf(c)[x] /\ Held(AccOf(c))' = Held(AccOf(c)) + AccOf(c)[x]
          /\ TotOf(c)[x] \in Nat
        BY <1>0, <2>1, HeldAppend, WeightsTyped
    <2>3. AccOf(c)[x] = 0 /\ TotOf(c)[x] = IF c = d THEN x.tot ELSE 0
        BY <2>1 DEF AccOf, TotOf, Belongs, Item, Inputs, NoInput
    <2>4. Queued(c)' = Queued(c) + TotOf(c)[x]
        <3>1. CASE c # d
            <4>1. conn'[c].next = conn[c].next
                BY <1>0, <3>1 DEF Moved
            <4> QED
                BY <1>0, <1>2, <2>3, <3>1, <4>1, QueuedKept
        <3>2. CASE c = d
            BY <1>0, <1>2, <2>1, <2>3, <3>2, QueuedKept
        <3> QED
            BY <3>1, <3>2
    <2>5. PICK t \in Nat : t = TotOf(c)[x]
        BY <2>2
    <2>6. /\ Held(TotOf(c))' = Held(TotOf(c)) + t /\ Held(AccOf(c))' = Held(AccOf(c))
          /\ Queued(c)' = Queued(c) + t
        BY <1>2, <2>2, <2>3, <2>4, <2>5
    <2>7. Queued(c) + Held(AccOf(c)) = Written(c) + Held(TotOf(c)) + Lost(c)
        BY <1>0 DEF Balanced
    <2>8. Queued(c)' + Held(AccOf(c))' = Written(c)' + Held(TotOf(c))' + Lost(c)'
        BY <1>1, <1>2, <2>6, <2>7
    <2> QED
        BY <2>8 DEF Balanced
<1> QED
    BY <1>3, <1>4
LEMMA ExactEffectsOf ==
    /\ [k |-> "human"] \in ExactEffects /\ [k |-> "released"] \in ExactEffects
    /\ \A c \in Conns, acc, tot \in Nat :
          acc <= tot => /\ Revoked(c, acc, tot) \in ExactEffects /\ Revoked(c, acc, tot).k = "revoked"
                        /\ Revoked(c, acc, tot).c = c
                        /\ Revoked(c, acc, tot).tot - Revoked(c, acc, tot).acc = tot - acc
BY DEF ExactEffects, Effects, Revoked

\* An effect that is no report loses nothing.
LEMMA LostNothing ==
    ASSUME NEW s \in Seq(ExactEffects), NEW t, NEW c,
           t = s \/ (\E k \in {"human", "released"} : t = Append(s, [k |-> k]) \/ t = s \o <<[k |-> k]>>)
    PROVE  t \in Seq(ExactEffects) /\ LostIn(t, c) = LostIn(s, c)
<1>1. CASE t = s
    BY <1>1
<1>2. ASSUME NEW k \in {"human", "released"}, t = Append(s, [k |-> k]) \/ t = s \o <<[k |-> k]>>
      PROVE  t \in Seq(ExactEffects) /\ LostIn(t, c) = LostIn(s, c)
    <2>1. PICK x \in ExactEffects : x = [k |-> k] /\ x.k # "revoked"
        BY <1>2, ExactEffectsOf
    <2>2. t = Append(s, x)
        BY <1>2, <2>1, Joined
    <2>3. LostIn(t, c) = LostIn(s, c) + 0 /\ t \in Seq(ExactEffects)
        BY <2>1, <2>2, LostMore
    <2> QED
        BY <2>3, LostAlong
<1> QED
    BY <1>1, <1>2

\* A report loses what it counts, of its connection.
LEMMA LostSome ==
    ASSUME NEW s \in Seq(ExactEffects), NEW d \in Conns, NEW acc \in Nat, NEW tot \in Nat, acc <= tot, NEW c
    PROVE  /\ Append(s, Revoked(d, acc, tot)) \in Seq(ExactEffects)
           /\ LostIn(Append(s, Revoked(d, acc, tot)), c) = LostIn(s, c) + IF d = c THEN tot - acc ELSE 0
<1>1. PICK x \in ExactEffects : x = Revoked(d, acc, tot) /\ x.k = "revoked" /\ x.c = d /\ x.tot - x.acc = tot - acc
    BY ExactEffectsOf
<1>2. LostIn(Append(s, x), c) = LostIn(s, c) + IF x.k = "revoked" /\ x.c = c THEN x.tot - x.acc ELSE 0
    BY LostMore
<1> QED
    BY <1>1, <1>2, LostMore

LEMMA DisconnectLoses ==
    ASSUME Sound, fx \in Seq(ExactEffects), ServeDisconnect
    PROVE  /\ fx' \in Seq(ExactEffects) /\ Now.c \in Conns
           /\ \A c \in Conns :
                 LostIn(fx', c) = LostIn(fx, c) + IF Now.c = c THEN Held(TotOf(c)) - Held(AccOf(c)) ELSE 0
<1>0. AuthorityTyped
    BY TypeParts DEF Sound
<1>1. PICK d \in Conns : d = Now.c
    <2>1. Unserved
        BY DEF ServeDisconnect, Served
    <2> QED
        BY <1>0, <2>1, NowTyped
<1>2. PICK t, a \in Nat : t = Held(TotOf(d)) /\ a = Held(AccOf(d)) /\ a <= t
    BY HandWeighs
<1>3. t = Tot(InHand, d) /\ a = Acc(InHand, d)
    BY <1>0, <1>2, InHandWeighs
<1>4. PICK r : r = fx \o ReleaseTold(d, Now.e)
    OBVIOUS
<1>5. fx' = r \o IF t > 0 THEN <<Revoked(d, a, t)>> ELSE <<>>
    BY <1>1, <1>3, <1>4 DEF ServeDisconnect
<1>6. r = fx \/ r = fx \o <<[k |-> "released"]>>
    BY <1>4, Joined DEF ReleaseTold
<1>7. r \in Seq(ExactEffects) /\ \A c : LostIn(r, c) = LostIn(fx, c)
    BY <1>6, LostNothing
<1>8. CASE t > 0
    <2>1. Revoked(d, a, t) \in ExactEffects
        BY <1>2, ExactEffectsOf
    <2>2. fx' = Append(r, Revoked(d, a, t))
        BY <1>5, <1>7, <1>8, <2>1, Joined
    <2>3. /\ fx' \in Seq(ExactEffects)
          /\ \A c : LostIn(fx', c) = LostIn(r, c) + IF d = c THEN t - a ELSE 0
        BY <1>2, <1>7, <2>2, LostSome
    <2> QED
        BY <1>1, <1>2, <1>7, <2>3
<1>9. CASE t = 0
    <2>1. fx' = r /\ t - a = 0
        BY <1>2, <1>5, <1>7, <1>9, Joined
    <2>2. \A c : LostIn(fx, c) \in Nat
        BY LostAlong
    <2> QED
        BY <1>1, <1>2, <1>7, <2>1, <2>2
<1> QED
    BY <1>8, <1>9

\* What the writer does but a disconnect and a write neither writes nor loses a byte.
LEMMA OthersLose ==
    ASSUME Sound, fx \in Seq(ExactEffects), WriterLoop, ~ServeDisconnect, ~WriteStep, NEW c \in Conns
    PROVE  /\ fx' \in Seq(ExactEffects) /\ LostIn(fx', c) = LostIn(fx, c)
           /\ WrittenIn(applied', c) = WrittenIn(applied, c)
           /\ Held(TotOf(c))' = Held(TotOf(c)) /\ Held(AccOf(c))' = Held(AccOf(c))
<1>0. /\ AuthorityTyped /\ WriterShape /\ applied \in Seq(Entries)
      /\ TotOf(c) \in [Item -> Nat] /\ AccOf(c) \in [Item -> Nat]
      /\ TotOf(c)[NoInput] = 0 /\ AccOf(c)[NoInput] = 0
    BY TypeParts, WeightsTyped DEF Sound, OutputTyped, Entries
<1>1. CASE Take
    <2>1. fx' = fx /\ applied' = applied
        BY <1>1 DEF Take
    <2>2. Held(TotOf(c))' = Held(TotOf(c)) /\ Held(AccOf(c))' = Held(AccOf(c))
        BY <1>0, <1>1, HeldTake
    <2> QED
        BY <2>1, <2>2
<1>2. CASE ServeClaim \/ ServeTakeover \/ ServeResize
    <2>1. inputs' = inputs /\ wr'.cur = wr.cur /\ wr'.end = wr.end
        BY <1>0, <1>2, WriterTyped DEF ServeClaim, ServeTakeover, ServeResize, Done
    <2>2. Held(TotOf(c))' = Held(TotOf(c)) /\ Held(AccOf(c))' = Held(AccOf(c))
        BY <1>0, <2>1, HeldSame
    <2>3. fx' = fx \/ (\E k \in {"human", "released"} : fx' = Append(fx, [k |-> k]) \/ fx' = fx \o <<[k |-> k]>>)
        BY <1>2, Joined DEF ServeClaim, ServeTakeover, ServeResize
    <2>4. fx' \in Seq(ExactEffects) /\ LostIn(fx', c) = LostIn(fx, c)
        BY <2>3, LostNothing
    <2>5. WrittenIn(applied', c) = WrittenIn(applied, c)
        <3>1. CASE applied' = applied
            BY <3>1
        <3>2. CASE applied' # applied
            <4>1. ServeResize /\ Now.c \in Conns /\ Now.e \in Nat
                <5>1. ServeResize
                    BY <1>2, <3>2 DEF ServeClaim, ServeTakeover
                <5>2. Unserved
                    BY <5>1 DEF ServeResize, Served
                <5> QED
                    BY <1>0, <5>1, <5>2, NowTyped DEF Controls
            <4>2. PICK x \in Entries : x = [what |-> "size", c |-> Now.c, e |-> Now.e] /\ x.what = "size"
                <5>1. PICK d \in Conns, e \in Nat : d = Now.c /\ e = Now.e
                    BY <4>1
                <5>2. [what |-> "size", c |-> d, e |-> e] \in Entries
                    BY DEF Entries
                <5> QED
                    BY <5>1, <5>2
            <4>3. applied' = Append(applied, x)
                BY <3>2, <4>1, <4>2 DEF ServeResize
            <4> QED
                BY <1>0, <4>2, <4>3, WrittenSize
        <3> QED
            BY <3>1, <3>2
    <2> QED
        BY <2>2, <2>4, <2>5
<1>3. CASE ServeEnd
    <2>1. applied' = applied
        BY <1>3 DEF ServeEnd
    <2>2. Held(TotOf(c))' = Held(TotOf(c)) /\ Held(AccOf(c))' = Held(AccOf(c))
        BY <1>0, <1>3, HeldEnd, HandWeighs
    <2>3. fx' = fx \/ fx' = fx \o <<[k |-> "released"]>>
        BY <1>3, Joined DEF ServeEnd, ReleaseTold
    <2>4. fx' \in Seq(ExactEffects) /\ LostIn(fx', c) = LostIn(fx, c)
        BY <2>3, LostNothing
    <2> QED
        BY <2>1, <2>2, <2>4
<1>4. CASE NothingLeft
    <2>1. fx' = fx /\ applied' = applied /\ inputs' = inputs /\ wr'.end = wr.end /\ wr'.cur = wr.cur
        BY <1>4 DEF NothingLeft, Idle
    <2> QED
        BY <1>0, <2>1, HeldSame
<1> QED
    BY <1>1, <1>2, <1>3, <1>4 DEF WriterLoop
LEMMA WriteBalances ==
    ASSUME Sound, ConnsTyped', setup' = setup, AllBalanced, WriteStep, pty.open, NEW c \in Conns
    PROVE  fx' \in Seq(ExactEffects) /\ Balanced(c)'
<1>0. /\ AuthorityTyped /\ ConnsTyped /\ OutputTyped /\ Balanced(c) /\ fx \in Seq(ExactEffects)
      /\ TotOf(c) \in [Item -> Nat] /\ AccOf(c) \in [Item -> Nat]
      /\ TotOf(c)[NoInput] = 0 /\ AccOf(c)[NoInput] = 0
    BY TypeParts, WeightsTyped DEF Sound, AllBalanced
<1>1. PICK q \in Inputs : q = wr.cur /\ q \in Items /\ q.c \in Conns /\ q.e \in Nat
    BY <1>0, Writes DEF Items, WriteStep
<1>2. PICK t, a \in Nat : t = q.tot /\ a = q.acc
    BY DEF Inputs
<1>3. a <= t
    <2>1. ItemKnown(q) /\ q.op = "write"
        BY <1>1 DEF Sound, ItemsKnown, WriterShape, WriteStep
    <2> QED
        BY <1>2, <2>1 DEF ItemKnown
<1>4. /\ TotOf(c)[q] = IF q.c = c THEN t ELSE 0
      /\ AccOf(c)[q] = IF q.c = c THEN a ELSE 0
    BY <1>2 DEF TotOf, AccOf, Belongs, Item, Inputs, NoInput
<1>5. PICK sent, done, lost, left \in Nat :
         /\ sent = Queued(c) /\ done = Written(c) /\ lost = Lost(c) /\ t = a + left
         /\ done = Cardinality(WrittenIn(applied, c)) /\ lost = LostIn(fx, c)
    <2>1. /\ Queued(c) \in Nat /\ Written(c) \in Nat /\ Lost(c) \in Nat
          /\ Written(c) = Cardinality(WrittenIn(applied, c)) /\ Lost(c) = LostIn(fx, c)
        BY <1>0, CountsTyped
    <2>2. PICK left \in Nat : t = a + left
        BY <1>3
    <2> QED
        BY <2>1, <2>2
<1>6. PICK ht, ha \in Nat : ht = Along(TotOf(c), inputs) /\ ha = Along(AccOf(c), inputs)
    BY <1>0, HeldTyped
<1>7. /\ Held(TotOf(c)) = ht + TotOf(c)[q] /\ Held(AccOf(c)) = ha + AccOf(c)[q]
      /\ Held(TotOf(c))' = ht + TotOf(c)[wr'.cur] /\ Held(AccOf(c))' = ha + AccOf(c)[wr'.cur]
    BY <1>0, <1>1, <1>6, HeldWrite
<1>8. Queued(c)' = sent /\ applied \in Seq(Entries)
    <2>1. WriterLoop
        BY DEF WriterLoop
    <2>2. conn'[c].next = conn[c].next
        BY <2>1, WriterTells DEF Stays
    <2> QED
        BY <1>0, <1>5, <2>2, QueuedKept, CountsTyped
<1>9. /\ q.c = c => sent + (ha + a) = done + (ht + t) + lost
      /\ q.c # c => sent + (ha + 0) = done + (ht + 0) + lost
    BY <1>0, <1>4, <1>5, <1>7 DEF Balanced
<1>10. ASSUME fx' \in Seq(ExactEffects), NEW done2 \in Nat, NEW lost2 \in Nat, NEW t2 \in Nat, NEW a2 \in Nat,
              done2 = Cardinality(WrittenIn(applied', c)), lost2 = LostIn(fx', c),
              t2 = TotOf(c)[wr'.cur], a2 = AccOf(c)[wr'.cur],
              sent + (ha + a2) = done2 + (ht + t2) + lost2
       PROVE  fx' \in Seq(ExactEffects) /\ Balanced(c)'
    <2>1. Written(c)' = done2 /\ Lost(c)' = lost2
        BY <1>10 DEF Written, WrittenIn, Lost, LostIn
    <2>2. Held(TotOf(c))' = ht + t2 /\ Held(AccOf(c))' = ha + a2
        BY <1>7, <1>10
    <2>3. Queued(c)' + Held(AccOf(c))' = Written(c)' + Held(TotOf(c))' + Lost(c)'
        BY <1>8, <1>10, <2>1, <2>2
    <2> QED
        BY <1>10, <2>3 DEF Balanced
<1>11. CASE Stale(q.c, q.e)
    <2>1. applied' = applied /\ Idle /\ fx' = Append(fx, Revoked(q.c, a, t))
        BY <1>0, <1>1, <1>2, <1>11 DEF WriteStep
    <2>2. t - a = left
        BY <1>5
    <2>3. fx' \in Seq(ExactEffects) /\ LostIn(fx', c) = LostIn(fx, c) + IF q.c = c THEN left ELSE 0
        <3>1. PICK d \in Conns : d = q.c
            BY <1>1
        <3>2. PICK s \in Seq(ExactEffects) : s = fx
            BY <1>0
        <3>3. /\ Append(s, Revoked(d, a, t)) \in Seq(ExactEffects)
              /\ LostIn(Append(s, Revoked(d, a, t)), c) = LostIn(s, c) + IF d = c THEN t - a ELSE 0
            BY <1>2, <1>3, LostSome
        <3>4. fx' = Append(s, Revoked(d, a, t))
            BY <2>1, <3>1, <3>2
        <3> QED
            BY <2>2, <3>1, <3>2, <3>3, <3>4
    <2>4. TotOf(c)[wr'.cur] = 0 /\ AccOf(c)[wr'.cur] = 0 /\ Cardinality(WrittenIn(applied', c)) = done
        BY <1>0, <1>5, <2>1 DEF Idle
    <2>5. CASE q.c = c
        <3>1. PICK lost2 \in Nat : lost2 = LostIn(fx', c) /\ lost2 = lost + left
            BY <1>5, <2>3, <2>5
        <3>2. sent + (ha + 0) = done + (ht + 0) + lost2
            BY <1>5, <1>9, <2>5, <3>1
        <3> QED
            BY <1>10, <2>3, <2>4, <3>1, <3>2
    <2>6. CASE q.c # c
        <3>1. lost = LostIn(fx', c)
            BY <1>5, <2>3, <2>6
        <3> QED
            BY <1>9, <1>10, <2>3, <2>4, <2>6, <3>1
    <2> QED
        BY <2>5, <2>6
<1>12. CASE ~Stale(q.c, q.e)
    <2>1. PICK n \in Nat :
             /\ n <= t - a /\ applied' = applied \o Bytes(q.c, q.e, n)
             /\ IF n = t - a THEN Idle ELSE wr' = [wr EXCEPT !.pc = "take", !.cur.acc = @ + n]
        <3>1. pty.room \in Nat
            BY <1>0, CapacityAssumption DEF OutputTyped
        <3>2. PICK n \in (IF pty.room = 0 THEN {0} ELSE 1..pty.room) :
                 /\ n <= wr.cur.tot - wr.cur.acc
                 /\ applied' = applied \o Bytes(wr.cur.c, wr.cur.e, n)
                 /\ IF n = wr.cur.tot - wr.cur.acc THEN Idle
                    ELSE wr' = [wr EXCEPT !.pc = "take", !.cur.acc = @ + n]
            BY <1>1, <1>12 DEF WriteStep
        <3>3. n \in Nat
            BY <3>1
        <3> QED
            BY <1>1, <1>2, <3>2, <3>3
    <2>2. fx' = fx
        BY <1>1, <1>12 DEF WriteStep
    <2>3. PICK d \in Conns, e \in Nat : d = q.c /\ e = q.e
        BY <1>1
    <2>4. PICK done2 \in Nat : done2 = Cardinality(WrittenIn(applied', c)) /\ done2 = done + IF c = d THEN n ELSE 0
        <3>1. Cardinality(WrittenIn(applied \o Bytes(d, e, n), c)) = Cardinality(WrittenIn(applied, c)) + IF c = d THEN n ELSE 0
            BY <1>8, WrittenBytes
        <3> QED
            BY <1>5, <2>1, <2>3, <3>1
    <2>5. CASE n = t - a
        <3>1. TotOf(c)[wr'.cur] = 0 /\ AccOf(c)[wr'.cur] = 0
            BY <1>0, <2>1, <2>5 DEF Idle
        <3>2. sent + (ha + 0) = done2 + (ht + 0) + lost
            BY <1>5, <1>9, <2>3, <2>4, <2>5, SMTT(20)
        <3> QED
            BY <1>0, <1>5, <1>10, <2>2, <2>4, <3>1, <3>2, SMTT(30)
    <2>6. CASE n # t - a
        <3>1. PICK m \in Nat : m = a + n
            OBVIOUS
        <3>2. wr'.cur = [q EXCEPT !.acc = m]
            BY <1>0, <1>1, <1>2, <2>1, <2>6, <3>1, WriterTyped
        <3>3. /\ [q EXCEPT !.acc = m] \in Inputs /\ [q EXCEPT !.acc = m].tot = t
              /\ [q EXCEPT !.acc = m].acc = m /\ [q EXCEPT !.acc = m].c = q.c
            BY <1>2 DEF Inputs
        <3>4. /\ TotOf(c)[wr'.cur] = IF d = c THEN t ELSE 0
              /\ AccOf(c)[wr'.cur] = IF d = c THEN m ELSE 0
            BY <2>3, <3>2, <3>3 DEF TotOf, AccOf, Belongs, Item, Inputs, NoInput
        <3>5. CASE d = c
            <4>1. sent + (ha + m) = done2 + (ht + t) + lost
                BY <1>9, <2>3, <2>4, <3>1, <3>5
            <4> QED
                BY <1>0, <1>5, <1>10, <2>2, <2>4, <3>4, <3>5, <4>1
        <3>6. CASE d # c
            <4>1. sent + (ha + 0) = done2 + (ht + 0) + lost
                BY <1>9, <2>3, <2>4, <3>6
            <4> QED
                BY <1>0, <1>5, <1>10, <2>2, <2>4, <3>4, <3>6, <4>1
        <3> QED
            BY <3>5, <3>6
    <2> QED
        BY <2>5, <2>6
<1> QED
    BY <1>11, <1>12
LEMMA DisconnectBalances ==
    ASSUME Sound, ConnsTyped', setup' = setup, AllBalanced, ServeDisconnect, pty.open, NEW c \in Conns
    PROVE  fx' \in Seq(ExactEffects) /\ Balanced(c)'
<1>0. /\ AuthorityTyped /\ ConnsTyped /\ Balanced(c) /\ fx \in Seq(ExactEffects)
      /\ TotOf(c) \in [Item -> Nat] /\ AccOf(c) \in [Item -> Nat]
      /\ TotOf(c)[NoInput] = 0 /\ AccOf(c)[NoInput] = 0
      /\ applied' = applied /\ conn' = conn
    BY TypeParts, WeightsTyped DEF Sound, AllBalanced, ServeDisconnect
<1>1. PICK sent, done, lost, ht, ha \in Nat :
         /\ sent = Queued(c) /\ done = Written(c) /\ lost = Lost(c) /\ lost = LostIn(fx, c)
         /\ ht = Held(TotOf(c)) /\ ha = Held(AccOf(c)) /\ ha <= ht
    BY <1>0, CountsTyped, HandWeighs
<1>2. Queued(c)' = sent /\ Written(c)' = done /\ Lost(c)' = LostIn(fx', c)
    BY <1>0, <1>1, QueuedKept DEF Written, Lost, LostIn
<1>3. /\ fx' \in Seq(ExactEffects) /\ Now.c \in Conns
      /\ LostIn(fx', c) = lost + IF Now.c = c THEN ht - ha ELSE 0
    BY <1>0, <1>1, DisconnectLoses
<1>4. /\ Held(TotOf(c))' = Held(Without(TotOf(c), Now.c)) /\ Without(TotOf(c), Now.c) \in [Item -> Nat]
      /\ Held(AccOf(c))' = Held(Without(AccOf(c), Now.c)) /\ Without(AccOf(c), Now.c) \in [Item -> Nat]
    BY <1>0, HeldDisconnect
<1>5. sent + ha = done + ht + lost
    BY <1>0, <1>1 DEF Balanced
<1>6. CASE Now.c # c
    <2>1. Without(TotOf(c), Now.c) = TotOf(c) /\ Without(AccOf(c), Now.c) = AccOf(c)
        BY <1>6 DEF Without, TotOf, AccOf, Belongs
    <2>2. Held(TotOf(c))' = ht /\ Held(AccOf(c))' = ha /\ Lost(c)' = lost
        BY <1>1, <1>2, <1>3, <1>4, <1>6, <2>1
    <2>3. Queued(c)' + Held(AccOf(c))' = Written(c)' + Held(TotOf(c))' + Lost(c)'
        BY <1>2, <1>5, <2>2
    <2> QED
        BY <1>3, <2>3 DEF Balanced
<1>7. CASE Now.c = c
    <2>1. ASSUME NEW w, w \in {TotOf(c), AccOf(c)}
          PROVE  Held(Without(w, c)) = 0
        <3>1. Without(w, c) \in [Item -> Nat] /\ \A x \in Item : Without(w, c)[x] = 0
            BY <2>1 DEF Without, TotOf, AccOf, Belongs
        <3>2. inputs \in Seq(Item) /\ wr.cur \in Item /\ wr.end \in Item
            BY <1>0, <3>1, HeldTyped, WriterTyped
        <3>3. \A i \in DOMAIN inputs : Without(w, c)[inputs[i]] = 0
            BY <3>1, <3>2
        <3>4. Along(Without(w, c), inputs) = 0
            BY <3>1, <3>2, <3>3, AlongBounds
        <3>5. Without(w, c)[wr.end] = 0 /\ Without(w, c)[wr.cur] = 0
            BY <3>1, <3>2
        <3>6. Held(Without(w, c)) = 0 + 0 + 0
            BY <3>4, <3>5 DEF Held
        <3> QED
            BY <3>6
    <2>2. Held(TotOf(c))' = 0 /\ Held(AccOf(c))' = 0
        BY <1>4, <1>7, <2>1
    <2>3. PICK left \in Nat : left = ht - ha /\ Lost(c)' = lost + left
        BY <1>1, <1>2, <1>3, <1>7
    <2>4. Queued(c)' + Held(AccOf(c))' = Written(c)' + Held(TotOf(c))' + Lost(c)'
        BY <1>2, <1>5, <2>2, <2>3
    <2> QED
        BY <1>3, <2>4 DEF Balanced
<1> QED
    BY <1>6, <1>7

LEMMA BalanceKept ==
    ASSUME Sound, ConnsTyped', AllBalanced, Next
    PROVE  AllBalanced'
<1>0. /\ AuthorityTyped /\ ConnsTyped /\ OutputTyped /\ setup' = setup /\ fx \in Seq(ExactEffects)
      /\ applied \in Seq(Entries)
    BY TypeParts, StepKinds DEF Sound, AllBalanced, OutputTyped, Entries
<1>1. CASE Outside
    <2>1. UNCHANGED <<inputs, wr, conn, applied, fx>>
        BY <1>1, OutsideFrame
    <2>2. pty'.open => pty.open
        BY <1>0, <1>1 DEF Outside, RetireShuts, RetireClears, SendChunk, Vanish, Tee, ChildReads, ChildExits,
           CloseRegistry, OutputTyped
    <2>3. ASSUME NEW c \in Conns, Balanced(c)
          PROVE  Balanced(c)'
        BY <1>0, <2>1, <2>3, HeldSame, BalanceSame
    <2> QED
        BY <2>1, <2>2, <2>3 DEF AllBalanced
<1>2. ASSUME NEW d \in Conns, HandlerMoves(d)
      PROVE  AllBalanced'
    <2>1. pty' = pty /\ fx' = fx
        BY <1>0, <1>2, HandlerFrame
    <2>2. pty.open => \A c \in Conns : Balanced(c)'
        BY <1>2, HandlerBalances
    <2> QED
        BY <1>0, <2>1, <2>2 DEF AllBalanced
<1>3. CASE WriterLoop
    <2>1. CASE WriteStep
        <3>1. pty'.open = pty.open
            BY <1>0, <2>1, Writes DEF OutputTyped
        <3>2. pty.open => \A c \in Conns : Balanced(c)'
            BY <1>0, <2>1, WriteBalances
        <3>3. fx' \in Seq(ExactEffects)
            <4>1. CASE fx' = fx
                BY <1>0, <4>1
            <4>2. CASE fx' # fx
                <5>1. PICK q \in Inputs : q = wr.cur /\ q \in Items /\ q.c \in Conns
                    BY <1>0, <2>1, Writes DEF Items, WriteStep
                <5>2. PICK t, a \in Nat, d \in Conns : t = q.tot /\ a = q.acc /\ d = q.c
                    BY <5>1 DEF Inputs
                <5>3. ItemKnown(q) /\ q.op = "write"
                    BY <2>1, <5>1 DEF Sound, ItemsKnown, WriterShape, WriteStep
                <5>4. a <= t
                    BY <5>2, <5>3 DEF ItemKnown
                <5>5. fx' = Append(fx, Revoked(d, a, t))
                    BY <1>0, <2>1, <4>2, <5>1, <5>2, Writes
                <5> QED
                    BY <1>0, <5>4, <5>5, LostSome
            <4> QED
                BY <4>1, <4>2
        <3> QED
            BY <3>1, <3>2, <3>3 DEF AllBalanced
    <2>2. CASE ServeDisconnect
        <3>1. pty' = pty
            BY <2>2 DEF ServeDisconnect
        <3>2. pty.open => \A c \in Conns : Balanced(c)'
            BY <1>0, <2>2, DisconnectBalances
        <3>3. fx' \in Seq(ExactEffects)
            BY <1>0, <2>2, DisconnectLoses
        <3> QED
            BY <3>1, <3>2, <3>3 DEF AllBalanced
    <2>3. CASE ~WriteStep /\ ~ServeDisconnect
        <3>1. pty' = pty
            BY <1>3, <2>3 DEF WriterLoop, Take, ServeClaim, ServeTakeover, ServeResize, ServeEnd, NothingLeft
        <3>2. ASSUME NEW c \in Conns, Balanced(c)
              PROVE  Balanced(c)'
            <4>1. /\ LostIn(fx', c) = LostIn(fx, c) /\ WrittenIn(applied', c) = WrittenIn(applied, c)
                  /\ Held(TotOf(c))' = Held(TotOf(c)) /\ Held(AccOf(c))' = Held(AccOf(c))
                BY <1>0, <1>3, <2>3, OthersLose
            <4>2. conn'[c].next = conn[c].next
                BY <1>3, WriterTells DEF Stays
            <4>3. Queued(c)' = Queued(c)
                BY <1>0, <4>2, QueuedKept
            <4>4. Written(c)' = Written(c) /\ Lost(c)' = Lost(c)
                BY <4>1 DEF Written, WrittenIn, Lost, LostIn
            <4> QED
                BY <3>2, <4>1, <4>3, <4>4 DEF Balanced
        <3>3. fx' \in Seq(ExactEffects)
            <4>1. CASE Conns = {}
                <5>1. fx' = fx
                    <6>1. ~Unserved
                        BY <1>0, <4>1, NowTyped DEF Unserved
                    <6>2. ~ServeEnd
                        BY <1>0, <4>1, WriterTyped DEF ServeEnd, Inputs, Item
                    <6> QED
                        BY <1>3, <2>3, <6>1, <6>2 DEF WriterLoop, Take, ServeClaim, ServeTakeover, ServeResize, NothingLeft,
                           Served
                <5> QED
                    BY <1>0, <5>1
            <4>2. CASE Conns # {}
                BY <1>0, <1>3, <2>3, <4>2, OthersLose
            <4> QED
                BY <4>1, <4>2
        <3> QED
            BY <3>1, <3>2, <3>3 DEF AllBalanced
    <2> QED
        BY <2>1, <2>2, <2>3
<1> QED
    BY <1>1, <1>2, <1>3, StepKinds
(***************************************************************************)
(* A push is told where its input went                                     *)
(***************************************************************************)
\* What a push that reads on has counted is written, and is all it sent.
Settled(c) == Written(c) = conn[c].wrote /\ Queued(c) = conn[c].wrote
\* What a push that waits for an outcome sent last is in hand, or in the outcome.
Awaiting(c) ==
    /\ Queued(c) = conn[c].wrote + Size(c)
    /\ conn[c].out = NoOutcome => Written(c) = conn[c].wrote + Held(AccOf(c))
    /\ conn[c].out # NoOutcome => Written(c) = conn[c].wrote + conn[c].out.acc
Reported(c) ==
    /\ conn[c].report.acc = Written(c)
    /\ conn[c].report.acc + conn[c].report.left = Queued(c)
    /\ conn[c].report.what = "written" => ~More(c) /\ conn[c].report.left = 0

Counting == {"new", "hello", "ask", "reply", "accept", "relay", "queue"}
PushKnown(c) ==
    Mode(c) = "push" =>
        /\ conn[c].pc \in Counting => Settled(c)
        /\ conn[c].pc \in {"await", "poll"} => Awaiting(c)
        /\ conn[c].report # NoReport => Reported(c)

\* Nothing that the statement is about changes.
LEMMA PushSame ==
    ASSUME ConnsTyped, ConnsTyped', setup' = setup, NEW c \in Conns, PushKnown(c), conn'[c] = conn[c],
           Written(c)' = Written(c), Held(AccOf(c))' = Held(AccOf(c))
    PROVE  PushKnown(c)'
<1>1. Queued(c)' = Queued(c)
    BY QueuedKept
<1> QED
    BY <1>1 DEF PushKnown, Settled, Awaiting, Reported, Size, More, Mode

LEMMA PushFrames ==
    ASSUME Sound, Next, NEW c \in Conns, NEW d \in Conns, HandlerMoves(d)
    PROVE  /\ Written(c)' = Written(c)
           /\ c # d => conn'[c] = conn[c] /\ Held(AccOf(c))' = Held(AccOf(c))
<1>0. /\ AuthorityTyped /\ ConnsTyped /\ Whereabouts(d) /\ inputs \in Seq(Inputs)
      /\ Moved(d) /\ UNCHANGED <<wr, applied>> /\ AccOf(c) \in [Item -> Nat]
    <2>1. /\ AuthorityTyped /\ ConnsTyped /\ \A b \in Conns : Whereabouts(b) /\ OutcomeFits(b)
        BY TypeParts DEF Sound
    <2>2. inputs \in Seq(Inputs)
        BY <2>1 DEF AuthorityTyped
    <2> QED
        BY <2>1, <2>2, HandlerFrame, HandlerMoved, WeightsTyped
<1>1. Written(c)' = Written(c)
    BY <1>0 DEF Written
<1>2. ASSUME c # d
      PROVE  conn'[c] = conn[c] /\ Held(AccOf(c))' = Held(AccOf(c))
    <2>1. conn'[c] = conn[c]
        BY <1>0, <1>2 DEF Moved, ConnsTyped
    <2>2. CASE inputs' = inputs
        BY <1>0, <2>1, <2>2, HeldSame
    <2>3. CASE inputs' # inputs
        <3>1. PICK x \in Inputs : inputs' = Append(inputs, x) /\ x.c = d /\ x.acc = 0
            BY <1>0, <2>3, HandlerSends
        <3>2. Held(AccOf(c))' = Held(AccOf(c)) + AccOf(c)[x]
            BY <1>0, <3>1, HeldAppend
        <3>3. AccOf(c)[x] = 0
            BY <3>1 DEF AccOf, Belongs, Item
        <3>4. Held(AccOf(c)) \in Nat
            BY <1>0, HeldTyped
        <3> QED
            BY <2>1, <3>2, <3>3, <3>4
    <2> QED
        BY <2>2, <2>3
<1> QED
    BY <1>1, <1>2

LEMMA PushQueues ==
    ASSUME Sound, ConnsTyped', Next, fx \in Seq(ExactEffects), NEW c \in Conns, PushKnown(c), Mode(c) = "push", QueueInput(c)
    PROVE  PushKnown(c)'
<1>0. /\ AuthorityTyped /\ ConnsTyped /\ setup' = setup /\ Whereabouts(c) /\ ~Viewing(c)
      /\ conn \in [Conns -> Handlers] /\ conn[c].next \in Nat /\ conn[c].next > 0 /\ conn[c].wrote \in Nat
      /\ AccOf(c) \in [Item -> Nat] /\ Unreported(c) /\ HandlerMoves(c) /\ At(c, "queue")
    <2>1. /\ AuthorityTyped /\ ConnsTyped /\ (\A b \in Conns : Whereabouts(b) /\ OutcomeFits(b) /\ Unreported(b))
          /\ setup' = setup
        BY TypeParts, StepKinds DEF Sound
    <2>2. conn[c].next > 0 /\ conn[c].next \in Nat /\ conn[c].wrote \in Nat
        BY <2>1, FramesTyped DEF Whereabouts
    <2>3. conn \in [Conns -> Handlers] /\ ~Viewing(c) /\ AccOf(c) \in [Item -> Nat]
        BY <2>1, WeightsTyped DEF ConnsTyped, Viewing
    <2>4. HandlerMoves(c) /\ At(c, "queue")
        BY DEF HandlerMoves, HandlerStep, QueueInput
    <2> QED
        BY <2>1, <2>2, <2>3, <2>4
<1>1. PushInput("write", c, Frame(c))
    BY <1>0 DEF QueueInput
<1>2. conn' = [conn EXCEPT ![c].pc = "await", ![c].next = @ + 1, ![c].out = NoOutcome]
    BY <1>0 DEF QueueInput
<1>3. /\ conn'[c].pc = "await" /\ conn'[c].next = conn[c].next + 1 /\ conn'[c].out = NoOutcome
      /\ conn'[c].wrote = conn[c].wrote /\ conn'[c].report = conn[c].report
    BY <1>0, <1>2 DEF Handlers
<1>4. More(c)
    BY <1>0 DEF Whereabouts
<1>5. Queued(c)' = Queued(c) + Frame(c)
    BY <1>0, <1>3, <1>4, QueuedKept
<1>6. Size(c)' = Frame(c)
    <2>1. (conn[c].next + 1) - 1 = conn[c].next
        BY <1>0
    <2> QED
        BY <1>0, <1>3, <2>1 DEF Size, Frame
<1>7. Written(c)' = Written(c)
    BY <1>0, PushFrames
<1>8. Held(AccOf(c)) = 0
    <2>1. \A x \in Items : x.c # c
        <3>1. SUFFICES ASSUME NEW x \in Items, x.c = c
                       PROVE  FALSE
            OBVIOUS
        <3>2. ItemKnown(x) /\ x.op \in {"write", "end"}
            BY <1>0, ItemsTyped DEF Sound, ItemsKnown
        <3> QED
            BY <1>0, <3>1, <3>2 DEF ItemKnown, At
    <2> QED
        BY <2>1, NothingHeld
<1>9. Held(AccOf(c))' = 0
    <2>1. PICK x \in Inputs : inputs' = Append(inputs, x) /\ x.c = c /\ x.acc = 0
        <3>1. inputs' # inputs
            <4>1. PICK y : inputs' = Append(inputs, y)
                BY <1>1 DEF PushInput
            <4>2. Len(inputs) \in Nat /\ Len(Append(inputs, y)) = Len(inputs) + 1
                BY <1>0 DEF AuthorityTyped
            <4> QED
                BY <4>1, <4>2
        <3>2. inputs \in Seq(Inputs)
            BY <1>0 DEF AuthorityTyped
        <3> QED
            BY <1>0, <3>1, <3>2, HandlerSends
    <2>2. wr' = wr
        BY <1>0, HandlerFrame
    <2>3. Held(AccOf(c))' = Held(AccOf(c)) + AccOf(c)[x]
        BY <1>0, <2>1, <2>2, HeldAppend
    <2>4. AccOf(c)[x] = 0
        BY <2>1 DEF AccOf, Belongs, Item
    <2> QED
        BY <1>8, <2>3, <2>4
<1>10. Settled(c) /\ conn[c].report = NoReport
    BY <1>0 DEF PushKnown, Counting, At, Unreported
<1>11. Awaiting(c)'
    <2>1. Queued(c)' = conn'[c].wrote + Size(c)'
        BY <1>3, <1>5, <1>6, <1>10 DEF Settled
    <2>2. Written(c)' = conn'[c].wrote + Held(AccOf(c))'
        BY <1>0, <1>3, <1>7, <1>9, <1>10 DEF Settled
    <2> QED
        BY <1>3, <2>1, <2>2 DEF Awaiting
<1> QED
    BY <1>3, <1>10, <1>11 DEF PushKnown, Counting
\* What a push's handler does but queue a frame: it counts on, waits on, stops reading, or
\* takes its outcome.
PushSteps(c) ==
    \/ /\ conn[c].pc \in Counting /\ conn'[c].pc \in Counting
       /\ conn'[c].wrote = conn[c].wrote /\ conn'[c].report = conn[c].report
    \/ conn[c].pc \in {"await", "poll"} /\ conn'[c].pc \in {"await", "poll"} /\ Kept(c) /\ inputs' = inputs
    \/ /\ At(c, "await") /\ conn[c].out.why = "accepted" /\ conn'[c].pc = "relay"
       /\ conn'[c].wrote = conn[c].wrote + Size(c) /\ conn'[c].report = conn[c].report
    \/ /\ conn'[c].pc \notin Counting \cup {"await", "poll"} /\ conn'[c].next = conn[c].next
       /\ \/ conn'[c].report = conn[c].report
          \/ /\ At(c, "await") /\ conn[c].out # NoOutcome
             /\ conn'[c].report.acc = conn[c].wrote + conn[c].out.acc
             /\ conn'[c].report.left = Size(c) - conn[c].out.acc /\ conn'[c].report.what # "written"
          \/ /\ At(c, "relay") /\ conn'[c].report.acc = conn[c].wrote /\ conn'[c].report.left = 0
             /\ conn'[c].report.what = "written" => ~More(c)

LEMMA PushKinds ==
    ASSUME NEW c \in Conns, ConnsTyped, Whereabouts(c), Mode(c) = "push", HandlerMoves(c), ~QueueInput(c)
    PROVE  PushSteps(c)
<1> USE DEF PushSteps, At, Kept, Viewing, Whereabouts, Counting
<1>1. conn \in [Conns -> Handlers] /\ conn[c] \in Handlers
    BY FramesTyped DEF ConnsTyped
<1>2. \A pc : Goto(c, pc) => conn'[c].pc = pc /\ Kept(c)
    BY <1>1, GoesTo
<1>3. CASE Connect(c)
    BY <1>1, <1>2, <1>3 DEF Connect
<1>4. CASE Hello(c)
    BY <1>1, <1>2, <1>4 DEF Hello
<1>5. CASE Ask(c)
    BY <1>1, <1>2, <1>5 DEF Ask, Handlers
<1>6. CASE Reply(c)
    BY <1>1, <1>2, <1>6 DEF Reply
<1>7. CASE Accept(c)
    BY <1>1, <1>2, <1>7 DEF Accept
<1>8. CASE CheckViewer(c) \/ PutViewer(c) \/ QueueResize(c) \/ Unsink(c)
    BY <1>8 DEF CheckViewer, PutViewer, QueueResize, Unsink
<1>9. CASE ReadFails(c)
    <2>1. CASE c \in revoked
        <3>1. conn' = [conn EXCEPT ![c].pc = "stop",
                                   ![c].report = [what |-> "revoked", acc |-> conn[c].wrote, left |-> 0]]
            BY <1>9, <2>1 DEF ReadFails
        <3>2. /\ conn'[c].pc = "stop" /\ conn'[c].next = conn[c].next
              /\ conn'[c].report = [what |-> "revoked", acc |-> conn[c].wrote, left |-> 0]
            BY <1>1, <3>1 DEF Handlers
        <3>3. At(c, "relay")
            BY <1>9 DEF ReadFails
        <3> QED
            BY <3>2, <3>3
    <2>2. CASE c \notin revoked
        BY <1>1, <1>2, <1>9, <2>2 DEF ReadFails
    <2> QED
        BY <2>1, <2>2
<1>10. CASE Await(c)
    <2>1. CASE conn[c].out.why = "accepted"
        <3>1. conn' = [conn EXCEPT ![c].pc = "relay", ![c].wrote = @ + Size(c)]
            BY <1>10, <2>1 DEF Await
        <3>2. conn'[c].pc = "relay" /\ conn'[c].wrote = conn[c].wrote + Size(c) /\ conn'[c].report = conn[c].report
            BY <1>1, <3>1 DEF Handlers
        <3> QED
            BY <1>10, <2>1, <3>2 DEF Await
    <2>2. ASSUME NEW what \in {"revoked", "closed"}, conn[c].out.why = what
          PROVE  PushSteps(c)
        <3>1. conn' = [conn EXCEPT ![c].pc = "stop",
                         ![c].report = [what |-> what, acc |-> conn[c].wrote + conn[c].out.acc,
                                        left |-> Size(c) - conn[c].out.acc]]
            BY <1>10, <2>2 DEF Await, Stopped
        <3>2. /\ conn'[c].pc = "stop" /\ conn'[c].next = conn[c].next
              /\ conn'[c].report = [what |-> what, acc |-> conn[c].wrote + conn[c].out.acc,
                                    left |-> Size(c) - conn[c].out.acc]
            BY <1>1, <3>1 DEF Handlers
        <3>3. At(c, "await") /\ conn[c].out # NoOutcome
            BY <1>10, <2>2 DEF Await, NoOutcome
        <3> QED
            BY <3>2, <3>3
    <2>3. CASE conn[c].out.why \notin {"accepted", "revoked", "closed"}
        <3>1. At(c, "await") /\ Goto(c, "poll") /\ inputs' = inputs
            BY <1>10, <2>3 DEF Await, authority
        <3> QED
            BY <1>2, <3>1
    <2> QED
        BY <2>1, <2>2, <2>3
<1>11. CASE PollClient(c)
    BY <1>1, <1>2, <1>11 DEF PollClient, authority
<1>12. CASE Drain(c)
    BY <1>12 DEF Drain
<1>13. CASE QueueEnd(c)
    BY <1>1, <1>13 DEF QueueEnd, Handlers
<1>14. CASE Ended(c)
    BY <1>1, <1>2, <1>14 DEF Ended
<1>15. CASE VanishedPush(c)
    BY <1>1, <1>2, <1>15 DEF VanishedPush
<1>16. CASE Disconnect(c)
    BY <1>1, <1>2, <1>16 DEF Disconnect
<1>17. CASE Unregister(c)
    BY <1>1, <1>2, <1>17 DEF Unregister
<1>18. CASE ReadFrame(c)
    BY <1>1, <1>2, <1>18 DEF ReadFrame, Handlers
<1>19. CASE ReadEnd(c)
    <2>1. conn' = [conn EXCEPT ![c].pc = "end", ![c].report = [what |-> "written", acc |-> conn[c].wrote, left |-> 0]]
        BY <1>19 DEF ReadEnd
    <2>2. /\ conn'[c].pc = "end" /\ conn'[c].next = conn[c].next
          /\ conn'[c].report = [what |-> "written", acc |-> conn[c].wrote, left |-> 0]
        BY <1>1, <2>1 DEF Handlers
    <2>3. At(c, "relay") /\ ~More(c)
        BY <1>19 DEF ReadEnd
    <2> QED
        BY <2>2, <2>3
<1> QED
    BY <1>3, <1>4, <1>5, <1>6, <1>7, <1>8, <1>9, <1>10, <1>11, <1>12, <1>13, <1>14, <1>15, <1>16, <1>17, <1>18, <1>19
       DEF HandlerMoves, HandlerStep
LEMMA PushMoves ==
    ASSUME Sound, ConnsTyped', Next, fx \in Seq(ExactEffects), NEW c \in Conns, PushKnown(c), Mode(c) = "push",
           HandlerMoves(c), ~QueueInput(c)
    PROVE  PushKnown(c)'
<1>0. /\ AuthorityTyped /\ ConnsTyped /\ setup' = setup /\ Whereabouts(c) /\ ~Viewing(c) /\ Unreported(c) /\ OutcomeFits(c)
      /\ conn[c].next \in Nat /\ conn[c].next > 0 /\ wr' = wr /\ Queued(c) \in Nat /\ Written(c) \in Nat
      /\ AccOf(c) \in [Item -> Nat] /\ PushSteps(c) /\ Reads(c)
    <2>1. /\ AuthorityTyped /\ ConnsTyped /\ (\A b \in Conns : Whereabouts(b) /\ OutcomeFits(b) /\ Unreported(b))
          /\ setup' = setup
        BY TypeParts, StepKinds DEF Sound
    <2>2. conn[c].next > 0 /\ conn[c].next \in Nat
        BY <2>1, FramesTyped DEF Whereabouts
    <2>3. ~Viewing(c) /\ AccOf(c) \in [Item -> Nat]
        BY WeightsTyped DEF Viewing
    <2>4. wr' = wr /\ PushSteps(c) /\ Reads(c)
        BY <2>1, HandlerFrame, PushKinds, HandlerReads
    <2>5. Queued(c) \in Nat /\ Written(c) \in Nat
        BY CountsTyped
    <2> QED
        BY <2>1, <2>2, <2>3, <2>4, <2>5
<1>1. Written(c)' = Written(c)
    BY PushFrames
<1>2. Queued(c)' = Queued(c)
    <2>1. ~At(c, "queue")
        BY DEF At, HandlerMoves, HandlerStep, Connect, Hello, Ask, Reply, Accept, CheckViewer, PutViewer,
           ReadFails, QueueResize, Await, PollClient, Drain, QueueEnd, Ended, VanishedPush, Disconnect,
           Unregister, Unsink, ReadFrame, ReadEnd
    <2>2. ~At(c, "resize")
        BY <1>0 DEF Whereabouts, At
    <2>3. \/ conn'[c].next = conn[c].next
          \/ More(c) /\ Frame(c) = 0 /\ conn'[c].next = conn[c].next + 1
        BY <1>0, <2>1, <2>2 DEF Reads
    <2> QED
        BY <1>0, <2>3, QueuedKept
<1>3. Mode(c)' = "push"
    BY <1>0 DEF Mode
<1>4. conn[c].report = NoReport \/ (Reported(c) /\ conn[c].pc \in {"stop", "end", "ended", "unreg", "done"})
    BY <1>0 DEF PushKnown, Unreported
<1>5. CASE /\ conn[c].pc \in Counting /\ conn'[c].pc \in Counting
           /\ conn'[c].wrote = conn[c].wrote /\ conn'[c].report = conn[c].report
    <2>1. Settled(c) /\ conn[c].report = NoReport
        BY <1>4, <1>5 DEF PushKnown, Counting
    <2>2. Settled(c)'
        BY <1>1, <1>2, <1>5, <2>1 DEF Settled
    <2> QED
        BY <1>5, <2>1, <2>2 DEF PushKnown, Counting
<1>6. CASE conn[c].pc \in {"await", "poll"} /\ conn'[c].pc \in {"await", "poll"} /\ Kept(c) /\ inputs' = inputs
    <2>1. Awaiting(c) /\ conn[c].report = NoReport
        BY <1>4, <1>6 DEF PushKnown
    <2>2. Held(AccOf(c))' = Held(AccOf(c))
        BY <1>0, <1>6, HeldSame
    <2>3. Awaiting(c)'
        BY <1>0, <1>1, <1>2, <1>6, <2>1, <2>2 DEF Awaiting, Size, Kept
    <2> QED
        BY <1>6, <2>1, <2>3 DEF PushKnown, Counting, Kept
<1>7. CASE /\ At(c, "await") /\ conn[c].out.why = "accepted" /\ conn'[c].pc = "relay"
           /\ conn'[c].wrote = conn[c].wrote + Size(c) /\ conn'[c].report = conn[c].report
    <2>1. Awaiting(c) /\ conn[c].report = NoReport /\ conn[c].out # NoOutcome
        BY <1>0, <1>4, <1>7 DEF PushKnown, At, NoOutcome
    <2>2. conn[c].out.acc = Size(c)
        BY <1>0, <1>7, <2>1 DEF OutcomeFits, At
    <2>3. Settled(c)'
        BY <1>1, <1>2, <1>7, <2>1, <2>2 DEF Settled, Awaiting
    <2> QED
        BY <1>7, <2>1, <2>3 DEF PushKnown, Counting
<1>8. CASE conn'[c].pc \notin Counting \cup {"await", "poll"} /\ conn'[c].next = conn[c].next
    <2>0. ASSUME conn'[c].report # NoReport
          PROVE  Reported(c)'
        <3>1. CASE conn'[c].report = conn[c].report
            <4>1. Reported(c)
                BY <1>4, <2>0, <3>1
            <4> QED
                BY <1>0, <1>1, <1>2, <1>8, <3>1, <4>1 DEF Reported, More
        <3>2. CASE /\ At(c, "await") /\ conn[c].out # NoOutcome
                   /\ conn'[c].report.acc = conn[c].wrote + conn[c].out.acc
                   /\ conn'[c].report.left = Size(c) - conn[c].out.acc /\ conn'[c].report.what # "written"
            <4>1. Awaiting(c)
                BY <1>0, <3>2 DEF PushKnown, At
            <4>2. conn[c].wrote \in Nat /\ Size(c) \in Nat
                BY <1>0, <3>2, FramesTyped DEF At, Whereabouts
            <4>3. conn[c].out.acc \in Nat
                BY <1>0, <3>2 DEF ConnsTyped, Handlers, Accepted, At
            <4>4. PICK w, a, n \in Nat : w = conn[c].wrote /\ a = conn[c].out.acc /\ n = Size(c)
                BY <4>2, <4>3
            <4>5. /\ conn'[c].report.acc = w + a /\ conn'[c].report.left = n - a
                  /\ Written(c) = w + a /\ Queued(c) = w + n
                BY <3>2, <4>1, <4>4 DEF Awaiting
            <4>6. (w + a) + (n - a) = w + n
                OBVIOUS
            <4> QED
                BY <1>1, <1>2, <3>2, <4>5, <4>6 DEF Reported
        <3>3. CASE /\ At(c, "relay") /\ conn'[c].report.acc = conn[c].wrote /\ conn'[c].report.left = 0
                   /\ conn'[c].report.what = "written" => ~More(c)
            <4>1. Settled(c)
                BY <1>0, <3>3 DEF PushKnown, At, Counting
            <4>2. Written(c)' = conn[c].wrote /\ Queued(c)' = conn[c].wrote /\ conn[c].wrote + 0 = conn[c].wrote
                BY <1>0, <1>1, <1>2, <4>1 DEF Settled
            <4>3. More(c)' <=> More(c)
                BY <1>0, <1>8 DEF More
            <4> QED
                BY <3>3, <4>2, <4>3 DEF Reported
        <3> QED
            BY <1>0, <1>8, <3>1, <3>2, <3>3 DEF PushSteps, Counting
    <2> QED
        BY <1>8, <2>0 DEF PushKnown
<1> QED
    BY <1>0, <1>5, <1>6, <1>7, <1>8 DEF PushSteps

\* The writer's part: what it writes of a push's request it counts in hand, until it tells.
LEMMA PushWritten ==
    ASSUME Sound, ConnsTyped', setup' = setup, fx \in Seq(ExactEffects), NEW c \in Conns, PushKnown(c), Mode(c) = "push",
           WriteStep
    PROVE  PushKnown(c)'
<1>0. /\ AuthorityTyped /\ ConnsTyped /\ OutputTyped /\ ~Viewing(c) /\ Unreported(c)
      /\ applied \in Seq(Entries) /\ inputs \in Seq(Item) /\ Queued(c)' = Queued(c)
      /\ AccOf(c) \in [Item -> Nat] /\ AccOf(c)[NoInput] = 0 /\ Mode(c)' = Mode(c)
      /\ Written(c) \in Nat /\ Written(c) = Cardinality(WrittenIn(applied, c))
    <2>1. AuthorityTyped /\ ConnsTyped /\ OutputTyped /\ Unreported(c) /\ WriterLoop
        BY TypeParts DEF Sound, WriterLoop
    <2>2. Queued(c)' = Queued(c)
        <3>1. conn'[c].next = conn[c].next
            BY <2>1, WriterTells DEF Stays
        <3> QED
            BY <2>1, <3>1, QueuedKept
    <2>3. applied \in Seq(Entries) /\ inputs \in Seq(Item) /\ AccOf(c) \in [Item -> Nat] /\ AccOf(c)[NoInput] = 0
        BY <2>1, WeightsTyped, HeldTyped DEF OutputTyped, Entries
    <2>4. Written(c) \in Nat /\ Written(c) = Cardinality(WrittenIn(applied, c))
        BY CountsTyped
    <2> QED
        BY <2>1, <2>2, <2>3, <2>4 DEF Viewing, Mode
<1>1. PICK q \in Inputs : q = wr.cur /\ q \in Items /\ q.c \in Conns /\ q.e \in Nat
    BY <1>0, Writes DEF Items, WriteStep
<1>2. PICK t, a \in Nat, d \in Conns, e \in Nat : t = q.tot /\ a = q.acc /\ d = q.c /\ e = q.e
    BY <1>1 DEF Inputs
<1>3. ItemKnown(q) /\ q.op = "write" /\ a < t
    <2>1. ItemKnown(q) /\ q.op = "write"
        BY <1>1 DEF Sound, ItemsKnown, WriterShape, WriteStep
    <2> QED
        BY <1>2, <2>1 DEF ItemKnown
<1>4. Stays(c) /\ (conn'[c] = conn[c] \/ Told(c))
    <2>1. WriterLoop /\ ~Unserved
        BY DEF WriterLoop, WriteStep
    <2> QED
        BY <2>1, WriterTells DEF Answered
<1>5. PICK ha \in Nat : ha = Along(AccOf(c), inputs)
    BY <1>0, HeldTyped
<1>6. Held(AccOf(c)) = ha + AccOf(c)[q] /\ Held(AccOf(c))' = ha + AccOf(c)[wr'.cur]
    BY <1>0, <1>1, <1>5, HeldWrite
<1>7. PICK n \in Nat :
         \/ /\ n = 0 /\ applied' = applied /\ Idle
            /\ Tell(d, "closed", a) \/ Tell(d, "revoked", a)
         \/ /\ n = t - a /\ applied' = applied \o Bytes(d, e, n) /\ Idle /\ Tell(d, "accepted", t)
         \/ /\ n < t - a /\ applied' = applied \o Bytes(d, e, n)
            /\ wr' = [wr EXCEPT !.pc = "take", !.cur.acc = @ + n] /\ conn' = conn
    <2>1. CASE /\ applied' = applied /\ Idle
               /\ Tell(wr.cur.c, "closed", wr.cur.acc) \/ Tell(wr.cur.c, "revoked", wr.cur.acc)
        BY <1>1, <1>2, <2>1
    <2>2. ASSUME NEW n \in Nat, n <= wr.cur.tot - wr.cur.acc,
                 applied' = applied \o Bytes(wr.cur.c, wr.cur.e, n),
                 IF n = wr.cur.tot - wr.cur.acc
                 THEN Tell(wr.cur.c, "accepted", wr.cur.tot) /\ Idle
                 ELSE wr' = [wr EXCEPT !.pc = "take", !.cur.acc = @ + n] /\ conn' = conn
          PROVE  \/ /\ n = t - a /\ applied' = applied \o Bytes(d, e, n) /\ Idle /\ Tell(d, "accepted", t)
                 \/ /\ n < t - a /\ applied' = applied \o Bytes(d, e, n)
                    /\ wr' = [wr EXCEPT !.pc = "take", !.cur.acc = @ + n] /\ conn' = conn
        <3>1. n <= t - a /\ applied' = applied \o Bytes(d, e, n)
            BY <1>1, <1>2, <2>2
        <3>2. CASE n = t - a
            BY <1>1, <1>2, <2>2, <3>1, <3>2
        <3>3. CASE n # t - a
            <4>1. n < t - a
                BY <3>1, <3>3
            <4> QED
                BY <1>1, <1>2, <2>2, <3>1, <3>3, <4>1
        <3> QED
            BY <3>2, <3>3
    <2> QED
        BY <1>0, <2>1, <2>2, Writes
<1>8. CASE d # c
    <2>1. conn'[c] = conn[c]
        BY <1>1, <1>2, <1>4, <1>8 DEF Told, WriteStep, ServeEnd
    <2>2. AccOf(c)[q] = 0
        BY <1>2, <1>8 DEF AccOf, Belongs, Item
    <2>3. AccOf(c)[wr'.cur] = 0
        <3>1. CASE Idle
            BY <1>0, <3>1 DEF Idle
        <3>2. CASE wr' = [wr EXCEPT !.pc = "take", !.cur.acc = @ + n]
            <4>1. PICK m \in Nat : m = a + n
                OBVIOUS
            <4>2. wr'.cur = [q EXCEPT !.acc = m]
                BY <1>0, <1>1, <1>2, <3>2, <4>1, WriterTyped
            <4>3. [q EXCEPT !.acc = m] \in Inputs /\ [q EXCEPT !.acc = m].c = d
                BY <1>2 DEF Inputs
            <4> QED
                BY <1>8, <4>2, <4>3 DEF AccOf, Belongs, Item
        <3> QED
            BY <1>7, <3>1, <3>2
    <2>4. Held(AccOf(c))' = Held(AccOf(c))
        BY <1>6, <2>2, <2>3
    <2>5. Written(c)' = Written(c)
        <3>1. CASE applied' = applied
            BY <3>1 DEF Written
        <3>2. CASE applied' = applied \o Bytes(d, e, n)
            <4>1. Cardinality(WrittenIn(applied', c)) = Written(c) + 0
                BY <1>0, <1>8, <3>2, WrittenBytes
            <4>2. Cardinality(WrittenIn(applied', c)) = Written(c)
                BY <1>0, <4>1
            <4> QED
                BY <4>2 DEF Written, WrittenIn
        <3> QED
            BY <1>7, <3>1, <3>2
    <2> QED
        BY <1>0, <2>1, <2>4, <2>5, PushSame
<1>9. CASE d = c
    <2>1. conn[c].pc \in {"await", "poll", "gone", "quit", "done"} /\ conn[c].report = NoReport
          /\ (conn[c].pc \in {"await", "poll"} => conn[c].out = NoOutcome /\ t = Size(c))
        BY <1>0, <1>2, <1>3, <1>9 DEF ItemKnown
    <2>2. conn'[c].report = NoReport /\ conn'[c].pc = conn[c].pc
        BY <1>4, <2>1 DEF Stays
    <2>3. CASE conn[c].pc \notin {"await", "poll"}
        BY <2>1, <2>2, <2>3 DEF PushKnown, Counting
    <2>4. CASE conn[c].pc \in {"await", "poll"}
        <3>1. /\ Queued(c) = conn[c].wrote + Size(c) /\ Written(c) = conn[c].wrote + Held(AccOf(c))
              /\ conn[c].wrote \in Nat
            BY <1>0, <2>1, <2>4, FramesTyped DEF PushKnown, Awaiting
        <3>2. AccOf(c)[q] = a
            <4>1. q \in Item /\ q # NoInput
                BY DEF Item, Inputs, NoInput
            <4> QED
                BY <1>2, <1>9, <4>1 DEF AccOf, Belongs
        <3>3. ha = 0
            <4>1. \A i \in DOMAIN inputs : inputs[i].c # c
                BY <1>0, <1>1, <1>2, <1>9, Alone
            <4>2. \A i \in DOMAIN inputs : inputs[i] \in Item /\ AccOf(c)[inputs[i]] = 0
                BY <1>0, <4>1 DEF AccOf, Belongs
            <4> QED
                BY <1>0, <1>5, <4>2, AlongBounds
        <3>4. PICK w \in Nat : w = conn[c].wrote /\ Written(c) = w + a
            BY <1>6, <3>1, <3>2, <3>3
        <3>5. conn'[c].wrote = w /\ Size(c)' = Size(c) /\ conn \in [Conns -> Handlers]
            BY <1>0, <1>4, <3>4 DEF Stays, Size, ConnsTyped
        <3>6. /\ applied' = applied => Written(c)' = w + a
              /\ applied' = applied \o Bytes(d, e, n) => Written(c)' = w + (a + n)
            <4>1. CASE applied' = applied
                <5>1. Written(c)' = Written(c)
                    BY <4>1 DEF Written
                <5>2. applied = applied \o Bytes(d, e, n) => n = 0
                    <6>1. Cardinality(WrittenIn(applied \o Bytes(d, e, n), c)) = Written(c) + n
                        BY <1>0, <1>9, WrittenBytes
                    <6>2. PICK b : b = applied \o Bytes(d, e, n)
                        OBVIOUS
                    <6>3. Cardinality(WrittenIn(b, c)) = Written(c) + n
                        BY <6>1, <6>2
                    <6>4. PICK v \in Nat : v = Written(c) /\ v = Cardinality(WrittenIn(applied, c))
                        BY <1>0, CountsTyped
                    <6>5. ASSUME applied = b PROVE n = 0
                        <7>1. v = v + n
                            BY <6>3, <6>4, <6>5
                        <7> QED
                            BY <6>4, <7>1
                    <6> QED
                        BY <6>2, <6>5
                <5>3. n = 0 => w + (a + n) = w + a
                    OBVIOUS
                <5> QED
                    BY <3>4, <4>1, <5>1, <5>2, <5>3
            <4>2. CASE applied' = applied \o Bytes(d, e, n) /\ applied' # applied
                <5>1. Cardinality(WrittenIn(applied', c)) = Written(c) + n
                    BY <1>0, <1>9, <4>2, WrittenBytes
                <5>2. Cardinality(WrittenIn(applied', c)) = w + (a + n)
                    BY <3>4, <5>1
                <5> QED
                    BY <4>2, <5>2 DEF Written, WrittenIn
            <4> QED
                BY <4>1, <4>2
        <3>7. ASSUME NEW why, NEW acc \in Nat, Tell(d, why, acc), Written(c)' = w + acc, why # "none"
              PROVE  PushKnown(c)'
            <4>1. conn'[c].out = [why |-> why, acc |-> acc]
                BY <1>9, <2>4, <3>5, <3>7 DEF Tell, Handlers
            <4>2. conn'[c].out.acc = acc /\ conn'[c].out # NoOutcome
                BY <3>7, <4>1 DEF NoOutcome
            <4>3. Awaiting(c)'
                BY <1>0, <3>1, <3>4, <3>5, <3>7, <4>2 DEF Awaiting
            <4> QED
                BY <2>2, <2>4, <4>3 DEF PushKnown, Counting
        <3>8. CASE applied' = applied /\ (Tell(d, "closed", a) \/ Tell(d, "revoked", a))
            BY <3>6, <3>7, <3>8
        <3>9. CASE n = t - a /\ applied' = applied \o Bytes(d, e, n) /\ Tell(d, "accepted", t)
            <4>1. a + n = t
                BY <1>3, <3>9
            <4> QED
                BY <3>6, <3>7, <3>9, <4>1
        <3>10. CASE /\ applied' = applied \o Bytes(d, e, n)
                    /\ wr' = [wr EXCEPT !.pc = "take", !.cur.acc = @ + n] /\ conn' = conn
            <4>1. PICK m \in Nat : m = a + n
                OBVIOUS
            <4>2. wr'.cur = [q EXCEPT !.acc = m]
                BY <1>0, <1>1, <1>2, <3>10, <4>1, WriterTyped
            <4>3. [q EXCEPT !.acc = m] \in Inputs /\ [q EXCEPT !.acc = m].c = c /\ [q EXCEPT !.acc = m].acc = m
                BY <1>2, <1>9 DEF Inputs
            <4>4. Held(AccOf(c))' = m
                <5>1. AccOf(c)[wr'.cur] = m
                    BY <4>2, <4>3 DEF AccOf, Belongs, Item, Inputs, NoInput
                <5> QED
                    BY <1>6, <3>3, <5>1
            <4>5. Written(c)' = w + m
                BY <3>6, <3>10, <4>1
            <4>6. conn'[c].out = NoOutcome
                BY <2>1, <2>4, <3>10
            <4>7. Awaiting(c)'
                BY <1>0, <3>1, <3>4, <3>5, <4>4, <4>5, <4>6 DEF Awaiting
            <4> QED
                BY <2>2, <2>4, <4>7 DEF PushKnown, Counting
        <3> QED
            BY <1>7, <3>8, <3>9, <3>10
    <2> QED
        BY <2>3, <2>4
<1> QED
    BY <1>8, <1>9
LEMMA PushServed ==
    ASSUME Sound, ConnsTyped', setup' = setup, fx \in Seq(ExactEffects), NEW c \in Conns, PushKnown(c), Mode(c) = "push",
           WriterLoop, ~WriteStep
    PROVE  PushKnown(c)'
<1>0. /\ AuthorityTyped /\ ConnsTyped /\ WriterShape
      /\ AccOf(c) \in [Item -> Nat] /\ AccOf(c)[NoInput] = 0
      /\ Stays(c) /\ (conn'[c] = conn[c] \/ Answered(c) \/ Told(c))
    BY TypeParts, WeightsTyped, WriterTells DEF Sound
<1>1. Queued(c)' = Queued(c) /\ Mode(c)' = Mode(c)
    BY <1>0, QueuedKept DEF Stays, Mode
<1>2. Written(c)' = Written(c) /\ (~ServeDisconnect => Held(AccOf(c))' = Held(AccOf(c)))
    <2>1. CASE ServeDisconnect
        BY <2>1 DEF ServeDisconnect, Written
    <2>2. CASE ~ServeDisconnect
        BY <2>2, OthersLose DEF Written, WrittenIn
    <2> QED
        BY <2>1, <2>2
<1>3. conn'[c].pc \in {"await", "poll"} => conn'[c].out = conn[c].out /\ Held(AccOf(c))' = Held(AccOf(c))
    <2> SUFFICES ASSUME conn[c].pc \in {"await", "poll"}
                 PROVE  conn'[c].out = conn[c].out /\ Held(AccOf(c))' = Held(AccOf(c))
        BY <1>0 DEF Stays
    <2>1. ~Told(c)
        <3>1. ASSUME ServeEnd, c = wr.end.c
              PROVE  FALSE
            <4>1. wr.end \in Items /\ wr.end.op = "end"
                BY <1>0, <3>1 DEF ServeEnd, Items, WriterShape
            <4>2. At(c, "ended")
                BY <3>1, <4>1 DEF Sound, ItemsKnown, ItemKnown
            <4> QED
                BY <4>2 DEF At
        <3> QED
            BY <3>1 DEF Told
    <2>2. conn'[c].out = conn[c].out
        BY <1>0, <2>1 DEF Answered
    <2>3. CASE ServeDisconnect
        <3>1. Now.c # c
            <4>1. Unserved /\ Now.op = "disconnect"
                BY <2>3 DEF ServeDisconnect, Served, Now
            <4>2. ControlKnown(Now)
                BY <1>0, <4>1, NowAsked DEF Sound, ControlsKnown
            <4> QED
                BY <4>1, <4>2 DEF ControlKnown
        <3>2. Without(AccOf(c), Now.c) = AccOf(c)
            BY <3>1 DEF Without, AccOf, Belongs
        <3> QED
            BY <1>0, <2>2, <2>3, <3>2, HeldDisconnect
    <2>4. CASE ~ServeDisconnect
        BY <1>2, <2>2, <2>4
    <2> QED
        BY <2>3, <2>4
<1>4. conn[c].pc \in Counting => Settled(c)'
    BY <1>0, <1>1, <1>2 DEF PushKnown, Settled, Stays
<1>5. conn[c].pc \in {"await", "poll"} => Awaiting(c)'
    <2>1. conn[c].pc \in {"await", "poll"} => Awaiting(c)
        BY DEF PushKnown
    <2>2. Size(c)' = Size(c) /\ conn'[c].wrote = conn[c].wrote
        BY <1>0 DEF Size, Stays
    <2> QED
        BY <1>0, <1>1, <1>2, <1>3, <2>1, <2>2 DEF Awaiting, Stays
<1>6. conn[c].report # NoReport => Reported(c)'
    BY <1>0, <1>1, <1>2 DEF PushKnown, Reported, More, Stays
<1> QED
    BY <1>0, <1>4, <1>5, <1>6 DEF PushKnown, Stays

LEMMA PushKept ==
    ASSUME Sound, ConnsTyped', Next, fx \in Seq(ExactEffects), NEW c \in Conns, PushKnown(c)
    PROVE  PushKnown(c)'
<1>0. ConnsTyped /\ AuthorityTyped /\ setup' = setup /\ Mode(c)' = Mode(c)
    BY TypeParts, StepKinds DEF Sound, Mode
<1>1. CASE Mode(c) # "push"
    BY <1>0, <1>1 DEF PushKnown
<1>2. CASE Mode(c) = "push" /\ Outside
    <2>1. conn' = conn /\ inputs' = inputs /\ wr' = wr /\ applied' = applied
        BY <1>2, OutsideFrame
    <2>2. Written(c)' = Written(c) /\ Held(AccOf(c))' = Held(AccOf(c))
        BY <2>1, HeldSame DEF Written
    <2> QED
        BY <1>0, <2>1, <2>2, PushSame
<1>3. CASE Mode(c) = "push" /\ WriterLoop
    BY <1>0, <1>3, PushWritten, PushServed
<1>4. ASSUME Mode(c) = "push", NEW d \in Conns, HandlerMoves(d)
      PROVE  PushKnown(c)'
    <2>1. CASE d # c
        <3>1. Written(c)' = Written(c) /\ conn'[c] = conn[c] /\ Held(AccOf(c))' = Held(AccOf(c))
            BY <1>4, <2>1, PushFrames
        <3> QED
            BY <1>0, <3>1, PushSame
    <2>2. CASE d = c
        <3>1. HandlerMoves(c)
            BY <1>4, <2>2
        <3>2. CASE QueueInput(c)
            BY <1>4, <3>2, PushQueues
        <3>3. CASE ~QueueInput(c)
            BY <1>4, <3>1, <3>3, PushMoves
        <3> QED
            BY <3>2, <3>3
    <2> QED
        BY <2>1, <2>2
<1> QED
    BY <1>1, <1>2, <1>3, <1>4, StepKinds

Accounts == AllBalanced /\ \A c \in Conns : PushKnown(c)

LEMMA AccountsInit ==
    ASSUME Init
    PROVE  Accounts
<1>0. Sound
    BY SoundInit
<1>1. fx \in Seq(ExactEffects) /\ fx = <<>> /\ applied = <<>> /\ pty.open = TRUE
    <2>1. fx = <<>> /\ applied = <<>> /\ pty = [room |-> PtyRoom, open |-> TRUE]
        BY DEF Init
    <2> QED
        BY <2>1, EmptySeq
<1>2. ASSUME NEW c \in Conns
      PROVE  Queued(c) = 0 /\ Written(c) = 0 /\ Lost(c) = 0 /\ Held(TotOf(c)) = 0 /\ Held(AccOf(c)) = 0
    <2>1. Written(c) = 0
        <3>1. Written(c) = Cardinality({})
            BY <1>1 DEF Written
        <3> QED
            BY <3>1, FS_EmptySet
    <2>2. Lost(c) = 0
        <3>1. Lost(c) = Along(LossOf(c), <<>>)
            BY <1>0, <1>1, CountsTyped, LostAlong
        <3> QED
            BY <3>1, AlongEmpty
    <2>3. Held(TotOf(c)) = 0 /\ Held(AccOf(c)) = 0
        <3>1. \A x \in Items : x.c # c
            BY DEF Items, Init
        <3> QED
            BY <1>0, <3>1, NothingHeld
    <2>4. Queued(c) = 0
        <3>1. ConnsTyped /\ conn[c].next = 1
            BY <1>0, TypeParts DEF Sound, Init
        <3>2. PICK f \in Seq(Nat) : f = setup.frames[c]
            BY <3>1, FramesTyped
        <3>3. Queued(c) = SumOver(f, FramesBefore(f, 1))
            BY <3>1, <3>2, QueuedIs, SentIs
        <3>4. FramesBefore(f, 1) = {}
            BY DEF FramesBefore
        <3> QED
            BY <3>3, <3>4, SumEmpty
    <2> QED
        BY <2>1, <2>2, <2>3, <2>4
<1>3. AllBalanced
    BY <1>1, <1>2 DEF AllBalanced, Balanced
<1>4. ASSUME NEW c \in Conns
      PROVE  PushKnown(c)
    <2>1. conn[c].pc = "new" /\ conn[c].wrote = 0 /\ conn[c].report = NoReport
        BY DEF Init
    <2> QED
        BY <1>2, <2>1 DEF PushKnown, Settled
<1> QED
    BY <1>3, <1>4 DEF Accounts

LEMMA AccountsKept ==
    ASSUME Sound, Sound', Accounts, [Next]_vars
    PROVE  Accounts'
<1>0. ConnsTyped' /\ ConnsTyped /\ fx \in Seq(ExactEffects)
    <2>1. TypeOK'
        BY DEF Sound
    <2> QED
        BY <2>1, TypeParts DEF Sound, Accounts, AllBalanced, TypeOK, ConnsTyped, Handlers
<1>1. CASE Next
    BY <1>0, <1>1, BalanceKept, PushKept DEF Accounts
<1>2. CASE UNCHANGED vars
    <2>1. setup' = setup /\ conn' = conn /\ inputs' = inputs /\ wr' = wr /\ applied' = applied /\ fx' = fx /\ pty' = pty
        BY <1>2 DEF vars, authority
    <2>2. ASSUME NEW c \in Conns
          PROVE  /\ Written(c)' = Written(c) /\ Held(AccOf(c))' = Held(AccOf(c))
                 /\ Held(TotOf(c))' = Held(TotOf(c))
        BY <2>1, HeldSame DEF Written
    <2>3. \A c \in Conns : Balanced(c) => Balanced(c)'
        BY <1>0, <2>1, <2>2, BalanceSame
    <2>4. \A c \in Conns : PushKnown(c) => PushKnown(c)'
        BY <1>0, <2>1, <2>2, PushSame
    <2> QED
        BY <2>1, <2>3, <2>4 DEF Accounts, AllBalanced
<1> QED
    BY <1>1, <1>2

LEMMA AccountsTell ==
    ASSUME Sound, Accounts
    PROVE  InputAccounted
<1>0. ConnsTyped /\ fx \in Seq(ExactEffects)
    BY TypeParts DEF Sound, Accounts, AllBalanced
<1>1. BytesAccounted
    <2>1. SUFFICES ASSUME pty.open, NEW c \in Conns
                   PROVE  Queued(c) = Written(c) + Pending(c) + Lost(c)
        BY DEF BytesAccounted
    <2>2. PICK q, w, l, t, a \in Nat :
             q = Queued(c) /\ w = Written(c) /\ l = Lost(c) /\ t = Held(TotOf(c)) /\ a = Held(AccOf(c))
        BY <1>0, CountsTyped
    <2>3. q + a = w + t + l
        BY <2>1, <2>2 DEF Accounts, AllBalanced, Balanced
    <2>4. q = w + (t - a) + l
        BY <2>3
    <2>5. Pending(c) = t - a
        BY <2>2, PendingIs
    <2> QED
        BY <2>2, <2>4, <2>5
<1>2. ReportIsExact
    <2>1. SUFFICES ASSUME NEW c \in Conns, conn[c].report # NoReport
                   PROVE  /\ conn[c].report.acc = Written(c)
                          /\ conn[c].report.acc + conn[c].report.left = Queued(c)
                          /\ conn[c].report.what = "written" => Written(c) = SumOf(setup.frames[c])
        BY DEF ReportIsExact
    <2>2. Reported(c)
        BY <2>1 DEF Sound, Unreported, Accounts, PushKnown
    <2>3. conn[c].report.what = "written" => Written(c) = SumOf(setup.frames[c])
        <3>1. SUFFICES ASSUME conn[c].report.what = "written"
                       PROVE  Written(c) = SumOf(setup.frames[c])
            OBVIOUS
        <3>2. ~More(c) /\ conn[c].report.left = 0
            BY <2>2, <3>1 DEF Reported
        <3>3. Queued(c) = SumOf(setup.frames[c])
            BY <1>0, <3>2, QueuedAll
        <3>4. Written(c) + 0 = Queued(c) /\ Written(c) \in Nat
            BY <1>0, <2>2, <3>2, CountsTyped DEF Reported
        <3> QED
            BY <3>3, <3>4
    <2> QED
        BY <2>2, <2>3 DEF Reported
<1> QED
    BY <1>1, <1>2 DEF InputAccounted, Sound

\* Every byte a client sent is written, still waiting or reported as revoked, exactly once,
\* as long as the PTY is open; and a push is told exactly which of its bytes went where.
THEOREM EveryByteAccounted == Spec => []InputAccounted
<1>1. Init => Accounts
    BY AccountsInit
<1>2. Sound /\ Sound' /\ Accounts /\ [Next]_vars => Accounts'
    BY AccountsKept
<1>3. Sound /\ Accounts => InputAccounted
    BY AccountsTell
<1> QED
    BY <1>1, <1>2, <1>3, ControlSound, PTL DEF Spec
=============================================================================
