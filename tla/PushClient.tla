----------------------------- MODULE PushClient -----------------------------
(***************************************************************************)
(* tendr push (src/commands/push.rs) and the frames it exchanges with a    *)
(* PTY session (src/attach_proto.rs): what its exit code tells about the   *)
(* bytes of stdin.                                                         *)
(*                                                                         *)
(* The session's handler is the one PtyInput models, alone here with the   *)
(* takeover, the closed terminal and the crash that may stop it.           *)
(***************************************************************************)
EXTENDS Naturals, Sequences, Handshake

CONSTANTS
    Inputs,     \* what stdin holds: the sizes of successive reads, each one frame
    FrameRoom   \* frames the socket holds

ASSUME PushAssumption == Inputs \subseteq Seq(Nat \ {0}) /\ FrameRoom \in Nat \ {0}

VARIABLES
    stdin,     \* the reads that stdin gives
    push,      \* the client: pc, reads done, bytes sent, all_sent, code
    wire,      \* the socket: frames to the session, the answer, and whether it broke
    handler,   \* handle_push_connection: pc, bytes written
    revokedBy, \* the push was superseded
    meta,      \* what meta.json says: the run is running
    fifoReader \* somebody has the stdin FIFO open for reading

pushVars == <<stdin, push, wire, handler, revokedBy, meta, fifoReader>>
pushWorld == <<revokedBy, meta, fifoReader>>

PushInit ==
    /\ stdin \in Inputs
    /\ push = [pc |-> "check", next |-> 1, sent |-> 0, allSent |-> FALSE, told |-> FALSE, code |-> 0]
    /\ wire = [up |-> <<>>, answer |-> <<>>, broken |-> FALSE]
    /\ handler = [pc |-> "read", written |-> 0]
    /\ revokedBy = FALSE
    /\ meta = TRUE
    /\ fifoReader \in BOOLEAN

PushGo(pc) == push' = [push EXCEPT !.pc = pc]
PushExits(code) == push' = [push EXCEPT !.pc = "exited", !.code = code]

(***************************************************************************)
(* The frames                                                              *)
(***************************************************************************)
\* PushOutcome::encode: a status and two counts.
Encode(outcome, accepted, unwritten) == <<outcome, accepted, accepted + unwritten>>

\* PushOutcome::decode: an outcome, or one that no session can mean.
Decodes(payload) ==
    CASE payload[1] = "written" -> payload[2] = payload[3]
      [] payload[1] \in {"revoked", "closed"} -> payload[2] <= payload[3]
      [] OTHER -> FALSE

\* Mutant: all that was sent was written, though not all of it was sent.
PushOutcome_Accepted(payload, sent, allSent) ==
    IF payload[1] = "written" \/ payload[2] = sent THEN 0 ELSE Runtime

\* push_outcome: success is that every byte was written, whatever stopped the push.
PushOutcome(payload, sent, allSent) ==
    IF payload[1] = "written" \/ (allSent /\ payload[2] = sent) THEN 0 ELSE Runtime

(***************************************************************************)
(* The client                                                              *)
(***************************************************************************)
\* cmd_push, in the order it refuses.
PushChecks(pipe, pty, human) ==
    /\ push.pc = "check"
    /\ CASE ~pipe -> PushExits(1)
         [] pipe /\ ~meta -> PushExits(IF pty THEN Control ELSE 1)
         [] pipe /\ meta /\ pty /\ human -> PushExits(Control)
         [] OTHER -> PushGo(IF pty THEN "connect" ELSE "fifo")
    /\ UNCHANGED <<stdin, wire, handler, pushWorld>>

\* The FIFO is opened once it has a reader, or the run is over; another error ends it.
PushOpensFifo ==
    /\ push.pc = "fifo"
    /\ \/ fifoReader /\ PushGo("copy")
       \/ ~fifoReader /\ ~meta /\ PushExits(1)
       \/ PushExits(1)
    /\ UNCHANGED <<stdin, wire, handler, pushWorld>>

\* io::copy ends at the end of stdin, or when nobody reads the FIFO any more.
PushCopies ==
    /\ push.pc = "copy"
    /\ IF fifoReader THEN PushExits(0) ELSE PushExits(1)
    /\ UNCHANGED <<stdin, wire, handler, pushWorld>>

PushConnects(peer, sent, reply) ==
    /\ push.pc = "connect"
    /\ IF ConnectCode(peer) # 0 THEN PushExits(ConnectCode(peer))
       ELSE IF reply = "accepted" THEN PushGo("send") ELSE PushExits(HelloCode(sent, reply))
    /\ UNCHANGED <<stdin, wire, handler, pushWorld>>

\* A read of stdin and its frame; if the frame cannot be sent, the outcome tells why.
PushSends ==
    /\ push.pc = "send"
    /\ \/ /\ push.next > Len(stdin)
          /\ push' = [push EXCEPT !.pc = "detach", !.allSent = TRUE] /\ UNCHANGED wire
       \/ /\ push.next <= Len(stdin) /\ ~wire.broken /\ Len(wire.up) < FrameRoom
          /\ wire' = [wire EXCEPT !.up = Append(@, [data |-> TRUE, bytes |-> stdin[push.next]])]
          /\ push' = [push EXCEPT !.next = @ + 1, !.sent = @ + stdin[push.next]]
       \/ push.next <= Len(stdin) /\ wire.broken /\ PushGo("detach") /\ UNCHANGED wire
       \/ push.next <= Len(stdin) /\ PushExits(1) /\ UNCHANGED wire
    /\ UNCHANGED <<stdin, handler, pushWorld>>

\* The end marker, sent if it can be.
PushDetaches ==
    /\ push.pc = "detach"
    /\ \/ wire.broken /\ UNCHANGED wire
       \/ /\ ~wire.broken /\ Len(wire.up) < FrameRoom
          /\ wire' = [wire EXCEPT !.up = Append(@, [data |-> FALSE, bytes |-> 0])]
    /\ PushGo("outcome")
    /\ UNCHANGED <<stdin, handler, pushWorld>>

\* The outcome, or the end of the connection; other frames are passed over.
PushReadsOutcome ==
    /\ push.pc = "outcome"
    /\ \/ /\ wire.answer # <<>>
          /\ push' = [push EXCEPT !.pc = "exited", !.told = TRUE,
                      !.code = IF Decodes(wire.answer)
                               THEN PushOutcome(wire.answer, push.sent, push.allSent) ELSE Protocol]
       \/ wire.answer = <<>> /\ handler.pc = "done" /\ PushExits(Runtime)
    /\ UNCHANGED <<stdin, wire, handler, pushWorld>>

(***************************************************************************)
(* The session                                                             *)
(***************************************************************************)
Handling == push.pc \in {"send", "detach", "outcome"} \/ wire.up # <<>>

\* A frame is written in full before the next is read, or it stops the push.
HandlerServes ==
    /\ handler.pc = "read" /\ Handling /\ wire.up # <<>>
    /\ LET frame == Head(wire.up) IN
        /\ frame.data => ~revokedBy
        /\ wire' = [wire EXCEPT !.up = Tail(@),
                                !.answer = IF frame.data THEN @ ELSE Encode("written", handler.written, 0),
                                !.broken = @ \/ ~frame.data]
        /\ handler' = IF frame.data THEN [handler EXCEPT !.written = @ + frame.bytes]
                                    ELSE [handler EXCEPT !.pc = "done"]
    /\ UNCHANGED <<stdin, push, pushWorld>>

\* Superseded or closed in the middle of a frame.
HandlerStops(why, accepted) ==
    /\ handler.pc = "read" /\ Handling /\ wire.up # <<>> /\ Head(wire.up).data
    /\ accepted < Head(wire.up).bytes
    /\ why = "revoked" => revokedBy
    /\ wire' = [wire EXCEPT !.broken = TRUE,
                    !.answer = Encode(why, handler.written + accepted, Head(wire.up).bytes - accepted)]
    /\ handler' = [pc |-> "done", written |-> handler.written + accepted]
    /\ UNCHANGED <<stdin, push, pushWorld>>

\* Superseded between two frames: the read side is shut.
HandlerShut ==
    /\ handler.pc = "read" /\ Handling /\ revokedBy
    /\ wire' = [wire EXCEPT !.broken = TRUE, !.answer = Encode("revoked", handler.written, 0)]
    /\ handler' = [handler EXCEPT !.pc = "done"]
    /\ UNCHANGED <<stdin, push, pushWorld>>

\* The client is gone, or the sidecar is killed: no report.
HandlerGone ==
    /\ handler.pc = "read" /\ Handling
    /\ handler' = [handler EXCEPT !.pc = "done"]
    /\ wire' = [wire EXCEPT !.broken = TRUE]
    /\ UNCHANGED <<stdin, push, pushWorld>>

\* A takeover flags the push and shuts down its side for reading.
TakesOver ==
    /\ ~revokedBy /\ handler.pc = "read" /\ Handling
    /\ revokedBy' = TRUE
    /\ wire' = [wire EXCEPT !.broken = TRUE]
    /\ UNCHANGED <<stdin, push, handler, meta, fifoReader>>

FifoReaderChanges ==
    /\ push.pc \in {"fifo", "copy"} /\ meta
    /\ fifoReader' = ~fifoReader
    /\ UNCHANGED <<stdin, push, wire, handler, revokedBy, meta>>

RunEnds ==
    /\ push.pc \in {"check", "fifo", "copy"} /\ meta
    /\ meta' = FALSE /\ fifoReader' = FALSE
    /\ UNCHANGED <<stdin, push, wire, handler, revokedBy>>

PushNext ==
    \/ \E pipe, pty, human \in BOOLEAN : PushChecks(pipe, pty, human)
    \/ PushOpensFifo \/ PushCopies
    \/ \E peer \in Peers, sent \in BOOLEAN, reply \in Replies : PushConnects(peer, sent, reply)
    \/ PushSends \/ PushDetaches \/ PushReadsOutcome
    \/ HandlerServes \/ HandlerShut \/ HandlerGone \/ TakesOver
    \/ \E why \in {"revoked", "closed"}, accepted \in 0..1 : HandlerStops(why, accepted)
    \/ FifoReaderChanges \/ RunEnds

(***************************************************************************)
(* Properties                                                              *)
(***************************************************************************)
RECURSIVE Total(_)
Total(s) == IF s = <<>> THEN 0 ELSE Head(s) + Total(Tail(s))

\* The exit code tells the truth about stdin: a push that was told an outcome succeeds
\* exactly when every byte of stdin reached the terminal, also when a takeover or the end
\* of the session overtakes its last frames.
PushTells ==
    (push.pc = "exited" /\ push.told) => (push.code = 0 <=> handler.written = Total(stdin))

=============================================================================
