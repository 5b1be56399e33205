----------------------------- MODULE AttachClient -----------------------------
(***************************************************************************)
(* The attach client (src/commands/attach.rs): checks, handshake, and the  *)
(* relay between the user's terminal and the session, with its three       *)
(* threads, the outbox they share and the signal handlers.                 *)
(*                                                                         *)
(* The session is the other end of the socket (PtyInput models it): it may *)
(* send, read, retire the client, close or do nothing at all.  The escape  *)
(* is one key here (EscapeParser has the encodings), and the messages that *)
(* wait for the session are counted.  Of the cancelling signals one is     *)
(* kept, besides SIGWINCH; a process that inherited it as ignored is one   *)
(* where it is never raised.                                               *)
(***************************************************************************)
EXTENDS Naturals, Sequences, FiniteSets, SequencesExt, Handshake

CONSTANTS
    OutboxLimit,  \* OUTBOX_DATA_LIMIT, in keystrokes
    SocketRoom,   \* frames the socket holds in either direction
    Users         \* bound: how many keys a user types, and resizes the terminal

ASSUME AttachAssumption ==
    /\ {OutboxLimit, SocketRoom} \subseteq Nat
    /\ Users \subseteq [keys : Nat, resizes : Nat]

VARIABLES
    main,      \* the main thread
    term,      \* the user's terminal: raw, its size, and resizes to come
    keys,      \* the keyboard: what is unread, keys to come, whether it closed
    signal,    \* handlers, PENDING, the wake pipe and a handler that is running
    outbox,    \* Outbox
    sender,    \* the sender thread
    reading,   \* the reader thread
    flags,     \* closed and retired
    sock       \* the socket: each direction, and how it was closed

attachVars == <<main, term, keys, signal, outbox, sender, reading, flags, sock>>

Cancel == "cancel"
Winch == "winch"

AttachInit ==
    /\ main = [pc |-> "check", code |-> 0, ending |-> "none", size |-> 0, due |-> FALSE,
               keyboard |-> FALSE]
    /\ \E user \in Users :
        /\ term = [raw |-> FALSE, size |-> 0, left |-> user.resizes]
        /\ keys = [unread |-> <<>>, left |-> user.keys, open |-> TRUE]
    /\ signal = [handled |-> FALSE, pending |-> {}, wake |-> FALSE, running |-> FALSE,
                 raised |-> FALSE]
    /\ outbox = [controls |-> 0, data |-> 0, sending |-> FALSE, closed |-> FALSE]
    /\ sender = "unborn"
    /\ reading = "unborn"
    /\ flags = [closed |-> FALSE, retired |-> FALSE]
    /\ sock = [up |-> 0, down |-> <<>>, shut |-> FALSE, gone |-> FALSE]

threads == <<sender, reading>>
shared == <<outbox, flags, sock>>
Alive == main.pc \notin {"exited", "killed"}

Exit(code) == main' = [main EXCEPT !.pc = "exited", !.code = code]
GoTo(pc) == main' = [main EXCEPT !.pc = pc]

(***************************************************************************)
(* Checks and handshake                                                    *)
(***************************************************************************)
\* cmd_attach, in the order it refuses.
Checks(pty, running, human, takeover, tty) ==
    /\ main.pc = "check"
    /\ CASE ~pty -> Exit(1)
         [] pty /\ ~running -> Exit(Control)
         [] pty /\ running /\ human /\ ~takeover -> Exit(Control)
         [] OTHER -> IF tty THEN GoTo("connect") ELSE Exit(1)
    /\ UNCHANGED <<term, keys, signal, threads, shared>>

Connects(peer) ==
    /\ main.pc = "connect"
    /\ IF ConnectCode(peer) = 0 THEN GoTo("hello") ELSE Exit(ConnectCode(peer))
    /\ UNCHANGED <<term, keys, signal, threads, shared>>

\* The socket of an accepted client may still fail to be set up.
Hello(sent, reply) ==
    /\ main.pc = "hello"
    /\ IF reply = "accepted" THEN GoTo("install") \/ Exit(Runtime) ELSE Exit(HelloCode(sent, reply))
    /\ UNCHANGED <<term, keys, signal, threads, shared>>

(***************************************************************************)
(* Setting up                                                              *)
(***************************************************************************)
\* Mutant: raw mode is entered with no handlers installed.
InstallHandlers_Later ==
    /\ main.pc = "install"
    /\ GoTo("raw")
    /\ UNCHANGED <<term, keys, signal, threads, shared>>

\* Handlers::install, which begins with a take; if it fails nothing is raw yet.
InstallHandlers ==
    /\ main.pc = "install"
    /\ \/ /\ signal' = [signal EXCEPT !.handled = TRUE, !.pending = {}, !.wake = FALSE]
          /\ GoTo("raw")
       \/ Exit(1) /\ UNCHANGED signal
    /\ UNCHANGED <<term, keys, threads, shared>>

\* RawTerminal::enter; if it fails the handlers go.
EnterRaw ==
    /\ main.pc = "raw"
    /\ \/ /\ term' = [term EXCEPT !.raw = TRUE]
          /\ GoTo("spawn") /\ UNCHANGED signal
       \/ /\ signal' = [signal EXCEPT !.handled = FALSE]
          /\ Exit(1) /\ UNCHANGED term
    /\ UNCHANGED <<keys, threads, shared>>

PushControl == outbox' = [outbox EXCEPT !.controls = @ + 1]

\* The threads, and the first size.
SpawnThreads ==
    /\ main.pc = "spawn"
    /\ sender' = "next" /\ reading' = "read"
    /\ PushControl
    /\ main' = [main EXCEPT !.pc = "loop", !.size = term.size]
    /\ UNCHANGED <<term, keys, signal, flags, sock>>

(***************************************************************************)
(* The main thread's loop                                                  *)
(***************************************************************************)
EndsBy(ending) ==
    main' = [main EXCEPT !.ending = ending,
                         !.pc = IF ending \in {"detached", "signalled"} THEN "detach" ELSE "shut"]

LoopClosed ==
    /\ main.pc = "loop" /\ flags.closed
    /\ EndsBy("session_closed")
    /\ UNCHANGED <<term, keys, signal, threads, shared>>

KeyboardReady == keys.unread # <<>> \/ ~keys.open

\* wait_ready: the poll, which also times out.
Poll ==
    /\ main.pc = "loop" /\ ~flags.closed
    /\ main' = [main EXCEPT !.keyboard = KeyboardReady,
                            !.pc = IF signal.wake THEN "drain" ELSE "size"]
    /\ UNCHANGED <<term, keys, signal, threads, shared>>

\* Handlers::take: empty the pipe, then take what is pending.
TakeDrains ==
    /\ main.pc = "drain"
    /\ signal' = [signal EXCEPT !.wake = FALSE]
    /\ GoTo("swap")
    /\ UNCHANGED <<term, keys, threads, shared>>

TakeSwaps ==
    /\ main.pc = "swap"
    /\ signal' = [signal EXCEPT !.pending = {}]
    /\ IF Cancel \in signal.pending
       THEN EndsBy("signalled")
       ELSE main' = [main EXCEPT !.pc = "size", !.due = Winch \in signal.pending]
    /\ UNCHANGED <<term, keys, threads, shared>>

\* A size check, when it is due: by SIGWINCH, or because the time has come.
SizeCheck ==
    /\ main.pc = "size"
    /\ \E check \in {TRUE, main.due} :
        IF check /\ term.size # main.size
        THEN /\ PushControl
             /\ main' = [main EXCEPT !.pc = "keys", !.size = term.size, !.due = FALSE]
        ELSE main' = [main EXCEPT !.pc = "keys", !.due = FALSE] /\ UNCHANGED outbox
    /\ UNCHANGED <<term, keys, signal, threads, flags, sock>>

NoKeys ==
    /\ main.pc = "keys" /\ ~main.keyboard
    /\ GoTo("loop")
    /\ UNCHANGED <<term, keys, signal, threads, shared>>

\* A key is queued, or dropped if the outbox is full; the escape detaches.
ReadKey ==
    /\ main.pc = "keys" /\ main.keyboard /\ keys.unread # <<>>
    /\ IF Head(keys.unread) = "detach"
       THEN EndsBy("detached") /\ UNCHANGED outbox
       ELSE /\ GoTo("loop")
            /\ outbox' = IF outbox.data < OutboxLimit THEN [outbox EXCEPT !.data = @ + 1]
                                                     ELSE outbox
    /\ keys' = [keys EXCEPT !.unread = Tail(@)]
    /\ UNCHANGED <<term, signal, threads, flags, sock>>

KeyboardClosed ==
    /\ main.pc = "keys" /\ main.keyboard /\ keys.unread = <<>> /\ ~keys.open
    /\ EndsBy("keyboard_closed")
    /\ UNCHANGED <<term, keys, signal, threads, shared>>

(***************************************************************************)
(* Leaving                                                                 *)
(***************************************************************************)
DetachQueued ==
    /\ main.pc = "detach"
    /\ PushControl
    /\ GoTo("grace")
    /\ UNCHANGED <<term, keys, signal, threads, flags, sock>>

ControlsSent == outbox.closed \/ (outbox.controls = 0 /\ ~outbox.sending)

\* Mutant: the detach waits for its frames however long they take.
GraceEnds_Never ==
    /\ main.pc = "grace" /\ ControlsSent
    /\ GoTo("shut")
    /\ UNCHANGED <<term, keys, signal, threads, shared>>

\* wait_controls_sent: they were sent, or the grace is over.
GraceEnds ==
    /\ main.pc = "grace"
    /\ GoTo("shut")
    /\ UNCHANGED <<term, keys, signal, threads, shared>>

\* The socket is shut down both ways, which drops what it holds, and the outbox closed.
ShutSocket ==
    /\ main.pc = "shut"
    /\ sock' = [sock EXCEPT !.shut = TRUE, !.up = 0, !.down = <<>>]
    /\ outbox' = [outbox EXCEPT !.closed = TRUE]
    /\ GoTo("restore")
    /\ UNCHANGED <<term, keys, signal, threads, flags>>

\* The terminal is restored, without waiting for its output, and what was typed ahead is
\* discarded; then the dispositions.
RestoreTerminal ==
    /\ main.pc = "restore"
    /\ term' = [term EXCEPT !.raw = FALSE]
    /\ keys' = [keys EXCEPT !.unread = <<>>]
    /\ GoTo("unhandle")
    /\ UNCHANGED <<signal, threads, shared>>

RestoreHandlers ==
    /\ main.pc = "unhandle"
    /\ signal' = [signal EXCEPT !.handled = FALSE]
    /\ GoTo("report")
    /\ UNCHANGED <<term, keys, threads, shared>>

\* The exit code; the reports that may block have their own time limit.
Leaves ==
    /\ main.pc = "report"
    /\ Exit(CASE main.ending = "signalled" -> 1
              [] main.ending # "signalled" /\ main.ending # "detached" /\ flags.retired -> Control
              [] OTHER -> 0)
    /\ UNCHANGED <<term, keys, signal, threads, shared>>

MainThread ==
    \/ \E pty, running, human, takeover, tty \in BOOLEAN :
            Checks(pty, running, human, takeover, tty)
    \/ \E peer \in Peers : Connects(peer)
    \/ \E sent \in BOOLEAN, reply \in Replies : Hello(sent, reply)
    \/ InstallHandlers \/ EnterRaw \/ SpawnThreads
    \/ LoopClosed \/ Poll \/ TakeDrains \/ TakeSwaps \/ SizeCheck
    \/ NoKeys \/ ReadKey \/ KeyboardClosed
    \/ DetachQueued \/ GraceEnds \/ ShutSocket \/ RestoreTerminal \/ RestoreHandlers \/ Leaves

(***************************************************************************)
(* The sender and reader threads                                           *)
(***************************************************************************)
\* Outbox::next: controls first.
SenderNext ==
    /\ Alive /\ sender = "next"
    /\ \/ outbox.closed /\ sender' = "ended" /\ UNCHANGED outbox
       \/ /\ ~outbox.closed /\ outbox.controls > 0
          /\ outbox' = [outbox EXCEPT !.controls = @ - 1, !.sending = TRUE]
          /\ sender' = "write"
       \/ /\ ~outbox.closed /\ outbox.controls = 0 /\ outbox.data > 0
          /\ outbox' = [outbox EXCEPT !.data = @ - 1]
          /\ sender' = "write"
    /\ UNCHANGED <<main, term, keys, signal, reading, flags, sock>>

\* write_frame waits for room; then Outbox::sent.
SenderWrites ==
    /\ Alive /\ sender = "write" /\ ~sock.shut /\ ~sock.gone
    /\ sock.up < SocketRoom
    /\ sock' = [sock EXCEPT !.up = @ + 1]
    /\ outbox' = [outbox EXCEPT !.sending = FALSE]
    /\ sender' = "next"
    /\ UNCHANGED <<main, term, keys, signal, reading, flags>>

SenderFails ==
    /\ Alive /\ sender = "write" /\ (sock.shut \/ sock.gone)
    /\ outbox' = [outbox EXCEPT !.sending = FALSE, !.closed = TRUE]
    /\ flags' = [flags EXCEPT !.closed = TRUE]
    /\ sender' = "ended"
    /\ UNCHANGED <<main, term, keys, signal, reading, sock>>

\* The reader: output goes to the terminal, which may not take it.
ReaderReads ==
    /\ Alive /\ reading = "read" /\ sock.down # <<>> /\ ~sock.shut
    /\ sock' = [sock EXCEPT !.down = Tail(@)]
    /\ flags' = [flags EXCEPT !.retired = @ \/ Head(sock.down) = "retired"]
    /\ reading' = IF Head(sock.down) = "data" THEN "stdout" ELSE "read"
    /\ UNCHANGED <<main, term, keys, signal, outbox, sender>>

ReaderPrints ==
    /\ Alive /\ reading = "stdout"
    /\ reading' = "read"
    /\ UNCHANGED <<main, term, keys, signal, sender, shared>>

\* The connection ended, or the terminal is gone.
ReaderEnds ==
    /\ Alive
    /\ \/ reading = "read" /\ (sock.shut \/ (sock.down = <<>> /\ sock.gone))
       \/ reading = "stdout" /\ ~keys.open
    /\ flags' = [flags EXCEPT !.closed = TRUE]
    /\ reading' = "ended"
    /\ UNCHANGED <<main, term, keys, signal, outbox, sender, sock>>

OtherThreads ==
    SenderNext \/ SenderWrites \/ SenderFails \/ ReaderReads \/ ReaderPrints \/ ReaderEnds

(***************************************************************************)
(* The user, the signals and the session                                   *)
(***************************************************************************)
Relaying == Alive /\ sender # "unborn"

Types(key) ==
    /\ Relaying /\ keys.open /\ keys.left > 0
    /\ keys' = [keys EXCEPT !.unread = Append(@, key), !.left = @ - 1]
    /\ UNCHANGED <<main, term, signal, threads, shared>>

TerminalCloses ==
    /\ Relaying /\ keys.open
    /\ keys' = [keys EXCEPT !.open = FALSE]
    /\ UNCHANGED <<main, term, signal, threads, shared>>

\* A signal's handler first marks it pending and then writes to the pipe.
Handler(s) == signal' = [signal EXCEPT !.pending = @ \cup {s}, !.running = TRUE,
                                       !.raised = @ \/ s = Cancel]

\* The terminal has another size, and SIGWINCH says so to a process that handles it.
TerminalResizes ==
    /\ Relaying /\ ~signal.running /\ term.left > 0
    /\ term' = [term EXCEPT !.size = @ + 1, !.left = @ - 1]
    /\ IF signal.handled THEN Handler(Winch) ELSE UNCHANGED signal
    /\ UNCHANGED <<main, keys, threads, shared>>

\* The cancelling signal ends a process without the handler.
Cancelled ==
    /\ Alive /\ ~signal.running /\ ~signal.raised
    /\ IF signal.handled
       THEN Handler(Cancel) /\ UNCHANGED main
       ELSE GoTo("killed") /\ UNCHANGED signal
    /\ UNCHANGED <<term, keys, threads, shared>>

HandlerWakes ==
    /\ Alive /\ signal.running
    /\ signal' = [signal EXCEPT !.running = FALSE, !.wake = TRUE]
    /\ UNCHANGED <<main, term, keys, threads, shared>>

Connected == Relaying /\ ~sock.gone /\ ~sock.shut

SessionSends ==
    /\ Connected /\ Len(sock.down) < SocketRoom
    /\ sock' = [sock EXCEPT !.down = Append(@, "data")]
    /\ UNCHANGED <<main, term, keys, signal, threads, outbox, flags>>

SessionReads ==
    /\ Connected /\ sock.up > 0
    /\ sock' = [sock EXCEPT !.up = @ - 1]
    /\ UNCHANGED <<main, term, keys, signal, threads, outbox, flags>>

\* Another client takes over, or the run ends.
SessionRetires ==
    /\ Connected /\ Len(sock.down) < SocketRoom
    /\ sock' = [sock EXCEPT !.down = Append(@, "retired"), !.gone = TRUE]
    /\ UNCHANGED <<main, term, keys, signal, threads, outbox, flags>>

SessionCloses ==
    /\ Connected
    /\ sock' = [sock EXCEPT !.gone = TRUE]
    /\ UNCHANGED <<main, term, keys, signal, threads, outbox, flags>>

World ==
    \/ \E key \in {"plain", "detach"} : Types(key)
    \/ TerminalCloses \/ TerminalResizes
    \/ Cancelled \/ HandlerWakes
    \/ SessionSends \/ SessionReads \/ SessionRetires \/ SessionCloses

AttachNext == MainThread \/ OtherThreads \/ World

AttachSpec == AttachInit /\ [][AttachNext]_attachVars

(***************************************************************************)
(* Properties                                                              *)
(***************************************************************************)
\* The terminal is never left raw, however the process ends: by any exit, or by a signal
\* that it does not handle.
NeverLeftRaw == ~Alive => ~term.raw

\* Nothing that blocks can keep the user attached: the escape and a cancelling signal end
\* the process even when neither session nor terminal takes anything any more.
AttachLeaves ==
    /\ (signal.raised /\ signal.handled) ~> ~Alive
    /\ (term.raw /\ \E i \in DOMAIN keys.unread : keys.unread[i] = "detach") ~> ~Alive

=============================================================================
