------------------------------ MODULE Handshake ------------------------------
(***************************************************************************)
(* How attach and push reach a session (connect, hello and hello_reply of  *)
(* src/commands/attach.rs): the answers that are possible, and the exit    *)
(* code for each (src/pty_exit.rs).                                        *)
(***************************************************************************)

Protocol == 80
Control == 81
Runtime == 84
Identity == 85

Peers == {"unreachable", "stranger", "unverified", "own"}

\* connect: a socket that cannot be reached, and a listener of another user; 0 goes on.
ConnectCode(peer) ==
    CASE peer \in {"unreachable", "unverified"} -> Runtime
      [] peer = "stranger" -> Identity
      [] OTHER -> 0

\* What reading the reply to the hello gives.
Refusals == {"protocol", "control", "runtime", "identity"}
Replies == {"accepted", "other", "unknown", "malformed", "timeout", "io"} \cup Refusals

\* hello and hello_reply: a frame decides even if the hello could not be written.
HelloCode(sent, reply) ==
    CASE reply = "accepted" -> 0
      [] ~sent /\ reply \in {"timeout", "io"} -> Runtime
      [] reply = "control" -> Control
      [] reply = "runtime" -> Runtime
      [] reply = "identity" -> Identity
      [] reply = "io" /\ sent -> Runtime
      [] OTHER -> Protocol

=============================================================================
