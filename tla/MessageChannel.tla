---------------------------- MODULE MessageChannel ----------------------------
(***************************************************************************)
(* What TcpConnection::receive and SocketIO::readn promise to onMessage:   *)
(* the messages of a client come whole, each once and in the order they    *)
(* were sent.  When the connection ends, one more thing that is no message *)
(* may be delivered, and nothing after it.                                 *)
(*                                                                         *)
(* How messages travel as bytes is left to Stream.tla, which implements    *)
(* this module.                                                            *)
(***************************************************************************)
EXTENDS Integers, Sequences

CONSTANTS Messages,  \* the messages the client has to send, in order
          Broken     \* what is delivered that is no message

VARIABLES begun,     \* how many messages the client has begun to send
          received,  \* the messages delivered
          cut        \* the connection has ended, and Broken may come

vars == <<begun, received, cut>>

Init == begun = 0 /\ received = <<>> /\ cut = FALSE

Send ==
    /\ begun' \in begun + 1..Len(Messages)
    /\ UNCHANGED <<received, cut>>

Receive ==
    /\ ~cut
    /\ Len(received) < begun
    /\ received' = Append(received, Messages[Len(received) + 1])
    /\ UNCHANGED <<begun, cut>>

(* The end of the connection is seen in the middle of a delivery.          *)
Cut ==
    /\ ~cut
    /\ cut' = TRUE
    /\ UNCHANGED <<begun, received>>

Break ==
    /\ cut
    /\ \A k \in 1..Len(received) : received[k] # Broken
    /\ received' = Append(received, Broken)
    /\ UNCHANGED <<begun, cut>>

Next == Send \/ Receive \/ Cut \/ Break

Spec == Init /\ [][Next]_vars
=============================================================================
