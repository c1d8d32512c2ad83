---------------------------- MODULE PacketChannel ----------------------------
(***************************************************************************)
(* What one direction of a server/engine/network/TcpConnection promises:   *)
(* the packets handed to the receive callback are the packets that were    *)
(* sent, whole, each once and in order.  Bytes, segments, the buffer and   *)
(* its watermark are gone.                                                 *)
(***************************************************************************)
EXTENDS Naturals, Sequences

CONSTANT Packet  \* what is sent: any set of values

VARIABLES sent, received

Init == sent = <<>> /\ received = <<>>

Send ==
  /\ \E p \in Packet : sent' = Append(sent, p)
  /\ UNCHANGED received

Receive ==
  /\ Len(received) < Len(sent)
  /\ received' = Append(received, sent[Len(received) + 1])
  /\ UNCHANGED sent

Next == Send \/ Receive

Spec == Init /\ [][Next]_<<sent, received>>
=============================================================================
