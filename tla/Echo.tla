--------------------------------- MODULE Echo ---------------------------------
(***************************************************************************)
(* server/engine/application/Application.cpp on one connection: a client   *)
(* sends packets, the server's receive callback ConnReceive answers        *)
(* protocol 1 with protocol 2 and protocol 3 with protocol 4, echoing the  *)
(* body, and ignores the rest.                                             *)
(*                                                                         *)
(* Each direction of the connection is a PacketStream.  ConnReceive runs   *)
(* inside conn_readcb: the packet is taken from one stream and the answer  *)
(* is written to the other in the same step, before the next packet is     *)
(* looked at.                                                              *)
(***************************************************************************)
EXTENDS Integers, Sequences, FiniteSets

CONSTANTS
  HEAD_SIZE, PKG_MAX_SIZE,  \* as in PacketStream
  Protocol,                 \* the ids the client sends
  Size,                     \* the sizes it sends
  MaxPackets                \* bound: packets the client sends

ASSUME EchoAssumption ==
  /\ HEAD_SIZE \in Nat \ {0}
  /\ PKG_MAX_SIZE \in Nat
  /\ Size \subseteq Nat
  /\ \A size \in Size : size >= HEAD_SIZE
  /\ MaxPackets \in Nat

VARIABLES
  upFrames, upArrived, upRemoved, upLow, upReading, upDelivered,
  downFrames, downArrived, downRemoved, downLow, downReading, downDelivered

up == <<upFrames, upArrived, upRemoved, upLow, upReading, upDelivered>>
down == <<downFrames, downArrived, downRemoved, downLow, downReading, downDelivered>>
vars == <<up, down>>

\* The protocols ConnReceive answers, and with which protocol.
Answer == [id \in {1, 3} |-> IF id = 1 THEN 2 ELSE 4]

Up == INSTANCE PacketStream WITH
  Id <- Protocol, frames <- upFrames, arrived <- upArrived, removed <- upRemoved,
  low <- upLow, reading <- upReading, delivered <- upDelivered

Down == INSTANCE PacketStream WITH
  Id <- {2, 4}, frames <- downFrames, arrived <- downArrived, removed <- downRemoved,
  low <- downLow, reading <- downReading, delivered <- downDelivered
-----------------------------------------------------------------------------
Init == Up!Init /\ Down!Init

\* Mutant: the branch for protocol 3 has the answer of protocol 1.
ConnReceive_SameAnswer(id, size) ==
  \/ id \in DOMAIN Answer /\ Down!Send(2, size)
  \/ id \notin DOMAIN Answer /\ UNCHANGED down

\* Mutant: there is no branch for protocol 3.
ConnReceive_NoBranch(id, size) ==
  \/ id = 1 /\ Down!Send(2, size)
  \/ id # 1 /\ UNCHANGED down

\* Mutant: the answer repeats the id of the request.
ConnReceive_SameId(id, size) ==
  \/ id \in DOMAIN Answer /\ Down!Send(id, size)
  \/ id \notin DOMAIN Answer /\ UNCHANGED down

\* Application::ConnReceive.
ConnReceive(id, size) ==
  \/ id \in DOMAIN Answer /\ Down!Send(Answer[id], size)
  \/ id \notin DOMAIN Answer /\ UNCHANGED down

\* The server: conn_readcb with ConnReceive as its callback.
ServerTakes == Up!TakePacket /\ ConnReceive(Up!Header.id, Up!pkg_size)
ServerWaits == (Up!WaitForHeader \/ Up!WaitForBody \/ Up!Oversize) /\ UNCHANGED down
ServerReceives(n) == Up!Receive(n) /\ UNCHANGED down

\* The client; its callback only prints.
ClientSends(id, size) == Up!Send(id, size) /\ UNCHANGED down
ClientReads == Down!conn_readcb /\ UNCHANGED up
ClientReceives(n) == Down!Receive(n) /\ UNCHANGED up

Next ==
  \/ \E id \in Protocol, size \in Size : ClientSends(id, size)
  \/ \E n \in 1..(Up!SentBytes - upArrived) : ServerReceives(n)
  \/ \E n \in 1..(Down!SentBytes - downArrived) : ClientReceives(n)
  \/ ServerTakes
  \/ ServerWaits
  \/ ClientReads

Spec == Init /\ [][Next]_vars

\* The network delivers in both directions, and both event loops run.
FairSpec ==
  /\ Spec
  /\ WF_vars(\E n \in 1..(Up!SentBytes - upArrived) : ServerReceives(n))
  /\ WF_vars(\E n \in 1..(Down!SentBytes - downArrived) : ClientReceives(n))
  /\ WF_vars(ServerTakes \/ ServerWaits)
  /\ WF_vars(ClientReads)
-----------------------------------------------------------------------------
(***************************************************************************)
(* Properties.                                                             *)
(***************************************************************************)

\* Both streams have their types: only answers go down.
TypeOK == Up!TypeOK /\ Down!TypeOK

Answered(p) == p.id \in DOMAIN Answer
AnswerTo(p) == [id |-> Answer[p.id], size |-> Up!SizeOf(p)]

\* The packets the client has sent that ask for an answer, by their places.
Requests == {j \in 1..Len(upFrames) : Answered(upFrames[j])}

\* The packet at place j is the i-th request.
IsRequest(i, j) == j \in Requests /\ Cardinality(Requests \cap 1..j) = i

\* The client's callback sees the answers to its requests in the order it made
\* them, each once, with none for a packet that asks for none, however requests
\* and answers are cut into segments and wherever either stream is held up.
AnswersInOrder ==
  \A i \in 1..Len(downDelivered) :
    \E j \in 1..Len(upFrames) : IsRequest(i, j) /\ downDelivered[i] = AnswerTo(upFrames[j])

\* Every request is answered, or one of the two streams ends up for good behind
\* an oversized packet or an outdated watermark.
RequestsAnswered ==
  \A i \in 1..MaxPackets :
    Cardinality(Requests) >= i ~> \/ Len(downDelivered) >= i
                                  \/ []Up!Blocked \/ []Up!Stalled \/ []Down!Stalled

\* What makes AnswersInOrder inductive, with IInv of both streams: what the
\* server has sent is the answers to the requests among the packets it has taken.
AnswersSent ==
  /\ Len(downFrames) = Cardinality(Requests \cap 1..Len(upDelivered))
  /\ \A i \in 1..Len(downFrames) :
       \E j \in 1..Len(upDelivered) :
         /\ IsRequest(i, j)
         /\ AnswerTo(upFrames[j]) = [id |-> downFrames[i].id, size |-> Down!SizeOf(downFrames[i])]
=============================================================================
