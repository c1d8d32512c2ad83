------------------------------ MODULE EchoProofs ------------------------------
(***************************************************************************)
(* Proofs about Echo, for every header size, packet limit, set of packet   *)
(* sizes, protocols and segmentation of the two streams.  Each direction   *)
(* is a PacketStream, so that the theorems of StreamProofs hold of both;   *)
(* what is new is how the answers depend on the requests.                  *)
(***************************************************************************)
EXTENDS Echo, FiniteSetTheorems, SequenceTheorems, TLAPS

UpP == INSTANCE StreamProofs WITH
  Id <- Protocol, frames <- upFrames, arrived <- upArrived, removed <- upRemoved,
  low <- upLow, reading <- upReading, delivered <- upDelivered

DownP == INSTANCE StreamProofs WITH
  Id <- {2, 4}, frames <- downFrames, arrived <- downArrived, removed <- downRemoved,
  low <- downLow, reading <- downReading, delivered <- downDelivered

LEMMA StreamAssumptions == UpP!StreamAssumption /\ DownP!StreamAssumption
BY EchoAssumption DEF UpP!StreamAssumption, DownP!StreamAssumption

-----------------------------------------------------------------------------
(* Up and UpP are the same stream, and so are Down and DownP.              *)

LEMMA UpState ==
  /\ Up!Init <=> UpP!Init
  /\ Up!TypeOK <=> UpP!TypeOK
  /\ Up!Header = UpP!Header /\ Up!pkg_size = UpP!pkg_size
  /\ \A f : Up!SizeOf(f) = UpP!SizeOf(f)
BY DEF Up!Init, UpP!Init, Up!TypeOK, UpP!TypeOK, Up!SentBytes, UpP!SentBytes, Up!Frame, UpP!Frame,
       Up!Packet, UpP!Packet, Up!Header, UpP!Header, Up!pkg_size, UpP!pkg_size, Up!SizeOf, UpP!SizeOf

LEMMA DownState ==
  /\ Down!Init <=> DownP!Init
  /\ Down!TypeOK <=> DownP!TypeOK
  /\ \A f : Down!SizeOf(f) = DownP!SizeOf(f)
BY DEF Down!Init, DownP!Init, Down!TypeOK, DownP!TypeOK, Down!SentBytes, DownP!SentBytes,
       Down!Frame, DownP!Frame, Down!Packet, DownP!Packet, Down!SizeOf, DownP!SizeOf

LEMMA UpActions ==
  /\ \A id, size : Up!Send(id, size) <=> UpP!Send(id, size)
  /\ Up!SentBytes = UpP!SentBytes
  /\ \A n : Up!Receive(n) <=> UpP!Receive(n)
  /\ Up!TakePacket <=> UpP!TakePacket
  /\ Up!WaitForHeader \/ Up!WaitForBody \/ Up!Oversize =>
       UpP!WaitForHeader \/ UpP!WaitForBody \/ UpP!Oversize
<1> USE DEF Up!SentBytes, UpP!SentBytes, Up!recv_len, UpP!recv_len, Up!Header, UpP!Header,
            Up!pkg_size, UpP!pkg_size, Up!SizeOf, UpP!SizeOf
<1>1. \A id, size : Up!Send(id, size) <=> UpP!Send(id, size)
  BY DEF Up!Send, UpP!Send
<1>2. Up!SentBytes = UpP!SentBytes /\ \A n : Up!Receive(n) <=> UpP!Receive(n)
  BY DEF Up!Receive, UpP!Receive
<1>3. Up!TakePacket <=> UpP!TakePacket
  BY DEF Up!TakePacket, UpP!TakePacket
<1>4. /\ Up!WaitForHeader => UpP!WaitForHeader
      /\ Up!WaitForBody => UpP!WaitForBody
      /\ Up!Oversize => UpP!Oversize
  BY DEF Up!WaitForHeader, UpP!WaitForHeader, Up!WaitForBody, UpP!WaitForBody,
         Up!Oversize, UpP!Oversize
<1> QED
  BY <1>1, <1>2, <1>3, <1>4

LEMMA DownActions ==
  /\ \A id, size : Down!Send(id, size) <=> DownP!Send(id, size)
  /\ Down!SentBytes = DownP!SentBytes
  /\ \A n : Down!Receive(n) <=> DownP!Receive(n)
  /\ Down!conn_readcb <=> DownP!conn_readcb
<1> USE DEF Down!SentBytes, DownP!SentBytes, Down!recv_len, DownP!recv_len, Down!Header, DownP!Header,
            Down!pkg_size, DownP!pkg_size, Down!SizeOf, DownP!SizeOf
<1>1. \A id, size : Down!Send(id, size) <=> DownP!Send(id, size)
  BY DEF Down!Send, DownP!Send
<1>2. Down!SentBytes = DownP!SentBytes /\ \A n : Down!Receive(n) <=> DownP!Receive(n)
  BY DEF Down!Receive, DownP!Receive
<1>3. Down!TakePacket <=> DownP!TakePacket
  BY DEF Down!TakePacket, DownP!TakePacket
<1>4. /\ Down!WaitForHeader <=> DownP!WaitForHeader
      /\ Down!WaitForBody <=> DownP!WaitForBody
      /\ Down!Oversize <=> DownP!Oversize
  BY DEF Down!WaitForHeader, DownP!WaitForHeader, Down!WaitForBody, DownP!WaitForBody,
         Down!Oversize, DownP!Oversize
<1> QED
  BY <1>1, <1>2, <1>3, <1>4 DEF Down!conn_readcb, DownP!conn_readcb

-----------------------------------------------------------------------------
(* Each direction is a stream: the receive callback sends only answers, of *)
(* a size that the packet it answers had.                                  *)

LEMMA AnswerIds == DOMAIN Answer = {1, 3} /\ \A id \in DOMAIN Answer : Answer[id] \in {2, 4}
BY DEF Answer

\* The server takes the first packet that it has not taken yet.
LEMMA ServerTakesNext ==
  ASSUME UpP!IInv, ServerTakes
  PROVE  /\ UpP!TakePacket /\ UNCHANGED upFrames
         /\ Len(upDelivered) + 1 \in 1..Len(upFrames)
         /\ Len(upDelivered') = Len(upDelivered) + 1
         /\ Up!Header = upFrames[Len(upDelivered) + 1]
         /\ Up!pkg_size = Up!SizeOf(upFrames[Len(upDelivered) + 1]) /\ Up!pkg_size \in Size
<1>1. UpP!TakePacket
  BY UpActions DEF ServerTakes
<1>2. UpP!recv_len >= HEAD_SIZE
  BY <1>1 DEF UpP!TakePacket
<1>3. /\ UpP!Taken + 1 \in 1..Len(upFrames)
      /\ UpP!Header = upFrames[UpP!Taken + 1]
      /\ UpP!SizeOf(upFrames[UpP!Taken + 1]) \in Size
  BY <1>2, StreamAssumptions, UpP!HeaderIsNext
<1>4. /\ UNCHANGED upFrames
      /\ upDelivered' = Append(upDelivered, [id |-> upFrames[UpP!Taken + 1].id,
                                             size |-> UpP!SizeOf(upFrames[UpP!Taken + 1])])
  BY <1>1, StreamAssumptions, UpP!TakePacketStep
<1>5. upDelivered \in Seq(UpP!Packet)
  BY StreamAssumptions, UpP!Facts
<1>6. Len(upDelivered') = Len(upDelivered) + 1
  BY <1>4, <1>5
<1> QED
  BY <1>1, <1>3, <1>4, <1>6, UpState DEF UpP!Taken, UpP!pkg_size

LEMMA UpStep == [Next]_vars => [UpP!Next]_(UpP!vars)
<1> SUFFICES ASSUME [Next]_vars PROVE [UpP!Next]_(UpP!vars)
  OBVIOUS
<1>1. UNCHANGED up => UNCHANGED UpP!vars
  BY DEF up, UpP!vars
<1>2. ASSUME NEW id \in Protocol, NEW size \in Size, ClientSends(id, size) PROVE UpP!Next
  BY <1>2, UpActions DEF ClientSends, UpP!Next
<1>3. ASSUME NEW n \in 1..(Up!SentBytes - upArrived), ServerReceives(n) PROVE UpP!Next
  BY <1>3, UpActions DEF ServerReceives, UpP!Next
<1>4. CASE ServerTakes \/ ServerWaits
  BY <1>4, UpActions DEF ServerTakes, ServerWaits, UpP!Next, UpP!conn_readcb
<1>5. CASE ClientReads \/ \E n \in 1..(Down!SentBytes - downArrived) : ClientReceives(n)
  BY <1>1, <1>5 DEF ClientReads, ClientReceives
<1>6. CASE UNCHANGED vars
  BY <1>1, <1>6 DEF vars
<1> QED
  BY <1>2, <1>3, <1>4, <1>5, <1>6 DEF Next

LEMMA DownStep == UpP!IInv /\ [Next]_vars => [DownP!Next]_(DownP!vars)
<1> SUFFICES ASSUME UpP!IInv, [Next]_vars PROVE [DownP!Next]_(DownP!vars)
  OBVIOUS
<1>1. UNCHANGED down => UNCHANGED DownP!vars
  BY DEF down, DownP!vars
<1>2. CASE (\E id \in Protocol, size \in Size : ClientSends(id, size)) \/ ServerWaits
           \/ \E n \in 1..(Up!SentBytes - upArrived) : ServerReceives(n)
  BY <1>1, <1>2 DEF ClientSends, ServerWaits, ServerReceives
<1>3. CASE ServerTakes
  <2>1. Up!pkg_size \in Size
    BY <1>3, ServerTakesNext
  <2>2. CASE Up!Header.id \in DOMAIN Answer /\ Down!Send(Answer[Up!Header.id], Up!pkg_size)
    <3>1. Answer[Up!Header.id] \in {2, 4}
      BY <2>2, AnswerIds
    <3>2. DownP!Send(Answer[Up!Header.id], Up!pkg_size)
      BY <2>2, DownActions
    <3> QED
      BY <2>1, <3>1, <3>2 DEF DownP!Next
  <2> QED
    BY <1>1, <1>3, <2>2 DEF ServerTakes, ConnReceive
<1>4. ASSUME NEW n \in 1..(Down!SentBytes - downArrived), ClientReceives(n) PROVE DownP!Next
  BY <1>4, DownActions DEF ClientReceives, DownP!Next
<1>5. CASE ClientReads
  BY <1>5, DownActions DEF ClientReads, DownP!Next
<1>6. CASE UNCHANGED vars
  BY <1>1, <1>6 DEF vars
<1> QED
  BY <1>2, <1>3, <1>4, <1>5, <1>6 DEF Next

LEMMA StreamsInit == Init => UpP!Init /\ DownP!Init
BY UpState, DownState DEF Init

LEMMA UpAlways == Spec => UpP!Spec /\ []UpP!IInv
<1>1. Spec => UpP!Spec
  BY StreamsInit, UpStep, PTL DEF Spec, UpP!Spec
<1>2. UpP!Spec => []UpP!IInv
  BY StreamAssumptions, UpP!Inductive
<1> QED
  BY <1>1, <1>2, PTL

LEMMA DownAlways == Spec => DownP!Spec /\ []DownP!IInv
<1>1. Spec => DownP!Spec
  BY StreamsInit, DownStep, UpAlways, PTL DEF Spec, DownP!Spec
<1>2. DownP!Spec => []DownP!IInv
  BY StreamAssumptions, DownP!Inductive
<1> QED
  BY <1>1, <1>2, PTL

\* Both directions of the connection keep their types: ConnReceive sends nothing
\* but answers, and of a size that Send may be given.
THEOREM EchoTypeCorrect == Spec => []TypeOK
<1>1. UpP!IInv /\ DownP!IInv => TypeOK
  BY UpState, DownState DEF UpP!IInv, DownP!IInv, TypeOK
<1> QED
  BY <1>1, UpAlways, DownAlways, PTL

-----------------------------------------------------------------------------
(* What the server has sent are the answers.                               *)

LEMMA UpFacts ==
  ASSUME UpP!IInv
  PROVE  /\ upFrames \in Seq(UpP!Frame) /\ upDelivered \in Seq(UpP!Packet)
         /\ Len(upFrames) \in Nat /\ Len(upDelivered) \in Nat /\ Len(upDelivered) <= Len(upFrames)
BY StreamAssumptions, UpP!Facts DEF UpP!Taken

LEMMA DownFacts ==
  ASSUME DownP!IInv
  PROVE  /\ downFrames \in Seq(DownP!Frame) /\ Len(downFrames) \in Nat
         /\ Len(downDelivered) \in Nat /\ Len(downDelivered) <= Len(downFrames)
         /\ \A i \in 1..Len(downDelivered) :
              downDelivered[i] = [id |-> downFrames[i].id, size |-> Down!SizeOf(downFrames[i])]
<1>1. DownP!Framed
  BY DEF DownP!IInv
<1> QED
  BY <1>1, StreamAssumptions, DownP!Facts, DownState DEF DownP!Taken, DownP!Framed

\* How many requests there are among the first packets.
LEMMA RequestCount ==
  ASSUME Len(upFrames) \in Nat, NEW n \in Nat
  PROVE  /\ IsFiniteSet(Requests \cap 1..n)
         /\ Cardinality(Requests \cap 1..n) \in Nat
<1>1. IsFiniteSet(1..n) /\ Requests \cap 1..n \in SUBSET (1..n)
  BY FS_Interval
<1> QED
  BY <1>1, FS_Subset, FS_CardinalityType

LEMMA NextRequest ==
  ASSUME Len(upFrames) \in Nat, NEW n \in Nat
  PROVE  Cardinality(Requests \cap 1..(n + 1)) =
           Cardinality(Requests \cap 1..n) + (IF n + 1 \in Requests THEN 1 ELSE 0)
<1>1. IsFiniteSet(Requests \cap 1..n) /\ Cardinality(Requests \cap 1..n) \in Nat
  BY RequestCount
<1>2. CASE n + 1 \in Requests
  <2>1. Requests \cap 1..(n + 1) = (Requests \cap 1..n) \cup {n + 1}
    BY <1>2
  <2>2. n + 1 \notin Requests \cap 1..n
    OBVIOUS
  <2> QED
    BY <1>1, <1>2, <2>1, <2>2, FS_AddElement
<1>3. CASE n + 1 \notin Requests
  <2>1. Requests \cap 1..(n + 1) = Requests \cap 1..n
    BY <1>3
  <2>2. \A c \in Nat : c + 0 = c
    OBVIOUS
  <2> HIDE DEF Requests
  <2> QED
    BY <1>1, <1>3, <2>1, <2>2
<1> QED
  BY <1>2, <1>3

\* Sending more packets does not change which of the earlier ones is which request.
LEMMA EarlierRequests ==
  ASSUME Len(upFrames) \in Nat, Len(upFrames') \in Nat, Len(upFrames) <= Len(upFrames'),
         \A j \in 1..Len(upFrames) : upFrames'[j] = upFrames[j]
  PROVE  /\ \A n \in 0..Len(upFrames) : Requests' \cap 1..n = Requests \cap 1..n
         /\ \A i, j : j \in 1..Len(upFrames) =>
              /\ IsRequest(i, j)' <=> IsRequest(i, j)
              /\ AnswerTo(upFrames[j])' = AnswerTo(upFrames[j])
<1>1. \A j \in 1..Len(upFrames) : j \in Requests' <=> j \in Requests
  BY DEF Requests, Answered
<1>2. \A n \in 0..Len(upFrames) : Requests' \cap 1..n = Requests \cap 1..n
  BY <1>1
<1>3. ASSUME NEW i, NEW j \in 1..Len(upFrames)
      PROVE  /\ IsRequest(i, j)' <=> IsRequest(i, j)
             /\ AnswerTo(upFrames[j])' = AnswerTo(upFrames[j])
  <2>1. Requests' \cap 1..j = Requests \cap 1..j
    BY <1>2
  <2> QED
    BY <1>1, <2>1 DEF IsRequest, AnswerTo, Up!SizeOf
<1> QED
  BY <1>2, <1>3

LEMMA AnswersInit == Init => AnswersSent
<1> SUFFICES ASSUME Init PROVE AnswersSent
  OBVIOUS
<1>1. upFrames = <<>> /\ upDelivered = <<>> /\ downFrames = <<>>
  BY DEF Init, Up!Init, Down!Init
<1>2. Requests = {}
  BY <1>1 DEF Requests
<1>3. Cardinality(Requests \cap 1..Len(upDelivered)) = 0
  <2>1. Requests \cap 1..Len(upDelivered) = {}
    BY <1>2
  <2> QED
    BY <2>1, FS_EmptySet
<1> QED
  BY <1>1, <1>3 DEF AnswersSent

\* Steps in which nothing is taken upstream and nothing is sent downstream.
LEMMA AnswersKept ==
  ASSUME UpP!IInv, UpP!IInv', AnswersSent,
         upDelivered' = upDelivered, downFrames' = downFrames,
         Len(upFrames) <= Len(upFrames'),
         \A j \in 1..Len(upFrames) : upFrames'[j] = upFrames[j]
  PROVE  AnswersSent'
<1>1. /\ Len(upFrames) \in Nat /\ Len(upFrames') \in Nat
      /\ Len(upDelivered) \in 0..Len(upFrames)
  BY UpFacts, StreamAssumptions, UpP!Facts
<1>2. /\ Requests' \cap 1..Len(upDelivered) = Requests \cap 1..Len(upDelivered)
      /\ \A i, j : j \in 1..Len(upFrames) =>
           /\ IsRequest(i, j)' <=> IsRequest(i, j)
           /\ AnswerTo(upFrames[j])' = AnswerTo(upFrames[j])
  BY <1>1, EarlierRequests
<1>3. Len(downFrames') = Cardinality(Requests' \cap 1..Len(upDelivered'))
  BY <1>2 DEF AnswersSent
<1>4. ASSUME NEW i \in 1..Len(downFrames')
      PROVE  \E j \in 1..Len(upDelivered') :
               /\ IsRequest(i, j)'
               /\ AnswerTo(upFrames[j])' = [id |-> downFrames'[i].id, size |-> Down!SizeOf(downFrames'[i])]
  <2>1. PICK j \in 1..Len(upDelivered) :
          /\ IsRequest(i, j)
          /\ AnswerTo(upFrames[j]) = [id |-> downFrames[i].id, size |-> Down!SizeOf(downFrames[i])]
    BY DEF AnswersSent
  <2>2. j \in 1..Len(upFrames)
    BY <1>1
  <2> QED
    BY <1>2, <2>1, <2>2
<1> QED
  BY <1>3, <1>4 DEF AnswersSent, Down!SizeOf

\* The server takes a packet, and answers it if it is a request.
LEMMA AnswersTaken ==
  ASSUME UpP!IInv, DownP!IInv, AnswersSent, ServerTakes
  PROVE  AnswersSent'
<1> PICK n \in Nat : n = Len(upDelivered)
  BY UpFacts
<1> DEFINE f == upFrames[n + 1]
<1>1. /\ UNCHANGED upFrames /\ n \in Nat /\ n + 1 \in 1..Len(upFrames)
      /\ Len(upDelivered') = n + 1
      /\ Up!Header = f /\ Up!pkg_size = Up!SizeOf(f) /\ Up!pkg_size \in Size
      /\ Len(upFrames) \in Nat
  BY ServerTakesNext, UpFacts
<1>2. /\ Requests' = Requests
      /\ \A i, j : IsRequest(i, j)' <=> IsRequest(i, j)
      /\ \A j : AnswerTo(upFrames[j])' = AnswerTo(upFrames[j])
  BY <1>1 DEF Requests, IsRequest, AnswerTo, Answered, Up!SizeOf
<1>3. Cardinality(Requests \cap 1..(n + 1)) =
        Cardinality(Requests \cap 1..n) + (IF n + 1 \in Requests THEN 1 ELSE 0)
  BY <1>1, NextRequest
<1>4. n + 1 \in Requests <=> f.id \in DOMAIN Answer
  BY <1>1 DEF Requests, Answered
<1>5. /\ Len(downFrames) = Cardinality(Requests \cap 1..n)
      /\ \A i \in 1..Len(downFrames) :
           \E j \in 1..(n + 1) :
             /\ IsRequest(i, j)'
             /\ AnswerTo(upFrames[j])' = [id |-> downFrames[i].id, size |-> Down!SizeOf(downFrames[i])]
  <2>1. \A j \in 1..n : j \in 1..(n + 1)
    BY <1>1
  <2> QED
    BY <1>2, <2>1 DEF AnswersSent
<1>6. Len(downFrames) \in Nat
  BY DownFacts
<1> HIDE DEF f
<1>7. CASE f.id \notin DOMAIN Answer
  <2>1. downFrames' = downFrames
    BY <1>1, <1>7 DEF ServerTakes, ConnReceive, down
  <2>2. Len(downFrames') = Cardinality(Requests' \cap 1..(n + 1))
    BY <1>2, <1>3, <1>4, <1>5, <1>6, <1>7, <2>1
  <2> QED
    BY <1>1, <1>5, <2>1, <2>2 DEF AnswersSent, Down!SizeOf
<1>8. CASE f.id \in DOMAIN Answer
  <2>1. DownP!Send(Answer[f.id], Up!pkg_size) /\ Answer[f.id] \in {2, 4}
    BY <1>1, <1>8, AnswerIds, DownActions DEF ServerTakes, ConnReceive
  <2> PICK m \in Nat : m = Len(downFrames) + 1
    BY <1>6
  <2>2. /\ Len(downFrames') = m
        /\ \A i \in 1..Len(downFrames) : downFrames'[i] = downFrames[i]
        /\ downFrames'[m].id = Answer[f.id] /\ Down!SizeOf(downFrames'[m]) = Up!pkg_size
    BY <1>1, <2>1, StreamAssumptions, DownP!SendStep, DownState
  <2>3. Cardinality(Requests \cap 1..(n + 1)) = m
    BY <1>3, <1>4, <1>5, <1>6, <1>8
  <2>4. n + 1 \in 1..(n + 1)
    BY <1>1
  <2>5. IsRequest(m, n + 1)'
    BY <1>2, <1>4, <1>8, <2>3 DEF IsRequest
  <2>6. AnswerTo(upFrames[n + 1])' = [id |-> downFrames'[m].id, size |-> Down!SizeOf(downFrames'[m])]
    BY <1>1, <1>2, <2>2 DEF AnswerTo, f
  <2>7. ASSUME NEW i \in 1..m
        PROVE  \E j \in 1..(n + 1) :
                 /\ IsRequest(i, j)'
                 /\ AnswerTo(upFrames[j])' = [id |-> downFrames'[i].id, size |-> Down!SizeOf(downFrames'[i])]
    <3>1. CASE i = m
      BY <2>4, <2>5, <2>6, <3>1
    <3>2. CASE i # m
      <4>1. i \in 1..Len(downFrames) /\ downFrames'[i] = downFrames[i]
        BY <1>6, <2>2, <3>2
      <4> QED
        BY <1>5, <4>1
    <3> QED
      BY <3>1, <3>2
  <2>8. Len(downFrames') = Cardinality(Requests' \cap 1..(n + 1))
    BY <1>2, <2>2, <2>3
  <2> QED
    BY <1>1, <2>2, <2>7, <2>8 DEF AnswersSent, Down!SizeOf
<1> QED
  BY <1>7, <1>8

LEMMA AnswersStep ==
  ASSUME UpP!IInv, UpP!IInv', DownP!IInv, AnswersSent, [Next]_vars
  PROVE  AnswersSent'
<1>1. Len(upFrames) \in Nat
  BY UpFacts
<1>2. ASSUME NEW id \in Protocol, NEW size \in Size, ClientSends(id, size) PROVE AnswersSent'
  <2>1. UpP!Send(id, size) /\ UNCHANGED <<upDelivered, downFrames>>
    BY <1>2, UpActions DEF ClientSends, down, UpP!Send
  <2>2. /\ Len(upFrames') = Len(upFrames) + 1
        /\ \A j \in 1..Len(upFrames) : upFrames'[j] = upFrames[j]
    BY <2>1, StreamAssumptions, UpP!SendStep
  <2> QED
    BY <1>1, <2>1, <2>2, AnswersKept
<1>3. ASSUME UNCHANGED <<upFrames, upDelivered, downFrames>> PROVE AnswersSent'
  BY <1>1, <1>3, AnswersKept
<1>4. CASE \/ \E n \in 1..(Up!SentBytes - upArrived) : ServerReceives(n)
           \/ \E n \in 1..(Down!SentBytes - downArrived) : ClientReceives(n)
  BY <1>3, <1>4 DEF ServerReceives, ClientReceives, Up!Receive, Down!Receive, up, down
<1>5. CASE ServerTakes
  BY <1>5, AnswersTaken
<1>6. CASE ServerWaits
  BY <1>3, <1>6 DEF ServerWaits, Up!WaitForHeader, Up!WaitForBody, Up!Oversize, down
<1>7. CASE ClientReads
  BY <1>3, <1>7 DEF ClientReads, Down!conn_readcb, Down!WaitForHeader, Down!WaitForBody,
                    Down!Oversize, Down!TakePacket, up
<1>8. CASE UNCHANGED vars
  BY <1>3, <1>8 DEF vars, up, down
<1> QED
  BY <1>2, <1>4, <1>5, <1>6, <1>7, <1>8 DEF Next

LEMMA AnswersAlways == Spec => []AnswersSent
<1>1. Init => AnswersSent
  BY AnswersInit
<1>2. UpP!IInv /\ UpP!IInv' /\ DownP!IInv /\ AnswersSent /\ [Next]_vars => AnswersSent'
  BY AnswersStep
<1> QED
  BY <1>1, <1>2, UpAlways, DownAlways, PTL DEF Spec

\* The i-th packet that reaches the client's callback is the answer to its i-th
\* request, for every mix of protocols and sizes, every segmentation of both
\* streams and every order of the two event loops.
THEOREM EchoAnswersInOrder == Spec => []AnswersInOrder
<1>1. UpP!IInv /\ DownP!IInv /\ AnswersSent => AnswersInOrder
  <2> SUFFICES ASSUME UpP!IInv, DownP!IInv, AnswersSent, NEW i \in 1..Len(downDelivered)
               PROVE  \E j \in 1..Len(upFrames) :
                        IsRequest(i, j) /\ downDelivered[i] = AnswerTo(upFrames[j])
    BY DEF AnswersInOrder
  <2>1. /\ i \in 1..Len(downFrames)
        /\ downDelivered[i] = [id |-> downFrames[i].id, size |-> Down!SizeOf(downFrames[i])]
    BY DownFacts
  <2>2. PICK j \in 1..Len(upDelivered) :
          /\ IsRequest(i, j)
          /\ AnswerTo(upFrames[j]) = [id |-> downFrames[i].id, size |-> Down!SizeOf(downFrames[i])]
    BY <2>1 DEF AnswersSent
  <2>3. j \in 1..Len(upFrames)
    BY UpFacts
  <2> QED
    BY <2>1, <2>2, <2>3
<1> QED
  BY <1>1, UpAlways, DownAlways, AnswersAlways, PTL

\* Up and UpP, and Down and DownP, implement the same channel.
LEMMA SameChannels ==
  /\ UpP!ImplementsChannel => Up!ImplementsChannel
  /\ DownP!ImplementsChannel => Down!ImplementsChannel
<1>1. UpP!Channel!Init => Up!Channel!Init
  BY DEF Up!Channel!Init, UpP!Channel!Init, Up!SizeOf, UpP!SizeOf
<1>2. [UpP!Channel!Next]_<<[i \in 1..Len(upFrames) |->
                              [id |-> upFrames[i].id, size |-> UpP!SizeOf(upFrames[i])]], upDelivered>>
      => [Up!Channel!Next]_<<[i \in 1..Len(upFrames) |->
                              [id |-> upFrames[i].id, size |-> Up!SizeOf(upFrames[i])]], upDelivered>>
  BY DEF Up!Channel!Next, UpP!Channel!Next, Up!SizeOf, UpP!SizeOf, Up!Channel!Send, UpP!Channel!Send,
         Up!Channel!Receive, UpP!Channel!Receive, Up!Packet, UpP!Packet
<1>3. UpP!ImplementsChannel => Up!ImplementsChannel
  BY <1>1, <1>2, PTL DEF Up!ImplementsChannel, UpP!ImplementsChannel, Up!Channel!Spec, UpP!Channel!Spec
<1>4. DownP!Channel!Init => Down!Channel!Init
  BY DEF Down!Channel!Init, DownP!Channel!Init, Down!SizeOf, DownP!SizeOf
<1>5. [DownP!Channel!Next]_<<[i \in 1..Len(downFrames) |->
                              [id |-> downFrames[i].id, size |-> DownP!SizeOf(downFrames[i])]], downDelivered>>
      => [Down!Channel!Next]_<<[i \in 1..Len(downFrames) |->
                              [id |-> downFrames[i].id, size |-> Down!SizeOf(downFrames[i])]], downDelivered>>
  BY DEF Down!Channel!Next, DownP!Channel!Next, Down!SizeOf, DownP!SizeOf, Down!Channel!Send, DownP!Channel!Send,
         Down!Channel!Receive, DownP!Channel!Receive, Down!Packet, DownP!Packet
<1>6. DownP!ImplementsChannel => Down!ImplementsChannel
  BY <1>4, <1>5, PTL DEF Down!ImplementsChannel, DownP!ImplementsChannel, Down!Channel!Spec, DownP!Channel!Spec
<1> QED
  BY <1>3, <1>6

\* Each direction of the connection is a channel of packets: what the client and
\* the server get is what the other one sent, though the answers are written from
\* inside the callback that reads the requests.
THEOREM EchoIsTwoChannels == Spec => Up!ImplementsChannel /\ Down!ImplementsChannel
<1>1. UpP!Spec => UpP!ImplementsChannel
  BY StreamAssumptions, UpP!StreamImplementsChannel
<1>2. DownP!Spec => DownP!ImplementsChannel
  BY StreamAssumptions, DownP!StreamImplementsChannel
<1> QED
  BY <1>1, <1>2, SameChannels, UpAlways, DownAlways, PTL
===============================================================================
