---------------------------- MODULE StreamProofs ----------------------------
(***************************************************************************)
(* Proofs about PacketStream, for every header size, packet limit, set of  *)
(* packet sizes and segmentation of the stream.                            *)
(***************************************************************************)
EXTENDS PacketStream, SequenceTheorems, TLAPS

LEMMA Sizes == HEAD_SIZE \in Nat /\ HEAD_SIZE > 0 /\ PKG_MAX_SIZE \in Nat
               /\ \A size \in Size : size \in Nat /\ size >= HEAD_SIZE
  BY StreamAssumption DEF StreamAssumption

\* What conn_readcb reads in the header is the first packet not taken yet.
LEMMA HeaderIsNext ==
  ASSUME IInv, recv_len >= HEAD_SIZE
  PROVE  /\ Taken + 1 \in 1..Len(frames)
         /\ Header = frames[Taken + 1]
         /\ frames[Taken + 1] \in Frame
         /\ frames[Taken + 1].first = removed
         /\ SizeOf(frames[Taken + 1]) \in Size
<1> DEFINE n == Taken + 1
<1>1. /\ frames \in Seq(Frame) /\ delivered \in Seq(Packet)
      /\ arrived \in Nat /\ removed \in Nat /\ arrived <= SentBytes
      /\ Len(frames) \in Nat /\ Taken \in Nat /\ Taken <= Len(frames)
      /\ removed = IF Taken = 0 THEN 0 ELSE frames[Taken].last
  BY DEF IInv, TypeOK, Framed, Taken
<1>2. Taken # Len(frames)
  <2>1. SUFFICES ASSUME Taken = Len(frames) PROVE FALSE
    OBVIOUS
  <2>2. removed = SentBytes
    BY <1>1, <2>1 DEF SentBytes
  <2>3. recv_len <= 0
    BY <1>1, <2>2 DEF recv_len, SentBytes
  <2>4. QED
    BY <1>1, <2>3, Sizes DEF recv_len
<1>3. n \in 1..Len(frames) /\ n \in Nat
  BY <1>1, <1>2
<1>4. frames[n] \in Frame
  BY <1>1, <1>3, ElementOfSeq
<1>5. frames[n].first = removed
  <2>1. frames[n].first = IF n = 1 THEN 0 ELSE frames[n - 1].last
    BY <1>3 DEF IInv, Framed
  <2>2. QED
    BY <1>1, <2>1
<1>6. SizeOf(frames[n]) \in Size
  BY <1>3 DEF IInv, Framed
<1>7. ASSUME NEW i \in 1..Len(frames), frames[i].first = removed
      PROVE  i = n
  <2>1. i \in Nat /\ frames[i] \in Frame /\ SizeOf(frames[i]) \in Size
    BY <1>1, ElementOfSeq DEF IInv, Framed
  <2>2. CASE i < n
    <3>1. i \in 1..(n - 1)
      BY <1>3, <2>1, <2>2
    <3>2. frames[i].last <= frames[n].first
      BY <1>3, <3>1 DEF IInv, Framed
    <3>3. QED
      BY <1>4, <1>5, <1>7, <2>1, <3>2, Sizes DEF Frame, SizeOf
  <2>3. CASE n < i
    <3>1. n \in 1..(i - 1)
      BY <1>3, <2>1, <2>3
    <3>2. frames[n].last <= frames[i].first
      BY <3>1 DEF IInv, Framed
    <3>3. QED
      BY <1>4, <1>5, <1>6, <1>7, <2>1, <3>2, Sizes DEF Frame, SizeOf
  <2>4. QED
    BY <1>3, <2>1, <2>2, <2>3
<1>8. Header = frames[n]
  <2>1. frames[n] \in {frames[i] : i \in 1..Len(frames)} /\ frames[n].first = removed
    BY <1>3, <1>5
  <2>2. \A f \in {frames[i] : i \in 1..Len(frames)} : f.first = removed => f = frames[n]
    BY <1>7
  <2>3. QED
    BY <2>1, <2>2 DEF Header
<1>9. QED
  BY <1>3, <1>4, <1>5, <1>6, <1>8

-----------------------------------------------------------------------------
(***************************************************************************)
(* The inductive invariant, action by action.                              *)
(***************************************************************************)
LEMMA InvInit == Init => IInv
<1> SUFFICES ASSUME Init PROVE IInv
  OBVIOUS
<1>1. TypeOK
  <2>1. /\ frames = <<>> /\ delivered = <<>> /\ reading = FALSE
        /\ arrived = 0 /\ removed = 0 /\ low = HEAD_SIZE
    BY DEF Init
  <2>2. SentBytes = 0
    BY <2>1 DEF SentBytes
  <2>3. frames \in Seq(Frame) /\ delivered \in Seq(Packet)
    BY <2>1
  <2>4. reading \in BOOLEAN
    BY <2>1
  <2>5. QED
    BY <2>1, <2>2, <2>3, <2>4, Sizes DEF TypeOK
<1>2. Taken = 0 /\ Len(frames) = 0
  BY DEF Init, Taken
<1>3. Framed
  BY <1>2 DEF Init, Framed
<1>4. ReadToTheEnd
  BY Sizes DEF Init, ReadToTheEnd, recv_len
<1>5. WatermarkOrigin
  BY <1>2, Sizes DEF Init, WatermarkOrigin, Stalled, CompleteAtFront
<1>6. QED
  BY <1>1, <1>3, <1>4, <1>5 DEF IInv

\* Facts about the variables that every step of the proof needs.
LEMMA Facts ==
  ASSUME IInv
  PROVE  /\ frames \in Seq(Frame) /\ delivered \in Seq(Packet)
         /\ arrived \in Nat /\ removed \in Nat /\ low \in Nat /\ reading \in BOOLEAN
         /\ removed <= arrived /\ arrived <= SentBytes /\ SentBytes \in Nat
         /\ Len(frames) \in Nat /\ Taken \in Nat /\ Taken <= Len(frames)
         /\ Len(frames) > 0 => SentBytes = frames[Len(frames)].last
         /\ \A i \in 1..Len(frames) :
              /\ frames[i] \in Frame /\ frames[i].first \in Nat /\ frames[i].last \in Nat
              /\ SizeOf(frames[i]) \in Size /\ frames[i].first < frames[i].last
         /\ low > 0
<1>1. /\ frames \in Seq(Frame) /\ delivered \in Seq(Packet)
      /\ arrived \in Nat /\ removed \in Nat /\ low \in Nat /\ reading \in BOOLEAN
      /\ removed <= arrived /\ arrived <= SentBytes
      /\ Len(frames) \in Nat /\ Taken \in Nat /\ Taken <= Len(frames)
  BY DEF IInv, TypeOK, Framed, Taken
<1>2. \A i \in 1..Len(frames) :
        /\ frames[i] \in Frame /\ frames[i].first \in Nat /\ frames[i].last \in Nat
        /\ SizeOf(frames[i]) \in Size /\ frames[i].first < frames[i].last
  <2>1. SUFFICES ASSUME NEW i \in 1..Len(frames)
                 PROVE  /\ frames[i] \in Frame /\ frames[i].first \in Nat /\ frames[i].last \in Nat
                        /\ SizeOf(frames[i]) \in Size /\ frames[i].first < frames[i].last
    OBVIOUS
  <2>2. SizeOf(frames[i]) \in Size
    BY DEF IInv, Framed
  <2>3. frames[i] \in Frame
    BY <1>1, ElementOfSeq
  <2>4. QED
    BY <2>2, <2>3, Sizes DEF Frame, SizeOf
<1>3. SentBytes \in Nat /\ (Len(frames) > 0 => SentBytes = frames[Len(frames)].last)
  BY <1>1, <1>2 DEF SentBytes
<1>4. low > 0
  BY <1>2, Sizes DEF IInv, WatermarkOrigin
<1>5. QED
  BY <1>1, <1>2, <1>3, <1>4

\* The same without the packets, for steps that only count.
LEMMA Numbers ==
  ASSUME IInv
  PROVE  /\ arrived \in Nat /\ removed \in Nat /\ low \in Nat /\ low > 0
         /\ removed <= arrived /\ arrived <= SentBytes /\ SentBytes \in Nat
         /\ Len(frames) \in Nat /\ Taken \in Nat /\ Taken <= Len(frames)
  BY Facts

\* The packet after those that were taken begins where the input buffer begins.
LEMMA NextFirst ==
  ASSUME IInv, Taken + 1 \in 1..Len(frames)
  PROVE  frames[Taken + 1].first = removed
<1>1. /\ Taken \in Nat /\ removed = IF Taken = 0 THEN 0 ELSE frames[Taken].last
      /\ frames[Taken + 1].first = IF Taken + 1 = 1 THEN 0 ELSE frames[(Taken + 1) - 1].last
  BY Facts DEF IInv, Framed
<1>2. (Taken + 1 = 1 <=> Taken = 0) /\ (Taken + 1) - 1 = Taken
  BY <1>1
<1>3. QED
  BY <1>1, <1>2

LEMMA SendStep ==
  ASSUME IInv, NEW id \in Id, NEW size \in Size, Send(id, size)
  PROVE  /\ IInv'
         /\ Len(frames') = Len(frames) + 1
         /\ \A i \in 1..Len(frames) : frames'[i] = frames[i]
         /\ frames'[Len(frames')].id = id /\ SizeOf(frames'[Len(frames')]) = size
<1> DEFINE f == [id |-> id, first |-> SentBytes, last |-> SentBytes + size]
<1>1. /\ frames' = Append(frames, f)
      /\ UNCHANGED <<arrived, removed, low, reading, delivered>>
  BY DEF Send
<1>2. /\ size \in Nat /\ size >= HEAD_SIZE /\ HEAD_SIZE > 0 /\ HEAD_SIZE \in Nat
      /\ f \in Frame /\ f.id = id /\ f.first = SentBytes /\ f.last = SentBytes + size
      /\ SizeOf(f) = size
  BY Facts, Sizes DEF Frame, SizeOf
<1> HIDE DEF f
<1>3. /\ frames' \in Seq(Frame)
      /\ Len(frames') = Len(frames) + 1
      /\ \A i \in 1..Len(frames) : frames'[i] = frames[i]
      /\ frames'[Len(frames) + 1] = f
  BY <1>1, <1>2, Facts, AppendProperties
<1>4. SentBytes' = SentBytes + size
  BY <1>2, <1>3, Facts DEF SentBytes
<1>5. TypeOK'
  BY <1>1, <1>2, <1>3, <1>4, Facts DEF TypeOK
<1>6. Taken' = Taken
  BY <1>1 DEF Taken
<1>7. Framed'
  <2>1. ASSUME NEW i \in 1..Len(frames')
        PROVE  /\ SizeOf(frames'[i]) \in Size
               /\ frames'[i].first = IF i = 1 THEN 0 ELSE frames'[i - 1].last
               /\ \A j \in 1..(i - 1) : frames'[j].last <= frames'[i].first
    <3>1. CASE i \in 1..Len(frames)
      <4>1. \A j \in 1..(i - 1) : j \in 1..Len(frames) /\ frames'[j] = frames[j]
        BY <1>3, <3>1, Facts
      <4>2. i # 1 => frames'[i - 1] = frames[i - 1]
        BY <3>1, <4>1, Facts
      <4>3. QED
        BY <1>3, <3>1, <4>1, <4>2 DEF IInv, Framed
    <3>2. CASE i = Len(frames) + 1
      <4>1. frames'[i] = f
        BY <1>3, <3>2
      <4>2. ASSUME NEW j \in 1..(i - 1)
            PROVE  frames'[j] = frames[j] /\ frames[j].last <= SentBytes
        <5>1. j \in 1..Len(frames)
          BY <3>2, Facts
        <5>2. CASE j = Len(frames)
          BY <1>3, <5>1, <5>2, Facts
        <5>3. CASE j < Len(frames)
          <6>1. Len(frames) \in 1..Len(frames) /\ j \in 1..(Len(frames) - 1)
            BY <5>1, <5>3, Facts
          <6>2. frames[j].last <= frames[Len(frames)].first
            BY <6>1 DEF IInv, Framed
          <6>3. /\ frames[Len(frames)].first <= frames[Len(frames)].last
                /\ frames[Len(frames)].first \in Nat /\ frames[Len(frames)].last \in Nat
            BY <6>1, Facts
          <6>4. frames'[j] = frames[j] /\ frames[j].last \in Nat
            BY <1>3, <5>1, Facts
          <6>5. SentBytes = frames[Len(frames)].last
            BY <6>1, Facts
          <6>6. QED
            BY <6>2, <6>3, <6>4, <6>5
        <5>4. QED
          BY <5>1, <5>2, <5>3, Facts
      <4>3. frames'[i].first = IF i = 1 THEN 0 ELSE frames'[i - 1].last
        <5>1. CASE i = 1
          BY <1>2, <3>2, <4>1, <5>1, Facts DEF SentBytes
        <5>2. CASE i # 1
          <6>1. i - 1 = Len(frames) /\ Len(frames) \in 1..Len(frames)
            BY <3>2, <5>2, Facts
          <6>2. frames'[i - 1] = frames[Len(frames)] /\ SentBytes = frames[Len(frames)].last
            BY <1>3, <6>1, Facts
          <6>3. QED
            BY <1>2, <4>1, <5>2, <6>2
        <5>3. QED
          BY <5>1, <5>2
      <4>4. QED
        BY <1>2, <4>1, <4>2, <4>3
    <3>3. QED
      BY <1>3, <3>1, <3>2, Facts
  <2>2. \A i \in 1..Taken : frames'[i] = frames[i]
    BY <1>3, Facts
  <2>3. removed' = IF Taken' = 0 THEN 0 ELSE frames'[Taken'].last
    BY <1>1, <1>6, <2>2, Facts DEF IInv, Framed
  <2>4. Taken' <= Len(frames')
    BY <1>3, <1>6, Facts
  <2>5. \A i \in 1..Taken' :
          delivered'[i] = [id |-> frames'[i].id, size |-> SizeOf(frames'[i])]
    BY <1>1, <1>6, <2>2 DEF IInv, Framed
  <2>6. QED
    BY <2>1, <2>3, <2>4, <2>5 DEF Framed
<1>8. CompleteAtFront => CompleteAtFront' /\ frames'[Taken' + 1] = frames[Taken + 1]
  BY <1>1, <1>3, <1>6, Facts DEF CompleteAtFront
<1>9. ReadToTheEnd'
  BY <1>1, <1>8 DEF IInv, ReadToTheEnd, Blocked, recv_len
<1>10. WatermarkOrigin'
  <2>1. \/ low = HEAD_SIZE
        \/ \E i \in 1..Len(frames') : i <= Taken' + 1 /\ low = SizeOf(frames'[i])
    BY <1>3, <1>6, Facts DEF IInv, WatermarkOrigin
  <2>2. Stalled' => \E i \in 1..Taken' : low' = SizeOf(frames'[i]) /\ low' > recv_len'
    <3>1. SUFFICES ASSUME Stalled'
                   PROVE  \E i \in 1..Taken' : low' = SizeOf(frames'[i]) /\ low' > recv_len'
      OBVIOUS
    <3>2. /\ Taken < Len(frames') /\ frames'[Taken + 1].last <= arrived
          /\ recv_len' = recv_len /\ recv_len < low /\ ~reading
      BY <1>1, <1>6, <3>1 DEF Stalled, CompleteAtFront, recv_len
    <3>3. Taken # Len(frames)
      BY <1>2, <1>3, <3>2, Numbers
    <3>4. Stalled
      BY <1>3, <3>2, <3>3, Numbers DEF Stalled, CompleteAtFront
    <3>5. PICK i \in 1..Taken : low = SizeOf(frames[i]) /\ low > recv_len
      BY <3>4 DEF IInv, WatermarkOrigin
    <3>6. i \in 1..Len(frames)
      BY Facts
    <3>7. QED
      BY <1>1, <1>3, <1>6, <3>2, <3>5, <3>6
  <2>3. QED
    BY <1>1, <2>1, <2>2 DEF WatermarkOrigin
<1>11. QED
  BY <1>2, <1>3, <1>5, <1>7, <1>9, <1>10 DEF IInv

\* Steps of the receiver that take no packet: the stream and what was delivered
\* stay, and the buffer only grows.
LEMMA WaitStep ==
  ASSUME IInv, frames' = frames, removed' = removed, delivered' = delivered,
         arrived' \in Nat, arrived <= arrived', arrived' <= SentBytes,
         reading' \in BOOLEAN,
         \/ low' = low
         \/ low' = HEAD_SIZE
         \/ Taken < Len(frames) /\ low' = SizeOf(frames[Taken + 1]),
         ReadToTheEnd'
  PROVE  IInv'
<1>1. Taken' = Taken /\ SentBytes' = SentBytes
  BY DEF Taken, SentBytes
<1>2. low' \in Nat
  <2>1. Taken < Len(frames) => SizeOf(frames[Taken + 1]) \in Nat
    BY Facts, Sizes
  <2>2. QED
    BY <2>1, Facts, Sizes
<1>3. TypeOK'
  BY <1>1, <1>2, Facts DEF TypeOK
<1>4. Framed'
  BY <1>1 DEF IInv, Framed
<1>5. \/ low' = HEAD_SIZE
      \/ \E i \in 1..Len(frames) : i <= Taken + 1 /\ low' = SizeOf(frames[i])
  <2>1. CASE Taken < Len(frames) /\ low' = SizeOf(frames[Taken + 1])
    <3>1. Taken + 1 \in 1..Len(frames)
      BY <2>1, Facts
    <3>2. QED
      BY <2>1, <3>1, Numbers
  <2>2. CASE low' = low \/ low' = HEAD_SIZE
    BY <2>2 DEF IInv, WatermarkOrigin
  <2>3. QED
    BY <2>1, <2>2
<1>6. Stalled' => \E i \in 1..Taken : low' = SizeOf(frames[i]) /\ low' > recv_len'
  <2>1. SUFFICES ASSUME Stalled'
                 PROVE  \E i \in 1..Taken : low' = SizeOf(frames[i]) /\ low' > recv_len'
    OBVIOUS
  <2>2. /\ Taken + 1 \in 1..Len(frames) /\ frames[Taken + 1].last <= arrived'
        /\ recv_len' < low' /\ recv_len' = arrived' - removed
    BY <1>1, <2>1, Facts DEF Stalled, CompleteAtFront, recv_len
  <2>3. frames[Taken + 1].first = removed
    BY <2>2, NextFirst
  <2>4. SizeOf(frames[Taken + 1]) <= recv_len'
    BY <2>2, <2>3, Facts DEF SizeOf
  <2>5. SizeOf(frames[Taken + 1]) >= HEAD_SIZE /\ SizeOf(frames[Taken + 1]) \in Nat
    BY <2>2, Facts, Sizes
  <2>6. low' # HEAD_SIZE /\ low' # SizeOf(frames[Taken + 1])
    BY <1>2, <2>2, <2>4, <2>5, Numbers, Sizes
  <2>7. PICK i \in 1..Len(frames) : i <= Taken + 1 /\ low' = SizeOf(frames[i])
    BY <1>5, <2>6
  <2>8. i \in 1..Taken
    BY <2>6, <2>7, Facts
  <2>9. QED
    BY <1>2, <2>2, <2>7, <2>8, Facts
<1>7. WatermarkOrigin'
  BY <1>1, <1>5, <1>6 DEF WatermarkOrigin
<1>8. QED
  BY <1>3, <1>4, <1>7 DEF IInv

LEMMA ReceiveStep ==
  ASSUME IInv, NEW n \in Nat, Receive(n)
  PROVE  IInv'
<1>1. /\ ~reading /\ arrived + n <= SentBytes /\ arrived' = arrived + n
      /\ frames' = frames /\ removed' = removed /\ low' = low /\ delivered' = delivered
  BY DEF Receive
<1>2. reading' \in BOOLEAN /\ (reading' <=> recv_len + n >= low)
  <2>1. reading' = (recv_len + n >= low)
    BY DEF Receive
  <2>2. recv_len + n \in Int /\ low \in Int
    BY Facts DEF recv_len
  <2>3. reading' \in BOOLEAN
    BY <2>1, <2>2
  <2>4. reading' <=> recv_len + n >= low
    BY <2>1, Zenon
  <2>5. QED
    BY <2>3, <2>4, Zenon
<1>3. arrived' \in Nat /\ arrived <= arrived' /\ arrived' <= SentBytes
  BY <1>1, Facts
<1>4. recv_len' = recv_len + n /\ recv_len \in Nat
  BY <1>1, Facts DEF recv_len
<1>5. ~reading' => recv_len' < low'
  BY <1>1, <1>2, <1>4, Facts
<1>6. ReadToTheEnd'
  BY <1>5 DEF ReadToTheEnd
<1>7. QED
  BY <1>1, <1>2, <1>3, <1>6, WaitStep

LEMMA WaitForHeaderStep == ASSUME IInv, WaitForHeader PROVE IInv'
<1>1. /\ recv_len < HEAD_SIZE /\ low' = HEAD_SIZE
      /\ frames' = frames /\ arrived' = arrived /\ removed' = removed /\ delivered' = delivered
  BY DEF WaitForHeader
<1>2. reading' \in BOOLEAN
  BY Zenon DEF WaitForHeader
<1>3. recv_len' < low'
  BY <1>1 DEF recv_len
<1>4. ReadToTheEnd' /\ arrived' \in Nat /\ arrived <= arrived' /\ arrived' <= SentBytes
  BY <1>1, <1>3, Facts DEF ReadToTheEnd
<1>5. QED
  BY <1>1, <1>2, <1>4, WaitStep

LEMMA WaitForBodyStep == ASSUME IInv, WaitForBody PROVE IInv'
<1>1. /\ recv_len >= HEAD_SIZE /\ recv_len < pkg_size /\ low' = pkg_size
      /\ frames' = frames /\ arrived' = arrived /\ removed' = removed /\ delivered' = delivered
  BY DEF WaitForBody
<1>2. reading' \in BOOLEAN
  BY Zenon DEF WaitForBody
<1>3. Taken < Len(frames) /\ low' = SizeOf(frames[Taken + 1])
  BY <1>1, HeaderIsNext, Facts DEF pkg_size
<1>4. recv_len' < low'
  BY <1>1 DEF recv_len
<1>5. ReadToTheEnd' /\ arrived' \in Nat /\ arrived <= arrived' /\ arrived' <= SentBytes
  BY <1>1, <1>4, Facts DEF ReadToTheEnd
<1>6. QED
  BY <1>1, <1>2, <1>3, <1>5, WaitStep

LEMMA OversizeStep == ASSUME IInv, Oversize PROVE IInv'
<1>1. /\ recv_len >= HEAD_SIZE /\ recv_len >= pkg_size /\ pkg_size > PKG_MAX_SIZE
      /\ frames' = frames /\ arrived' = arrived /\ removed' = removed
      /\ low' = low /\ delivered' = delivered
  BY DEF Oversize
<1>2. reading' \in BOOLEAN
  BY Zenon DEF Oversize
<1>3. /\ Taken + 1 \in 1..Len(frames) /\ pkg_size = SizeOf(frames[Taken + 1])
      /\ frames[Taken + 1].first = removed
  BY <1>1, HeaderIsNext DEF pkg_size
<1>4. frames[Taken + 1].last <= arrived
  <2>1. frames[Taken + 1].first \in Nat /\ frames[Taken + 1].last \in Nat
    BY <1>3, Facts
  <2>2. frames[Taken + 1].last - removed <= arrived - removed
    BY <1>1, <1>3 DEF SizeOf, recv_len
  <2>3. QED
    BY <2>1, <2>2, Numbers
<1>5. Taken < Len(frames)
  BY <1>3, Numbers
<1>6. Blocked
  BY <1>1, <1>3, <1>4, <1>5 DEF Blocked, CompleteAtFront
<1>7. Blocked'
  BY <1>1, <1>6 DEF Blocked, CompleteAtFront, Taken
<1>8. ReadToTheEnd' /\ arrived' \in Nat /\ arrived <= arrived' /\ arrived' <= SentBytes
  BY <1>1, <1>7, Numbers DEF ReadToTheEnd
<1>9. QED
  BY <1>1, <1>2, <1>8, WaitStep

LEMMA TakePacketStep ==
  ASSUME IInv, TakePacket
  PROVE  /\ IInv' /\ UNCHANGED frames
         /\ Taken + 1 \in 1..Len(frames)
         /\ delivered' = Append(delivered, [id |-> frames[Taken + 1].id,
                                            size |-> SizeOf(frames[Taken + 1])])
<1> DEFINE n == Taken + 1
           p == [id |-> frames[n].id, size |-> SizeOf(frames[n])]
<1>1. /\ n \in 1..Len(frames) /\ Header = frames[n] /\ pkg_size = SizeOf(frames[n])
      /\ frames[n].first = removed /\ frames[n] \in Frame /\ SizeOf(frames[n]) \in Size
  BY HeaderIsNext DEF TakePacket, pkg_size
<1>2. /\ removed' = removed + pkg_size
      /\ delivered' = Append(delivered, p)
      /\ recv_len >= pkg_size
      /\ frames' = frames /\ arrived' = arrived /\ low' = low
  BY <1>1 DEF TakePacket
<1>11. reading' \in BOOLEAN /\ (reading' <=> recv_len > pkg_size)
  <2>1. reading' = (recv_len > pkg_size)
    BY DEF TakePacket
  <2>2. recv_len \in Int /\ pkg_size \in Int
    BY <1>1, Sizes, Facts DEF recv_len
  <2>3. reading' \in BOOLEAN
    BY <2>1, <2>2
  <2>4. reading' <=> recv_len > pkg_size
    BY <2>1, Zenon
  <2>5. QED
    BY <2>3, <2>4, Zenon
<1>3. removed' = frames[n].last
  <2>1. frames[n].first \in Nat /\ frames[n].last \in Nat
    BY <1>1 DEF Frame
  <2>2. pkg_size = frames[n].last - frames[n].first
    BY <1>1 DEF SizeOf
  <2>3. QED
    BY <1>1, <1>2, <2>1, <2>2
<1>4. p \in Packet
  BY <1>1 DEF Frame, Packet
<1> HIDE DEF p
<1>5. /\ delivered' \in Seq(Packet) /\ Taken' = n
      /\ \A i \in 1..Taken : delivered'[i] = delivered[i]
      /\ delivered'[n] = p
  <2>1. delivered \in Seq(Packet) /\ Taken = Len(delivered) /\ Taken' = Len(delivered')
    BY Facts DEF Taken
  <2>2. QED
    BY <1>2, <1>4, <2>1, AppendProperties
<1>6. removed' <= arrived' /\ removed' \in Nat
  <2>1. pkg_size \in Nat
    BY <1>1, Sizes
  <2>2. QED
    BY <1>2, <2>1, Numbers DEF recv_len
<1>7. TypeOK'
  <2>1. SentBytes' = SentBytes
    BY <1>2 DEF SentBytes
  <2>2. QED
    BY <1>2, <1>5, <1>6, <1>11, <2>1, Facts DEF TypeOK
<1>8. Framed'
  <2>1. \A i \in 1..Len(frames') :
          /\ SizeOf(frames'[i]) \in Size
          /\ frames'[i].first = IF i = 1 THEN 0 ELSE frames'[i - 1].last
          /\ \A j \in 1..(i - 1) : frames'[j].last <= frames'[i].first
    BY <1>2 DEF IInv, Framed
  <2>2. Taken' <= Len(frames') /\ removed' = IF Taken' = 0 THEN 0 ELSE frames'[Taken'].last
    BY <1>1, <1>2, <1>3, <1>5, Facts
  <2>3. ASSUME NEW i \in 1..Taken'
        PROVE  delivered'[i] = [id |-> frames'[i].id, size |-> SizeOf(frames'[i])]
    <3>1. CASE i = n
      BY <1>2, <1>5, <3>1 DEF p
    <3>2. CASE i # n
      <4>1. i \in 1..Taken
        BY <1>5, <3>2, Facts
      <4>2. QED
        BY <1>2, <1>5, <4>1 DEF IInv, Framed
    <3>3. QED
      BY <3>1, <3>2
  <2>4. QED
    BY <2>1, <2>2, <2>3 DEF Framed
<1>12. ~reading' => recv_len' = 0
  <2>1. pkg_size \in Nat
    BY <1>1, Sizes
  <2>2. recv_len' = recv_len - pkg_size /\ recv_len \in Nat
    BY <1>2, <2>1, Numbers DEF recv_len
  <2>3. QED
    BY <1>2, <1>11, <2>1, <2>2
<1>9. ReadToTheEnd'
  <2>1. SUFFICES ASSUME ~reading' PROVE recv_len' < low'
    BY DEF ReadToTheEnd
  <2>2. recv_len' = 0
    BY <1>12, <2>1
  <2>3. QED
    BY <1>2, <2>2, Facts
<1>10. WatermarkOrigin'
  <2>1. \/ low = HEAD_SIZE
        \/ \E i \in 1..Len(frames) : i <= n /\ low = SizeOf(frames[i])
    BY DEF IInv, WatermarkOrigin
  <2>2. ~Stalled'
    <3>1. SUFFICES ASSUME Stalled' PROVE FALSE
      OBVIOUS
    <3>2. recv_len' = 0
      BY <1>12, <3>1 DEF Stalled
    <3>3. Taken' + 1 \in 1..Len(frames') /\ frames'[Taken' + 1].last <= arrived'
      BY <1>2, <1>5, <3>1, Numbers DEF Stalled, CompleteAtFront
    <3>4. frames'[Taken' + 1].first = removed'
      <4>1. Taken' + 1 = n + 1 /\ n + 1 \in 1..Len(frames) /\ n + 1 # 1 /\ (n + 1) - 1 = n
        BY <1>2, <1>5, <3>3, Numbers
      <4>2. frames[n + 1].first = frames[(n + 1) - 1].last
        BY <4>1 DEF IInv, Framed
      <4>3. QED
        BY <1>2, <1>3, <4>1, <4>2
    <3>5. frames'[Taken' + 1].first < frames'[Taken' + 1].last
          /\ frames'[Taken' + 1].last \in Nat
      BY <1>2, <3>3, Facts
    <3>6. arrived' = removed'
      BY <1>2, <1>6, <3>2, Numbers DEF recv_len
    <3>7. QED
      BY <1>6, <3>3, <3>4, <3>5, <3>6
  <2>3. \/ low' = HEAD_SIZE
        \/ \E i \in 1..Len(frames') : i <= Taken' + 1 /\ low' = SizeOf(frames'[i])
    BY <1>1, <1>2, <1>5, <2>1, Facts
  <2>4. QED
    BY <2>2, <2>3 DEF WatermarkOrigin
<1>13. QED
  BY <1>1, <1>2, <1>7, <1>8, <1>9, <1>10 DEF IInv, p

LEMMA InvStep == IInv /\ [Next]_vars => IInv'
<1> SUFFICES ASSUME IInv, [Next]_vars PROVE IInv'
  OBVIOUS
<1>1. ASSUME NEW id \in Id, NEW size \in Size, Send(id, size) PROVE IInv'
  BY <1>1, SendStep
<1>2. ASSUME NEW n \in 1..(SentBytes - arrived), Receive(n) PROVE IInv'
  BY <1>2, ReceiveStep, Facts
<1>3. CASE WaitForHeader
  BY <1>3, WaitForHeaderStep
<1>4. CASE WaitForBody
  BY <1>4, WaitForBodyStep
<1>5. CASE Oversize
  BY <1>5, OversizeStep
<1>6. CASE TakePacket
  BY <1>6, TakePacketStep
<1>7. CASE UNCHANGED vars
  BY <1>7 DEF vars, IInv, TypeOK, Framed, ReadToTheEnd, WatermarkOrigin, Stalled, Blocked,
              CompleteAtFront, Taken, SentBytes, recv_len
<1>8. QED
  BY <1>1, <1>2, <1>3, <1>4, <1>5, <1>6, <1>7 DEF Next, conn_readcb

-----------------------------------------------------------------------------
(***************************************************************************)
(* A step of the stream is a step of the channel, or none.                 *)
(***************************************************************************)
Sent == [i \in 1..Len(frames) |-> [id |-> frames[i].id, size |-> SizeOf(frames[i])]]

LEMMA SentFacts ==
  ASSUME IInv
  PROVE  /\ Sent \in Seq(Packet) /\ Len(Sent) = Len(frames)
         /\ \A i \in 1..Len(frames) :
              Sent[i] = [id |-> frames[i].id, size |-> SizeOf(frames[i])]
<1>1. ASSUME NEW i \in 1..Len(frames)
      PROVE  [id |-> frames[i].id, size |-> SizeOf(frames[i])] \in Packet
  BY Facts DEF Frame, Packet
<1>2. Sent \in [1..Len(frames) -> Packet]
  BY <1>1 DEF Sent
<1>3. QED
  BY <1>2, Numbers DEF Sent

LEMMA ChannelSend ==
  ASSUME IInv, NEW id \in Id, NEW size \in Size, Send(id, size)
  PROVE  Channel!Send
<1> DEFINE p == [id |-> id, size |-> size]
<1>1. p \in Packet /\ delivered' = delivered
  BY DEF Packet, Send
<1>2. /\ Len(frames') = Len(frames) + 1 /\ Len(frames) \in Nat
      /\ \A i \in 1..Len(frames) : frames'[i] = frames[i]
      /\ frames'[Len(frames) + 1].id = id /\ SizeOf(frames'[Len(frames) + 1]) = size
  BY SendStep, Facts
<1>3. Sent' = [i \in 1..(Len(frames) + 1) |->
                 [id |-> frames'[i].id, size |-> SizeOf(frames'[i])]]
  BY <1>2 DEF Sent, SizeOf
<1>4. Sent' = [i \in 1..(Len(Sent) + 1) |-> IF i = Len(Sent) + 1 THEN p ELSE Sent[i]]
  <2>1. ASSUME NEW i \in 1..(Len(frames) + 1)
        PROVE  [id |-> frames'[i].id, size |-> SizeOf(frames'[i])]
                 = IF i = Len(frames) + 1 THEN p ELSE Sent[i]
    <3>1. CASE i = Len(frames) + 1
      BY <1>2, <3>1
    <3>2. CASE i # Len(frames) + 1
      <4>1. i \in 1..Len(frames)
        BY <1>2, <3>2
      <4>2. QED
        BY <1>2, <3>2, <4>1, SentFacts DEF SizeOf
    <3>3. QED
      BY <3>1, <3>2
  <2>2. QED
    BY <1>3, <2>1, SentFacts
<1>5. Append(Sent, p) = [i \in 1..(Len(Sent) + 1) |-> IF i = Len(Sent) + 1 THEN p ELSE Sent[i]]
  <2>1. /\ Append(Sent, p) \in Seq(Packet) /\ Len(Append(Sent, p)) = Len(Sent) + 1
        /\ \A i \in 1..Len(Sent) : Append(Sent, p)[i] = Sent[i]
        /\ Append(Sent, p)[Len(Sent) + 1] = p
    BY <1>1, SentFacts, AppendProperties
  <2>2. QED
    BY <1>1, SentFacts
<1>6. Sent' = Append(Sent, p)
  BY <1>4, <1>5
<1>7. QED
  BY <1>1, <1>6 DEF Channel!Send, Sent

LEMMA ChannelReceive ==
  ASSUME IInv, TakePacket
  PROVE  Channel!Receive
<1>1. /\ frames' = frames /\ Taken + 1 \in 1..Len(frames)
      /\ delivered' = Append(delivered, [id |-> frames[Taken + 1].id,
                                         size |-> SizeOf(frames[Taken + 1])])
  BY TakePacketStep
<1>2. Sent[Taken + 1] = [id |-> frames[Taken + 1].id, size |-> SizeOf(frames[Taken + 1])]
  BY <1>1, SentFacts
<1>3. /\ Len(delivered) < Len(Sent)
      /\ delivered' = Append(delivered, Sent[Len(delivered) + 1])
      /\ Sent' = Sent
  BY <1>1, <1>2, SentFacts, Facts DEF Taken, Sent
<1>4. QED
  BY <1>3 DEF Channel!Receive, Sent

LEMMA ChannelStep ==
  ASSUME IInv, [Next]_vars
  PROVE  [Channel!Next]_<<Sent, delivered>>
<1>1. ASSUME NEW id \in Id, NEW size \in Size, Send(id, size)
      PROVE  Channel!Next
  BY <1>1, ChannelSend DEF Channel!Next
<1>2. CASE TakePacket
  BY <1>2, ChannelReceive DEF Channel!Next
<1>3. ASSUME frames' = frames, delivered' = delivered
      PROVE  UNCHANGED <<Sent, delivered>>
  BY <1>3 DEF Sent
<1>4. ASSUME NEW n \in 1..(SentBytes - arrived), Receive(n)
      PROVE  UNCHANGED <<Sent, delivered>>
  BY <1>3, <1>4 DEF Receive
<1>5. CASE WaitForHeader \/ WaitForBody \/ Oversize
  BY <1>3, <1>5 DEF WaitForHeader, WaitForBody, Oversize
<1>6. CASE UNCHANGED vars
  BY <1>3, <1>6 DEF vars
<1>7. QED
  BY <1>1, <1>2, <1>4, <1>5, <1>6 DEF Next, conn_readcb

-----------------------------------------------------------------------------
LEMMA Inductive == Spec => []IInv
  BY InvInit, InvStep, PTL DEF Spec

\* Every variable of a stream keeps its type, and the receiver never removes more
\* than has arrived.
THEOREM StreamTypeCorrect == Spec => []TypeOK
<1>1. IInv => TypeOK
  BY DEF IInv
<1>2. QED
  BY <1>1, Inductive, PTL

\* Whatever the segmentation, packets are taken whole, in order, from a header
\* that really is one.
THEOREM StreamFramed == Spec => []Framed
<1>1. IInv => Framed
  BY DEF IInv
<1>2. QED
  BY <1>1, Inductive, PTL

\* conn_readcb leaves nothing it could take, but for what is under the watermark.
THEOREM StreamReadToTheEnd == Spec => []ReadToTheEnd
<1>1. IInv => ReadToTheEnd
  BY DEF IInv
<1>2. QED
  BY <1>1, Inductive, PTL

\* A complete packet waits only behind the watermark of an earlier, longer one.
THEOREM StreamWatermark == Spec => []WatermarkOrigin
<1>1. IInv => WatermarkOrigin
  BY DEF IInv
<1>2. QED
  BY <1>1, Inductive, PTL

\* For every segmentation, header size, set of sizes and limit, what the callback
\* is given is what was sent: each packet once, whole and in order.
THEOREM StreamImplementsChannel == Spec => ImplementsChannel
<1>1. Init => Channel!Init
  BY DEF Init, Channel!Init
<1>2. IInv /\ [Next]_vars => [Channel!Next]_<<Sent, delivered>>
  BY ChannelStep
<1>3. QED
  BY <1>1, <1>2, Inductive, PTL DEF Spec, ImplementsChannel, Channel!Spec, Sent

\* With an oversized packet at the front no receiver step removes anything.
LEMMA BlockedStep == ASSUME IInv, [Next]_vars, Blocked PROVE Blocked' /\ delivered' = delivered
<1>1. /\ Taken + 1 \in 1..Len(frames) /\ Taken < Len(frames)
      /\ frames[Taken + 1].last <= arrived
      /\ SizeOf(frames[Taken + 1]) > PKG_MAX_SIZE
  BY Facts DEF Blocked, CompleteAtFront
<1>2. ASSUME frames' = frames, delivered' = delivered, arrived' = arrived
      PROVE  Blocked' /\ delivered' = delivered
  BY <1>1, <1>2 DEF Blocked, CompleteAtFront, Taken
<1>3. ASSUME NEW id \in Id, NEW size \in Size, Send(id, size)
      PROVE  Blocked' /\ delivered' = delivered
  <2>1. delivered' = delivered /\ arrived' = arrived
    BY <1>3 DEF Send
  <2>2. Len(frames') = Len(frames) + 1 /\ frames'[Taken + 1] = frames[Taken + 1]
    BY <1>1, <1>3, SendStep
  <2>3. QED
    BY <1>1, <2>1, <2>2, Facts DEF Blocked, CompleteAtFront, Taken, SizeOf
<1>4. ASSUME NEW n \in 1..(SentBytes - arrived), Receive(n)
      PROVE  Blocked' /\ delivered' = delivered
  <2>1. frames' = frames /\ delivered' = delivered /\ arrived' = arrived + n
    BY <1>4 DEF Receive
  <2>2. frames[Taken + 1].last \in Nat
    BY <1>1, Facts
  <2>3. n \in Nat
    BY Numbers
  <2>4. frames[Taken + 1].last <= arrived'
    BY <1>1, <2>1, <2>2, <2>3, Numbers
  <2>5. QED
    BY <1>1, <2>1, <2>4 DEF Blocked, CompleteAtFront, Taken
<1>5. CASE WaitForHeader \/ WaitForBody \/ Oversize
  BY <1>2, <1>5 DEF WaitForHeader, WaitForBody, Oversize
<1>6. CASE UNCHANGED vars
  BY <1>2, <1>6 DEF vars
<1>7. ~TakePacket
  <2>1. SUFFICES ASSUME TakePacket PROVE FALSE
    OBVIOUS
  <2>2. recv_len >= HEAD_SIZE /\ pkg_size <= PKG_MAX_SIZE
    BY <2>1 DEF TakePacket
  <2>3. pkg_size = SizeOf(frames[Taken + 1]) /\ pkg_size \in Nat
    BY <2>2, HeaderIsNext, Sizes DEF pkg_size
  <2>4. QED
    BY <1>1, <2>2, <2>3, Sizes
<1>8. QED
  BY <1>3, <1>4, <1>5, <1>6, <1>7 DEF Next, conn_readcb

\* Once an oversized packet is at the front of the buffer, nothing is delivered
\* on this connection any more.
THEOREM StreamBlockedForever == Spec => BlockedForever
<1>1. IInv /\ [Next]_vars => [Blocked => Blocked' /\ delivered' = delivered]_vars
  BY BlockedStep
<1>2. QED
  BY <1>1, Inductive, PTL DEF Spec, BlockedForever
=============================================================================
