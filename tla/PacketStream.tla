----------------------------- MODULE PacketStream -----------------------------
(***************************************************************************)
(* One direction of a TCP connection between two TcpConnection objects:    *)
(* server/engine/network/TcpConnection.cpp, the three overloads of Send on *)
(* one side and conn_readcb on the other.                                  *)
(*                                                                         *)
(* A packet is a header of HEAD_SIZE bytes, which holds the id and the     *)
(* size of the whole packet, and a body.  The bytes of the stream are      *)
(* numbered from 1: the packet [id, first, last] is the bytes first + 1 to *)
(* last.  TCP hands them over in segments of any length, libevent appends  *)
(* a segment to the input buffer and calls conn_readcb when the buffer     *)
(* holds at least as many bytes as the low watermark.  conn_readcb takes   *)
(* one packet and calls itself for the next: one level of that recursion   *)
(* is one action.                                                          *)
(***************************************************************************)
EXTENDS Integers, Sequences

CONSTANTS
  HEAD_SIZE,     \* 7 in the code
  PKG_MAX_SIZE,  \* 1024 in the code
  Id,            \* protocol ids
  Size,          \* sizes of whole packets, as Send computes them
  MaxPackets     \* bound: packets sent

ASSUME StreamAssumption ==
  /\ HEAD_SIZE \in Nat \ {0}
  /\ PKG_MAX_SIZE \in Nat
  /\ Size \subseteq Nat
  /\ \A size \in Size : size >= HEAD_SIZE
  /\ MaxPackets \in Nat

VARIABLES
  frames,     \* the packets Send has written to the stream
  arrived,    \* how many bytes the receiver has read from its socket
  removed,    \* how many of them evbuffer_remove has taken from the input buffer
  low,        \* the low watermark for reading
  reading,    \* conn_readcb is to look at the input buffer (again)
  delivered   \* history: what cb_recv_ was called with

vars == <<frames, arrived, removed, low, reading, delivered>>

Frame == [id : Id, first : Nat, last : Nat]
Packet == [id : Id, size : Size]

SizeOf(f) == f.last - f.first
SentBytes == IF frames = <<>> THEN 0 ELSE frames[Len(frames)].last

\* The length of the input buffer.
recv_len == arrived - removed

\* The packet whose header is at the front of the input buffer.
Header == CHOOSE f \in {frames[i] : i \in 1..Len(frames)} : f.first = removed
pkg_size == SizeOf(Header)
-----------------------------------------------------------------------------
Init ==
  /\ frames = <<>>
  /\ arrived = 0
  /\ removed = 0
  /\ low = HEAD_SIZE
  /\ reading = FALSE
  /\ delivered = <<>>

\* Send, for a session that is bound: header and body go to the output buffer.
Send(id, size) ==
  /\ Len(frames) < MaxPackets
  /\ frames' = Append(frames, [id |-> id, first |-> SentBytes, last |-> SentBytes + size])
  /\ UNCHANGED <<arrived, removed, low, reading, delivered>>

\* libevent reads a segment from the socket and applies the low watermark.
Receive(n) ==
  /\ ~reading
  /\ arrived + n <= SentBytes
  /\ arrived' = arrived + n
  /\ reading' = (recv_len + n >= low)
  /\ UNCHANGED <<frames, removed, low, delivered>>

-----------------------------------------------------------------------------
(***************************************************************************)
(* One level of conn_readcb.                                               *)
(***************************************************************************)

WaitForHeader ==
  /\ reading
  /\ recv_len < HEAD_SIZE
  /\ low' = HEAD_SIZE
  /\ reading' = FALSE
  /\ UNCHANGED <<frames, arrived, removed, delivered>>

\* Mutant: the watermark asks for the header and the whole packet after it.
WaitForBody_TooMuch ==
  /\ reading
  /\ recv_len >= HEAD_SIZE
  /\ recv_len < pkg_size
  /\ low' = HEAD_SIZE + pkg_size
  /\ reading' = FALSE
  /\ UNCHANGED <<frames, arrived, removed, delivered>>

WaitForBody ==
  /\ reading
  /\ recv_len >= HEAD_SIZE
  /\ recv_len < pkg_size
  /\ low' = pkg_size
  /\ reading' = FALSE
  /\ UNCHANGED <<frames, arrived, removed, delivered>>

\* The packet is complete and too big: the code returns and leaves it there.
Oversize ==
  /\ reading
  /\ recv_len >= HEAD_SIZE
  /\ recv_len >= pkg_size
  /\ pkg_size > PKG_MAX_SIZE
  /\ reading' = FALSE
  /\ UNCHANGED <<frames, arrived, removed, low, delivered>>

\* Mutant: the packet is taken before all of it has arrived.
TakePacket_Early ==
  /\ reading
  /\ recv_len >= HEAD_SIZE
  /\ pkg_size <= PKG_MAX_SIZE
  /\ removed' = removed + pkg_size
  /\ delivered' = Append(delivered, [id |-> Header.id, size |-> pkg_size])
  /\ reading' = (recv_len > pkg_size)
  /\ UNCHANGED <<frames, arrived, low>>

\* Mutant: only the body's length is taken from the buffer.
TakePacket_BodyOnly ==
  /\ reading
  /\ recv_len >= HEAD_SIZE
  /\ recv_len >= pkg_size
  /\ pkg_size <= PKG_MAX_SIZE
  /\ removed' = removed + (pkg_size - HEAD_SIZE)
  /\ delivered' = Append(delivered, [id |-> Header.id, size |-> pkg_size])
  /\ reading' = (arrived - removed' > 0)
  /\ UNCHANGED <<frames, arrived, low>>

\* Mutant: the next packet is left for the next call by libevent.
TakePacket_One ==
  /\ reading
  /\ recv_len >= HEAD_SIZE
  /\ recv_len >= pkg_size
  /\ pkg_size <= PKG_MAX_SIZE
  /\ removed' = removed + pkg_size
  /\ delivered' = Append(delivered, [id |-> Header.id, size |-> pkg_size])
  /\ reading' = FALSE
  /\ UNCHANGED <<frames, arrived, low>>

\* The packet goes to cb_recv_; with bytes left in the buffer, conn_readcb recurs.
TakePacket ==
  /\ reading
  /\ recv_len >= HEAD_SIZE
  /\ recv_len >= pkg_size
  /\ pkg_size <= PKG_MAX_SIZE
  /\ removed' = removed + pkg_size
  /\ delivered' = Append(delivered, [id |-> Header.id, size |-> pkg_size])
  /\ reading' = (recv_len > pkg_size)
  /\ UNCHANGED <<frames, arrived, low>>

conn_readcb == WaitForHeader \/ WaitForBody \/ Oversize \/ TakePacket

Next ==
  \/ \E id \in Id, size \in Size : Send(id, size)
  \/ \E n \in 1..(SentBytes - arrived) : Receive(n)
  \/ conn_readcb

Spec == Init /\ [][Next]_vars

(***************************************************************************)
(* The network delivers what was sent and the event loop runs.  Nothing    *)
(* makes anybody send.                                                     *)
(***************************************************************************)
FairSpec ==
  /\ Spec
  /\ WF_vars(\E n \in 1..(SentBytes - arrived) : Receive(n))
  /\ WF_vars(conn_readcb)
-----------------------------------------------------------------------------
(***************************************************************************)
(* Properties.                                                             *)
(***************************************************************************)

\* Every variable has its type; offsets are lengths of the same byte stream.
TypeOK ==
  /\ frames \in Seq(Frame)
  /\ arrived \in Nat /\ removed \in Nat /\ low \in Nat
  /\ removed <= arrived /\ arrived <= SentBytes
  /\ reading \in BOOLEAN
  /\ delivered \in Seq(Packet)

Taken == Len(delivered)

\* However the stream was cut into segments, the receiver has taken whole
\* packets from its front, in order, with their ids and sizes, and the next
\* header starts exactly where the input buffer starts.
Framed ==
  /\ \A i \in 1..Len(frames) :
       /\ SizeOf(frames[i]) \in Size
       /\ frames[i].first = IF i = 1 THEN 0 ELSE frames[i - 1].last
       /\ \A j \in 1..(i - 1) : frames[j].last <= frames[i].first
  /\ Taken <= Len(frames)
  /\ removed = IF Taken = 0 THEN 0 ELSE frames[Taken].last
  /\ \A i \in 1..Taken : delivered[i] = [id |-> frames[i].id, size |-> SizeOf(frames[i])]

\* The packet at the front of the input buffer is there completely.
CompleteAtFront ==
  /\ Taken < Len(frames)
  /\ frames[Taken + 1].last <= arrived

\* An oversized packet is at the front of the input buffer.
Blocked == CompleteAtFront /\ SizeOf(frames[Taken + 1]) > PKG_MAX_SIZE

\* A complete packet is in the input buffer, and the low watermark keeps
\* conn_readcb from being called for it.
Stalled == ~reading /\ CompleteAtFront /\ recv_len < low

\* Between two calls conn_readcb has left nothing in the buffer that it could
\* have taken: what is there is below the watermark, or behind a packet too big.
ReadToTheEnd == ~reading => recv_len < low \/ Blocked

\* The watermark asks for a header or for a packet, and only one thing makes a
\* complete packet wait: conn_readcb raised the watermark for an earlier packet,
\* longer than what has arrived since, and did not lower it when that packet was
\* taken (line 229 without line 216).
WatermarkOrigin ==
  /\ \/ low = HEAD_SIZE
     \/ \E i \in 1..Len(frames) : i <= Taken + 1 /\ low = SizeOf(frames[i])
  /\ Stalled => \E i \in 1..Taken : low = SizeOf(frames[i]) /\ low > recv_len

\* An oversized packet at the front is never removed: nothing behind it on this
\* connection reaches the receive callback any more.
BlockedForever == [][Blocked => Blocked' /\ delivered' = delivered]_vars

\* "deal with next packet" (TcpConnection.cpp:263): when conn_readcb is done, no
\* complete packet of a legal size is left in the input buffer.
NextPacketIsDealtWith == ~reading /\ CompleteAtFront => Blocked

\* Every packet that was sent reaches the callback, or the receiver ends up for
\* good behind an oversized packet or an outdated watermark. Packets of legal
\* sizes that never shrink do reach it: a watermark left by one of them is
\* reached by the next one.
PacketsArrive ==
  /\ \A i \in 1..MaxPackets :
       Len(frames) >= i ~> (Taken >= i \/ []Blocked \/ []Stalled)
  /\ [](\A j \in 1..Len(frames) :
          /\ SizeOf(frames[j]) <= PKG_MAX_SIZE
          /\ \A i \in 1..j : SizeOf(frames[i]) <= SizeOf(frames[j]))
     => \A i \in 1..MaxPackets : Len(frames) >= i ~> Taken >= i

IInv == TypeOK /\ Framed /\ ReadToTheEnd /\ WatermarkOrigin

\* The stream implements the channel of packets.
Channel == INSTANCE PacketChannel WITH
  sent <- [i \in 1..Len(frames) |-> [id |-> frames[i].id, size |-> SizeOf(frames[i])]],
  received <- delivered

ImplementsChannel == Channel!Spec
=============================================================================
