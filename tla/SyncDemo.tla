------------------------------ MODULE SyncDemo ------------------------------
(***************************************************************************)
(* client/Assets/SyncTransfrom: Demo1 sends the state of one ball in       *)
(* packets from a pool over a queue, and a coroutine hands them to the     *)
(* SyncObject of a second ball, which follows it. All of it runs in        *)
(* Unity's frame: fixed steps, then Update, then the coroutine.            *)
(***************************************************************************)
EXTENDS Integers, Sequences, FiniteSets

CONSTANTS
  Pkg,          \* packets that can be allocated
  FixedDelta,   \* Time.fixedDeltaTime
  Interval,     \* SYNC_INTERAL
  FrameTime,    \* how long a frame may take
  MaxTime,      \* bound on the clock
  MaxSize,      \* how many packets the pool keeps
  None

\* A packet stands for the state of the ball when it was sent: n is its number.
Content == [n : Nat, time : Nat, Time : Nat, isHolding : BOOLEAN]

ASSUME SyncDemoAssumption ==
  /\ FixedDelta \in Nat \ {0} /\ Interval \in Nat
  /\ FixedDelta < Interval
  /\ FrameTime \subseteq Nat \ {0}
  /\ MaxTime \in Nat /\ MaxSize \in Nat /\ None \notin Content

VARIABLES
  phase,        \* where Unity is in the frame
  time,         \* the time of the frame
  fixed,        \* the time of the last fixed step
  m_time,       \* time since the last packet sent by the clock
  syncQue,      \* the packets under way
  pool,         \* the stack of packets to be used again
  pkg,          \* what each packet holds
  target,       \* what the second ball has received last
  copy,         \* the packet whose position the second ball was set to last
  sent,         \* history: how many packets were sent,
  clocked,      \* ... and how many of them by the clock
  held          \* history: the last packet sent while a button was held in
                \* this frame, or in the last one until Update

vars == <<phase, time, fixed, m_time, syncQue, pool, pkg, target, copy, sent, clocked, held>>

Fresh == [n |-> 0, time |-> 0, Time |-> 0, isHolding |-> FALSE]

TypeOK ==
  /\ phase \in {"fixed", "update", "receive"}
  /\ time \in 0..MaxTime /\ fixed \in 0..time /\ m_time \in 0..Interval
  /\ syncQue \in Seq(Pkg) /\ pool \in Seq(Pkg) /\ Len(pool) <= MaxSize
  /\ pkg \in [Pkg -> Content \cup {None}] /\ target \in Content
  /\ copy \in Nat /\ sent \in Nat /\ clocked \in 0..sent /\ held \in 0..sent

Init ==
  /\ phase = "receive" /\ time = 0 /\ fixed = 0 /\ m_time = 0
  /\ syncQue = <<>> /\ pool = <<>>
  /\ pkg = [p \in Pkg |-> None] /\ target = Fresh
  /\ copy = 0 /\ sent = 0 /\ clocked = 0 /\ held = 0

-----------------------------------------------------------------------------
\* Mutant: the packet stays in the pool.
Get_Peek(p) ==
  /\ IF pool = <<>> THEN pkg[p] = None ELSE p = pool[Len(pool)]
  /\ UNCHANGED pool

\* p is the packet on top of the pool, or a new one.
Get(p) ==
  /\ IF pool = <<>> THEN pkg[p] = None ELSE p = pool[Len(pool)]
  /\ pool' = SubSeq(pool, 1, Len(pool) - 1)

\* Mutant: packets are added at the front of the queue.
SendPkg_First(isHolding, now) ==
  \E p \in Pkg :
    /\ Get(p)
    /\ pkg' = [pkg EXCEPT ![p] = [n |-> sent + 1, time |-> now, isHolding |-> isHolding,
                                  Time |-> IF @ = None THEN 0 ELSE @.Time]]
    /\ syncQue' = <<p>> \o syncQue
    /\ sent' = sent + 1

\* A packet with the state of the ball; nothing sets Time.
SendPkg(isHolding, now) ==
  \E p \in Pkg :
    /\ Get(p)
    /\ pkg' = [pkg EXCEPT ![p] = [n |-> sent + 1, time |-> now, isHolding |-> isHolding,
                                  Time |-> IF @ = None THEN 0 ELSE @.Time]]
    /\ syncQue' = Append(syncQue, p)
    /\ sent' = sent + 1

\* Mutant: the pool keeps every packet.
Release_Always(p) == pool' = Append(pool, p) /\ UNCHANGED pkg

\* A full pool leaves the packet to the garbage collector.
Release(p) ==
  IF Len(pool) < MaxSize THEN pool' = Append(pool, p) /\ UNCHANGED pkg
  ELSE UNCHANGED pool /\ pkg' = [pkg EXCEPT ![p] = None]

\* Mutant: SyncTrans does not take over isHolding.
SyncTrans_NotHolding(c) == target' = [c EXCEPT !.isHolding = target.isHolding]

SyncTrans(c) == target' = c

\* The second ball is set to the target's position while the first is held,
\* or when both stand still; otherwise physics moves it.
Interpolate ==
  \E bothStill \in BOOLEAN :
    copy' = IF target.n > 0 /\ (bothStill \/ target.isHolding) THEN target.n ELSE copy

-----------------------------------------------------------------------------
\* The coroutine has a packet to hand over.
Due == syncQue # <<>> /\ pkg[Head(syncQue)].Time <= time

NextFrame(d) ==
  /\ phase = "receive" /\ ~Due
  /\ time + d <= MaxTime
  /\ phase' = "fixed" /\ time' = time + d
  /\ UNCHANGED <<fixed, m_time, syncQue, pool, pkg, target, copy, sent, clocked, held>>

\* Mutant: the rest of the interval is lost.
FixedUpdate_Restart ==
  /\ phase = "fixed" /\ fixed + FixedDelta <= time
  /\ fixed' = fixed + FixedDelta
  /\ IF m_time + FixedDelta >= Interval
       THEN SendPkg(FALSE, fixed') /\ m_time' = 0 /\ clocked' = clocked + 1
       ELSE m_time' = m_time + FixedDelta /\ UNCHANGED <<syncQue, pool, pkg, sent, clocked>>
  /\ Interpolate
  /\ UNCHANGED <<phase, time, target, held>>

\* A fixed step of both objects: Interpolate reads only what the coroutine
\* changes, so that their order does not matter. The code adds floats: when the
\* exact time is the interval, rounding decides whether the packet is sent.
FixedUpdate ==
  /\ phase = "fixed" /\ fixed + FixedDelta <= time
  /\ fixed' = fixed + FixedDelta
  /\ \/ /\ m_time + FixedDelta >= Interval
        /\ SendPkg(FALSE, fixed')
        /\ m_time' = m_time + FixedDelta - Interval
        /\ clocked' = clocked + 1
     \/ /\ m_time + FixedDelta <= Interval
        /\ m_time' = m_time + FixedDelta
        /\ UNCHANGED <<syncQue, pool, pkg, sent, clocked>>
  /\ Interpolate
  /\ UNCHANGED <<phase, time, target, held>>

EndFixed ==
  /\ phase = "fixed" /\ fixed + FixedDelta > time
  /\ phase' = "update"
  /\ UNCHANGED <<time, fixed, m_time, syncQue, pool, pkg, target, copy, sent, clocked, held>>

\* Update, with a mouse button held or not.
Update(button) ==
  /\ phase = "update"
  /\ phase' = "receive"
  /\ IF button
       THEN SendPkg(TRUE, time) /\ held' = sent'
       ELSE held' = 0 /\ UNCHANGED <<syncQue, pool, pkg, sent>>
  /\ UNCHANGED <<time, fixed, m_time, target, copy, clocked>>

\* One pass of the coroutine's loop: the packets go out in the order they came.
RecvPkg ==
  /\ phase = "receive" /\ Due
  /\ SyncTrans(pkg[Head(syncQue)])
  /\ syncQue' = Tail(syncQue)
  /\ Release(Head(syncQue))
  /\ UNCHANGED <<phase, time, fixed, m_time, copy, sent, clocked, held>>

Next ==
  \/ \E d \in FrameTime : NextFrame(d)
  \/ FixedUpdate \/ EndFixed
  \/ \E button \in BOOLEAN : Update(button)
  \/ RecvPkg

Spec == Init /\ [][Next]_vars

-----------------------------------------------------------------------------
\* The packets under way are those sent and not yet received, in order and as
\* they were when they were sent: the pool hands out none of them again.
UnderWay ==
  /\ target.n + Len(syncQue) = sent
  /\ \A i \in DOMAIN syncQue : pkg[syncQue[i]].n = target.n + i

\* SyncTrans divides by the difference of two times (SyncObject.cs:146). q may
\* follow p: its time is later, or q was sent by Update in the frame whose time
\* is that of the fixed step that sent p.
Follows(q, p) ==
  /\ p.time <= q.time
  /\ p.time = q.time => q.isHolding /\ ~p.isHolding

\* Each packet is received once and in the order of sending, times never fall,
\* and only a packet sent by Update can have the time of the one before, and
\* then that one was sent by the clock.
ReceivedInOrder == [][RecvPkg => target'.n = target.n + 1 /\ Follows(target', target)]_vars

\* The clock does not drift: a packet is sent for every interval of fixed time
\* that has passed, but where rounding holds back the last one until the next
\* fixed step, however long the frames are.
OnTheClock == clocked * Interval + m_time = fixed /\ m_time <= Interval

Elements(q) == {q[i] : i \in DOMAIN q}

\* A packet that exists is in the queue or in the pool, and there once.
NoneLost ==
  /\ Elements(syncQue) \cup Elements(pool) = {p \in Pkg : pkg[p] # None}
  /\ Elements(syncQue) \cap Elements(pool) = {}
  /\ \A q \in {syncQue, pool} : \A i, j \in DOMAIN q : i # j => q[i] # q[j]

\* The pool hands out no packet that is under way, and gets every one back.
PacketsAreKept == UnderWay /\ NoneLost

\* If a button was held in the last frame, each fixed step sets the second
\* ball to the position sent then. The queue thus delays nothing, although it
\* is to simulate a delay (Demo1.cs:91, 103, 109): nothing sets Time.
HoldWins == [][FixedUpdate /\ held > 0 => copy' = held]_vars

\* The i-th packet under way; the 0th is the one received last.
Pending(i) == IF i = 0 THEN target ELSE pkg[syncQue[i]]
LastSent == Pending(Len(syncQue))

\* Times rise along the queue, and the next fixed step is later than the last
\* packet. What makes it inductive: a frame stops short of its next fixed step.
Stamped ==
  /\ \A i \in 0..Len(syncQue) - 1 : Follows(Pending(i + 1), Pending(i))
  /\ phase # "receive" /\ LastSent.isHolding => LastSent.time < time
  /\ LastSent.time <= time /\ LastSent.time < fixed + FixedDelta
  /\ phase # "fixed" => time < fixed + FixedDelta
  /\ \A p \in Pkg : pkg[p] # None => pkg[p].Time = 0

\* The packet sent with the button held is the last one of its frame, and the
\* one received last when the next frame begins.
HeldIsLast ==
  held > 0 =>
    /\ phase = "receive" => held = sent /\ LastSent.isHolding
    /\ phase = "fixed" => held = target.n /\ target.isHolding

IInv == TypeOK /\ OnTheClock /\ PacketsAreKept /\ Stamped /\ HeldIsLast
=============================================================================
