----------------------------- MODULE TimerProofs -----------------------------
(***************************************************************************)
(* Proofs about Timer, for every set of threads and slots, every delay and *)
(* period and without the bounds: type correctness unconditionally, the    *)
(* safety properties for users that destroy a timer at most once.          *)
(***************************************************************************)
EXTENDS Timer, SequenceTheorems, TLAPS

(***************************************************************************)
(* The queue operators of Timer, as the sequences they produce.            *)
(***************************************************************************)

\* multiset::insert: the new reference goes between two parts of the queue.
LEMMA InsertQueue ==
  ASSUME queue \in Seq(Slot), NEW s \in Slot, NEW next, QueueInsert(s, next)
  PROVE  \E k \in 0..Len(queue) :
           /\ queue' \in Seq(Slot)
           /\ Len(queue') = Len(queue) + 1
           /\ \A i \in 1..Len(queue') :
                queue'[i] = IF i <= k THEN queue[i]
                            ELSE IF i = k + 1 THEN s ELSE queue[i - 1]
           /\ \A i \in 1..Len(queue) : i <= k <=> mem[queue[i]].next <= next
<1>p. PICK k \in 0..Len(queue) :
        /\ \A i \in 1..Len(queue) : i <= k <=> mem[queue[i]].next <= next
        /\ queue' = SubSeq(queue, 1, k) \o <<s>> \o SubSeq(queue, k + 1, Len(queue))
  BY DEF QueueInsert
<1> DEFINE q == queue
           a == SubSeq(q, 1, k)
           c == a \o <<s>>
           b == SubSeq(q, k + 1, Len(q))
           r == queue'
<1>0. Len(q) \in Nat /\ k \in Nat /\ k <= Len(q)
  OBVIOUS
<1>1. /\ a \in Seq(Slot) /\ Len(a) = k
      /\ \A i \in 1..k : a[i] = q[i]
  BY <1>0
<1>2. /\ b \in Seq(Slot) /\ Len(b) = Len(q) - k
      /\ \A i \in 1..(Len(q) - k) : b[i] = q[k + i]
  BY <1>0
<1>r. r = c \o b
  BY <1>p
<1> HIDE DEF a, b, r, q
<1>3. /\ c \in Seq(Slot) /\ Len(c) = k + 1
      /\ \A i \in 1..(k + 1) : c[i] = IF i <= k THEN a[i] ELSE s
  <2>1. <<s>> \in Seq(Slot) /\ Len(<<s>>) = 1 /\ <<s>>[1] = s
    OBVIOUS
  <2>2. \A i \in 1..(k + 1) : i > k => i - k = 1
    BY <1>0
  <2> QED
    BY <1>0, <1>1, <2>1, <2>2, ConcatProperties
<1> HIDE DEF c
<1>4. /\ r \in Seq(Slot) /\ Len(r) = Len(q) + 1
      /\ \A i \in 1..(Len(q) + 1) : r[i] = IF i <= k + 1 THEN c[i] ELSE b[i - (k + 1)]
  <2>1. /\ c \o b \in Seq(Slot) /\ Len(c \o b) = Len(c) + Len(b)
        /\ \A i \in 1..(Len(c) + Len(b)) :
             (c \o b)[i] = IF i <= Len(c) THEN c[i] ELSE b[i - Len(c)]
    BY <1>2, <1>3, ConcatProperties, Zenon
  <2> QED
    BY <1>0, <1>2, <1>3, <1>r, <2>1
<1>5. ASSUME NEW i \in 1..Len(r)
      PROVE  r[i] = IF i <= k THEN q[i] ELSE IF i = k + 1 THEN s ELSE q[i - 1]
  <2>0. i \in Int /\ 1 <= i /\ i <= Len(q) + 1
    BY <1>0, <1>4
  <2>1. CASE i <= k
    BY <1>0, <1>1, <1>3, <1>4, <2>0, <2>1
  <2>2. CASE i = k + 1
    BY <1>0, <1>3, <1>4, <2>0, <2>2
  <2>3. CASE i > k + 1
    <3>1. i - (k + 1) \in 1..(Len(q) - k) /\ k + (i - (k + 1)) = i - 1
      BY <1>0, <2>0, <2>3
    <3>2. r[i] = b[i - (k + 1)]
      BY <1>0, <1>4, <2>0, <2>3
    <3>3. b[i - (k + 1)] = q[k + (i - (k + 1))]
      BY <1>2, <3>1
    <3> QED
      BY <1>0, <2>0, <2>3, <3>1, <3>2, <3>3
  <2> QED
    BY <1>0, <2>0, <2>1, <2>2, <2>3
<1>6. QED
  BY <1>p, <1>4, <1>5 DEF r, q

\* multiset::erase by key: one stretch of the queue is removed.
LEMMA CutQueue ==
  ASSUME queue \in Seq(Slot), NEW next, QueueErase(next)
  PROVE  \E lo \in 0..Len(queue) : \E hi \in lo..Len(queue) :
           /\ queue' \in Seq(Slot)
           /\ Len(queue') = Len(queue) - (hi - lo)
           /\ \A i \in 1..Len(queue') :
                queue'[i] = IF i <= lo THEN queue[i] ELSE queue[i + (hi - lo)]
           /\ \A i \in 1..Len(queue) : lo < i /\ i <= hi <=> mem[queue[i]].next = next
<1>p. PICK lo \in 0..Len(queue) : \E hi \in lo..Len(queue) :
        /\ \A i \in 1..Len(queue) : lo < i /\ i <= hi <=> mem[queue[i]].next = next
        /\ queue' = SubSeq(queue, 1, lo) \o SubSeq(queue, hi + 1, Len(queue))
  BY DEF QueueErase
<1>q. PICK hi \in lo..Len(queue) :
        /\ \A i \in 1..Len(queue) : lo < i /\ i <= hi <=> mem[queue[i]].next = next
        /\ queue' = SubSeq(queue, 1, lo) \o SubSeq(queue, hi + 1, Len(queue))
  BY <1>p
<1> DEFINE q == queue
           a == SubSeq(q, 1, lo)
           b == SubSeq(q, hi + 1, Len(q))
           r == queue'
<1>0. /\ Len(q) \in Nat /\ lo \in Nat /\ hi \in Nat
      /\ lo <= hi /\ hi <= Len(q)
  OBVIOUS
<1>1. /\ a \in Seq(Slot) /\ Len(a) = lo
      /\ \A i \in 1..lo : a[i] = q[i]
  BY <1>0
<1>2. /\ b \in Seq(Slot) /\ Len(b) = Len(q) - hi
      /\ \A i \in 1..(Len(q) - hi) : b[i] = q[hi + i]
  BY <1>0
<1>r. r = a \o b
  BY <1>q
<1> HIDE DEF a, b, r, q
<1>3. /\ r \in Seq(Slot) /\ Len(r) = lo + (Len(q) - hi)
      /\ \A i \in 1..(lo + (Len(q) - hi)) : r[i] = IF i <= lo THEN a[i] ELSE b[i - lo]
  <2>1. /\ a \o b \in Seq(Slot) /\ Len(a \o b) = Len(a) + Len(b)
        /\ \A i \in 1..(Len(a) + Len(b)) :
             (a \o b)[i] = IF i <= Len(a) THEN a[i] ELSE b[i - Len(a)]
    BY <1>1, <1>2, ConcatProperties, Zenon
  <2> QED
    BY <1>1, <1>2, <1>r, <2>1
<1>4. ASSUME NEW i \in 1..Len(r)
      PROVE  r[i] = IF i <= lo THEN q[i] ELSE q[i + (hi - lo)]
  <2>0. i \in Int /\ 1 <= i /\ i <= Len(q) - (hi - lo)
    BY <1>0, <1>3
  <2>1. CASE i <= lo
    BY <1>0, <1>1, <1>3, <2>0, <2>1
  <2>2. CASE i > lo
    <3>1. i - lo \in 1..(Len(q) - hi) /\ hi + (i - lo) = i + (hi - lo)
      BY <1>0, <2>0, <2>2
    <3>2. r[i] = b[i - lo]
      BY <1>0, <1>3, <2>0, <2>2
    <3>3. b[i - lo] = q[hi + (i - lo)]
      BY <1>2, <3>1
    <3> QED
      BY <1>0, <2>0, <2>2, <3>1, <3>2, <3>3
  <2> QED
    BY <1>0, <2>0, <2>1, <2>2
<1>5. Len(r) = Len(q) - (hi - lo)
  BY <1>0, <1>3
<1>6. QED
  BY <1>q, <1>3, <1>4, <1>5 DEF r, q

-----------------------------------------------------------------------------
(***************************************************************************)
(* Type correctness.                                                       *)
(***************************************************************************)
LEMMA TypeInit == Init => TypeOK
<1> SUFFICES ASSUME Init PROVE TypeOK
  OBVIOUS
<1> USE DEF Init
<1>1. mem \in [Slot -> Instance]
  BY DEF Instance
<1>2. DOMAIN active = {} /\ active \in [DOMAIN active -> Slot]
  OBVIOUS
<1>3. queue \in Seq(Slot)
  OBVIOUS
<1>4. clock \in Nat /\ nextId \in Nat \ {0} /\ until \in Nat
  OBVIOUS
<1>5. done \in BOOLEAN
  OBVIOUS
<1>6. request \in [Thread -> Request \cup {None}]
  OBVIOUS
<1>7. /\ DOMAIN active \subseteq 1..(nextId - 1)
      /\ destroyed \subseteq 1..(nextId - 1)
      /\ evicted \subseteq Nat
  BY <1>2
<1>8. /\ pc \in {"loop", "wait", "wait_until", "handler", "exited"}
      /\ instance \in Slot \cup {None}
      /\ pc = "handler" => instance \in Slot
      /\ firing \in Nat \cup {None}
  OBVIOUS
<1>9. QED
  BY <1>1, <1>2, <1>3, <1>4, <1>5, <1>6, <1>7, <1>8 DEF TypeOK

LEMMA QueuedType ==
  ASSUME TypeOK, NEW r \in Queued
  PROVE  r \in Slot /\ mem[r].id \in Nat /\ mem[r].next \in Nat
<1>1. r \in Slot /\ mem \in [Slot -> Instance]
  BY DEF Queued, TypeOK
<1>2. QED
  BY <1>1 DEF Instance

LEMMA TypeStep == TypeOK /\ [Next]_vars => TypeOK'
<1> SUFFICES ASSUME TypeOK, [Next]_vars PROVE TypeOK'
  OBVIOUS
<1>1. CASE Tick
  BY <1>1 DEF Tick, TypeOK
<1>2. ASSUME NEW t \in Thread, NEW delay \in Delay, NEW period \in Period,
             CallCreate(t, delay, period)
      PROVE  TypeOK'
  <2>1. [next |-> clock + delay, period |-> period] \in Request
    BY TimerAssumption DEF TimerAssumption, Request, TypeOK
  <2>2. QED
    BY <1>2, <2>1 DEF CallCreate, TypeOK
<1>3. ASSUME NEW t \in Thread, CreateImpl(t)
      PROVE  TypeOK'
  <2>1. PICK s \in Slot \ LiveSlots :
          /\ mem' = [mem EXCEPT ![s] =
                      [id |-> nextId, next |-> request[t].next,
                       period |-> request[t].period, running |-> FALSE]]
          /\ active' = [id \in DOMAIN active \cup {nextId} |->
                          IF id = nextId THEN s ELSE active[id]]
          /\ QueueInsert(s, request[t].next)
    BY <1>3 DEF CreateImpl, TypeOK
  <2>2. request[t] \in Request
    BY <1>3 DEF CreateImpl, TypeOK
  <2>3. mem' \in [Slot -> Instance]
    BY <2>1, <2>2 DEF Instance, Request, TypeOK
  <2>4. DOMAIN active' \subseteq 1..(nextId' - 1) /\ active' \in [DOMAIN active' -> Slot]
    BY <1>3, <2>1 DEF CreateImpl, HandOutId, TypeOK
  <2>5. queue' \in Seq(Slot)
    BY <2>1, InsertQueue DEF TypeOK
  <2>6. QED
    BY <1>3, <2>3, <2>4, <2>5 DEF CreateImpl, HandOutId, NotifyAll, TypeOK
<1>4. ASSUME NEW t \in Thread, NEW id \in DOMAIN active, Destroy(t, id)
      PROVE  TypeOK'
  <2>1. active[id] \in Slot /\ mem \in [Slot -> Instance]
    BY DEF TypeOK
  <2>2. mem' \in [Slot -> Instance]
    <3>1. mem' = mem \/ mem' = [mem EXCEPT ![active[id]].running = FALSE]
      BY <1>4 DEF Destroy
    <3>2. [mem EXCEPT ![active[id]].running = FALSE] \in [Slot -> Instance]
      BY <2>1 DEF Instance
    <3>3. QED
      BY <2>1, <3>1, <3>2
  <2>3. DOMAIN active' \subseteq 1..(nextId' - 1) /\ active' \in [DOMAIN active' -> Slot]
    BY <1>4 DEF Destroy, Erase, TypeOK
  <2>4. queue' \in Seq(Slot)
    BY <1>4, CutQueue DEF Destroy, TypeOK
  <2>5. evicted' \subseteq Nat
    BY <1>4, QueuedType DEF Destroy, TypeOK
  <2>6. QED
    BY <1>4, <2>2, <2>3, <2>4, <2>5 DEF Destroy, NotifyAll, TypeOK
<1>5. CASE BeginDestructor
  BY <1>5 DEF BeginDestructor, NotifyAll, TypeOK
<1>6. CASE SpuriousWakeUp
  BY <1>6 DEF SpuriousWakeUp, TypeOK
<1>7. CASE WaitForWork
  BY <1>7 DEF WaitForWork, TypeOK
<1>8. CASE WaitUntilDue
  <2>1. mem[queue[1]].next \in Nat
    BY <1>8 DEF WaitUntilDue, Instance, TypeOK
  <2>2. QED
    BY <1>8, <2>1 DEF WaitUntilDue, TypeOK
<1>9. CASE Timeout
  BY <1>9 DEF Timeout, TypeOK
<1>10. CASE CallHandler
  <2>1. queue[1] \in Slot /\ queue' \in Seq(Slot)
    BY <1>10 DEF CallHandler, TypeOK
  <2>2. mem' \in [Slot -> Instance] /\ firing' \in Nat
    BY <1>10, <2>1 DEF CallHandler, Instance, TypeOK
  <2>3. QED
    BY <1>10, <2>1, <2>2 DEF CallHandler, TypeOK
<1>11. CASE ExitAfterHandler
  BY <1>11 DEF ExitAfterHandler, TypeOK
<1>12. CASE Retire
  <2>1. mem' \in [Slot -> Instance]
    BY <1>12 DEF Retire, Instance, TypeOK
  <2>2. DOMAIN active' \subseteq 1..(nextId' - 1) /\ active' \in [DOMAIN active' -> Slot]
    BY <1>12 DEF Retire, Erase, TypeOK
  <2>3. QED
    BY <1>12, <2>1, <2>2 DEF Retire, TypeOK
<1>13. CASE Rearm
  <2>1. instance \in Slot
    BY <1>13 DEF Rearm, HandlerReturned, TypeOK
  <2>2. mem[instance].next + mem[instance].period \in Nat
    BY <2>1 DEF Instance, TypeOK
  <2>3. mem' \in [Slot -> Instance]
    BY <1>13, <2>1, <2>2 DEF Rearm, Instance, TypeOK
  <2>4. queue' \in Seq(Slot)
    BY <1>13, <2>1, InsertQueue DEF Rearm, TypeOK
  <2>5. QED
    BY <1>13, <2>3, <2>4 DEF Rearm, TypeOK
<1>14. CASE Exit
  BY <1>14 DEF Exit, TypeOK
<1>15. CASE UNCHANGED vars
  BY <1>15 DEF vars, TypeOK
<1>16. QED
  BY <1>1, <1>2, <1>3, <1>4, <1>5, <1>6, <1>7, <1>8, <1>9, <1>10, <1>11, <1>12,
     <1>13, <1>14, <1>15 DEF Next, WorkerStep

\* Every variable of a Timer keeps its type, whatever its users do, destroying a
\* timer twice included.
THEOREM TypeCorrect == Spec => []TypeOK
  BY TypeInit, TypeStep, PTL DEF Spec

-----------------------------------------------------------------------------
(***************************************************************************)
(* The queue as a set and as an order.  QueueRefersToLive is proved in     *)
(* these two parts.                                                        *)
(***************************************************************************)
Sorted ==
  \A i \in 1..Len(queue) : \A j \in 1..(i - 1) :
    queue[j] # queue[i] /\ mem[queue[j]].next <= mem[queue[i]].next

QueuedLive == \A s \in Queued : s \in LiveSlots /\ ~mem[s].running

LEMMA QueueParts == QueueRefersToLive => Sorted /\ QueuedLive
  BY DEF QueueRefersToLive, Sorted, QueuedLive, Queued

LEMMA QueuePartsNext == Sorted' /\ QueuedLive' => QueueRefersToLive'
  BY DEF QueueRefersToLive, Sorted, QueuedLive, Queued

LEMMA InsertQueued ==
  ASSUME TypeOK, NEW s \in Slot, NEW next, QueueInsert(s, next)
  PROVE  Queued' = Queued \cup {s} /\ queue' # <<>>
<1>1. queue \in Seq(Slot)
  BY DEF TypeOK
<1>2. PICK k \in 0..Len(queue) :
        /\ queue' \in Seq(Slot)
        /\ Len(queue') = Len(queue) + 1
        /\ \A i \in 1..Len(queue') :
             queue'[i] = IF i <= k THEN queue[i]
                         ELSE IF i = k + 1 THEN s ELSE queue[i - 1]
  BY <1>1, InsertQueue
<1>3. ASSUME NEW r \in Queued' PROVE r \in Queued \cup {s}
  <2>1. PICK i \in 1..Len(queue') : r = queue'[i]
    BY DEF Queued
  <2>2. CASE i <= k
    BY <1>1, <1>2, <2>1, <2>2 DEF Queued
  <2>3. CASE i = k + 1
    BY <1>1, <1>2, <2>1, <2>3
  <2>4. CASE i > k + 1
    <3>1. i - 1 \in 1..Len(queue) /\ r = queue[i - 1]
      BY <1>1, <1>2, <2>1, <2>4
    <3>2. QED
      BY <3>1 DEF Queued
  <2>5. QED
    BY <1>1, <1>2, <2>1, <2>2, <2>3, <2>4
<1>4. ASSUME NEW r \in Queued PROVE r \in Queued'
  <2>1. PICK i \in 1..Len(queue) : r = queue[i]
    BY DEF Queued
  <2>2. CASE i <= k
    <3>1. i \in 1..Len(queue') /\ queue'[i] = r
      BY <1>1, <1>2, <2>1, <2>2
    <3>2. QED
      BY <3>1 DEF Queued
  <2>3. CASE i > k
    <3>1. i + 1 \in 1..Len(queue') /\ queue'[i + 1] = r
      BY <1>1, <1>2, <2>1, <2>3
    <3>2. QED
      BY <3>1 DEF Queued
  <2>4. QED
    BY <1>1, <1>2, <2>1, <2>2, <2>3
<1>5. s \in Queued' /\ queue' # <<>>
  <2>1. k + 1 \in 1..Len(queue') /\ queue'[k + 1] = s
    BY <1>1, <1>2
  <2>2. QED
    BY <1>1, <1>2, <2>1 DEF Queued
<1>6. QED
  BY <1>3, <1>4, <1>5

LEMMA InsertSorted ==
  ASSUME TypeOK, Sorted,
         NEW s \in Slot, s \notin Queued, NEW next \in Nat, QueueInsert(s, next),
         mem'[s].next = next,
         \A r \in Queued : mem'[r].next = mem[r].next
  PROVE  Sorted'
<1>1. queue \in Seq(Slot)
  BY DEF TypeOK
<1>2. PICK k \in 0..Len(queue) :
        /\ queue' \in Seq(Slot)
        /\ Len(queue') = Len(queue) + 1
        /\ \A i \in 1..Len(queue') :
             queue'[i] = IF i <= k THEN queue[i]
                         ELSE IF i = k + 1 THEN s ELSE queue[i - 1]
        /\ \A i \in 1..Len(queue) : i <= k <=> mem[queue[i]].next <= next
  BY <1>1, InsertQueue
<1>3. \A i \in 1..Len(queue) :
        /\ queue[i] \in Queued
        /\ mem'[queue[i]].next = mem[queue[i]].next
        /\ mem[queue[i]].next \in Nat
  BY QueuedType DEF Queued
<1>4. ASSUME NEW i \in 1..Len(queue'), NEW j \in 1..(i - 1)
      PROVE  queue'[j] # queue'[i] /\ mem'[queue'[j]].next <= mem'[queue'[i]].next
  <2>0. /\ Len(queue) \in Nat /\ k \in Nat /\ k <= Len(queue)
        /\ i \in Nat /\ j \in Nat /\ 1 <= j /\ j < i /\ i <= Len(queue) + 1
    BY <1>1, <1>2
  <2>1. CASE i <= k
    <3>1. queue'[i] = queue[i] /\ queue'[j] = queue[j] /\ i \in 1..Len(queue)
      BY <1>2, <2>0, <2>1
    <3>2. j \in 1..Len(queue)
      BY <2>0, <3>1
    <3>3. QED
      BY <1>3, <3>1, <3>2 DEF Sorted
  <2>2. CASE i = k + 1
    <3>1. queue'[i] = s /\ queue'[j] = queue[j] /\ j \in 1..Len(queue) /\ j <= k
      BY <1>2, <2>0, <2>2
    <3>2. mem[queue[j]].next <= next
      BY <1>2, <3>1
    <3>3. queue[j] # s /\ mem'[queue[j]].next = mem[queue[j]].next
      BY <1>3, <3>1
    <3>4. mem'[queue[j]].next <= mem'[s].next
      BY <3>2, <3>3
    <3>5. QED
      BY <3>1, <3>3, <3>4
  <2>3. CASE i > k + 1 /\ j <= k
    <3>1. /\ i - 1 \in 1..Len(queue) /\ j \in 1..Len(queue)
          /\ j \in 1..((i - 1) - 1) /\ j \in 1..Len(queue')
      BY <1>2, <2>0, <2>3
    <3>2. queue'[i] = queue[i - 1] /\ queue'[j] = queue[j]
      BY <1>2, <2>0, <2>3, <3>1
    <3>3. QED
      BY <1>3, <3>1, <3>2 DEF Sorted
  <2>4. CASE i > k + 1 /\ j = k + 1
    <3>1. /\ queue'[i] = queue[i - 1] /\ i - 1 \in 1..Len(queue) /\ ~(i - 1 <= k)
          /\ queue'[j] = s
      BY <1>2, <2>0, <2>4
    <3>2. next <= mem[queue[i - 1]].next
      BY <1>2, <1>3, <3>1
    <3>3. QED
      BY <1>3, <3>1, <3>2
  <2>5. CASE i > k + 1 /\ j > k + 1
    <3>1. /\ queue'[i] = queue[i - 1] /\ i - 1 \in 1..Len(queue)
          /\ queue'[j] = queue[j - 1] /\ j - 1 \in 1..Len(queue)
          /\ j - 1 \in 1..((i - 1) - 1)
      BY <1>2, <2>0, <2>5
    <3>2. QED
      BY <1>3, <3>1 DEF Sorted
  <2>6. QED
    BY <2>0, <2>1, <2>2, <2>3, <2>4, <2>5
<1>5. QED
  BY <1>4 DEF Sorted

LEMMA CutQueued ==
  ASSUME TypeOK, NEW next, QueueErase(next)
  PROVE  Queued' = {r \in Queued : mem[r].next # next}
<1>1. queue \in Seq(Slot)
  BY DEF TypeOK
<1>2. PICK lo \in 0..Len(queue) : \E hi \in lo..Len(queue) :
        /\ queue' \in Seq(Slot)
        /\ Len(queue') = Len(queue) - (hi - lo)
        /\ \A i \in 1..Len(queue') :
             queue'[i] = IF i <= lo THEN queue[i] ELSE queue[i + (hi - lo)]
        /\ \A i \in 1..Len(queue) : lo < i /\ i <= hi <=> mem[queue[i]].next = next
  BY <1>1, CutQueue
<1>3. PICK hi \in lo..Len(queue) :
        /\ queue' \in Seq(Slot)
        /\ Len(queue') = Len(queue) - (hi - lo)
        /\ \A i \in 1..Len(queue') :
             queue'[i] = IF i <= lo THEN queue[i] ELSE queue[i + (hi - lo)]
        /\ \A i \in 1..Len(queue) : lo < i /\ i <= hi <=> mem[queue[i]].next = next
  BY <1>2
<1>4. /\ Len(queue) \in Nat /\ lo \in Nat /\ hi \in Nat
      /\ lo <= hi /\ hi <= Len(queue)
  BY <1>1
<1>5. ASSUME NEW r \in Queued' PROVE r \in Queued /\ mem[r].next # next
  <2>1. PICK i \in 1..Len(queue') : r = queue'[i]
    BY DEF Queued
  <2>2. PICK n \in 1..Len(queue) : r = queue[n] /\ ~(lo < n /\ n <= hi)
    <3>1. CASE i <= lo
      BY <1>3, <1>4, <2>1, <3>1
    <3>2. CASE i > lo
      <4>1. i + (hi - lo) \in 1..Len(queue) /\ i + (hi - lo) > hi
        BY <1>3, <1>4, <2>1, <3>2
      <4>2. r = queue[i + (hi - lo)]
        BY <1>3, <1>4, <2>1, <3>2
      <4>3. QED
        BY <1>4, <4>1, <4>2
    <3>3. QED
      BY <1>4, <2>1, <3>1, <3>2
  <2>3. QED
    BY <1>3, <2>2 DEF Queued
<1>6. ASSUME NEW r \in Queued, mem[r].next # next PROVE r \in Queued'
  <2>1. PICK n \in 1..Len(queue) : r = queue[n]
    BY DEF Queued
  <2>2. ~(lo < n /\ n <= hi)
    BY <1>3, <1>6, <2>1
  <2>3. CASE n <= lo
    <3>1. n \in 1..Len(queue') /\ queue'[n] = r
      BY <1>3, <1>4, <2>1, <2>3
    <3>2. QED
      BY <3>1 DEF Queued
  <2>4. CASE n > hi
    <3>1. /\ n - (hi - lo) \in 1..Len(queue') /\ ~(n - (hi - lo) <= lo)
          /\ (n - (hi - lo)) + (hi - lo) = n
      BY <1>3, <1>4, <2>1, <2>4
    <3>2. queue'[n - (hi - lo)] = r
      BY <1>3, <2>1, <3>1
    <3>3. QED
      BY <3>1, <3>2 DEF Queued
  <2>5. QED
    BY <1>4, <2>1, <2>2, <2>3, <2>4
<1>7. QED
  BY <1>5, <1>6

LEMMA CutSorted ==
  ASSUME TypeOK, Sorted, NEW next, QueueErase(next), mem' = mem
  PROVE  Sorted'
<1>1. queue \in Seq(Slot)
  BY DEF TypeOK
<1>2. PICK lo \in 0..Len(queue) : \E hi \in lo..Len(queue) :
        /\ queue' \in Seq(Slot)
        /\ Len(queue') = Len(queue) - (hi - lo)
        /\ \A i \in 1..Len(queue') :
             queue'[i] = IF i <= lo THEN queue[i] ELSE queue[i + (hi - lo)]
  BY <1>1, CutQueue
<1>3. PICK hi \in lo..Len(queue) :
        /\ queue' \in Seq(Slot)
        /\ Len(queue') = Len(queue) - (hi - lo)
        /\ \A i \in 1..Len(queue') :
             queue'[i] = IF i <= lo THEN queue[i] ELSE queue[i + (hi - lo)]
  BY <1>2
<1>4. /\ Len(queue) \in Nat /\ lo \in Nat /\ hi \in Nat
      /\ lo <= hi /\ hi <= Len(queue)
  BY <1>1
<1> DEFINE from(i) == IF i <= lo THEN i ELSE i + (hi - lo)
<1>5. \A i \in 1..Len(queue') : from(i) \in 1..Len(queue) /\ queue'[i] = queue[from(i)]
  BY <1>3, <1>4
<1>6. \A i \in 1..Len(queue') : \A j \in 1..(i - 1) :
        j \in 1..Len(queue') /\ from(j) \in 1..(from(i) - 1)
  BY <1>3, <1>4
<1> HIDE DEF from
<1>7. ASSUME NEW i \in 1..Len(queue'), NEW j \in 1..(i - 1)
      PROVE  queue'[j] # queue'[i] /\ mem'[queue'[j]].next <= mem'[queue'[i]].next
  <2>1. /\ from(i) \in 1..Len(queue) /\ from(j) \in 1..(from(i) - 1)
        /\ queue'[i] = queue[from(i)] /\ queue'[j] = queue[from(j)]
    BY <1>5, <1>6
  <2>2. QED
    BY <2>1 DEF Sorted
<1>8. QED
  BY <1>7 DEF Sorted

LEMMA TailQueued ==
  ASSUME TypeOK, Sorted, queue # <<>>, queue' = Tail(queue)
  PROVE  /\ queue[1] \in Queued /\ queue[1] \in Slot
         /\ Queued' = Queued \ {queue[1]}
         /\ \A i \in 1..Len(queue') : i + 1 \in 1..Len(queue) /\ queue'[i] = queue[i + 1]
<1>1. queue \in Seq(Slot) /\ Len(queue) \in Nat /\ Len(queue) > 0
  BY DEF TypeOK
<1>2. queue' \in Seq(Slot) /\ Len(queue') = Len(queue) - 1
  BY <1>1
<1>3. \A i \in 1..Len(queue') : i + 1 \in 1..Len(queue) /\ queue'[i] = queue[i + 1]
  BY <1>1, <1>2
<1>4. queue[1] \in Queued /\ queue[1] \in Slot
  BY <1>1 DEF Queued
<1>5. ASSUME NEW r \in Queued' PROVE r \in Queued \ {queue[1]}
  <2>1. PICK i \in 1..Len(queue') : r = queue'[i]
    BY DEF Queued
  <2>2. i + 1 \in 1..Len(queue) /\ r = queue[i + 1] /\ 1 \in 1..((i + 1) - 1)
    BY <1>2, <1>3, <2>1
  <2>3. QED
    BY <2>2 DEF Queued, Sorted
<1>6. ASSUME NEW r \in Queued \ {queue[1]} PROVE r \in Queued'
  <2>1. PICK i \in 1..Len(queue) : r = queue[i]
    BY DEF Queued
  <2>2. i - 1 \in 1..Len(queue') /\ (i - 1) + 1 = i
    BY <1>1, <1>2, <2>1
  <2>3. r = queue'[i - 1]
    BY <1>3, <2>1, <2>2
  <2>4. QED
    BY <2>2, <2>3 DEF Queued
<1>7. QED
  BY <1>3, <1>4, <1>5, <1>6

-----------------------------------------------------------------------------
(***************************************************************************)
(* The inductive invariant IInv, action by action.                         *)
(***************************************************************************)

\* Two ids never share a node.
LEMMA OwnNode ==
  ASSUME IInv, NEW i \in DOMAIN active, NEW j \in DOMAIN active, active[i] = active[j]
  PROVE  i = j
  BY DEF IInv, Bookkeeping

LEMMA LiveSlot ==
  ASSUME TypeOK, NEW id \in DOMAIN active
  PROVE  active[id] \in LiveSlots /\ active[id] \in Slot
  BY DEF TypeOK, LiveSlots

LEMMA SafetyInit == Init => IInv
<1> SUFFICES ASSUME Init PROVE IInv
  OBVIOUS
<1>1. TypeOK
  BY TypeInit
<1>2. queue = <<>> /\ Queued = {} /\ DOMAIN active = {} /\ pc = "loop"
  BY DEF Init, Queued
<1>3. QED
  BY <1>1, <1>2 DEF IInv, QueueRefersToLive, HandlerKeepsInstance, LiveIsScheduled,
                    NoLostWakeUp, Bookkeeping

\* Steps that leave the nodes, the queue and the history alone, and move the
\* worker from one place to another.
LEMMA MoveStep ==
  ASSUME IInv, TypeOK',
         UNCHANGED <<mem, active, queue, instance, firing, destroyed, evicted>>,
         \/ pc' = pc
         \/ pc' = "loop" /\ pc \in {"wait", "wait_until"}
         \/ pc' \in {"wait", "wait_until"} /\ pc = "loop"
         \/ pc' = "exited" /\ pc \in {"loop", "handler"},
         NoLostWakeUp'
  PROVE  IInv'
<1>1. Queued' = Queued /\ LiveSlots' = LiveSlots
  BY DEF Queued, LiveSlots
<1>2. QueueRefersToLive'
  BY <1>1 DEF IInv, QueueRefersToLive
<1>3. HandlerKeepsInstance'
  BY DEF IInv, HandlerKeepsInstance, exists
<1>4. LiveIsScheduled'
  BY <1>1 DEF IInv, LiveIsScheduled
<1>5. Bookkeeping'
  BY <1>1 DEF IInv, Bookkeeping
<1>6. QED
  BY <1>2, <1>3, <1>4, <1>5 DEF IInv

LEMMA CreateStep ==
  ASSUME IInv, TypeOK', NEW t \in Thread, CreateImpl(t)
  PROVE  IInv'
<1>1. PICK s \in Slot \ LiveSlots :
        /\ mem' = [mem EXCEPT ![s] =
                    [id |-> nextId, next |-> request[t].next,
                     period |-> request[t].period, running |-> FALSE]]
        /\ active' = [id \in DOMAIN active \cup {nextId} |->
                        IF id = nextId THEN s ELSE active[id]]
        /\ QueueInsert(s, request[t].next)
  BY DEF CreateImpl
<1>2. TypeOK /\ request[t].next \in Nat
  BY DEF IInv, CreateImpl, TypeOK, Request
<1>3. /\ UNCHANGED <<instance, firing, destroyed, evicted>>
      /\ pc' \notin {"wait", "wait_until"}
      /\ pc' = pc \/ (pc' = "loop" /\ pc \in {"wait", "wait_until"})
  BY DEF CreateImpl, HandOutId, NotifyAll
<1>4. \A r \in Slot : r # s => mem'[r] = mem[r]
  BY <1>1, <1>2 DEF TypeOK
<1>5. mem'[s].id = nextId /\ mem'[s].next = request[t].next /\ ~mem'[s].running
  BY <1>1, <1>2 DEF TypeOK
<1>6. \A id \in DOMAIN active :
        /\ id # nextId /\ id \in DOMAIN active' /\ active'[id] = active[id]
        /\ active[id] # s /\ active[id] \in Slot /\ mem'[active[id]] = mem[active[id]]
  BY <1>1, <1>2, <1>4, LiveSlot DEF TypeOK
<1>7. DOMAIN active' = DOMAIN active \cup {nextId} /\ active'[nextId] = s
  BY <1>1
<1>8. Queued' = Queued \cup {s}
  BY <1>1, <1>2, InsertQueued
<1>9. \A r \in Queued : r \in LiveSlots /\ r # s /\ r \in Slot /\ ~mem[r].running
  BY <1>1, <1>2, QueueParts, QueuedType DEF IInv, QueuedLive
<1>10. QueueRefersToLive'
  <2>1. LiveSlots \subseteq LiveSlots' /\ s \in LiveSlots'
    BY <1>6, <1>7 DEF LiveSlots
  <2>2. QueuedLive'
    BY <1>4, <1>5, <1>8, <1>9, <2>1 DEF QueuedLive
  <2>3. Sorted'
    BY <1>1, <1>2, <1>4, <1>5, <1>9, QueueParts, InsertSorted DEF IInv
  <2>4. QED
    BY <2>2, <2>3, QueuePartsNext
<1>11. HandlerKeepsInstance'
  BY <1>3, <1>6 DEF IInv, HandlerKeepsInstance, exists
<1>12. LiveIsScheduled'
  BY <1>3, <1>6, <1>7, <1>8 DEF IInv, LiveIsScheduled
<1>13. NoLostWakeUp'
  BY <1>3 DEF NoLostWakeUp
<1>14. Bookkeeping'
  <2>1. ASSUME NEW id \in DOMAIN active'
        PROVE  /\ mem'[active'[id]].id = id
               /\ mem'[active'[id]].running \/ id \in destroyed' =>
                    id = firing' /\ pc' \in {"handler", "exited"}
    <3>1. CASE id = nextId
      BY <1>2, <1>3, <1>5, <1>7, <3>1 DEF TypeOK
    <3>2. CASE id \in DOMAIN active
      BY <1>3, <1>6, <3>2 DEF IInv, Bookkeeping
    <3>3. QED
      BY <1>7, <3>1, <3>2
  <2>2. ASSUME pc' = "handler"
        PROVE  /\ instance' \notin Queued'
               /\ mem'[instance'].running <=> firing' \notin destroyed'
    <3>1. pc = "handler" /\ firing \in DOMAIN active /\ instance = active[firing]
      BY <1>3, <2>2 DEF IInv, HandlerKeepsInstance, exists
    <3>2. QED
      BY <1>3, <1>6, <1>8, <3>1 DEF IInv, Bookkeeping
  <2>3. QED
    BY <2>1, <2>2 DEF Bookkeeping
<1>15. QED
  BY <1>10, <1>11, <1>12, <1>13, <1>14 DEF IInv

LEMMA DestroyStep ==
  ASSUME SingleDestroy, IInv, TypeOK',
         NEW t \in Thread, NEW id \in DOMAIN active, Destroy(t, id)
  PROVE  IInv'
<1> DEFINE s == active[id]
<1>1. TypeOK /\ s \in Slot /\ s \in LiveSlots
  BY LiveSlot DEF IInv
<1>2. /\ UNCHANGED <<instance, firing>>
      /\ destroyed' = destroyed \cup {id} /\ id \notin destroyed
      /\ pc' \notin {"wait", "wait_until"}
      /\ pc' = pc \/ (pc' = "loop" /\ pc \in {"wait", "wait_until"})
  BY DEF Destroy, NotifyAll
<1>3. NoLostWakeUp'
  BY <1>2 DEF NoLostWakeUp
<1>4. CASE mem[s].running
  <2>1. /\ mem' = [mem EXCEPT ![s].running = FALSE]
        /\ UNCHANGED <<active, queue, evicted>>
    BY <1>4 DEF Destroy
  <2>2. Queued' = Queued /\ LiveSlots' = LiveSlots
    BY <2>1 DEF Queued, LiveSlots
  <2>3. \A r \in Slot : /\ mem'[r].id = mem[r].id /\ mem'[r].next = mem[r].next
                        /\ r # s => mem'[r] = mem[r]
    BY <1>1, <2>1 DEF TypeOK, Instance
  <2>4. ~mem'[s].running
    BY <1>1, <2>1 DEF TypeOK, Instance
  <2>5. id = firing /\ pc \in {"handler", "exited"} /\ pc' = pc
    BY <1>2, <1>4 DEF IInv, Bookkeeping
  <2>6. QueueRefersToLive'
    <3>1. \A i \in 1..Len(queue) : queue[i] \in Slot
      BY <1>1 DEF TypeOK
    <3>2. ASSUME NEW i \in 1..Len(queue)
          PROVE  /\ queue[i] \in LiveSlots /\ ~mem'[queue[i]].running
                 /\ \A j \in 1..(i - 1) :
                      queue[j] # queue[i] /\ mem'[queue[j]].next <= mem'[queue[i]].next
      <4>1. queue[i] \in LiveSlots /\ ~mem[queue[i]].running
        BY DEF IInv, QueueRefersToLive
      <4>2. ~mem'[queue[i]].running
        BY <2>3, <2>4, <3>1, <4>1
      <4>3. ASSUME NEW j \in 1..(i - 1)
            PROVE  queue[j] # queue[i] /\ mem'[queue[j]].next <= mem'[queue[i]].next
        <5>1. j \in 1..Len(queue)
          BY <1>1 DEF TypeOK
        <5>2. queue[j] # queue[i] /\ mem[queue[j]].next <= mem[queue[i]].next
          BY DEF IInv, QueueRefersToLive
        <5>3. QED
          BY <2>3, <3>1, <5>1, <5>2
      <4>4. QED
        BY <4>1, <4>2, <4>3
    <3>3. QED
      BY <2>1, <2>2, <3>2 DEF QueueRefersToLive
  <2>7. HandlerKeepsInstance'
    BY <1>1, <1>2, <2>1, <2>3, <2>5 DEF IInv, HandlerKeepsInstance, exists
  <2>8. LiveIsScheduled'
    BY <1>2, <2>1, <2>2, <2>5 DEF IInv, LiveIsScheduled
  <2>9. Bookkeeping'
    <3>1. ASSUME NEW i \in DOMAIN active'
          PROVE  /\ mem'[active'[i]].id = i
                 /\ mem'[active'[i]].running \/ i \in destroyed' =>
                      i = firing' /\ pc' \in {"handler", "exited"}
      <4>1. active'[i] = active[i] /\ i \in DOMAIN active /\ active[i] \in Slot
        BY <1>1, <2>1, LiveSlot
      <4>2. mem'[active[i]].id = i
        BY <2>3, <4>1 DEF IInv, Bookkeeping
      <4>3. CASE i = id
        BY <1>2, <2>5, <4>1, <4>2, <4>3
      <4>4. CASE i # id
        <5>1. active[i] # s
          BY <4>1, <4>4, OwnNode
        <5>2. QED
          BY <1>2, <2>3, <2>5, <4>1, <4>2, <4>4, <5>1 DEF IInv, Bookkeeping
      <4>5. QED
        BY <4>3, <4>4
    <3>2. ASSUME pc' = "handler"
          PROVE  /\ instance' \notin Queued'
                 /\ mem'[instance'].running <=> firing' \notin destroyed'
      <4>1. pc = "handler" /\ instance = s /\ instance \notin Queued
        BY <2>5, <3>2 DEF IInv, HandlerKeepsInstance, Bookkeeping
      <4>2. QED
        BY <1>2, <2>2, <2>4, <2>5, <4>1
    <3>3. QED
      BY <3>1, <3>2 DEF Bookkeeping
  <2>10. QED
    BY <1>3, <2>6, <2>7, <2>8, <2>9 DEF IInv
<1>5. CASE ~mem[s].running
  <2>1. /\ QueueErase(mem[s].next)
        /\ active' = Erase(id)
        /\ evicted' = evicted \cup
             {mem[r].id : r \in {q \in Queued \ {s} : mem[q].next = mem[s].next}}
        /\ mem' = mem
    BY <1>5 DEF Destroy
  <2>2. Queued' = {r \in Queued : mem[r].next # mem[s].next}
    BY <1>1, <2>1, CutQueued
  <2>3. DOMAIN active' = DOMAIN active \ {id} /\ \A i \in DOMAIN active' : active'[i] = active[i]
    BY <2>1 DEF Erase
  <2>4. \A i \in DOMAIN active : i # id => active[i] # s
    BY OwnNode
  <2>5. pc = "handler" => firing # id
    BY <1>2, <1>5 DEF IInv, HandlerKeepsInstance, Bookkeeping
  <2>6. QueueRefersToLive'
    <3>1. ASSUME NEW r \in Queued' PROVE r \in LiveSlots' /\ ~mem'[r].running
      <4>1. r \in Queued /\ r # s
        BY <2>2
      <4>2. r \in LiveSlots /\ ~mem[r].running
        BY <4>1, QueueParts DEF IInv, QueuedLive
      <4>3. PICK i \in DOMAIN active : r = active[i]
        BY <4>2 DEF LiveSlots
      <4>4. i \in DOMAIN active' /\ r = active'[i]
        BY <2>3, <4>1, <4>3
      <4>5. QED
        BY <2>1, <4>2, <4>4 DEF LiveSlots
    <3>2. QueuedLive'
      BY <3>1 DEF QueuedLive
    <3>3. Sorted'
      BY <1>1, <2>1, CutSorted, QueueParts DEF IInv
    <3>4. QED
      BY <3>2, <3>3, QueuePartsNext
  <2>7. HandlerKeepsInstance'
    BY <1>2, <2>1, <2>3, <2>5 DEF IInv, HandlerKeepsInstance, exists
  <2>8. LiveIsScheduled'
    <3>1. SUFFICES ASSUME NEW i \in DOMAIN active'
                   PROVE  \/ active'[i] \in Queued'
                          \/ i = firing' /\ pc' \in {"handler", "exited"}
                          \/ i \in evicted'
      BY DEF LiveIsScheduled
    <3>2. i \in DOMAIN active /\ active'[i] = active[i] /\ active[i] # s
      BY <2>3, <2>4
    <3>3. CASE active[i] \in Queued /\ mem[active[i]].next = mem[s].next
      <4>1. mem[active[i]].id = i
        BY <3>2 DEF IInv, Bookkeeping
      <4>2. QED
        BY <2>1, <3>2, <3>3, <4>1
    <3>4. CASE active[i] \in Queued /\ mem[active[i]].next # mem[s].next
      BY <2>2, <3>2, <3>4
    <3>5. CASE active[i] \notin Queued
      BY <1>2, <2>1, <3>2, <3>5 DEF IInv, LiveIsScheduled
    <3>6. QED
      BY <3>3, <3>4, <3>5
  <2>9. Bookkeeping'
    <3>1. ASSUME NEW i \in DOMAIN active'
          PROVE  /\ mem'[active'[i]].id = i
                 /\ mem'[active'[i]].running \/ i \in destroyed' =>
                      i = firing' /\ pc' \in {"handler", "exited"}
      BY <1>2, <2>1, <2>3 DEF IInv, Bookkeeping
    <3>2. ASSUME pc' = "handler"
          PROVE  /\ instance' \notin Queued'
                 /\ mem'[instance'].running <=> firing' \notin destroyed'
      BY <1>2, <2>1, <2>2, <2>5, <3>2 DEF IInv, Bookkeeping
    <3>3. QED
      BY <3>1, <3>2 DEF Bookkeeping
  <2>10. QED
    BY <1>3, <2>6, <2>7, <2>8, <2>9 DEF IInv
<1>6. QED
  BY <1>4, <1>5

\* The worker takes the first reference: it is to a live, undestroyed timer.
LEMMA FirstIsLive ==
  ASSUME IInv, pc = "loop", queue # <<>>
  PROVE  \E id \in DOMAIN active :
           /\ queue[1] = active[id] /\ mem[queue[1]].id = id
           /\ id \notin destroyed /\ ~mem[queue[1]].running
<1>1. 1 \in 1..Len(queue)
  BY DEF IInv, TypeOK
<1>2. queue[1] \in LiveSlots /\ ~mem[queue[1]].running
  BY <1>1 DEF IInv, QueueRefersToLive
<1>3. PICK id \in DOMAIN active : queue[1] = active[id]
  BY <1>2 DEF LiveSlots
<1>4. mem[queue[1]].id = id /\ id \notin destroyed
  BY <1>3 DEF IInv, Bookkeeping
<1>5. QED
  BY <1>2, <1>3, <1>4

LEMMA CallHandlerStep ==
  ASSUME IInv, TypeOK', CallHandler
  PROVE  IInv'
<1> DEFINE s == queue[1]
<1>1. /\ pc = "loop" /\ queue # <<>> /\ queue' = Tail(queue)
      /\ mem' = [mem EXCEPT ![s].running = TRUE]
      /\ pc' = "handler" /\ instance' = s /\ firing' = mem[s].id
      /\ UNCHANGED <<active, destroyed, evicted>>
  BY DEF CallHandler
<1>2. TypeOK /\ Sorted /\ QueuedLive
  BY QueueParts DEF IInv
<1>3. PICK id \in DOMAIN active :
        /\ s = active[id] /\ mem[s].id = id
        /\ id \notin destroyed /\ ~mem[s].running
  BY <1>1, FirstIsLive
<1>4. /\ s \in Queued /\ s \in Slot /\ Queued' = Queued \ {s}
      /\ \A i \in 1..Len(queue') : i + 1 \in 1..Len(queue) /\ queue'[i] = queue[i + 1]
  BY <1>1, <1>2, TailQueued
<1>5. /\ \A r \in Slot : /\ mem'[r].id = mem[r].id /\ mem'[r].next = mem[r].next
                         /\ r # s => mem'[r] = mem[r]
      /\ mem'[s].running
  <2>1. mem \in [Slot -> Instance] /\ s \in Slot /\ mem' = [mem EXCEPT ![s].running = TRUE]
    BY <1>1, <1>2, <1>4 DEF TypeOK
  <2>2. QED
    BY <2>1 DEF Instance
<1>6. QueueRefersToLive'
  <2>1. LiveSlots' = LiveSlots
    BY <1>1 DEF LiveSlots
  <2>2. QueuedLive'
    BY <1>2, <1>4, <1>5, <2>1, QueuedType DEF QueuedLive
  <2>3. ASSUME NEW i \in 1..Len(queue'), NEW j \in 1..(i - 1)
        PROVE  queue'[j] # queue'[i] /\ mem'[queue'[j]].next <= mem'[queue'[i]].next
    <3>1. /\ i + 1 \in 1..Len(queue) /\ queue'[i] = queue[i + 1]
          /\ j + 1 \in 1..((i + 1) - 1)
      BY <1>4
    <3>2. j \in 1..Len(queue')
      BY DEF TypeOK
    <3>3. j + 1 \in 1..Len(queue) /\ queue'[j] = queue[j + 1]
      BY <1>4, <3>2
    <3>4. queue[j + 1] # queue[i + 1] /\ mem[queue[j + 1]].next <= mem[queue[i + 1]].next
      BY <1>2, <3>1 DEF Sorted
    <3>5. queue[i + 1] \in Slot /\ queue[j + 1] \in Slot
      <4>1. queue \in Seq(Slot)
        BY <1>2 DEF TypeOK
      <4>2. QED
        BY <3>1, <3>3, <4>1, ElementOfSeq
    <3>6. QED
      BY <1>5, <3>1, <3>3, <3>4, <3>5
  <2>4. Sorted'
    BY <2>3 DEF Sorted
  <2>5. QED
    BY <2>2, <2>4, QueuePartsNext
<1>7. HandlerKeepsInstance'
  BY <1>1, <1>3, <1>4, <1>5 DEF HandlerKeepsInstance, exists
<1>8. LiveIsScheduled'
  <2>1. ASSUME NEW i \in DOMAIN active, active[i] = s PROVE i = id
    BY <1>3, <2>1, OwnNode
  <2>2. QED
    BY <1>1, <1>3, <1>4, <2>1 DEF IInv, LiveIsScheduled
<1>9. NoLostWakeUp'
  BY <1>1 DEF NoLostWakeUp
<1>10. Bookkeeping'
  <2>1. ASSUME NEW i \in DOMAIN active'
        PROVE  /\ mem'[active'[i]].id = i
               /\ mem'[active'[i]].running \/ i \in destroyed' =>
                    i = firing' /\ pc' \in {"handler", "exited"}
    <3>1. i \in DOMAIN active /\ active'[i] = active[i] /\ active[i] \in Slot
      BY <1>1, <1>2, LiveSlot
    <3>2. mem[active[i]].id = i /\ ~mem[active[i]].running /\ i \notin destroyed
      BY <1>1, <3>1 DEF IInv, Bookkeeping
    <3>3. CASE active[i] = s
      BY <1>1, <1>5, <3>1, <3>2, <3>3
    <3>4. CASE active[i] # s
      BY <1>1, <1>5, <3>1, <3>2, <3>4
    <3>5. QED
      BY <3>3, <3>4
  <2>2. QED
    BY <1>1, <1>3, <1>4, <1>5, <2>1 DEF Bookkeeping
<1>11. QED
  BY <1>6, <1>7, <1>8, <1>9, <1>10 DEF IInv

\* What the worker finds when a handler returns.
LEMMA AfterHandler ==
  ASSUME IInv, HandlerReturned
  PROVE  /\ instance \in Slot /\ firing \in DOMAIN active
         /\ active[firing] = instance /\ mem[instance].id = firing
         /\ instance \notin Queued
         /\ mem[instance].running <=> firing \notin destroyed
         /\ \A i \in DOMAIN active : i # firing =>
              /\ active[i] # instance
              /\ ~mem[active[i]].running
              /\ i \notin destroyed
         /\ \A r \in Queued : r # instance /\ r \in Slot /\ r \in LiveSlots /\ ~mem[r].running
<1>1. pc = "handler"
  BY DEF HandlerReturned
<1>2. /\ instance \in Slot /\ firing \in DOMAIN active
      /\ active[firing] = instance /\ mem[instance].id = firing
      /\ instance \notin Queued
      /\ mem[instance].running <=> firing \notin destroyed
  BY <1>1 DEF IInv, TypeOK, HandlerKeepsInstance, Bookkeeping, exists
<1>3. ASSUME NEW i \in DOMAIN active, i # firing
      PROVE  active[i] # instance /\ ~mem[active[i]].running /\ i \notin destroyed
  BY <1>2, <1>3, OwnNode DEF IInv, Bookkeeping
<1>4. ASSUME NEW r \in Queued
      PROVE  r # instance /\ r \in Slot /\ r \in LiveSlots /\ ~mem[r].running
  BY <1>2, QueueParts, QueuedType DEF IInv, QueuedLive
<1>5. QED
  BY <1>2, <1>3, <1>4

LEMMA RetireStep ==
  ASSUME IInv, TypeOK', Retire
  PROVE  IInv'
<1>1. /\ mem' = [mem EXCEPT ![instance].running = FALSE]
      /\ active' = Erase(mem[instance].id)
      /\ pc' = "loop"
      /\ UNCHANGED <<queue, instance, firing, destroyed, evicted>>
  BY DEF Retire
<1>2. HandlerReturned /\ TypeOK
  BY DEF Retire, IInv
<1>3. /\ DOMAIN active' = DOMAIN active \ {firing}
      /\ \A i \in DOMAIN active' : active'[i] = active[i]
  BY <1>1, <1>2, AfterHandler DEF Erase
<1>4. \A r \in Slot : mem'[r].next = mem[r].next /\ (r # instance => mem'[r] = mem[r])
  BY <1>1, <1>2 DEF TypeOK, Instance
<1>5. Queued' = Queued
  BY <1>1 DEF Queued
<1>6. QueueRefersToLive'
  <2>1. ASSUME NEW r \in Queued PROVE r \in LiveSlots' /\ ~mem'[r].running
    <3>1. r # instance /\ r \in Slot /\ r \in LiveSlots /\ ~mem[r].running
      BY <1>2, AfterHandler
    <3>2. PICK i \in DOMAIN active : r = active[i]
      BY <3>1 DEF LiveSlots
    <3>3. i \in DOMAIN active' /\ r = active'[i]
      BY <1>2, <1>3, <3>1, <3>2, AfterHandler
    <3>4. QED
      BY <1>4, <3>1, <3>3 DEF LiveSlots
  <2>2. QueuedLive'
    BY <1>5, <2>1 DEF QueuedLive
  <2>3. ASSUME NEW i \in 1..Len(queue), NEW j \in 1..(i - 1)
        PROVE  queue[j] # queue[i] /\ mem'[queue[j]].next <= mem'[queue[i]].next
    <3>1. queue[j] # queue[i] /\ mem[queue[j]].next <= mem[queue[i]].next
      BY DEF IInv, QueueRefersToLive
    <3>2. j \in 1..Len(queue)
      BY <1>2 DEF TypeOK
    <3>3. queue[i] \in Slot /\ queue[j] \in Slot
      BY <1>2, <3>2 DEF TypeOK
    <3>4. QED
      BY <1>4, <3>1, <3>3
  <2>4. Sorted'
    BY <1>1, <2>3 DEF Sorted
  <2>5. QED
    BY <2>2, <2>4, QueuePartsNext
<1>7. HandlerKeepsInstance' /\ NoLostWakeUp'
  BY <1>1 DEF HandlerKeepsInstance, NoLostWakeUp
<1>8. LiveIsScheduled'
  BY <1>1, <1>3, <1>5 DEF IInv, LiveIsScheduled
<1>9. Bookkeeping'
  <2>1. ASSUME NEW i \in DOMAIN active'
        PROVE  mem'[active'[i]].id = i /\ ~mem'[active'[i]].running /\ i \notin destroyed'
    <3>1. /\ i \in DOMAIN active /\ active'[i] = active[i] /\ active[i] \in Slot
          /\ active[i] # instance /\ ~mem[active[i]].running /\ i \notin destroyed
      BY <1>2, <1>3, AfterHandler, LiveSlot
    <3>2. mem[active[i]].id = i
      BY <3>1 DEF IInv, Bookkeeping
    <3>3. QED
      BY <1>1, <1>4, <3>1, <3>2
  <2>2. QED
    BY <1>1, <2>1 DEF Bookkeeping
<1>10. QED
  BY <1>6, <1>7, <1>8, <1>9 DEF IInv

LEMMA RearmStep ==
  ASSUME IInv, TypeOK', Rearm
  PROVE  IInv'
<1> DEFINE next == mem[instance].next + mem[instance].period
<1>1. /\ mem' = [mem EXCEPT ![instance].running = FALSE, ![instance].next = next]
      /\ QueueInsert(instance, next)
      /\ mem[instance].running
      /\ pc' = "loop"
      /\ UNCHANGED <<active, instance, firing, destroyed, evicted>>
  BY DEF Rearm
<1>2. HandlerReturned /\ TypeOK /\ Sorted
  BY QueueParts DEF Rearm, IInv
<1>3. instance \in Slot /\ mem \in [Slot -> Instance] /\ next \in Nat
  <2>1. instance \in Slot /\ mem \in [Slot -> Instance]
    BY <1>2 DEF HandlerReturned, TypeOK
  <2>2. QED
    BY <2>1 DEF Instance
<1>4. /\ \A r \in Slot : mem'[r].id = mem[r].id /\ (r # instance => mem'[r] = mem[r])
      /\ mem'[instance].next = next /\ ~mem'[instance].running
  BY <1>1, <1>3 DEF Instance
<1>5. Queued' = Queued \cup {instance}
  BY <1>1, <1>2, <1>3, InsertQueued
<1>6. QueueRefersToLive'
  <2>1. LiveSlots' = LiveSlots /\ instance \in LiveSlots
    BY <1>1, <1>2, AfterHandler DEF LiveSlots
  <2>2. QueuedLive'
    BY <1>2, <1>4, <1>5, <2>1, AfterHandler DEF QueuedLive
  <2>3. instance \notin Queued /\ \A r \in Queued : mem'[r].next = mem[r].next
    BY <1>2, <1>4, AfterHandler
  <2>4. Sorted'
    BY <1>1, <1>2, <1>3, <1>4, <2>3, InsertSorted
  <2>5. QED
    BY <2>2, <2>4, QueuePartsNext
<1>7. HandlerKeepsInstance' /\ NoLostWakeUp'
  BY <1>1 DEF HandlerKeepsInstance, NoLostWakeUp
<1>8. LiveIsScheduled'
  BY <1>1, <1>2, <1>5, AfterHandler DEF IInv, LiveIsScheduled
<1>9. Bookkeeping'
  <2>1. ASSUME NEW i \in DOMAIN active'
        PROVE  mem'[active'[i]].id = i /\ ~mem'[active'[i]].running /\ i \notin destroyed'
    <3>1. i \in DOMAIN active /\ active'[i] = active[i] /\ active[i] \in Slot
      BY <1>1, <1>2, LiveSlot
    <3>2. mem[active[i]].id = i
      BY <3>1 DEF IInv, Bookkeeping
    <3>3. CASE i = firing
      BY <1>1, <1>2, <1>4, <3>1, <3>2, <3>3, AfterHandler
    <3>4. CASE i # firing
      <4>1. active[i] # instance /\ ~mem[active[i]].running /\ i \notin destroyed
        BY <1>2, <3>1, <3>4, AfterHandler
      <4>2. mem'[active[i]] = mem[active[i]]
        BY <1>4, <3>1, <4>1
      <4>3. QED
        BY <1>1, <3>1, <3>2, <4>1, <4>2
    <3>5. QED
      BY <3>3, <3>4
  <2>2. QED
    BY <1>1, <2>1 DEF Bookkeeping
<1>10. QED
  BY <1>6, <1>7, <1>8, <1>9 DEF IInv

LEMMA SafetyStep == SingleDestroy /\ IInv /\ [Next]_vars => IInv'
<1> SUFFICES ASSUME SingleDestroy, IInv, [Next]_vars PROVE IInv'
  OBVIOUS
<1>1. TypeOK' /\ NoLostWakeUp
  BY TypeStep DEF IInv
<1>2. CASE Tick
  BY <1>1, <1>2, MoveStep DEF Tick, NoLostWakeUp
<1>3. ASSUME NEW t \in Thread, NEW delay \in Delay, NEW period \in Period,
             CallCreate(t, delay, period)
      PROVE  IInv'
  BY <1>1, <1>3, MoveStep DEF CallCreate, NoLostWakeUp
<1>4. ASSUME NEW t \in Thread, CreateImpl(t)
      PROVE  IInv'
  BY <1>1, <1>4, CreateStep
<1>5. ASSUME NEW t \in Thread, NEW id \in DOMAIN active, Destroy(t, id)
      PROVE  IInv'
  BY <1>1, <1>5, DestroyStep
<1>6. CASE BeginDestructor
  BY <1>1, <1>6, MoveStep DEF BeginDestructor, NotifyAll, NoLostWakeUp
<1>7. CASE SpuriousWakeUp
  BY <1>1, <1>7, MoveStep DEF SpuriousWakeUp, NoLostWakeUp
<1>8. CASE WaitForWork
  BY <1>1, <1>8, MoveStep DEF WaitForWork, NoLostWakeUp
<1>9. CASE WaitUntilDue
  BY <1>1, <1>9, MoveStep DEF WaitUntilDue, NoLostWakeUp
<1>10. CASE Timeout
  BY <1>1, <1>10, MoveStep DEF Timeout, NoLostWakeUp
<1>11. CASE CallHandler
  BY <1>1, <1>11, CallHandlerStep
<1>12. CASE ExitAfterHandler
  BY <1>1, <1>12, MoveStep DEF ExitAfterHandler, HandlerReturned, NoLostWakeUp
<1>13. CASE Retire
  BY <1>1, <1>13, RetireStep
<1>14. CASE Rearm
  BY <1>1, <1>14, RearmStep
<1>15. CASE Exit
  BY <1>1, <1>15, MoveStep DEF Exit, NoLostWakeUp
<1>16. CASE UNCHANGED vars
  BY <1>1, <1>16, MoveStep DEF vars, NoLostWakeUp
<1>17. QED
  BY <1>2, <1>3, <1>4, <1>5, <1>6, <1>7, <1>8, <1>9, <1>10, <1>11, <1>12,
     <1>13, <1>14, <1>15, <1>16 DEF Next, WorkerStep

-----------------------------------------------------------------------------
(***************************************************************************)
(* The theorems, for users that destroy a timer at most once.              *)
(***************************************************************************)
LEMMA Inductive == ASSUME SingleDestroy PROVE Spec => []IInv
<1>1. Init => IInv
  BY SafetyInit
<1>2. IInv /\ [Next]_vars => IInv'
  BY SafetyStep
<1>3. QED
  BY <1>1, <1>2, PTL DEF Spec

\* The queue only ever refers to nodes of live timers that are not running, each
\* once, in the order of their deadlines: threadStart never dereferences a
\* dangling queue.begin().
THEOREM QueueIsSound == ASSUME SingleDestroy PROVE Spec => []QueueRefersToLive
<1>1. IInv => QueueRefersToLive
  BY DEF IInv
<1>2. QED
  BY <1>1, Inductive, PTL

\* The reference threadStart holds across the unlocked call of a handler stays
\* valid, whatever is created and destroyed meanwhile.
THEOREM InstanceIsSound == ASSUME SingleDestroy PROVE Spec => []HandlerKeepsInstance
<1>1. IInv => HandlerKeepsInstance
  BY DEF IInv
<1>2. QED
  BY <1>1, Inductive, PTL

\* A timer of the map is queued, with the worker, or was evicted by the destroy
\* of another timer with the same deadline: nothing else loses a timer.
THEOREM NothingElseSilences == ASSUME SingleDestroy PROVE Spec => []LiveIsScheduled
<1>1. IInv => LiveIsScheduled
  BY DEF IInv
<1>2. QED
  BY <1>1, Inductive, PTL

\* No wake-up is lost: the worker waits for work only if there is none, and until
\* a deadline only if it is still the earliest.
THEOREM WakeUpsArrive == ASSUME SingleDestroy PROVE Spec => []NoLostWakeUp
<1>1. IInv => NoLostWakeUp
  BY DEF IInv
<1>2. QED
  BY <1>1, Inductive, PTL

LEMMA OnlyCallHandlerStarts ==
  ASSUME [Next]_vars, HandlerStarts
  PROVE  CallHandler
  BY DEF Next, WorkerStep, vars, HandlerStarts, Tick, CallCreate, CreateImpl, Destroy,
         BeginDestructor, NotifyAll, SpuriousWakeUp, WaitForWork, WaitUntilDue, Timeout,
         ExitAfterHandler, Retire, Rearm, Exit

\* Once destroy has returned true, no handler of that timer starts.
THEOREM DestroyHolds == ASSUME SingleDestroy PROVE Spec => DestroyIsFinal
<1>1. IInv /\ [Next]_vars => [HandlerStarts => firing' \notin destroyed]_vars
  <2>1. SUFFICES ASSUME IInv, [Next]_vars, HandlerStarts PROVE firing' \notin destroyed
    OBVIOUS
  <2>2. CallHandler
    BY <2>1, OnlyCallHandlerStarts
  <2>3. QED
    BY <2>1, <2>2, FirstIsLive DEF CallHandler
<1>2. QED
  BY <1>1, Inductive, PTL DEF Spec, DestroyIsFinal

\* Handlers start no earlier than their deadline, and earliest deadline first.
THEOREM DeadlinesAreOrdered == ASSUME SingleDestroy PROVE Spec => EarliestDeadlineFirst
<1> DEFINE A == /\ mem[instance'].next <= clock
                /\ \A id \in DOMAIN active \ evicted :
                     mem[instance'].next <= mem[active[id]].next
<1>1. IInv /\ [Next]_vars => [HandlerStarts => A]_vars
  <2>1. SUFFICES ASSUME IInv, [Next]_vars, HandlerStarts PROVE A
    OBVIOUS
  <2>2. CallHandler
    BY <2>1, OnlyCallHandlerStarts
  <2>3. instance' = queue[1] /\ pc = "loop" /\ queue \in Seq(Slot) /\ queue # <<>>
    BY <2>1, <2>2 DEF CallHandler, IInv, TypeOK
  <2>4. mem[queue[1]].next <= clock
    <3>1. queue[1] \in Queued /\ clock \in Nat
      BY <2>1, <2>3 DEF Queued, IInv, TypeOK
    <3>2. mem[queue[1]].next \in Nat
      BY <2>1, <3>1, QueuedType DEF IInv
    <3>3. QED
      BY <2>2, <3>1, <3>2 DEF CallHandler
  <2>5. ASSUME NEW id \in DOMAIN active \ evicted
        PROVE  mem[queue[1]].next <= mem[active[id]].next
    <3>1. active[id] \in Queued
      BY <2>1, <2>3 DEF IInv, LiveIsScheduled
    <3>2. PICK i \in 1..Len(queue) : active[id] = queue[i]
      BY <3>1 DEF Queued
    <3>3. CASE i = 1
      BY <2>1, <3>1, <3>2, <3>3, QueuedType DEF IInv
    <3>4. CASE i # 1
      <4>1. 1 \in 1..(i - 1)
        BY <2>3, <3>4
      <4>2. QED
        BY <2>1, <3>2, <4>1 DEF IInv, QueueRefersToLive
    <3>5. QED
      BY <3>3, <3>4
  <2>6. QED
    BY <2>3, <2>4, <2>5
<1>2. QED
  BY <1>1, Inductive, PTL DEF Spec, EarliestDeadlineFirst

-----------------------------------------------------------------------------
(***************************************************************************)
(* Timer implements TimerService: every action of Timer is an action of    *)
(* the service, under the mapping of Service, or leaves it unchanged.      *)
(***************************************************************************)
\* The armed timers are the live ones whose node is queued.
LEMMA ArmedIsQueued ==
  ASSUME IInv
  PROVE  /\ ArmedIds = {id \in DOMAIN active : active[id] \in Queued}
         /\ \A s \in Queued : \E id \in ArmedIds : s = active[id] /\ mem[s].id = id
<1>1. ASSUME NEW s \in Queued
      PROVE  \E id \in DOMAIN active : s = active[id] /\ mem[s].id = id
  <2>1. s \in LiveSlots
    BY QueueParts DEF IInv, QueuedLive
  <2>2. PICK id \in DOMAIN active : s = active[id]
    BY <2>1 DEF LiveSlots
  <2>3. QED
    BY <2>2 DEF IInv, Bookkeeping
<1>2. \A id \in DOMAIN active : mem[active[id]].id = id
  BY DEF IInv, Bookkeeping
<1>3. QED
  BY <1>1, <1>2 DEF ArmedIds

\* A step after which the same timers are armed, with the same alarms.
LEMMA ArmedStays ==
  ASSUME IInv, IInv', Queued' = Queued,
         \A s \in Queued : /\ mem'[s].id = mem[s].id
                           /\ mem'[s].next = mem[s].next
                           /\ mem'[s].period = mem[s].period,
         \A id \in ArmedIds : id \in DOMAIN active' /\ active'[id] = active[id]
  PROVE  Armed' = Armed
<1>1. ArmedIds' = ArmedIds
  BY DEF ArmedIds
<1>2. \A id \in ArmedIds : active[id] \in Queued
  BY ArmedIsQueued
<1>3. \A id \in ArmedIds : AlarmOf(active[id])' = AlarmOf(active[id])
  BY <1>2 DEF AlarmOf
<1>4. QED
  BY <1>1, <1>3 DEF Armed

LEMMA FiringIsSome == ASSUME IInv, pc = "handler" PROVE Firing # None
<1>1. instance \in Slot /\ mem[instance] \in Instance /\ firing \in Nat
  BY DEF IInv, TypeOK, HandlerKeepsInstance, exists
<1>2. Firing \in [id : Nat, alarm : [next : Nat, period : Nat], cancelled : BOOLEAN]
  BY <1>1 DEF Firing, AlarmOf, Instance
<1>3. QED
  BY <1>2, TimerAssumption DEF TimerAssumption

LEMMA FiringIs ==
  ASSUME pc = "handler", NEW c \in BOOLEAN, c <=> ~mem[instance].running
  PROVE  Firing = [id |-> firing, alarm |-> AlarmOf(instance), cancelled |-> c]
<1>1. c = ~mem[instance].running
  OBVIOUS
<1>2. QED
  BY <1>1 DEF Firing

LEMMA SetCancelled ==
  ASSUME NEW i, NEW a, NEW c, NEW d
  PROVE  [[id |-> i, alarm |-> a, cancelled |-> c] EXCEPT !.cancelled = d]
           = [id |-> i, alarm |-> a, cancelled |-> d]
  OBVIOUS

LEMMA FiringStays ==
  ASSUME UNCHANGED <<mem, instance, firing>>, pc' = "handler" <=> pc = "handler"
  PROVE  Firing' = Firing
  BY DEF Firing, AlarmOf

\* Steps that touch neither the nodes nor the queue, nor enter or leave a handler.
LEMMA MappingStays ==
  ASSUME UNCHANGED <<mem, active, queue, instance, firing>>, pc' = "handler" <=> pc = "handler"
  PROVE  Armed' = Armed /\ Firing' = Firing
<1>1. Queued' = Queued
  BY DEF Queued
<1>2. Armed' = Armed
  BY <1>1 DEF Armed, ArmedIds, AlarmOf
<1>3. QED
  BY <1>2, FiringStays

LEMMA ArmedDomain == DOMAIN Armed = ArmedIds /\ (DOMAIN Armed)' = ArmedIds'
  BY DEF Armed

LEMMA MapCreate ==
  ASSUME IInv, IInv', NEW t \in Thread, CreateImpl(t)
  PROVE  Service!Arm
<1>1. PICK s \in Slot \ LiveSlots :
        /\ mem' = [mem EXCEPT ![s] =
                    [id |-> nextId, next |-> request[t].next,
                     period |-> request[t].period, running |-> FALSE]]
        /\ active' = [id \in DOMAIN active \cup {nextId} |->
                        IF id = nextId THEN s ELSE active[id]]
        /\ QueueInsert(s, request[t].next)
  BY DEF CreateImpl
<1>2. /\ UNCHANGED <<clock, done, instance, firing>> /\ nextId' = nextId + 1
      /\ pc' = "handler" <=> pc = "handler"
  BY DEF CreateImpl, HandOutId, NotifyAll
<1>3. TypeOK /\ s \in Slot
  BY <1>1 DEF IInv
<1>4. /\ \A r \in Slot : r # s => mem'[r] = mem[r]
      /\ mem'[s].id = nextId /\ active'[nextId] = s
      /\ \A id \in DOMAIN active :
           id \in 1..(nextId - 1) /\ id # nextId /\ active'[id] = active[id]
  BY <1>1, <1>3 DEF TypeOK
<1>5. Queued' = Queued \cup {s}
  BY <1>1, <1>3, InsertQueued
<1>6. \A r \in Queued : r \in Slot /\ r # s
  BY <1>1, <1>3, QueueParts, QueuedType DEF IInv, QueuedLive
<1>7. ArmedIds' = ArmedIds \cup {nextId}
  <2>1. \A r \in Queued : mem'[r].id = mem[r].id
    BY <1>4, <1>6
  <2>2. QED
    BY <1>4, <1>5, <2>1 DEF ArmedIds
<1>8. \A id \in ArmedIds : Armed'[id] = Armed[id]
  <2>1. SUFFICES ASSUME NEW id \in ArmedIds PROVE Armed'[id] = Armed[id]
    OBVIOUS
  <2>2. id \in DOMAIN active /\ active[id] \in Queued
    BY ArmedIsQueued
  <2>3. active'[id] = active[id] /\ mem'[active[id]] = mem[active[id]]
    BY <1>4, <1>6, <2>2
  <2>4. QED
    BY <1>7, <2>3 DEF Armed, AlarmOf
<1>9. Armed' = [i \in ArmedIds \cup {nextId} |-> IF i = nextId THEN Armed'[nextId] ELSE Armed[i]]
  BY <1>7, <1>8 DEF Armed
<1>10. Known' = Known \cup {nextId} /\ nextId \notin Known
  BY <1>2, <1>3 DEF Known, TypeOK
<1>11. Firing' = Firing
  <2>1. CASE pc = "handler"
    <3>1. instance \in LiveSlots /\ instance \in Slot
      BY <1>3, <2>1 DEF IInv, HandlerKeepsInstance, exists, LiveSlots, TypeOK
    <3>2. mem'[instance] = mem[instance]
      BY <1>1, <1>4, <3>1
    <3>3. QED
      BY <1>2, <2>1, <3>2 DEF Firing, AlarmOf
  <2>2. QED
    BY <1>2, <2>1 DEF Firing
<1>12. nextId \in (DOMAIN Armed)' \ Known
  BY <1>7, <1>10, ArmedDomain
<1>13. QED
  BY <1>2, <1>9, <1>10, <1>11, <1>12, ArmedDomain DEF Service!Arm, Service!With

\* A destroy in the handler cancels what fires; otherwise the queued timers
\* of that deadline are disarmed, which may be none.
LEMMA MapDestroy ==
  ASSUME IInv, IInv', NEW t \in Thread, NEW id \in DOMAIN active, Destroy(t, id)
  PROVE  Service!CancelFiring \/ Service!CancelArmed \/ UNCHANGED Service!vars
<1> DEFINE s == active[id]
<1>1. TypeOK /\ s \in Slot /\ mem[s].id = id /\ mem \in [Slot -> Instance]
  BY LiveSlot DEF IInv, Bookkeeping, TypeOK
<1>2. /\ UNCHANGED <<clock, nextId, done, instance, firing>>
      /\ pc' = "handler" <=> pc = "handler"
      /\ Known' = Known
  BY DEF Destroy, NotifyAll, Known
<1>3. CASE mem[s].running
  <2>1. /\ mem' = [mem EXCEPT ![s].running = FALSE]
        /\ UNCHANGED <<active, queue>>
    BY <1>3 DEF Destroy
  <2>2. \A r \in Slot : /\ mem'[r].id = mem[r].id /\ mem'[r].next = mem[r].next
                        /\ mem'[r].period = mem[r].period
    BY <1>1, <2>1 DEF Instance
  <2>3. Queued' = Queued /\ \A r \in Queued : r \in Slot
    BY <1>1, <2>1, QueuedType DEF Queued
  <2>4. Armed' = Armed
    BY <2>1, <2>2, <2>3, ArmedStays, ArmedIsQueued
  <2>5. id = firing
    BY <1>3 DEF IInv, Bookkeeping
  <2>6. CASE pc = "handler"
    <3>1. instance = s /\ ~mem'[s].running
      BY <1>1, <2>1, <2>5, <2>6 DEF IInv, HandlerKeepsInstance
    <3>2. Firing = [id |-> firing, alarm |-> AlarmOf(s), cancelled |-> FALSE]
      BY <1>3, <2>6, <3>1, FiringIs
    <3>3. Firing' = [id |-> firing, alarm |-> AlarmOf(s)', cancelled |-> TRUE]
      <4>1. /\ Firing' = [id |-> firing, alarm |-> AlarmOf(instance)',
                          cancelled |-> ~mem'[instance].running]
            /\ ~mem'[instance].running = TRUE
        BY <1>2, <2>6, <3>1 DEF Firing
      <4>2. AlarmOf(instance)' = AlarmOf(s)'
        BY <1>2, <2>1, <3>1 DEF AlarmOf
      <4>3. QED
        BY <4>1, <4>2
    <3>4. AlarmOf(s)' = AlarmOf(s)
      BY <1>1, <2>1, <2>2 DEF AlarmOf
    <3>5. Firing' = [Firing EXCEPT !.cancelled = TRUE]
      <4>1. Firing' = [id |-> firing, alarm |-> AlarmOf(s), cancelled |-> TRUE]
        BY <3>3, <3>4, Zenon
      <4>2. [Firing EXCEPT !.cancelled = TRUE]
              = [[id |-> firing, alarm |-> AlarmOf(s), cancelled |-> FALSE] EXCEPT !.cancelled = TRUE]
        BY <3>2, Zenon
      <4>3. @ = [id |-> firing, alarm |-> AlarmOf(s), cancelled |-> TRUE]
        BY SetCancelled, Zenon
      <4>4. QED
        BY <4>1, <4>2, <4>3, Zenon
    <3>6. Firing # None
      BY <2>6, FiringIsSome
    <3>7. QED
      BY <1>2, <2>4, <3>5, <3>6 DEF Service!CancelFiring
  <2>7. CASE pc # "handler"
    BY <1>2, <2>4, <2>7 DEF Firing, Service!vars
  <2>8. QED
    BY <2>6, <2>7
<1>4. CASE ~mem[s].running
  <2> DEFINE next == mem[s].next
  <2>1. QueueErase(next) /\ active' = Erase(id) /\ mem' = mem
    BY <1>4 DEF Destroy
  <2>2. Queued' = {r \in Queued : mem[r].next # next}
    BY <1>1, <2>1, CutQueued
  <2>3. \A i \in DOMAIN active \ {id} : i \in DOMAIN active' /\ active'[i] = active[i]
    BY <2>1 DEF Erase
  <2>4. \A i \in ArmedIds : i \in DOMAIN active /\ active[i] \in Queued /\ Armed[i].next = mem[active[i]].next
    BY ArmedIsQueued DEF Armed, AlarmOf
  <2>5. ArmedIds' = {i \in ArmedIds : Armed[i].next # next}
    <3>1. \A i \in ArmedIds' : \E r \in Queued : mem[r].next # next /\ i = mem[r].id
      BY <2>1, <2>2 DEF ArmedIds
    <3>2. \A r \in Queued : mem[r].id \in ArmedIds /\ Armed[mem[r].id].next = mem[r].next
      BY <2>4, ArmedIsQueued
    <3>3. \A i \in ArmedIds : Armed[i].next # next => i \in ArmedIds'
      <4>1. \A i \in ArmedIds : mem[active[i]].id = i
        BY <2>4 DEF IInv, Bookkeeping
      <4>2. QED
        BY <2>1, <2>2, <2>4, <4>1 DEF ArmedIds
    <3>4. QED
      BY <3>1, <3>2, <3>3
  <2>6. \A i \in ArmedIds' : Armed'[i] = Armed[i]
    <3>1. SUFFICES ASSUME NEW i \in ArmedIds' PROVE Armed'[i] = Armed[i]
      OBVIOUS
    <3>2. i \in ArmedIds /\ i # id /\ i \in DOMAIN active
      BY <2>4, <2>5
    <3>3. active'[i] = active[i]
      BY <2>3, <3>2
    <3>4. QED
      BY <2>1, <3>2, <3>3 DEF Armed, AlarmOf
  <2>7. Armed' = [i \in {i \in ArmedIds : Armed[i].next # next} |-> Armed[i]]
    BY <2>5, <2>6 DEF Armed
  <2>8. Firing' = Firing
    BY <1>2, <2>1 DEF Firing, AlarmOf
  <2>9. CASE \E i \in ArmedIds : Armed[i].next = next
    <3>1. PICK i \in ArmedIds : Armed[i].next = next
      BY <2>9
    <3>2. Armed' = [j \in ArmedIds \ {j \in ArmedIds : Armed[j].next = Armed[i].next} |-> Armed[j]]
      BY <2>7, <3>1
    <3>3. QED
      BY <1>2, <2>8, <3>1, <3>2, ArmedDomain DEF Service!CancelArmed, Service!Without
  <2>10. CASE ~\E i \in ArmedIds : Armed[i].next = next
    <3>1. Armed' = [i \in ArmedIds |-> Armed[i]]
      BY <2>7, <2>10
    <3>2. Armed' = Armed
      BY <3>1 DEF Armed
    <3>3. QED
      BY <1>2, <2>8, <3>2 DEF Service!vars
  <2>11. QED
    BY <2>9, <2>10
<1>5. QED
  BY <1>3, <1>4

LEMMA MapCallHandler ==
  ASSUME IInv, IInv', CallHandler
  PROVE  Service!Fire
<1> DEFINE s == queue[1]
<1>1. /\ pc = "loop" /\ ~done /\ queue # <<>> /\ clock >= mem[s].next
      /\ queue' = Tail(queue) /\ mem' = [mem EXCEPT ![s].running = TRUE]
      /\ pc' = "handler" /\ instance' = s /\ firing' = mem[s].id
      /\ UNCHANGED <<clock, active, done>> /\ Known' = Known
  BY DEF CallHandler, Known
<1>2. /\ TypeOK /\ Sorted
      /\ mem \in [Slot -> Instance] /\ queue \in Seq(Slot) /\ clock \in Nat
  BY QueueParts DEF IInv, TypeOK
<1>3. s \in Queued /\ s \in Slot /\ Queued' = Queued \ {s}
  BY <1>1, <1>2, TailQueued
<1>4. PICK id \in ArmedIds : s = active[id] /\ mem[s].id = id
  BY <1>3, ArmedIsQueued
<1>5. \A r \in Slot : /\ mem'[r].id = mem[r].id /\ mem'[r].next = mem[r].next
                      /\ mem'[r].period = mem[r].period /\ (r # s => mem'[r] = mem[r])
  BY <1>1, <1>2, <1>3 DEF Instance
<1>6. mem'[s].running
  BY <1>1, <1>2, <1>3 DEF Instance
<1>7. \A i \in ArmedIds : /\ i \in DOMAIN active /\ active[i] \in Queued /\ active[i] \in Slot
                          /\ mem[active[i]].id = i /\ Armed[i] = AlarmOf(active[i])
                          /\ Armed[i].next = mem[active[i]].next
  BY <1>2, ArmedIsQueued, QueuedType DEF Armed, AlarmOf, IInv, Bookkeeping
<1>8. ArmedIds' = ArmedIds \ {id}
  <2>1. ASSUME NEW i \in ArmedIds' PROVE i \in ArmedIds \ {id}
    <3>1. PICK r \in Queued : r # s /\ i = mem'[r].id
      BY <1>3 DEF ArmedIds
    <3>2. PICK j \in ArmedIds : r = active[j] /\ mem[r].id = j
      BY ArmedIsQueued
    <3>3. r \in Slot
      BY <1>2, QueuedType
    <3>4. QED
      BY <1>4, <1>5, <3>1, <3>2, <3>3
  <2>2. ASSUME NEW i \in ArmedIds \ {id} PROVE i \in ArmedIds'
    <3>1. active[i] \in Queued' /\ mem'[active[i]].id = i
      BY <1>3, <1>4, <1>5, <1>7
    <3>2. QED
      BY <3>1 DEF ArmedIds
  <2>3. QED
    BY <2>1, <2>2
<1>9. \A i \in ArmedIds' : Armed'[i] = Armed[i]
  <2>1. SUFFICES ASSUME NEW i \in ArmedIds' PROVE Armed'[i] = Armed[i]
    OBVIOUS
  <2>2. active[i] \in Slot /\ Armed[i] = AlarmOf(active[i]) /\ Armed'[i] = AlarmOf(active[i])'
    BY <1>1, <1>7, <1>8 DEF Armed
  <2>3. QED
    BY <1>1, <1>5, <2>2 DEF AlarmOf
<1>10. Armed' = [i \in ArmedIds \ {id} |-> Armed[i]]
  BY <1>8, <1>9 DEF Armed
<1>11. Firing = None /\ Firing' = [id |-> id, alarm |-> Armed[id], cancelled |-> FALSE]
  <2>1. Firing' = [id |-> id, alarm |-> [next |-> mem'[s].next, period |-> mem'[s].period],
                   cancelled |-> ~mem'[s].running]
    BY <1>1, <1>4 DEF Firing, AlarmOf
  <2>2. (~mem'[s].running) = FALSE
    BY <1>6
  <2>3. Armed[id] = [next |-> mem'[s].next, period |-> mem'[s].period]
    BY <1>3, <1>4, <1>5, <1>7 DEF AlarmOf
  <2>4. Firing = None
    BY <1>1 DEF Firing
  <2>5. QED
    BY <2>1, <2>2, <2>3, <2>4
<1>12. \A i \in ArmedIds : Armed[id].next <= Armed[i].next
  <2>1. SUFFICES ASSUME NEW i \in ArmedIds PROVE mem[s].next <= mem[active[i]].next
    BY <1>4, <1>7
  <2>2. PICK n \in 1..Len(queue) : active[i] = queue[n]
    BY <1>7 DEF Queued
  <2>3. CASE n = 1
    BY <1>2, <1>3, <2>2, <2>3, QueuedType
  <2>4. CASE n # 1
    <3>1. 1 \in 1..(n - 1)
      BY <1>2, <2>4
    <3>2. QED
      BY <1>2, <2>2, <3>1 DEF Sorted
  <2>5. QED
    BY <2>3, <2>4
<1>13. Armed[id].next <= clock
  <2>1. mem[s].next \in Nat
    BY <1>2, <1>3, QueuedType
  <2>2. QED
    BY <1>1, <1>2, <1>4, <1>7, <2>1
<1>14. QED
  BY <1>1, <1>10, <1>11, <1>12, <1>13, ArmedDomain DEF Service!Fire, Service!Without

LEMMA MapExitAfterHandler ==
  ASSUME IInv, ExitAfterHandler
  PROVE  Service!Finish
<1>1. /\ pc = "handler" /\ done /\ pc' = "exited"
      /\ UNCHANGED <<clock, nextId, mem, active, queue, done>>
  BY DEF ExitAfterHandler, HandlerReturned
<1>2. Queued' = Queued
  BY <1>1 DEF Queued
<1>3. Armed' = Armed
  BY <1>1, <1>2 DEF Armed, ArmedIds, AlarmOf
<1>4. Firing # None /\ Firing' = None
  BY <1>1, FiringIsSome DEF Firing
<1>5. QED
  BY <1>1, <1>3, <1>4 DEF Service!Finish, Known

\* What the service knows of the timer whose handler has returned.
LEMMA FiringIsInstance ==
  ASSUME IInv, HandlerReturned
  PROVE  /\ Firing # None /\ Firing.id = firing /\ Firing.alarm = AlarmOf(instance)
         /\ Firing.alarm.period = mem[instance].period
         /\ Firing.cancelled <=> ~mem[instance].running
         /\ firing \notin ArmedIds
         /\ \A id \in ArmedIds : id \in DOMAIN active /\ active[id] \in Queued
                                 /\ active[id] \in Slot /\ active[id] # instance
<1>1. pc = "handler"
  BY DEF HandlerReturned
<1>2. active[firing] \notin Queued
  BY AfterHandler
<1>3. Firing = [id |-> firing, alarm |-> AlarmOf(instance), cancelled |-> ~mem[instance].running]
  BY <1>1 DEF Firing
<1>4. /\ Firing.id = firing /\ Firing.alarm = AlarmOf(instance)
      /\ Firing.cancelled = ~mem[instance].running
  BY <1>3
<1>5. Firing.alarm.period = mem[instance].period
  BY <1>4 DEF AlarmOf
<1>6. QED
  BY <1>1, <1>2, <1>4, <1>5, FiringIsSome, AfterHandler, ArmedIsQueued

LEMMA MapRetire ==
  ASSUME IInv, IInv', Retire
  PROVE  Service!Finish
<1>1. /\ HandlerReturned /\ ~done
      /\ ~mem[instance].running \/ ~Periodic(mem[instance])
      /\ active' = Erase(mem[instance].id)
      /\ mem' = [mem EXCEPT ![instance].running = FALSE]
      /\ pc' = "loop"
      /\ UNCHANGED <<clock, nextId, queue, done>>
  BY DEF Retire
<1>2. instance \in Slot /\ mem \in [Slot -> Instance] /\ mem[instance].id = firing
  BY <1>1, AfterHandler DEF IInv, TypeOK
<1>3. \A r \in Slot : r # instance => mem'[r] = mem[r]
  BY <1>1, <1>2
<1>4. Queued' = Queued
  BY <1>1 DEF Queued
<1>5. \A id \in ArmedIds : id \in DOMAIN active' /\ active'[id] = active[id]
  BY <1>1, <1>2, FiringIsInstance DEF Erase
<1>6. Armed' = Armed
  BY <1>1, <1>3, <1>4, <1>5, ArmedStays, AfterHandler
<1>7. Firing' = None
  BY <1>1 DEF Firing
<1>8. Firing.cancelled \/ Firing.alarm.period = 0
  <2>1. mem[instance].period \in Nat
    BY <1>2 DEF Instance
  <2>2. QED
    BY <1>1, <2>1, FiringIsInstance DEF Periodic
<1>9. QED
  BY <1>1, <1>6, <1>7, <1>8, FiringIsInstance DEF Service!Finish, Known

LEMMA MapRearm ==
  ASSUME IInv, IInv', Rearm
  PROVE  Service!Finish
<1> DEFINE next == mem[instance].next + mem[instance].period
<1>1. /\ HandlerReturned /\ ~done
      /\ mem[instance].running /\ Periodic(mem[instance])
      /\ mem' = [mem EXCEPT ![instance].running = FALSE, ![instance].next = next]
      /\ QueueInsert(instance, next)
      /\ pc' = "loop"
      /\ UNCHANGED <<clock, nextId, active, done, instance>>
  BY DEF Rearm
<1>2. TypeOK /\ instance \in Slot /\ mem \in [Slot -> Instance]
      /\ mem[instance].id = firing /\ active[firing] = instance /\ firing \in DOMAIN active
  BY <1>1, AfterHandler DEF IInv, TypeOK
<1>3. /\ \A r \in Slot : mem'[r].id = mem[r].id /\ (r # instance => mem'[r] = mem[r])
      /\ mem'[instance].next = next /\ mem'[instance].period = mem[instance].period
  BY <1>1, <1>2 DEF Instance
<1>4. Queued' = Queued \cup {instance}
  BY <1>1, <1>2, InsertQueued
<1>5. \A r \in Queued : r \in Slot
  BY <1>2, QueuedType
<1>6. ArmedIds' = ArmedIds \cup {firing}
  BY <1>2, <1>3, <1>4, <1>5 DEF ArmedIds
<1>7. \A id \in ArmedIds : Armed'[id] = Armed[id]
  BY <1>1, <1>3, <1>6, FiringIsInstance DEF Armed, AlarmOf
<1>8. Armed'[firing] = [Firing.alarm EXCEPT !.next = @ + Firing.alarm.period]
  <2>1. Armed'[firing] = [next |-> next, period |-> mem[instance].period]
    BY <1>1, <1>2, <1>3, <1>6 DEF Armed, AlarmOf
  <2>2. Firing.alarm = [next |-> mem[instance].next, period |-> mem[instance].period]
    BY <1>1, FiringIsInstance DEF AlarmOf
  <2>3. QED
    BY <2>1, <2>2
<1>9. Armed' = [i \in ArmedIds \cup {Firing.id} |->
                  IF i = Firing.id THEN [Firing.alarm EXCEPT !.next = @ + Firing.alarm.period]
                  ELSE Armed[i]]
  <2>1. Firing.id = firing /\ firing \notin ArmedIds
    BY <1>1, FiringIsInstance
  <2> DEFINE F == [Firing.alarm EXCEPT !.next = @ + Firing.alarm.period]
  <2> HIDE DEF F
  <2>2. Armed'[firing] = F
    BY <1>8 DEF F
  <2>3. Armed' = [i \in ArmedIds \cup {firing} |-> IF i = firing THEN F ELSE Armed[i]]
    BY <1>6, <1>7, <2>1, <2>2 DEF Armed
  <2>4. QED
    BY <2>1, <2>3 DEF F
<1>10. Firing' = None
  BY <1>1 DEF Firing
<1>11. ~(done \/ Firing.cancelled \/ Firing.alarm.period = 0)
  <2>1. mem[instance].period \in Nat
    BY <1>2 DEF Instance
  <2>2. QED
    BY <1>1, <2>1, FiringIsInstance DEF Periodic
<1>12. Firing # None
  BY <1>1, FiringIsInstance
<1>13. Known' = Known
  BY <1>1 DEF Known
<1> HIDE DEF next
<1>14. QED
  BY <1>1, <1>9, <1>10, <1>11, <1>12, <1>13, ArmedDomain DEF Service!Finish, Service!With

LEMMA MapInit == Init => Service!Init
<1> SUFFICES ASSUME Init PROVE Service!Init
  OBVIOUS
<1>1. ArmedIds = {}
  BY DEF Init, ArmedIds, Queued
<1>2. Armed = <<>>
  BY <1>1 DEF Armed
<1>3. Firing = None /\ Known = {} /\ clock \in Nat /\ done = FALSE
  BY DEF Init, Firing, Known
<1>4. QED
  BY <1>2, <1>3 DEF Service!Init

LEMMA MapStep ==
  ASSUME IInv, IInv', [Next]_vars
  PROVE  [Service!Next]_(Service!vars)
<1> USE DEF Service!Next
<1>1. CASE Tick
  <2>1. clock' > clock /\ UNCHANGED <<mem, active, queue, instance, firing, pc, nextId, done>>
    BY <1>1 DEF Tick, IInv, TypeOK
  <2>2. Service!Advance
    BY <2>1, MappingStays DEF Service!Advance, Known
  <2>3. QED
    BY <2>2
<1>2. ASSUME NEW t \in Thread, NEW delay \in Delay, NEW period \in Period,
             CallCreate(t, delay, period)
      PROVE  UNCHANGED Service!vars
  BY <1>2, MappingStays DEF CallCreate, Service!vars, Known
<1>3. ASSUME NEW t \in Thread, CreateImpl(t)
      PROVE  Service!Next
  BY <1>3, MapCreate
<1>4. ASSUME NEW t \in Thread, NEW id \in DOMAIN active, Destroy(t, id)
      PROVE  Service!Next \/ UNCHANGED Service!vars
  BY <1>4, MapDestroy
<1>5. CASE BeginDestructor
  <2>1. /\ UNCHANGED <<clock, nextId, mem, active, queue, instance, firing>> /\ done' = TRUE
        /\ pc' = "handler" <=> pc = "handler"
    BY <1>5 DEF BeginDestructor, NotifyAll
  <2>2. Service!Stop
    BY <2>1, MappingStays DEF Service!Stop, Known
  <2>3. QED
    BY <2>2
<1>6. CASE SpuriousWakeUp \/ WaitForWork \/ WaitUntilDue \/ Timeout \/ Exit
  <2>1. /\ UNCHANGED <<clock, nextId, mem, active, queue, done, instance, firing>>
        /\ pc # "handler" /\ pc' # "handler"
    BY <1>6 DEF SpuriousWakeUp, WaitForWork, WaitUntilDue, Timeout, Exit
  <2>2. QED
    BY <2>1, MappingStays DEF Service!vars, Known
<1>7. CASE CallHandler
  BY <1>7, MapCallHandler
<1>8. CASE ExitAfterHandler
  BY <1>8, MapExitAfterHandler
<1>9. CASE Retire
  BY <1>9, MapRetire
<1>10. CASE Rearm
  BY <1>10, MapRearm
<1>11. CASE UNCHANGED vars
  BY <1>11, MappingStays DEF vars, Service!vars, Known
<1>12. QED
  BY <1>1, <1>2, <1>3, <1>4, <1>5, <1>6, <1>7, <1>8, <1>9, <1>10, <1>11 DEF Next, WorkerStep

\* For users that destroy a timer at most once, Timer is the timer service of
\* its interface: no interleaving of create, destroy, handlers, wake-ups and
\* the destructor shows its users anything else.
THEOREM TimerImplementsService == ASSUME SingleDestroy PROVE Spec => ImplementsService
<1>1. IInv /\ IInv' /\ [Next]_vars => [Service!Next]_(Service!vars)
  BY MapStep
<1>2. QED
  BY <1>1, MapInit, Inductive, PTL DEF Spec, ImplementsService, Service!Spec
=============================================================================
