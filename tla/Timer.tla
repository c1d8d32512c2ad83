-------------------------------- MODULE Timer --------------------------------
(***************************************************************************)
(* server/engine/common/Timer.{h,cpp}: one-shot and periodic timers served *)
(* by one worker thread.                                                   *)
(*                                                                         *)
(* Every member function holds the mutex sync for its whole body, and the  *)
(* worker holds it except while it waits on wakeUp and while it runs a     *)
(* handler.  Each stretch executed under one hold of the mutex is one      *)
(* action.  Timer::create reads the clock before it takes the mutex, so a  *)
(* call of create is two actions.                                          *)
(*                                                                         *)
(* The nodes of the map active live in memory slots.  The multiset queue   *)
(* and the worker's local variable instance hold references to slots: a    *)
(* slot that has been freed keeps its bytes until another node reuses it,  *)
(* which is what a read through a dangling reference finds.                *)
(***************************************************************************)
EXTENDS Integers, Sequences, FiniteSets

CONSTANTS
  Caller,        \* the threads that use the timer, other than its worker
  Worker,        \* the timer's own thread, which uses it from inside handlers
  Slot,          \* memory for the nodes of the map active
  Delay,         \* the values of msFromNow passed to create
  Period,        \* the values of msPeriod passed to create, 0 for one-shot
  MaxId,         \* bound: ids handed out
  MaxTime,       \* bound: the clock stops there
  SingleDestroy, \* TRUE if the users destroy a timer at most once
  None           \* no pending create, no slot, no id

ASSUME TimerAssumption ==
  /\ Worker \notin Caller
  /\ None \notin Slot
  /\ Delay \subseteq Nat
  /\ Period \subseteq Nat
  /\ MaxId \in Nat
  /\ MaxTime \in Nat
  /\ SingleDestroy \in BOOLEAN
  /\ None \notin [next : Nat, period : Nat]
  /\ None \notin [id : Nat, alarm : [next : Nat, period : Nat], cancelled : BOOLEAN]
  /\ None \notin Nat

VARIABLES
  clock,     \* std::chrono::steady_clock
  nextId,    \* the next id createImpl hands out
  mem,       \* slot -> the Instance stored, or last stored, there
  active,    \* id -> slot, the map of live instances
  queue,     \* references to slots, sorted by Instance::next
  done,      \* the exit flag the destructor sets
  pc,        \* where the worker is
  until,     \* the deadline of the worker's wait_until
  instance,  \* the worker's local reference, while it runs a handler
  request,   \* thread -> the instance a create in progress will insert
  \* History variables, read by properties and by the SingleDestroy guard.
  firing,    \* the id of the timer whose handler the worker called last
  destroyed, \* the ids for which destroy returned true
  evicted    \* the ids erased from queue by the destroy of another timer

vars == <<clock, nextId, mem, active, queue, done, pc, until, instance,
          request, firing, destroyed, evicted>>

Thread == Caller \cup {Worker}
Request == [next : Nat, period : Nat]
Instance == [id : Nat, next : Nat, period : Nat, running : BOOLEAN]

exists(id) == id \in DOMAIN active
LiveSlots == {active[id] : id \in DOMAIN active}
Queued == {queue[i] : i \in 1..Len(queue)}
Periodic(i) == i.period > 0
Erase(id) == [i \in DOMAIN active \ {id} |-> active[i]]

(***************************************************************************)
(* notify_all wakes the worker if it waits, and is lost otherwise.         *)
(***************************************************************************)
\* Mutant: the notification is forgotten.
NotifyAll_Forgotten == pc' = pc

NotifyAll == pc' = IF pc \in {"wait", "wait_until"} THEN "loop" ELSE pc

(***************************************************************************)
(* multiset::insert puts a reference after those whose deadline is not     *)
(* later.  multiset::erase takes a key, not an element: it removes every   *)
(* reference whose deadline is equal to that of the key.                   *)
(***************************************************************************)
\* Mutant: a new reference is put last, whatever its deadline.
QueueInsert_AtEnd(s, next) == queue' = Append(queue, s)

QueueInsert(s, next) ==
  \E k \in 0..Len(queue) :
    /\ \A i \in 1..Len(queue) : i <= k <=> mem[queue[i]].next <= next
    /\ queue' = SubSeq(queue, 1, k) \o <<s>> \o SubSeq(queue, k + 1, Len(queue))

\* Mutant: the reference stays in the queue.
QueueErase_Forgotten(next) == queue' = queue

QueueErase(next) ==
  \E lo \in 0..Len(queue) : \E hi \in lo..Len(queue) :
    /\ \A i \in 1..Len(queue) : lo < i /\ i <= hi <=> mem[queue[i]].next = next
    /\ queue' = SubSeq(queue, 1, lo) \o SubSeq(queue, hi + 1, Len(queue))

-----------------------------------------------------------------------------
Init ==
  /\ clock = 0
  /\ nextId = 1
  /\ mem = [s \in Slot |-> [id |-> 0, next |-> 0, period |-> 0, running |-> FALSE]]
  /\ active = <<>>
  /\ queue = <<>>
  /\ done = FALSE
  /\ pc = "loop"
  /\ until = 0
  /\ instance = None
  /\ request = [t \in Thread |-> None]
  /\ firing = None
  /\ destroyed = {}
  /\ evicted = {}

Tick ==
  /\ clock < MaxTime
  /\ clock' = clock + 1
  /\ UNCHANGED <<nextId, mem, active, queue, done, pc, until, instance,
                 request, firing, destroyed, evicted>>

(***************************************************************************)
(* A thread may call the timer: the worker only from inside a handler, the *)
(* others only while the object's lifetime has not begun to end.           *)
(***************************************************************************)
MayCall(t) ==
  /\ request[t] = None
  /\ IF t = Worker THEN pc = "handler" ELSE ~done

Creating == {t \in Thread : request[t] # None}

\* Timer::create, up to createImpl's lock: the deadline is computed here.
CallCreate(t, delay, period) ==
  /\ MayCall(t)
  /\ nextId + Cardinality(Creating) <= MaxId
  /\ Cardinality(LiveSlots) + Cardinality(Creating) < Cardinality(Slot)
  /\ request' = [request EXCEPT ![t] = [next |-> clock + delay, period |-> period]]
  /\ UNCHANGED <<clock, nextId, mem, active, queue, done, pc, until, instance,
                 firing, destroyed, evicted>>

\* Mutant: the next timer gets the same id.
HandOutId_Again == nextId' = nextId

HandOutId == nextId' = nextId + 1

\* Timer::createImpl.
CreateImpl(t) ==
  /\ request[t] # None
  /\ \E s \in Slot \ LiveSlots :
       /\ mem' = [mem EXCEPT ![s] =
                   [id |-> nextId, next |-> request[t].next,
                    period |-> request[t].period, running |-> FALSE]]
       /\ active' = [id \in DOMAIN active \cup {nextId} |->
                       IF id = nextId THEN s ELSE active[id]]
       /\ QueueInsert(s, request[t].next)
  /\ HandOutId
  /\ request' = [request EXCEPT ![t] = None]
  /\ NotifyAll
  /\ UNCHANGED <<clock, done, until, instance, firing, destroyed, evicted>>

\* Timer::destroy of a timer in the map.  (Otherwise it returns false.)
Destroy(t, id) ==
  /\ MayCall(t)
  /\ exists(id)
  /\ SingleDestroy => id \notin destroyed
  /\ destroyed' = destroyed \cup {id}
  /\ LET s == active[id] IN
     IF mem[s].running
     THEN /\ mem' = [mem EXCEPT ![s].running = FALSE]
          /\ UNCHANGED <<active, queue, evicted>>
     ELSE /\ QueueErase(mem[s].next)
          /\ active' = Erase(id)
          /\ evicted' = evicted \cup
               {mem[r].id : r \in {q \in Queued \ {s} : mem[q].next = mem[s].next}}
          /\ UNCHANGED mem
  /\ NotifyAll
  /\ UNCHANGED <<clock, nextId, done, until, instance, request, firing>>

\* Mutant: the worker is not told that the timer is going away.
BeginDestructor_Silent ==
  /\ ~done
  /\ \A t \in Caller : request[t] = None
  /\ done' = TRUE
  /\ UNCHANGED <<clock, nextId, mem, active, queue, pc, until, instance, request,
                 firing, destroyed, evicted>>

\* Timer::~Timer, until it unlocks to join the worker.
BeginDestructor ==
  /\ ~done
  /\ \A t \in Caller : request[t] = None
  /\ done' = TRUE
  /\ NotifyAll
  /\ UNCHANGED <<clock, nextId, mem, active, queue, until, instance, request,
                 firing, destroyed, evicted>>

-----------------------------------------------------------------------------
(***************************************************************************)
(* The worker, Timer::threadStart.                                         *)
(***************************************************************************)
WaitForWork ==
  /\ pc = "loop" /\ ~done
  /\ queue = <<>>
  /\ pc' = "wait"
  /\ UNCHANGED <<clock, nextId, mem, active, queue, done, until, instance,
                 request, firing, destroyed, evicted>>

WaitUntilDue ==
  /\ pc = "loop" /\ ~done
  /\ queue # <<>>
  /\ clock < mem[queue[1]].next
  /\ pc' = "wait_until"
  /\ until' = mem[queue[1]].next
  /\ UNCHANGED <<clock, nextId, mem, active, queue, done, instance, request,
                 firing, destroyed, evicted>>

Timeout ==
  /\ pc = "wait_until"
  /\ clock >= until
  /\ pc' = "loop"
  /\ UNCHANGED <<clock, nextId, mem, active, queue, done, until, instance,
                 request, firing, destroyed, evicted>>

SpuriousWakeUp ==
  /\ pc \in {"wait", "wait_until"}
  /\ pc' = "loop"
  /\ UNCHANGED <<clock, nextId, mem, active, queue, done, until, instance,
                 request, firing, destroyed, evicted>>

\* Mutant: the instance is not marked as running.
CallHandler_NotMarked ==
  /\ pc = "loop" /\ ~done
  /\ queue # <<>>
  /\ clock >= mem[queue[1]].next
  /\ instance' = queue[1]
  /\ queue' = Tail(queue)
  /\ pc' = "handler"
  /\ firing' = mem[queue[1]].id
  /\ UNCHANGED <<clock, nextId, mem, active, done, until, request, destroyed, evicted>>

\* The first instance is due: mark it running, unlock and call its handler.
CallHandler ==
  /\ pc = "loop" /\ ~done
  /\ queue # <<>>
  /\ clock >= mem[queue[1]].next
  /\ instance' = queue[1]
  /\ queue' = Tail(queue)
  /\ mem' = [mem EXCEPT ![queue[1]].running = TRUE]
  /\ pc' = "handler"
  /\ firing' = mem[queue[1]].id
  /\ UNCHANGED <<clock, nextId, active, done, until, request, destroyed, evicted>>

(***************************************************************************)
(* The handler has returned and the worker has the mutex again.            *)
(***************************************************************************)
HandlerReturned == pc = "handler" /\ request[Worker] = None

ExitAfterHandler ==
  /\ HandlerReturned
  /\ done
  /\ pc' = "exited"
  /\ UNCHANGED <<clock, nextId, mem, active, queue, done, until, instance,
                 request, firing, destroyed, evicted>>

\* destroy was called during the handler, or the timer is one-shot.
Retire ==
  /\ HandlerReturned
  /\ ~done
  /\ ~mem[instance].running \/ ~Periodic(mem[instance])
  /\ active' = Erase(mem[instance].id)
  /\ mem' = [mem EXCEPT ![instance].running = FALSE]
  /\ pc' = "loop"
  /\ UNCHANGED <<clock, nextId, queue, done, until, instance, request, firing,
                 destroyed, evicted>>

\* Mutant: the period is counted from now, so that late handlers shift the timer.
Rearm_FromNow ==
  /\ HandlerReturned
  /\ ~done
  /\ mem[instance].running /\ Periodic(mem[instance])
  /\ LET next == clock + mem[instance].period IN
     /\ mem' = [mem EXCEPT ![instance].running = FALSE, ![instance].next = next]
     /\ QueueInsert(instance, next)
  /\ pc' = "loop"
  /\ UNCHANGED <<clock, nextId, active, done, until, instance, request, firing,
                 destroyed, evicted>>

\* Mutant: a destroy during the handler is not noticed.
Rearm_Unconditional ==
  /\ HandlerReturned
  /\ ~done
  /\ Periodic(mem[instance])
  /\ LET next == mem[instance].next + mem[instance].period IN
     /\ mem' = [mem EXCEPT ![instance].running = FALSE, ![instance].next = next]
     /\ QueueInsert(instance, next)
  /\ pc' = "loop"
  /\ UNCHANGED <<clock, nextId, active, done, until, instance, request, firing,
                 destroyed, evicted>>

\* Mutant: the next period is never queued.
Rearm_NotQueued ==
  /\ HandlerReturned
  /\ ~done
  /\ mem[instance].running /\ Periodic(mem[instance])
  /\ mem' = [mem EXCEPT ![instance].running = FALSE,
                        ![instance].next = @ + mem[instance].period]
  /\ pc' = "loop"
  /\ UNCHANGED <<clock, nextId, active, queue, done, until, instance, request,
                 firing, destroyed, evicted>>

Rearm ==
  /\ HandlerReturned
  /\ ~done
  /\ mem[instance].running /\ Periodic(mem[instance])
  /\ LET next == mem[instance].next + mem[instance].period IN
     /\ mem' = [mem EXCEPT ![instance].running = FALSE, ![instance].next = next]
     /\ QueueInsert(instance, next)
  /\ pc' = "loop"
  /\ UNCHANGED <<clock, nextId, active, done, until, instance, request, firing,
                 destroyed, evicted>>

Exit ==
  /\ pc = "loop" /\ done
  /\ pc' = "exited"
  /\ UNCHANGED <<clock, nextId, mem, active, queue, done, until, instance,
                 request, firing, destroyed, evicted>>

-----------------------------------------------------------------------------
WorkerStep ==
  \/ WaitForWork \/ WaitUntilDue \/ Timeout
  \/ CallHandler \/ ExitAfterHandler \/ Retire \/ Rearm \/ Exit

Next ==
  \/ Tick
  \/ \E t \in Thread, delay \in Delay, period \in Period : CallCreate(t, delay, period)
  \/ \E t \in Thread : CreateImpl(t)
  \/ \E t \in Thread : \E id \in DOMAIN active : Destroy(t, id)
  \/ BeginDestructor
  \/ SpuriousWakeUp
  \/ WorkerStep

Spec == Init /\ [][Next]_vars

(***************************************************************************)
(* Time passes, the worker is scheduled, and a create that a handler has   *)
(* begun returns.  A handler itself returns (WorkerStep): the code has no  *)
(* remedy for one that does not.  Calls by users are not fair.             *)
(***************************************************************************)
FairSpec ==
  /\ Spec
  /\ WF_vars(Tick)
  /\ WF_vars(WorkerStep)
  /\ WF_vars(CreateImpl(Worker))
-----------------------------------------------------------------------------
(***************************************************************************)
(* Properties.                                                             *)
(***************************************************************************)

\* Every variable has its type: members of Timer and locals of threadStart.
TypeOK ==
  /\ clock \in Nat
  /\ nextId \in Nat \ {0}
  /\ mem \in [Slot -> Instance]
  /\ DOMAIN active \subseteq 1..(nextId - 1)
  /\ active \in [DOMAIN active -> Slot]
  /\ queue \in Seq(Slot)
  /\ done \in BOOLEAN
  /\ pc \in {"loop", "wait", "wait_until", "handler", "exited"}
  /\ until \in Nat
  /\ instance \in Slot \cup {None}
  /\ pc = "handler" => instance \in Slot
  /\ request \in [Thread -> Request \cup {None}]
  /\ firing \in Nat \cup {None}
  /\ destroyed \subseteq 1..(nextId - 1)
  /\ evicted \subseteq Nat

\* A reference in the queue is to the node of a live timer whose handler is not
\* running, no timer is queued twice, and the queue is sorted: what
\* threadStart relies on when it dereferences queue.begin() after others have
\* created and destroyed timers while it waited or ran a handler.
QueueRefersToLive ==
  \A i \in 1..Len(queue) :
    /\ queue[i] \in LiveSlots
    /\ ~mem[queue[i]].running
    /\ \A j \in 1..(i - 1) :
         queue[j] # queue[i] /\ mem[queue[j]].next <= mem[queue[i]].next

\* While a handler runs without the lock, the worker's reference instance stays
\* valid: the node it was taken from is still in the map, for the same timer,
\* whatever destroys and creates other threads or the handler itself make.
HandlerKeepsInstance ==
  pc = "handler" =>
    /\ exists(firing)
    /\ active[firing] = instance
    /\ mem[instance].id = firing

\* A timer in the map fires again unless the worker is with it: it is queued,
\* or its handler is running, or the destroy of another timer took it off the
\* queue.  Nothing else makes a timer go silent.
LiveIsScheduled ==
  \A id \in DOMAIN active :
    \/ active[id] \in Queued
    \/ id = firing /\ pc \in {"handler", "exited"}
    \/ id \in evicted

\* The worker never sleeps on an outdated reason: it waits for work only when
\* there is none, and until a deadline only while that is the earliest one.
NoLostWakeUp ==
  /\ pc = "wait" => queue = <<>> /\ ~done
  /\ pc = "wait_until" => queue # <<>> /\ ~done /\ until = mem[queue[1]].next

\* The bookkeeping the invariants above rest on.  Every node carries the id it
\* is filed under; only the timer whose handler the worker called last can be
\* marked running; that timer is off the queue, and its mark is missing exactly
\* when it was destroyed meanwhile; a destroyed timer is still in the map only
\* while the worker has yet to retire it.
Bookkeeping ==
  /\ \A id \in DOMAIN active :
       /\ mem[active[id]].id = id
       /\ mem[active[id]].running \/ id \in destroyed =>
            id = firing /\ pc \in {"handler", "exited"}
  /\ pc = "handler" => /\ instance \notin Queued
                       /\ mem[instance].running <=> firing \notin destroyed

IInv ==
  /\ TypeOK
  /\ QueueRefersToLive
  /\ HandlerKeepsInstance
  /\ LiveIsScheduled
  /\ NoLostWakeUp
  /\ Bookkeeping

HandlerStarts == pc # "handler" /\ pc' = "handler"

\* Once destroy has returned true for a timer no handler of it starts, even if
\* the destroy came while a handler of that periodic timer was running.
DestroyIsFinal == [][HandlerStarts => firing' \notin destroyed]_vars

\* When a handler starts its deadline has passed, and every other live timer
\* that is still scheduled has a deadline that is no earlier.
EarliestDeadlineFirst ==
  [][HandlerStarts =>
       /\ mem[instance'].next <= clock
       /\ \A id \in DOMAIN active \ evicted :
            mem[instance'].next <= mem[active[id]].next]_vars

\* The destroy of one timer leaves the others scheduled: the comment at
\* Timer.h:100 calls the queue a set of references.
DestroyEvictsNoOther == evicted = {}

\* A queued timer fires, or is destroyed, or the whole Timer goes away.
DueFires ==
  \A id \in 1..MaxId :
    (exists(id) /\ active[id] \in Queued /\ mem[active[id]].next <= MaxTime)
      ~> \/ pc = "handler" /\ firing = id
         \/ id \in destroyed \cup evicted
         \/ done

\* The destructor's join returns, whatever the worker was doing.
DestructorReturns == done ~> pc = "exited"

(***************************************************************************)
(* The refinement mapping: what is armed are the timers whose nodes are    *)
(* queued, what fires is the timer whose handler runs.                     *)
(***************************************************************************)
ArmedIds == {mem[s].id : s \in Queued}
AlarmOf(s) == [next |-> mem[s].next, period |-> mem[s].period]
Armed == [id \in ArmedIds |-> AlarmOf(active[id])]
Firing ==
  IF pc = "handler"
  THEN [id |-> firing, alarm |-> AlarmOf(instance), cancelled |-> ~mem[instance].running]
  ELSE None
Known == 1..(nextId - 1)

\* What Timer does implements the timer service its interface describes.
Service == INSTANCE TimerService WITH
  NoTimer <- None, now <- clock, armed <- Armed, firing <- Firing,
  known <- Known, stopped <- done

ImplementsService == Service!Spec
=============================================================================
