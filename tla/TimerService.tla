---------------------------- MODULE TimerService ----------------------------
(***************************************************************************)
(* What server/engine/common/Timer promises its users, without the lock,   *)
(* the condition variable, the memory of the instances or the wake-ups:    *)
(* armed timers carry a deadline and a period, one callback runs at a      *)
(* time, the earliest deadline goes first and never before its time, a     *)
(* periodic timer is armed again exactly one period after the deadline it  *)
(* was fired for, and a cancelled timer is never fired again.              *)
(*                                                                         *)
(* Cancelling an armed timer also disarms every timer armed for the very   *)
(* same deadline: Timer::destroy erases from a multiset by key.  The       *)
(* specification keeps that behaviour, the run timer_deadline_tie shows    *)
(* it is not what the source's comments say.                               *)
(***************************************************************************)
EXTENDS Naturals

CONSTANT NoTimer        \* the value of firing when no callback is running

VARIABLES
  now,      \* the steady clock
  armed,    \* timer id -> [next, period], for the timers waiting to fire
  firing,   \* the timer whose callback is running, or NoTimer
  known,    \* every id handed out so far
  stopped   \* the timer service is being torn down

vars == <<now, armed, firing, known, stopped>>

Init ==
  /\ now \in Nat
  /\ armed = <<>>
  /\ firing = NoTimer
  /\ known = {}
  /\ stopped = FALSE

Without(S) == [id \in DOMAIN armed \ S |-> armed[id]]
With(id, alarm) ==
  [i \in DOMAIN armed \cup {id} |-> IF i = id THEN alarm ELSE armed[i]]

Advance ==
  /\ now' > now
  /\ UNCHANGED <<armed, firing, known, stopped>>

\* A new timer gets an id no timer had before.
Arm ==
  /\ \E id \in (DOMAIN armed)' \ known :
       /\ known' = known \cup {id}
       /\ armed' = With(id, armed'[id])
  /\ UNCHANGED <<now, firing, stopped>>

Fire ==
  \E id \in DOMAIN armed :
    /\ firing = NoTimer /\ ~stopped
    /\ armed[id].next <= now
    /\ \A other \in DOMAIN armed : armed[id].next <= armed[other].next
    /\ firing' = [id |-> id, alarm |-> armed[id], cancelled |-> FALSE]
    /\ armed' = Without({id})
    /\ UNCHANGED <<now, known, stopped>>

Finish ==
  /\ firing # NoTimer
  /\ firing' = NoTimer
  /\ armed' = IF stopped \/ firing.cancelled \/ firing.alarm.period = 0
              THEN armed
              ELSE With(firing.id, [firing.alarm EXCEPT !.next = @ + firing.alarm.period])
  /\ UNCHANGED <<now, known, stopped>>

CancelArmed ==
  \E id \in DOMAIN armed :
    /\ armed' = Without({i \in DOMAIN armed : armed[i].next = armed[id].next})
    /\ UNCHANGED <<now, firing, known, stopped>>

CancelFiring ==
  /\ firing # NoTimer
  /\ firing' = [firing EXCEPT !.cancelled = TRUE]
  /\ UNCHANGED <<now, armed, known, stopped>>

Stop ==
  /\ stopped' = TRUE
  /\ UNCHANGED <<now, armed, firing, known>>

Next == Advance \/ Arm \/ Fire \/ Finish \/ CancelArmed \/ CancelFiring \/ Stop

Spec == Init /\ [][Next]_vars
=============================================================================
