---------------------------- MODULE TimerPromise ----------------------------
(***************************************************************************)
(* The timer table as its user sees it: a set of countdowns and the timer  *)
(* the last pop returned.  Which of several expired timers of the          *)
(* innermost state a pop returns is left open.                             *)
(***************************************************************************)
EXTENDS TimerSet

CONSTANTS
  Owned,      \* the (state, trigger) pairs the chart declares
  Durations,  \* the durations its timers are given and the clock advances by
  None        \* no value

VARIABLES
  timers,   \* the armed timers
  popped    \* the timer returned by the last pop_expired, or None

vars == <<timers, popped>>

TypeOK ==
  /\ timers \subseteq Timer
  /\ popped \in Timer \cup {None}

Init == timers = {} /\ popped = None

StartTimer(s, t, d) == timers' = Start(timers, s, t, d) /\ popped' = None

CancelTimersOf(s) == timers' = CancelState(timers, s) /\ popped' = None

CancelTimer(s, t) == timers' = CancelOne(timers, s, t) /\ popped' = None

Elapse(d) == timers' = Decrement(timers, d) /\ popped' = None

PopExpired ==
  \/ \E e \in Poppable(timers) : timers' = timers \ {e} /\ popped' = e
  \/ Expired(timers) = {} /\ popped' = None /\ UNCHANGED timers

Next ==
  \/ \E p \in Owned, d \in Durations : StartTimer(p[1], p[2], d)
  \/ \E s \in State : CancelTimersOf(s)
  \/ \E p \in Owned : CancelTimer(p[1], p[2])
  \/ \E d \in Durations : Elapse(d)
  \/ PopExpired

Spec == Init /\ [][Next]_vars
=============================================================================
