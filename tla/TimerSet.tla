------------------------------ MODULE TimerSet ------------------------------
(***************************************************************************)
(* What the timer table promises its user, the generated machine: a set of *)
(* armed timers, at most one per (state, trigger) pair, that count down    *)
(* together, and of which an expired one is taken innermost state first.   *)
(* The order in which the runtime's vector happens to store the timers is  *)
(* abstracted: TimerPromise turns these operators into a state machine,    *)
(* which TimerTable, with the vector, implements; Machine uses them as     *)
(* they are.                                                               *)
(***************************************************************************)
EXTENDS Naturals, FiniteSets

CONSTANTS
  State,     \* state ids that may own a timer
  Trigger,   \* duration trigger ids
  Depth,     \* nesting depth of each state, the codegen's __DEPTH
  Capacity,  \* TimerTable's const parameter N
  NsLimit    \* 2^64: remaining_ns is a u64

ASSUME TimerAssumption ==
  /\ Depth \in [State -> Nat]
  /\ Capacity \in Nat
  /\ NsLimit \in Nat \ {0}

Timer == [state : State, trigger : Trigger, left : 0 .. NsLimit - 1]

-----------------------------------------------------------------------------
(* `duration.as_nanos() as u64`: the upper bits are dropped. *)
Nanos(d) == d % NsLimit

(* The slot of one (state, trigger) pair. *)
Slot(ts, s, t) == {e \in ts : e.state = s /\ e.trigger = t}

(* Mutant: the last slot is never used. *)
StartBelowCapacity(ts, s, t, d) ==
  IF Slot(ts, s, t) # {} \/ Cardinality(ts) + 1 < Capacity
    THEN (ts \ Slot(ts, s, t))
           \cup {[state |-> s, trigger |-> t, left |-> Nanos(d)]}
    ELSE ts

(* A second start of the same pair replaces the countdown; a new pair is   *)
(* pushed, and a push into a full vector is ignored.                       *)
Start(ts, s, t, d) ==
  IF Slot(ts, s, t) # {} \/ Cardinality(ts) < Capacity
    THEN (ts \ Slot(ts, s, t))
           \cup {[state |-> s, trigger |-> t, left |-> Nanos(d)]}
    ELSE ts

(* Mutant: only expired timers are cancelled. *)
CancelExpired(ts, s) == {e \in ts : e.state # s \/ e.left > 0}

CancelState(ts, s) == {e \in ts : e.state # s}

CancelOne(ts, s, t) == ts \ Slot(ts, s, t)

Decrement(ts, d) ==
  {[e EXCEPT !.left = IF Nanos(d) < @ THEN @ - Nanos(d) ELSE 0] : e \in ts}

Expired(ts) == {e \in ts : e.left = 0}

(* The expired timers pop_expired may return: those of the innermost state. *)
Poppable(ts) ==
  {e \in Expired(ts) : \A f \in Expired(ts) : Depth[f.state] <= Depth[e.state]}
=============================================================================
