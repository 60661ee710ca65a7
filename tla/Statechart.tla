----------------------------- MODULE Statechart -----------------------------
(***************************************************************************)
(* What a chart means to its user, without the machinery: the chart rests  *)
(* in a state, reacts to one event of its inbox or to one timer at a time, *)
(* and each reaction takes it, in a single step, to the state where the    *)
(* declared transition and the defaults behind it end.                     *)
(***************************************************************************)
EXTENDS Naturals, Sequences

CONSTANTS
  State, Root, Event, Trigger,
  TerminateEvent,  \* or None
  Above,           \* per state, itself and its ancestors
  EventHandler,    \* per (state, event) the reaction: [owner, actions, target]
  TimerHandler,    \* per (state, duration trigger)
  Settled,         \* where the defaults lead from a state just entered
  QueueCap, None

VARIABLES
  place,   \* the innermost state, None before the start and after the end
  inbox,
  goal,    \* the transition the reaction in progress will make, or None
  ending,  \* the terminating event was taken
  over

chart == <<place, inbox, goal, ending, over>>

Init == place = None /\ inbox = <<>> /\ goal = None /\ ~ending /\ ~over

Quiet == goal = None /\ ~ending /\ ~over

Start ==
  /\ Quiet /\ place = None
  /\ place' = Settled[Root]
  /\ UNCHANGED <<inbox, goal, ending, over>>

Post(e) ==
  /\ ~over /\ Len(inbox) < QueueCap
  /\ inbox' = Append(inbox, e)
  /\ UNCHANGED <<place, goal, ending, over>>

React ==
  /\ Quiet /\ place # None /\ inbox # <<>>
  /\ inbox' = Tail(inbox)
  /\ LET e == Head(inbox)
         h == EventHandler[place][e]
     IN  /\ ending' = (e = TerminateEvent)
         /\ goal' = IF e = TerminateEvent \/ h.owner = None THEN None ELSE h.target
  /\ UNCHANGED <<place, over>>

TimerFires ==
  /\ Quiet /\ place # None
  /\ \E s \in Above[place], t \in Trigger : goal' = TimerHandler[s][t].target
  /\ UNCHANGED <<place, inbox, ending, over>>

(* An enclosing state was never left: it is not entered, and its default   *)
(* does not run.                                                           *)
Arrival(from, to) == IF to \in Above[from] \ {from} THEN to ELSE Settled[to]

Move ==
  /\ goal # None
  /\ place' = Arrival(place, goal)
  /\ goal' = None
  /\ UNCHANGED <<inbox, ending, over>>

End ==
  /\ ending
  /\ place' = None /\ inbox' = <<>> /\ ending' = FALSE /\ over' = TRUE
  /\ UNCHANGED goal

Next == Start \/ (\E e \in Event : Post(e)) \/ React \/ TimerFires \/ Move \/ End

Spec == Init /\ [][Next]_chart
=============================================================================
