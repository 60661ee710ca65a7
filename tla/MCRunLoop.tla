----------------------------- MODULE MCRunLoop -----------------------------
(***************************************************************************)
(* A chart for the run loop:                                               *)
(*                                                                         *)
(*   Root  default(A)  terminate(stop)                                     *)
(*     A   default(A1)  during sense  every t2 => tick  on(go) => B        *)
(*       A1  after t1 => B                                                 *)
(*       A2  on(go) => A                                                   *)
(*     B   during listen  exit bOut  on(go) => A2                          *)
(*                                                                         *)
(* In A1 two timers run together and listen to nothing but themselves; B   *)
(* has no timer, so that the loop sleeps without one; leaving B emits.     *)
(* A2 goes up to A, which has a default.                                   *)
(***************************************************************************)
EXTENDS RunLoop

RState == {"Root", "A", "A1", "A2", "B"}
REvent == {"go", "stop"}
RTrigger == {"t1", "t2"}
RAction == {"tick", "bOut"}
RDuring == {"sense", "listen"}

Clause(x, y) == [on |-> x, do |-> y]

RParent == [A |-> "Root", A1 |-> "A", A2 |-> "A", B |-> "Root"]

RDefault == [s \in RState |->
  CASE s = "Root" -> "A" [] s = "A" -> "A1" [] OTHER -> None]

ROn == [s \in RState |->
  CASE s = "A" -> <<Clause("t2", "tick"), Clause("go", "B")>>
    [] s = "A1" -> <<Clause("t1", "B")>>
    [] s = "A2" -> <<Clause("go", "A")>>
    [] s = "B" -> <<Clause("go", "A2")>>
    [] OTHER -> <<>>]

C == INSTANCE Chart WITH State <- RState, Root <- "Root", Event <- REvent,
       Trigger <- RTrigger, Parent <- RParent, Default <- RDefault, On <- ROn

RDepth == C!DepthTable
RTerminatePath == C!Chain
RExitPath == C!ExitTable
REnterPath == C!EnterTable
REventHandler == C!EventTable
RTimerHandler == C!TimerHandlerTable
RCapacity == C!MaxTimers
ROwnedTimers == C!OwnedTable
RDurationFor == [t1 |-> 1, t2 |-> 2]
RRepeats == [t1 |-> FALSE, t2 |-> TRUE]
REntryActions == [s \in RState |-> <<>>]
RExitActions == [s \in RState |-> IF s = "B" THEN <<"bOut">> ELSE <<>>]
RMayEmit == [tick |-> {}, bOut |-> {"go"}]
RDurings == [s \in RState |->
  CASE s = "A" -> {"sense"} [] s = "B" -> {"listen"} [] OTHER -> {}]
RYields == [sense |-> {}, listen |-> {"go"}]
=============================================================================
