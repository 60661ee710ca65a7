------------------------------ MODULE MCShared ------------------------------
(***************************************************************************)
(* A parent and its child that each wait for the same duration:            *)
(*   Root  default(Parent)                         terminate(stop)         *)
(*     Parent  default(Child)  after t => note                             *)
(*       Child  after t => note                                            *)
(* One duration text is one trigger, and the table has one slot.           *)
(***************************************************************************)
EXTENDS Machine

PState == {"Root", "Parent", "Child"}
PEvent == {"stop"}
PTrigger == {"t"}
PAction == {"note"}

PParent == [Parent |-> "Root", Child |-> "Parent"]
PDefault == [Root |-> "Parent", Parent |-> "Child", Child |-> None]

C == INSTANCE Chart WITH State <- PState, Root <- "Root", Event <- PEvent,
       Trigger <- PTrigger, Parent <- PParent, Default <- PDefault,
       On <- [s \in PState |-> IF s = "Root" THEN <<>> ELSE <<[on |-> "t", do |-> "note"]>>]

PDepth == C!DepthTable
PTerminatePath == C!Chain
PExitPath == C!ExitTable
PEnterPath == C!EnterTable
PEventHandler == C!EventTable
PTimerHandler == C!TimerHandlerTable
PCapacity == C!MaxTimers
POwnedTimers == C!OwnedTable
PDurationFor == [t |-> 2]
PRepeats == [t |-> FALSE]
PEntryActions == [s \in PState |-> <<>>]
PExitActions == PEntryActions
PMayEmit == [a \in PAction |-> {}]
=============================================================================
