----------------------------- MODULE MCMachine -----------------------------
(***************************************************************************)
(* A chart with every shape of transition:                                 *)
(*                                                                         *)
(*   Root  default(A)  on(back) => Root            terminate(stop)         *)
(*     A   default(A1)  after t2 => B  on(go) => work, => A2               *)
(*       A1  every t1 => tick                                              *)
(*       A2  entry work  default(A)                                        *)
(*     B   default(B1)  after t2 => note  on(go) => A2                     *)
(*       B1  entry bIn  default(B2)                                        *)
(*       B2  exit bOut                                                     *)
(*                                                                         *)
(* go is a descent, or lateral with two levels on each side; A2's default  *)
(* is an up-transition, B1's a sibling; back is an up-transition to the    *)
(* root and, at the root, a self-transition.  t2 is one text used by two   *)
(* states.                                                                 *)
(***************************************************************************)
EXTENDS Machine

PState == {"Root", "A", "A1", "A2", "B", "B1", "B2"}
PEvent == {"go", "back", "stop"}
PTrigger == {"t1", "t2"}
PAction == {"work", "tick", "note", "bIn", "bOut"}

Clause(x, y) == [on |-> x, do |-> y]

PParent == [A |-> "Root", A1 |-> "A", A2 |-> "A", B |-> "Root", B1 |-> "B", B2 |-> "B"]

PDefault == [s \in PState |->
  CASE s = "Root" -> "A"  [] s = "A" -> "A1"  [] s = "A2" -> "A"
    [] s = "B" -> "B1"    [] s = "B1" -> "B2" [] OTHER -> None]

POn == [s \in PState |->
  CASE s = "Root" -> <<Clause("back", "Root")>>
    [] s = "A" -> <<Clause("t2", "B"), Clause("go", "work"), Clause("go", "A2")>>
    [] s = "A1" -> <<Clause("t1", "tick")>>
    [] s = "B" -> <<Clause("t2", "note"), Clause("go", "A2")>>
    [] OTHER -> <<>>]

C == INSTANCE Chart WITH State <- PState, Root <- "Root", Event <- PEvent,
       Trigger <- PTrigger, Parent <- PParent, Default <- PDefault, On <- POn

ASSUME NoDefaultCycle == C!NoDefaultCycle

PDepth == C!DepthTable
PTerminatePath == C!Chain
PExitPath == C!ExitTable
PEnterPath == C!EnterTable
PEventHandler == C!EventTable
PTimerHandler == C!TimerHandlerTable
PCapacity == C!MaxTimers
POwnedTimers == C!OwnedTable
PDurationFor == [t1 |-> 1, t2 |-> 2]
PRepeats == [t1 |-> TRUE, t2 |-> FALSE]
PEntryActions == [s \in PState |->
  CASE s = "B1" -> <<"bIn">> [] s = "A2" -> <<"work">> [] OTHER -> <<>>]
PExitActions == [s \in PState |-> IF s = "B2" THEN <<"bOut">> ELSE <<>>]
PMayEmit == [a \in PAction |->
  CASE a \in {"tick", "bOut"} -> {"go"} [] a = "bIn" -> {"back"} [] OTHER -> {}]

(* t2 is shared, but not by two states on one path. *)
ASSUME PathsFit == EveryPathFits
=============================================================================
