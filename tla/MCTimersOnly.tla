---------------------------- MODULE MCTimersOnly ----------------------------
(***************************************************************************)
(* A chart without events, so that run() has no channel:                   *)
(*                                                                         *)
(*   Root  default(Work)                                                   *)
(*     Work   default(Warm)  entry tick                                    *)
(*            every t2 => tick  after t3 => Done                           *)
(*       Warm   after t1 => Hot                                            *)
(*       Hot    after t1 => Watch                                          *)
(*     Watch  during blink                                                 *)
(*     Done                                                                *)
(*                                                                         *)
(* How late the loop is woken decides whether it ends in Done, where there *)
(* is nothing left to wait for, or in Watch, where the activity goes on.   *)
(***************************************************************************)
EXTENDS RunLoop

TState == {"Root", "Work", "Warm", "Hot", "Watch", "Done"}
TEvent == {}
TTrigger == {"t1", "t2", "t3"}
TAction == {"tick"}
TDuring == {"blink"}

Clause(x, y) == [on |-> x, do |-> y]

TParent == [Work |-> "Root", Warm |-> "Work", Hot |-> "Work", Watch |-> "Root",
            Done |-> "Root"]

TDefault == [s \in TState |->
  CASE s = "Root" -> "Work" [] s = "Work" -> "Warm" [] OTHER -> None]

TOn == [s \in TState |->
  CASE s = "Work" -> <<Clause("t2", "tick"), Clause("t3", "Done")>>
    [] s = "Warm" -> <<Clause("t1", "Hot")>>
    [] s = "Hot" -> <<Clause("t1", "Watch")>>
    [] OTHER -> <<>>]

C == INSTANCE Chart WITH State <- TState, Root <- "Root", Event <- TEvent,
       Trigger <- TTrigger, Parent <- TParent, Default <- TDefault, On <- TOn

TDepth == C!DepthTable
TTerminatePath == C!Chain
TExitPath == C!ExitTable
TEnterPath == C!EnterTable
TEventHandler == C!EventTable
TTimerHandler == C!TimerHandlerTable
TCapacity == C!MaxTimers
TOwnedTimers == C!OwnedTable
TDurationFor == [t1 |-> 2, t2 |-> 3, t3 |-> 4]
TRepeats == [t1 |-> FALSE, t2 |-> TRUE, t3 |-> FALSE]
TEntryActions == [s \in TState |-> IF s = "Work" THEN <<"tick">> ELSE <<>>]
TNoActions == [s \in TState |-> <<>>]
TMayEmit == [a \in TAction |-> {}]
TDurings == [s \in TState |-> IF s = "Watch" THEN {"blink"} ELSE {}]
TYields == [d \in TDuring |-> {}]
=============================================================================
