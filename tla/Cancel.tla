------------------------------- MODULE Cancel -------------------------------
(***************************************************************************)
(* The asynchronous machine whose caller gives up: the future of step() or *)
(* dispatch() is dropped while an action of the user is awaited.  What the *)
(* call kept in locals (the rest of the paths and actions, the event) is   *)
(* gone, the machine's fields stay as they are, and the next call starts   *)
(* from them.                                                              *)
(***************************************************************************)
EXTENDS Machine

(* The only awaits under step() and dispatch() are those of the actions.   *)
DropCall ==
  /\ call # "none" /\ acts # <<>>
  /\ call' = "none" /\ phase' = "idle"
  /\ acts' = <<>> /\ target' = None
  /\ exits' = <<>> /\ enters' = <<>> /\ arms' = <<>>
  /\ UNCHANGED <<fields, result, active, fired, refused, origin>>

CancelNext == Next \/ DropCall

CancelSpec == Init /\ [][CancelNext]_vars

-----------------------------------------------------------------------------
PathOf(s) == IF s = None THEN <<>> ELSE TerminatePath[s]

(* Wherever a call is abandoned, whatever was entered and not exited lies  *)
(* on the path of `current`, so that the next transition or termination    *)
(* still exits it: no state outlives the machine's idea of where it is     *)
(* (exits leave `current` alone, entries move it at their end).            *)
NothingOutlivesItsPath == Range(active) \subseteq Range(PathOf(current))

(* However often an entry was abandoned, no state is active twice, and     *)
(* each lies below those entered before it (enter_state_no_descent).       *)
EnteredInOrder ==
  \A i, j \in DOMAIN active :
    i < j => Len(TerminatePath[active[j]]) < Len(TerminatePath[active[i]])

(* The part of the target's path that is entered already, or never left.   *)
Reached ==
  IF target = None
    THEN <<>>
    ELSE SubSeq(TerminatePath[target], Len(enters) + 1, Len(TerminatePath[target]))

Left == exits \o Reached

(* What the locals have left to exit, on top of what is reached, is a path *)
(* that covers all that is active, and what they have left to enter leads  *)
(* from there to the target; states the abandoned calls exited may be      *)
(* missing from `active`, but none is there besides.                       *)
CancelOnTheWay ==
  /\ Left # <<>> => Left = TerminatePath[Head(Left)]
  /\ Range(active) \subseteq Range(Left)
  /\ Range(Left) \subseteq Range(PathOf(current))
  /\ target = None => enters = <<>>
  /\ target # None => TerminatePath[target] = Reverse(enters) \o Reached

(* With TypeOK, inductive.                                                 *)
CancelInvariant ==
  /\ Control
  /\ NothingOutlivesItsPath
  /\ EnteredInOrder
  /\ Moving => CancelOnTheWay
  /\ TimersOfActive
  /\ TerminatedIsClean
=============================================================================
