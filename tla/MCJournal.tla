----------------------------- MODULE MCJournal -----------------------------
(***************************************************************************)
(* MCMachine's chart, with one during on A and two on B1: its journal, and *)
(* the statechart it is to implement.                                      *)
(***************************************************************************)
EXTENDS Journal, Semantics, MCMachine

PDuringCount == [s \in PState |-> CASE s = "A" -> 1 [] s = "B1" -> 2 [] OTHER -> 0]

PSettled[s \in PState] ==
  LET d == PDefault[s]
  IN  CASE d = None -> s
        [] d # None /\ C!IsStrictAncestor(d, s) -> d
        [] OTHER -> PSettled[d]
=============================================================================
