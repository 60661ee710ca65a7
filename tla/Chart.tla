------------------------------- MODULE Chart -------------------------------
(***************************************************************************)
(* The tables codegen computes from a chart, as lower_body leaves it: a    *)
(* tree of states, each with an optional default target and a list of      *)
(* handlers `on(trigger) => action or state` in declaration order.         *)
(***************************************************************************)
EXTENDS Naturals, Sequences, FiniteSets, SequencesExt, Vectors

CONSTANTS
  State, Root, Event, Trigger,
  Parent,   \* the tree: a function on State \ {Root}
  Default,  \* default_child: a target anywhere in the chart, or None
  On,       \* per state, a sequence of [on : trigger, do : action or state]
  None

Chain[s \in State] ==
  IF s = Root THEN <<s>> ELSE <<s>> \o Chain[Parent[s]]

DepthTable == [s \in State |-> Len(Chain[s]) - 1]

-----------------------------------------------------------------------------
(* compute_transition_paths *)

(* The deeper side climbs to the depth of the other, then both together. *)
Lca[pair \in State \X State] ==
  LET a == pair[1]
      b == pair[2]
  IN  CASE a = b -> a
        [] a # b /\ DepthTable[a] > DepthTable[b] -> Lca[<<Parent[a], b>>]
        [] a # b /\ DepthTable[a] < DepthTable[b] -> Lca[<<a, Parent[b]>>]
        [] OTHER -> Lca[<<Parent[a], Parent[b]>>]

IsStrictAncestor(anc, desc) == Contains(Tail(Chain[desc]), anc)

(* The walk from s up to, and without, its ancestor `stop`. *)
WalkTo(s, stop) == SubSeq(Chain[s], 1, DepthTable[s] - DepthTable[stop])

(* Self-transition, up-transition, or lateral; lateral covers a descent,   *)
(* where the common ancestor is `from` and nothing is exited.              *)
ExitOf(from, to) ==
  CASE from = to -> <<to>>
    [] IsStrictAncestor(to, from) -> WalkTo(from, to)
    [] OTHER -> WalkTo(from, Lca[<<from, to>>])

EnterOf(from, to) ==
  CASE from = to -> <<to>>
    [] IsStrictAncestor(to, from) -> <<>>
    [] OTHER -> Reverse(WalkTo(to, Lca[<<from, to>>]))

ExitTable == [f \in State |-> [t \in State |-> ExitOf(f, t)]]
EnterTable == [f \in State |-> [t \in State |-> EnterOf(f, t)]]

-----------------------------------------------------------------------------
(* Handlers *)

(* What one state's clauses on one trigger do together: the actions in     *)
(* declaration order, then the transition if there is one.                 *)
HandlerOf(s, x) ==
  LET clauses == {i \in DOMAIN On[s] : On[s][i].on = x}
      moves == {i \in clauses : On[s][i].do \in State}
      actions == Retain(On[s], clauses \ moves)
  IN  [owner   |-> IF clauses = {} THEN None ELSE s,
       actions |-> [i \in DOMAIN actions |-> actions[i].do],
       target  |-> IF moves = {} THEN None ELSE On[s][Max(moves)].do]

(* compute_event_dispatch: the innermost state with a clause handles. *)
Bubble(s, e) ==
  LET handling == SelectSeq(Chain[s], LAMBDA a : HandlerOf(a, e).owner # None)
  IN  HandlerOf(IF handling = <<>> THEN s ELSE Head(handling), e)

EventTable == [s \in State |-> [e \in Event |-> Bubble(s, e)]]

(* Timers do not bubble. *)
TimerHandlerTable == [s \in State |-> [t \in Trigger |-> HandlerOf(s, t)]]

(* The duration triggers of a state, each once, as they are declared. *)
OwnedTable ==
  [s \in State |->
     LET uses == SelectSeq(On[s], LAMBDA h : h.on \in Trigger)
         First(i) == \A j \in 1 .. i - 1 : uses[j].on # uses[i].on
         firsts == SetToSortSeq({i \in DOMAIN uses : First(i)}, LAMBDA i, j : i < j)
     IN  [k \in DOMAIN firsts |-> uses[firsts[k]].on]]

(* The machine's timer table has one slot per interned duration trigger:   *)
(* intern_duration gives one text one id, in whichever states it is used.  *)
MaxTimers == Max({1, Cardinality(Trigger)})

-----------------------------------------------------------------------------
(* validate_default_graph: a state has at most one default, so a chain of  *)
(* defaults that outlasts the number of states is a cycle.                 *)
DefaultChain[n \in Nat, s \in State] ==
  IF n = 0 \/ Default[s] = None THEN <<s>> ELSE <<s>> \o DefaultChain[n - 1, Default[s]]

NoDefaultCycle ==
  \A s \in State : Len(DefaultChain[Cardinality(State), s]) <= Cardinality(State)
=============================================================================
