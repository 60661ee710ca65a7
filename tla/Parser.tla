------------------------------- MODULE Parser -------------------------------
(***************************************************************************)
(* Reading a statechart! invocation (hsmc-macros/src/parse.rs): the states *)
(* in the order their braces open, each with its declarations sorted by    *)
(* kind.  What the source says is the environment's choice; state 1 is the *)
(* root, and a state's index is its id (alloc_state).                      *)
(***************************************************************************)
EXTENDS Naturals, Sequences, SequencesExt

CONSTANTS
  ChartName,       \* the name before the outermost brace
  Names,           \* per state id, the names its `state` may be given
  Actions,         \* names after `entry:` and `exit:`
  Handlers,        \* [on : trigger, do : the list of names after =>]
  Targets,         \* names in `default(..)`
  TerminateEvents, \* names in `terminate(..)`
  Durings,         \* [fn : a function, fields : the fields it borrows]
  MaxItems,        \* bound: per number of states, the declarations there may be
  None

VARIABLES
  bodies,          \* StateBody of every state, in preorder
  open,            \* the states whose braces are open, outermost first
  phase            \* how far the macro is

source == <<bodies, open>>

(* A trigger is an event, with the kind and the fields of the payload the  *)
(* handler binds, or a duration, which is compared by its text.            *)
IsTimer(x) == "text" \in DOMAIN x

(* What the source may say: None is no state, nor are the names of a       *)
(* handler's list.  A payload may bind no field: `on(Event())`.            *)
ASSUME SourceAssumption ==
  /\ None \notin Nat
  /\ Names \in Seq(SUBSET UNION ToSet(Names))
  /\ \A h \in Handlers :
       /\ h.do \in Seq(ToSet(h.do)) /\ \A name \in ToSet(h.do) : name \notin Nat
       /\ ~IsTimer(h.on) =>
            /\ h.on.kind \in {"Unit", "Tuple", "Struct"}
            /\ h.on.kind = "Unit" => h.on.fields = <<>>

NewBody(name, parent) ==
  [name |-> name, parent |-> parent, entries |-> <<>>, exits |-> <<>>, handlers |-> <<>>,
   durings |-> <<>>, default |-> None, defaults |-> 0, terminate |-> None, terminates |-> 0]

ParseInit ==
  /\ bodies = <<NewBody(ChartName, None)>> /\ open = <<1>>
  /\ phase = "parse"

Here == bodies[Last(open)]

Size(b) == Len(b.entries) + Len(b.exits) + Len(b.handlers) + Len(b.durings)
           + b.defaults + b.terminates

SourceSize == FoldLeft(LAMBDA n, b : n + Size(b), 0, bodies)

Declare(body) ==
  /\ phase = "parse" /\ SourceSize < MaxItems[Len(bodies)]
  /\ bodies' = [bodies EXCEPT ![Last(open)] = body]
  /\ UNCHANGED <<open, phase>>

(* parse_body, keyword by keyword. *)

Entry(a) == Declare([Here EXCEPT !.entries = Append(@, a)])

Exit(a) == Declare([Here EXCEPT !.exits = Append(@, a)])

(* A list after => is one handler for each name of it. *)
Handle(h) ==
  Declare([Here EXCEPT !.handlers = @ \o [i \in DOMAIN h.do |-> [on |-> h.on, do |-> h.do[i]]]])

During(d) == Declare([Here EXCEPT !.durings = Append(@, d)])

(* The first declaration is the one that is kept. *)
DefaultTo(t) ==
  Declare([Here EXCEPT !.defaults = @ + 1, !.default = IF @ = None THEN t ELSE @])

TerminateOn(e) ==
  Declare([Here EXCEPT !.terminates = @ + 1, !.terminate = IF @ = None THEN e ELSE @])

(* Mutant: the parent is looked up after the new state's brace is open. *)
OpenStateInItself(name) ==
  /\ phase = "parse" /\ SourceSize <= MaxItems[Len(bodies) + 1]
  /\ bodies' = Append(bodies, NewBody(name, Len(bodies) + 1))
  /\ open' = Append(open, Len(bodies) + 1)
  /\ UNCHANGED phase

OpenState(name) ==
  /\ phase = "parse" /\ SourceSize <= MaxItems[Len(bodies) + 1]
  /\ bodies' = Append(bodies, NewBody(name, Last(open)))
  /\ open' = Append(open, Len(bodies) + 1)
  /\ UNCHANGED phase

CloseState ==
  /\ phase = "parse" /\ Len(open) > 1
  /\ open' = Front(open)
  /\ UNCHANGED <<bodies, phase>>

Parse ==
  \/ \E a \in Actions : Entry(a) \/ Exit(a)
  \/ \E h \in Handlers : Handle(h)
  \/ \E d \in Durings : During(d)
  \/ \E t \in Targets : DefaultTo(t)
  \/ \E e \in TerminateEvents : TerminateOn(e)
  \/ Len(bodies) < Len(Names) /\ \E n \in Names[Len(bodies) + 1] : OpenState(n)
  \/ CloseState

(* validate_parse_tree *)
ParseTreeValid ==
  \A s \in DOMAIN bodies :
    /\ bodies[s].defaults <= 1 /\ bodies[s].terminates <= 1
    /\ s # 1 => bodies[s].terminate = None
=============================================================================
