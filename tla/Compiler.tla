------------------------------ MODULE Compiler ------------------------------
(***************************************************************************)
(* The statechart! macro (hsmc-macros/src/lib.rs, statechart_impl): parse, *)
(* lower to the intermediate representation (ir.rs), resolve the names,    *)
(* validate (validate.rs), and lay out the path tables (codegen.rs).       *)
(*                                                                         *)
(* Lowering interns actions and events at their first use and must make    *)
(* one picture of all their uses, in whichever order they are declared; an *)
(* interned thing is identified by its name, its id is its position.       *)
(***************************************************************************)
EXTENDS Parser, FiniteSets, Functions, Vectors, TLC

CONSTANT MaxOffset   \* u16::MAX: the widest offset the emitted tables hold

ASSUME OffsetAssumption == MaxOffset \in Nat

VARIABLES
  todo,        \* uses of actions and triggers still to lower, in order
  actions,     \* Ir.actions: per name its parameters and bound variants
  events,      \* Ir.event_variants: per name its kind and field count
  durations,   \* Ir.duration_triggers
  goals,       \* per state and handler: the target's id, None for an action
  defaults,    \* default_child
  color,       \* validate_default_graph: white, gray and black
  chain,       \* ... the defaults followed in this walk
  cur          \* ... the state it has come to, None at the end of a chain

ir == <<actions, events, durations>>
walk == <<color, chain, cur>>
vars == <<source, phase, todo, ir, goals, defaults, walk>>

States == DOMAIN bodies

Phases == {"parse", "lower", "resolve", "defaults", "validate", "generate",
           "done", "rejected", "panicked"}

Init ==
  /\ ParseInit
  /\ todo = <<>> /\ actions = <<>> /\ events = <<>> /\ durations = {}
  /\ goals = <<>> /\ defaults = <<>>
  /\ color = <<>> /\ chain = <<>> /\ cur = None

Parsing == Parse /\ UNCHANGED <<todo, ir, goals, defaults, walk>>

Reject == phase' = "rejected" /\ UNCHANGED <<source, todo, ir, goals, defaults, walk>>

-----------------------------------------------------------------------------
(* build_ir *)

StateNames == {bodies[s].name : s \in States}

(* What lower_body interns for one state, in its order. *)
Uses(b) ==
  [i \in DOMAIN b.entries |-> [action |-> b.entries[i]]]
    \o [i \in DOMAIN b.exits |-> [action |-> b.exits[i]]]
    \o b.handlers

(* The whole tree in preorder, and the terminate event after it. *)
AllUses ==
  FlattenSeq([s \in States |-> Uses(bodies[s])])
    \o IF bodies[1].terminate = None THEN <<>> ELSE <<[terminate |-> bodies[1].terminate]>>

EndOfInput ==
  /\ phase = "parse" /\ open = <<1>>
  /\ \/ /\ ParseTreeValid
        /\ phase' = "lower" /\ todo' = AllUses
        /\ UNCHANGED <<source, ir, goals, defaults, walk>>
     \/ ~ParseTreeValid /\ Reject

(* intern_action_unit and intern_action_with_params: an action's           *)
(* parameters, or that it has none, are those of its first use.            *)
ActionFits(a, params) == a \in DOMAIN actions => actions[a].params = params

(* An interned name with what is now known of it. *)
Put(table, name, entry) ==
  [n \in DOMAIN table \cup {name} |-> IF n = name THEN entry ELSE table[n]]

(* Mutant: the variants of the first use are kept. *)
InternActionOnce(a, params, variants) ==
  IF a \in DOMAIN actions
    THEN actions
    ELSE Put(actions, a, [params |-> params, variants |-> variants])

InternAction(a, params, variants) ==
  LET known == IF a \in DOMAIN actions THEN actions[a].variants ELSE {}
  IN  Put(actions, a, [params |-> params, variants |-> known \cup variants])

UnitTrigger(e) == [event |-> e, kind |-> "Unit", fields |-> <<>>]

(* Mutant: a payload is refused once the variant was used without one. *)
EventFitsFirst(x) ==
  x.event \in DOMAIN events =>
    \/ x.kind = "Unit"
    \/ events[x.event] = [kind |-> x.kind, count |-> Len(x.fields)]

(* intern_event: a use without a payload fits any other. *)
EventFits(x) ==
  x.event \in DOMAIN events =>
    \/ x.kind = "Unit" \/ events[x.event].kind = "Unit"
    \/ events[x.event] = [kind |-> x.kind, count |-> Len(x.fields)]

(* Mutant: the kind of the first use is kept. *)
InternEventOnce(x) ==
  IF x.event \in DOMAIN events
    THEN events
    ELSE Put(events, x.event, [kind |-> x.kind, count |-> Len(x.fields)])

(* ... and the first that has one decides how the variant is matched. *)
InternEvent(x) ==
  IF x.event \notin DOMAIN events \/ (events[x.event].kind = "Unit" /\ x.kind # "Unit")
    THEN Put(events, x.event, [kind |-> x.kind, count |-> Len(x.fields)])
    ELSE events

(* intern_duration: the text and whether it repeats are the key. *)
InternDuration(x) == durations \cup {x}

(* A trigger with a payload, be it one without fields. *)
Binds(x) == ~IsTimer(x) /\ x.kind # "Unit"

(* classify_target: a timer that repeats and a payload need an action. *)
MayTransition(x) == IF IsTimer(x) THEN ~x.repeat ELSE x.kind = "Unit"

Params(x) == IF IsTimer(x) THEN <<>> ELSE x.fields

Variants(x) == IF Binds(x) THEN {[event |-> x.event, kind |-> x.kind]} ELSE {}

(* intern_action_with_params takes an action without parameters for one    *)
(* used without a payload.                                                 *)
TakenForUnit(h) == h.do \in DOMAIN actions /\ actions[h.do].params = <<>>

Fits(h) ==
  /\ ~IsTimer(h.on) => EventFits(h.on)
  /\ h.do \in StateNames => MayTransition(h.on)
  /\ h.do \notin StateNames =>
       ActionFits(h.do, Params(h.on)) /\ ~(Binds(h.on) /\ TakenForUnit(h))

LowerAction ==
  /\ phase = "lower" /\ todo # <<>> /\ "action" \in DOMAIN Head(todo)
  /\ LET a == Head(todo).action
     IN  \/ /\ ActionFits(a, <<>>)
            /\ actions' = InternAction(a, <<>>, {})
            /\ todo' = Tail(todo)
            /\ UNCHANGED <<source, phase, events, durations, goals, defaults, walk>>
         \/ ~ActionFits(a, <<>>) /\ Reject

LowerHandler ==
  /\ phase = "lower" /\ todo # <<>> /\ "on" \in DOMAIN Head(todo)
  /\ LET h == Head(todo)
     IN  \/ /\ Fits(h)
            /\ \/ /\ IsTimer(h.on) /\ durations' = InternDuration(h.on)
                  /\ UNCHANGED events
               \/ /\ ~IsTimer(h.on) /\ events' = InternEvent(h.on)
                  /\ UNCHANGED durations
            /\ actions' = IF h.do \in StateNames
                            THEN actions
                            ELSE InternAction(h.do, Params(h.on), Variants(h.on))
            /\ todo' = Tail(todo)
            /\ UNCHANGED <<source, phase, goals, defaults, walk>>
         \/ ~Fits(h) /\ Reject

LowerTerminate ==
  /\ phase = "lower" /\ todo # <<>> /\ "terminate" \in DOMAIN Head(todo)
  /\ events' = InternEvent(UnitTrigger(Head(todo).terminate))
  /\ todo' = Tail(todo)
  /\ UNCHANGED <<source, phase, actions, durations, goals, defaults, walk>>

Lowered ==
  /\ phase = "lower" /\ todo = <<>>
  /\ phase' = "resolve"
  /\ UNCHANGED <<source, todo, ir, goals, defaults, walk>>

-----------------------------------------------------------------------------
(* resolve_transitions *)

(* The chart's name is inserted last, and of two states with one name the  *)
(* later one wins.                                                         *)
StateNamed(n) ==
  IF n = ChartName THEN 1 ELSE CHOOSE s \in States :
    bodies[s].name = n /\ \A r \in States : bodies[r].name = n => r <= s

Resolve ==
  /\ phase = "resolve"
  /\ \/ /\ \A s \in States : bodies[s].default \in StateNames \cup {None}
        /\ goals' = [s \in States |-> [i \in DOMAIN bodies[s].handlers |->
             IF bodies[s].handlers[i].do \in StateNames
               THEN StateNamed(bodies[s].handlers[i].do) ELSE None]]
        /\ defaults' = [s \in States |->
             IF bodies[s].default = None THEN None ELSE StateNamed(bodies[s].default)]
        /\ color' = [s \in States |-> "white"]
        /\ phase' = "defaults"
        /\ UNCHANGED <<source, todo, ir, chain, cur>>
     \/ /\ \E s \in States : bodies[s].default \notin StateNames \cup {None}
        /\ Reject

-----------------------------------------------------------------------------
(* validate_default_graph: a walk along the defaults from each state that  *)
(* no earlier walk has seen.                                               *)

White == {s \in States : color[s] = "white"}

StartWalk ==
  /\ phase = "defaults" /\ chain = <<>> /\ cur = None /\ White # {}
  /\ cur' = CHOOSE s \in White : \A r \in White : s <= r
  /\ UNCHANGED <<source, phase, todo, ir, goals, defaults, color, chain>>

(* Mutant: a state is marked at the end of its walk only. *)
FollowUnmarked ==
  /\ phase = "defaults" /\ cur # None /\ color[cur] = "white"
  /\ chain' = IF Contains(chain, cur) THEN chain ELSE Append(chain, cur)
  /\ cur' = defaults[cur]
  /\ UNCHANGED <<source, phase, todo, ir, goals, defaults, color>>

Follow ==
  /\ phase = "defaults" /\ cur # None /\ color[cur] = "white"
  /\ color' = [color EXCEPT ![cur] = "gray"]
  /\ chain' = Append(chain, cur)
  /\ cur' = defaults[cur]
  /\ UNCHANGED <<source, phase, todo, ir, goals, defaults>>

EndWalk ==
  /\ phase = "defaults" /\ chain # <<>>
  /\ IF cur = None THEN TRUE ELSE color[cur] = "black"
  /\ color' = [s \in States |-> IF s \in ToSet(chain) THEN "black" ELSE color[s]]
  /\ chain' = <<>> /\ cur' = None
  /\ UNCHANGED <<source, phase, todo, ir, goals, defaults>>

FindCycle ==
  /\ phase = "defaults" /\ cur # None /\ color[cur] = "gray"
  /\ Reject

DefaultsWalked ==
  /\ phase = "defaults" /\ chain = <<>> /\ White = {}
  /\ phase' = "validate"
  /\ UNCHANGED <<source, todo, ir, goals, defaults, walk>>

-----------------------------------------------------------------------------
(* validate, after it *)

UniqueNames == \A s, r \in States \ {1} : bodies[s].name = bodies[r].name => s = r

(* A default of its own does not keep a state from being empty. *)
NotEmpty(s) ==
  \/ s = 1
  \/ bodies[s].entries # <<>> \/ bodies[s].exits # <<>> \/ bodies[s].handlers # <<>>
  \/ bodies[s].durings # <<>> \/ \E c \in States : bodies[c].parent = s

(* No field is borrowed twice by what one state runs at once. *)
FieldsDisjoint(s) ==
  LET fields == FlattenSeq([i \in DOMAIN bodies[s].durings |-> bodies[s].durings[i].fields])
  IN  IsInjective(fields)

(* A state's clauses on one trigger are known by the event's name. *)
Key(x) == IF IsTimer(x) THEN x ELSE x.event

(* Mutant: only a second transition is looked for. *)
TransitionIsSingle(s) ==
  \A i, j \in DOMAIN bodies[s].handlers :
    i < j /\ Key(bodies[s].handlers[i].on) = Key(bodies[s].handlers[j].on)
      => goals[s][i] = None \/ goals[s][j] = None

(* Nothing on a trigger is declared after its transition. *)
TransitionComesLast(s) ==
  \A i, j \in DOMAIN bodies[s].handlers :
    i < j /\ Key(bodies[s].handlers[i].on) = Key(bodies[s].handlers[j].on)
      => goals[s][i] = None

Valid == UniqueNames /\ \A s \in States : NotEmpty(s) /\ FieldsDisjoint(s) /\ TransitionComesLast(s)

Validate ==
  /\ phase = "validate"
  /\ \/ /\ Valid
        /\ phase' = "generate"
        /\ UNCHANGED <<source, todo, ir, goals, defaults, walk>>
     \/ ~Valid /\ Reject

-----------------------------------------------------------------------------
(* generate *)

Table == INSTANCE PathTables WITH
  State <- States, Root <- 1, Event <- DOMAIN events, Trigger <- durations,
  Parent <- [s \in States \ {1} |-> bodies[s].parent],
  Default <- defaults,
  On <- [s \in States |-> [i \in DOMAIN bodies[s].handlers |->
          [on |-> Key(bodies[s].handlers[i].on),
           do |-> IF goals[s][i] = None THEN bodies[s].handlers[i].do ELSE goals[s][i]]]]

(* The arrays are emitted, or an offset does not fit and the macro panics. *)
Generate ==
  /\ phase = "generate"
  /\ \/ Table!OffsetsFit /\ phase' = "done"
     \/ ~Table!OffsetsFit /\ phase' = "panicked"
  /\ UNCHANGED <<source, todo, ir, goals, defaults, walk>>

Check ==
  \/ EndOfInput
  \/ LowerAction \/ LowerHandler \/ LowerTerminate \/ Lowered
  \/ Resolve
  \/ StartWalk \/ Follow \/ EndWalk \/ FindCycle \/ DefaultsWalked
  \/ Validate

Next == Parsing \/ Check \/ Generate

(* Once the whole invocation has been read the passes run to their end.    *)
Spec == Init /\ [][Next]_vars /\ WF_vars(Check)

-----------------------------------------------------------------------------
AllHandlers == UNION {ToSet(bodies[s].handlers) : s \in States}

Typed == {h \in AllHandlers : Params(h.on) # <<>>}

Binding == {h \in AllHandlers : Binds(h.on)}

TypeOK ==
  /\ phase \in Phases
  /\ \A s \in States \ {1} : bodies[s].parent \in 1 .. s - 1
  /\ ToSet(open) \subseteq States
  /\ IsFiniteSet(durations) /\ \A x \in durations : IsTimer(x)
  /\ \A e \in DOMAIN events : events[e].kind \in {"Unit", "Tuple", "Struct"}
  /\ cur \in States \cup {None} /\ ToSet(chain) \subseteq States
  /\ \A s \in DOMAIN defaults : defaults[s] \in States \cup {None}
  /\ \A s \in DOMAIN goals : \A i \in DOMAIN goals[s] : goals[s][i] \in States \cup {None}

(* The uses of a name agree: every action is used with the same payload    *)
(* everywhere, and the payloads of an event have one form.                 *)
UsesAgree ==
  /\ \A h, g \in AllHandlers :
       h.do = g.do /\ h.do \notin StateNames => Params(h.on) = Params(g.on)
  /\ \A h \in Typed : \A s \in States :
       h.do \notin ToSet(bodies[s].entries) \cup ToSet(bodies[s].exits)
  /\ \A h, g \in Binding : h.on.event = g.on.event =>
       h.on.kind = g.on.kind /\ Len(h.on.fields) = Len(g.on.fields)

TransitionsAreBare == \A h \in AllHandlers : h.do \in StateNames => MayTransition(h.on)

DefaultsAreStates == \A s \in States : bodies[s].default \in StateNames \cup {None}

(* No set of states is closed under taking the default. *)
DefaultsEnd ==
  \A closed \in (SUBSET States) \ {{}} : \E s \in closed :
    bodies[s].default = None \/ StateNamed(bodies[s].default) \notin closed

(* No trigger is declared again in a state that leaves on it already. *)
NothingAfterTransition ==
  \A s \in States : \A i, j \in DOMAIN bodies[s].handlers :
    i < j /\ bodies[s].handlers[i].do \in StateNames =>
      Key(bodies[s].handlers[i].on) # Key(bodies[s].handlers[j].on)

IsUseOf(use, a) ==
  \/ "action" \in DOMAIN use /\ use.action = a
  \/ "on" \in DOMAIN use /\ use.do = a

BindsNothing(use) ==
  "on" \in DOMAIN use /\ Binds(use.on) /\ Params(use.on) = <<>> /\ use.do \notin StateNames

(* A payload without fields, `on(E()) => work`, comes before every other   *)
(* use of its action.                                                      *)
EmptyPayloadsComeFirst ==
  LET uses == AllUses IN
  \A i, j \in DOMAIN uses :
    i < j /\ BindsNothing(uses[j]) => ~IsUseOf(uses[i], uses[j].do)

(* What the declarations must satisfy in whatever order they come ... *)
Consistent ==
  /\ ParseTreeValid /\ UsesAgree /\ TransitionsAreBare /\ DefaultsAreStates
  /\ DefaultsEnd /\ UniqueNames
  /\ \A s \in States : NotEmpty(s) /\ FieldsDisjoint(s)

(* ... and the two rules in which their order counts: that of validate,    *)
(* and one that intern_action_* make of payloads without fields only.      *)
Legal == Consistent /\ NothingAfterTransition /\ EmptyPayloadsComeFirst

(* The macro rejects exactly what is not Legal: interning at first use,    *)
(* the walk along the defaults and the scan of the handlers depend on the  *)
(* order of the declarations only where Legal does, that is within the     *)
(* clauses of a state on one trigger and, which no document says, for an   *)
(* action that is bound to a payload without fields (ir.rs:219 accepts     *)
(* `E()` then `E`, ir.rs:247 rejects `E` then `E()`).                      *)
VerdictIsLegal ==
  /\ phase \in {"done", "panicked"} => Legal
  /\ phase = "rejected" => ~Legal

AfterLowering == phase \in {"resolve", "defaults", "validate", "generate", "done"}

(* The pattern __event_to_id matches a variant with is the one its payload *)
(* needs, wherever among the uses without a payload the first with one is  *)
(* declared (intern_event's upgrade).                                      *)
PatternsFit ==
  AfterLowering => \A h \in Binding :
    events[h.on.event] = [kind |-> h.on.kind, count |-> Len(h.on.fields)]

(* run_action's arms: the action is called as it is, or with the payload   *)
(* of the event at hand if that is one of the bound variants; a timer has  *)
(* no event.  Otherwise nothing runs.                                      *)
Called(a, x) ==
  \/ actions[a].params = <<>>
  \/ ~IsTimer(x) /\ [event |-> x.event, kind |-> x.kind] \in actions[a].variants

(* Every handler's action runs whenever its trigger comes: none falls      *)
(* silently through run_action's arms because another use of the action    *)
(* was declared first (bound_variants).                                    *)
PayloadsReachActions ==
  AfterLowering => \A h \in AllHandlers : h.do \notin StateNames => Called(h.do, h.on)

(* What a state does on a trigger, actions first and then the transition,  *)
(* is what its clauses say from left to right (the ordering rule of        *)
(* validate, the grouping of state_handler_arms).                          *)
ReadsAsItRuns ==
  phase = "done" => \A s \in States : \A x \in {Key(h.on) : h \in AllHandlers} :
    LET handlers == bodies[s].handlers
        clauses == Retain(handlers, {i \in DOMAIN handlers : Key(handlers[i].on) = x})
        runs == Table!HandlerOf(s, x)
    IN  [i \in DOMAIN clauses |-> clauses[i].do]
          = runs.actions \o IF runs.target = None THEN <<>> ELSE <<bodies[runs.target].name>>

(* Every chart whose tables are emitted, and none is emitted with offsets  *)
(* that do not fit, passes the checks of the generated code, and each      *)
(* slice the machine takes is the path of its pair (compute_*_paths,       *)
(* apply_path).                                                            *)
TablesDecode ==
  phase = "done" =>
    /\ Table!PathTablesSound
    /\ \A f, t \in States :
         /\ Table!ExitSlice(f, t) = Table!ExitOf(f, t)
         /\ Table!EnterSlice(f, t) = Table!EnterOf(f, t)
    /\ \A s \in States : Table!TerminateSlice(s) = Table!Chain[s]

(* The machine is right to rely on its tables: the exit slice is a prefix  *)
(* of the path from the current state to the root and the enter slice      *)
(* leads from the rest of it to the target, and nothing the two share is   *)
(* exited (the assumptions RootPath, PathsAreClosed, PathTables and        *)
(* SharedStays of Machine, here of every tree).                            *)
TablesServeTheMachine ==
  phase = "done" => \A f, t \in States :
    LET path == Table!TerminateSlice(f)
        goal == Table!TerminateSlice(t)
        exit == Table!ExitSlice(f, t)
        enter == Table!EnterSlice(f, t)
    IN  /\ Table!TerminateSlice(1) = <<1>> /\ Head(path) = f
        /\ \A i \in DOMAIN path :
             Table!TerminateSlice(path[i]) = SubSeq(path, i, Len(path))
        /\ \E n \in 1 .. Len(path) + 1 :
             LET rest == SubSeq(path, n, Len(path))
             IN  path = exit \o rest /\ goal = Reverse(enter) \o rest
        /\ ToSet(exit) \cap ToSet(path) \cap ToSet(goal) \subseteq {f} \cap {t}

(* The macro always comes to a verdict, also on defaults that form a cycle *)
(* (the marks of validate_default_graph).                                  *)
CompileEnds == phase = "lower" ~> phase \in {"generate", "rejected"}
=============================================================================
