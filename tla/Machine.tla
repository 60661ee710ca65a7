------------------------------ MODULE Machine ------------------------------
(***************************************************************************)
(* The machine the statechart! macro generates (hsmc-macros/src/codegen.rs,*)
(* generate): the queue, the timers, the active configuration, and the     *)
(* code of step() between one entry, exit or transition action and the     *)
(* next, driven by send(), step() and dispatch().                          *)
(*                                                                         *)
(* A chart is given by the constant tables the macro emits.  An action of  *)
(* the chart is user code: while it is at the head of `acts` it runs and   *)
(* may emit events, any number of times.                                   *)
(***************************************************************************)
EXTENDS TimerSet, Sequences, SequencesExt

CONSTANTS
  Root,            \* state id 0
  Event,           \* values of the chart's event type
  TerminateEvent,  \* the event of `terminate(..)`, or None
  Action,          \* names of the user's actions
  TerminatePath,   \* __TERMINATE_DATA: per state, itself .. Root
  ExitPath,        \* __PATH_DATA, exit slice per (current, target)
  EnterPath,       \* __PATH_DATA, enter slice per (current, target)
  DefaultChild,    \* __DEFAULT_CHILD: target of default(..), or None
  EventHandler,    \* __DISPATCH: per (state, event) the bubbled handler
  TimerHandler,    \* __handler_lookup of a duration trigger
  OwnedTimers,     \* __owned_timers
  DurationFor,     \* __duration_for
  Repeats,         \* __duration_repeats
  EntryActions,    \* entries_of
  ExitActions,     \* exits_of
  MayEmit,         \* events an action may emit
  QueueCap,        \* __QN
  Elapsed,         \* durations a driver passes to step()
  None             \* no value

Handler == [owner : State \cup {None}, actions : Seq(Action), target : State \cup {None}]

(* What codegen and validation guarantee of the tables.  The path tables   *)
(* say how a transition changes the path to the root: the exit slice is a  *)
(* prefix of the current path, and what remains, extended by the enter     *)
(* slice, is the target's path.                                            *)
ASSUME TableTypes ==
  /\ Root \in State /\ None \notin State /\ None \notin Event
  /\ TerminateEvent \in Event \cup {None}
  /\ TerminatePath \in [State -> Seq(State)]
  /\ ExitPath \in [State -> [State -> Seq(State)]]
  /\ EnterPath \in [State -> [State -> Seq(State)]]
  /\ DefaultChild \in [State -> State \cup {None}]
  /\ EventHandler \in [State -> [Event -> Handler]]
  /\ TimerHandler \in [State -> [Trigger -> Handler]]
  /\ OwnedTimers \in [State -> Seq(Trigger)]
  /\ DurationFor \in [Trigger -> Nat] /\ Repeats \in [Trigger -> BOOLEAN]
  /\ EntryActions \in [State -> Seq(Action)]
  /\ ExitActions \in [State -> Seq(Action)]
  /\ MayEmit \in [Action -> SUBSET Event]
  /\ QueueCap \in Nat
  /\ Elapsed \subseteq Nat

ASSUME RootPath == TerminatePath[Root] = <<Root>>

ASSUME PathsAreClosed ==
  \A s \in State :
    /\ TerminatePath[s] # <<>> /\ Head(TerminatePath[s]) = s
    /\ \A i \in 1 .. Len(TerminatePath[s]) :
         TerminatePath[TerminatePath[s][i]]
           = SubSeq(TerminatePath[s], i, Len(TerminatePath[s]))

ASSUME PathTables ==
  \A f, t \in State : \E n \in 1 .. Len(TerminatePath[f]) + 1 :
    LET rest == SubSeq(TerminatePath[f], n, Len(TerminatePath[f]))
    IN  /\ TerminatePath[f] = ExitPath[f][t] \o rest
        /\ TerminatePath[t] = Reverse(EnterPath[f][t]) \o rest

(* The states above both ends of a transition, or at one of them; all of   *)
(* them but the state of a self-transition.                                *)
Shared(f, t) ==
  (Range(TerminatePath[f]) \cap Range(TerminatePath[t])) \ ({t} \cap {f})

(* compute_one: the walk of the exits ends at the lowest of them.          *)
ASSUME SharedStays == \A f, t \in State : Range(ExitPath[f][t]) \cap Shared(f, t) = {}

-----------------------------------------------------------------------------
VARIABLES
  current,     \* innermost active state, None before the first step
  queue,       \* heapless::Deque<Event, __QN>
  timers,      \* TimerTable
  terminated,
  overflow,    \* __overflow, the sticky flag of EmitProxy
  call,        \* the API call in progress
  phase,       \* where in step()'s code it is
  acts,        \* actions still to run here, the first one running
  target,      \* transition target; None in a path means do_terminate
  exits,       \* states of the path still to exit
  enters,      \* states of the path still to enter
  arms,        \* timers of Head(enters) still to start
  result,      \* Result of the last send() or dispatch()
  active,      \* history: states entered and not exited, innermost first
  fired,       \* history: one-shot timers fired since their state's entry
  refused,     \* history: this call's actions had an emit refused
  origin       \* history: current when the transition in progress began

fields == <<current, queue, timers, terminated, overflow>>
frame == <<call, phase, acts, target, exits, enters, arms>>
history == <<result, active, fired, refused, origin>>
vars == <<fields, frame, history>>

Calls == {"none", "step", "dispatch"}
Results == {"none", "Ok", "QueueFull", "AlreadyTerminated"}
Phases == {"idle", "drain", "handler", "path", "exiting", "entering", "arming",
           "defaults", "return"}

TypeOK ==
  /\ current \in State \cup {None}
  /\ queue \in Seq(Event) /\ Len(queue) <= QueueCap
  /\ timers \subseteq Timer
  /\ terminated \in BOOLEAN /\ overflow \in BOOLEAN
  /\ call \in Calls /\ phase \in Phases /\ result \in Results
  /\ acts \in Seq(Action)
  /\ target \in State \cup {None}
  /\ exits \in Seq(State) /\ enters \in Seq(State) /\ active \in Seq(State)
  /\ arms \in Seq(Trigger)
  /\ fired \subseteq State \X Trigger
  /\ refused \in BOOLEAN
  /\ origin \in State \cup {None}

Init ==
  /\ current = None /\ queue = <<>> /\ timers = {}
  /\ terminated = FALSE /\ overflow = FALSE
  /\ call = "none" /\ phase = "idle" /\ acts = <<>> /\ target = None
  /\ exits = <<>> /\ enters = <<>> /\ arms = <<>>
  /\ result = "none" /\ active = <<>> /\ fired = {} /\ refused = FALSE
  /\ origin = None

-----------------------------------------------------------------------------
(* The user's actions: run_action, ActionContext::emit, EmitProxy::push. *)

(* Once one push was refused, all are, until the flag is taken. *)
Push(e) ==
  \/ /\ ~overflow /\ Len(queue) < QueueCap
     /\ queue' = Append(queue, e)
     /\ UNCHANGED <<overflow, refused>>
  \/ /\ overflow \/ Len(queue) = QueueCap
     /\ overflow' = TRUE /\ refused' = TRUE
     /\ UNCHANGED queue

Emit(e) ==
  /\ acts # <<>> /\ ~terminated
  /\ e \in MayEmit[Head(acts)]
  /\ Push(e)
  /\ UNCHANGED <<current, timers, terminated, frame, result, active, fired, origin>>

ActionReturns ==
  /\ acts # <<>>
  /\ acts' = Tail(acts)
  /\ UNCHANGED <<fields, call, phase, target, exits, enters, arms, history>>

-----------------------------------------------------------------------------
(* Transitions: run_handlers' tail, apply_path, follow_defaults. *)

(* Mutant: the exit slice is walked from its outer end. *)
BeginPathOuterFirst(from, to) ==
  /\ exits' = Reverse(ExitPath[from][to])
  /\ enters' = EnterPath[from][to]
  /\ target' = to /\ origin' = from
  /\ phase' = "path"
  /\ UNCHANGED <<fields, call, acts, arms, result, active, fired, refused>>

(* Mutant: no common ancestor, everything is left and entered again. *)
BeginPathThroughRoot(from, to) ==
  /\ exits' = TerminatePath[from]
  /\ enters' = Reverse(TerminatePath[to])
  /\ target' = to /\ origin' = from
  /\ phase' = "path"
  /\ UNCHANGED <<fields, call, acts, arms, result, active, fired, refused>>

BeginPath(from, to) ==
  /\ exits' = ExitPath[from][to]
  /\ enters' = EnterPath[from][to]
  /\ target' = to /\ origin' = from
  /\ phase' = "path"
  /\ UNCHANGED <<fields, call, acts, arms, result, active, fired, refused>>

HandlerDone ==
  /\ phase = "handler" /\ acts = <<>>
  /\ \/ target # None /\ BeginPath(current, target)
     \/ /\ target = None /\ phase' = "return"
        /\ UNCHANGED <<fields, call, acts, target, exits, enters, arms, history>>

(* exit_state: the timers go before the exit actions run. *)
BeginExit ==
  /\ phase = "path" /\ exits # <<>>
  /\ timers' = CancelState(timers, Head(exits))
  /\ fired' = {p \in fired : p[1] # Head(exits)}
  /\ acts' = ExitActions[Head(exits)]
  /\ phase' = "exiting"
  /\ UNCHANGED <<current, queue, terminated, overflow, call, target, exits, enters,
                 arms, result, active, refused, origin>>

(* The history of `active` when s is exited, in or out of order, or again. *)
Leave(s) == IF active # <<>> /\ Head(active) = s THEN Tail(active)
            ELSE IF s \in Range(active) THEN SelectSeq(active, LAMBDA a : a # s)
            ELSE active

EndExit ==
  /\ phase = "exiting" /\ acts = <<>>
  /\ active' = Leave(Head(exits))
  /\ exits' = Tail(exits)
  /\ phase' = "path"
  /\ UNCHANGED <<fields, call, acts, target, enters, arms, result, fired, refused, origin>>

(* enter_state_no_descent: entry actions, then timers, then current. *)
BeginEnter ==
  /\ phase = "path" /\ exits = <<>> /\ enters # <<>>
  /\ acts' = EntryActions[Head(enters)]
  /\ phase' = "entering"
  /\ UNCHANGED <<fields, call, target, exits, enters, arms, history>>

EntryActionsDone ==
  /\ phase = "entering" /\ acts = <<>>
  /\ arms' = OwnedTimers[Head(enters)]
  /\ phase' = "arming"
  /\ UNCHANGED <<fields, call, acts, target, exits, enters, history>>

ArmTimer ==
  /\ phase = "arming" /\ arms # <<>>
  /\ timers' = Start(timers, Head(enters), Head(arms), DurationFor[Head(arms)])
  /\ arms' = Tail(arms)
  /\ UNCHANGED <<current, queue, terminated, overflow, call, phase, acts, target,
                 exits, enters, history>>

(* Mutant: `current` moves once, at the end of the path. *)
EndEnterMovesCurrentLast ==
  /\ phase = "arming" /\ arms = <<>>
  /\ current' = IF Tail(enters) = <<>> THEN Head(enters) ELSE current
  /\ active' = <<Head(enters)>> \o active
  /\ enters' = Tail(enters)
  /\ phase' = IF Tail(enters) = <<>> THEN "defaults" ELSE "path"
  /\ UNCHANGED <<queue, timers, terminated, overflow, call, acts, target, exits, arms,
                 result, fired, refused, origin>>

EndEnter ==
  /\ phase = "arming" /\ arms = <<>>
  /\ current' = Head(enters)
  /\ active' = <<Head(enters)>> \o active
  /\ enters' = Tail(enters)
  /\ phase' = IF Tail(enters) = <<>> THEN "defaults" ELSE "path"
  /\ UNCHANGED <<queue, timers, terminated, overflow, call, acts, target, exits, arms,
                 result, fired, refused, origin>>

(* Mutant: `current` is left where the exits began. *)
UpTransitionKeepsCurrent ==
  /\ phase = "path" /\ exits = <<>> /\ enters = <<>> /\ target # None
  /\ phase' = "return"
  /\ UNCHANGED <<fields, call, acts, target, exits, enters, arms, history>>

(* An empty enter slice: the target was active all along, and neither its  *)
(* entry actions nor its default run.                                      *)
UpTransition ==
  /\ phase = "path" /\ exits = <<>> /\ enters = <<>> /\ target # None
  /\ current' = target
  /\ phase' = "return"
  /\ UNCHANGED <<queue, timers, terminated, overflow, call, acts, target, exits,
                 enters, arms, history>>

FollowDefault ==
  /\ phase = "defaults"
  /\ \/ DefaultChild[current] # None /\ BeginPath(current, DefaultChild[current])
     \/ /\ DefaultChild[current] = None /\ phase' = "return"
        /\ UNCHANGED <<fields, call, acts, target, exits, enters, arms, history>>

(* Mutant: the queue survives. *)
TerminateKeepsQueue ==
  /\ phase = "path" /\ exits = <<>> /\ enters = <<>> /\ target = None
  /\ terminated' = TRUE /\ current' = None
  /\ phase' = "return"
  /\ UNCHANGED <<queue, timers, overflow, call, acts, target, exits, enters, arms,
                 history>>

(* do_terminate, once every active state is exited. *)
Terminate ==
  /\ phase = "path" /\ exits = <<>> /\ enters = <<>> /\ target = None
  /\ terminated' = TRUE /\ current' = None /\ queue' = <<>>
  /\ phase' = "return"
  /\ UNCHANGED <<timers, overflow, call, acts, target, exits, enters, arms, history>>

-----------------------------------------------------------------------------
(* The unit of work step(d) does; c is the call it is part of. *)

(* Mutant: the event is looked at and stays in the queue. *)
PeekFront(q) == q

PopFront(q) == Tail(q)

Ticked(d) == Decrement(timers, d)

EnterRoot(c) ==
  /\ ~terminated /\ current = None
  /\ exits' = <<>> /\ enters' = <<Root>> /\ target' = Root /\ origin' = None
  /\ call' = c /\ phase' = "path"
  /\ UNCHANGED <<fields, acts, arms, result, active, fired>>

(* The timer e is popped, and started again if it repeats. *)
Fire(e, d, c) ==
  /\ ~terminated /\ current # None
  /\ LET h == TimerHandler[e.state][e.trigger]
         rest == Ticked(d) \ {e}
     IN  /\ timers' = IF Repeats[e.trigger]
                        THEN Start(rest, e.state, e.trigger, DurationFor[e.trigger])
                        ELSE rest
         /\ fired' = IF Repeats[e.trigger]
                       THEN fired
                       ELSE fired \cup {<<e.state, e.trigger>>}
         /\ acts' = h.actions
         /\ target' = h.target
  /\ call' = c /\ phase' = "handler"
  /\ UNCHANGED <<current, queue, terminated, overflow, exits, enters, arms, result,
                 active, origin>>

FireTimer(d, c) == \E e \in Poppable(Ticked(d)) : Fire(e, d, c)

(* Mutant: events go before due timers. *)
TakeEventFirst(d, c) ==
  /\ ~terminated /\ current # None
  /\ queue # <<>>
  /\ timers' = Ticked(d)
  /\ queue' = PopFront(queue)
  /\ LET h == EventHandler[current][Head(queue)]
     IN  \/ /\ Head(queue) = TerminateEvent
            /\ exits' = TerminatePath[current] /\ enters' = <<>>
            /\ target' = None /\ origin' = current
            /\ phase' = "path"
            /\ UNCHANGED acts
         \/ /\ Head(queue) # TerminateEvent
            /\ acts' = h.actions /\ target' = h.target
            /\ phase' = IF h.owner # None THEN "handler" ELSE "return"
            /\ UNCHANGED <<exits, enters, origin>>
  /\ call' = c
  /\ UNCHANGED <<current, terminated, overflow, arms, result, active, fired>>

TakeEvent(d, c) ==
  /\ ~terminated /\ current # None
  /\ Expired(Ticked(d)) = {} /\ queue # <<>>
  /\ timers' = Ticked(d)
  /\ queue' = PopFront(queue)
  /\ LET h == EventHandler[current][Head(queue)]
     IN  \/ /\ Head(queue) = TerminateEvent
            /\ exits' = TerminatePath[current] /\ enters' = <<>>
            /\ target' = None /\ origin' = current
            /\ phase' = "path"
            /\ UNCHANGED acts
         \/ /\ Head(queue) # TerminateEvent /\ h.owner # None
            /\ acts' = h.actions /\ target' = h.target
            /\ phase' = "handler"
            /\ UNCHANGED <<exits, enters, origin>>
         \/ /\ Head(queue) # TerminateEvent /\ h.owner = None
            /\ phase' = "return"
            /\ UNCHANGED <<acts, target, exits, enters, origin>>
  /\ call' = c
  /\ UNCHANGED <<current, terminated, overflow, arms, result, active, fired>>

NothingDue(d, c) ==
  /\ ~terminated /\ current # None
  /\ Expired(Ticked(d)) = {} /\ queue = <<>>
  /\ timers' = Ticked(d)
  /\ call' = c /\ phase' = "return"
  /\ UNCHANGED <<current, queue, terminated, overflow, acts, target, exits, enters,
                 arms, result, active, fired, origin>>

-----------------------------------------------------------------------------
(* The drivers. *)

Idle == call = "none"

(* Mutant: an unbounded queue. *)
SendUnbounded(e) ==
  /\ Idle
  /\ \/ terminated /\ result' = "AlreadyTerminated" /\ UNCHANGED queue
     \/ /\ ~terminated /\ queue' = Append(queue, e) /\ result' = "Ok"
  /\ UNCHANGED <<current, timers, terminated, overflow, frame, active, fired, refused, origin>>

(* Mutant: a terminated machine still takes events. *)
SendToTerminated(e) ==
  /\ Idle
  /\ \/ Len(queue) < QueueCap /\ queue' = Append(queue, e) /\ result' = "Ok"
     \/ Len(queue) = QueueCap /\ result' = "QueueFull" /\ UNCHANGED queue
  /\ UNCHANGED <<current, timers, terminated, overflow, frame, active, fired, refused, origin>>

Send(e) ==
  /\ Idle
  /\ \/ terminated /\ result' = "AlreadyTerminated" /\ UNCHANGED queue
     \/ /\ ~terminated /\ Len(queue) < QueueCap
        /\ queue' = Append(queue, e) /\ result' = "Ok"
     \/ /\ ~terminated /\ Len(queue) = QueueCap
        /\ result' = "QueueFull" /\ UNCHANGED queue
  /\ UNCHANGED <<current, timers, terminated, overflow, frame, active, fired, refused, origin>>

Step(d) ==
  /\ Idle
  /\ \/ EnterRoot("step")
     \/ FireTimer(d, "step")
     \/ TakeEvent(d, "step")
     \/ NothingDue(d, "step")
  /\ refused' = FALSE

StepReturns ==
  /\ call = "step" /\ phase = "return"
  /\ call' = "none" /\ phase' = "idle"
  /\ UNCHANGED <<fields, acts, target, exits, enters, arms, history>>

TakeOverflow ==
  /\ Idle /\ overflow
  /\ overflow' = FALSE
  /\ UNCHANGED <<current, queue, timers, terminated, frame, history>>

Dispatch(e) ==
  /\ Idle
  /\ \/ /\ terminated /\ result' = "AlreadyTerminated"
        /\ UNCHANGED <<queue, call, phase, refused>>
     \/ /\ ~terminated /\ Len(queue) = QueueCap /\ result' = "QueueFull"
        /\ UNCHANGED <<queue, call, phase, refused>>
     \/ /\ ~terminated /\ Len(queue) < QueueCap
        /\ queue' = Append(queue, e)
        /\ call' = "dispatch" /\ phase' = "drain"
        /\ result' = "none" /\ refused' = FALSE
  /\ UNCHANGED <<current, timers, terminated, overflow, acts, target, exits, enters,
                 arms, active, fired, origin>>

(* `while !self.queue.is_empty() { self.step(ZERO).await; .. }`: the very  *)
(* first step primes the machine, and no step finds nothing to do.         *)
DispatchStep ==
  /\ call = "dispatch" /\ phase = "drain" /\ queue # <<>>
  /\ EnterRoot("dispatch") \/ FireTimer(0, "dispatch") \/ TakeEvent(0, "dispatch")
  /\ UNCHANGED refused

DispatchReturns(r) ==
  /\ result' = r /\ call' = "none" /\ phase' = "idle"
  /\ UNCHANGED <<current, queue, timers, terminated, acts, target, exits, enters,
                 arms, active, fired, refused, origin>>

(* Mutant: termination is looked at before the overflow. *)
DispatchChecksTerminated ==
  /\ call = "dispatch" /\ phase = "return"
  /\ \/ terminated /\ DispatchReturns("Ok") /\ UNCHANGED overflow
     \/ ~terminated /\ overflow /\ overflow' = FALSE /\ DispatchReturns("QueueFull")
     \/ /\ ~overflow /\ ~terminated /\ phase' = "drain"
        /\ UNCHANGED <<fields, call, acts, target, exits, enters, arms, history>>

(* After every step: overflow first, termination second, then the loop. *)
DispatchChecks ==
  /\ call = "dispatch" /\ phase = "return"
  /\ \/ overflow /\ overflow' = FALSE /\ DispatchReturns("QueueFull")
     \/ ~overflow /\ terminated /\ DispatchReturns("Ok") /\ UNCHANGED overflow
     \/ /\ ~overflow /\ ~terminated /\ phase' = "drain"
        /\ UNCHANGED <<fields, call, acts, target, exits, enters, arms, history>>

DispatchDrained ==
  /\ call = "dispatch" /\ phase = "drain" /\ queue = <<>>
  /\ DispatchReturns("Ok") /\ UNCHANGED overflow

-----------------------------------------------------------------------------
(* One unit of work going on, once begun. *)
Progress ==
  \/ ActionReturns \/ HandlerDone
  \/ BeginExit \/ EndExit
  \/ BeginEnter \/ EntryActionsDone \/ ArmTimer \/ EndEnter
  \/ UpTransition \/ FollowDefault \/ Terminate

(* The code's own progress, as opposed to its callers' and the user's. *)
Internal ==
  \/ Progress
  \/ StepReturns \/ DispatchStep \/ DispatchChecks \/ DispatchDrained

Next ==
  \/ Internal
  \/ \E e \in Event : Emit(e)
  \/ \E e \in Event : Send(e) \/ Dispatch(e)
  \/ \E d \in Elapsed : Step(d)
  \/ TakeOverflow

Spec == Init /\ [][Next]_vars

(* A call in progress is a running piece of Rust code, and the user's      *)
(* actions return: nothing else is assumed to happen.                      *)
FairSpec == Spec /\ WF_vars(Internal)

-----------------------------------------------------------------------------
(* The state whose timers exit_state has cancelled and whose exit actions  *)
(* are running.                                                            *)
Exiting == IF phase = "exiting" THEN {Head(exits)} ELSE {}

Moving == phase \in {"path", "exiting", "entering", "arming"}

(* The configuration is one path of the tree at every moment, also between *)
(* the exits and entries of a transition and while the user's actions run: *)
(* states are exited from the innermost outwards and entered from the      *)
(* outermost inwards, none twice (apply_path, follow_defaults).            *)
ActiveIsPath == active # <<>> => active = TerminatePath[Head(active)]

(* Whenever no path is being walked, `current` names the configuration:    *)
(* the states entered and not exited are exactly `current` and its         *)
(* ancestors, after any series of self, up and lateral transitions and     *)
(* default chains (apply_path sets `current` on an up-transition, entry    *)
(* sets it otherwise, exit never does).                                    *)
ActiveMatchesCurrent ==
  ~Moving => active = IF current = None THEN <<>> ELSE TerminatePath[current]

(* No timer outlives its state or starts before it: an armed timer belongs *)
(* to an active state that is not being exited, or to the state whose      *)
(* entry is arming its timers.  A timer can therefore never fire into a    *)
(* state that was left, however long the table kept it (exit_state,        *)
(* enter_state_no_descent, pop_expired).                                   *)
TimersOfActive ==
  \A e \in timers :
    \/ e.state \in Range(active) \ Exiting
    \/ phase = "arming" /\ e.state = Head(enters)

(* Every timer a state declares runs for as long as the state is active:   *)
(* it is armed, or it is a one-shot that has fired since the state was     *)
(* entered ("a timer starts when its state is entered", docs/002).         *)
OwnedTimersArmed ==
  \A s \in Range(active) \ Exiting : \A t \in Range(OwnedTimers[s]) :
    Slot(timers, s, t) # {} \/ <<s, t>> \in fired

(* A transition leaves alone what its two ends share: a state above both   *)
(* the state it starts from and its target is never exited and re-entered, *)
(* unless it is itself the target of a self-transition (compute_one).      *)
KeepsCommonAncestors ==
  Moving /\ target # None /\ origin # None => Shared(origin, target) \subseteq Range(active)

(* Termination leaves nothing behind: every state was exited, no timer is  *)
(* armed and the events still queued, those the exit actions emitted       *)
(* included, are gone (do_terminate).                                      *)
TerminatedIsClean ==
  terminated => current = None /\ active = <<>> /\ timers = {} /\ queue = <<>>

(* ... and nothing starts it again: whichever calls follow, no event is    *)
(* accepted and no step does anything.                                     *)
TerminatedIsFinal ==
  [][terminated => terminated' /\ UNCHANGED <<current, queue, timers, active, acts>>]_vars

(* A dispatch that returns Ok processed everything: the queue is empty and *)
(* no emit of the actions it ran was refused, not even one on the way out  *)
(* of a terminating machine (dispatch's two checks after every step).      *)
DispatchSettles ==
  [][call = "dispatch" /\ call' = "none" /\ result' = "Ok" => queue' = <<>> /\ ~refused]_vars

(* ... and no timer is left due: the queue is served only when none is, so *)
(* that what dispatch returns with is a quiescent machine (docs/002: it    *)
(* drains the queue "and any timers that come due"; step's order).         *)
DispatchDrainsTimers ==
  [][call = "dispatch" /\ call' = "none" /\ result' = "Ok" => Expired(timers') = {}]_vars

(* Every call returns: default chains are finite, and dispatch drains the  *)
(* queue of a chart whose actions do not feed each other for ever.         *)
CallReturns == (call # "none") ~> (call = "none")

-----------------------------------------------------------------------------
(* The inductive invariant the proofs use. *)

(* Which code may be running where. *)
Control ==
  /\ call = "none" => phase = "idle"
  /\ acts # <<>> => phase \in {"handler", "exiting", "entering"}
  /\ phase = "exiting" => exits # <<>>
  /\ phase \in {"entering", "arming"} => exits = <<>> /\ enters # <<>>
  /\ phase \in {"handler", "defaults"} => current # None
  /\ terminated => phase \in {"idle", "return"}

(* What stays of the configuration once the exits are done. *)
Untouched == SubSeq(active, Len(exits) + 1, Len(active))

(* In the middle of a transition: what is still to exit is the inner part  *)
(* of the configuration, and what is still to enter leads from the rest of *)
(* it to the target; when terminating, everything is to exit.              *)
OnTheWay ==
  /\ active = exits \o Untouched
  /\ target = None => enters = <<>> /\ Untouched = <<>>
  /\ target # None => TerminatePath[target] = Reverse(enters) \o Untouched

(* Wherever a transition is interrupted, by an action or between two       *)
(* states, the slices it has left finish it correctly; with the other      *)
(* invariants, inductive (apply_path, enter_path, do_terminate).           *)
MachineInvariant ==
  /\ Control
  /\ ActiveIsPath /\ ActiveMatchesCurrent
  /\ Moving => OnTheWay
  /\ TimersOfActive
  /\ TerminatedIsClean

(* What stays includes what the ends of the transition share.              *)
SharedIsUntouched ==
  Moving /\ target # None /\ origin # None => Shared(origin, target) \subseteq Range(Untouched)

(* The timers the states on the path of s declare.                         *)
Declared(s) ==
  {p \in State \X Trigger : p[1] \in Range(TerminatePath[s]) /\ p[2] \in Range(OwnedTimers[p[1]])}

(* Every path's timers fit the table.  Its size, the number of interned     *)
(* durations (max_timers), is enough if no two states on a path share one. *)
EveryPathFits ==
  \A s \in State : IsFiniteSet(Declared(s)) /\ Cardinality(Declared(s)) <= Capacity

OneEntryEach(ts) ==
  \A e, f \in ts : e.state = f.state /\ e.trigger = f.trigger => e = f

(* An entry arms timer after timer; one table entry per declared timer.    *)
TimersDeclared ==
  /\ OneEntryEach(timers)
  /\ \A e \in timers : e.trigger \in Range(OwnedTimers[e.state])
  /\ phase = "arming" =>
       /\ Range(arms) \subseteq Range(OwnedTimers[Head(enters)])
       /\ \A t \in Range(OwnedTimers[Head(enters)]) \ Range(arms) :
            Slot(timers, Head(enters), t) # {}

(* A refused emit is remembered until dispatch looks, and it always looks  *)
(* before its next step.                                                   *)
RefusalIsFlagged == call = "dispatch" /\ refused => overflow /\ phase # "drain"

(* No timer is due as soon as it is armed.                                 *)
PositiveDurations == \A t \in Trigger : Nanos(DurationFor[t]) > 0

(* Inside a dispatch a due timer means that an event is still queued.      *)
DueIsPending == call = "dispatch" /\ queue = <<>> => Expired(timers) = {}

-----------------------------------------------------------------------------
(* docs/003: the flag is cleared at the top of each dispatch() call, so    *)
(* that one which was accepted and ends in QueueFull had an emit refused.  *)
OverflowIsOwn ==
  [][call = "dispatch" /\ call' = "none" /\ result' = "QueueFull" => refused]_vars

=============================================================================
