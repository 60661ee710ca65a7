------------------------------ MODULE Journal ------------------------------
(***************************************************************************)
(* The execution journal: the records the generated machine pushes, at     *)
(* its observation hooks, while it works, and what a reader who has only   *)
(* the journal knows of the machine.  The journal itself grows without     *)
(* bound; the model keeps its digest, `reader`, the fold of Read over all  *)
(* records so far.                                                         *)
(***************************************************************************)
EXTENDS Machine

CONSTANT DuringCount   \* __durings_count

ASSUME DuringCountType == DuringCount \in [State -> Nat]

(* compute_event_dispatch: an event goes to the current state or to one of *)
(* the states around it.                                                   *)
ASSUME HandlersAreAround ==
  \A s \in State, e \in Event :
    EventHandler[s][e].owner \in Range(TerminatePath[s]) \cup {None}

VARIABLES
  reader,     \* what the records so far tell
  handling,   \* run_handlers' arguments: __handler_state and the reason
  open        \* (from, to) of each TransitionComplete still due, innermost first

jvars == <<vars, reader, handling, open>>

-----------------------------------------------------------------------------
(* The records, one constructor per arm of __chart_observe!. *)

Started == [is |-> "Started"]
EnterBegan(s) == [is |-> "EnterBegan", state |-> s]
Entered(s) == [is |-> "Entered", state |-> s]
ExitBegan(s) == [is |-> "ExitBegan", state |-> s]
Exited(s) == [is |-> "Exited", state |-> s]
ActionInvoked(s, a, kind) ==
  [is |-> "ActionInvoked", state |-> s, action |-> a, kind |-> kind]
DuringStarted(s, i) == [is |-> "DuringStarted", state |-> s, during |-> i]
DuringCancelled(s, i) == [is |-> "DuringCancelled", state |-> s, during |-> i]
TransitionFired(from, to, why) ==
  [is |-> "TransitionFired", from |-> from, to |-> to, reason |-> why]
TransitionComplete(from, to) ==
  [is |-> "TransitionComplete", from |-> from, to |-> to]
EventReceived(e) == [is |-> "EventReceived", event |-> e]
EventDelivered(s, e) == [is |-> "EventDelivered", state |-> s, event |-> e]
EventDropped(e) == [is |-> "EventDropped", event |-> e]
EmitQueued(e) == [is |-> "EmitQueued", event |-> e]
EmitFailed(e) == [is |-> "EmitFailed", event |-> e]
TimerArmed(s, t) == [is |-> "TimerArmed", state |-> s, timer |-> t]
TimerCancelled(s, t) == [is |-> "TimerCancelled", state |-> s, timer |-> t]
TimerFired(s, t) == [is |-> "TimerFired", state |-> s, timer |-> t]
TerminateRequested(e) == [is |-> "TerminateRequested", event |-> e]
Terminated == [is |-> "Terminated"]

(* TransitionReason *)
ByEvent(e) == [event |-> e]
ByTimer(s, t) == [state |-> s, timer |-> t]
Internally == [internal |-> TRUE]

-----------------------------------------------------------------------------
(* The reader.  `marks` are the records whose end marker is still to come, *)
(* innermost first; `cause` is what the last delivery or timer was;        *)
(* `sound` says that every record so far came where the documentation of   *)
(* TraceEvent lets it come.                                                *)

NoJournal ==
  [sound |-> TRUE, started |-> FALSE, ended |-> FALSE, path |-> <<>>, marks |-> <<>>,
   armed |-> {}, running |-> {}, cause |-> [state |-> None, reason |-> None]]

Opening == {"EnterBegan", "ExitBegan", "TransitionFired", "EventReceived",
            "TerminateRequested"}
Closing == {"Entered", "Exited", "TransitionComplete", "EventDelivered", "EventDropped",
            "TerminateRequested", "Terminated"}

AtRest(r) == r.marks = <<>>
Within(r, mark) == ~AtRest(r) /\ Head(r.marks) = mark
Inside(r, kind) == ~AtRest(r) /\ Head(r.marks).is = kind
Innermost(r, s) == r.path # <<>> /\ Head(r.path) = s

(* Where a record may come.  TimerCancelled comes for every timer the      *)
(* state declares, armed or not: exit_state reads the table of the         *)
(* declared ones, so it is recorded of a one-shot that has fired, too.     *)
Expected(r, x) ==
  CASE x.is = "Started" -> ~r.started
    [] x.is = "EnterBegan" ->
         /\ Inside(r, "TransitionFired") \/ AtRest(r)
         /\ TerminatePath[x.state] = <<x.state>> \o r.path
    [] x.is = "ExitBegan" ->
         /\ Inside(r, "TransitionFired") \/ Inside(r, "TerminateRequested")
         /\ Innermost(r, x.state)
    [] x.is \in {"Entered", "DuringStarted"} -> Within(r, EnterBegan(x.state))
    [] x.is \in {"Exited", "DuringCancelled", "TimerCancelled"} ->
         Within(r, ExitBegan(x.state))
    [] x.is = "ActionInvoked" ->
         \/ x.kind = "Entry" /\ Within(r, EnterBegan(x.state))
         \/ x.kind = "Exit" /\ Within(r, ExitBegan(x.state))
         \/ x.kind = "Handler" /\ AtRest(r) /\ r.cause.state = x.state
    [] x.is = "TransitionFired" ->
         /\ Innermost(r, x.from)
         /\ \/ AtRest(r) /\ x.reason \in {r.cause.reason, Internally}
            \/ Inside(r, "TransitionFired") /\ x.reason = Internally
    [] x.is = "TransitionComplete" ->
         Inside(r, "TransitionFired") /\ Head(r.marks).from = x.from /\ Head(r.marks).to = x.to
    [] x.is = "EventReceived" -> AtRest(r)
    [] x.is \in {"EventDropped", "TerminateRequested"} -> Within(r, EventReceived(x.event))
    [] x.is = "EventDelivered" ->
         Within(r, EventReceived(x.event)) /\ x.state \in Range(r.path)
    [] x.is = "TimerArmed" ->
         \/ Within(r, EnterBegan(x.state))
         \/ AtRest(r) /\ r.cause.reason = ByTimer(x.state, x.timer)
    [] x.is = "TimerFired" -> AtRest(r) /\ <<x.state, x.timer>> \in r.armed
    [] x.is = "Terminated" -> Inside(r, "TerminateRequested") /\ r.path = <<>>
    [] x.is \in {"EmitQueued", "EmitFailed"} -> TRUE

MarksAfter(r, x) ==
  LET rest == IF x.is \in Closing THEN Tail(r.marks) ELSE r.marks
  IN  IF x.is \in Opening THEN <<x>> \o rest ELSE rest

CauseAfter(r, x) ==
  CASE x.is = "EventDelivered" -> [state |-> x.state, reason |-> ByEvent(x.event)]
    [] x.is = "TimerFired" -> [state |-> x.state, reason |-> ByTimer(x.state, x.timer)]
    [] OTHER -> r.cause

Read(r, x) ==
  IF ~r.sound \/ r.ended \/ ~Expected(r, x) \/ (x.is # "Started" /\ ~r.started)
    THEN [r EXCEPT !.sound = FALSE]
    ELSE [sound   |-> TRUE,
          started |-> TRUE,
          ended   |-> x.is = "Terminated",
          path    |-> CASE x.is = "Entered" -> <<x.state>> \o r.path
                        [] x.is = "Exited" -> Tail(r.path)
                        [] OTHER -> r.path,
          marks   |-> MarksAfter(r, x),
          armed   |-> CASE x.is = "TimerArmed" -> r.armed \cup {<<x.state, x.timer>>}
                        [] x.is \in {"TimerCancelled", "TimerFired"} ->
                             r.armed \ {<<x.state, x.timer>>}
                        [] OTHER -> r.armed,
          running |-> CASE x.is = "DuringStarted" -> r.running \cup {<<x.state, x.during>>}
                        [] x.is = "DuringCancelled" -> r.running \ {<<x.state, x.during>>}
                        [] OTHER -> r.running,
          cause   |-> CauseAfter(r, x)]

(* What a reader knows after some records more. *)
ReadAll(r, records) ==
  LET known[n \in 0 .. Len(records)] ==
        IF n = 0 THEN r ELSE Read(known[n - 1], records[n])
  IN  known[Len(records)]

(* JournalSink::push, for each of the records in turn. *)
Observe(records) == reader' = ReadAll(reader, records)

-----------------------------------------------------------------------------
(* The machine's actions with what their hooks record. *)

JournalInit == Init /\ reader = NoJournal /\ open = <<>>
               /\ handling = [state |-> None, reason |-> None]

DuringsStarted(s) == [i \in 1 .. DuringCount[s] |-> DuringStarted(s, i)]

DuringsCancelled(s) == [i \in 1 .. DuringCount[s] |-> DuringCancelled(s, i)]

TimersCancelled(s) == [i \in DOMAIN OwnedTimers[s] |-> TimerCancelled(s, OwnedTimers[s][i])]

(* The action that runs next, if any, is recorded as it is called. *)
Invoked(s, actions, kind) ==
  IF actions = <<>> THEN <<>> ELSE <<ActionInvoked(s, Head(actions), kind)>>

Completed(transitions) ==
  [i \in DOMAIN transitions |->
     TransitionComplete(transitions[i].from, transitions[i].to)]

LogEmit(e) ==
  /\ Emit(e)
  /\ Observe(<<IF ~overflow /\ Len(queue) < QueueCap THEN EmitQueued(e) ELSE EmitFailed(e)>>)
  /\ UNCHANGED <<handling, open>>

LogActionReturns ==
  /\ ActionReturns
  /\ Observe(CASE phase = "handler" -> Invoked(handling.state, Tail(acts), "Handler")
               [] phase = "entering" -> Invoked(Head(enters), Tail(acts), "Entry")
               [] phase = "exiting" -> Invoked(Head(exits), Tail(acts), "Exit"))
  /\ UNCHANGED <<handling, open>>

(* run_handlers' tail: the outer transition, completed only after the      *)
(* defaults it leads to.                                                   *)
LogHandlerDone ==
  /\ HandlerDone
  /\ IF target = None
       THEN UNCHANGED <<reader, open>>
       ELSE /\ Observe(<<TransitionFired(current, target, handling.reason)>>)
            /\ open' = <<[from |-> current, to |-> target, default |-> FALSE]>>
  /\ UNCHANGED handling

(* Mutant: the timers of the state are cancelled without a record. *)
LogBeginExitQuietly ==
  /\ BeginExit
  /\ LET s == Head(exits)
     IN  Observe(<<ExitBegan(s)>> \o DuringsCancelled(s)
                   \o Invoked(s, ExitActions[s], "Exit"))
  /\ UNCHANGED <<handling, open>>

LogBeginExit ==
  /\ BeginExit
  /\ LET s == Head(exits)
     IN  Observe(<<ExitBegan(s)>> \o DuringsCancelled(s) \o TimersCancelled(s)
                   \o Invoked(s, ExitActions[s], "Exit"))
  /\ UNCHANGED <<handling, open>>

LogEndExit ==
  EndExit /\ Observe(<<Exited(Head(exits))>>) /\ UNCHANGED <<handling, open>>

LogBeginEnter ==
  /\ BeginEnter
  /\ LET s == Head(enters)
     IN  Observe(<<EnterBegan(s)>> \o Invoked(s, EntryActions[s], "Entry"))
  /\ UNCHANGED <<handling, open>>

LogArmTimer ==
  ArmTimer /\ Observe(<<TimerArmed(Head(enters), Head(arms))>>) /\ UNCHANGED <<handling, open>>

LogEndEnter ==
  /\ EndEnter
  /\ Observe(DuringsStarted(Head(enters)) \o <<Entered(Head(enters))>>)
  /\ UNCHANGED <<handling, open>>

(* Nothing was entered, so no default follows: every transition is over.   *)
LogUpTransition ==
  /\ UpTransition
  /\ Observe(Completed(open)) /\ open' = <<>>
  /\ UNCHANGED handling

(* The default that is still open, and what was open before it. *)
DefaultIsOpen == open # <<>> /\ Head(open).default
Applied == IF DefaultIsOpen THEN <<Head(open)>> ELSE <<>>
Outer == IF DefaultIsOpen THEN Tail(open) ELSE open

(* Mutant: a default is left open while the next one fires. *)
LogFollowDefaultUnpaired ==
  /\ FollowDefault
  /\ LET to == DefaultChild[current]
     IN  IF to # None
           THEN /\ Observe(<<TransitionFired(current, to, Internally)>>)
                /\ open' = <<[from |-> current, to |-> to, default |-> TRUE]>> \o Outer
           ELSE Observe(Completed(open)) /\ open' = <<>>
  /\ UNCHANGED handling

(* follow_defaults' loop: the default just applied is complete before the  *)
(* next one fires.                                                         *)
LogFollowDefault ==
  /\ FollowDefault
  /\ LET to == DefaultChild[current]
     IN  IF to # None
           THEN /\ Observe(Completed(Applied) \o <<TransitionFired(current, to, Internally)>>)
                /\ open' = <<[from |-> current, to |-> to, default |-> TRUE]>> \o Outer
           ELSE Observe(Completed(open)) /\ open' = <<>>
  /\ UNCHANGED handling

LogTerminate == Terminate /\ Observe(<<Terminated>>) /\ UNCHANGED <<handling, open>>

LogEnterRoot(c) == EnterRoot(c) /\ Observe(<<Started>>) /\ UNCHANGED <<handling, open>>

LogFireTimer(d, c) ==
  \E e \in Poppable(Ticked(d)) :
    /\ Fire(e, d, c)
    /\ handling' = [state |-> e.state, reason |-> ByTimer(e.state, e.trigger)]
    /\ Observe(<<TimerFired(e.state, e.trigger)>>
                 \o (IF Repeats[e.trigger] THEN <<TimerArmed(e.state, e.trigger)>> ELSE <<>>)
                 \o Invoked(e.state, acts', "Handler"))
    /\ UNCHANGED open

LogTakeEvent(d, c) ==
  /\ TakeEvent(d, c)
  /\ LET e == Head(queue)
         h == EventHandler[current][e]
     IN  IF e = TerminateEvent
           THEN Observe(<<EventReceived(e), TerminateRequested(e)>>) /\ UNCHANGED handling
         ELSE IF h.owner = None
           THEN Observe(<<EventReceived(e), EventDropped(e)>>) /\ UNCHANGED handling
         ELSE /\ Observe(<<EventReceived(e), EventDelivered(h.owner, e)>>
                           \o Invoked(h.owner, h.actions, "Handler"))
              /\ handling' = [state |-> h.owner, reason |-> ByEvent(e)]
  /\ UNCHANGED open

Unobserved == UNCHANGED <<reader, handling, open>>

LogStep(d) ==
  /\ Idle /\ refused' = FALSE
  /\ \/ LogEnterRoot("step")
     \/ LogFireTimer(d, "step")
     \/ LogTakeEvent(d, "step")
     \/ NothingDue(d, "step") /\ Unobserved

LogDispatchStep ==
  /\ call = "dispatch" /\ phase = "drain" /\ queue # <<>>
  /\ LogEnterRoot("dispatch") \/ LogFireTimer(0, "dispatch") \/ LogTakeEvent(0, "dispatch")
  /\ UNCHANGED refused

JournalInternal ==
  \/ LogActionReturns \/ LogHandlerDone
  \/ LogBeginExit \/ LogEndExit
  \/ LogBeginEnter \/ (EntryActionsDone /\ Unobserved) \/ LogArmTimer \/ LogEndEnter
  \/ LogUpTransition \/ LogFollowDefault \/ LogTerminate
  \/ LogDispatchStep
  \/ (StepReturns \/ DispatchChecks \/ DispatchDrained) /\ Unobserved

JournalNext ==
  \/ JournalInternal
  \/ \E e \in Event : LogEmit(e)
  \/ \E e \in Event : (Send(e) \/ Dispatch(e)) /\ Unobserved
  \/ \E d \in Elapsed : LogStep(d)
  \/ TakeOverflow /\ Unobserved

(* A hook never blocks: the fairness is the machine's own.                 *)
JournalSpec == JournalInit /\ [][JournalNext]_jvars /\ WF_vars(Internal)

-----------------------------------------------------------------------------
(* Every record comes where the documentation of TraceEvent allows it:     *)
(* markers nest, entries descend and exits climb one state at a time, each *)
(* action is invoked inside its state's markers, a transition names the    *)
(* innermost state and what caused it, nothing follows Terminated.         *)
JournalReads == reader.sound

(* Replaying the journal alone tells what the machine is: the states that  *)
(* are entered, the timers that are armed, the durings that run, whether   *)
(* it has terminated; at every moment, also in the middle of a transition. *)
JournalTells ==
  /\ reader.path = active
  /\ reader.armed = {<<e.state, e.trigger>> : e \in timers}
  /\ reader.running = UNION {{<<s, i>> : i \in 1 .. DuringCount[s]} :
                               s \in Range(active) \ Exiting}
  /\ reader.ended = terminated

(* Between two calls nothing is left open: every marker has its end.       *)
JournalSettles == Idle => AtRest(reader)
=============================================================================
