-------------------------- MODULE Semantics_proofs --------------------------
(***************************************************************************)
(* Machine implements Statechart, for every chart whose tables satisfy the *)
(* assumptions of Machine and Semantics.  Each action of the machine is a  *)
(* step of the statechart or none, by MachineInvariant: a reaction's Move  *)
(* is HandlerDone, and all of the path after it is a stutter because the   *)
(* place it will end in is already determined by what is left of it.       *)
(***************************************************************************)
EXTENDS Semantics, Machine_proofs

(* A step of the statechart, or none. *)
Reacts == Abstract!Next \/ UNCHANGED Abstract!chart

(* The state last entered by a path is its target. *)
LEMMA LastEntered ==
  ASSUME TypeOK, MachineInvariant, EndEnter, Tail(enters) = <<>>
  PROVE  Head(enters) = target
<1>1. phase = "arming" /\ enters # <<>> /\ OnTheWay /\ target # None /\ target \in State
  BY DEF EndEnter, MachineInvariant, Control, Moving, OnTheWay, TypeOK
<1>2. enters \in Seq(State) /\ active \in Seq(State) /\ exits = <<>>
  BY <1>1 DEF TypeOK, MachineInvariant, Control
<1>3. Untouched = active
  BY <1>2, SubSeqFull, EmptySeq DEF Untouched
<1>4. Reverse(Tail(enters)) = <<>>
  BY EmptySeq, ReverseProperties
<1> DEFINE path == <<Head(enters)>> \o active
<1>5. Head(enters) \in State /\ path \in Seq(State) /\ Head(path) = Head(enters)
  <2>1. Head(enters) \in State
    BY <1>1, <1>2, HeadTailProperties
  <2> QED BY <1>2, <2>1, RangeOfPush, ConcatProperties
<1>6. TerminatePath[target] = path
  <2>1. TerminatePath[target] = Reverse(Tail(enters)) \o path
    BY <1>1, <1>2, <1>3, ReverseStep, ZenonT(40) DEF OnTheWay
  <2> HIDE DEF path
  <2> QED BY <1>4, <1>5, <2>1, ConcatEmptySeq
<1>7. Head(TerminatePath[target]) = target
  BY <1>1, PathsAreClosed
<1> QED BY <1>5, <1>6, <1>7

(* Posting, accepted or refused. *)
LEMMA PostStep ==
  ASSUME TypeOK, MachineInvariant, NEW e \in Event, Emit(e) \/ Send(e) \/ Dispatch(e)
  PROVE  Reacts
<1>1. UNCHANGED <<place, goal, ending, terminated>>
  BY DEF Emit, Send, Dispatch, Idle, MachineInvariant, Control, frame, place, goal, ending,
         Moving, Arriving
<1>2. \/ ~terminated /\ Len(queue) < QueueCap /\ queue' = Append(queue, e)
      \/ queue' = queue
  BY DEF Emit, Push, Send, Dispatch
<1> QED BY <1>1, <1>2 DEF Reacts, Abstract!Next, Abstract!Post, Abstract!chart

(* What the drivers and the user's actions do besides is no reaction. *)
LEMMA QuietStep ==
  ASSUME TypeOK, MachineInvariant,
         \/ TakeOverflow \/ StepReturns \/ DispatchChecks \/ DispatchDrained
         \/ ActionReturns \/ UNCHANGED vars
  PROVE  Reacts
<1>1. UNCHANGED <<place, goal, ending, terminated, queue>>
  BY DEF TakeOverflow, StepReturns, DispatchChecks, DispatchDrained, DispatchReturns,
         ActionReturns, vars, fields, frame, place, goal, ending, Moving, Arriving
<1> QED BY <1>1 DEF Reacts, Abstract!chart

(* Exits and entries on the way are no reactions. *)
LEMMA WayStep ==
  ASSUME TypeOK, MachineInvariant,
         BeginExit \/ EndExit \/ BeginEnter \/ EntryActionsDone \/ ArmTimer \/ EndEnter
  PROVE  Reacts
<1>1. CASE BeginExit \/ EndExit \/ BeginEnter \/ EntryActionsDone \/ ArmTimer
  <2>1. UNCHANGED <<place, goal, ending, terminated, queue>>
    BY <1>1 DEF BeginExit, EndExit, BeginEnter, EntryActionsDone, ArmTimer, fields, place,
         goal, ending, Moving, Arriving
  <2> QED BY <2>1 DEF Reacts, Abstract!chart
<1>2. CASE EndEnter
  <2>1. /\ phase = "arming" /\ enters # <<>> /\ target # None
        /\ UNCHANGED <<target, queue, terminated>>
        /\ current' = Head(enters) /\ enters' = Tail(enters)
        /\ phase' = IF Tail(enters) = <<>> THEN "defaults" ELSE "path"
    BY <1>2 DEF EndEnter, MachineInvariant, Control, Moving, OnTheWay
  <2>2. place = Settled[target] /\ goal = None /\ ending = FALSE
    BY <2>1 DEF place, goal, ending, Moving, Arriving
  <2>3. place' = Settled[target]
    <3>1. CASE Tail(enters) = <<>>
      BY <1>2, <2>1, <3>1, LastEntered DEF place
    <3>2. CASE Tail(enters) # <<>>
      BY <2>1, <3>2 DEF place, Moving, Arriving
    <3> QED BY <3>1, <3>2
  <2>4. goal' = None /\ ending' = FALSE
    BY <2>1 DEF goal, ending, Moving
  <2> QED BY <2>1, <2>2, <2>3, <2>4 DEF Reacts, Abstract!chart
<1> QED BY <1>1, <1>2

(* Setting out is the whole reaction, or the next of its defaults. *)
LEMMA SetOutStep ==
  ASSUME TypeOK, MachineInvariant, HandlerDone \/ FollowDefault
  PROVE  Reacts
<1>1. /\ current \in State /\ phase \in {"handler", "defaults"} /\ ~Moving
  BY DEF HandlerDone, FollowDefault, MachineInvariant, Control, TypeOK, Moving
<1>2. UNCHANGED <<current, queue, terminated>> /\ ending = FALSE
  BY <1>1 DEF HandlerDone, FollowDefault, BeginPath, fields, ending
<1>3. ASSUME NEW to \in State, BeginPath(current, to)
      PROVE  /\ goal' = None /\ ending' = FALSE
             /\ place' = IF to \in Above[current] \ {current} THEN to ELSE Settled[to]
  <2>1. EnterPath[current][to] = <<>> <=> to \in Above[current] \ {current}
    BY <1>1, UpEntersNothing
  <2>2. phase' = "path" /\ target' = to /\ enters' = EnterPath[current][to] /\ to # None
    BY <1>3, TableTypes DEF BeginPath
  <2> QED BY <2>1, <2>2 DEF goal, ending, place, Moving, Arriving
<1>4. CASE HandlerDone /\ target # None
  <2>1. target \in State /\ goal = target /\ place = current
    BY <1>1, <1>4 DEF TypeOK, HandlerDone, goal, place
  <2>2. BeginPath(current, target)
    BY <1>4 DEF HandlerDone
  <2>3. Abstract!Move
    BY <1>2, <1>3, <1>4, <2>1, <2>2 DEF Abstract!Move, Abstract!Arrival
  <2> QED BY <2>3 DEF Reacts, Abstract!Next
<1>5. CASE HandlerDone /\ target = None
  <2>1. UNCHANGED <<place, goal, ending>>
    BY <1>5 DEF HandlerDone, fields, place, goal, ending, Moving
  <2> QED BY <1>2, <2>1 DEF Reacts, Abstract!chart
<1>6. CASE FollowDefault
  <2>1. phase = "defaults" /\ goal = None /\ place = Settled[current]
    BY <1>6 DEF FollowDefault, goal, place
  <2>2. CASE DefaultChild[current] = None
    <3>1. phase' = "return"
      BY <1>6, <2>2 DEF FollowDefault
    <3>2. Settled[current] = current
      BY <1>1, <2>2, SettledRule
    <3>3. goal' = None /\ ending' = FALSE /\ place' = current
      BY <1>2, <3>1 DEF goal, ending, place, Moving
    <3> QED BY <1>2, <2>1, <3>2, <3>3 DEF Reacts, Abstract!chart
  <2>3. CASE DefaultChild[current] # None
    <3> DEFINE to == DefaultChild[current]
    <3>1. to \in State /\ BeginPath(current, to)
      BY <1>1, <1>6, <2>3, TableTypes DEF FollowDefault
    <3>2. place = IF to \in Above[current] \ {current} THEN to ELSE Settled[to]
      BY <1>1, <2>1, <2>3, SettledRule
    <3>3. UNCHANGED <<place, goal, ending>>
      BY <1>2, <1>3, <2>1, <3>1, <3>2
    <3> QED BY <1>2, <3>3 DEF Reacts, Abstract!chart
  <2> QED BY <2>2, <2>3
<1> QED BY <1>4, <1>5, <1>6

(* The end of a path. *)
LEMMA EndStep ==
  ASSUME TypeOK, MachineInvariant, UpTransition \/ Terminate
  PROVE  Reacts
<1>1. CASE UpTransition
  <2>1. UNCHANGED <<place, goal, ending, queue, terminated>>
    BY <1>1 DEF UpTransition, place, goal, ending, Moving, Arriving
  <2> QED BY <2>1 DEF Reacts, Abstract!chart
<1>2. CASE Terminate
  <2>1. ending = TRUE /\ ending' = FALSE /\ goal = None /\ goal' = None /\ place' = None
    BY <1>2 DEF Terminate, place, goal, ending, Moving
  <2>2. Abstract!End
    BY <1>2, <2>1 DEF Terminate, Abstract!End
  <2> QED BY <2>2 DEF Reacts, Abstract!Next
<1> QED BY <1>1, <1>2

(* The unit of work: started, taken, fired, or nothing. *)
LEMMA UnitStep ==
  ASSUME TypeOK, MachineInvariant, ~Moving, phase \notin {"handler", "defaults"},
         NEW d \in Nat, NEW c,
         EnterRoot(c) \/ FireTimer(d, c) \/ TakeEvent(d, c) \/ NothingDue(d, c)
  PROVE  Reacts
<1>1. place = current /\ goal = None /\ ending = FALSE /\ current \in State \cup {None}
  BY DEF place, goal, ending, TypeOK
<1>2. CASE EnterRoot(c)
  <2>1. phase' = "path" /\ target' = Root /\ enters' = <<Root>> /\ Root # None
    BY <1>2, TableTypes DEF EnterRoot
  <2>2. <<Root>> # <<>>
    OBVIOUS
  <2>3. place' = Settled[Root] /\ goal' = None /\ ending' = FALSE
    BY <2>1, <2>2 DEF place, goal, ending, Moving, Arriving
  <2>4. Abstract!Start
    BY <1>1, <1>2, <2>3 DEF EnterRoot, fields, Abstract!Start, Abstract!Quiet
  <2> QED BY <2>4 DEF Reacts, Abstract!Next
<1>3. CASE FireTimer(d, c)
  <2>1. PICK e \in Poppable(Ticked(d)) : Fire(e, d, c)
    BY <1>3 DEF FireTimer
  <2>2. e \in Timer /\ e.state \in Range(active)
    BY <2>1, TickedTimers, PoppableTimers
  <2>3. e.state \in State /\ e.trigger \in Trigger
    BY <2>2, TimerType
  <2>4. current \in State /\ active = TerminatePath[current]
    BY <1>1, <2>1 DEF Fire, MachineInvariant, ActiveMatchesCurrent
  <2>5. e.state \in Above[current]
    BY <2>2, <2>4 DEF Above
  <2>6. /\ goal' = TimerHandler[e.state][e.trigger].target
        /\ place' = current /\ ending' = FALSE /\ UNCHANGED <<queue, terminated>>
        /\ ~terminated /\ current # None
    BY <2>1 DEF Fire, goal, place, ending, Moving
  <2>7. Abstract!TimerFires
    BY <1>1, <2>3, <2>5, <2>6 DEF Abstract!TimerFires, Abstract!Quiet
  <2> QED BY <2>7 DEF Reacts, Abstract!Next
<1>4. CASE TakeEvent(d, c)
  <2> DEFINE h == EventHandler[current][Head(queue)]
  <2>1. /\ ~terminated /\ current # None /\ queue # <<>> /\ queue' = Tail(queue)
        /\ UNCHANGED <<current, terminated>>
    BY <1>4 DEF TakeEvent, PopFront
  <2>2. /\ place' = current
        /\ ending' = (Head(queue) = TerminateEvent)
        /\ goal' = IF Head(queue) = TerminateEvent \/ h.owner = None THEN None ELSE h.target
    BY <1>4, <2>1 DEF TakeEvent, place, goal, ending, Moving, Arriving
  <2>3. Abstract!React
    BY <1>1, <2>1, <2>2 DEF Abstract!React, Abstract!Quiet
  <2> QED BY <2>3 DEF Reacts, Abstract!Next
<1>5. CASE NothingDue(d, c)
  <2>1. UNCHANGED <<place, goal, ending, queue, terminated>>
    BY <1>1, <1>5 DEF NothingDue, place, goal, ending, Moving
  <2> QED BY <2>1 DEF Reacts, Abstract!chart
<1> QED BY <1>2, <1>3, <1>4, <1>5

(* Every step of the machine is a step of the statechart, or none. *)
LEMMA ReactsStep ==
  ASSUME TypeOK, MachineInvariant, [Next]_vars
  PROVE  Reacts
<1>1. CASE \E e \in Event : Emit(e) \/ Send(e) \/ Dispatch(e)
  BY <1>1, PostStep
<1>2. CASE \/ TakeOverflow \/ StepReturns \/ DispatchChecks \/ DispatchDrained
           \/ ActionReturns \/ UNCHANGED vars
  BY <1>2, QuietStep
<1>3. CASE BeginExit \/ EndExit \/ BeginEnter \/ EntryActionsDone \/ ArmTimer \/ EndEnter
  BY <1>3, WayStep
<1>4. CASE HandlerDone \/ FollowDefault
  BY <1>4, SetOutStep
<1>5. CASE UpTransition \/ Terminate
  BY <1>5, EndStep
<1>6. CASE DispatchStep
  <2>1. ~Moving /\ phase \notin {"handler", "defaults"} /\ 0 \in Nat
    BY <1>6 DEF DispatchStep, Moving
  <2> QED BY <1>6, <2>1, UnitStep DEF DispatchStep
<1>7. ASSUME NEW d \in Elapsed, Step(d) PROVE Reacts
  <2>1. ~Moving /\ phase \notin {"handler", "defaults"} /\ d \in Nat
    BY <1>7, TableTypes DEF Step, Idle, MachineInvariant, Control, Moving
  <2> QED BY <1>7, <2>1, UnitStep DEF Step
<1> QED BY <1>1, <1>2, <1>3, <1>4, <1>5, <1>6, <1>7 DEF Next, Internal, Progress

(* Run to completion: in every chart, however often the user's actions     *)
(* interrupt a transition and whatever they emit, the machine goes from    *)
(* resting place to resting place exactly as the statechart it was         *)
(* generated from (step, run_handlers, apply_path, follow_defaults).       *)
THEOREM MachineImplementsStatechart == Spec => ImplementsStatechart
<1>1. Init => Abstract!Init
  BY DEF Init, Abstract!Init, place, goal, ending, Moving
<1>2. TypeOK /\ MachineInvariant /\ [Next]_vars => [Abstract!Next]_(Abstract!chart)
  BY ReactsStep DEF Reacts
<1> QED
  BY <1>1, <1>2, MachineInvariantHolds, PTL DEF Spec, ImplementsStatechart, Abstract!Spec
=============================================================================
