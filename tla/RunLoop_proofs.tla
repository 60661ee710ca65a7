--------------------------- MODULE RunLoop_proofs ---------------------------
(***************************************************************************)
(* Proofs about RunLoop.  run() uses the machine only as Machine allows,   *)
(* so that every theorem about Machine holds of a machine owned by run();  *)
(* run() takes an event off the channel only when the queue has room; and  *)
(* if the actions take no time, no timer fires early.                      *)
(***************************************************************************)
EXTENDS RunLoop, Machine_proofs, Induction

-----------------------------------------------------------------------------
(* The loop's own state.                                                   *)

(* What a step returns is a duration. *)
LEMMA MinRemainingType ==
  ASSUME NEW ts \in SUBSET Timer
  PROVE  MinRemaining(ts) \in Nat \cup {None}
<1>1. {e.left : e \in ts} \in SUBSET Nat
  BY TimerAssumption DEF Timer
<1>2. ts # {} => {e.left : e \in ts} # {}
  OBVIOUS
<1> QED BY <1>1, <1>2, MinIsElement DEF MinRemaining

(* The owned pairs are pairs of a state and one of its triggers. *)
LEMMA OwnedPairs ==
  /\ Owned \subseteq State \X Trigger
  /\ \A p \in Owned : DurationFor[p[2]] \in Nat /\ AgeLimit[p] = DurationFor[p[2]] + MaxLag
BY TableTypes DEF Owned, AgeLimit

(* The loop's half of RunTypeOK, with what bounds the sleep. *)
LoopTypeOK ==
  /\ channel \in Seq(Event) /\ Len(channel) <= ChannelCap
  /\ at \in Places
  /\ next \in Nat \cup {None}
  /\ lag \in 0 .. MaxLag /\ slept \in 0 .. lag
  /\ outcome \in Results
  /\ age \in [Owned -> Nat] /\ \A p \in Owned : age[p] <= AgeLimit[p]

(* The history stays a number within its bound. *)
LEMMA AgingType ==
  ASSUME LoopTypeOK, NEW d, Aging(d)
  PROVE  age' \in [Owned -> Nat] /\ \A p \in Owned : age'[p] <= AgeLimit[p]
<1>1. \A p \in Owned : AgeLimit[p] \in Nat
  BY OwnedPairs, RunTypes
<1> QED BY <1>1 DEF LoopTypeOK, Aging

LEMMA OlderType ==
  ASSUME LoopTypeOK, Older
  PROVE  age' \in [Owned -> Nat] /\ \A p \in Owned : age'[p] <= AgeLimit[p]
<1>1. \A p \in Owned : AgeLimit[p] \in Nat
  BY OwnedPairs, RunTypes
<1> QED BY <1>1 DEF LoopTypeOK, Older

(* The channel is a queue of events. *)
LEMMA DropType ==
  ASSUME LoopTypeOK, Drop
  PROVE  age' \in [Owned -> Nat] /\ \A p \in Owned : age'[p] <= AgeLimit[p]
<1>1. (\A p \in Owned : AgeLimit[p] \in Nat) /\ lag \in Nat
  BY OwnedPairs, RunTypes DEF LoopTypeOK
<1> QED BY <1>1 DEF LoopTypeOK, Drop

LEMMA ChannelType ==
  ASSUME LoopTypeOK, [RunNext]_runVars
  PROVE  channel' \in Seq(Event) /\ Len(channel') <= ChannelCap
<1> USE DEF LoopTypeOK
<1>1. ASSUME Receive PROVE channel' \in Seq(Event) /\ Len(channel') <= ChannelCap
  BY <1>1, RunTypes DEF Receive
<1>2. ASSUME NEW e \in Event, SenderSends(e)
      PROVE  channel' \in Seq(Event) /\ Len(channel') <= ChannelCap
  BY <1>2, RunTypes DEF SenderSends
<1>3. ASSUME UNCHANGED channel PROVE channel' \in Seq(Event) /\ Len(channel') <= ChannelCap
  BY <1>3
<1>4. ASSUME NEW e \in Event, ActionEmits(e) \/ OwnerSends(e) PROVE UNCHANGED channel
  BY <1>4 DEF ActionEmits, OwnerSends, loop
<1> QED BY <1>1, <1>2, <1>3, <1>4 DEF RunNext, LoopCode, RunTerminated, Run, Return, EndRun, Begin,
          Finished, Overflowed, Continue, StepElapsed, Exhausted, BeginRace, DuringWins,
          SleepWins, Woken, StepDone, InStep, Drop, Tick, loop, runVars

(* run() never counts more than MaxLag, and slept is part of what it       *)
(* counts.                                                                 *)
LEMMA LagStep ==
  ASSUME LoopTypeOK, [RunNext]_runVars
  PROVE  lag' \in 0 .. MaxLag /\ slept' \in 0 .. lag'
<1> USE DEF LoopTypeOK
<1>1. MaxLag \in Nat /\ ActionTime \in 0 .. MaxLag
  BY RunTypes
<1>2. CASE Tick
  BY <1>1, <1>2 DEF Tick
<1>3. ASSUME NEW e \in Event, ActionEmits(e) \/ OwnerSends(e) \/ SenderSends(e)
      PROVE  UNCHANGED <<lag, slept>>
  BY <1>3 DEF ActionEmits, OwnerSends, SenderSends, loop
<1>4. CASE ~Tick
  BY <1>1, <1>3, <1>4 DEF RunNext, LoopCode, RunTerminated, Run, Return, EndRun, Begin,
     Finished, Overflowed, Continue, StepElapsed, Exhausted, BeginRace, Receive, DuringWins,
     SleepWins, Woken, StepDone, InStep, Drop, loop, runVars
<1> QED BY <1>2, <1>4

(* Every step keeps the types of the loop's variables. *)
LEMMA LoopTypeStep ==
  ASSUME TypeOK, LoopTypeOK, [RunNext]_runVars
  PROVE  LoopTypeOK'
<1>1. /\ channel' \in Seq(Event) /\ Len(channel') <= ChannelCap
      /\ lag' \in 0 .. MaxLag /\ slept' \in 0 .. lag'
  BY ChannelType, LagStep
<1> SUFFICES /\ at' \in Places /\ outcome' \in Results
             /\ next' \in Nat \cup {None}
             /\ age' \in [Owned -> Nat] /\ \A p \in Owned : age'[p] <= AgeLimit[p]
  BY <1>1 DEF LoopTypeOK, AgeLimit, Owned
<1>2. ASSUME NEW e \in Event, ActionEmits(e) \/ OwnerSends(e) \/ SenderSends(e)
      PROVE  UNCHANGED <<at, outcome, next, age>>
  BY <1>2 DEF ActionEmits, OwnerSends, SenderSends, loop
<1>3. CASE StepDone
  BY <1>3, MinRemainingType DEF StepDone, LoopTypeOK, Places, TypeOK
<1>4. CASE ~StepDone
  <2>1. at' \in Places /\ outcome' \in Results
    BY <1>2, <1>4 DEF RunNext, LoopCode, RunTerminated, Run, Return, EndRun, Begin, Finished,
       Overflowed, Continue, StepElapsed, Exhausted, BeginRace, Receive, DuringWins, SleepWins,
       Woken, InStep, Drop, Tick, loop, runVars, LoopTypeOK, Places, Results
  <2>2. next' \in Nat \cup {None}
    BY <1>2, <1>4 DEF RunNext, LoopCode, RunTerminated, Run, Return, EndRun, Begin, Finished,
       Overflowed, Continue, StepElapsed, Exhausted, BeginRace, Receive, DuringWins, SleepWins,
       Woken, InStep, Drop, Tick, loop, runVars, LoopTypeOK
  <2>3. UNCHANGED age \/ Older \/ Aging(0) \/ Aging(lag) \/ Drop
    BY <1>2, <1>4 DEF RunNext, LoopCode, RunTerminated, Run, Return, EndRun, Begin, Finished,
       Overflowed, Continue, StepElapsed, Exhausted, BeginRace, Receive, DuringWins, SleepWins,
       Woken, InStep, Tick, loop, runVars
  <2>4. age' \in [Owned -> Nat] /\ \A p \in Owned : age'[p] <= AgeLimit[p]
    <3>1. UNCHANGED age => age' \in [Owned -> Nat] /\ \A p \in Owned : age'[p] <= AgeLimit[p]
      BY DEF LoopTypeOK
    <3> QED BY <2>3, <3>1, AgingType, OlderType, DropType
  <2> QED BY <2>1, <2>2, <2>4
<1> QED BY <1>3, <1>4

-----------------------------------------------------------------------------
(* run() implements Machine.                                               *)

(* Every step of run() is a step of the machine, or leaves it alone. *)
LEMMA MachineStep ==
  ASSUME LoopTypeOK, [RunNext]_runVars
  PROVE  [Next]_vars
<1>1. lag \in Elapsed /\ 0 \in Elapsed
  BY RunTypes DEF LoopTypeOK
<1>2. ASSUME Step(lag) \/ Step(0) PROVE Next
  BY <1>1, <1>2 DEF Next
<1>3. CASE Run \/ Continue \/ Woken
  BY <1>2, <1>3 DEF Run, Continue, Woken, StepElapsed
<1>4. CASE Begin \/ Overflowed
  BY <1>4 DEF Begin, Overflowed, Next
<1>5. CASE StepDone \/ InStep
  BY <1>5 DEF StepDone, InStep, Next, Internal
<1>6. CASE Receive
  <2>1. Head(channel) \in Event
    BY <1>6 DEF Receive, LoopTypeOK
  <2> QED BY <1>6, <2>1 DEF Receive, Next
<1>7. CASE DuringWins
  <2>1. PICK d \in RacedDurings(current) : \E e \in Yields[d] : Send(e)
    BY <1>7 DEF DuringWins
  <2>2. Yields[d] \subseteq Event
    BY RunTypes DEF RacedDurings
  <2> QED BY <2>1, <2>2 DEF Next
<1>8. ASSUME NEW e \in Event, ActionEmits(e) \/ OwnerSends(e) PROVE Next
  BY <1>8 DEF ActionEmits, OwnerSends, Next
<1>9. CASE RunTerminated \/ Finished \/ Exhausted \/ BeginRace \/ SleepWins \/ Drop \/ Tick
  BY <1>9 DEF RunTerminated, Finished, Exhausted, BeginRace, SleepWins, Drop, Tick
<1>10. ASSUME NEW e \in Event, SenderSends(e) PROVE UNCHANGED vars
  BY <1>10 DEF SenderSends
<1>11. CASE UNCHANGED runVars
  BY <1>11 DEF runVars
<1> QED BY <1>3, <1>4, <1>5, <1>6, <1>7, <1>8, <1>9, <1>10, <1>11 DEF RunNext, LoopCode

(* The types and the machine's invariant, at the start and for ever. *)
LEMMA RunInvariant == RunSpec => [](TypeOK /\ MachineInvariant /\ LoopTypeOK)
<1>1. RunInit => TypeOK /\ MachineInvariant
  BY InitOK DEF RunInit
<1>2. RunInit => LoopTypeOK
  <2> SUFFICES ASSUME RunInit PROVE LoopTypeOK
    OBVIOUS
  <2>1. \A p \in Owned : AgeLimit[p] \in Nat
    BY OwnedPairs, RunTypes
  <2> QED BY <2>1, RunTypes DEF RunInit, LoopTypeOK, Places, Results
<1>3. TypeOK /\ MachineInvariant /\ LoopTypeOK /\ [RunNext]_runVars
        => (TypeOK /\ MachineInvariant /\ LoopTypeOK)'
  BY MachineStep, InvariantStep, LoopTypeStep
<1> QED BY <1>1, <1>2, <1>3, PTL DEF RunSpec

(* The types of the machine and of the loop, for every chart. *)
THEOREM RunTypeCorrect == RunSpec => []RunTypeOK
<1>1. TypeOK /\ LoopTypeOK => RunTypeOK
  BY RunTypes DEF LoopTypeOK, RunTypeOK
<1> QED BY <1>1, RunInvariant, PTL

(* A machine that is owned by run() behaves as Machine says: whatever is   *)
(* proved of Machine, for every order of calls, holds under run().         *)
THEOREM RunImplementsMachine == RunSpec => Spec
<1>1. RunInit => Init
  BY DEF RunInit
<1>2. LoopTypeOK /\ [RunNext]_runVars => [Next]_vars
  BY MachineStep
<1> QED BY <1>1, <1>2, RunInvariant, PTL DEF RunSpec, Spec

-----------------------------------------------------------------------------
(* No event is lost.                                                       *)

(* Where the loop is says whether a step is running; it waits, and only    *)
(* then receives, with an empty queue.                                     *)
LoopControl ==
  /\ call = IF at \in {"first", "stepping"} THEN "step" ELSE "none"
  /\ RaceIsQuiet

(* Inside a step, progress and emits stay inside it. *)
LEMMA StepStays ==
  ASSUME Progress \/ \E e \in Event : Emit(e)
  PROVE  UNCHANGED call
BY DEF Progress, Emit, ActionReturns, HandlerDone, BeginPath, BeginExit, EndExit, BeginEnter,
       EntryActionsDone, ArmTimer, EndEnter, UpTransition, FollowDefault, Terminate, frame

(* Step begins a step, and nothing but StepReturns ends one. *)
LEMMA StepBegins ==
  ASSUME NEW d, Step(d)
  PROVE  call' = "step"
BY DEF Step, EnterRoot, FireTimer, Fire, TakeEvent, NothingDue

LEMMA LoopControlStep ==
  ASSUME MachineInvariant, LoopTypeOK, LoopControl, [RunNext]_runVars
  PROVE  LoopControl'
<1> USE DEF LoopControl, RaceIsQuiet
<1>1. CASE Run \/ Continue \/ Woken
  BY <1>1, StepBegins DEF Run, Continue, Woken, StepElapsed
<1>2. CASE RunTerminated \/ Begin \/ Finished \/ Overflowed \/ Exhausted \/ BeginRace \/ Drop \/ SleepWins
  BY <1>2 DEF RunTerminated, Begin, Finished, Overflowed, Exhausted, BeginRace, Drop, SleepWins,
     Quiet, Return, EndRun, TakeOverflow, vars, fields, frame
<1>3. CASE Receive \/ DuringWins
  BY <1>3 DEF Receive, DuringWins, Send, frame
<1>4. CASE StepDone
  BY <1>4 DEF StepDone, StepReturns
<1>5. CASE InStep
  BY <1>5, StepStays DEF InStep
<1>6. ASSUME NEW e \in Event, ActionEmits(e) PROVE LoopControl'
  BY <1>6, StepStays DEF ActionEmits, loop
<1>7. ASSUME NEW e \in Event, OwnerSends(e) PROVE LoopControl'
  BY <1>7 DEF OwnerSends, Send, loop, frame
<1>8. ASSUME NEW e \in Event, SenderSends(e) PROVE LoopControl'
  BY <1>8 DEF SenderSends, vars, fields, frame
<1>9. CASE Tick \/ UNCHANGED runVars
  BY <1>9 DEF Tick, runVars, loop, vars, fields, frame
<1> QED BY <1>1, <1>2, <1>3, <1>4, <1>5, <1>6, <1>7, <1>8, <1>9 DEF RunNext, LoopCode

LEMMA LoopControlHolds == RunSpec => [](MachineInvariant /\ LoopTypeOK /\ LoopControl)
<1>1. RunInit => LoopControl
  BY DEF RunInit, Init, LoopControl, RaceIsQuiet
<1>2. MachineInvariant /\ LoopTypeOK /\ LoopControl /\ [RunNext]_runVars => LoopControl'
  BY LoopControlStep
<1> QED BY <1>1, <1>2, RunInvariant, PTL DEF RunSpec

(* Whatever the chart, the actions' emits and the capacity of the queue    *)
(* (but zero), an event that comes off the channel is put into the queue.  *)
THEOREM RunLosesNoEvent ==
  ASSUME QueueCap # 0
  PROVE  RunSpec => NoEventLost
<1> DEFINE Kept ==
      Len(channel') < Len(channel) => queue' = Append(queue, Head(channel))
<1>1. LoopTypeOK /\ LoopControl /\ [RunNext]_runVars => [Kept]_runVars
  <2> SUFFICES ASSUME LoopTypeOK, LoopControl, RunNext, Len(channel') < Len(channel)
               PROVE  queue' = Append(queue, Head(channel))
    OBVIOUS
  <2>1. Len(channel) \in Nat
    BY DEF LoopTypeOK
  <2>2. channel' # channel
    BY <2>1
  <2>3. ASSUME NEW e \in Event, SenderSends(e) PROVE FALSE
    BY <2>1, <2>3 DEF SenderSends, LoopTypeOK
  <2>4. Receive
    BY <2>2, <2>3 DEF RunNext, LoopCode, RunTerminated, Run, Return, EndRun, Begin, Finished,
       Overflowed, Continue, StepElapsed, Exhausted, BeginRace, DuringWins, SleepWins,
       Woken, StepDone, InStep, Drop, Tick, ActionEmits, OwnerSends, loop
  <2>5. queue = <<>> /\ ~terminated /\ Len(queue) = 0
    BY <2>4 DEF Receive, LoopControl, RaceIsQuiet
  <2> QED BY <2>4, <2>5 DEF Receive, Send
<1> QED BY <1>1, LoopControlHolds, PTL DEF RunSpec, NoEventLost

-----------------------------------------------------------------------------
(* No timer fires early.                                                   *)

(* Durations and times between two steps fit the counters. *)
ShortTimes ==
  /\ MaxLag < NsLimit
  /\ \A t \in Trigger : DurationFor[t] < NsLimit

SamePair(e, f) == e.state = f.state /\ e.trigger = f.trigger

(* The table holds at most one countdown of each pair. *)
OnePerPair(ts) == \A e, f \in ts : SamePair(e, f) => e = f

(* What a countdown of n becomes when d is counted. *)
Less(n, d) == IF d < n THEN n - d ELSE 0

(* A machine step that counts d leaves no countdown shorter than that.     *)
Carried(d) ==
  \A e \in timers' :
    \/ e.left = DurationFor[e.trigger]
    \/ \E f \in timers : SamePair(e, f) /\ e.left = Less(f.left, d)

(* A short time is counted whole. *)
LEMMA NanosOfShort ==
  ASSUME NEW n \in Nat, n < NsLimit
  PROVE  Nanos(n) = n
BY TimerAssumption DEF Nanos

(* The entries of the table after a start. *)
LEMMA StartEntries ==
  ASSUME ShortTimes, NEW ts \in SUBSET Timer, NEW s \in State, NEW t \in Trigger
  PROVE  LET after == Start(ts, s, t, DurationFor[t])
         IN  /\ \A e \in after : e \in ts \/ e.left = DurationFor[e.trigger]
             /\ \A e \in after : e.state # s \/ e.trigger # t => e \in ts
             /\ \A e \in ts : e.state # s \/ e.trigger # t => e \in after
             /\ OnePerPair(ts) => OnePerPair(after)
<1>1. Nanos(DurationFor[t]) = DurationFor[t]
  BY NanosOfShort, TableTypes DEF ShortTimes
<1> QED BY <1>1 DEF Start, Slot, OnePerPair, SamePair, Timer

(* The entries of the table after d was counted. *)
LEMMA TickedEntries ==
  ASSUME ShortTimes, TypeOK, NEW d \in 0 .. MaxLag
  PROVE  /\ Ticked(d) \in SUBSET Timer
         /\ \A e \in Ticked(d) : \E f \in timers : SamePair(e, f) /\ e.left = Less(f.left, d)
         /\ \A f \in timers : \E e \in Ticked(d) : SamePair(e, f)
         /\ OnePerPair(timers) => OnePerPair(Ticked(d))
<1>1. d \in Nat /\ Nanos(d) = d
  <2>1. d \in Nat /\ d < NsLimit
    BY RunTypes, TimerAssumption DEF ShortTimes
  <2> QED BY <2>1, NanosOfShort
<1> DEFINE after(f) == [f EXCEPT !.left = IF d < @ THEN @ - d ELSE 0]
<1>2. Ticked(d) = {after(f) : f \in timers}
  BY <1>1 DEF Ticked, Decrement
<1>3. \A f \in timers : SamePair(after(f), f) /\ after(f).left = Less(f.left, d)
  BY DEF TypeOK, Timer, SamePair, Less
<1>4. Ticked(d) \in SUBSET Timer
  BY <1>1, DecrementTimers DEF TypeOK, Ticked
<1> HIDE DEF after
<1>5. OnePerPair(timers) => OnePerPair(Ticked(d))
  BY <1>2, <1>3 DEF OnePerPair, SamePair
<1> QED BY <1>2, <1>3, <1>4, <1>5

(* A timer step takes one expired timer and leaves the others' countdowns. *)
LEMMA FireTimerEntries ==
  ASSUME ShortTimes, TypeOK, NEW d \in 0 .. MaxLag, NEW c, FireTimer(d, c)
  PROVE  \E e \in Ticked(d) :
           /\ e.left = 0
           /\ \A f \in timers' : f \in Ticked(d) \/ f.left = DurationFor[f.trigger]
           /\ \A f \in timers' : ~SamePair(f, e) => f \in Ticked(d)
           /\ \A f \in Ticked(d) : ~SamePair(f, e) => f \in timers'
           /\ OnePerPair(timers) => OnePerPair(timers')
<1>1. PICK e \in Poppable(Ticked(d)) :
        timers' = IF Repeats[e.trigger]
                    THEN Start(Ticked(d) \ {e}, e.state, e.trigger, DurationFor[e.trigger])
                    ELSE Ticked(d) \ {e}
  BY DEF FireTimer, Fire
<1> DEFINE rest == Ticked(d) \ {e}
<1>2. /\ Ticked(d) \in SUBSET Timer
      /\ OnePerPair(timers) => OnePerPair(Ticked(d))
  BY TickedEntries
<1>3. e \in Ticked(d) /\ e.left = 0 /\ e.state \in State /\ e.trigger \in Trigger
  BY <1>2 DEF Poppable, Expired, Timer
<1>4. rest \in SUBSET Timer /\ (OnePerPair(Ticked(d)) => OnePerPair(rest))
  BY <1>2 DEF OnePerPair
<1>5. CASE Repeats[e.trigger]
  <2>1. timers' = Start(rest, e.state, e.trigger, DurationFor[e.trigger])
    BY <1>1, <1>5
  <2> HIDE DEF rest
  <2>2. /\ \A f \in timers' : f \in rest \/ f.left = DurationFor[f.trigger]
        /\ \A f \in timers' : ~SamePair(f, e) => f \in rest
        /\ \A f \in rest : ~SamePair(f, e) => f \in timers'
        /\ OnePerPair(rest) => OnePerPair(timers')
    BY <1>3, <1>4, <2>1, StartEntries DEF SamePair
  <2> QED BY <1>2, <1>3, <1>4, <2>2 DEF rest, SamePair
<1>6. CASE ~Repeats[e.trigger]
  BY <1>1, <1>2, <1>3, <1>4, <1>6 DEF SamePair
<1> QED BY <1>5, <1>6

(* A step counts its elapsed time from every countdown that goes on. *)
LEMMA StepCarries ==
  ASSUME ShortTimes, TypeOK, MachineInvariant, OnePerPair(timers),
         NEW d \in 0 .. MaxLag, Step(d)
  PROVE  Carried(d) /\ OnePerPair(timers')
<1>1. /\ \A e \in Ticked(d) : \E f \in timers : SamePair(e, f) /\ e.left = Less(f.left, d)
      /\ OnePerPair(Ticked(d))
  BY TickedEntries
<1>2. CASE EnterRoot("step")
  <2>1. active = <<>> /\ phase = "idle" /\ timers' = timers
    BY <1>2 DEF EnterRoot, Step, Idle, fields, MachineInvariant, Control, Moving,
       ActiveMatchesCurrent
  <2>2. Range(active) = {}
    BY <2>1 DEF Range
  <2>3. timers = {}
    BY <2>1, <2>2 DEF MachineInvariant, TimersOfActive
  <2> QED BY <2>1, <2>3 DEF Carried, OnePerPair
<1>3. CASE FireTimer(d, "step")
  <2>1. /\ \A f \in timers' : f \in Ticked(d) \/ f.left = DurationFor[f.trigger]
        /\ OnePerPair(timers')
    BY <1>3, FireTimerEntries
  <2> QED BY <1>1, <2>1 DEF Carried
<1>4. CASE TakeEvent(d, "step") \/ NothingDue(d, "step")
  BY <1>1, <1>4 DEF TakeEvent, NothingDue, Carried
<1> QED BY <1>2, <1>3, <1>4 DEF Step

(* Inside a step only the arming of a timer adds to the table. *)
LEMMA ProgressCarries ==
  ASSUME ShortTimes, TypeOK, MachineInvariant, OnePerPair(timers), Progress
  PROVE  Carried(0) /\ OnePerPair(timers')
<1>1. \A f \in timers : f.left = Less(f.left, 0)
  BY DEF TypeOK, Timer, Less
<1>2. CASE timers' \subseteq timers
  BY <1>1, <1>2 DEF Carried, OnePerPair, SamePair
<1>3. CASE ArmTimer
  <2>1. Head(enters) \in State /\ Head(arms) \in Trigger
    BY <1>3 DEF ArmTimer, TypeOK, MachineInvariant, Control
  <2>2. timers' = Start(timers, Head(enters), Head(arms), DurationFor[Head(arms)])
    BY <1>3 DEF ArmTimer
  <2>3. /\ \A e \in timers' : e \in timers \/ e.left = DurationFor[e.trigger]
        /\ OnePerPair(timers')
    BY <2>1, <2>2, StartEntries DEF TypeOK
  <2> QED BY <1>1, <2>3 DEF Carried, SamePair
<1> QED BY <1>2, <1>3 DEF Progress, ActionReturns, HandlerDone, BeginPath, BeginExit, CancelState,
          EndExit, BeginEnter, EntryActionsDone, EndEnter, UpTransition, FollowDefault, Terminate,
          fields

(* What is invariant about the countdowns.  None is longer than its timer, *)
(* and a timer that is not armed has no age.                               *)
Counted(p, left, d, waited) ==
  IF left = 0 THEN DurationFor[p[2]] + d <= waited ELSE DurationFor[p[2]] + d = waited + left

Countdowns ==
  /\ CountdownsHold
  /\ OnePerPair(timers)
  /\ \A p \in Owned : /\ \A e \in Slot(timers, p[1], p[2]) : e.left <= DurationFor[p[2]]
                      /\ Slot(timers, p[1], p[2]) = {} => age[p] = 0

LEMMA CountdownsAre ==
  CountdownsHold <=>
    /\ at \notin {"race", "woken"} => lag = 0
    /\ \A p \in Owned : \A e \in Slot(timers, p[1], p[2]) : Counted(p, e.left, lag, age[p])
BY DEF CountdownsHold, Counted

LEMMA SlotTypes ==
  ASSUME TypeOK, LoopTypeOK, NEW p \in Owned
  PROVE  /\ DurationFor[p[2]] \in Nat /\ age[p] \in Nat /\ lag \in Nat
         /\ \A e \in Slot(timers, p[1], p[2]) :
              e \in timers /\ e.state = p[1] /\ e.trigger = p[2] /\ e.left \in Nat
<1>1. DurationFor[p[2]] \in Nat /\ age[p] \in Nat /\ lag \in Nat
  BY OwnedPairs, RunTypes DEF LoopTypeOK
<1>2. \A e \in Slot(timers, p[1], p[2]) :
        e \in timers /\ e.state = p[1] /\ e.trigger = p[2] /\ e.left \in Nat
  BY TimerAssumption DEF TypeOK, Timer, Slot
<1> QED BY <1>1, <1>2

(* What is carried over by a step that counts `lag` is not counted again,  *)
(* and nothing of it is lost.                                              *)
LEMMA AgingHolds ==
  ASSUME TypeOK, TypeOK', LoopTypeOK, Countdowns, OnePerPair(timers'),
         Carried(lag), Aging(lag),
         NEW p \in Owned, NEW e \in Slot(timers', p[1], p[2])
  PROVE  Counted(p, e.left, 0, age'[p]) /\ e.left <= DurationFor[p[2]]
<1>1. /\ DurationFor[p[2]] \in Nat /\ age[p] \in Nat /\ lag \in Nat
      /\ e \in timers' /\ e.state = p[1] /\ e.trigger = p[2] /\ e.left \in Nat
      /\ age'[p] = IF Restarted(p, lag) THEN 0 ELSE age[p]
  <2>1. DurationFor[p[2]] \in Nat /\ age[p] \in Nat /\ lag \in Nat
    BY SlotTypes
  <2>2. e \in timers' /\ e.state = p[1] /\ e.trigger = p[2] /\ e.left \in Nat
    BY TimerAssumption DEF TypeOK, Timer, Slot
  <2>3. age'[p] = IF Restarted(p, lag) THEN 0 ELSE age[p]
    BY DEF Aging
  <2> QED BY <2>1, <2>2, <2>3
<1>2. ASSUME NEW f \in Slot(timers, p[1], p[2])
      PROVE  f.left \in Nat /\ f.left <= DurationFor[p[2]] /\ Counted(p, f.left, lag, age[p])
  BY SlotTypes, CountdownsAre DEF Countdowns
<1>3. CASE e.left = DurationFor[e.trigger]
  <2>1. CASE Slot(timers, p[1], p[2]) = {}
    <3>1. age'[p] = 0
      BY <1>1, <2>1 DEF Countdowns
    <3> QED BY <1>1, <1>3, <3>1 DEF Counted
  <2>2. CASE Slot(timers, p[1], p[2]) # {}
    <3>1. PICK f \in Slot(timers, p[1], p[2]) : TRUE
      BY <2>2
    <3>2. e.left = 0 \/ lag + e.left <= f.left \/ Restarted(p, lag)
      BY <1>1, <1>2, <3>1 DEF Restarted
    <3>3. CASE Restarted(p, lag)
      BY <1>1, <1>3, <3>3 DEF Counted
    <3>4. CASE e.left = 0
      BY <1>1, <1>3, <3>4 DEF Counted
    <3>5. CASE e.left # 0 /\ lag + e.left <= f.left
      <4>1. lag = 0 /\ f.left = DurationFor[p[2]] /\ f.left # 0
        BY <1>1, <1>2, <1>3, <3>1, <3>5
      <4>2. age[p] = 0
        BY <1>1, <1>2, <3>1, <4>1 DEF Counted
      <4> QED BY <1>1, <1>3, <4>2 DEF Counted
    <3> QED BY <3>2, <3>3, <3>4, <3>5
  <2> QED BY <2>1, <2>2
<1>4. CASE \E f \in timers : SamePair(e, f) /\ e.left = Less(f.left, lag)
  <2>1. PICK f \in timers : SamePair(e, f) /\ e.left = Less(f.left, lag)
    BY <1>4
  <2>2. f \in Slot(timers, p[1], p[2])
    BY <1>1, <2>1 DEF SamePair, Slot
  <2>3. f.left \in Nat /\ f.left <= DurationFor[p[2]] /\ Counted(p, f.left, lag, age[p])
    BY <1>2, <2>2
  <2>4. ~Restarted(p, lag)
    <3> SUFFICES ASSUME NEW g \in Slot(timers, p[1], p[2]), NEW h \in Slot(timers', p[1], p[2]),
                        h.left > 0, g.left < h.left + lag
                 PROVE  FALSE
      BY DEF Restarted
    <3>1. h = e /\ g = f
      BY <1>1, <2>2 DEF Slot, OnePerPair, SamePair, Countdowns
    <3> QED BY <1>1, <2>1, <2>3, <3>1 DEF Less
  <2>5. age'[p] = age[p]
    BY <1>1, <2>4
  <2> QED BY <1>1, <2>1, <2>3, <2>5 DEF Less, Counted
<1> QED BY <1>1, <1>3, <1>4 DEF Carried

(* A step of run() that begins a machine step at `lag`, or goes on with it. *)
LEMMA CountingStep ==
  ASSUME ShortTimes, TypeOK, TypeOK', MachineInvariant, LoopTypeOK, Countdowns,
         Step(lag) \/ (lag = 0 /\ Progress), Aging(lag),
         lag' = 0
  PROVE  Countdowns'
<1>1. OnePerPair(timers) /\ lag \in 0 .. MaxLag
  BY DEF Countdowns, LoopTypeOK
<1>2. Carried(lag) /\ OnePerPair(timers')
  BY <1>1, StepCarries, ProgressCarries
<1>3. \A p \in Owned : \A e \in Slot(timers', p[1], p[2]) :
        Counted(p, e.left, 0, age'[p]) /\ e.left <= DurationFor[p[2]]
  BY <1>2, AgingHolds
<1>4. \A p \in Owned : Slot(timers', p[1], p[2]) = {} => age'[p] = 0
  BY DEF Aging
<1>5. CountdownsHold'
  BY <1>3 DEF CountdownsHold, Counted, Owned, Slot
<1> QED BY <1>2, <1>3, <1>4, <1>5 DEF Countdowns, Owned, Slot

(* Where neither the timers nor the clock change. *)
LEMMA StandingStep ==
  ASSUME Countdowns, UNCHANGED <<timers, age, lag>>,
         at' \notin {"race", "woken"} => lag = 0
  PROVE  Countdowns'
BY DEF Countdowns, CountdownsHold, OnePerPair, Owned, Slot

(* While the loop waits, the clock and the timers' ages move together. *)
LEMMA TickCounts ==
  ASSUME ActionTime = 0, TypeOK, LoopTypeOK, LoopTypeOK', Countdowns, Tick
  PROVE  Countdowns'
<1>1. /\ at = "race" /\ at' = "race" /\ lag < MaxLag /\ lag' = lag + 1
      /\ UNCHANGED timers /\ Older /\ lag \in Nat /\ MaxLag \in Nat
  <2>1. lag \in Nat /\ MaxLag \in Nat
    BY RunTypes DEF LoopTypeOK
  <2> QED BY <2>1 DEF Tick, vars, fields
<1>2. ASSUME NEW p \in Owned, NEW e \in Slot(timers, p[1], p[2])
      PROVE  Counted(p, e.left, lag', age'[p])
  <2>1. DurationFor[p[2]] \in Nat /\ age[p] \in Nat /\ e.left \in Nat
    BY SlotTypes
  <2>2. Counted(p, e.left, lag, age[p])
    BY CountdownsAre DEF Countdowns
  <2>3. age'[p] = IF age[p] < DurationFor[p[2]] + MaxLag THEN age[p] + 1 ELSE age[p]
    BY <1>1, OwnedPairs DEF Older
  <2> QED BY <1>1, <2>1, <2>2, <2>3 DEF Counted
<1>3. CountdownsHold'
  BY <1>1, <1>2 DEF CountdownsHold, Counted, Owned, Slot
<1>4. \A p \in Owned : Slot(timers, p[1], p[2]) = {} => age'[p] = age[p]
  BY <1>1 DEF Older
<1> QED BY <1>1, <1>3, <1>4 DEF Countdowns, OnePerPair, Owned, Slot

(* A dropped race was waited by no timer. *)
LEMMA DropCounts ==
  ASSUME TypeOK, LoopTypeOK, Countdowns, Drop
  PROVE  Countdowns'
<1>1. /\ lag' = 0 /\ UNCHANGED timers
      /\ \A p \in Owned : age'[p] = IF age[p] < lag THEN 0 ELSE age[p] - lag
  BY DEF Drop, EndRun, vars, fields
<1>2. ASSUME NEW p \in Owned, NEW e \in Slot(timers, p[1], p[2])
      PROVE  Counted(p, e.left, 0, age'[p])
  <2>1. DurationFor[p[2]] \in Nat /\ age[p] \in Nat /\ lag \in Nat /\ e.left \in Nat
    BY SlotTypes
  <2>2. Counted(p, e.left, lag, age[p]) /\ e.left <= DurationFor[p[2]]
    BY CountdownsAre DEF Countdowns
  <2>3. age'[p] = age[p] - lag
    BY <1>1, <2>1, <2>2 DEF Counted
  <2> QED BY <2>1, <2>2, <2>3 DEF Counted
<1>3. CountdownsHold'
  BY <1>1, <1>2 DEF CountdownsHold, Counted, Owned, Slot
<1>4. \A p \in Owned : Slot(timers, p[1], p[2]) = {} => age'[p] = 0
  <2>1. \A p \in Owned : lag \in Nat
    BY SlotTypes
  <2> QED BY <1>1, <2>1 DEF Countdowns
<1> QED BY <1>1, <1>3, <1>4 DEF Countdowns, OnePerPair, Owned, Slot

(* Every step of run() counts every moment once. *)
LEMMA CountdownsStep ==
  ASSUME ShortTimes, ActionTime = 0, TypeOK, TypeOK', MachineInvariant, LoopTypeOK, LoopTypeOK',
         LoopControl, Countdowns, [RunNext]_runVars
  PROVE  Countdowns'
<1>1. at \notin {"race", "woken"} => lag = 0
  BY DEF Countdowns, CountdownsHold
<1>2. CASE Run
  <2>1. lag = 0 /\ lag' = 0 /\ Step(0) /\ Aging(0)
    BY <1>1, <1>2 DEF Run
  <2> QED BY <2>1, CountingStep
<1>3. CASE Continue \/ Woken
  BY <1>3, CountingStep DEF Continue, Woken, StepElapsed
<1>4. CASE InStep
  <2>1. lag = 0 /\ lag' = 0 /\ Progress /\ Aging(0)
    BY <1>1, <1>4 DEF InStep
  <2> QED BY <2>1, CountingStep
<1>5. CASE Tick
  BY <1>5, TickCounts
<1>6. CASE Drop
  BY <1>6, DropCounts
<1>7. CASE RunTerminated \/ Begin \/ Finished \/ Overflowed \/ Exhausted \/ BeginRace \/ StepDone
  <2>1. UNCHANGED <<timers, age>> /\ lag = 0 /\ lag' = lag
    BY <1>1, <1>7 DEF RunTerminated, Begin, Finished, Overflowed, Exhausted, BeginRace,
       StepDone, StepReturns, Quiet, Return, EndRun, TakeOverflow, vars, fields
  <2> QED BY <2>1, StandingStep
<1>8. CASE Receive \/ DuringWins \/ SleepWins
  <2>1. UNCHANGED <<timers, age, lag>> /\ at' = "woken"
    BY <1>8 DEF Receive, DuringWins, SleepWins, Send, vars, fields
  <2> QED BY <2>1, StandingStep
<1>9. ASSUME NEW e \in Event, ActionEmits(e) \/ OwnerSends(e) \/ SenderSends(e)
      PROVE  Countdowns'
  <2>1. UNCHANGED <<timers, age, lag, at>>
    BY <1>9 DEF ActionEmits, OwnerSends, SenderSends, Emit, Send, loop, vars, fields
  <2> QED BY <1>1, <2>1, StandingStep
<1>10. CASE UNCHANGED runVars
  <2>1. UNCHANGED <<timers, age, lag, at>>
    BY <1>10 DEF runVars, loop, vars, fields
  <2> QED BY <1>1, <2>1, StandingStep
<1> QED BY <1>2, <1>3, <1>4, <1>5, <1>6, <1>7, <1>8, <1>9, <1>10 DEF RunNext, LoopCode

LEMMA CountdownsAlways ==
  ASSUME ShortTimes, ActionTime = 0
  PROVE  RunSpec => [](TypeOK /\ MachineInvariant /\ LoopTypeOK /\ LoopControl /\ Countdowns)
<1>1. RunInit => Countdowns
  BY DEF RunInit, Init, Countdowns, CountdownsHold, OnePerPair, Slot
<1>2. TypeOK /\ TypeOK' /\ MachineInvariant /\ LoopTypeOK /\ LoopTypeOK' /\ LoopControl
        /\ Countdowns /\ [RunNext]_runVars => Countdowns'
  BY CountdownsStep
<1> QED BY <1>1, <1>2, RunInvariant, LoopControlHolds, PTL DEF RunSpec

(* If actions take no time, what a timer has left, less what the next step *)
(* will count, and the time it has been waited for make up its duration,   *)
(* at every moment and in every chart: run() counts nothing twice and      *)
(* forgets nothing.                                                        *)
THEOREM RunCountsOnce ==
  ASSUME ShortTimes, ActionTime = 0
  PROVE  RunSpec => []CountdownsHold
<1>1. Countdowns => CountdownsHold
  BY DEF Countdowns
<1> QED BY <1>1, CountdownsAlways, PTL

(* Only the timer a step takes is gone, or starts again, after it. *)
LEMMA TakenTimerIsOver ==
  ASSUME ShortTimes, TypeOK, LoopTypeOK, Countdowns, NEW d \in 0 .. lag, Step(d),
         phase' = "handler", NEW p \in Owned, Armed(p), ~Armed(p)' \/ Restarted(p, d)
  PROVE  age[p] >= DurationFor[p[2]]
<1>1. /\ d \in 0 .. MaxLag /\ d <= lag /\ lag \in Nat
      /\ DurationFor[p[2]] \in Nat /\ age[p] \in Nat
      /\ OnePerPair(timers)
  BY OwnedPairs, RunTypes DEF LoopTypeOK, Countdowns
<1>2. PICK f \in timers : f.state = p[1] /\ f.trigger = p[2]
  BY DEF Armed, Slot
<1>3. f.left \in Nat /\ DurationFor[p[2]] + lag <= age[p] + f.left
  <2>1. f \in Slot(timers, p[1], p[2]) /\ f.left \in Nat
    BY <1>2, SlotTypes DEF Slot
  <2>2. Counted(p, f.left, lag, age[p])
    BY <2>1, CountdownsAre DEF Countdowns
  <2> QED BY <1>1, <2>1, <2>2 DEF Counted
<1>4. PICK e \in Ticked(d) : SamePair(e, f)
  BY <1>1, TickedEntries
<1>5. e.left = Less(f.left, d)
  BY <1>1, <1>4, TickedEntries DEF OnePerPair, SamePair
<1>6. CASE f.left <= d
  BY <1>1, <1>3, <1>6
<1>7. CASE ~(f.left <= d)
  <2>1. e.left = f.left - d /\ e.left # 0 /\ f.left = e.left + d
    BY <1>1, <1>3, <1>5, <1>7 DEF Less
  <2>2. OnePerPair(Ticked(d)) /\ e \in timers'
        /\ \A h \in timers' : SamePair(h, e) => h \in Ticked(d)
    <3>1. OnePerPair(Ticked(d))
      BY <1>1, TickedEntries
    <3>2. CASE FireTimer(d, "step")
      <4>1. PICK g \in Ticked(d) :
              /\ g.left = 0
              /\ \A h \in timers' : ~SamePair(h, g) => h \in Ticked(d)
              /\ \A h \in Ticked(d) : ~SamePair(h, g) => h \in timers'
        BY <1>1, <3>2, FireTimerEntries
      <4>2. ~SamePair(e, g)
        BY <2>1, <3>1, <4>1 DEF OnePerPair
      <4> QED BY <3>1, <4>1, <4>2 DEF SamePair
    <3>3. CASE timers' = Ticked(d)
      BY <3>1, <3>3
    <3> QED BY <3>2, <3>3 DEF Step, EnterRoot, TakeEvent, NothingDue
  <2>3. Armed(p)'
    BY <1>2, <1>4, <2>2 DEF Armed, Slot, SamePair
  <2>4. ~Restarted(p, d)
    <3> SUFFICES ASSUME NEW g \in Slot(timers, p[1], p[2]), NEW h \in Slot(timers', p[1], p[2]),
                        g.left < h.left + d
                 PROVE  FALSE
      BY DEF Restarted
    <3>1. g = f
      BY <1>1, <1>2 DEF Slot, OnePerPair, SamePair
    <3>2. h = e
      BY <1>2, <1>4, <2>2 DEF Slot, OnePerPair, SamePair
    <3>3. f.left < f.left
      BY <2>1, <3>1, <3>2
    <3> QED BY <1>3, <3>3
  <2> QED BY <2>3, <2>4
<1> QED BY <1>6, <1>7

(* In every chart and under every schedule: no timer is taken before its   *)
(* whole duration has passed since it was started.                         *)
THEOREM RunIsNeverEarly ==
  ASSUME ShortTimes, ActionTime = 0
  PROVE  RunSpec => NeverEarly
<1> DEFINE Ready ==
      \A p \in Owned :
        call = "none" /\ phase' = "handler" /\ Armed(p) /\ (~Armed(p)' \/ Restarted(p, lag))
          => age[p] >= DurationFor[p[2]]
<1>1. TypeOK /\ MachineInvariant /\ LoopTypeOK /\ LoopControl /\ Countdowns
        /\ [RunNext]_runVars => [Ready]_runVars
  <2> SUFFICES ASSUME TypeOK, MachineInvariant, LoopTypeOK, LoopControl, Countdowns, RunNext,
                      call = "none", phase' = "handler", NEW p \in Owned, Armed(p),
                      ~Armed(p)' \/ Restarted(p, lag)
               PROVE  age[p] >= DurationFor[p[2]]
    OBVIOUS
  <2>1. phase = "idle"
    BY DEF MachineInvariant, Control
  <2>2. ASSUME NEW e \in Event, ActionEmits(e) \/ OwnerSends(e) \/ SenderSends(e)
        PROVE  FALSE
    BY <2>1, <2>2 DEF ActionEmits, OwnerSends, SenderSends, Emit, Send, vars, frame
  <2>3. Step(lag) \/ (Step(0) /\ lag = 0)
    <3>1. Run => Step(0) /\ lag = 0
      BY DEF Run, Countdowns, CountdownsHold
    <3>2. Continue \/ Woken => Step(lag)
      BY DEF Continue, Woken, StepElapsed
    <3>3. ~InStep /\ ~StepDone
      BY DEF InStep, StepDone, LoopControl
    <3>4. ~(RunTerminated \/ Begin \/ Finished \/ Overflowed \/ Exhausted \/ BeginRace \/ Drop)
      BY <2>1 DEF RunTerminated, Begin, Finished, Overflowed, Exhausted, BeginRace, Drop,
         TakeOverflow, vars, frame
    <3>5. ~(Receive \/ DuringWins \/ SleepWins \/ Tick)
      BY <2>1 DEF Receive, DuringWins, SleepWins, Tick, Send, vars, frame
    <3> QED BY <2>2, <3>1, <3>2, <3>3, <3>4, <3>5 DEF RunNext, LoopCode
  <2>4. 0 \in 0 .. lag /\ lag \in 0 .. lag
    BY RunTypes DEF LoopTypeOK
  <2> QED BY <2>3, <2>4, TakenTimerIsOver
<1> QED BY <1>1, CountdownsAlways, PTL DEF RunSpec, NeverEarly

-----------------------------------------------------------------------------
(* The loop does not sleep past a timer.                                   *)

(* When the loop is about to wait, `next` is what the shortest timer has   *)
(* left; it has waited as long as it will count, and not for longer than   *)
(* `next` and what the executor is late.                                   *)
SleepsAtMost ==
  /\ at \in {"begun", "check", "race"} => next = MinRemaining(timers)
  /\ at = "race" => lag = slept /\ (SleepDur # None => slept <= SleepDur + Late)

LEMMA SleepStep ==
  ASSUME ActionTime = 0, TypeOK, TypeOK', LoopTypeOK, LoopTypeOK', LoopControl, Countdowns,
         SleepsAtMost, [RunNext]_runVars
  PROVE  SleepsAtMost'
<1> USE DEF SleepsAtMost
<1>1. /\ lag \in Nat /\ slept \in Nat /\ slept <= lag
      /\ at \notin {"race", "woken"} => lag = 0 /\ slept = 0
      /\ next \in Nat \cup {None} /\ Late \in Nat
      /\ SleepDur \in Nat \cup {None}
  BY RunTypes DEF LoopTypeOK, Countdowns, CountdownsHold, SleepDur
<1>2. CASE Tick
  <2>1. at = "race" /\ UNCHANGED <<timers, next, at>> /\ lag' = lag + 1 /\ slept' = slept + 1
        /\ (SleepDur # None => slept < SleepDur + Late)
    BY <1>1, <1>2 DEF Tick, vars, fields
  <2> QED BY <1>1, <2>1 DEF SleepDur
<1>3. CASE BeginRace
  <2>1. at' = "race" /\ UNCHANGED <<timers, next, lag, slept>> /\ lag = 0 /\ slept = 0
        /\ next = MinRemaining(timers)
    BY <1>1, <1>3 DEF BeginRace, Quiet, vars, fields
  <2> QED BY <1>1, <2>1 DEF SleepDur
<1>4. CASE Begin
  BY <1>4 DEF Begin, Return, EndRun, TakeOverflow, vars, fields
<1>5. CASE StepDone
  BY <1>5 DEF StepDone, StepReturns, fields
<1>6. ASSUME NEW e \in Event, ActionEmits(e) \/ OwnerSends(e) \/ SenderSends(e)
      PROVE  SleepsAtMost'
  <2>1. UNCHANGED <<timers, next, at, lag, slept>>
    BY <1>6 DEF ActionEmits, OwnerSends, SenderSends, Emit, Send, loop, vars, fields
  <2> QED BY <2>1 DEF SleepDur
<1>7. CASE RunTerminated \/ UNCHANGED runVars
  <2>1. UNCHANGED <<timers, next, at, lag, slept>>
    BY <1>7 DEF RunTerminated, runVars, loop, vars, fields
  <2> QED BY <2>1 DEF SleepDur
<1>8. CASE at' \notin {"begun", "check", "race"}
  BY <1>8
<1> QED BY <1>2, <1>3, <1>4, <1>5, <1>6, <1>7, <1>8 DEF RunNext, LoopCode, Run, Finished,
          Overflowed, Continue, Woken, StepElapsed, Exhausted, Return, EndRun, Receive, DuringWins,
          SleepWins, InStep, Drop

(* Whatever wakes the loop, no timer is over for longer than the executor  *)
(* may be late while run() still waits; in every chart.                    *)
THEOREM RunNeverOversleeps ==
  ASSUME ShortTimes, ActionTime = 0
  PROVE  RunSpec => []NeverOversleeps
<1>1. RunInit => SleepsAtMost
  BY DEF RunInit, SleepsAtMost
<1>2. TypeOK /\ TypeOK' /\ LoopTypeOK /\ LoopTypeOK' /\ LoopControl /\ Countdowns
        /\ SleepsAtMost /\ [RunNext]_runVars => SleepsAtMost'
  BY SleepStep
<1>3. TypeOK /\ LoopTypeOK /\ SleepsAtMost => NeverOversleeps
  <2> SUFFICES ASSUME TypeOK, LoopTypeOK, SleepsAtMost, at = "race", NEW e \in timers
               PROVE  lag <= e.left + Late
    BY DEF NeverOversleeps
  <2> DEFINE lefts == {f.left : f \in timers}
  <2>1. lefts \in SUBSET Nat /\ e.left \in lefts /\ timers # {}
    BY TimerAssumption DEF TypeOK, Timer
  <2>2. next = Min(lefts)
    BY <2>1 DEF SleepsAtMost, MinRemaining
  <2> HIDE DEF lefts
  <2>3. next \in lefts /\ next <= e.left
    BY <2>1, <2>2, MinIsElement
  <2>4. next \in Nat /\ e.left \in Nat
    BY <2>1, <2>3
  <2>5. next # None /\ SleepDur = next
    BY <2>4, RunTypes DEF SleepDur
  <2>6. lag = slept /\ slept <= next + Late
    BY <2>5 DEF SleepsAtMost
  <2>7. lag \in Nat /\ Late \in Nat
    BY RunTypes DEF LoopTypeOK
  <2> QED BY <2>3, <2>4, <2>6, <2>7
<1> QED BY <1>1, <1>2, <1>3, CountdownsAlways, PTL DEF RunSpec
=============================================================================
