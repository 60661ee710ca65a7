------------------------------ MODULE RunLoop ------------------------------
(***************************************************************************)
(* run(): the loop that owns a machine in an async build, with the event   *)
(* channel its senders push into, the clock, and the race between channel, *)
(* sleep and `during:` activities (hsmc-macros/src/codegen.rs, the run     *)
(* bodies for tokio and embassy, with and without a channel).  The bodies  *)
(* differ in what races, in the order the race is polled in and in how     *)
(* long an idle machine sleeps: these are constants.                       *)
(*                                                                         *)
(* Every action is an action of Machine, or leaves the machine alone,      *)
(* together with what it does to the loop's own state.                     *)
(***************************************************************************)
EXTENDS Machine

CONSTANTS
  HasChannel,     \* the chart declares events
  Biased,         \* the race is polled in order: channel before sleep
  IdleSleep,      \* sleep without a timer: 3600 s, or None to wait for ever
  During,         \* names of the during activities
  Durings,        \* the activities each state declares
  Yields,         \* events an activity may complete with
  ActionTime,     \* how long the user's actions of one step may take
  Late,           \* how late the executor may wake a sleeping task
  MaxLag,         \* bound on the time between two steps
  ChannelCap      \* embassy's capacity; a bound on tokio's endless channel

ASSUME RunTypes ==
  /\ HasChannel \in BOOLEAN /\ Biased \in BOOLEAN
  /\ None \notin Nat
  /\ IdleSleep \in Nat \cup {None} /\ Late \in Nat /\ MaxLag \in Nat
  /\ ChannelCap \in Nat /\ ActionTime \in 0 .. MaxLag
  /\ Durings \in [State -> SUBSET During] /\ Yields \in [During -> SUBSET Event]
  /\ 0 .. MaxLag \subseteq Elapsed

VARIABLES
  channel,  \* events sent through a Sender and not received yet
  at,       \* where in run() the owner is
  next,     \* its local `next`, what the last step returned
  lag,      \* time since its local `last_instant`
  slept,    \* time since the race began
  outcome,  \* what the last run() returned
  age       \* history: per timer, how long a run() has waited since its start

loop == <<channel, at, next, lag, slept, outcome, age>>
runVars == <<vars, loop>>

Places == {"outside", "first", "begun", "check", "race", "woken", "stepping"}

Owned == {p \in State \X Trigger : p[2] \in Range(OwnedTimers[p[1]])}

AgeLimit == [p \in Owned |-> DurationFor[p[2]] + MaxLag]

RunTypeOK ==
  /\ TypeOK
  /\ channel \in Seq(Event) /\ Len(channel) <= ChannelCap
  /\ at \in Places
  /\ next \in Nat \cup {None}
  /\ lag \in 0 .. MaxLag /\ slept \in 0 .. MaxLag
  /\ outcome \in Results
  /\ age \in [Owned -> Nat] /\ \A p \in Owned : age[p] <= AgeLimit[p]

RunInit ==
  /\ Init
  /\ channel = <<>> /\ at = "outside" /\ next = None /\ lag = 0 /\ slept = 0
  /\ outcome = "none" /\ age = [p \in Owned |-> 0]

-----------------------------------------------------------------------------
(* active_durings_per_innermost_state: the activities raced when s is the  *)
(* innermost active state.                                                 *)
HasChild(s) == \E c \in State : Len(TerminatePath[c]) > 1 /\ TerminatePath[c][2] = s

RacedDurings(s) ==
  IF s = Root \/ (HasChild(s) /\ DefaultChild[s] # None)
    THEN {}
    ELSE {d \in During : \E a \in Range(TerminatePath[s]) : d \in Durings[a]}

(* TimerTable::min_remaining. *)
MinRemaining(ts) == IF ts = {} THEN None ELSE Min({e.left : e \in ts})

SleepDur == IF next = None THEN IdleSleep ELSE next

(* History, over a machine step that counts d: a countdown that did not    *)
(* lose d was started again; a timer that is not armed has no age.         *)
Restarted(p, d) ==
  \E e \in Slot(timers, p[1], p[2]), f \in Slot(timers', p[1], p[2]) :
    f.left > 0 /\ e.left < f.left + d

Aging(d) ==
  age' = [p \in Owned |->
            IF Slot(timers', p[1], p[2]) = {} \/ Restarted(p, d) THEN 0 ELSE age[p]]

-----------------------------------------------------------------------------
(* Before the loop *)

RunTerminated ==
  /\ at = "outside" /\ terminated
  /\ outcome' = "AlreadyTerminated"
  /\ UNCHANGED <<vars, channel, at, next, lag, slept, age>>

Run ==
  /\ at = "outside" /\ ~terminated
  /\ Step(0)
  /\ at' = "first" /\ outcome' = "none" /\ Aging(0)
  /\ UNCHANGED <<channel, next, lag, slept>>

EndRun(r) ==
  /\ at' = "outside" /\ outcome' = r
  /\ next' = None /\ lag' = 0 /\ slept' = 0
  /\ UNCHANGED channel

Return(r) == EndRun(r) /\ UNCHANGED age

(* last_instant is taken after the first step. *)
Begin ==
  /\ at = "begun"
  /\ \/ TakeOverflow /\ Return("QueueFull")
     \/ /\ ~overflow /\ at' = "check"
        /\ UNCHANGED <<vars, channel, next, lag, slept, outcome, age>>

-----------------------------------------------------------------------------
(* The top of the loop *)

Finished ==
  /\ at = "check" /\ terminated
  /\ Return("Ok") /\ UNCHANGED vars

Overflowed ==
  /\ at = "check" /\ ~terminated
  /\ TakeOverflow /\ Return("QueueFull")

(* Mutant: the step is told that no time has passed. *)
StepIgnoresTime ==
  /\ Step(0)
  /\ at' = "stepping" /\ lag' = 0 /\ slept' = 0 /\ Aging(0)
  /\ UNCHANGED <<channel, next, outcome>>

(* Mutant: last_instant is not moved, the same time counts again. *)
StepKeepsInstant ==
  /\ Step(lag)
  /\ at' = "stepping" /\ slept' = 0 /\ Aging(lag)
  /\ UNCHANGED <<channel, next, lag, outcome>>

(* `step(now - last_instant)`, with last_instant moved to now first. *)
StepElapsed ==
  /\ Step(lag)
  /\ at' = "stepping" /\ lag' = 0 /\ slept' = 0 /\ Aging(lag)
  /\ UNCHANGED <<channel, next, outcome>>

(* `if !self.queue.is_empty() { .. continue; }` *)
Continue ==
  /\ at = "check" /\ ~terminated /\ ~overflow /\ queue # <<>>
  /\ StepElapsed

Quiet == at = "check" /\ ~terminated /\ ~overflow /\ queue = <<>>

(* Without a channel there is nothing to wait for but timers and durings. *)
NothingLeft == ~HasChannel /\ next = None /\ RacedDurings(current) = {}

(* Mutant: run() gives up although an activity is running. *)
ExhaustedEarly ==
  /\ Quiet /\ ~HasChannel /\ next = None
  /\ Return("Ok") /\ UNCHANGED vars

Exhausted ==
  /\ Quiet /\ NothingLeft
  /\ Return("Ok") /\ UNCHANGED vars

(* Mutant: what the actions queued waits for the next wake-up. *)
BeginRaceWithQueued ==
  /\ at = "check" /\ ~terminated /\ ~overflow /\ ~NothingLeft
  /\ at' = "race"
  /\ UNCHANGED <<vars, channel, next, lag, slept, outcome, age>>

BeginRace ==
  /\ Quiet /\ ~NothingLeft
  /\ at' = "race"
  /\ UNCHANGED <<vars, channel, next, lag, slept, outcome, age>>

-----------------------------------------------------------------------------
(* The race; the losing futures are dropped. *)

Receive ==
  /\ at = "race" /\ channel # <<>>
  /\ Send(Head(channel))
  /\ channel' = Tail(channel)
  /\ at' = "woken"
  /\ UNCHANGED <<next, lag, slept, outcome, age>>

DuringWins ==
  /\ at = "race"
  /\ \E d \in RacedDurings(current) : \E e \in Yields[d] : Send(e)
  /\ at' = "woken"
  /\ UNCHANGED <<channel, next, lag, slept, outcome, age>>

SleepWins ==
  /\ at = "race" /\ SleepDur # None /\ slept >= SleepDur
  /\ Biased => channel = <<>>
  /\ at' = "woken"
  /\ UNCHANGED <<vars, channel, next, lag, slept, outcome, age>>

Woken == at = "woken" /\ StepElapsed

(* Mutant: `next` keeps the value it had before the first step. *)
StepDoneKeepsNext ==
  /\ at \in {"first", "stepping"}
  /\ StepReturns
  /\ at' = IF at = "first" THEN "begun" ELSE "check"
  /\ UNCHANGED <<channel, next, lag, slept, outcome, age>>

StepDone ==
  /\ at \in {"first", "stepping"}
  /\ StepReturns
  /\ next' = MinRemaining(timers)
  /\ at' = IF at = "first" THEN "begun" ELSE "check"
  /\ UNCHANGED <<channel, lag, slept, outcome, age>>

InStep ==
  /\ at \in {"first", "stepping"}
  /\ Progress
  /\ Aging(0)
  /\ UNCHANGED <<channel, at, next, lag, slept, outcome>>

ActionEmits(e) ==
  /\ at \in {"first", "stepping"}
  /\ Emit(e)
  /\ UNCHANGED loop

-----------------------------------------------------------------------------
(* Around the loop *)

(* The future of run() is dropped while it waits, and its last_instant is  *)
(* lost: what it has waited in this race counts for no timer.              *)
Drop ==
  /\ at = "race"
  /\ EndRun("none") /\ UNCHANGED vars
  /\ age' = [p \in Owned |-> IF age[p] < lag THEN 0 ELSE age[p] - lag]

(* send() by the owner between two runs. *)
OwnerSends(e) ==
  /\ at = "outside"
  /\ Send(e)
  /\ UNCHANGED loop

(* Bounds: the channel's, and no event is sent again while it is pending. *)
SenderSends(e) ==
  /\ HasChannel
  /\ Len(channel) < ChannelCap /\ e \notin Range(channel) \cup Range(queue)
  /\ channel' = Append(channel, e)
  /\ UNCHANGED <<vars, at, next, lag, slept, outcome, age>>

Older ==
  age' = [p \in Owned |->
            IF Slot(timers, p[1], p[2]) # {} /\ age[p] < AgeLimit[p]
              THEN age[p] + 1 ELSE age[p]]

(* Time passes in the race, until the sleep is over and Late more, and, if *)
(* actions take time, while they run; before the loop it counts for nobody.*)
Tick ==
  /\ \/ /\ at = "race" /\ lag < MaxLag
        /\ SleepDur # None => slept < SleepDur + Late
        /\ lag' = lag + 1 /\ slept' = slept + 1
     \/ /\ acts # <<>> /\ at = "stepping" /\ lag < ActionTime
        /\ lag' = lag + 1 /\ UNCHANGED slept
     \/ /\ ActionTime > 0 /\ acts # <<>> /\ at = "first"
        /\ UNCHANGED <<lag, slept>>
  /\ Older
  /\ UNCHANGED <<vars, channel, at, next, outcome>>

-----------------------------------------------------------------------------
LoopCode ==
  \/ Begin \/ Finished \/ Overflowed \/ Continue \/ Exhausted \/ BeginRace
  \/ Woken \/ StepDone \/ InStep

RunNext ==
  \/ RunTerminated \/ Run \/ LoopCode
  \/ Receive \/ DuringWins \/ SleepWins
  \/ \E e \in Event : ActionEmits(e) \/ OwnerSends(e) \/ SenderSends(e)
  \/ Drop \/ Tick

RunSpec == RunInit /\ [][RunNext]_runVars

(* The loop's code runs and the user's actions return; time passes; a      *)
(* sleep that is over ends.  A received event needs more: with durings     *)
(* that are ready at every poll the channel starves (docs/003), and an     *)
(* unbiased select! picks at random, so that what is ready again and again *)
(* is picked in the end.                                                   *)
RunFairSpec ==
  /\ RunSpec
  /\ WF_runVars(LoopCode) /\ WF_runVars(Tick)
  /\ SF_runVars(SleepWins) /\ SF_runVars(Receive)

-----------------------------------------------------------------------------
Armed(p) == Slot(timers, p[1], p[2]) # {}

(* No timer fires early: when one is taken from the table, the clock has   *)
(* advanced by its whole duration since it was started, whatever woke the  *)
(* loop in between and however late; run() counts every moment once, and   *)
(* none before the timer was started (last_instant).                       *)
NeverEarly ==
  [][\A p \in Owned :
       call = "none" /\ phase' = "handler" /\ Armed(p) /\ (~Armed(p)' \/ Restarted(p, lag))
         => age[p] >= DurationFor[p[2]]]_runVars

(* Nor does the loop sleep past one: while it waits, no countdown is over  *)
(* for longer than the executor may be late (`next` is the shortest        *)
(* countdown whenever a race is begun).                                    *)
NeverOversleeps == at = "race" => \A e \in timers : lag <= e.left + Late

(* run() loses no event: the internal queue is drained before a race is    *)
(* begun, so that what comes off the channel always finds room in it.      *)
NoEventLost ==
  [][Len(channel') < Len(channel) => queue' = Append(queue, Head(channel))]_runVars

Pending(e) == e \in Range(channel) \cup Range(queue)

(* Every event sent to a running machine, or emitted by its actions, is    *)
(* handled, however many timers come due.                                  *)
EventsAreTaken ==
  \A e \in Event : at # "outside" /\ Pending(e) ~> (at = "outside" \/ ~Pending(e))

(* Every timer armed in a running machine fires, or its state is left.     *)
TimersFire ==
  \A p \in Owned : at = "race" /\ Armed(p) ~> (at = "outside" \/ ~Armed(p) \/ age[p] = 0)

(* Without a channel, run() returns before the machine is terminated only  *)
(* when nothing can happen any more: no timer runs, no event is queued and *)
(* no active state has an activity (the break of the timer-only loops).    *)
EndsWhenNothingIsLeft ==
  [][outcome' = "Ok" /\ at # "outside" /\ ~terminated =>
       timers = {} /\ queue = <<>> /\ \A s \in Range(active) : Durings[s] = {}]_runVars

-----------------------------------------------------------------------------
(* The invariants the proofs use.                                          *)

(* If actions take no time, time is only counted while the loop waits, and *)
(* what a timer has left, less what the next step will count, and the time *)
(* it has run make up exactly its duration: whatever wins the races, every *)
(* moment of them is counted, and counted once (last_instant and step's    *)
(* elapsed time).  A countdown that is over goes no further down.          *)
CountdownsHold ==
  /\ at \notin {"race", "woken"} => lag = 0
  /\ \A p \in Owned : \A e \in Slot(timers, p[1], p[2]) :
       IF e.left = 0
         THEN DurationFor[p[2]] + lag <= age[p]
         ELSE DurationFor[p[2]] + lag = age[p] + e.left

(* The loop waits only with nothing to do.                                 *)
RaceIsQuiet == at = "race" => queue = <<>> /\ ~terminated /\ call = "none"

-----------------------------------------------------------------------------
(* docs/002: an overflow is never silently swallowed, the runtime surfaces *)
(* it out of run(): a run that returns Ok had no emit refused.             *)
OkMeansNothingRefused == [][outcome' = "Ok" /\ at # "outside" => ~refused]_runVars

(* docs/002: a during runs while its owning state is on the active path.   *)
DuringsOfActiveRun ==
  at = "race" => RacedDurings(current) = UNION {Durings[s] : s \in Range(active)}

=============================================================================
