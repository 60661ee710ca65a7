# hsmc: a TLA+ verification project

`hsmc` is a Rust library for hierarchical state machines. A `statechart!`
macro (`hsmc-macros`) parses a chart, lowers it to an intermediate
representation, validates it and generates a machine: constant tables and the
code of `step()`, `send()`, `dispatch()` and `run()`. A small runtime (`hsmc`)
supplies the timer table, the event queue and the journal. This directory
holds models of that code, the TLC runs that check them and the TLAPS proofs
about them. Line numbers are those of the modelled commit; `PROJECT.json`
maps every definition to its lines.

## Inventory

| Component | State | Operations | Hard behaviour | What makes it correct |
|---|---|---|---|---|
| Timer table (`hsmc/src/lib.rs`, `TimerTable`) | bounded vector of (state, trigger, ns left) | start, cancel_state, cancel_one, decrement, pop_expired, min_remaining | full table, `swap_remove` order, simultaneous expiry, u64 range | one countdown per pair, no timer lost or left behind, each countdown exact, innermost first |
| Queue and emit proxy (`lib.rs`, `EmitProxy`; generated code) | deque of `__QN` events, sticky overflow flag | send, emit, pop, clear, take_overflow | full queue inside an action, flag outliving its call | FIFO, no silent loss |
| Generated machine (`codegen.rs`, 2400-3347) | current, queue, timers, terminated, overflow | step, send, dispatch | user actions run and emit in the middle of a transition; defaults that chain sideways and upwards; termination with events pending | the configuration is a path of the tree; timers belong to active states; dispatch reports what it lost; termination is clean and final |
| Generated tables (`codegen.rs`, 132-366, 1204-1640) | constants | path, terminate, dispatch and timer tables | up, self and lateral transitions; bubbling; capacity; `u16` offsets into one array | exits innermost first, entries outermost first, nothing above the common ancestor touched; every slice decodes to the path of its pair |
| Parser (`parse.rs`) | the open states and their bodies | one per keyword, opening and closing a state | nesting, repeated declarations | ids in preorder, each state in its parent |
| IR lowering (`ir.rs`) | actions, events, durations | interning, target classification, name resolution | interning at first use must make one picture of all uses | the verdict is that of the declarations, whichever use of a name comes first (with one exception, `E()`); no payload falls through |
| Chart validation (`validate.rs`) | the marks of a graph walk | the walk of the defaults, the rules | default cycles, chains that join | accepted charts have no default cycle and run as they read |
| Run loops, senders (`codegen.rs`, 1690-2245) | last_instant, next, event channel | run, send, try_send | race of channel, sleep and durings; action time; channel full or closed | timers neither early nor starved, no event lost |
| Durings (`codegen.rs`, 383-760) | futures of the active path | polled and dropped by run | dropped when another arm wins | run while their state is active |
| Journal (`journal.rs`, observe macros) | list of records | push, take, clear | hooks scattered over the handlers, order against the actions | a replay tells what the machine is; begins and ends pair up |
| Rendering, hash | none | pure functions of the source text | | |

How they interact: the caller, or a run loop, calls `step(elapsed)`. A step
does one unit of work: enter the root (first call), or count the timers down
and fire one, or handle one event. Handling calls user actions, which emit
through the proxy into the same queue, and then walks a transition, which
calls the exit and entry actions of the states on its path, cancels and starts
their timers, and follows defaults. `dispatch` pushes one event and steps until
the queue is empty. The timer table is called by step, by exits and by entries.

## Modules

| Module | Models |
|---|---|
| `TimerSet` | the timer table as operators on a set of timers |
| `Vectors` | `Retain`: what `Vec::retain` and `filter` leave of a vector |
| `TimerPromise` | the same as a state machine: what the table promises |
| `TimerTable` | the vector of the runtime, operation by operation |
| `Chart` | the tables codegen derives from a chart |
| `Machine` | the generated machine between two user actions, with send, step and dispatch |
| `Statechart` | what a chart means: one reaction, one step |
| `Semantics` | `Machine` as an implementation of `Statechart`: EXTENDS the one, INSTANCEs the other |
| `Cancel` | `Machine` whose calls may be dropped at any await |
| `Journal` | `Machine` with its observation hooks and a reader of the records |
| `RunLoop` | `run()`: EXTENDS `Machine` with channel, clock, race and durings |
| `Parser` | reading a `statechart!` invocation |
| `PathTables` | `Chart` with the layout of the path tables in memory |
| `Compiler` | the macro: EXTENDS `Parser`, lowers, resolves, validates, INSTANCEs `PathTables` |
| `Machine_proofs` (of `Machine` and `Cancel`), `Semantics_proofs`, `Journal_proofs`, `RunLoop_proofs`, `TimerTable_proofs`, `Compiler_proofs`, `Tables_proofs` | theorems and their proofs |
| `Induction` | lemmas: induction over positions and trees, folds, concatenation, division |
| `MCTimerTable`, `MCMachine`, `MCShared`, `MCJournal`, `MCCancel`, `MCRunLoop`, `MCTimersOnly`, `MCCompiler` | instances for TLC |

`TimerTable` is shown to implement `TimerPromise` (refinement mapping: the
range of the vector), so `Machine` uses the set operators of `TimerSet` and its
results hold for any order the vector may leave the timers in.

### Machine

One behaviour of `Machine` interleaves the API calls of the machine's owner
with the code of the call in progress; `&mut self` makes calls exclusive, so
`call` names the one running and `phase` the place in its code:

| phase | code |
|---|---|
| idle | no call in progress |
| drain | `while !self.queue.is_empty()` of dispatch |
| handler | `run_handlers`, running `acts` |
| path | `apply_path` or `do_terminate` between two states |
| exiting, entering | the exit or entry actions of the head of `exits` / `enters` |
| arming | `timers.start` for its owned timers |
| defaults | the head of `follow_defaults`' loop |
| return | about to return to the caller, or to dispatch's loop |

A user action is `Head(acts)` while it runs: `Emit` may happen any number of
times, then `ActionReturns`. So every interleaving of emits with the exits and
entries of a transition is explored. The sync and async copies of the functions
are one model: they differ in `.await` only. `dispatch` exists in async builds.

`current`, `queue`, `timers`, `terminated`, `overflow` are the struct's fields;
`acts`, `target`, `exits`, `enters`, `arms` the locals of the functions on the
stack. `active`, `fired`, `refused`, `origin` are history variables that the
properties compare the fields with: nothing reads them in a guard.

The chart is given by the constant tables, with the assumptions `TableTypes`,
`RootPath`, `PathsAreClosed`, `PathTables` and `SharedStays`: the path of every
state on a path is the rest of that path; for each pair of states the exit slice
is a prefix of the current path whose rest, extended by the enter slice, is the
target's path, and holds nothing the two share. TLC evaluates them for the
tables `Chart` computes from the charts of the runs, and `TablesServeTheMachine`
checks them of every tree the `compile` run generates.

### Statechart and Semantics

`Statechart` has no paths, no locals and no user actions: the chart is in `place`,
takes an event of its `inbox` or a timer, and moves in one step to where the
target's defaults end (`Settled`). `Semantics` maps the machine to it: a reaction
in progress is `goal` while its actions run, and it happens (`Move`) when the
machine sets out on the path; from then on `place` is where the path will end,
whatever is exited, entered or emitted meanwhile. `Settled` is given by what
follow_defaults does at each state (`SettledRule`), including the default that
leads upwards and therefore ends there.

### Cancel

In async builds the future of `step()` or `dispatch()` can be dropped; all its
awaits are those of user actions. `DropCall` forgets the locals and keeps the
fields. What can happen then, and is no violation of a promise the
documents make: the event is lost, events are dispatched from a state that was
exited already, exit actions run a second time, parents of the active states may
be missing, and the journal may record a second `Started`. What cannot is the
subject of the properties: a state, or a timer, that escapes the path of
`current` and would never be exited.

### Journal

Every action of `Machine` with the records its hooks push. The journal grows
without bound, so the model keeps `reader`, what all records so far tell a
reader who knows nothing else: the path, the armed timers, the running durings,
the markers still open, and whether every record came where the documentation of
`TraceEvent` lets it come. `handling` and `open` are the locals the hooks use.
`HandlersAreAround` says of the dispatch table what compute_event_dispatch computes:
a handler is the current state's or that of a state around it.
`TimerArmed` is pushed whatever `start()` did, so `JournalTells` holds only while
no start is refused, which `EveryTimerRuns` is about.

### Parser, Compiler and PathTables

The source text is the environment's choice, declaration by declaration; a
behaviour is one invocation of the macro. `Compiler` then takes the uses of actions
and triggers in the order lower_body meets them and interns each, resolves names
(the later of two states with one name, the root before both), walks the defaults
with three colours, applies the rules of validate, and generates: the tables are
`PathTables` of the resolved tree, and a panic if an offset does not fit. An
interned thing is its name; its id, the position of its first use, is not
observable. A rejected invocation stops, as does one that is done.

`Generate` is left out of the fair action only because TLC would compute all tables
whenever it asks whether the action is enabled; nothing about it can block.

### Chart

`Chain` is `__TERMINATE_DATA`, `ExitOf`/`EnterOf` the `compute_one` of
`compute_transition_paths` (self, up and lateral), `Bubble` the walk of
`compute_event_dispatch`, `HandlerOf` the grouping by trigger, `OwnedTable` the
owned timers and `MaxTimers` the capacity of the timer table.

### RunLoop

`run()` owns a machine: every action of `RunLoop` is an action of `Machine`, or
leaves the machine alone, together with what the loop does. `at` is the place in
the code of `run()`:

| at | code |
|---|---|
| outside | no `run()` in progress: the owner may send |
| first | in the step before the loop |
| begun | after it; `last_instant` is taken now |
| check | the top of the loop: terminated, overflow, queue, nothing left |
| race | in `select`: channel, sleep, durings |
| woken | the race is over, the event (if any) sent to the machine |
| stepping | in `step(now - last_instant)`, `last_instant` moved before |

`next` is the local of that name, `lag` the time since `last_instant`, `slept`
the time since the race began, `channel` the events of the senders, `outcome`
what the last `run()` returned. `age` is history: per timer, how long a `run()`
has waited since it was started.

The bodies for tokio and embassy, with and without channel, are one model with
constants: `HasChannel` (the chart declares events), `Biased` (the race is
polled in order, channel before sleep), `IdleSleep` (an hour with tokio, no limit
with embassy), `Durings` and `Yields` (activities of
states and what they complete with). `ActionTime` is how long the actions of one
step may take, `Late` how late the executor may wake a sleeping task. `MaxLag`
and `ChannelCap` are bounds (`ChannelCap` is a real capacity with embassy).

A losing future is dropped: what it had received is still in the channel, and
the time it slept is still in `lag`. `Drop` drops `run()` itself while it waits;
`last_instant` is a
local and lost with it, so the time this race had waited counts for no timer and is
taken off every `age`. Dropping it inside an action is not modelled. The arm for a closed channel is
not there: the machine holds a sender itself, so the channel never closes.
Between two runs the owner sends; his own `step` and `dispatch` are `Machine`'s.
Time does not pass outside of `run()`, where nobody counts it.

## Runs

| Run | Shows | Bounds |
|---|---|---|
| `machine` (pass) | the configuration is a path, also between exits and entries; `current` names it at rest; timers only of active states; every declared timer armed; common ancestors untouched; clean and final termination; Ok of dispatch means drained, nothing refused and no timer due; every call returns; the journal can be read, tells what the machine is and is balanced at rest; refinement of `Statechart` | 7 states, 3 events, 2 timers, queue of 2, 3 durings |
| `cancelled` (pass) | however often calls are dropped: nothing outlives the path of `current`, no state is active twice, timers and termination stay clean | as `machine` |
| `compile` (pass) | the macro rejects exactly what is not `Legal`, in which order counts only for the clauses of a state on one trigger and for an action bound to a payload without fields; no payload falls through; clauses run as they read; the stored offsets decode to the paths `Machine` assumes; a verdict is always reached | up to 4 states; 3 declarations with up to 3 states, 2 with 4; offsets up to 26 |
| `timer_table` (pass) | one entry per pair, nothing lost, every countdown exact, refinement of `TimerPromise` | 3 slots, 4 pairs, counter of 4 values |
| `run_loop` (pass) | every moment of waiting counted exactly once; timers neither early nor slept past, none forgotten; no event lost, every event handled | 5 states, 2 events, 2 timers, queue of 1, channel of 2 |
| `run_timers` (pass) | a loop without a channel ends exactly when nothing is left, also when actions take time | 6 states, 3 timers |
| `timer_ties` (violation) | order of simultaneous timers, see findings | 3 slots, 3 pairs |
| `shared_duration` (violation) | the child's timer does not start | 3 states, 1 slot |
| `overflow_is_own` (violation) | the overflow flag outlives its call, see findings | as `machine` |
| `run_action_time`, `run_swallows`, `run_durings` (violation) | the run loop, see findings | as `run_loop` |

The chart of `machine` has a self-transition (of the root), up-transitions (an
event and a default), a lateral and a descending transition, a default to a
sibling, to a child and to an ancestor, a handler with an action and a target, a
bubbled event, an unhandled one, a repeating timer, a one-shot shared by two
states, and actions that emit while handling, entering, exiting and
terminating. A queue of 2 is enough to overflow from the outside, from inside
an action, and to leave the flag behind. The counter range of 4
(`NsLimit`) exceeds both durations, so that no timer wraps in this run; elapsed
times of 1 and 2 make timers expire alone and together.

The runs have 8,919 (`machine`), 14,696 (`cancelled`) and 641,928 (`compile`) distinct
states.

In `compile` an action may be used as an entry, with events without payload and
with payloads (`E(x: X)`, `E { y: Y }`, `E()`, and another event), and with a timer
that repeats; names repeat, are missing, or are those of the chart; defaults form
chains that join, cycles and self-loops. Two declarations are what a conflict
takes, a third makes their order and what lies between them matter, and three
states with defaults make a cycle that does not include its start; for four states,
which make the deepest paths, two. `MaxOffset` is `u16::MAX` scaled down to 26,
which three states fit and some trees of four do not.

In `timer_table` four pairs compete for three slots, so a push is refused; the
durations 1 to 3 stay within the counter.

In `run_loop` two timers of nested states run together while the channel, a
sender and two activities compete with them; one state has no timer, so the loop
also sleeps without one; leaving it emits, which with a queue of 1 overflows,
mid-loop and in a termination. Durations are 1 and 2, the executor is late by at
most 1, so `MaxLag` = 3 is never the limit (idle sleep 2 and 1 late). Each event
is pending at most once. In `run_timers` the durations are 2, 3 and 4, an action
takes at most 1, and how late the loop is woken decides whether the chart ends
with nothing left or in a state with an activity; `MaxLag` is 7. In both
`NsLimit` exceeds every time. No chart of `run_timers` has an up-transition:
with one, the loop may end although an active state has an activity, which is
the finding of `run_durings`.

Deadlock is checked everywhere but in `compile`, where the macro stops: a caller
can always send or step, even a terminated machine, which answers.

Fairness: `WF_vars(Internal)`, the code of a call in progress keeps running and
the user's actions return. Nothing is assumed of callers. `CallReturns` holds
for this chart because its actions do not feed each other events for ever; a
chart that emits from the handler of the same event makes `dispatch` run for
ever, and so does `every` with a zero duration (hazard list).

`JournalSpec` assumes the same, as a hook never blocks. `Compiler` assumes
`WF_vars(Check)`: the passes of the macro run on once the source is read.

`RunFairSpec` assumes that the loop's code goes on (`WF LoopCode`), that time
passes (`WF Tick`), that a sleep which is over ends (`SF SleepWins`, since a
woken task is polled although events arrive) and that a received event is taken
(`SF Receive`). The last is an assumption about the chart: in a biased race the
durings are polled first, and one that is ready at every poll starves the
channel, which docs/003 states as a limit. Nothing is assumed of senders,
activities or of the owner.

## Proofs

`Machine_proofs` proves for every chart that satisfies the table assumptions,
every queue and timer capacity:

- `MachineInvariantHolds`: `TypeOK /\ MachineInvariant`, the inductive invariant
- `TypeCorrect`, `ConfigurationIsPath`, `PathAtEveryMoment`, `NoStaleTimer`,
  `TerminationIsClean`: its consequences
- `TerminationIsFinal`, `DispatchOkIsComplete`: action properties
- `DispatchIsQuiescent`: the same for due timers, if no duration is zero or wraps
  to zero (`PositiveDurations`)

`ActiveMatchesCurrent` alone is not inductive: it says nothing while a path is
walked. `OnTheWay` does: `active` is what is still to exit followed by what
stays, and the target's path is what is still to enter, innermost first, on
the same rest. Exits move the head of `exits` off `active`; entries move the
head of `enters` onto it (`ReverseStep`, `HeadOfEnters`); at the end `active`
is the target's path. Timers follow because exits cancel before they pop and
entries arm before they push. `Control` says which phases exclude which calls,
and gives finality. `DispatchOkIsComplete` adds `RefusalIsFlagged`: a refused
emit leaves the flag set until dispatch looks at it. `DispatchIsQuiescent` adds
`DueIsPending`: inside a dispatch, a timer is due only while an event is queued,
because an event is taken only when no timer is due.

It ends with two results about whole transitions:

- `CommonAncestorsStay`: the part of the configuration a path never exits
  (`Untouched`) includes what its ends share, from `SharedStays` at its begin and
  unchanged by exits and entries (`SharedIsUntouched`)
- `EveryTimerRuns`: `OwnedTimersArmed`, if the timers declared along every path of
  the tree fit the table (`EveryPathFits`). What is armed is declared on the path
  being entered, one entry per pair, and the pair to arm is not among it, so by
  counting there is room (`RoomFor`); a repeating timer that restarts has just
  given up its slot (`RoomAgain`). The hypothesis is needed: `shared_duration` is a chart without
  it, and `max_timers` does not imply it. TLC evaluates it for `MCMachine`'s chart.

`Semantics_proofs` proves `MachineImplementsStatechart`: `Spec` implements
`Statechart` under the mapping of `Semantics`, with two assumptions about the
constants, `UpEntersNothing` (the enter slice is empty exactly for a strict
ancestor) and `SettledRule`. `HandlerDone` is the step, or a default that goes on;
every later action of the transition is a stutter since `place` is a function of
what is left of the path.

About `Cancel`, `Machine_proofs` proves `CancelInvariantHolds` and its consequences
(`NothingOutlives`, `EntriesDescend`, `NoStaleTimerAfterCancel`,
`TerminationIsCleanAfterCancel`) for any number of dropped calls.
`MachineInvariant` does not survive a drop; in its place `CancelOnTheWay` bounds
`active` from above: what the locals still have to leave, followed by what is
reached of the target's path, is itself a path and covers all that is active.
`EnteredInOrder` is inductive with it, because what is about to be entered lies
below everything on the path it is entered onto.

`Journal_proofs` proves, for every chart and whatever its actions emit:

- `JournalInvariantHolds`: `JournalInvariant`, which is inductive with
  `MachineInvariant`
- `JournalAlwaysReads`, `JournalAlwaysSettles`: its consequences
- `JournalAlwaysTells`: a replay has the machine's path, timers and activities, if
  the declared timers fit the table (`EveryPathFits`)

That every record comes where it may is not inductive: whether an end marker may
come depends on which markers are open. `JournalInvariant` names these for every
control state: the entry or exit under way (`Marks`), within the transitions whose
end is due (`Due`: at most a default within the transition of an event or timer,
`OpenShape`), or within the request to terminate (`Ground`). `Read` is
folded over what a hook pushes; `ReadInTurn` reads it record after record, with a
lemma for each kind of record that says when it may come and what it tells, and one
for each action that puts them together. Cancellations name all timers a state
declares, so that no armed timer is left untold without any hypothesis; that a timer
told to be armed is armed takes `RoomFor` and `RoomAgain` and their hypothesis, as a
refused start is told all the same.

`RunLoop_proofs` proves, for every chart, every set of activities and every
constant of the loop:

- `RunImplementsMachine`: `RunSpec => Spec`, so that all of the above holds under
  `run()`
- `RunTypeCorrect`: types; the least countdown exists, so `next` is a duration
- `RunLosesNoEvent`: an event off the channel is put into the queue, if `QueueCap`
  is not zero; by `LoopControl`, which says where a step is running and that the
  loop waits only with an empty queue
- `RunCountsOnce`, `RunIsNeverEarly`, `RunNeverOversleeps`: if actions take no time
  (`ActionTime = 0`) and durations and waits fit the counter (`ShortTimes`)

The last three rest on `Countdowns`: per armed timer, duration plus time not yet
counted equals its age plus what it has left (or is at most its age, once its
countdown is over), no countdown is longer than its timer, a timer that is not armed
has no age, and the table holds one entry per pair. Waiting adds one to both sides; a
step moves `lag` from one side to the other, a drop takes it off both; a start makes
both the duration. A timer is taken with at most `lag` left, so its age is at least
its duration. `SleepsAtMost` adds that `next` is the
shortest countdown whenever a race begins. `run_action_time` shows that
`ActionTime = 0` is needed, and the wrap of `Nanos` that `ShortTimes` is.

`TimerTable_proofs` proves, for every capacity, set of states and set of durations:

- `TableInvariantHolds`, and of it `TableTypeCorrect`, `OneCountdownPerPair`,
  `NoTimerLost`: the vector holds exactly the armed pairs, each once
- `TimersRunOnTime`: every entry has the time left its own pair should have, if the
  durations fit the counter (`DurationsFit`, which a wrapping duration violates)
- `TableImplementsPromise`: the refinement of `TimerPromise`, operation by operation

`Retain` builds its result position by position; `RetainKeeps` says which entries it
lists and in which order, and what follows uses only what it shares with
swap_remove (`Rearranges`): it loses no survivor and repeats none.

`Compiler_proofs` proves, for an invocation of any size (any tree, any clauses):

- `CompilerTypeCorrect`: `SourceOK`, `LoweringInv`, `VerdictInv` and the types
- `RejectsExactlyTheIllegal`: lowering, resolving, walking and validating in
  declaration order reject exactly what `Legal` does not allow. `Legal` speaks of
  order twice: nothing follows a transition in a state's clauses on one trigger, and
  a payload without fields comes before every other use of its action. In one
  direction every refused use disagrees with one that was asked for before it
  (`Provenance`), or is an `E()` that comes too late; in the other every use that is
  done agrees with what is interned (`Interned`). An action without parameters is
  interned alike by `E` and by `E()`, so what came first needs positions:
  `LoweredInOrder` says how far lowering has come, that an action is interned exactly
  if one of the uses so far is of it, and that none of those is an `E()` that comes too late.
  The default walk's marks are sound because a closed set of states that all end
  cannot hold a cycle (`WalkOK`).
- `PatternsAlwaysFit`, `PayloadsAlwaysReachActions`

`Tables_proofs` goes on to what is emitted:

- `TablesAlwaysDecode`: every slice fetched through the offsets is the path it
  should be. The chain of a state is the tree's recursion (`TreeRecursion`), the
  climb to the common ancestor finds the deepest shared state (`LcaIsDeepest`), and
  a slice of a concatenation at the sum of the lengths before it is the piece
  (`FlattenSlice`).
- `TablesAlwaysServe`: the tables of every accepted chart satisfy `RootPath`,
  `PathsAreClosed`, `PathTables` and `SharedStays`, which the theorems about `Machine`
  assume of its constants. So these assumptions are no restriction.
- `AlwaysReadsAsItRuns`: nothing follows a transition in a state's clauses on one
  trigger, after resolution as before it

Recursive definitions are recursive functions, folds over positions or
`FlattenSeq`. The library's induction theorems take an operator as a parameter, which
these provers cannot instantiate. `Induction` states what is needed with sets
instead: `UpTo` (a set of numbers that holds 0 and, with n - 1, n) follows from the
least-element principle, and `Iteration`, `TreeRecursion` and the `Flatten` lemmas
from it.

Only model-checked: `EndsWhenNothingIsLeft`, which holds of charts without
up-transitions and needs an invariant of its own, and the liveness properties
`CallReturns`, `EventsAreTaken`, `TimersFire` and `CompileEnds` (liveness is out of
the prover's reach).

## Findings

Six places where a doc, comment or test and the code disagree are in
`PROJECT.json` with the run that shows each. In short: a duration text used by
a state and its ancestor shares one timer slot and the second timer never
starts; simultaneous timers of one state do not always fire in the order
promised; the overflow flag outlives the tick and the call it belongs to; under
`run()` a timer started after a slow action fires early by the action's time, an
emit refused while terminating is reported by nobody, and after a transition up to
a state with a default child no activity is polled.

Met while modelling, without a run:

- `hsmc/src/lib.rs:819` promises that an over-long duration is cut to the
  counter's ceiling, while `as u64` wraps (lines 836-840 say so).
- `docs/002. hsmc-semantics-formal.md:206-208` says that the longest-armed of
  simultaneous timers fires first, while `pop_expired` prefers the innermost state.
- Exit actions of a terminating machine may emit and are answered Ok; the comment at
  `codegen.rs:2365-2369` says otherwise. The events are cleared (`TerminatedIsClean`).
- A substate with the chart's own name is shadowed by the root in
  `resolve_transitions` (`ir.rs:531`); validate does not compare the two.
- A leaf that declares only `default(T)` is rejected as empty, while the comment at
  `validate.rs:277-283` says that it "just transitions to T on every entry"; the
  comment at `validate.rs:98-103` says that a default must be a direct child,
  which is checked nowhere.
- `current_state()` panics when the machine rests in the root (`codegen.rs:2549`),
  where an up-transition to the chart's name may lead.
- After a refused start the journal records `TimerArmed` all the same.
- `on(E()) => work` is accepted if it is the first use of `work`, and later ones
  without a payload are too (`ir.rs:219` looks at the parameters only). As a later use
  it is rejected (`ir.rs:247`), also after another `on(E())`, with a text that says
  `work` "was previously declared without bindings". `Legal` says this in
  `EmptyPayloadsComeFirst`, so that the verdict is exact with `E()` too.
- `TimerCancelled` is recorded for every timer a state declares when it is left, also
  for a one-shot that has fired or was never started (`codegen.rs:3239`), while
  `journal.rs:147` says "A timer was cancelled because its owning state is being
  exited". `Expected` follows the code.

## Plan

Done: timer table, machine, run loop, the compile pipeline with its tables, the
journal, the statechart and its refinement, dropped calls, and the theorems above.
Left:

1. The owner's `step` and `dispatch` between two runs of `run()`; dropping `run()`
   inside an action, by composing `Cancel` with `RunLoop`.
2. `every(0)`: a run that shows which calls still return.
3. Durings as futures: what one had done when another arm won the race.
4. Proof: `EndsWhenNothingIsLeft`.

## Not modelled

In the macro: the token grammar, the context, events and trace lines of the root
and the rejection of bare numbers as durations (each a check of one place), error
texts and spans, rendering and hash (constants), the text of the generated code.
At run time: the contents of events and context (actions are opaque: they emit, or
not), `take_journal` and `clear_journal`, the rendering of records as log lines,
the clock's units (embassy counts and sleeps in whole microseconds), the `u8`
depth. Of the verification crate, `timer_table.rs` and `event_queue.rs` are copies,
for another verifier, of what is modelled from the code that runs. Examples and
benches are charts that use the library.
