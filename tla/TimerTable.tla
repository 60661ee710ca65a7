----------------------------- MODULE TimerTable -----------------------------
(***************************************************************************)
(* The runtime's timer table (hsmc/src/lib.rs, __private::TimerTable): a   *)
(* bounded vector of entries, with the order the vector operations leave   *)
(* them in.  `pop_expired` scans for the deepest expired entry and removes *)
(* it with swap_remove, which moves the last entry into the hole.          *)
(*                                                                         *)
(* `armed` and `due` are history variables: the armed pairs, oldest first, *)
(* and what a clock that never wraps has left to count for each.           *)
(***************************************************************************)
EXTENDS Naturals, Sequences, FiniteSets, SequencesExt, Vectors

CONSTANTS State, Trigger, Depth, Capacity, NsLimit, Owned, Durations, None

ASSUME TableAssumption ==
  /\ Depth \in [State -> Nat]
  /\ Capacity \in Nat
  /\ NsLimit \in Nat \ {0}
  /\ Owned \subseteq State \X Trigger
  /\ Durations \subseteq Nat

VARIABLES
  entries,  \* heapless::Vec<TimerEntry, N>
  popped,   \* result of the last pop_expired
  armed,    \* history: the pairs in the table, oldest first
  due       \* history: per pair, its duration less the time elapsed since

vars == <<entries, popped, armed, due>>

(* The abstract table this one implements. *)
Abstract == INSTANCE TimerPromise WITH timers <- Range(entries)

-----------------------------------------------------------------------------
TypeOK ==
  /\ entries \in Seq(Abstract!Timer) /\ Len(entries) <= Capacity
  /\ popped \in Abstract!Timer \cup {None}
  /\ armed \in Seq(Owned)
  /\ due \in [Owned -> Nat]

Init ==
  /\ entries = <<>> /\ popped = None
  /\ armed = <<>> /\ due = [p \in Owned |-> 0]

Entry(s, t, d) == [state |-> s, trigger |-> t, left |-> Abstract!Nanos(d)]

PositionsOf(s, t) ==
  {i \in DOMAIN entries : entries[i].state = s /\ entries[i].trigger = t}

(* Mutant: an armed pair is found and left as it is. *)
RestartKeepsCountdown(s, t, d) ==
  /\ PositionsOf(s, t) # {}
  /\ popped' = None
  /\ due' = [due EXCEPT ![<<s, t>>] = d]
  /\ UNCHANGED <<entries, armed>>

(* An armed pair keeps its place in the vector when it is restarted. *)
Restart(s, t, d) ==
  /\ PositionsOf(s, t) # {}
  /\ entries' = [entries EXCEPT ![Min(PositionsOf(s, t))] = Entry(s, t, d)]
  /\ popped' = None
  /\ due' = [due EXCEPT ![<<s, t>>] = d]
  /\ UNCHANGED armed

(* Mutant: the capacity is off by one. *)
PushNewPastCapacity(s, t, d) ==
  /\ PositionsOf(s, t) = {}
  /\ Len(entries) <= Capacity
  /\ entries' = Append(entries, Entry(s, t, d))
  /\ popped' = None
  /\ armed' = Append(armed, <<s, t>>)
  /\ due' = [due EXCEPT ![<<s, t>>] = d]

(* Mutant: the vector is not searched for the pair first. *)
PushNewAgain(s, t, d) ==
  /\ Len(entries) < Capacity
  /\ entries' = Append(entries, Entry(s, t, d))
  /\ popped' = None
  /\ armed' = Append(armed, <<s, t>>)
  /\ due' = [due EXCEPT ![<<s, t>>] = d]

PushNew(s, t, d) ==
  /\ PositionsOf(s, t) = {}
  /\ Len(entries) < Capacity
  /\ entries' = Append(entries, Entry(s, t, d))
  /\ popped' = None
  /\ armed' = Append(armed, <<s, t>>)
  /\ due' = [due EXCEPT ![<<s, t>>] = d]

(* `let _ = self.entries.push(..)`: the timer is not armed, nobody is told. *)
PushRefused(s, t) ==
  /\ PositionsOf(s, t) = {}
  /\ Len(entries) = Capacity
  /\ popped' = None
  /\ UNCHANGED <<entries, armed, due>>

Start(s, t, d) == Restart(s, t, d) \/ PushNew(s, t, d) \/ PushRefused(s, t)

(* Mutant: only the first timer of the state is found and removed. *)
CancelFirst(s) ==
  /\ LET mine == {i \in DOMAIN entries : entries[i].state = s}
     IN  entries' = IF mine = {} THEN entries ELSE RemoveAt(entries, Min(mine))
  /\ popped' = None
  /\ armed' = Retain(armed, {i \in DOMAIN armed : armed[i][1] # s})
  /\ due' = [p \in Owned |-> IF p[1] = s THEN 0 ELSE due[p]]

(* `retain` keeps the survivors in order. *)
CancelState(s) ==
  /\ entries' = Retain(entries, {i \in DOMAIN entries : entries[i].state # s})
  /\ popped' = None
  /\ armed' = Retain(armed, {i \in DOMAIN armed : armed[i][1] # s})
  /\ due' = [p \in Owned |-> IF p[1] = s THEN 0 ELSE due[p]]

CancelOne(s, t) ==
  /\ entries' = Retain(entries, DOMAIN entries \ PositionsOf(s, t))
  /\ popped' = None
  /\ armed' = Retain(armed, {i \in DOMAIN armed : armed[i] # <<s, t>>})
  /\ due' = [due EXCEPT ![<<s, t>>] = 0]

Decrement(d) ==
  LET ns == Abstract!Nanos(d)
  IN  /\ entries' = [i \in DOMAIN entries |->
                       [entries[i] EXCEPT !.left = IF ns < @ THEN @ - ns ELSE 0]]
      /\ popped' = None
      /\ due' = [p \in Owned |-> IF d < due[p] THEN due[p] - d ELSE 0]
      /\ UNCHANGED armed

ExpiredAt == {i \in DOMAIN entries : entries[i].left = 0}

DepthAt(i) == Depth[entries[i].state]

(* Mutant: the depth of the states is ignored. *)
FirstExpired == Min(ExpiredAt)

(* The scan replaces its candidate only by a strictly deeper one. *)
BestExpired ==
  Min({i \in ExpiredAt : \A j \in ExpiredAt : DepthAt(j) <= DepthAt(i)})

SwapRemove(seq, i) == Front([seq EXCEPT ![i] = Last(seq)])

PopExpired ==
  \/ /\ ExpiredAt # {}
     /\ entries' = SwapRemove(entries, BestExpired)
     /\ popped' = entries[BestExpired]
     /\ armed' = Retain(armed, {i \in DOMAIN armed :
                               armed[i] # <<popped'.state, popped'.trigger>>})
     /\ UNCHANGED due
  \/ /\ ExpiredAt = {}
     /\ popped' = None
     /\ UNCHANGED <<entries, armed, due>>

Next ==
  \/ \E p \in Owned, d \in Durations : Start(p[1], p[2], d)
  \/ \E s \in State : CancelState(s)
  \/ \E p \in Owned : CancelOne(p[1], p[2])
  \/ \E d \in Durations : Decrement(d)
  \/ PopExpired

Spec == Init /\ [][Next]_vars

-----------------------------------------------------------------------------
PairAt(i) == <<entries[i].state, entries[i].trigger>>

(* One countdown per (state, trigger): however starts, cancels and pops    *)
(* interleave, no pair is ever in the vector twice, so a restarted timer   *)
(* has no stale copy left to fire (TimerTable::start's replacement loop).  *)
OnePerPair ==
  \A i, j \in DOMAIN entries :
    PairAt(i) = PairAt(j) => i = j

(* The vector and the history agree on what is armed: swap_remove, retain  *)
(* and the replacement lose no live timer and leave none behind.           *)
NothingLost ==
  {PairAt(i) : i \in DOMAIN entries} = Range(armed)

(* No timer runs fast or slow: as long as no duration exceeds the range of *)
(* the counter, each entry has exactly its own time left, wherever         *)
(* swap_remove and retain have moved it and however often it was           *)
(* restarted, so it fires neither early nor late (start, decrement,        *)
(* pop_expired).                                                           *)
OnTime == \A i \in DOMAIN entries : entries[i].left = due[PairAt(i)]

(* Every operation of the vector is an operation of the abstract table. *)
ImplementsPromise == Abstract!Spec

-----------------------------------------------------------------------------
(* The history position of an armed pair. *)
Age(p) == CHOOSE i \in DOMAIN armed : armed[i] = p

(* The order the comment on pop_expired gives: among the expired timers of *)
(* the innermost state, the one armed first is returned first.             *)
TiesInOrder ==
  [][ popped' # None =>
        LET p == <<popped'.state, popped'.trigger>>
        IN  \A i \in ExpiredAt : DepthAt(i) = Depth[popped'.state]
                                   => Age(p) <= Age(PairAt(i)) ]_vars

=============================================================================
