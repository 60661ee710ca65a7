--------------------------- MODULE Machine_proofs ---------------------------
(***************************************************************************)
(* Proofs about Machine, and about Cancel, which abandons its calls, for   *)
(* every chart whose tables satisfy the assumptions of Machine, every      *)
(* queue and timer capacity and every set of durations.                    *)
(*                                                                         *)
(* MachineInvariant is inductive together with TypeOK.  Its core is        *)
(* OnTheWay: while a path is walked, `active` is what is still to exit     *)
(* followed by what stays, and the target's path is what is still to enter *)
(* (innermost first) followed by the same rest.  BeginPath establishes it  *)
(* from the path tables, an exit moves the head of `exits` off `active`,   *)
(* an entry moves the head of `enters` onto it, and when both are empty    *)
(* `active` is the target's path.  The lemmas come in the order sequences, *)
(* paths, timers, types, one lemma per group of actions, theorems.  Cancel *)
(* follows at the end, with an invariant of its own.                       *)
(***************************************************************************)
EXTENDS Cancel, SequenceTheorems, FiniteSetTheorems, TLAPS

(* Popping the head of the first of two sequences. *)
LEMMA PopOfConcat ==
  ASSUME NEW S, NEW s \in Seq(S), NEW t \in Seq(S), s # <<>>
  PROVE  /\ s \o t # <<>>
         /\ Head(s \o t) = Head(s)
         /\ Tail(s \o t) = Tail(s) \o t
         /\ Head(s) \in S /\ Tail(s) \in Seq(S)
<1>1. Len(s) \in Nat \ {0} /\ Head(s) = s[1] /\ Head(s) \in S /\ Tail(s) \in Seq(S)
      /\ Len(Tail(s)) = Len(s) - 1
      /\ \A i \in 1 .. Len(Tail(s)) : Tail(s)[i] = s[i + 1]
  BY EmptySeq, HeadTailProperties
<1>2. s \o t \in Seq(S) /\ Len(s \o t) = Len(s) + Len(t) /\ Len(t) \in Nat
      /\ (s \o t)[1] = s[1]
  BY <1>1, ConcatProperties, LenProperties
<1>3. s \o t # <<>>
  BY <1>1, <1>2, EmptySeq
<1>4. Tail(s \o t) \in Seq(S) /\ Len(Tail(s \o t)) = Len(Tail(s)) + Len(t)
      /\ \A i \in 1 .. Len(Tail(s \o t)) : Tail(s \o t)[i] = (s \o t)[i + 1]
      /\ Head(s \o t) = (s \o t)[1]
  BY <1>1, <1>2, <1>3, HeadTailProperties
<1>5. Tail(s) \o t \in Seq(S) /\ Len(Tail(s) \o t) = Len(Tail(s)) + Len(t)
  BY <1>1, ConcatProperties
<1>6. ASSUME NEW i \in 1 .. Len(Tail(s \o t))
      PROVE  Tail(s \o t)[i] = (Tail(s) \o t)[i]
  BY <1>1, <1>2, <1>4, <1>5, ConcatProperties
<1>7. Tail(s \o t) = Tail(s) \o t
  BY <1>4, <1>5, <1>6, SeqEqual
<1> QED BY <1>1, <1>2, <1>3, <1>4, <1>7

(* What is in a sequence is its head or in its tail. *)
LEMMA RangeOfTail ==
  ASSUME NEW S, NEW s \in Seq(S), s # <<>>
  PROVE  \A a \in Range(s) : a = Head(s) \/ a \in Range(Tail(s))
<1>1. /\ Len(s) \in Nat \ {0} /\ DOMAIN s = 1 .. Len(s) /\ Head(s) = s[1]
      /\ Tail(s) \in Seq(S) /\ Len(Tail(s)) = Len(s) - 1
      /\ \A i \in 1 .. Len(Tail(s)) : Tail(s)[i] = s[i + 1]
  BY EmptySeq, HeadTailProperties, LenProperties
<1>2. DOMAIN Tail(s) = 1 .. Len(s) - 1
  BY <1>1, LenProperties
<1>3. ASSUME NEW i \in 1 .. Len(s), i # 1
      PROVE  s[i] \in Range(Tail(s))
  <2>1. i - 1 \in 1 .. Len(s) - 1 /\ i - 1 + 1 = i
    BY <1>1, <1>3
  <2>2. Tail(s)[i - 1] = s[i]
    BY <1>1, <2>1
  <2> QED BY <1>2, <2>1, <2>2 DEF Range
<1> QED BY <1>1, <1>3 DEF Range

(* An element put in front of a sequence. *)
LEMMA RangeOfPush ==
  ASSUME NEW S, NEW s \in Seq(S), NEW h \in S
  PROVE  /\ <<h>> \o s # <<>> /\ Head(<<h>> \o s) = h
         /\ Range(<<h>> \o s) = {h} \cup Range(s)
<1>1. <<h>> \in Seq(S) /\ <<h>> # <<>> /\ Head(<<h>>) = h /\ Range(<<h>>) = {h}
  BY DEF Range
<1>2. Range(<<h>> \o s) = Range(<<h>>) \cup Range(s)
  <2> DEFINE front == <<h>>
  <2>1. front \in Seq(S)
    BY <1>1
  <2> HIDE DEF front
  <2>2. Range(front \o s) = Range(front) \cup Range(s)
    BY <2>1, RangeConcatenation
  <2> QED BY <2>2 DEF front
<1> QED BY <1>1, <1>2, PopOfConcat

(* Reversal keeps the type and the length. *)
LEMMA ReverseProperties ==
  ASSUME NEW S, NEW s \in Seq(S)
  PROVE  /\ Reverse(s) \in Seq(S) /\ Len(Reverse(s)) = Len(s)
         /\ \A i \in 1 .. Len(s) : Reverse(s)[i] = s[Len(s) - i + 1]
BY LenProperties, ElementOfSeq DEF Reverse

(* What is left of an enter slice, outermost state first, on top of the    *)
(* path that is already active: moving its head over changes nothing.      *)
LEMMA ReverseStep ==
  ASSUME NEW S, NEW s \in Seq(S), NEW t \in Seq(S), s # <<>>
  PROVE  Reverse(s) \o t = Reverse(Tail(s)) \o (<<Head(s)>> \o t)
<1> DEFINE u == Tail(s)
           h == <<Head(s)>>
           n == Len(u)
<1>1. /\ Len(s) \in Nat \ {0} /\ u \in Seq(S) /\ n \in Nat
      /\ Len(s) = n + 1 /\ Head(s) \in S
      /\ \A i \in 1 .. n : u[i] = s[i + 1]
  BY EmptySeq, HeadTailProperties, LenProperties
<1>2. h \in Seq(S) /\ Len(h) = 1 /\ h[1] = s[1]
  BY <1>1
<1> HIDE DEF u, h
<1>3. Reverse(u) \in Seq(S) /\ Len(Reverse(u)) = n
      /\ \A i \in 1 .. n : Reverse(u)[i] = u[n - i + 1]
  BY <1>1, ReverseProperties
<1>4. Reverse(s) \in Seq(S) /\ Len(Reverse(s)) = Len(s)
      /\ \A i \in 1 .. Len(s) : Reverse(s)[i] = s[Len(s) - i + 1]
  BY ReverseProperties
<1> HIDE DEF n
<1>5. /\ Reverse(u) \o h \in Seq(S) /\ Len(Reverse(u) \o h) = n + 1
      /\ \A i \in 1 .. n + 1 : (Reverse(u) \o h)[i] =
           IF i <= n THEN Reverse(u)[i] ELSE h[i - n]
  <2>1. Reverse(u) \o h \in Seq(S) /\ Len(Reverse(u) \o h) = Len(Reverse(u)) + Len(h)
    BY <1>2, <1>3, ConcatProperties
  <2>2. ASSUME NEW i \in 1 .. n + 1
        PROVE  (Reverse(u) \o h)[i] = IF i <= n THEN Reverse(u)[i] ELSE h[i - n]
    <3>1. i \in 1 .. Len(Reverse(u)) + Len(h)
      BY <1>2, <1>3
    <3>2. (Reverse(u) \o h)[i] = IF i <= Len(Reverse(u)) THEN Reverse(u)[i]
                                                       ELSE h[i - Len(Reverse(u))]
      BY <3>1, <1>2, <1>3, ConcatProperties
    <3> QED BY <3>2, <1>3
  <2> QED BY <2>1, <2>2, <1>2, <1>3
<1>6. ASSUME NEW i \in 1 .. n + 1
      PROVE  Reverse(s)[i] = (Reverse(u) \o h)[i]
  <2>1. Reverse(s)[i] = s[n + 1 - i + 1]
    BY <1>1, <1>4
  <2>2. CASE i <= n
    <3>1. n - i + 1 \in 1 .. n /\ i \in 1 .. n /\ n - i + 1 + 1 = n + 1 - i + 1
      BY <2>2, <1>1
    <3>2. Reverse(u)[i] = s[n + 1 - i + 1]
      BY <3>1, <1>1, <1>3
    <3> QED BY <2>1, <2>2, <3>2, <1>5
  <2>3. CASE ~(i <= n)
    <3>1. i = n + 1 /\ i - n = 1 /\ n + 1 - i + 1 = 1
      BY <2>3, <1>1
    <3> QED BY <2>1, <2>3, <3>1, <1>2, <1>5
  <2> QED BY <2>2, <2>3
<1>7. Reverse(s) = Reverse(u) \o h
  BY <1>1, <1>4, <1>5, <1>6, SeqEqual
<1>8. Reverse(s) \o t = Reverse(u) \o (h \o t)
  BY <1>2, <1>3, <1>7, ConcatAssociative, SMTT(30)
<1> QED BY <1>8 DEF u, h

-----------------------------------------------------------------------------
(* Paths of the tree *)

(* Without its innermost state a path is the path of the next state.       *)
LEMMA TailOfPath ==
  ASSUME NEW p \in Seq(State), p # <<>>, p = TerminatePath[Head(p)], Tail(p) # <<>>
  PROVE  Tail(p) = TerminatePath[Head(Tail(p))]
<1>1. Len(p) \in Nat \ {0} /\ Head(p) \in State /\ Tail(p) \in Seq(State)
      /\ Len(Tail(p)) = Len(p) - 1
      /\ \A i \in 1 .. Len(Tail(p)) : Tail(p)[i] = p[i + 1]
  BY EmptySeq, HeadTailProperties
<1>2. Len(Tail(p)) \in Nat \ {0} /\ Head(Tail(p)) = Tail(p)[1]
  BY <1>1, EmptySeq
<1>3. 2 \in 1 .. Len(p) /\ Head(Tail(p)) = p[2]
  BY <1>1, <1>2
<1>4. TerminatePath[p[2]] = SubSeq(p, 2, Len(p))
  BY <1>1, <1>3, PathsAreClosed
<1> QED BY <1>3, <1>4, TailIsSubSeq

(* The next state of an enter slice sits on top of what is active.         *)
LEMMA HeadOfEnters ==
  ASSUME NEW x \in State, NEW s \in Seq(State), NEW t \in Seq(State), s # <<>>,
         TerminatePath[x] = Reverse(s) \o t
  PROVE  TerminatePath[Head(s)] = <<Head(s)>> \o t
<1> DEFINE front == Reverse(Tail(s))
           rest == <<Head(s)>> \o t
           n == Len(front)
           p == TerminatePath[x]
<1>1. front \in Seq(State) /\ rest \in Seq(State) /\ Head(s) \in State
  <2>1. Head(s) \in State /\ Tail(s) \in Seq(State)
    BY HeadTailProperties
  <2>2. <<Head(s)>> \in Seq(State)
    BY <2>1
  <2> QED BY <2>1, <2>2, ReverseProperties, ConcatProperties
<1>2. p = front \o rest
  BY ReverseStep
<1>3. /\ Len(rest) = 1 + Len(t) /\ rest[1] = Head(s)
      /\ Len(t) \in Nat /\ n \in Nat
      /\ Len(p) = n + Len(rest) /\ n + 1 \in 1 .. Len(p)
  <2>1. <<Head(s)>> \in Seq(State) /\ Len(<<Head(s)>>) = 1 /\ <<Head(s)>>[1] = Head(s)
    BY <1>1
  <2>2. Len(t) \in Nat /\ n \in Nat
    BY <1>1, LenProperties
  <2>3. Len(rest) = 1 + Len(t) /\ rest[1] = Head(s)
    BY <2>1, <2>2, ConcatProperties
  <2>4. Len(p) = n + Len(rest)
    BY <1>1, <1>2, ConcatProperties
  <2> QED BY <2>2, <2>3, <2>4
<1>4. p[n + 1] = Head(s)
  <2>1. p[n + 1] = rest[n + 1 - n]
    BY <1>1, <1>2, <1>3, ConcatProperties
  <2> QED BY <2>1, <1>3
<1>5. TerminatePath[p[n + 1]] = SubSeq(p, n + 1, Len(p))
  <2> HIDE DEF n, rest, front
  <2> QED BY <1>3, PathsAreClosed
<1>6. SubSeq(p, n + 1, Len(p)) = rest
  <2>1. SubSeq(p, n + 1, Len(p)) = SubSeq(rest, 1, Len(rest))
    BY <1>1, <1>2, <1>3, SubSeqOfConcat2
  <2> QED BY <2>1, <1>1, SubSeqFull
<1> QED BY <1>4, <1>5, <1>6

(* Both path tables of a transition share what it leaves alone.            *)
LEMMA PathsShareRest ==
  ASSUME NEW f \in State, NEW t \in State
  PROVE  \E rest \in Seq(State) :
           /\ TerminatePath[f] = ExitPath[f][t] \o rest
           /\ TerminatePath[t] = Reverse(EnterPath[f][t]) \o rest
<1> DEFINE p == TerminatePath[f]
<1>1. p \in Seq(State) /\ Len(p) \in Nat
  BY TableTypes, LenProperties
<1>2. PICK n \in 1 .. Len(p) + 1 :
        /\ p = ExitPath[f][t] \o SubSeq(p, n, Len(p))
        /\ TerminatePath[t] = Reverse(EnterPath[f][t]) \o SubSeq(p, n, Len(p))
  BY PathTables
<1>3. \A i \in n .. Len(p) : p[i] \in State
  BY <1>1, ElementOfSeq
<1>4. SubSeq(p, n, Len(p)) \in Seq(State)
  BY <1>1, <1>3, SubSeqProperties
<1> QED BY <1>2, <1>4

(* The second of two concatenated sequences. *)
LEMMA RestOfConcat ==
  ASSUME NEW S, NEW s \in Seq(S), NEW t \in Seq(S)
  PROVE  SubSeq(s \o t, Len(s) + 1, Len(s \o t)) = t
<1>1. Len(s) \in Nat /\ Len(t) \in Nat /\ Len(s \o t) = Len(s) + Len(t)
  BY ConcatProperties, LenProperties
<1>2. CASE t = <<>>
  BY <1>1, <1>2, SubSeqEmpty, EmptySeq
<1>3. CASE t # <<>>
  <2>1. Len(t) \in Nat \ {0}
    BY <1>3, EmptySeq
  <2>2. SubSeq(s \o t, Len(s) + 1, Len(s) + Len(t))
          = SubSeq(t, Len(s) + 1 - Len(s), Len(s) + Len(t) - Len(s))
    BY <1>1, <2>1, SubSeqOfConcat2
  <2>3. Len(s) + 1 - Len(s) = 1 /\ Len(s) + Len(t) - Len(s) = Len(t)
    BY <1>1
  <2> QED BY <1>1, <2>2, <2>3, SubSeqFull
<1> QED BY <1>2, <1>3

-----------------------------------------------------------------------------
(* Timers *)

(* The truncated duration fits the counter. *)
LEMMA NanosType ==
  ASSUME NEW d \in Nat
  PROVE  Nanos(d) \in 0 .. NsLimit - 1
BY TimerAssumption DEF Nanos

(* Start adds or changes only a timer of the state it is given. *)
LEMMA StartTimer ==
  ASSUME NEW ts \in SUBSET Timer, NEW s \in State, NEW t \in Trigger, NEW d \in Nat
  PROVE  /\ Start(ts, s, t, d) \in SUBSET Timer
         /\ \A e \in Start(ts, s, t, d) : e \in ts \/ e.state = s
BY NanosType DEF Start, Timer

(* cancel_state leaves only timers of other states, and adds none. *)
LEMMA CancelTimers ==
  ASSUME NEW ts \in SUBSET Timer, NEW s
  PROVE  /\ CancelState(ts, s) \in SUBSET Timer
         /\ \A e \in CancelState(ts, s) : e \in ts /\ e.state # s
BY DEF CancelState

(* Counting down keeps the owners of the timers. *)
LEMMA DecrementTimers ==
  ASSUME NEW ts \in SUBSET Timer, NEW d \in Nat
  PROVE  /\ Decrement(ts, d) \in SUBSET Timer
         /\ \A e \in Decrement(ts, d) : \E f \in ts : f.state = e.state
BY NanosType, TimerAssumption DEF Decrement, Timer

(* pop_expired returns a timer of the table. *)
LEMMA PoppableTimers ==
  ASSUME NEW ts \in SUBSET Timer
  PROVE  Poppable(ts) \subseteq ts
BY DEF Poppable, Expired

-----------------------------------------------------------------------------
(* Types *)

(* The handler tables give actions and a target. *)
LEMMA HandlerType ==
  /\ \A s \in State, e \in Event : /\ EventHandler[s][e].actions \in Seq(Action)
                                  /\ EventHandler[s][e].target \in State \cup {None}
  /\ \A s \in State, t \in Trigger : /\ TimerHandler[s][t].actions \in Seq(Action)
                                    /\ TimerHandler[s][t].target \in State \cup {None}
<1>1. \A h \in Handler : h.actions \in Seq(Action) /\ h.target \in State \cup {None}
  BY DEF Handler
<1>2. \A s \in State, e \in Event : EventHandler[s][e] \in Handler
  BY TableTypes
<1>3. \A s \in State, t \in Trigger : TimerHandler[s][t] \in Handler
  BY TableTypes
<1> QED BY <1>1, <1>2, <1>3

(* The fields of a timer. *)
LEMMA TimerType ==
  \A e \in Timer : e.state \in State /\ e.trigger \in Trigger
BY DEF Timer

(* The slices of the path tables are sequences of states. *)
LEMMA TypeOfBeginPath ==
  ASSUME TypeOK, NEW from \in State, NEW to \in State, BeginPath(from, to)
  PROVE  TypeOK'
<1>1. ExitPath[from][to] \in Seq(State) /\ EnterPath[from][to] \in Seq(State)
  BY TableTypes
<1> QED BY <1>1 DEF TypeOK, BeginPath, fields, Phases

(* Types after the timer branch of step(). *)
LEMMA TypeOfFireTimer ==
  ASSUME TypeOK, NEW d \in Nat, NEW c \in Calls, FireTimer(d, c), refused' \in BOOLEAN
  PROVE  TypeOK'
<1>1. Ticked(d) \in SUBSET Timer
  BY DecrementTimers DEF TypeOK, Ticked
<1> DEFINE rest(e) == Ticked(d) \ {e}
           again(e) == Start(rest(e), e.state, e.trigger, DurationFor[e.trigger])
<1>2. PICK e \in Poppable(Ticked(d)) :
        /\ timers' = IF Repeats[e.trigger] THEN again(e) ELSE rest(e)
        /\ fired' = IF Repeats[e.trigger] THEN fired
                                          ELSE fired \cup {<<e.state, e.trigger>>}
        /\ acts' = TimerHandler[e.state][e.trigger].actions
        /\ target' = TimerHandler[e.state][e.trigger].target
  BY DEF FireTimer, Fire
<1>3. e.state \in State /\ e.trigger \in Trigger
  BY <1>1, <1>2, PoppableTimers, TimerType
<1>4. DurationFor[e.trigger] \in Nat /\ rest(e) \in SUBSET Timer
  BY <1>1, <1>3, TableTypes
<1>5. again(e) \in SUBSET Timer
  BY <1>3, <1>4, StartTimer
<1>6. timers' \in SUBSET Timer
  BY <1>2, <1>4, <1>5
<1>7. fired' \in SUBSET (State \X Trigger)
  BY <1>2, <1>3 DEF TypeOK
<1>8. acts' \in Seq(Action) /\ target' \in State \cup {None}
  BY <1>2, <1>3, HandlerType
<1> QED BY <1>6, <1>7, <1>8 DEF TypeOK, FireTimer, Fire, Phases

(* Types after the event branch of step(). *)
LEMMA TypeOfTakeEvent ==
  ASSUME TypeOK, NEW d \in Nat, NEW c \in Calls, TakeEvent(d, c), refused' \in BOOLEAN
  PROVE  TypeOK'
<1>1. timers' \in SUBSET Timer
  BY DecrementTimers DEF TypeOK, Ticked, TakeEvent
<1>2. queue # <<>> /\ current \in State /\ queue' = Tail(queue)
  BY DEF TypeOK, TakeEvent, PopFront
<1>3. queue' \in Seq(Event) /\ Len(queue') <= QueueCap /\ Head(queue) \in Event
  BY <1>2, HeadTailProperties, LenProperties, TableTypes DEF TypeOK
<1> DEFINE h == EventHandler[current][Head(queue)]
<1>4. TerminatePath[current] \in Seq(State) /\ <<>> \in Seq(State)
      /\ h.actions \in Seq(Action) /\ h.target \in State \cup {None}
  BY <1>2, <1>3, HandlerType, TableTypes, EmptySeq
<1>5. \/ exits' = TerminatePath[current] /\ enters' = <<>> /\ target' = None
         /\ origin' = current /\ phase' = "path" /\ acts' = acts
      \/ acts' = h.actions /\ target' = h.target /\ phase' = "handler"
         /\ exits' = exits /\ enters' = enters /\ origin' = origin
      \/ phase' = "return" /\ acts' = acts /\ target' = target
         /\ exits' = exits /\ enters' = enters /\ origin' = origin
  BY DEF TakeEvent
<1>6. acts' \in Seq(Action) /\ target' \in State \cup {None}
      /\ exits' \in Seq(State) /\ enters' \in Seq(State)
      /\ origin' \in State \cup {None} /\ phase' \in Phases
  <2> HIDE DEF h
  <2> QED BY <1>2, <1>4, <1>5 DEF TypeOK, Phases
<1> QED BY <1>1, <1>3, <1>6 DEF TypeOK, TakeEvent

(* Types after the first step. *)
LEMMA TypeOfEnterRoot ==
  ASSUME TypeOK, NEW c \in Calls, EnterRoot(c), refused' \in BOOLEAN
  PROVE  TypeOK'
<1>1. <<Root>> \in Seq(State) /\ <<>> \in Seq(State) /\ Root \in State
  BY TableTypes
<1> QED BY <1>1 DEF TypeOK, EnterRoot, fields, Phases

(* Types after a step that only counts the timers down. *)
LEMMA TypeOfNothingDue ==
  ASSUME TypeOK, NEW d \in Nat, NEW c \in Calls, NothingDue(d, c), refused' \in BOOLEAN
  PROVE  TypeOK'
<1>1. timers' \in SUBSET Timer
  BY DecrementTimers DEF TypeOK, Ticked, NothingDue
<1> QED BY <1>1 DEF TypeOK, NothingDue, Phases

(* exit_state pops the configuration it is told to. *)
LEMMA ExitLeaves ==
  ASSUME TypeOK, exits # <<>>, OnTheWay
  PROVE  /\ Head(exits) \in State /\ Tail(exits) \in Seq(State)
         /\ Untouched \in Seq(State)
         /\ active # <<>> /\ Head(active) = Head(exits)
         /\ Leave(Head(exits)) = Tail(active)
         /\ Tail(active) = Tail(exits) \o Untouched
<1>1. Untouched \in Seq(State)
  <2>1. Len(exits) \in Nat /\ Len(active) \in Nat
        /\ \A i \in 1 .. Len(active) : active[i] \in State
    BY LenProperties, ElementOfSeq DEF TypeOK
  <2>2. \A i \in Len(exits) + 1 .. Len(active) : active[i] \in State
    BY <2>1
  <2> QED BY <2>1, <2>2, SubSeqProperties DEF Untouched
<1>2. active = exits \o Untouched
  BY DEF OnTheWay
<1> QED BY <1>1, <1>2, PopOfConcat, ZenonT(40) DEF Leave, TypeOK

(* An event is pushed only where there is room. *)
LEMMA PushFits ==
  ASSUME TypeOK, NEW e \in Event, Len(queue) < QueueCap
  PROVE  Append(queue, e) \in Seq(Event) /\ Len(Append(queue, e)) <= QueueCap
<1>1. queue \in Seq(Event) /\ Len(queue) \in Nat /\ QueueCap \in Nat
  BY LenProperties, TableTypes DEF TypeOK
<1>2. Append(queue, e) \in Seq(Event) /\ Len(Append(queue, e)) = Len(queue) + 1
  BY <1>1, AppendProperties
<1> QED BY <1>1, <1>2

(* Every step keeps the types, whatever the configuration is, as long as   *)
(* an exit leaves a sequence of states.                                    *)
LEMMA TypeStepOf ==
  ASSUME TypeOK, Control, EndExit => Leave(Head(exits)) \in Seq(State), [Next]_vars
  PROVE  TypeOK'
<1> USE DEF TypeOK, fields, frame, history, Phases, Calls, Results
<1>1. ASSUME NEW e \in Event, Emit(e) PROVE TypeOK'
  <2>1. queue' \in Seq(Event) /\ Len(queue') <= QueueCap /\ overflow' \in BOOLEAN /\ refused' \in BOOLEAN
    BY <1>1, PushFits DEF Emit, Push
  <2> QED BY <1>1, <2>1 DEF Emit
<1>2. ASSUME NEW e \in Event, Send(e) PROVE TypeOK'
  BY <1>2, PushFits, ZenonT(40) DEF Send
<1>3. ASSUME NEW e \in Event, Dispatch(e) PROVE TypeOK'
  BY <1>3, PushFits, ZenonT(40) DEF Dispatch
<1>4. ASSUME NEW d \in Elapsed, Step(d) PROVE TypeOK'
  <2>1. d \in Nat /\ "step" \in Calls /\ refused' \in BOOLEAN
    BY <1>4, TableTypes DEF Step
  <2> QED BY <1>4, <2>1, TypeOfEnterRoot, TypeOfFireTimer, TypeOfTakeEvent, TypeOfNothingDue
        DEF Step
<1>5. CASE TakeOverflow
  BY <1>5, ZenonT(40) DEF TakeOverflow
<1>6. CASE ActionReturns
  BY <1>6, HeadTailProperties DEF ActionReturns
<1>7. CASE HandlerDone
  <2>1. ASSUME target # None, BeginPath(current, target) PROVE TypeOK'
    BY <1>7, <2>1, TypeOfBeginPath DEF HandlerDone, Control
  <2>2. ASSUME target = None, phase' = "return",
               UNCHANGED <<fields, call, acts, target, exits, enters, arms, history>>
        PROVE  TypeOK'
    BY <2>2
  <2> QED BY <1>7, <2>1, <2>2 DEF HandlerDone
<1>8. CASE BeginExit
  <2>1. Head(exits) \in State /\ ExitActions[Head(exits)] \in Seq(Action)
    BY <1>8, HeadTailProperties, TableTypes DEF BeginExit
  <2>2. timers' \in SUBSET Timer
    BY <1>8, CancelTimers DEF BeginExit
  <2> QED BY <1>8, <2>1, <2>2 DEF BeginExit
<1>9. CASE EndExit
  <2>1. exits # <<>>
    BY <1>9 DEF EndExit, Control
  <2>2. Leave(Head(exits)) \in Seq(State) /\ Tail(exits) \in Seq(State)
    BY <1>9, <2>1, HeadTailProperties
  <2> QED BY <1>9, <2>2 DEF EndExit
<1>10. CASE BeginEnter
  <2>1. EntryActions[Head(enters)] \in Seq(Action)
    BY <1>10, HeadTailProperties, TableTypes DEF BeginEnter
  <2> QED BY <1>10, <2>1 DEF BeginEnter
<1>11. CASE EntryActionsDone
  <2>1. enters # <<>>
    BY <1>11 DEF EntryActionsDone, Control
  <2>2. OwnedTimers[Head(enters)] \in Seq(Trigger)
    BY <2>1, HeadTailProperties, TableTypes
  <2> QED BY <1>11, <2>2 DEF EntryActionsDone
<1>12. CASE ArmTimer
  <2>1. enters # <<>> /\ arms # <<>>
    BY <1>12 DEF ArmTimer, Control
  <2>2. Head(enters) \in State /\ Head(arms) \in Trigger /\ Tail(arms) \in Seq(Trigger)
        /\ DurationFor[Head(arms)] \in Nat
    BY <2>1, HeadTailProperties, TableTypes
  <2>3. timers' \in SUBSET Timer
    BY <1>12, <2>2, StartTimer DEF ArmTimer
  <2> QED BY <1>12, <2>2, <2>3 DEF ArmTimer
<1>13. CASE EndEnter
  <2>1. enters # <<>>
    BY <1>13 DEF EndEnter, Control
  <2>2. Head(enters) \in State /\ Tail(enters) \in Seq(State)
    BY <2>1, HeadTailProperties
  <2>3. <<Head(enters)>> \o active \in Seq(State)
    BY <2>2, ConcatProperties
  <2> QED BY <1>13, <2>2, <2>3 DEF EndEnter
<1>14. CASE UpTransition
  BY <1>14 DEF UpTransition
<1>15. CASE FollowDefault
  <2>1. current \in State /\ DefaultChild[current] \in State \cup {None}
    BY <1>15, TableTypes DEF FollowDefault, Control
  <2>2. ASSUME DefaultChild[current] # None, BeginPath(current, DefaultChild[current])
        PROVE  TypeOK'
    BY <2>1, <2>2, TypeOfBeginPath
  <2>3. ASSUME phase' = "return",
               UNCHANGED <<fields, call, acts, target, exits, enters, arms, history>>
        PROVE  TypeOK'
    BY <2>3
  <2> QED BY <1>15, <2>2, <2>3 DEF FollowDefault
<1>16. CASE Terminate
  <2>1. <<>> \in Seq(Event) /\ Len(<<>>) <= QueueCap
    BY EmptySeq, TableTypes
  <2> QED BY <1>16, <2>1 DEF Terminate
<1>17. CASE StepReturns
  BY <1>17 DEF StepReturns
<1>18. CASE DispatchStep
  <2>1. 0 \in Nat /\ "dispatch" \in Calls /\ refused' \in BOOLEAN
    BY <1>18 DEF DispatchStep
  <2> QED BY <1>18, <2>1, TypeOfEnterRoot, TypeOfFireTimer, TypeOfTakeEvent
        DEF DispatchStep
<1>19. CASE DispatchChecks
  BY <1>19 DEF DispatchChecks, DispatchReturns
<1>20. CASE DispatchDrained
  BY <1>20 DEF DispatchDrained, DispatchReturns
<1>21. CASE UNCHANGED vars
  BY <1>21 DEF vars
<1> QED
  BY <1>1, <1>2, <1>3, <1>4, <1>5, <1>6, <1>7, <1>8, <1>9, <1>10, <1>11, <1>12, <1>13,
     <1>14, <1>15, <1>16, <1>17, <1>18, <1>19, <1>20, <1>21
  DEF Next, Internal, Progress

(* ... as it does while no call is abandoned. *)
LEMMA TypeStep ==
  ASSUME TypeOK, MachineInvariant, [Next]_vars
  PROVE  TypeOK'
<1>1. Control
  BY DEF MachineInvariant
<1>2. ASSUME EndExit PROVE Leave(Head(exits)) \in Seq(State)
  <2>1. exits # <<>> /\ OnTheWay
    BY <1>2 DEF EndExit, MachineInvariant, Control, Moving
  <2> QED BY <2>1, ExitLeaves, HeadTailProperties DEF TypeOK
<1> QED BY <1>1, <1>2, TypeStepOf

-----------------------------------------------------------------------------
(* The invariant: steps that leave the configuration alone *)

(* An emit touches the queue and the flags only. *)
LEMMA EmitStep ==
  ASSUME TypeOK, MachineInvariant, NEW e \in Event, Emit(e)
  PROVE  MachineInvariant'
BY DEF Emit, Push, frame, MachineInvariant, Control, ActiveIsPath, ActiveMatchesCurrent, Moving,
       OnTheWay, Untouched, TimersOfActive, Exiting, TerminatedIsClean

(* The API's own bookkeeping moves no configuration. *)
LEMMA DriverStep ==
  ASSUME TypeOK, MachineInvariant,
         \/ \E e \in Event : Send(e) \/ Dispatch(e)
         \/ TakeOverflow \/ StepReturns \/ DispatchChecks \/ DispatchDrained
         \/ ActionReturns \/ UNCHANGED vars
  PROVE  MachineInvariant'
<1> USE DEF fields, frame, history, MachineInvariant, Control, ActiveIsPath,
            ActiveMatchesCurrent, Moving, OnTheWay, Untouched, TimersOfActive, Exiting,
            TerminatedIsClean
<1>1. ASSUME NEW e \in Event, Send(e) PROVE MachineInvariant'
  BY <1>1 DEF Send, Idle
<1>2. ASSUME NEW e \in Event, Dispatch(e) PROVE MachineInvariant'
  BY <1>2 DEF Dispatch, Idle
<1>3. CASE TakeOverflow
  BY <1>3 DEF TakeOverflow, Idle
<1>4. CASE StepReturns
  BY <1>4 DEF StepReturns
<1>5. CASE DispatchChecks
  BY <1>5 DEF DispatchChecks, DispatchReturns
<1>6. CASE DispatchDrained
  BY <1>6 DEF DispatchDrained, DispatchReturns
<1>7. CASE ActionReturns
  BY <1>7 DEF ActionReturns
<1>8. CASE UNCHANGED vars
  BY <1>8 DEF vars
<1> QED BY <1>1, <1>2, <1>3, <1>4, <1>5, <1>6, <1>7, <1>8

(* While a state is being entered, only its own timers start. *)
LEMMA EntryStep ==
  ASSUME TypeOK, MachineInvariant, BeginEnter \/ EntryActionsDone \/ ArmTimer
  PROVE  MachineInvariant'
<1> USE DEF fields, frame, history, MachineInvariant, Control, ActiveIsPath,
            ActiveMatchesCurrent, Moving, OnTheWay, Untouched, TimersOfActive, Exiting,
            TerminatedIsClean
<1>1. CASE BeginEnter
  BY <1>1 DEF BeginEnter
<1>2. CASE EntryActionsDone
  BY <1>2 DEF EntryActionsDone
<1>3. CASE ArmTimer
  <2>1. enters # <<>> /\ arms # <<>> /\ phase = "arming" /\ phase' = "arming"
    BY <1>3 DEF ArmTimer
  <2>2. Head(enters) \in State /\ Head(arms) \in Trigger
        /\ DurationFor[Head(arms)] \in Nat /\ timers \in SUBSET Timer
    BY <2>1, HeadTailProperties, TableTypes DEF TypeOK
  <2>3. \A e \in timers' : e \in timers \/ e.state = Head(enters)
    BY <1>3, <2>2, StartTimer DEF ArmTimer
  <2>4. TimersOfActive'
    BY <1>3, <2>1, <2>3 DEF ArmTimer
  <2> QED BY <1>3, <2>1, <2>4 DEF ArmTimer
<1> QED BY <1>1, <1>2, <1>3

-----------------------------------------------------------------------------
(* The invariant: transitions *)

(* The path tables start a transition on its way. *)
LEMMA BeginPathOnTheWay ==
  ASSUME NEW from \in State, NEW to \in State, active = TerminatePath[from],
         BeginPath(from, to)
  PROVE  OnTheWay'
<1>1. PICK rest \in Seq(State) : /\ TerminatePath[from] = ExitPath[from][to] \o rest
                                 /\ TerminatePath[to] = Reverse(EnterPath[from][to]) \o rest
  BY PathsShareRest
<1>2. ExitPath[from][to] \in Seq(State)
  BY TableTypes
<1>3. active' = active /\ exits' = ExitPath[from][to] /\ enters' = EnterPath[from][to]
      /\ target' = to /\ target' # None
  BY TableTypes DEF BeginPath
<1>4. Untouched' = rest
  <2>1. SubSeq(active', Len(exits') + 1, Len(active')) = rest
    BY <1>1, <1>2, <1>3, RestOfConcat
  <2> QED BY <2>1 DEF Untouched
<1> QED BY <1>1, <1>3, <1>4 DEF OnTheWay

(* A transition begins with slices that lead to its target. *)
LEMMA BeginPathStep ==
  ASSUME TypeOK, MachineInvariant, NEW to \in State, current # None, ~Moving, acts = <<>>,
         call # "none", ~terminated, BeginPath(current, to)
  PROVE  MachineInvariant'
<1>1. current \in State /\ active = TerminatePath[current]
  BY DEF TypeOK, MachineInvariant, ActiveMatchesCurrent
<1>2. OnTheWay'
  BY <1>1, BeginPathOnTheWay
<1>3. Control'
  BY DEF BeginPath, fields, MachineInvariant, Control
<1>4. ActiveIsPath' /\ ActiveMatchesCurrent' /\ TerminatedIsClean'
  BY DEF BeginPath, fields, MachineInvariant, ActiveIsPath, ActiveMatchesCurrent, Moving,
         TerminatedIsClean
<1>5. TimersOfActive'
  BY DEF BeginPath, fields, MachineInvariant, TimersOfActive, Exiting, Moving
<1> QED BY <1>2, <1>3, <1>4, <1>5 DEF MachineInvariant

(* An exit begins by cancelling the timers of the state it exits. *)
LEMMA BeginExitStep ==
  ASSUME TypeOK, MachineInvariant, BeginExit
  PROVE  MachineInvariant'
<1>1. \A e \in timers' : e \in timers /\ e.state # Head(exits)
  BY CancelTimers DEF TypeOK, BeginExit
<1>2. TimersOfActive'
  BY <1>1 DEF BeginExit, MachineInvariant, TimersOfActive, Exiting
<1>3. Control' /\ ActiveIsPath' /\ ActiveMatchesCurrent' /\ (Moving => OnTheWay)'
  BY DEF BeginExit, MachineInvariant, Control, ActiveIsPath, ActiveMatchesCurrent, Moving,
         OnTheWay, Untouched
<1>4. TerminatedIsClean'
  BY DEF BeginExit, MachineInvariant, Control, TerminatedIsClean
<1> QED BY <1>2, <1>3, <1>4 DEF MachineInvariant

(* An exit ends with the innermost state leaving the configuration. *)
LEMMA EndExitStep ==
  ASSUME TypeOK, MachineInvariant, EndExit
  PROVE  MachineInvariant'
<1>1. exits # <<>> /\ OnTheWay /\ phase = "exiting" /\ phase' = "path"
  BY DEF EndExit, MachineInvariant, Control, Moving
<1>2. /\ Tail(exits) \in Seq(State) /\ Untouched \in Seq(State)
      /\ active # <<>> /\ Head(active) = Head(exits)
      /\ active' = Tail(active) /\ exits' = Tail(exits)
      /\ active' = exits' \o Untouched
  BY <1>1, ExitLeaves DEF EndExit
<1>3. Untouched' = Untouched
  <2>1. SubSeq(active', Len(exits') + 1, Len(active')) = Untouched
    BY <1>2, RestOfConcat
  <2> QED BY <2>1 DEF Untouched
<1>4. OnTheWay'
  <2>1. target' = target /\ enters' = enters
    BY DEF EndExit
  <2> QED BY <1>1, <1>2, <1>3, <2>1 DEF OnTheWay
<1>5. ActiveIsPath'
  <2>1. active \in Seq(State) /\ active = TerminatePath[Head(active)]
    BY <1>2 DEF TypeOK, MachineInvariant, ActiveIsPath
  <2> QED BY <1>2, <2>1, TailOfPath DEF ActiveIsPath
<1>6. TimersOfActive'
  <2>1. \A a \in Range(active) : a = Head(active) \/ a \in Range(Tail(active))
    BY <1>2, RangeOfTail DEF TypeOK
  <2>2. \A e \in timers : e.state \in Range(active) /\ e.state # Head(exits)
    BY <1>1 DEF MachineInvariant, TimersOfActive, Exiting
  <2>3. \A e \in timers : e.state \in Range(active')
    BY <1>2, <2>1, <2>2
  <2>4. timers' = timers /\ Exiting' = {}
    BY <1>1 DEF EndExit, fields, Exiting
  <2> QED BY <2>3, <2>4 DEF TimersOfActive
<1>7. Control' /\ ActiveMatchesCurrent' /\ TerminatedIsClean'
  BY DEF EndExit, fields, MachineInvariant, Control, ActiveMatchesCurrent, Moving,
         TerminatedIsClean
<1> QED BY <1>4, <1>5, <1>6, <1>7 DEF MachineInvariant

(* An entry ends with the state on top of the configuration. *)
LEMMA EndEnterStep ==
  ASSUME TypeOK, MachineInvariant, EndEnter
  PROVE  MachineInvariant'
<1> DEFINE h == Head(enters)
<1>1. /\ phase = "arming" /\ exits = <<>> /\ enters # <<>> /\ OnTheWay
      /\ target # None /\ target \in State /\ ~terminated
  BY DEF EndEnter, MachineInvariant, Control, Moving, OnTheWay, TypeOK
<1>2. h \in State /\ Tail(enters) \in Seq(State) /\ active \in Seq(State)
      /\ enters \in Seq(State)
  BY <1>1, HeadTailProperties DEF TypeOK
<1>3. Untouched = active
  BY <1>1, <1>2, SubSeqFull, EmptySeq DEF Untouched
<1>4. TerminatePath[target] = Reverse(enters) \o active
  BY <1>1, <1>3 DEF OnTheWay
<1>5. TerminatePath[h] = <<h>> \o active
  BY <1>1, <1>2, <1>4, HeadOfEnters
<1>6. active' = <<h>> \o active /\ current' = h /\ enters' = Tail(enters)
      /\ exits' = exits /\ target' = target /\ timers' = timers
      /\ phase' \in {"defaults", "path"}
      /\ (phase' = "path" => enters' # <<>>)
  BY DEF EndEnter
<1>7. active' # <<>> /\ Head(active') = h /\ Range(active') = {h} \cup Range(active)
      /\ active' \in Seq(State)
  BY <1>2, <1>6, RangeOfPush, ConcatProperties
<1>8. ActiveIsPath' /\ ActiveMatchesCurrent'
  BY <1>2, <1>5, <1>6, <1>7, TableTypes DEF ActiveIsPath, ActiveMatchesCurrent
<1>9. OnTheWay'
  <2>1. Untouched' = active'
    BY <1>1, <1>6, <1>7, SubSeqFull, EmptySeq DEF Untouched
  <2>2. active' = exits' \o Untouched'
    BY <1>1, <1>6, <1>7, <2>1, ConcatEmptySeq
  <2>3. TerminatePath[target] = Reverse(Tail(enters)) \o active'
    BY <1>1, <1>2, <1>4, <1>6, ReverseStep
  <2> QED BY <1>1, <1>6, <2>1, <2>2, <2>3 DEF OnTheWay
<1>10. TimersOfActive'
  <2>1. \A e \in timers : e.state \in {h} \cup Range(active)
    BY <1>1 DEF MachineInvariant, TimersOfActive
  <2>2. Exiting' = {}
    BY <1>6 DEF Exiting
  <2> QED BY <1>6, <1>7, <2>1, <2>2 DEF TimersOfActive
<1>11. Control'
  BY <1>1, <1>2, <1>6, TableTypes DEF EndEnter, MachineInvariant, Control
<1>12. TerminatedIsClean'
  BY <1>1 DEF EndEnter, TerminatedIsClean
<1> QED BY <1>8, <1>9, <1>10, <1>11, <1>12 DEF MachineInvariant

(* With both slices walked, the configuration is the path of the target.   *)
LEMMA Arrived ==
  ASSUME TypeOK, MachineInvariant, phase = "path", exits = <<>>, enters = <<>>
  PROVE  active = IF target = None THEN <<>> ELSE TerminatePath[target]
<1>1. OnTheWay /\ active \in Seq(State)
  BY DEF MachineInvariant, Moving, TypeOK
<1>2. Untouched = active
  BY <1>1, SubSeqFull, EmptySeq DEF Untouched
<1>3. Reverse(<<>>) = <<>>
  BY EmptySeq, ReverseProperties
<1> QED BY <1>1, <1>2, <1>3, ConcatEmptySeq DEF OnTheWay

(* A path ends at its target, or with nothing left. *)
LEMMA EndPathStep ==
  ASSUME TypeOK, MachineInvariant, UpTransition \/ Terminate
  PROVE  MachineInvariant'
<1>1. phase = "path" /\ exits = <<>> /\ enters = <<>> /\ phase' = "return"
      /\ ~terminated /\ acts = <<>>
  BY DEF UpTransition, Terminate, MachineInvariant, Control
<1>2. active = IF target = None THEN <<>> ELSE TerminatePath[target]
  BY <1>1, Arrived
<1>3. UNCHANGED <<active, timers, acts, call>> /\ current' = target
  BY DEF UpTransition, Terminate, history
<1>4. \A e \in timers : e.state \in Range(active)
  BY <1>1 DEF MachineInvariant, TimersOfActive
<1>5. ActiveIsPath' /\ ActiveMatchesCurrent' /\ TimersOfActive'
  BY <1>1, <1>2, <1>3, <1>4
  DEF MachineInvariant, ActiveIsPath, ActiveMatchesCurrent, TimersOfActive, Exiting
<1>6. Control' /\ ~Moving'
  BY <1>1, <1>3 DEF UpTransition, Terminate, MachineInvariant, Control, Moving
<1>7. TerminatedIsClean'
  <2>1. CASE UpTransition
    BY <1>1, <2>1 DEF UpTransition, TerminatedIsClean
  <2>2. CASE Terminate
    <3>1. active = <<>> /\ timers = {}
      BY <1>2, <1>4, <2>2 DEF Terminate, Range
    <3> QED BY <1>3, <2>2, <3>1 DEF Terminate, TerminatedIsClean
  <2> QED BY <2>1, <2>2
<1> QED BY <1>5, <1>6, <1>7 DEF MachineInvariant

(* Going on, or being done, after a handler or an entered state. *)
LEMMA NextPathStep ==
  ASSUME TypeOK, MachineInvariant, HandlerDone \/ FollowDefault
  PROVE  MachineInvariant'
<1>1. /\ phase \in {"handler", "defaults"} /\ acts = <<>> /\ current # None
      /\ current \in State /\ call # "none" /\ ~terminated /\ ~Moving
  BY DEF HandlerDone, FollowDefault, MachineInvariant, Control, TypeOK, Moving
<1>2. ASSUME NEW to \in State, BeginPath(current, to) PROVE MachineInvariant'
  BY <1>1, <1>2, BeginPathStep
<1>3. ASSUME phase' = "return",
             UNCHANGED <<fields, call, acts, target, exits, enters, arms, history>>
      PROVE  MachineInvariant'
  BY <1>1, <1>3 DEF fields, history, MachineInvariant, Control, ActiveIsPath,
       ActiveMatchesCurrent, Moving, TimersOfActive, Exiting, TerminatedIsClean
<1>4. DefaultChild[current] \in State \cup {None} /\ target \in State \cup {None}
  BY <1>1, TableTypes DEF TypeOK
<1> QED BY <1>2, <1>3, <1>4 DEF HandlerDone, FollowDefault

-----------------------------------------------------------------------------
(* The invariant: the unit of work *)

(* The first step sets out from nothing to the root. *)
LEMMA EnterRootStep ==
  ASSUME TypeOK, MachineInvariant, ~Moving, acts = <<>>, NEW c \in Calls \ {"none"},
         EnterRoot(c)
  PROVE  MachineInvariant'
<1>1. active = <<>> /\ active' = active /\ timers' = timers /\ phase' = "path"
      /\ ~terminated /\ ~terminated' /\ acts' = <<>> /\ call' # "none"
  BY DEF EnterRoot, fields, MachineInvariant, ActiveMatchesCurrent
<1>2. exits' = <<>> /\ enters' = <<Root>> /\ target' = Root /\ Root # None
  BY TableTypes DEF EnterRoot
<1>3. OnTheWay'
  <2>1. Untouched' = <<>>
    BY <1>1, <1>2, SubSeqEmpty, EmptySeq DEF Untouched
  <2>2. <<Root>> \in Seq(State) /\ <<>> \in Seq(State)
    BY TableTypes
  <2>3. Reverse(<<Root>>) = <<Root>>
    BY DEF Reverse
  <2>4. <<Root>> \o <<>> = <<Root>> /\ <<>> \o <<>> = <<>>
    BY <2>2, ConcatEmptySeq
  <2> QED BY <1>1, <1>2, <2>1, <2>3, <2>4, RootPath DEF OnTheWay
<1>4. \A e \in timers : e.state \in Range(active)
  BY DEF MachineInvariant, TimersOfActive, Moving
<1> QED BY <1>1, <1>3, <1>4 DEF MachineInvariant, Control, ActiveIsPath,
          ActiveMatchesCurrent, Moving, TimersOfActive, Exiting, TerminatedIsClean

(* The timers that are left, or started again, are of active states. *)
LEMMA TickedTimers ==
  ASSUME TypeOK, MachineInvariant, ~Moving, NEW d \in Nat
  PROVE  /\ Ticked(d) \in SUBSET Timer
         /\ \A e \in Ticked(d) : e.state \in Range(active)
<1>1. \A e \in timers : e.state \in Range(active)
  BY DEF MachineInvariant, TimersOfActive, Moving
<1>2. timers \in SUBSET Timer
  BY DEF TypeOK
<1> QED BY <1>1, <1>2, DecrementTimers DEF Ticked

(* A timer that fires, and restarts, is one of an active state. *)
LEMMA FireTimerStep ==
  ASSUME TypeOK, MachineInvariant, ~Moving, acts = <<>>, NEW d \in Nat,
         NEW c \in Calls \ {"none"}, FireTimer(d, c)
  PROVE  MachineInvariant'
<1> DEFINE rest(e) == Ticked(d) \ {e}
           again(e) == Start(rest(e), e.state, e.trigger, DurationFor[e.trigger])
<1>1. PICK e \in Poppable(Ticked(d)) :
        timers' = IF Repeats[e.trigger] THEN again(e) ELSE rest(e)
  BY DEF FireTimer, Fire
<1>2. e \in Ticked(d) /\ e \in Timer /\ rest(e) \in SUBSET Timer
      /\ e.state \in Range(active)
  BY <1>1, TickedTimers, PoppableTimers
<1>3. e.state \in State /\ e.trigger \in Trigger /\ DurationFor[e.trigger] \in Nat
  BY <1>2, TimerType, TableTypes
<1>4. \A f \in again(e) : f \in rest(e) \/ f.state = e.state
  BY <1>2, <1>3, StartTimer
<1>5. \A f \in timers' : f.state \in Range(active)
  BY <1>1, <1>2, <1>4, TickedTimers
<1>6. active' = active /\ current' = current /\ current # None /\ ~terminated
      /\ ~terminated' /\ phase' = "handler" /\ call' # "none"
  BY DEF FireTimer, Fire
<1> QED BY <1>5, <1>6 DEF MachineInvariant, Control, ActiveIsPath,
          ActiveMatchesCurrent, Moving, TimersOfActive, Exiting, TerminatedIsClean

(* A terminating event sets out to exit everything. *)
LEMMA TakeEventStep ==
  ASSUME TypeOK, MachineInvariant, ~Moving, acts = <<>>, NEW d \in Nat,
         NEW c \in Calls \ {"none"}, TakeEvent(d, c)
  PROVE  MachineInvariant'
<1>1. active' = active /\ current' = current /\ current \in State /\ current # None
      /\ ~terminated /\ ~terminated' /\ call' # "none" /\ timers' = Ticked(d)
      /\ active = TerminatePath[current]
  BY TableTypes DEF TakeEvent, TypeOK, MachineInvariant, ActiveMatchesCurrent
<1>2. \A f \in timers' : f.state \in Range(active)
  BY <1>1, TickedTimers
<1>3. CASE exits' = TerminatePath[current] /\ enters' = <<>> /\ target' = None
           /\ phase' = "path" /\ acts' = acts
  <2>1. TerminatePath[current] \in Seq(State) /\ <<>> \in Seq(State)
    BY <1>1, TableTypes, EmptySeq
  <2>2. active' = exits' \o <<>>
    BY <1>1, <1>3, <2>1, ConcatEmptySeq
  <2>3. Untouched' = <<>>
    <3>1. SubSeq(active', Len(exits') + 1, Len(active')) = <<>>
      BY <1>3, <2>1, <2>2, RestOfConcat
    <3> QED BY <3>1 DEF Untouched
  <2>4. OnTheWay'
    BY <1>3, <2>2, <2>3 DEF OnTheWay
  <2> QED BY <1>1, <1>2, <1>3, <2>4 DEF MachineInvariant, Control, ActiveIsPath,
            ActiveMatchesCurrent, Moving, TimersOfActive, Exiting, TerminatedIsClean
<1>4. CASE phase' = "handler" \/ (phase' = "return" /\ acts' = acts)
  BY <1>1, <1>2, <1>4 DEF MachineInvariant, Control, ActiveIsPath,
       ActiveMatchesCurrent, Moving, TimersOfActive, Exiting, TerminatedIsClean
<1> QED BY <1>3, <1>4 DEF TakeEvent

(* A step with nothing to do keeps the invariant. *)
LEMMA NothingDueStep ==
  ASSUME TypeOK, MachineInvariant, ~Moving, acts = <<>>, NEW d \in Nat,
         NEW c \in Calls \ {"none"}, NothingDue(d, c)
  PROVE  MachineInvariant'
<1>1. \A f \in Ticked(d) : f.state \in Range(active)
  BY TickedTimers
<1> QED BY <1>1 DEF NothingDue, MachineInvariant, Control, ActiveIsPath,
          ActiveMatchesCurrent, Moving, TimersOfActive, Exiting, TerminatedIsClean

(* The unit of work, in step() and in dispatch(). *)
LEMMA WorkStep ==
  ASSUME TypeOK, MachineInvariant, DispatchStep \/ \E d \in Elapsed : Step(d)
  PROVE  MachineInvariant'
<1>1. ~Moving /\ acts = <<>>
  BY DEF DispatchStep, Step, Idle, MachineInvariant, Control, Moving
<1>2. CASE DispatchStep
  <2>1. 0 \in Nat /\ "dispatch" \in Calls \ {"none"}
    BY DEF Calls
  <2> QED BY <1>1, <1>2, <2>1, EnterRootStep, FireTimerStep, TakeEventStep DEF DispatchStep
<1>3. ASSUME NEW d \in Elapsed, Step(d) PROVE MachineInvariant'
  <2>1. d \in Nat /\ "step" \in Calls \ {"none"}
    BY TableTypes DEF Calls
  <2> QED BY <1>1, <1>3, <2>1, EnterRootStep, FireTimerStep, TakeEventStep, NothingDueStep
        DEF Step
<1> QED BY <1>2, <1>3

-----------------------------------------------------------------------------
(* A new machine satisfies the invariant. *)
LEMMA InitOK == Init => TypeOK /\ MachineInvariant
<1> SUFFICES ASSUME Init PROVE TypeOK /\ MachineInvariant
  OBVIOUS
<1>1. Len(queue) <= QueueCap
  BY EmptySeq, TableTypes DEF Init
<1>2. TypeOK
  <2>1. <<>> \in Seq(Event) /\ <<>> \in Seq(Action) /\ <<>> \in Seq(State)
        /\ <<>> \in Seq(Trigger)
    BY EmptySeq
  <2> QED BY <1>1, <2>1 DEF Init, TypeOK, Calls, Phases, Results
<1>3. MachineInvariant
  BY DEF Init, MachineInvariant, Control, ActiveIsPath, ActiveMatchesCurrent, Moving,
         TimersOfActive, TerminatedIsClean
<1> QED BY <1>2, <1>3

(* The invariant is inductive. *)
LEMMA InvariantStep ==
  ASSUME TypeOK, MachineInvariant, [Next]_vars
  PROVE  TypeOK' /\ MachineInvariant'
<1>1. TypeOK'
  BY TypeStep
<1>2. CASE \E e \in Event : Emit(e)
  BY <1>1, <1>2, EmitStep
<1>3. CASE \/ \E e \in Event : Send(e) \/ Dispatch(e)
           \/ TakeOverflow \/ StepReturns \/ DispatchChecks \/ DispatchDrained
           \/ ActionReturns \/ UNCHANGED vars
  BY <1>1, <1>3, DriverStep
<1>4. CASE BeginEnter \/ EntryActionsDone \/ ArmTimer
  BY <1>1, <1>4, EntryStep
<1>5. CASE BeginExit
  BY <1>1, <1>5, BeginExitStep
<1>6. CASE EndExit
  BY <1>1, <1>6, EndExitStep
<1>7. CASE EndEnter
  BY <1>1, <1>7, EndEnterStep
<1>8. CASE UpTransition \/ Terminate
  BY <1>1, <1>8, EndPathStep
<1>9. CASE HandlerDone \/ FollowDefault
  BY <1>1, <1>9, NextPathStep
<1>10. CASE DispatchStep \/ \E d \in Elapsed : Step(d)
  BY <1>1, <1>10, WorkStep
<1> QED BY <1>1, <1>2, <1>3, <1>4, <1>5, <1>6, <1>7, <1>8, <1>9, <1>10 DEF Next, Internal, Progress

(* The code's representation of the configuration is sound in every chart  *)
(* whose path tables are: at every moment, mid-transition and inside the   *)
(* user's actions included, the slices left lead to the target.            *)
THEOREM MachineInvariantHolds == Spec => [](TypeOK /\ MachineInvariant)
<1>1. Init => TypeOK /\ MachineInvariant
  BY InitOK
<1>2. TypeOK /\ MachineInvariant /\ [Next]_vars => (TypeOK /\ MachineInvariant)'
  BY InvariantStep
<1> QED BY <1>1, <1>2, PTL DEF Spec

(* Values stay in their types; the queue never exceeds its capacity.       *)
THEOREM TypeCorrect == Spec => []TypeOK
BY MachineInvariantHolds, PTL

(* The active states are one path of the tree, and at rest the path of     *)
(* current_state(), in every chart.                                        *)
THEOREM ConfigurationIsPath == Spec => [](ActiveIsPath /\ ActiveMatchesCurrent)
<1>1. MachineInvariant => ActiveIsPath /\ ActiveMatchesCurrent
  BY DEF MachineInvariant
<1> QED BY <1>1, MachineInvariantHolds, PTL

(* The same in the middle of every transition, whatever interrupts it.     *)
THEOREM PathAtEveryMoment == Spec => []ActiveIsPath
BY ConfigurationIsPath, PTL

(* In every chart and under every schedule of calls, no timer outlives the *)
(* state that declared it.                                                 *)
THEOREM NoStaleTimer == Spec => []TimersOfActive
<1>1. MachineInvariant => TimersOfActive
  BY DEF MachineInvariant
<1> QED BY <1>1, MachineInvariantHolds, PTL

(* Termination exits every state, cancels every timer, empties the queue.  *)
THEOREM TerminationIsClean == Spec => []TerminatedIsClean
<1>1. MachineInvariant => TerminatedIsClean
  BY DEF MachineInvariant
<1> QED BY <1>1, MachineInvariantHolds, PTL

(* A terminated machine never moves again. *)
THEOREM TerminationIsFinal == Spec => TerminatedIsFinal
<1> DEFINE Still == terminated => terminated' /\ UNCHANGED <<current, queue, timers, active, acts>>
<1>1. TypeOK /\ MachineInvariant /\ [Next]_vars => [Still]_vars
  <2> SUFFICES ASSUME MachineInvariant, Next, terminated
               PROVE  terminated' /\ UNCHANGED <<current, queue, timers, active, acts>>
    BY DEF vars
  <2>1. acts = <<>> /\ phase \in {"idle", "return"} /\ current = None
    BY DEF MachineInvariant, Control, TerminatedIsClean
  <2> QED BY <2>1 DEF Next, Internal, Progress, Emit, Push, Send, Dispatch, Step, TakeOverflow, ActionReturns,
       HandlerDone, BeginExit, EndExit, BeginEnter, EntryActionsDone, ArmTimer, EndEnter,
       UpTransition, FollowDefault, Terminate, StepReturns, DispatchStep, DispatchChecks,
       DispatchDrained, DispatchReturns, EnterRoot, FireTimer, Fire, TakeEvent, NothingDue, fields,
       frame, history, TerminatedIsClean, MachineInvariant
<1> QED BY <1>1, MachineInvariantHolds, PTL DEF Spec, TerminatedIsFinal

-----------------------------------------------------------------------------
(* Refused emits and dispatch *)

(* A refused emit stays flagged until dispatch looks. *)
LEMMA RefusalStep ==
  ASSUME MachineInvariant, RefusalIsFlagged, [Next]_vars
  PROVE  RefusalIsFlagged'
<1> USE DEF RefusalIsFlagged, fields, frame, history
<1>1. ASSUME NEW e \in Event, Emit(e) PROVE RefusalIsFlagged'
  BY <1>1 DEF Emit, Push, MachineInvariant, Control
<1>2. ASSUME NEW e \in Event, Send(e) \/ Dispatch(e) PROVE RefusalIsFlagged'
  BY <1>2 DEF Send, Dispatch, Idle
<1>3. ASSUME NEW d \in Elapsed, Step(d) PROVE RefusalIsFlagged'
  BY <1>3 DEF Step
<1>4. CASE DispatchStep
  BY <1>4 DEF DispatchStep, EnterRoot, FireTimer, Fire, TakeEvent
<1>5. CASE StepReturns \/ DispatchChecks \/ DispatchDrained \/ TakeOverflow
  BY <1>5 DEF StepReturns, DispatchChecks, DispatchDrained, DispatchReturns, TakeOverflow, Idle
<1>6. CASE \/ ActionReturns \/ HandlerDone \/ BeginExit \/ EndExit \/ BeginEnter
           \/ EntryActionsDone \/ ArmTimer \/ EndEnter \/ UpTransition \/ FollowDefault
           \/ Terminate
  BY <1>6 DEF ActionReturns, HandlerDone, BeginPath, BeginExit, EndExit, BeginEnter,
       EntryActionsDone, ArmTimer, EndEnter, UpTransition, FollowDefault, Terminate
<1>7. CASE UNCHANGED vars
  BY <1>7 DEF vars
<1> QED BY <1>1, <1>2, <1>3, <1>4, <1>5, <1>6, <1>7 DEF Next, Internal, Progress

(* A dispatch returns by one of its two exits. *)
LEMMA OkFromDispatch ==
  ASSUME Next, call = "dispatch", call' = "none", result' = "Ok"
  PROVE  DispatchChecks \/ DispatchDrained
BY DEF Next, Internal, Progress, Emit, Push, Send, Dispatch, Step, TakeOverflow, ActionReturns,
     HandlerDone, BeginPath, BeginExit, EndExit, BeginEnter, EntryActionsDone, ArmTimer,
     EndEnter, UpTransition, FollowDefault, Terminate, StepReturns, DispatchStep,
     EnterRoot, FireTimer, Fire, TakeEvent, Idle, fields, frame, history

(* A dispatch that returns Ok has processed everything and lost nothing,   *)
(* in every chart and with every queue capacity.                           *)
THEOREM DispatchOkIsComplete == Spec => DispatchSettles
<1>1. Init => RefusalIsFlagged
  BY DEF Init, RefusalIsFlagged
<1>2. MachineInvariant /\ RefusalIsFlagged /\ [Next]_vars => RefusalIsFlagged'
  BY RefusalStep
<1> DEFINE Settled ==
      call = "dispatch" /\ call' = "none" /\ result' = "Ok" => queue' = <<>> /\ ~refused
<1>3. MachineInvariant /\ RefusalIsFlagged /\ [Next]_vars => [Settled]_vars
  <2> SUFFICES ASSUME MachineInvariant, RefusalIsFlagged, Next,
                      call = "dispatch", call' = "none", result' = "Ok"
               PROVE  queue' = <<>> /\ ~refused
    BY DEF vars
  <2>1. DispatchChecks \/ DispatchDrained
    BY OkFromDispatch
  <2>2. CASE DispatchDrained
    BY <2>2 DEF DispatchDrained, DispatchReturns, RefusalIsFlagged
  <2>3. CASE DispatchChecks
    BY <2>3 DEF DispatchChecks, DispatchReturns, RefusalIsFlagged, MachineInvariant,
         TerminatedIsClean
  <2> QED BY <2>1, <2>2, <2>3
<1> QED BY <1>1, <1>2, <1>3, MachineInvariantHolds, PTL DEF Spec, DispatchSettles
-----------------------------------------------------------------------------
(* Due timers and dispatch *)

(* Cancelling makes no timer due, nor does arming one for a while. *)
LEMMA NoneDue ==
  ASSUME NEW ts \in SUBSET Timer, Expired(ts) = {}, NEW s \in State
  PROVE  /\ Expired(CancelState(ts, s)) = {}
         /\ \A t \in Trigger : PositiveDurations =>
              Expired(Start(ts, s, t, DurationFor[t])) = {}
BY DEF Expired, CancelState, Start, PositiveDurations

(* In a dispatch a timer becomes due only before its first event is taken. *)
LEMMA DueStep ==
  ASSUME PositiveDurations, TypeOK, MachineInvariant, MachineInvariant', DueIsPending,
         [Next]_vars
  PROVE  DueIsPending'
<1> USE DEF DueIsPending, fields, frame, history
<1>1. ASSUME NEW e \in Event, Emit(e) PROVE DueIsPending'
  <2>1. queue' = <<>> => queue = <<>>
    BY <1>1, AppendProperties, SMTT(30) DEF Emit, Push, TypeOK
  <2> QED BY <1>1, <2>1 DEF Emit, Push
<1>2. ASSUME NEW e \in Event, Send(e) \/ Dispatch(e) PROVE DueIsPending'
  <2>1. CASE Send(e)
    BY <2>1 DEF Send, Idle
  <2>2. CASE Dispatch(e)
    <3>1. Append(queue, e) # <<>>
      BY AppendProperties DEF TypeOK
    <3> QED BY <2>2, <3>1 DEF Dispatch, Idle
  <2> QED BY <1>2, <2>1, <2>2
<1>3. ASSUME NEW d \in Elapsed, Step(d) PROVE DueIsPending'
  BY <1>3 DEF Step, EnterRoot, FireTimer, Fire, TakeEvent, NothingDue
<1>4. CASE DispatchStep
  BY <1>4 DEF DispatchStep, EnterRoot, FireTimer, Fire, TakeEvent
<1>5. CASE StepReturns \/ DispatchChecks \/ DispatchDrained \/ TakeOverflow
  BY <1>5 DEF StepReturns, DispatchChecks, DispatchDrained, DispatchReturns, TakeOverflow, Idle
<1>6. CASE BeginExit
  <2>1. timers \in SUBSET Timer /\ Head(exits) \in State
    BY <1>6, HeadTailProperties DEF BeginExit, TypeOK
  <2> QED BY <1>6, <2>1, NoneDue DEF BeginExit
<1>7. CASE ArmTimer
  <2>1. /\ timers \in SUBSET Timer /\ Head(enters) \in State /\ Head(arms) \in Trigger
    BY <1>7, HeadTailProperties DEF ArmTimer, TypeOK, MachineInvariant, Control
  <2> QED BY <1>7, <2>1, NoneDue DEF ArmTimer
<1>8. CASE Terminate
  BY <1>8 DEF Terminate, MachineInvariant, TerminatedIsClean, Expired
<1>9. CASE \/ ActionReturns \/ HandlerDone \/ EndExit \/ BeginEnter
           \/ EntryActionsDone \/ EndEnter \/ UpTransition \/ FollowDefault
  BY <1>9 DEF ActionReturns, HandlerDone, BeginPath, EndExit, BeginEnter,
       EntryActionsDone, EndEnter, UpTransition, FollowDefault
<1>10. CASE UNCHANGED vars
  BY <1>10 DEF vars
<1> QED BY <1>1, <1>2, <1>3, <1>4, <1>5, <1>6, <1>7, <1>8, <1>9, <1>10
        DEF Next, Internal, Progress

(* With durations that are not zero, and do not wrap to zero, a dispatch   *)
(* that returns Ok leaves no timer due, in every chart.                    *)
THEOREM DispatchIsQuiescent ==
  ASSUME PositiveDurations
  PROVE  Spec => DispatchDrainsTimers
<1>1. Init => DueIsPending
  BY DEF Init, DueIsPending
<1>2. TypeOK /\ MachineInvariant /\ DueIsPending /\ [Next]_vars => DueIsPending'
  BY InvariantStep, DueStep
<1> DEFINE Drained ==
      call = "dispatch" /\ call' = "none" /\ result' = "Ok" => Expired(timers') = {}
<1>3. MachineInvariant /\ DueIsPending /\ [Next]_vars => [Drained]_vars
  <2> SUFFICES ASSUME MachineInvariant, DueIsPending, Next,
                      call = "dispatch", call' = "none", result' = "Ok"
               PROVE  Expired(timers') = {}
    BY DEF vars
  <2>1. DispatchChecks \/ DispatchDrained
    BY OkFromDispatch
  <2>2. CASE DispatchDrained
    BY <2>2 DEF DispatchDrained, DispatchReturns, DueIsPending
  <2>3. CASE DispatchChecks
    BY <2>3 DEF DispatchChecks, DispatchReturns, MachineInvariant, TerminatedIsClean, Expired
  <2> QED BY <2>1, <2>2, <2>3
<1> QED BY <1>1, <1>2, <1>3, MachineInvariantHolds, PTL DEF Spec, DispatchDrainsTimers

-----------------------------------------------------------------------------
(* What a transition leaves alone, and what an entry starts.               *)
(*                                                                         *)
(* KeepsCommonAncestors: the part of the configuration a path never exits  *)
(* (Untouched) includes what the two ends share, from the first exit on.   *)
(* OwnedTimersArmed: if the timers declared along every path fit the       *)
(* table, a start is never refused, since all that is armed is declared on *)
(* the path being entered and the pair to arm is not among it.             *)

(* What is left of the configuration is a sequence of states. *)
LEMMA UntouchedType ==
  ASSUME TypeOK
  PROVE  Untouched \in Seq(State)
<1>1. Len(exits) \in Nat /\ Len(active) \in Nat
      /\ \A i \in 1 .. Len(active) : active[i] \in State
  BY LenProperties, ElementOfSeq DEF TypeOK
<1>2. \A i \in Len(exits) + 1 .. Len(active) : active[i] \in State
  BY <1>1
<1> QED BY <1>1, <1>2, SubSeqProperties DEF Untouched

(* A path sets out with all that its ends share in the part it leaves. *)
LEMMA SharedAtBegin ==
  ASSUME NEW from \in State, NEW to \in State, active = TerminatePath[from],
         BeginPath(from, to)
  PROVE  SharedIsUntouched'
<1>1. PICK rest \in Seq(State) : TerminatePath[from] = ExitPath[from][to] \o rest
  BY PathsShareRest
<1>2. ExitPath[from][to] \in Seq(State)
  BY TableTypes
<1>3. active' = active /\ exits' = ExitPath[from][to] /\ target' = to /\ origin' = from
  BY DEF BeginPath
<1>4. Untouched' = rest
  <2>1. SubSeq(active', Len(exits') + 1, Len(active')) = rest
    BY <1>1, <1>2, <1>3, RestOfConcat
  <2> QED BY <2>1 DEF Untouched
<1>5. Range(TerminatePath[from]) = Range(ExitPath[from][to]) \cup Range(rest)
  BY <1>1, <1>2, RangeConcatenation
<1>6. Range(ExitPath[from][to]) \cap Shared(from, to) = {}
  BY SharedStays
<1>7. Shared(from, to) \subseteq Range(rest)
  BY <1>5, <1>6 DEF Shared
<1> QED BY <1>3, <1>4, <1>7 DEF SharedIsUntouched

(* An exit takes nothing from the part that stays. *)
LEMMA SharedAtExit ==
  ASSUME TypeOK, MachineInvariant, SharedIsUntouched, EndExit
  PROVE  SharedIsUntouched'
<1>1. exits # <<>> /\ OnTheWay /\ Moving
  BY DEF EndExit, MachineInvariant, Control, Moving
<1>2. /\ Tail(exits) \in Seq(State) /\ Untouched \in Seq(State)
      /\ exits' = Tail(exits) /\ active' = exits' \o Untouched
  BY <1>1, ExitLeaves DEF EndExit
<1>3. Untouched' = Untouched
  <2>1. SubSeq(active', Len(exits') + 1, Len(active')) = Untouched
    BY <1>2, RestOfConcat
  <2> QED BY <2>1 DEF Untouched
<1>4. target' = target /\ origin' = origin
  BY DEF EndExit
<1> QED BY <1>1, <1>3, <1>4 DEF SharedIsUntouched

(* An entry adds to it. *)
LEMMA SharedAtEnter ==
  ASSUME TypeOK, MachineInvariant, SharedIsUntouched, EndEnter
  PROVE  SharedIsUntouched'
<1>1. /\ exits = <<>> /\ enters # <<>> /\ Moving
      /\ exits' = exits /\ active' = <<Head(enters)>> \o active
      /\ target' = target /\ origin' = origin
  BY DEF EndEnter, MachineInvariant, Control, Moving
<1>2. Head(enters) \in State /\ active \in Seq(State)
  BY <1>1, HeadTailProperties DEF TypeOK
<1>3. active' \in Seq(State) /\ Range(active') = {Head(enters)} \cup Range(active)
  BY <1>1, <1>2, RangeOfPush, ConcatProperties
<1>4. Untouched = active /\ Untouched' = active'
  BY <1>1, <1>2, <1>3, SubSeqFull, EmptySeq DEF Untouched
<1> QED BY <1>1, <1>3, <1>4 DEF SharedIsUntouched

(* Every step keeps what the ends of the transition share in the part of   *)
(* the configuration that stays.                                           *)
LEMMA SharedStep ==
  ASSUME TypeOK, MachineInvariant, SharedIsUntouched, [Next]_vars
  PROVE  SharedIsUntouched'
<1>1. CASE EndExit
  BY <1>1, SharedAtExit
<1>2. CASE EndEnter
  BY <1>2, SharedAtEnter
<1>3. CASE HandlerDone \/ FollowDefault
  <2>1. current \in State /\ active = TerminatePath[current]
    BY <1>3 DEF HandlerDone, FollowDefault, MachineInvariant, Control, TypeOK,
         ActiveMatchesCurrent, Moving
  <2>2. DefaultChild[current] \in State \cup {None} /\ target \in State \cup {None}
    BY <2>1, TableTypes DEF TypeOK
  <2>3. ASSUME NEW to \in State, BeginPath(current, to) PROVE SharedIsUntouched'
    BY <2>1, <2>3, SharedAtBegin
  <2>4. CASE phase' = "return"
    BY <2>4 DEF SharedIsUntouched, Moving
  <2> QED BY <1>3, <2>2, <2>3, <2>4 DEF HandlerDone, FollowDefault
<1>4. CASE \/ UpTransition \/ Terminate
           \/ DispatchStep \/ \E d \in Elapsed : Step(d)
           \/ StepReturns \/ DispatchChecks \/ DispatchDrained
  BY <1>4 DEF UpTransition, Terminate, DispatchStep, Step, EnterRoot, FireTimer, Fire,
       TakeEvent, NothingDue, StepReturns, DispatchChecks, DispatchDrained, DispatchReturns,
       SharedIsUntouched, Moving
<1>5. CASE \/ ActionReturns \/ BeginExit \/ BeginEnter \/ EntryActionsDone \/ ArmTimer
           \/ TakeOverflow \/ UNCHANGED vars
  BY <1>5 DEF ActionReturns, BeginExit, BeginEnter, EntryActionsDone, ArmTimer,
       TakeOverflow, vars, frame, history, SharedIsUntouched, Moving, Untouched
<1>6. CASE \E e \in Event : Emit(e) \/ Send(e) \/ Dispatch(e)
  BY <1>6 DEF Emit, Send, Dispatch, frame, SharedIsUntouched, Moving, Untouched
<1> QED BY <1>1, <1>2, <1>3, <1>4, <1>5, <1>6 DEF Next, Internal, Progress

(* In every chart whose exit slices end below the common ancestors, no     *)
(* transition leaves and re-enters what its two ends share.                *)
THEOREM CommonAncestorsStay == Spec => []KeepsCommonAncestors
<1>1. Init => SharedIsUntouched
  BY DEF Init, SharedIsUntouched, Moving
<1>2. TypeOK /\ MachineInvariant /\ SharedIsUntouched /\ [Next]_vars => SharedIsUntouched'
  BY SharedStep
<1>3. TypeOK /\ MachineInvariant /\ SharedIsUntouched => KeepsCommonAncestors
  <2> SUFFICES ASSUME TypeOK, MachineInvariant, SharedIsUntouched, Moving, target # None,
                      origin # None
               PROVE  Shared(origin, target) \subseteq Range(active)
    BY DEF KeepsCommonAncestors
  <2>1. active = exits \o Untouched /\ exits \in Seq(State)
    BY DEF MachineInvariant, OnTheWay, TypeOK
  <2>2. Range(Untouched) \subseteq Range(active)
    BY <2>1, UntouchedType, RangeConcatenation
  <2> QED BY <2>2 DEF SharedIsUntouched
<1> QED BY <1>1, <1>2, <1>3, MachineInvariantHolds, PTL DEF Spec

-----------------------------------------------------------------------------
(* Timers: the table *)

(* Counting down changes no pair. *)
LEMMA DecrementKeepsPairs ==
  ASSUME NEW ts \in SUBSET Timer, NEW d \in Nat, OneEntryEach(ts)
  PROVE  /\ OneEntryEach(Decrement(ts, d))
         /\ \A e \in Decrement(ts, d) : \E f \in ts : f.state = e.state /\ f.trigger = e.trigger
         /\ \A s \in State, t \in Trigger :
              Slot(ts, s, t) # {} => Slot(Decrement(ts, d), s, t) # {}
<1> DEFINE Down(e) == [e EXCEPT !.left = IF Nanos(d) < @ THEN @ - Nanos(d) ELSE 0]
<1>1. \A e \in ts : Down(e).state = e.state /\ Down(e).trigger = e.trigger
  BY DEF Timer
<1>2. Decrement(ts, d) = {Down(e) : e \in ts}
  BY DEF Decrement
<1> HIDE DEF Down
<1> QED BY <1>1, <1>2 DEF OneEntryEach, Slot

(* Start adds the pair it is given, if there is room, and loses none.      *)
LEMMA StartArms ==
  ASSUME NEW ts \in SUBSET Timer, NEW s \in State, NEW t \in Trigger, NEW d \in Nat,
         OneEntryEach(ts), Slot(ts, s, t) # {} \/ Cardinality(ts) < Capacity
  PROVE  /\ OneEntryEach(Start(ts, s, t, d))
         /\ \A e \in Start(ts, s, t, d) : e \in ts \/ (e.state = s /\ e.trigger = t)
         /\ Slot(Start(ts, s, t, d), s, t) # {}
         /\ \A r \in State, u \in Trigger :
              Slot(ts, r, u) # {} => Slot(Start(ts, s, t, d), r, u) # {}
<1> DEFINE new == [state |-> s, trigger |-> t, left |-> Nanos(d)]
<1>1. Start(ts, s, t, d) = (ts \ Slot(ts, s, t)) \cup {new}
  BY DEF Start
<1>2. new.state = s /\ new.trigger = t
  OBVIOUS
<1> HIDE DEF new
<1> QED BY <1>1, <1>2 DEF OneEntryEach, Slot

(* A table that holds some of a set of pairs, each at most once, but not   *)
(* one of them, has room if the set has.                                   *)
LEMMA RoomFor ==
  ASSUME NEW ts \in SUBSET Timer, NEW S, IsFiniteSet(S), OneEntryEach(ts),
         \A e \in ts : <<e.state, e.trigger>> \in S,
         NEW s \in State, NEW t \in Trigger, <<s, t>> \in S, Slot(ts, s, t) = {},
         Cardinality(S) <= Capacity
  PROVE  Cardinality(ts) < Capacity
<1> DEFINE pair == [e \in ts |-> <<e.state, e.trigger>>]
           T == S \ {<<s, t>>}
<1>1. \A e \in ts : <<e.state, e.trigger>> # <<s, t>>
  BY DEF Slot
<1>2. pair \in [ts -> T]
  BY <1>1
<1>3. IsInjective(pair)
  BY DEF IsInjective, OneEntryEach
<1>4. pair \in Injection(ts, T)
  BY <1>2, <1>3 DEF Injection
<1>5. IsFiniteSet(T) /\ Cardinality(T) = Cardinality(S) - 1
  BY FS_RemoveElement
<1> HIDE DEF pair, T
<1>6. IsFiniteSet(ts) /\ Cardinality(ts) <= Cardinality(T)
  BY <1>4, <1>5, FS_Injection
<1>7. Cardinality(ts) \in Nat /\ Cardinality(S) \in Nat
  BY <1>6, FS_CardinalityType
<1> QED BY <1>5, <1>6, <1>7, TimerAssumption

(* No state is on a path twice. *)
LEMMA HeadNotInTail ==
  ASSUME NEW p \in Seq(State), p # <<>>, p = TerminatePath[Head(p)]
  PROVE  Head(p) \notin Range(Tail(p))
<1>1. /\ Len(p) \in Nat \ {0} /\ DOMAIN p = 1 .. Len(p) /\ Head(p) = p[1]
      /\ Tail(p) \in Seq(State) /\ Len(Tail(p)) = Len(p) - 1
      /\ DOMAIN Tail(p) = 1 .. Len(Tail(p)) /\ Head(p) \in State
      /\ \A i \in 1 .. Len(Tail(p)) : Tail(p)[i] = p[i + 1]
  BY EmptySeq, HeadTailProperties, LenProperties
<1> SUFFICES ASSUME Head(p) \in Range(Tail(p)) PROVE FALSE
  OBVIOUS
<1>2. PICK i \in 1 .. Len(p) - 1 : Tail(p)[i] = Head(p)
  BY <1>1 DEF Range
<1>3. i + 1 \in 1 .. Len(p) /\ p[i + 1] = Head(p)
  BY <1>1, <1>2
<1>4. TerminatePath[Head(p)] = SubSeq(p, i + 1, Len(p))
  <2>1. TerminatePath[p[i + 1]] = SubSeq(p, i + 1, Len(p))
    BY <1>1, <1>3, PathsAreClosed
  <2> QED BY <1>3, <2>1
<1>5. Len(SubSeq(p, i + 1, Len(p))) = Len(p) - (i + 1) + 1
  <2>1. \A j \in i + 1 .. Len(p) : p[j] \in State
    BY <1>1, <1>3, ElementOfSeq
  <2> QED BY <1>1, <1>3, <2>1, SubSeqProperties
<1> QED BY <1>1, <1>3, <1>4, <1>5

-----------------------------------------------------------------------------
(* Timers: the actions *)

AllArmed == TimersDeclared /\ OwnedTimersArmed

(* Outside of a path an armed timer is declared on the path of `current`.  *)
LEMMA ArmedOnPath ==
  ASSUME TypeOK, MachineInvariant, TimersDeclared, ~Moving, current # None
  PROVE  \A e \in timers : <<e.state, e.trigger>> \in Declared(current)
<1>1. \A e \in timers : e \in Timer /\ e.state \in State /\ e.trigger \in Trigger
  BY TimerType DEF TypeOK
<1>2. \A e \in timers : e.state \in Range(active)
  BY DEF MachineInvariant, TimersOfActive, Moving
<1>3. active = TerminatePath[current]
  BY DEF MachineInvariant, ActiveMatchesCurrent
<1> QED BY <1>1, <1>2, <1>3 DEF Declared, TimersDeclared

(* The timer e started again once it was popped.                           *)
Again(ts, e) == Start(ts \ {e}, e.state, e.trigger, DurationFor[e.trigger])

(* A timer that repeats finds room again. *)
LEMMA RoomAgain ==
  ASSUME TypeOK, MachineInvariant, AllArmed, EveryPathFits, ~Moving, current # None,
         NEW d \in Nat, NEW e \in Ticked(d)
  PROVE  /\ OneEntryEach(Again(Ticked(d), e))
         /\ \A f \in Again(Ticked(d), e) :
              f \in Ticked(d) \ {e} \/ (f.state = e.state /\ f.trigger = e.trigger)
         /\ Slot(Again(Ticked(d), e), e.state, e.trigger) # {}
         /\ \A s \in State, t \in Trigger :
              Slot(Ticked(d) \ {e}, s, t) # {} => Slot(Again(Ticked(d), e), s, t) # {}
<1> DEFINE ticked == Ticked(d)
           r == ticked \ {e}
           dur == DurationFor[e.trigger]
           S == Declared(current)
<1>1. timers \in SUBSET Timer /\ OneEntryEach(timers) /\ current \in State
  BY DEF TypeOK, AllArmed, TimersDeclared
<1>2. /\ ticked \in SUBSET Timer /\ OneEntryEach(ticked)
      /\ \A f \in ticked : \E g \in timers : g.state = f.state /\ g.trigger = f.trigger
  BY <1>1, DecrementTimers, DecrementKeepsPairs DEF Ticked
<1> HIDE DEF ticked
<1>3. e \in ticked
  BY DEF ticked
<1>4. e.state \in State /\ e.trigger \in Trigger /\ dur \in Nat
  BY <1>2, <1>3, TimerType, TableTypes
<1>5. r \in SUBSET Timer /\ OneEntryEach(r) /\ Slot(r, e.state, e.trigger) = {}
  BY <1>2, <1>3 DEF OneEntryEach, Slot
<1>6. \A f \in ticked : <<f.state, f.trigger>> \in S
  BY <1>1, <1>2, ArmedOnPath DEF AllArmed
<1>7. Cardinality(r) < Capacity
  <2>1. IsFiniteSet(S) /\ Cardinality(S) <= Capacity
    BY <1>1 DEF EveryPathFits
  <2>2. <<e.state, e.trigger>> \in S /\ \A f \in r : <<f.state, f.trigger>> \in S
    BY <1>3, <1>6
  <2> HIDE DEF S, r
  <2> QED BY <1>4, <1>5, <2>1, <2>2, RoomFor
<1> DEFINE again == Start(r, e.state, e.trigger, dur)
<1>8. /\ OneEntryEach(again)
      /\ \A f \in again : f \in r \/ (f.state = e.state /\ f.trigger = e.trigger)
      /\ Slot(again, e.state, e.trigger) # {}
      /\ \A s \in State, t \in Trigger : Slot(r, s, t) # {} => Slot(again, s, t) # {}
  <2> HIDE DEF r, dur
  <2> QED BY <1>4, <1>5, <1>7, StartArms
<1>9. Again(Ticked(d), e) = again /\ r = Ticked(d) \ {e}
  BY DEF Again, ticked
<1> HIDE DEF again, r
<1> QED BY <1>8, <1>9

(* A unit of work only counts the timers down, or fires one of them, which *)
(* has room to start again.                                                *)
LEMMA ArmedAtWork ==
  ASSUME TypeOK, MachineInvariant, AllArmed, EveryPathFits, ~Moving, NEW d \in Nat, NEW c,
         EnterRoot(c) \/ FireTimer(d, c) \/ TakeEvent(d, c) \/ NothingDue(d, c)
  PROVE  AllArmed'
<1>1. timers \in SUBSET Timer /\ OneEntryEach(timers) /\ Exiting = {}
  BY DEF TypeOK, AllArmed, TimersDeclared, Moving, Exiting
<1>2. OwnedTimers \in [State -> Seq(Trigger)] /\ active \in Seq(State)
      /\ \A s \in Range(active) : s \in State /\ Range(OwnedTimers[s]) \subseteq Trigger
  <2>1. OwnedTimers \in [State -> Seq(Trigger)] /\ active \in Seq(State)
    BY TableTypes DEF TypeOK
  <2>2. \A s \in Range(active) : s \in State
    BY <2>1, ElementOfSeq, LenProperties DEF Range
  <2>3. \A s \in State : Range(OwnedTimers[s]) \subseteq Trigger
    BY <2>1, ElementOfSeq, LenProperties DEF Range
  <2> QED BY <2>1, <2>2, <2>3
<1>3. active' = active /\ Exiting' = {} /\ phase' # "arming"
  BY DEF EnterRoot, FireTimer, Fire, TakeEvent, NothingDue, Exiting
<1>4. CASE EnterRoot(c)
  BY <1>1, <1>3, <1>4 DEF EnterRoot, fields, AllArmed, TimersDeclared, OwnedTimersArmed
<1> DEFINE ticked == Ticked(d)
<1>5. /\ ticked \in SUBSET Timer /\ OneEntryEach(ticked)
      /\ \A e \in ticked : \E f \in timers : f.state = e.state /\ f.trigger = e.trigger
      /\ \A s \in State, t \in Trigger : Slot(timers, s, t) # {} => Slot(ticked, s, t) # {}
  BY <1>1, DecrementTimers, DecrementKeepsPairs DEF Ticked
<1> HIDE DEF ticked
<1>6. /\ \A e \in ticked : e.trigger \in Range(OwnedTimers[e.state])
      /\ \A s \in Range(active) : \A t \in Range(OwnedTimers[s]) :
           Slot(ticked, s, t) # {} \/ <<s, t>> \in fired
  BY <1>1, <1>2, <1>5 DEF AllArmed, TimersDeclared, OwnedTimersArmed
<1>7. CASE TakeEvent(d, c) \/ NothingDue(d, c)
  <2>1. timers' = ticked /\ fired' = fired
    BY <1>7 DEF TakeEvent, NothingDue, ticked
  <2> QED BY <1>3, <1>5, <1>6, <2>1 DEF AllArmed, TimersDeclared, OwnedTimersArmed
<1>8. CASE FireTimer(d, c)
  <2> DEFINE rest(e) == ticked \ {e}
             again(e) == Start(rest(e), e.state, e.trigger, DurationFor[e.trigger])
  <2>1. PICK e \in ticked :
          /\ timers' = IF Repeats[e.trigger] THEN again(e) ELSE rest(e)
          /\ fired' = IF Repeats[e.trigger] THEN fired
                                            ELSE fired \cup {<<e.state, e.trigger>>}
    <3>1. PICK e \in Poppable(Ticked(d)) : Fire(e, d, c)
      BY <1>8 DEF FireTimer
    <3>2. e \in ticked
      BY <1>5, <3>1, PoppableTimers DEF ticked
    <3> QED BY <3>1, <3>2 DEF Fire, ticked
  <2>2. e.state \in State /\ e.trigger \in Trigger /\ DurationFor[e.trigger] \in Nat
    BY <1>5, <2>1, TimerType, TableTypes
  <2>3. rest(e) \in SUBSET Timer /\ OneEntryEach(rest(e))
    BY <1>5 DEF OneEntryEach
  <2>4. Slot(rest(e), e.state, e.trigger) = {}
    BY <1>5, <2>1 DEF OneEntryEach, Slot
  <2>5. \A s \in State, t \in Trigger :
          Slot(ticked, s, t) # {} => \/ s = e.state /\ t = e.trigger
                                    \/ Slot(rest(e), s, t) # {}
    BY DEF Slot
  <2>6. CASE ~Repeats[e.trigger]
    BY <1>2, <1>3, <1>6, <2>1, <2>3, <2>5, <2>6
    DEF AllArmed, TimersDeclared, OwnedTimersArmed
  <2>7. CASE Repeats[e.trigger]
    <3>1. /\ OneEntryEach(again(e))
          /\ \A f \in again(e) : f \in rest(e) \/ (f.state = e.state /\ f.trigger = e.trigger)
          /\ Slot(again(e), e.state, e.trigger) # {}
          /\ \A s \in State, t \in Trigger : Slot(rest(e), s, t) # {} => Slot(again(e), s, t) # {}
      <4>1. current # None
        BY <1>8 DEF FireTimer, Fire
      <4> QED BY <2>1, <4>1, RoomAgain DEF ticked, Again
    <3>2. timers' = again(e) /\ fired' = fired
      BY <2>1, <2>7
    <3> HIDE DEF again
    <3>3. TimersDeclared'
      BY <1>3, <1>6, <2>1, <3>1, <3>2 DEF TimersDeclared
    <3>4. OwnedTimersArmed'
      BY <1>2, <1>3, <1>6, <2>5, <3>1, <3>2 DEF OwnedTimersArmed
    <3> QED BY <3>3, <3>4 DEF AllArmed
  <2> QED BY <2>6, <2>7
<1> QED BY <1>4, <1>7, <1>8

(* An exit cancels what it leaves, and nothing else. *)
LEMMA ArmedAtExit ==
  ASSUME TypeOK, MachineInvariant, AllArmed, BeginExit \/ EndExit
  PROVE  AllArmed'
<1>1. CASE BeginExit
  <2>1. /\ timers' = CancelState(timers, Head(exits)) /\ phase' = "exiting"
        /\ Exiting' = {Head(exits)} /\ Exiting = {} /\ active' = active
        /\ fired' = {p \in fired : p[1] # Head(exits)}
    BY <1>1 DEF BeginExit, Exiting
  <2>2. \A e \in timers' : e \in timers
    BY <2>1 DEF CancelState
  <2>3. \A s, t : s # Head(exits) =>
          /\ Slot(timers, s, t) # {} => Slot(timers', s, t) # {}
          /\ <<s, t>> \in fired => <<s, t>> \in fired'
    BY <2>1 DEF CancelState, Slot
  <2> QED BY <2>1, <2>2, <2>3 DEF AllArmed, TimersDeclared, OneEntryEach, OwnedTimersArmed
<1>2. CASE EndExit
  <2>1. exits # <<>> /\ OnTheWay /\ Exiting = {Head(exits)}
    BY <1>2 DEF EndExit, MachineInvariant, Control, Moving, Exiting
  <2>2. active # <<>> /\ Head(active) = Head(exits) /\ active' = Tail(active)
    BY <1>2, <2>1, ExitLeaves DEF EndExit
  <2>3. active \in Seq(State) /\ active = TerminatePath[Head(active)]
    BY <2>2 DEF TypeOK, MachineInvariant, ActiveIsPath
  <2>4. Head(exits) \notin Range(active')
    BY <2>2, <2>3, HeadNotInTail
  <2>5. Range(active') \subseteq Range(active)
    <3>1. DOMAIN active = 1 .. Len(active) /\ DOMAIN active' = 1 .. Len(active')
          /\ Len(active) \in Nat /\ Len(active') = Len(active) - 1
          /\ \A i \in 1 .. Len(active') : active'[i] = active[i + 1]
      BY <2>2, <2>3, EmptySeq, HeadTailProperties, LenProperties
    <3>2. \A i \in 1 .. Len(active') : i + 1 \in 1 .. Len(active)
      BY <3>1
    <3> QED BY <3>1, <3>2 DEF Range
  <2>6. timers' = timers /\ fired' = fired /\ phase' = "path" /\ Exiting' = {}
    BY <1>2 DEF EndExit, fields, Exiting
  <2> QED BY <2>1, <2>4, <2>5, <2>6 DEF AllArmed, TimersDeclared, OwnedTimersArmed
<1> QED BY <1>1, <1>2

(* An entry finds room for each of its timers. *)
LEMMA ArmedAtArming ==
  ASSUME TypeOK, MachineInvariant, AllArmed, EveryPathFits, ArmTimer
  PROVE  /\ AllArmed'
         /\ Slot(timers', Head(enters), Head(arms)) # {}
         /\ \A r \in State, u \in Trigger : Slot(timers, r, u) # {} => Slot(timers', r, u) # {}
<1> DEFINE h == Head(enters)
           t == Head(arms)
           d == DurationFor[t]
<1>1. /\ phase = "arming" /\ phase' = phase /\ arms # <<>> /\ arms' = Tail(arms)
      /\ enters' = enters /\ active' = active /\ fired' = fired /\ Exiting = {} /\ Exiting' = {}
      /\ timers' = Start(timers, h, t, d)
      /\ exits = <<>> /\ enters # <<>> /\ OnTheWay /\ target # None
  BY DEF ArmTimer, history, Exiting, MachineInvariant, Control, Moving, OnTheWay
<1>2. /\ h \in State /\ enters \in Seq(State) /\ active \in Seq(State) /\ target \in State
      /\ t \in Trigger /\ t \in Range(arms) /\ arms \in Seq(Trigger)
      /\ d \in Nat
  <2>1. h \in State /\ t \in Trigger /\ arms \in Seq(Trigger)
    BY <1>1, HeadTailProperties DEF TypeOK
  <2>2. t \in Range(arms)
    <3>1. 1 \in 1 .. Len(arms) /\ DOMAIN arms = 1 .. Len(arms) /\ t = arms[1]
      BY <1>1, <2>1, EmptySeq, LenProperties, HeadTailProperties
    <3> QED BY <3>1 DEF Range
  <2> QED BY <1>1, <2>1, <2>2, TableTypes DEF TypeOK
<1>3. /\ timers \in SUBSET Timer /\ OneEntryEach(timers)
      /\ \A e \in timers : e.trigger \in Range(OwnedTimers[e.state])
      /\ Range(arms) \subseteq Range(OwnedTimers[h])
      /\ \A u \in Range(OwnedTimers[h]) \ Range(arms) : Slot(timers, h, u) # {}
  BY <1>1 DEF TypeOK, AllArmed, TimersDeclared
<1>4. Range(TerminatePath[h]) = {h} \cup Range(active)
  <2>1. Untouched = active
    BY <1>1, <1>2, SubSeqFull, EmptySeq DEF Untouched
  <2>2. TerminatePath[h] = <<h>> \o active
    BY <1>1, <1>2, <2>1, HeadOfEnters DEF OnTheWay
  <2> QED BY <1>2, <2>2, RangeOfPush
<1> HIDE DEF h, t, d
<1>5. Slot(timers, h, t) # {} \/ Cardinality(timers) < Capacity
  <2> SUFFICES ASSUME Slot(timers, h, t) = {} PROVE Cardinality(timers) < Capacity
    OBVIOUS
  <2> DEFINE S == Declared(h)
  <2>1. \A e \in timers : e.state \in {h} \cup Range(active)
    BY <1>1 DEF MachineInvariant, TimersOfActive, h
  <2>2. \A e \in timers : <<e.state, e.trigger>> \in S
    BY <1>3, <1>4, <2>1, TimerType DEF Declared
  <2>3. <<h, t>> \in S
    BY <1>2, <1>3, <1>4 DEF Declared
  <2>4. IsFiniteSet(S) /\ Cardinality(S) <= Capacity
    BY <1>2 DEF EveryPathFits
  <2> HIDE DEF S
  <2> QED BY <1>2, <1>3, <2>2, <2>3, <2>4, RoomFor
<1>6. /\ OneEntryEach(timers')
      /\ \A e \in timers' : e \in timers \/ (e.state = h /\ e.trigger = t)
      /\ Slot(timers', h, t) # {}
      /\ \A r \in State, u \in Trigger : Slot(timers, r, u) # {} => Slot(timers', r, u) # {}
  BY <1>1, <1>2, <1>3, <1>5, StartArms
<1>7. \A u \in Range(arms) : u = t \/ u \in Range(arms')
  BY <1>1, <1>2, RangeOfTail DEF t
<1>8. Range(arms') \subseteq Range(arms)
  <2>1. DOMAIN arms = 1 .. Len(arms) /\ DOMAIN arms' = 1 .. Len(arms')
        /\ Len(arms) \in Nat /\ Len(arms') = Len(arms) - 1
        /\ \A i \in 1 .. Len(arms') : arms'[i] = arms[i + 1]
    BY <1>1, <1>2, EmptySeq, HeadTailProperties, LenProperties
  <2>2. \A i \in 1 .. Len(arms') : i + 1 \in 1 .. Len(arms)
    BY <2>1
  <2> QED BY <2>1, <2>2 DEF Range
<1>9. \A s \in State : Range(OwnedTimers[s]) \subseteq Trigger
  BY TableTypes, ElementOfSeq, LenProperties, SMTT(30) DEF Range
<1>10. Head(enters') = h
  BY <1>1 DEF h
<1>11. TimersDeclared'
  <2>1. \A e \in timers' : e.trigger \in Range(OwnedTimers[e.state])
    BY <1>2, <1>3, <1>6
  <2>2. Range(arms') \subseteq Range(OwnedTimers[h])
    BY <1>3, <1>8
  <2>3. \A u \in Range(OwnedTimers[h]) \ Range(arms') : Slot(timers', h, u) # {}
    BY <1>2, <1>3, <1>6, <1>7, <1>9
  <2> QED BY <1>6, <1>10, <2>1, <2>2, <2>3 DEF TimersDeclared
<1>12. OwnedTimersArmed'
  <2>1. \A s \in Range(active) : s \in State
    BY <1>2, ElementOfSeq, LenProperties DEF Range
  <2> QED BY <1>1, <1>6, <1>9, <2>1 DEF AllArmed, OwnedTimersArmed
<1> QED BY <1>6, <1>11, <1>12 DEF AllArmed, h, t

(* An entry that is over has armed all its timers. *)
LEMMA ArmedAtEnter ==
  ASSUME TypeOK, MachineInvariant, AllArmed, EntryActionsDone \/ EndEnter
  PROVE  AllArmed'
<1>1. CASE EntryActionsDone
  BY <1>1 DEF EntryActionsDone, fields, history, AllArmed, TimersDeclared, OwnedTimersArmed,
       Exiting
<1>2. CASE EndEnter
  <2>1. /\ phase = "arming" /\ arms = <<>> /\ enters # <<>> /\ phase' # "arming"
        /\ active' = <<Head(enters)>> \o active /\ timers' = timers /\ fired' = fired
        /\ Exiting = {} /\ Exiting' = {}
    BY <1>2 DEF EndEnter, MachineInvariant, Control, Exiting
  <2>2. Range(active') = {Head(enters)} \cup Range(active)
    <3>1. Head(enters) \in State /\ active \in Seq(State)
      BY <2>1, HeadTailProperties DEF TypeOK
    <3> QED BY <2>1, <3>1, RangeOfPush
  <2>3. Range(arms) = {}
    BY <2>1 DEF Range
  <2> QED BY <2>1, <2>2, <2>3 DEF AllArmed, TimersDeclared, OwnedTimersArmed
<1> QED BY <1>1, <1>2

(* Every step keeps the timers of the active states armed. *)
LEMMA ArmedStep ==
  ASSUME TypeOK, MachineInvariant, AllArmed, EveryPathFits, [Next]_vars
  PROVE  AllArmed'
<1>1. CASE DispatchStep \/ \E d \in Elapsed : Step(d)
  <2>1. ~Moving
    BY <1>1 DEF DispatchStep, Step, Idle, MachineInvariant, Control, Moving
  <2>2. 0 \in Nat /\ \A d \in Elapsed : d \in Nat
    BY TableTypes
  <2> QED BY <1>1, <2>1, <2>2, ArmedAtWork DEF DispatchStep, Step
<1>2. CASE BeginExit \/ EndExit
  BY <1>2, ArmedAtExit
<1>3. CASE ArmTimer
  BY <1>3, ArmedAtArming
<1>4. CASE EntryActionsDone \/ EndEnter
  BY <1>4, ArmedAtEnter
<1>5. CASE Terminate
  <2>1. active = <<>> /\ active' = active /\ timers' = timers /\ phase' # "arming"
    BY <1>5, Arrived DEF Terminate, history
  <2>2. Range(active') = {}
    BY <2>1 DEF Range
  <2> QED BY <2>1, <2>2 DEF AllArmed, TimersDeclared, OwnedTimersArmed
<1>6. CASE HandlerDone \/ FollowDefault \/ UpTransition \/ BeginEnter
  BY <1>6 DEF HandlerDone, FollowDefault, BeginPath, UpTransition, BeginEnter, fields, history,
       AllArmed, TimersDeclared, OwnedTimersArmed, Exiting
<1>7. CASE ActionReturns \/ TakeOverflow \/ UNCHANGED vars
  BY <1>7 DEF ActionReturns, TakeOverflow, vars, fields, frame, history,
       AllArmed, TimersDeclared, OwnedTimersArmed, Exiting
<1>8. CASE StepReturns \/ DispatchChecks \/ DispatchDrained
  BY <1>8 DEF StepReturns, DispatchChecks, DispatchDrained, DispatchReturns, fields, history,
       AllArmed, TimersDeclared, OwnedTimersArmed, Exiting
<1>9. CASE \E e \in Event : Emit(e) \/ Send(e) \/ Dispatch(e)
  BY <1>9 DEF Emit, Send, Dispatch, Idle, frame, MachineInvariant, Control,
       AllArmed, TimersDeclared, OwnedTimersArmed, Exiting
<1> QED BY <1>1, <1>2, <1>3, <1>4, <1>5, <1>6, <1>7, <1>8, <1>9 DEF Next, Internal, Progress

(* Armed timers are those the active states declare, each once.            *)
LEMMA AlwaysArmed ==
  ASSUME EveryPathFits
  PROVE  Spec => []AllArmed
<1>1. Init => AllArmed
  BY DEF Init, AllArmed, TimersDeclared, OneEntryEach, OwnedTimersArmed, Range
<1>2. TypeOK /\ MachineInvariant /\ AllArmed /\ [Next]_vars => AllArmed'
  BY ArmedStep
<1> QED BY <1>1, <1>2, MachineInvariantHolds, PTL DEF Spec

(* In every chart whose timers, path by path, fit the table, every timer   *)
(* of every active state runs, or has fired: no start is ever refused,     *)
(* neither that of an entry nor that of a repeating timer.                 *)
THEOREM EveryTimerRuns ==
  ASSUME EveryPathFits
  PROVE  Spec => []OwnedTimersArmed
<1>1. AllArmed => OwnedTimersArmed
  BY DEF AllArmed
<1> QED BY <1>1, AlwaysArmed, PTL

-----------------------------------------------------------------------------
(* Cancel: a call may be abandoned at any action of the user, any number   *)
(* of times, and nothing that was entered escapes the path of `current`.   *)
(* The argument is MachineInvariant's with Left, the path the locals still *)
(* have to leave, in the place of `active`: `active` may lack states of    *)
(* it, and is only known to lie on it, outer states last.                  *)


(* The states of a path are the nearer to the root the later they come.    *)
LEMMA PathDescends ==
  ASSUME NEW x \in State, NEW a \in Range(TerminatePath[x])
  PROVE  /\ a \in State
         /\ Len(TerminatePath[a]) \in Nat /\ Len(TerminatePath[x]) \in Nat
         /\ Len(TerminatePath[a]) <= Len(TerminatePath[x])
<1> DEFINE p == TerminatePath[x]
<1>1. p \in Seq(State) /\ Len(p) \in Nat /\ DOMAIN p = 1 .. Len(p)
  BY TableTypes, LenProperties
<1>2. PICK i \in 1 .. Len(p) : a = p[i]
  BY <1>1 DEF Range
<1>3. a \in State
  BY <1>1, <1>2, ElementOfSeq
<1>4. TerminatePath[a] = SubSeq(p, i, Len(p))
  BY <1>2, PathsAreClosed
<1> HIDE DEF p
<1>5. \A k \in i .. Len(p) : p[k] \in State
  BY <1>1, <1>2, ElementOfSeq
<1>6. Len(SubSeq(p, i, Len(p))) = Len(p) - i + 1
  BY <1>1, <1>2, <1>5, SubSeqProperties
<1> QED BY <1>1, <1>2, <1>3, <1>4, <1>6 DEF p

(* ... strictly, below the first.                                          *)
LEMMA TailIsAbove ==
  ASSUME NEW x \in State, NEW a \in Range(Tail(TerminatePath[x]))
  PROVE  /\ Len(TerminatePath[a]) \in Nat
         /\ Len(TerminatePath[a]) < Len(TerminatePath[x])
<1> DEFINE p == TerminatePath[x]
           u == Tail(p)
<1>1. p \in Seq(State) /\ p # <<>> /\ Head(p) = x
  BY TableTypes, PathsAreClosed
<1>2. u \in Seq(State) /\ Len(u) = Len(p) - 1 /\ Len(p) \in Nat
  BY <1>1, HeadTailProperties, LenProperties
<1>3. u # <<>>
  <2>1. DOMAIN <<>> = {}
    OBVIOUS
  <2> QED BY <2>1 DEF Range
<1>4. u = TerminatePath[Head(u)] /\ Head(u) \in State
  BY <1>1, <1>2, <1>3, TailOfPath, HeadTailProperties
<1>5. /\ Len(TerminatePath[a]) \in Nat
      /\ Len(TerminatePath[a]) <= Len(TerminatePath[Head(u)])
  BY <1>4, PathDescends
<1>6. Len(TerminatePath[Head(u)]) = Len(p) - 1
  BY <1>2, <1>4
<1> HIDE DEF p, u
<1> QED BY <1>2, <1>5, <1>6 DEF p

(* The sequences of the argument are sequences of states. *)
LEMMA LeftType ==
  ASSUME TypeOK
  PROVE  Reached \in Seq(State) /\ Left \in Seq(State)
<1>1. Reached \in Seq(State)
  <2>1. CASE target = None
    BY <2>1, EmptySeq DEF Reached
  <2>2. CASE target # None
    <3> DEFINE p == TerminatePath[target]
    <3>1. p \in Seq(State) /\ Len(p) \in Nat /\ Len(enters) \in Nat
      BY <2>2, TableTypes, LenProperties DEF TypeOK
    <3>2. \A k \in Len(enters) + 1 .. Len(p) : p[k] \in State
      BY <3>1, ElementOfSeq
    <3>3. SubSeq(p, Len(enters) + 1, Len(p)) \in Seq(State)
      BY <3>1, <3>2, SubSeqProperties
    <3> QED BY <2>2, <3>3 DEF Reached
  <2> QED BY <2>1, <2>2
<1>2. exits \in Seq(State)
  BY DEF TypeOK
<1> QED BY <1>1, <1>2, ConcatProperties DEF Left

(* What is reached when `enters` is still to come before `rest`. *)
LEMMA ReachedIs ==
  ASSUME NEW to \in State, NEW s \in Seq(State), NEW rest \in Seq(State),
         TerminatePath[to] = Reverse(s) \o rest,
         target' = to, enters' = s
  PROVE  Reached' = rest
<1>1. Reverse(s) \in Seq(State) /\ Len(Reverse(s)) = Len(s)
  BY ReverseProperties
<1>2. SubSeq(TerminatePath[to], Len(s) + 1, Len(TerminatePath[to])) = rest
  BY <1>1, RestOfConcat
<1> QED BY <1>2, TableTypes DEF Reached

-----------------------------------------------------------------------------
(* Steps that move no state *)

(* Timers, queue, flags and callers leave the configuration alone. *)
LEMMA StillStep ==
  ASSUME TypeOK, CancelInvariant,
         \/ \E e \in Event : Emit(e) \/ Send(e) \/ Dispatch(e)
         \/ TakeOverflow \/ StepReturns \/ DispatchChecks \/ DispatchDrained
         \/ ActionReturns \/ BeginEnter \/ EntryActionsDone \/ UNCHANGED vars
  PROVE  CancelInvariant'
<1> USE DEF fields, frame, history, CancelInvariant, Control, NothingOutlivesItsPath,
            EnteredInOrder, PathOf, Moving, CancelOnTheWay, Left, Reached, TimersOfActive,
            Exiting, TerminatedIsClean
<1>1. ASSUME NEW e \in Event, Emit(e) PROVE CancelInvariant'
  BY <1>1 DEF Emit, Push
<1>2. ASSUME NEW e \in Event, Send(e) PROVE CancelInvariant'
  BY <1>2 DEF Send, Idle
<1>3. ASSUME NEW e \in Event, Dispatch(e) PROVE CancelInvariant'
  BY <1>3 DEF Dispatch, Idle
<1>4. CASE TakeOverflow
  BY <1>4 DEF TakeOverflow, Idle
<1>5. CASE StepReturns
  BY <1>5 DEF StepReturns
<1>6. CASE DispatchChecks
  BY <1>6 DEF DispatchChecks, DispatchReturns
<1>7. CASE DispatchDrained
  BY <1>7 DEF DispatchDrained, DispatchReturns
<1>8. CASE ActionReturns
  BY <1>8 DEF ActionReturns
<1>9. CASE BeginEnter
  BY <1>9 DEF BeginEnter
<1>10. CASE EntryActionsDone
  BY <1>10 DEF EntryActionsDone
<1>11. CASE UNCHANGED vars
  BY <1>11 DEF vars
<1> QED BY <1>1, <1>2, <1>3, <1>4, <1>5, <1>6, <1>7, <1>8, <1>9, <1>10, <1>11

(* An abandoned call leaves the machine's fields as they are. *)
LEMMA DropStep ==
  ASSUME TypeOK, CancelInvariant, DropCall
  PROVE  TypeOK' /\ CancelInvariant'
<1>1. TypeOK'
  <2>1. <<>> \in Seq(Action) /\ <<>> \in Seq(State) /\ <<>> \in Seq(Trigger)
    BY EmptySeq
  <2> QED BY <2>1 DEF DropCall, TypeOK, fields, Calls, Phases
<1>2. phase \in {"handler", "exiting", "entering"} /\ ~terminated
  BY DEF DropCall, CancelInvariant, Control
<1>3. TimersOfActive'
  BY <1>2 DEF DropCall, fields, CancelInvariant, TimersOfActive, Exiting
<1>4. Control' /\ ~Moving'
  BY <1>2 DEF DropCall, fields, Control, Moving
<1>5. NothingOutlivesItsPath' /\ EnteredInOrder' /\ TerminatedIsClean'
  BY <1>2 DEF DropCall, fields, CancelInvariant, NothingOutlivesItsPath, PathOf,
       EnteredInOrder, TerminatedIsClean
<1> QED BY <1>1, <1>3, <1>4, <1>5 DEF CancelInvariant

(* A timer of the state that is being entered starts. *)
LEMMA ArmStep ==
  ASSUME TypeOK, CancelInvariant, ArmTimer
  PROVE  CancelInvariant'
<1>1. enters # <<>> /\ arms # <<>> /\ phase = "arming" /\ phase' = "arming"
  BY DEF ArmTimer, CancelInvariant, Control
<1>2. Head(enters) \in State /\ Head(arms) \in Trigger
      /\ DurationFor[Head(arms)] \in Nat /\ timers \in SUBSET Timer
  BY <1>1, HeadTailProperties, TableTypes DEF TypeOK
<1>3. \A e \in timers' : e \in timers \/ e.state = Head(enters)
  BY <1>2, StartTimer DEF ArmTimer
<1>4. TimersOfActive'
  BY <1>1, <1>3 DEF ArmTimer, history, CancelInvariant, TimersOfActive, Exiting
<1> QED BY <1>1, <1>4 DEF ArmTimer, history, CancelInvariant, Control,
          NothingOutlivesItsPath, PathOf, EnteredInOrder, Moving, CancelOnTheWay, Left,
          Reached, TerminatedIsClean

-----------------------------------------------------------------------------
(* Transitions *)

(* A transition sets out from the whole path of `current`. *)
LEMMA SetsOut ==
  ASSUME TypeOK, CancelInvariant, ~Moving, NEW to \in State, current # None, acts = <<>>,
         call # "none", ~terminated, BeginPath(current, to)
  PROVE  CancelInvariant'
<1>1. current \in State /\ ExitPath[current][to] \in Seq(State)
      /\ EnterPath[current][to] \in Seq(State)
  BY TableTypes DEF TypeOK
<1>2. PICK rest \in Seq(State) : /\ TerminatePath[current] = ExitPath[current][to] \o rest
                                 /\ TerminatePath[to] = Reverse(EnterPath[current][to]) \o rest
  BY <1>1, PathsShareRest
<1>3. /\ exits' = ExitPath[current][to] /\ enters' = EnterPath[current][to]
      /\ target' = to /\ phase' = "path" /\ to # None
      /\ UNCHANGED <<fields, call, acts, active>>
  BY TableTypes DEF BeginPath
<1>4. Reached' = rest
  BY <1>1, <1>2, <1>3, ReachedIs
<1>5. Left' = TerminatePath[current]
  BY <1>2, <1>3, <1>4 DEF Left
<1>6. NothingOutlivesItsPath' /\ EnteredInOrder' /\ TerminatedIsClean' /\ TimersOfActive'
  BY <1>3 DEF fields, CancelInvariant, NothingOutlivesItsPath, PathOf, EnteredInOrder,
       TerminatedIsClean, TimersOfActive, Exiting, Moving
<1>7. CancelOnTheWay'
  <2>1. Head(TerminatePath[current]) = current
    BY <1>1, PathsAreClosed
  <2>2. current' = current /\ active' = active
    BY <1>3 DEF fields
  <2>3. Range(active) \subseteq Range(TerminatePath[current])
    BY DEF CancelInvariant, NothingOutlivesItsPath, PathOf
  <2>4. PathOf(current) = TerminatePath[current]
    BY DEF PathOf
  <2> QED BY <1>2, <1>3, <1>4, <1>5, <2>1, <2>2, <2>3, <2>4 DEF CancelOnTheWay, PathOf
<1>8. Control'
  BY <1>3 DEF fields, CancelInvariant, Control
<1> QED BY <1>6, <1>7, <1>8 DEF CancelInvariant

(* After a handler, or after a state was entered. *)
LEMMA GoesOn ==
  ASSUME TypeOK, CancelInvariant, HandlerDone \/ FollowDefault
  PROVE  CancelInvariant'
<1>1. /\ phase \in {"handler", "defaults"} /\ acts = <<>> /\ current # None
      /\ current \in State /\ call # "none" /\ ~terminated /\ ~Moving
  BY DEF HandlerDone, FollowDefault, CancelInvariant, Control, TypeOK, Moving
<1>2. ASSUME NEW to \in State, BeginPath(current, to) PROVE CancelInvariant'
  BY <1>1, <1>2, SetsOut
<1>3. ASSUME phase' = "return",
             UNCHANGED <<fields, call, acts, target, exits, enters, arms, history>>
      PROVE  CancelInvariant'
  BY <1>1, <1>3 DEF fields, history, CancelInvariant, Control, NothingOutlivesItsPath,
       PathOf, EnteredInOrder, Moving, TimersOfActive, Exiting, TerminatedIsClean
<1>4. DefaultChild[current] \in State \cup {None} /\ target \in State \cup {None}
  BY <1>1, TableTypes DEF TypeOK
<1> QED BY <1>2, <1>3, <1>4 DEF HandlerDone, FollowDefault

(* An exit begins by cancelling the timers of the state. *)
LEMMA ExitBegins ==
  ASSUME TypeOK, CancelInvariant, BeginExit
  PROVE  CancelInvariant'
<1>1. \A e \in timers' : e \in timers /\ e.state # Head(exits)
  BY CancelTimers DEF TypeOK, BeginExit
<1>2. TimersOfActive'
  BY <1>1 DEF BeginExit, CancelInvariant, TimersOfActive, Exiting
<1>3. TerminatedIsClean'
  BY DEF BeginExit, CancelInvariant, Control, TerminatedIsClean
<1> QED BY <1>2, <1>3 DEF BeginExit, CancelInvariant, Control, NothingOutlivesItsPath,
          PathOf, EnteredInOrder, Moving, CancelOnTheWay, Left, Reached

(* The state that is exited is the innermost active one, or was exited by  *)
(* an earlier, abandoned call.                                             *)
LEMMA ExitTakes ==
  ASSUME TypeOK, CancelInvariant, EndExit
  PROVE  LET s == Head(exits) IN
         /\ exits # <<>> /\ s \in State /\ Tail(exits) \in Seq(State)
         /\ Left # <<>> /\ Head(Left) = s /\ Left = TerminatePath[s]
         /\ Tail(Left) = Tail(exits) \o Reached
         /\ \/ s \notin Range(active) /\ active' = active
            \/ active # <<>> /\ Head(active) = s /\ active' = Tail(active)
<1> DEFINE s == Head(exits)
<1>1. exits # <<>> /\ CancelOnTheWay /\ exits \in Seq(State) /\ active \in Seq(State)
  BY DEF EndExit, CancelInvariant, Control, Moving, TypeOK
<1>2. s \in State /\ Tail(exits) \in Seq(State)
  BY <1>1, HeadTailProperties
<1>3. Left # <<>> /\ Head(Left) = s /\ Tail(Left) = Tail(exits) \o Reached
  BY <1>1, LeftType, PopOfConcat DEF Left
<1>4. Left = TerminatePath[s] /\ Range(active) \subseteq Range(TerminatePath[s])
  BY <1>1, <1>3 DEF CancelOnTheWay
<1>5. ASSUME s \in Range(active) PROVE active # <<>> /\ Head(active) = s
  <2>1. /\ DOMAIN active = 1 .. Len(active) /\ Len(active) \in Nat
        /\ \A i \in DOMAIN active : active[i] \in Range(active)
    BY <1>1, LenProperties DEF Range
  <2>2. PICK k \in DOMAIN active : active[k] = s
    BY <1>5 DEF Range
  <2>3. 1 \in DOMAIN active /\ active # <<>> /\ Head(active) = active[1]
    <3>1. 1 \in DOMAIN active
      BY <2>1, <2>2
    <3> QED BY <1>1, <2>1, <3>1, EmptySeq, HeadTailProperties
  <2>4. /\ Len(TerminatePath[active[1]]) <= Len(TerminatePath[s])
        /\ Len(TerminatePath[active[1]]) \in Nat /\ Len(TerminatePath[s]) \in Nat
    BY <1>2, <1>4, <2>1, <2>3, PathDescends
  <2>5. 1 < k => Len(TerminatePath[s]) < Len(TerminatePath[active[1]])
    BY <2>2, <2>3 DEF CancelInvariant, EnteredInOrder
  <2>6. k = 1
    BY <2>1, <2>2, <2>4, <2>5
  <2> QED BY <2>2, <2>3, <2>6
<1>6. active' = Leave(s)
  BY DEF EndExit
<1> QED BY <1>1, <1>2, <1>3, <1>4, <1>5, <1>6 DEF Leave

(* An exit ends. *)
LEMMA ExitEnds ==
  ASSUME TypeOK, CancelInvariant, EndExit
  PROVE  /\ Leave(Head(exits)) \in Seq(State)
         /\ TypeOK' => CancelInvariant'
<1> DEFINE s == Head(exits)
<1>1. /\ exits # <<>> /\ s \in State /\ Tail(exits) \in Seq(State)
      /\ Left # <<>> /\ Head(Left) = s /\ Left = TerminatePath[s]
      /\ Tail(Left) = Tail(exits) \o Reached
      /\ \/ s \notin Range(active) /\ active' = active
         \/ active # <<>> /\ Head(active) = s /\ active' = Tail(active)
  BY ExitTakes
<1>2. /\ phase = "exiting" /\ phase' = "path" /\ acts = <<>> /\ CancelOnTheWay
      /\ exits' = Tail(exits) /\ active' = Leave(s)
      /\ UNCHANGED <<fields, call, acts, target, enters>>
  BY DEF EndExit, CancelInvariant, Control, Moving
<1>3. active \in Seq(State) /\ Left \in Seq(State)
  BY LeftType DEF TypeOK
<1>4. active' \in Seq(State)
  BY <1>1, <1>3, HeadTailProperties
<1>5. Reached' = Reached /\ Left' = Tail(Left)
  BY <1>1, <1>2 DEF Reached, Left
<1>6. EnteredInOrder'
  <2>1. CASE active' = active
    BY <2>1 DEF CancelInvariant, EnteredInOrder
  <2>2. CASE active # <<>> /\ active' = Tail(active)
    <3>1. /\ Len(active) \in Nat /\ DOMAIN active = 1 .. Len(active)
          /\ DOMAIN active' = 1 .. Len(active) - 1
          /\ \A i \in DOMAIN active' : active'[i] = active[i + 1]
      BY <1>3, <2>2, HeadTailProperties, LenProperties
    <3>2. ASSUME NEW i \in DOMAIN active', NEW j \in DOMAIN active', i < j
          PROVE  Len(TerminatePath[active'[j]]) < Len(TerminatePath[active'[i]])
      <4>1. i + 1 \in DOMAIN active /\ j + 1 \in DOMAIN active /\ i + 1 < j + 1
        BY <3>1, <3>2
      <4>2. Len(TerminatePath[active[j + 1]]) < Len(TerminatePath[active[i + 1]])
        BY <4>1 DEF CancelInvariant, EnteredInOrder
      <4> QED BY <3>1, <4>2
    <3> QED BY <3>2 DEF EnteredInOrder
  <2> QED BY <1>1, <2>1, <2>2
<1>7. \A a \in Range(active') : a \in Range(active) /\ a # s
  <2>1. CASE s \notin Range(active) /\ active' = active
    BY <2>1
  <2>2. CASE active # <<>> /\ Head(active) = s /\ active' = Tail(active)
    <3>1. /\ Len(active) \in Nat /\ DOMAIN active = 1 .. Len(active)
          /\ DOMAIN active' = 1 .. Len(active) - 1 /\ active[1] = s
          /\ \A i \in DOMAIN active' : active'[i] = active[i + 1]
      BY <1>3, <2>2, HeadTailProperties, LenProperties
    <3>2. ASSUME NEW i \in DOMAIN active'
          PROVE  active'[i] \in Range(active) /\ active'[i] # s
      <4>1. i + 1 \in DOMAIN active /\ 1 \in DOMAIN active /\ 1 < i + 1
        BY <3>1
      <4>2. Len(TerminatePath[active[i + 1]]) < Len(TerminatePath[active[1]])
        BY <4>1 DEF CancelInvariant, EnteredInOrder
      <4>3. active[i + 1] \in Range(active)
        BY <4>1 DEF Range
      <4>4. active[i + 1] \in State /\ s \in State
        BY <1>1, <1>3, <3>1, <4>1, ElementOfSeq
      <4>5. Len(TerminatePath[s]) \in Nat
        BY <4>4, TableTypes, LenProperties
      <4>6. active[i + 1] # s
        BY <3>1, <4>2, <4>5
      <4> QED BY <3>1, <4>3, <4>6
    <3> QED BY <3>2 DEF Range
  <2> QED BY <1>1, <2>1, <2>2
<1>8. \A a \in Range(active) : a = s \/ a \in Range(active')
  BY <1>1, <1>3, RangeOfTail
<1>9. Range(active') \subseteq Range(Left')
  <2>1. \A a \in Range(Left) : a = s \/ a \in Range(Tail(Left))
    BY <1>1, <1>3, RangeOfTail
  <2>2. Range(active) \subseteq Range(Left)
    BY <1>2 DEF CancelOnTheWay
  <2> QED BY <1>5, <1>7, <2>1, <2>2
<1>10. Left' # <<>> => Left' = TerminatePath[Head(Left')]
  BY <1>1, <1>3, <1>5, TailOfPath
<1>11. Range(Left') \subseteq Range(PathOf(current))
  <2>1. Range(Tail(Left)) \subseteq Range(Left)
    <3>1. /\ Len(Left) \in Nat /\ DOMAIN Left = 1 .. Len(Left)
          /\ DOMAIN Tail(Left) = 1 .. Len(Left) - 1
          /\ \A i \in DOMAIN Tail(Left) : Tail(Left)[i] = Left[i + 1]
      BY <1>1, <1>3, HeadTailProperties, LenProperties
    <3>2. ASSUME NEW i \in DOMAIN Tail(Left) PROVE Tail(Left)[i] \in Range(Left)
      <4>1. i + 1 \in DOMAIN Left
        BY <3>1
      <4> QED BY <3>1, <4>1 DEF Range
    <3> QED BY <3>2 DEF Range
  <2> QED BY <1>2, <1>5, <2>1 DEF CancelOnTheWay
<1>12. CancelOnTheWay'
  <2>1. current' = current
    BY <1>2 DEF fields
  <2> QED BY <1>2, <1>5, <1>9, <1>10, <1>11, <2>1 DEF CancelOnTheWay, PathOf
<1>13. TimersOfActive'
  <2>1. \A e \in timers : e.state \in Range(active) /\ e.state # s
    BY <1>2 DEF CancelInvariant, TimersOfActive, Exiting
  <2>2. timers' = timers /\ Exiting' = {}
    BY <1>2 DEF fields, Exiting
  <2> QED BY <1>8, <2>1, <2>2 DEF TimersOfActive
<1>14. NothingOutlivesItsPath'
  BY <1>2, <1>7 DEF fields, CancelInvariant, NothingOutlivesItsPath, PathOf
<1>15. Control' /\ TerminatedIsClean'
  BY <1>2 DEF fields, CancelInvariant, Control, TerminatedIsClean
<1> QED BY <1>2, <1>4, <1>6, <1>12, <1>13, <1>14, <1>15 DEF CancelInvariant

(* An entry ends. *)
LEMMA EntryEnds ==
  ASSUME TypeOK, CancelInvariant, EndEnter
  PROVE  CancelInvariant'
<1> DEFINE h == Head(enters)
           path == <<h>> \o Reached
<1>1. /\ phase = "arming" /\ acts = <<>> /\ exits = <<>> /\ enters # <<>>
      /\ CancelOnTheWay /\ target # None /\ target \in State /\ ~terminated /\ call # "none"
  BY DEF EndEnter, CancelInvariant, Control, Moving, CancelOnTheWay, TypeOK
<1>2. /\ h \in State /\ Tail(enters) \in Seq(State) /\ active \in Seq(State)
      /\ enters \in Seq(State) /\ Reached \in Seq(State)
  BY <1>1, LeftType, HeadTailProperties DEF TypeOK
<1>3. TerminatePath[target] = Reverse(enters) \o Reached
  BY <1>1 DEF CancelOnTheWay
<1>4. TerminatePath[h] = path
  BY <1>1, <1>2, <1>3, HeadOfEnters
<1>5. Left = Reached
  BY <1>1, <1>2, ConcatEmptySeq DEF Left
<1>6. /\ active' = <<h>> \o active /\ current' = h /\ enters' = Tail(enters)
      /\ exits' = <<>> /\ target' = target /\ timers' = timers
      /\ phase' \in {"defaults", "path"} /\ UNCHANGED <<call, acts, terminated>>
  BY <1>1 DEF EndEnter
<1>7. path \in Seq(State) /\ path # <<>> /\ Head(path) = h /\ Tail(path) = Reached
  <2>1. <<h>> \in Seq(State) /\ <<h>> # <<>> /\ Head(<<h>>) = h /\ Tail(<<h>>) = <<>>
    BY <1>2
  <2>2. /\ <<h>> \o Reached # <<>> /\ Head(<<h>> \o Reached) = h
        /\ Tail(<<h>> \o Reached) = <<>> \o Reached
    BY <1>2, <2>1, PopOfConcat, SMTT(30)
  <2> QED BY <1>2, <2>1, <2>2, ConcatProperties, ConcatEmptySeq
<1>8. Reached' = path
  <2>1. TerminatePath[target] = Reverse(Tail(enters)) \o path
    BY <1>1, <1>2, <1>3, ReverseStep
  <2> HIDE DEF path
  <2> QED BY <1>1, <1>2, <1>6, <1>7, <2>1, ReachedIs
<1>9. Left' = path
  <2> HIDE DEF path
  <2> QED BY <1>6, <1>7, <1>8, ConcatEmptySeq DEF Left
<1>10. Range(active') = {h} \cup Range(active) /\ Range(path) = {h} \cup Range(Reached)
  BY <1>2, <1>6, RangeOfPush
<1>11. Range(active) \subseteq Range(Reached)
  BY <1>1, <1>5 DEF CancelOnTheWay
<1>12. PathOf(h) = path /\ NothingOutlivesItsPath'
  BY <1>2, <1>4, <1>6, <1>10, <1>11, TableTypes DEF NothingOutlivesItsPath, PathOf
<1>13. CancelOnTheWay'
  <2>1. TerminatePath[target] = Reverse(Tail(enters)) \o path
    BY <1>1, <1>2, <1>3, ReverseStep
  <2>2. PathOf(current)' = path
    BY <1>6, <1>12 DEF PathOf
  <2> HIDE DEF path
  <2> QED BY <1>1, <1>4, <1>6, <1>7, <1>8, <1>9, <1>10, <1>11, <2>1, <2>2 DEF CancelOnTheWay
<1>14. EnteredInOrder'
  <2>1. /\ Len(active) \in Nat /\ DOMAIN active = 1 .. Len(active)
        /\ DOMAIN active' = 1 .. Len(active) + 1 /\ active'[1] = h
        /\ \A i \in DOMAIN active' : i # 1 => active'[i] = active[i - 1]
    <3>1. <<h>> \in Seq(State) /\ Len(<<h>>) = 1 /\ <<h>>[1] = h
      BY <1>2
    <3>2. Len(active) \in Nat /\ DOMAIN active = 1 .. Len(active)
      BY <1>2, LenProperties
    <3>3. Len(active') = 1 + Len(active) /\ active' \in Seq(State)
          /\ \A i \in 1 .. 1 + Len(active) :
               active'[i] = IF i <= 1 THEN <<h>>[i] ELSE active[i - 1]
      BY <1>2, <1>6, <3>1, ConcatProperties
    <3>4. DOMAIN active' = 1 .. 1 + Len(active)
      BY <3>3, LenProperties
    <3> QED BY <3>1, <3>2, <3>3, <3>4
  <2>2. ASSUME NEW a \in Range(active) PROVE Len(TerminatePath[a]) < Len(TerminatePath[h])
    <3>1. a \in Range(Tail(TerminatePath[h]))
      BY <1>4, <1>7, <1>11
    <3> QED BY <1>2, <3>1, TailIsAbove
  <2>3. ASSUME NEW i \in DOMAIN active', NEW j \in DOMAIN active', i < j
        PROVE  Len(TerminatePath[active'[j]]) < Len(TerminatePath[active'[i]])
    <3>1. j - 1 \in DOMAIN active /\ active'[j] = active[j - 1] /\ active[j - 1] \in Range(active)
      <4>1. j # 1 /\ j - 1 \in DOMAIN active
        BY <2>1, <2>3
      <4> QED BY <2>1, <4>1 DEF Range
    <3>2. CASE i = 1
      BY <2>1, <2>2, <3>1, <3>2
    <3>3. CASE i # 1
      <4>1. i - 1 \in DOMAIN active /\ active'[i] = active[i - 1] /\ i - 1 < j - 1
        BY <2>1, <2>3, <3>3
      <4> QED BY <3>1, <4>1 DEF CancelInvariant, EnteredInOrder
    <3> QED BY <3>2, <3>3
  <2> QED BY <2>3 DEF EnteredInOrder
<1>15. TimersOfActive'
  <2>1. \A e \in timers : e.state \in {h} \cup Range(active)
    BY <1>1 DEF CancelInvariant, TimersOfActive
  <2>2. Exiting' = {}
    BY <1>6 DEF Exiting
  <2> QED BY <1>6, <1>10, <2>1, <2>2 DEF TimersOfActive
<1>16. Control' /\ TerminatedIsClean'
  BY <1>1, <1>2, <1>6, TableTypes DEF CancelInvariant, Control, TerminatedIsClean
<1> QED BY <1>12, <1>13, <1>14, <1>15, <1>16 DEF CancelInvariant

(* A path ends at its target, or with nothing left. *)
LEMMA PathEnds ==
  ASSUME TypeOK, CancelInvariant, UpTransition \/ Terminate
  PROVE  CancelInvariant'
<1>1. /\ phase = "path" /\ exits = <<>> /\ enters = <<>> /\ phase' = "return"
      /\ ~terminated /\ acts = <<>> /\ call # "none" /\ CancelOnTheWay
  BY DEF UpTransition, Terminate, CancelInvariant, Control, Moving
<1>2. Left = Reached /\ Reached \in Seq(State)
  BY <1>1, LeftType, ConcatEmptySeq DEF Left
<1>3. Range(active) \subseteq Range(PathOf(target))
  <2>1. CASE target = None
    BY <1>1, <1>2, <2>1 DEF CancelOnTheWay, Reached, PathOf
  <2>2. CASE target # None
    <3>1. Reverse(<<>>) = <<>>
      BY EmptySeq, ReverseProperties
    <3>2. TerminatePath[target] = Reached
      BY <1>1, <1>2, <2>2, <3>1, ConcatEmptySeq DEF CancelOnTheWay
    <3> QED BY <1>1, <1>2, <2>2, <3>2 DEF CancelOnTheWay, PathOf
  <2> QED BY <2>1, <2>2
<1>4. UNCHANGED <<active, timers, acts, call>> /\ current' = target
  BY DEF UpTransition, Terminate, history
<1>5. \A e \in timers : e.state \in Range(active)
  BY <1>1 DEF CancelInvariant, TimersOfActive
<1>6. NothingOutlivesItsPath' /\ EnteredInOrder' /\ TimersOfActive'
  BY <1>1, <1>3, <1>4, <1>5
  DEF CancelInvariant, NothingOutlivesItsPath, PathOf, EnteredInOrder, TimersOfActive, Exiting
<1>7. Control' /\ ~Moving'
  BY <1>1, <1>4 DEF UpTransition, Terminate, CancelInvariant, Control, Moving
<1>8. TerminatedIsClean'
  <2>1. CASE UpTransition
    BY <1>1, <2>1 DEF UpTransition, TerminatedIsClean
  <2>2. CASE Terminate
    <3>1. Range(active) = {}
      BY <1>3, <2>2 DEF Terminate, PathOf, Range
    <3>2. active = <<>>
      <4>1. active \in Seq(State) /\ DOMAIN active = 1 .. Len(active) /\ Len(active) \in Nat
        BY LenProperties DEF TypeOK
      <4>2. DOMAIN active = {}
        BY <3>1 DEF Range
      <4>3. Len(active) = 0
        BY <4>1, <4>2
      <4> QED BY <4>1, <4>3, EmptySeq
    <3>3. timers = {}
      BY <1>5, <3>1
    <3> QED BY <1>4, <2>2, <3>2, <3>3 DEF Terminate, TerminatedIsClean
  <2> QED BY <2>1, <2>2
<1> QED BY <1>6, <1>7, <1>8 DEF CancelInvariant

-----------------------------------------------------------------------------
(* The unit of work *)

LEMMA WorkBegins ==
  ASSUME TypeOK, CancelInvariant, ~Moving, acts = <<>>, NEW d \in Nat,
         NEW c \in Calls \ {"none"},
         EnterRoot(c) \/ FireTimer(d, c) \/ TakeEvent(d, c) \/ NothingDue(d, c)
  PROVE  CancelInvariant'
<1>1. /\ Ticked(d) \in SUBSET Timer
      /\ \A e \in timers : e.state \in Range(active)
      /\ \A e \in Ticked(d) : e.state \in Range(active)
  <2>1. \A e \in timers : e.state \in Range(active)
    BY DEF CancelInvariant, TimersOfActive, Moving
  <2> QED BY <2>1, DecrementTimers DEF Ticked, TypeOK
<1>2. CASE EnterRoot(c)
  <2>1. /\ exits' = <<>> /\ enters' = <<Root>> /\ target' = Root /\ phase' = "path"
        /\ current = None /\ ~terminated /\ call' = c /\ Root # None
        /\ UNCHANGED <<fields, acts, active>>
    BY <1>2, TableTypes DEF EnterRoot
  <2>2. Reached' = <<>>
    <3>1. Reverse(<<Root>>) \o <<>> = <<Root>>
      <4>1. <<Root>> \in Seq(State)
        BY TableTypes
      <4>2. Reverse(<<Root>>) = <<Root>>
        BY DEF Reverse
      <4> QED BY <4>1, <4>2, ConcatEmptySeq
    <3>2. <<Root>> \in Seq(State) /\ <<>> \in Seq(State) /\ Root \in State
      BY TableTypes, EmptySeq
    <3>3. TerminatePath[Root] = Reverse(<<Root>>) \o <<>>
      BY <3>1, RootPath
    <3> QED BY <2>1, <3>2, <3>3, ReachedIs
  <2>3. Left' = <<>>
    BY <2>1, <2>2 DEF Left
  <2>4. Range(active) \subseteq Range(<<>>)
    BY <2>1 DEF CancelInvariant, NothingOutlivesItsPath, PathOf
  <2>5. Reverse(<<Root>>) \o <<>> = TerminatePath[Root]
    <3>1. <<Root>> \in Seq(State) /\ Reverse(<<Root>>) = <<Root>>
      BY TableTypes DEF Reverse
    <3> QED BY <3>1, ConcatEmptySeq, RootPath
  <2>6. CancelOnTheWay'
    BY <2>1, <2>2, <2>3, <2>4, <2>5 DEF fields, CancelOnTheWay, Range
  <2> QED BY <1>1, <2>1, <2>6 DEF fields, CancelInvariant, Control, NothingOutlivesItsPath,
            PathOf, EnteredInOrder, TimersOfActive, Exiting, TerminatedIsClean
<1>3. CASE FireTimer(d, c)
  <2> DEFINE rest(e) == Ticked(d) \ {e}
             again(e) == Start(rest(e), e.state, e.trigger, DurationFor[e.trigger])
  <2>1. PICK e \in Poppable(Ticked(d)) :
          timers' = IF Repeats[e.trigger] THEN again(e) ELSE rest(e)
    BY <1>3 DEF FireTimer, Fire
  <2>2. e \in Timer /\ rest(e) \in SUBSET Timer /\ e.state \in Range(active)
    BY <1>1, <2>1, PoppableTimers
  <2>3. e.state \in State /\ e.trigger \in Trigger /\ DurationFor[e.trigger] \in Nat
    BY <2>2, TimerType, TableTypes
  <2>4. \A f \in again(e) : f \in rest(e) \/ f.state = e.state
    BY <2>2, <2>3, StartTimer
  <2>5. \A f \in timers' : f.state \in Range(active)
    BY <1>1, <2>1, <2>2, <2>4
  <2>6. active' = active /\ current' = current /\ current # None /\ ~terminated
        /\ ~terminated' /\ phase' = "handler" /\ call' = c /\ exits' = exits
    BY <1>3 DEF FireTimer, Fire
  <2> QED BY <2>5, <2>6 DEF CancelInvariant, Control, NothingOutlivesItsPath, PathOf,
            EnteredInOrder, Moving, TimersOfActive, Exiting, TerminatedIsClean
<1>4. CASE TakeEvent(d, c)
  <2>1. /\ active' = active /\ current' = current /\ current \in State /\ current # None
        /\ ~terminated /\ ~terminated' /\ call' = c /\ timers' = Ticked(d)
    BY <1>4, TableTypes DEF TakeEvent, TypeOK
  <2>2. CASE /\ exits' = TerminatePath[current] /\ enters' = <<>> /\ target' = None
             /\ phase' = "path" /\ acts' = acts
    <3>1. TerminatePath[current] \in Seq(State) /\ Head(TerminatePath[current]) = current
      BY <2>1, TableTypes, PathsAreClosed
    <3>2. Left' = TerminatePath[current]
      BY <2>2, <3>1, ConcatEmptySeq DEF Left, Reached
    <3>3. CancelOnTheWay'
      BY <2>1, <2>2, <3>1, <3>2
      DEF CancelOnTheWay, CancelInvariant, NothingOutlivesItsPath, PathOf
    <3> QED BY <1>1, <2>1, <2>2, <3>3 DEF CancelInvariant, Control, NothingOutlivesItsPath,
              PathOf, EnteredInOrder, TimersOfActive, Exiting, TerminatedIsClean
  <2>3. CASE phase' = "handler" \/ (phase' = "return" /\ acts' = acts)
    BY <1>1, <2>1, <2>3 DEF CancelInvariant, Control, NothingOutlivesItsPath, PathOf,
         EnteredInOrder, Moving, TimersOfActive, Exiting, TerminatedIsClean
  <2> QED BY <1>4, <2>2, <2>3 DEF TakeEvent
<1>5. CASE NothingDue(d, c)
  BY <1>1, <1>5 DEF NothingDue, CancelInvariant, Control, NothingOutlivesItsPath, PathOf,
       EnteredInOrder, Moving, TimersOfActive, Exiting, TerminatedIsClean
<1> QED BY <1>2, <1>3, <1>4, <1>5

-----------------------------------------------------------------------------
(* Every step, an abandoned call included, keeps the invariant. *)
LEMMA CancelStep ==
  ASSUME TypeOK, CancelInvariant, [CancelNext]_vars
  PROVE  TypeOK' /\ CancelInvariant'
<1>1. CASE DropCall
  BY <1>1, DropStep
<1>2. CASE [Next]_vars
  <2>1. TypeOK'
    <3>1. Control /\ (EndExit => Leave(Head(exits)) \in Seq(State))
      BY ExitEnds DEF CancelInvariant
    <3> QED BY <1>2, <3>1, TypeStepOf
  <2>2. CASE \/ \E e \in Event : Emit(e) \/ Send(e) \/ Dispatch(e)
             \/ TakeOverflow \/ StepReturns \/ DispatchChecks \/ DispatchDrained
             \/ ActionReturns \/ BeginEnter \/ EntryActionsDone \/ UNCHANGED vars
    BY <2>1, <2>2, StillStep
  <2>3. CASE ArmTimer \/ HandlerDone \/ FollowDefault \/ BeginExit \/ EndExit \/ EndEnter
             \/ UpTransition \/ Terminate
    BY <2>1, <2>3, ArmStep, GoesOn, ExitBegins, ExitEnds, EntryEnds, PathEnds
  <2>4. CASE DispatchStep
    <3>1. ~Moving /\ acts = <<>> /\ 0 \in Nat /\ "dispatch" \in Calls \ {"none"}
      BY <2>4 DEF DispatchStep, CancelInvariant, Control, Moving, Calls
    <3> QED BY <2>1, <2>4, <3>1, WorkBegins DEF DispatchStep
  <2>5. ASSUME NEW d \in Elapsed, Step(d) PROVE CancelInvariant'
    <3>1. ~Moving /\ acts = <<>> /\ d \in Nat /\ "step" \in Calls \ {"none"}
      BY <2>5, TableTypes DEF Step, Idle, CancelInvariant, Control, Moving, Calls
    <3> QED BY <2>5, <3>1, WorkBegins DEF Step
  <2> QED BY <1>2, <2>1, <2>2, <2>3, <2>4, <2>5 DEF Next, Internal, Progress
<1> QED BY <1>1, <1>2 DEF CancelNext

(* However often a call is abandoned in the middle of a transition, in any *)
(* chart, nothing entered escapes the path of current_state().             *)
THEOREM CancelInvariantHolds == CancelSpec => [](TypeOK /\ CancelInvariant)
<1>1. Init => TypeOK /\ CancelInvariant
  <2> SUFFICES ASSUME Init PROVE TypeOK /\ CancelInvariant
    OBVIOUS
  <2>1. TypeOK
    BY InitOK
  <2>2. DOMAIN <<>> = {}
    OBVIOUS
  <2> QED BY <2>1, <2>2 DEF Init, CancelInvariant, Control, NothingOutlivesItsPath, PathOf,
            EnteredInOrder, Moving, TimersOfActive, TerminatedIsClean, Range
<1>2. TypeOK /\ CancelInvariant /\ [CancelNext]_vars => (TypeOK /\ CancelInvariant)'
  BY CancelStep
<1> QED BY <1>1, <1>2, PTL DEF CancelSpec

(* ... so that the next transition, or the termination, still exits it     *)
(* (exit_state, do_terminate walk the path of __current).                  *)
THEOREM NothingOutlives == CancelSpec => []NothingOutlivesItsPath
<1>1. CancelInvariant => NothingOutlivesItsPath
  BY DEF CancelInvariant
<1> QED BY <1>1, CancelInvariantHolds, PTL

(* However often an entry was abandoned and begun again, no state is ever  *)
(* active twice, and what is active descends (enter_state_no_descent).     *)
THEOREM EntriesDescend == CancelSpec => []EnteredInOrder
<1>1. CancelInvariant => EnteredInOrder
  BY DEF CancelInvariant
<1> QED BY <1>1, CancelInvariantHolds, PTL

(* No timer outlives its state, abandoned calls or not.                    *)
THEOREM NoStaleTimerAfterCancel == CancelSpec => []TimersOfActive
<1>1. CancelInvariant => TimersOfActive
  BY DEF CancelInvariant
<1> QED BY <1>1, CancelInvariantHolds, PTL

(* A termination that is reached at last still leaves nothing behind.      *)
THEOREM TerminationIsCleanAfterCancel == CancelSpec => []TerminatedIsClean
<1>1. CancelInvariant => TerminatedIsClean
  BY DEF CancelInvariant
<1> QED BY <1>1, CancelInvariantHolds, PTL
=============================================================================
