--------------------------- MODULE Journal_proofs ---------------------------
(***************************************************************************)
(* Proofs about Journal, for every chart: what a reader makes of the       *)
(* records pushed so far is what the machine is, whichever actions emit,   *)
(* wherever a transition, a chain of defaults or a termination stands.     *)
(*                                                                         *)
(* JournalInvariant says of every control state which marks are open:      *)
(* the entry or exit under way (Marks), below it the transitions whose end *)
(* is due, innermost first (Due), and at the bottom, when the machine is   *)
(* ending, the request (Ground).  Read is a fold: a hook that pushes       *)
(* several records is read record after record (ReadInTurn), and one Read  *)
(* lemma for each kind of record says where it may come and what it tells. *)
(* Then there is one lemma for each action, which composes them.  That     *)
(* nothing is told to be armed that was refused needs EveryPathFits.       *)
(***************************************************************************)
EXTENDS Journal, Machine_proofs, Induction

-----------------------------------------------------------------------------
(* What the reader knows in every state. *)

Reason ==
  {ByEvent(e) : e \in Event} \cup {ByTimer(s, t) : s \in State, t \in Trigger}
    \cup {Internally, None}

Transition == [from : State, to : State, default : BOOLEAN]

JournalTypes ==
  /\ open \in Seq(Transition)
  /\ handling \in [state : State \cup {None}, reason : Reason]

(* The transition records whose end is due. *)
FiredFor(t, why) == TransitionFired(t.from, t.to, IF t.default THEN Internally ELSE why)

DueFor(transitions, why) == [i \in DOMAIN transitions |-> FiredFor(transitions[i], why)]

Due == DueFor(open, handling.reason)

Ground == IF Moving /\ target = None THEN <<TerminateRequested(TerminateEvent)>> ELSE Due

Marks ==
  CASE phase = "exiting" -> <<ExitBegan(Head(exits))>> \o Ground
    [] phase \in {"entering", "arming"} -> <<EnterBegan(Head(enters))>> \o Ground
    [] OTHER -> Ground

(* An event's or a timer's transition, and one default within it. *)
OpenShape ==
  /\ ~Moving /\ phase # "defaults" => open = <<>>
  /\ Moving /\ target = None => open = <<>>
  /\ Moving /\ open = <<>> => (exits = <<>> \/ target = None)
  /\ Len(open) <= 2
  /\ Len(open) = 2 => open[1].default /\ ~open[2].default

Running ==
  {p \in State \X Nat : p[1] \in Range(active) \ Exiting /\ p[2] \in 1 .. DuringCount[p[1]]}

Pairs(ts) == {<<e.state, e.trigger>> : e \in ts}

Begun == current # None \/ terminated \/ Moving

ReaderKnows ==
  /\ reader.sound /\ (reader.started <=> Begun) /\ (reader.ended <=> terminated)
  /\ reader.ended \in BOOLEAN
  /\ reader.path = active /\ reader.marks = Marks /\ reader.running = Running
  /\ reader.cause = handling

JournalInvariant ==
  /\ JournalTypes /\ OpenShape /\ ReaderKnows
  /\ OneEntryEach(timers) /\ Pairs(timers) \subseteq reader.armed

-----------------------------------------------------------------------------
(* Reading record after record. *)

Reading(f, r, records) ==
  /\ f[0] = r /\ ReadAll(r, records) = f[Len(records)]
  /\ \A n \in 1 .. Len(records) : f[n] = Read(f[n - 1], records[n])

(* ReadAll reads one record after another.                                 *)
LEMMA ReadSteps ==
  ASSUME NEW r, NEW records, Len(records) \in Nat
  PROVE  \E f : Reading(f, r, records)
<1> DEFINE N == Len(records)
           Rec(k) == [n \in 0 .. N |-> IF n = 0 THEN r ELSE Read(k[n - 1], records[n])]
           known == CHOOSE k : k = Rec(k)
           Upto(f, k) == /\ f[0] = r
                         /\ \A n \in 1 .. k : f[n] = Read(f[n - 1], records[n])
           T == {k \in 0 .. N : \E f : Upto(f, k)}
<1>1. 0 \in T
  <2>1. Upto([n \in 0 .. 0 |-> r], 0)
    OBVIOUS
  <2> HIDE DEF Upto
  <2> QED BY <2>1
<1>2. ASSUME NEW k \in 0 .. N, k > 0, k - 1 \in T PROVE k \in T
  <2>1. PICK f : Upto(f, k - 1)
    BY <1>2
  <2> DEFINE g == [n \in 0 .. k |-> IF n = k THEN Read(f[k - 1], records[k]) ELSE f[n]]
  <2>2. \A n \in 0 .. k - 1 : g[n] = f[n]
    BY <1>2
  <2>3. g[k] = Read(f[k - 1], records[k])
    BY <1>2
  <2> HIDE DEF g
  <2>4. g[0] = r
    BY <1>2, <2>1, <2>2
  <2>5. ASSUME NEW n \in 1 .. k PROVE g[n] = Read(g[n - 1], records[n])
    <3>1. n - 1 \in 0 .. k - 1 /\ g[n - 1] = f[n - 1]
      BY <1>2, <2>2
    <3>2. CASE n = k
      BY <2>3, <3>1, <3>2
    <3>3. CASE n # k
      <4>1. n \in 1 .. k - 1 /\ n \in 0 .. k - 1
        BY <1>2, <3>3
      <4>2. f[n] = Read(f[n - 1], records[n])
        BY <2>1, <4>1
      <4> QED BY <2>2, <3>1, <4>1, <4>2
    <3> QED BY <3>2, <3>3
  <2>6. Upto(g, k)
    BY <2>4, <2>5
  <2> HIDE DEF Upto
  <2> QED BY <2>6
<1>3. \A k \in 0 .. N : k \in T
  <2> HIDE DEF T, N
  <2>1. N \in Nat
    BY DEF N
  <2> QED BY <1>1, <1>2, <2>1, UpTo
<1>4. PICK f : Upto(f, N)
  <2>1. N \in T
    BY <1>3
  <2> HIDE DEF Upto
  <2> QED BY <2>1
<1> DEFINE g == [n \in 0 .. N |-> f[n]]
<1>5. \A n \in 0 .. N : g[n] = IF n = 0 THEN r ELSE Read(g[n - 1], records[n])
  <2>1. \A n \in 0 .. N : n = 0 \/ (n \in 1 .. N /\ n - 1 \in 0 .. N)
    OBVIOUS
  <2>2. \A n \in 0 .. N : g[n] = f[n]
    OBVIOUS
  <2> HIDE DEF g
  <2> QED BY <1>4, <2>1, <2>2
<1>6. g = Rec(g)
  <2>1. g = [n \in 0 .. N |-> g[n]]
    OBVIOUS
  <2> HIDE DEF g
  <2> QED BY <1>5, <2>1, Zenon
<1>7. known = Rec(known)
  <2> HIDE DEF Rec, g
  <2> QED BY <1>6
<1>8. ReadAll(r, records) = known[N]
  BY DEF ReadAll
<1>9. \A n \in 0 .. N : known[n] = IF n = 0 THEN r ELSE Read(known[n - 1], records[n])
  <2> HIDE DEF known
  <2> QED BY <1>7
<1> HIDE DEF known
<1>10. known[0] = r /\ \A n \in 1 .. N : known[n] = Read(known[n - 1], records[n])
  BY <1>9
<1>11. Reading(known, r, records)
  BY <1>8, <1>10 DEF Reading
<1> QED BY <1>11

(* A reading is determined by its steps.                                   *)
LEMMA ReadOnly ==
  ASSUME NEW r, NEW records, Len(records) \in Nat, NEW f, f[0] = r,
         \A n \in 1 .. Len(records) : f[n] = Read(f[n - 1], records[n])
  PROVE  ReadAll(r, records) = f[Len(records)]
<1>1. PICK g : Reading(g, r, records)
  BY ReadSteps
<1> DEFINE N == Len(records)
           T == {n \in 0 .. N : g[n] = f[n]}
<1>2. 0 \in T
  BY <1>1 DEF Reading
<1>3. ASSUME NEW n \in 0 .. N, n > 0, n - 1 \in T PROVE n \in T
  <2>1. n \in 1 .. N /\ g[n - 1] = f[n - 1]
    BY <1>3
  <2> QED BY <1>1, <2>1 DEF Reading
<1>4. \A n \in 0 .. N : n \in T
  <2> HIDE DEF T
  <2>1. N \in Nat
    OBVIOUS
  <2> QED BY <1>2, <1>3, <2>1, UpTo
<1>5. g[N] = f[N]
  BY <1>4
<1> QED BY <1>1, <1>5 DEF Reading

(* No record, nothing new.                                                 *)
LEMMA ReadNone ==
  ASSUME NEW r
  PROVE  ReadAll(r, <<>>) = r
<1>1. PICK g : Reading(g, r, <<>>)
  BY ReadSteps
<1> QED BY <1>1 DEF Reading

(* A single record.                                                        *)
LEMMA ReadOne ==
  ASSUME NEW r, NEW x
  PROVE  ReadAll(r, <<x>>) = Read(r, x)
<1>1. Len(<<x>>) = 1 /\ <<x>>[1] = x
  OBVIOUS
<1>2. PICK g : Reading(g, r, <<x>>)
  BY <1>1, ReadSteps
<1> QED BY <1>1, <1>2 DEF Reading

(* Some records, then some more.                                           *)
LEMMA ReadInTurn ==
  ASSUME NEW r, NEW S, NEW p \in Seq(S), NEW q \in Seq(S)
  PROVE  ReadAll(r, p \o q) = ReadAll(ReadAll(r, p), q)
<1> DEFINE m == ReadAll(r, p)
           L == Len(p)
           M == Len(q)
<1>0. L \in Nat /\ M \in Nat
  OBVIOUS
<1>1. PICK f : Reading(f, r, p)
  BY <1>0, ReadSteps
<1>2. PICK g : Reading(g, m, q)
  <2> HIDE DEF m
  <2> QED BY <1>0, ReadSteps
<1> DEFINE h == [n \in 0 .. L + M |-> IF n <= L THEN f[n] ELSE g[n - L]]
<1>3. f[0] = r /\ f[L] = m /\ \A n \in 1 .. L : f[n] = Read(f[n - 1], p[n])
  BY <1>1 DEF Reading
<1>4. g[0] = m /\ \A n \in 1 .. M : g[n] = Read(g[n - 1], q[n])
  BY <1>2 DEF Reading
<1>5. ReadAll(m, q) = g[M]
  BY <1>2 DEF Reading
<1>6. /\ Len(p \o q) = L + M
      /\ \A n \in 1 .. L : (p \o q)[n] = p[n]
      /\ \A n \in 1 .. M : (p \o q)[L + n] = q[n]
  OBVIOUS
<1>7. \A n \in 0 .. L : h[n] = f[n]
  BY <1>0
<1>8. \A n \in 0 .. M : h[L + n] = g[n]
  <2> HIDE DEF m, L, M
  <2>1. ASSUME NEW n \in 0 .. M PROVE h[L + n] = g[n]
    <3>1. L + n \in 0 .. L + M /\ (L + n) - L = n /\ n \in Nat
      BY <1>0
    <3>2. CASE n = 0
      BY <1>0, <1>3, <1>4, <3>1, <3>2
    <3>3. CASE n # 0
      <4>1. ~(L + n <= L)
        BY <1>0, <3>1, <3>3
      <4> QED BY <3>1, <4>1
    <3> QED BY <3>2, <3>3
  <2> QED BY <2>1
<1> HIDE DEF h, m
<1>9. ASSUME NEW n \in 1 .. L + M PROVE h[n] = Read(h[n - 1], (p \o q)[n])
  <2> HIDE DEF L, M
  <2>1. CASE n <= L
    <3>1. n \in 1 .. L /\ n \in 0 .. L /\ n - 1 \in 0 .. L
      BY <1>0, <2>1
    <3> QED BY <1>3, <1>6, <1>7, <3>1
  <2>2. CASE ~(n <= L)
    <3>1. PICK k \in 1 .. M : n = L + k
      <4>1. n - L \in 1 .. M /\ n = L + (n - L)
        BY <1>0, <2>2
      <4> QED BY <4>1
    <3>2. k \in 0 .. M /\ k - 1 \in 0 .. M /\ n - 1 = L + (k - 1)
      BY <1>0, <3>1
    <3> QED BY <1>4, <1>6, <1>8, <3>1, <3>2
  <2> QED BY <2>1, <2>2
<1>10. ReadAll(r, p \o q) = h[L + M]
  <2>1. h[0] = r
    BY <1>0, <1>3, <1>7
  <2> HIDE DEF L, M
  <2>2. L + M \in Nat
    BY <1>0
  <2> DEFINE w == p \o q
  <2>3. Len(w) = L + M /\ \A n \in 1 .. L + M : h[n] = Read(h[n - 1], w[n])
    BY <1>6, <1>9
  <2> HIDE DEF w
  <2>4. Len(w) \in Nat /\ \A n \in 1 .. Len(w) : h[n] = Read(h[n - 1], w[n])
    BY <2>2, <2>3
  <2>5. ReadAll(r, w) = h[Len(w)]
    BY <2>1, <2>4, ReadOnly
  <2> QED BY <2>3, <2>5 DEF w
<1>11. h[L + M] = g[M]
  BY <1>0, <1>8
<1> QED BY <1>5, <1>10, <1>11 DEF m

-----------------------------------------------------------------------------
(* One record at a time: what it tells a reader who expects it. *)

Told(r, path, marks, armed, running, cause) ==
  /\ r.sound /\ r.started /\ ~r.ended /\ r.ended \in BOOLEAN
  /\ r.path = path /\ r.marks = marks /\ r.armed = armed /\ r.running = running
  /\ r.cause = cause

PathAfter(r, x) ==
  CASE x.is = "Entered" -> <<x.state>> \o r.path
    [] x.is = "Exited" -> Tail(r.path)
    [] OTHER -> r.path

ArmedAfterRecord(r, x) ==
  CASE x.is = "TimerArmed" -> r.armed \cup {<<x.state, x.timer>>}
    [] x.is \in {"TimerCancelled", "TimerFired"} -> r.armed \ {<<x.state, x.timer>>}
    [] OTHER -> r.armed

RunningAfter(r, x) ==
  CASE x.is = "DuringStarted" -> r.running \cup {<<x.state, x.during>>}
    [] x.is = "DuringCancelled" -> r.running \ {<<x.state, x.during>>}
    [] OTHER -> r.running

Learned(r, x) ==
  /\ Read(r, x).sound /\ Read(r, x).started
  /\ Read(r, x).ended <=> x.is = "Terminated"
  /\ Read(r, x).ended \in BOOLEAN
  /\ Read(r, x).path = PathAfter(r, x) /\ Read(r, x).marks = MarksAfter(r, x)
  /\ Read(r, x).armed = ArmedAfterRecord(r, x)
  /\ Read(r, x).running = RunningAfter(r, x) /\ Read(r, x).cause = CauseAfter(r, x)

(* What an expected record changes.                                        *)
LEMMA ReadIs ==
  ASSUME NEW r, NEW x, r.sound, ~r.ended, Expected(r, x), x.is = "Started" \/ r.started
  PROVE  Learned(r, x)
<1> DEFINE ended == x.is = "Terminated"
           p == PathAfter(r, x)
           m == MarksAfter(r, x)
           a == ArmedAfterRecord(r, x)
           u == RunningAfter(r, x)
           c == CauseAfter(r, x)
<1>1. Read(r, x) = [sound |-> TRUE, started |-> TRUE, ended |-> ended, path |-> p, marks |-> m,
                    armed |-> a, running |-> u, cause |-> c]
  BY Zenon DEF Read, PathAfter, ArmedAfterRecord, RunningAfter
<1>2. /\ Read(r, x).sound /\ Read(r, x).started /\ (Read(r, x).ended <=> ended)
      /\ Read(r, x).ended \in BOOLEAN
  <2>1. ended \in BOOLEAN
    OBVIOUS
  <2> HIDE DEF ended, p, m, a, u, c
  <2> QED BY <1>1, <2>1
<1>3. /\ Read(r, x).path = PathAfter(r, x) /\ Read(r, x).marks = MarksAfter(r, x)
      /\ Read(r, x).armed = ArmedAfterRecord(r, x)
      /\ Read(r, x).running = RunningAfter(r, x) /\ Read(r, x).cause = CauseAfter(r, x)
  BY <1>1
<1> QED BY <1>2, <1>3 DEF Learned

Mark ==
  {ExitBegan(s) : s \in State} \cup {EnterBegan(s) : s \in State}
    \cup {TransitionFired(f, t, why) : f \in State, t \in State, why \in Reason}
    \cup {EventReceived(e) : e \in Event} \cup {TerminateRequested(e) : e \in Event \cup {None}}

(* A state is entered from outside in, at rest or in a transition.        *)
LEMMA ReadEnterBegan ==
  ASSUME NEW r, NEW p, NEW m, NEW a, NEW u, NEW c, Told(r, p, m, a, u, c),
         NEW s, m = <<>> \/ Head(m).is = "TransitionFired",
         TerminatePath[s] = <<s>> \o p
  PROVE  Told(Read(r, EnterBegan(s)), p, <<EnterBegan(s)>> \o m, a, u, c)
<1> DEFINE x == EnterBegan(s)
<1>1. x.is = "EnterBegan" /\ x.state = s
  BY DEF EnterBegan
<1>2. Expected(r, x)
  BY DEF Expected, EnterBegan, Told, AtRest, Within, Inside, Innermost
<1>3. x = EnterBegan(s)
  OBVIOUS
<1> HIDE DEF x
<1>4. Learned(r, x)
  BY <1>1, <1>2, ReadIs DEF Told
<1> QED BY <1>1, <1>3, <1>4
    DEF Learned, Told, PathAfter, MarksAfter, ArmedAfterRecord, RunningAfter, CauseAfter,
        Opening, Closing

(* The innermost state is exited, in a transition or at the end.          *)
LEMMA ReadExitBegan ==
  ASSUME NEW r, NEW p, NEW m, NEW a, NEW u, NEW c, Told(r, p, m, a, u, c),
         NEW s, m # <<>>,
         Head(m).is \in {"TransitionFired", "TerminateRequested"},
         p # <<>>,
         Head(p) = s
  PROVE  Told(Read(r, ExitBegan(s)), p, <<ExitBegan(s)>> \o m, a, u, c)
<1> DEFINE x == ExitBegan(s)
<1>1. x.is = "ExitBegan" /\ x.state = s
  BY DEF ExitBegan
<1>2. Expected(r, x)
  BY DEF Expected, ExitBegan, Told, AtRest, Within, Inside, Innermost
<1>3. x = ExitBegan(s)
  OBVIOUS
<1> HIDE DEF x
<1>4. Learned(r, x)
  BY <1>1, <1>2, ReadIs DEF Told
<1> QED BY <1>1, <1>3, <1>4
    DEF Learned, Told, PathAfter, MarksAfter, ArmedAfterRecord, RunningAfter, CauseAfter,
        Opening, Closing

(* ... and the entry is over.                                             *)
LEMMA ReadEntered ==
  ASSUME NEW r, NEW p, NEW m, NEW a, NEW u, NEW c, Told(r, p, m, a, u, c),
         NEW s, m # <<>>,
         Head(m) = EnterBegan(s)
  PROVE  Told(Read(r, Entered(s)), <<s>> \o p, Tail(m), a, u, c)
<1> DEFINE x == Entered(s)
<1>1. x.is = "Entered" /\ x.state = s
  BY DEF Entered
<1>2. Expected(r, x)
  BY DEF Expected, Entered, Told, AtRest, Within, Inside, Innermost
<1>3. x = Entered(s)
  OBVIOUS
<1> HIDE DEF x
<1>4. Learned(r, x)
  BY <1>1, <1>2, ReadIs DEF Told
<1> QED BY <1>1, <1>3, <1>4
    DEF Learned, Told, PathAfter, MarksAfter, ArmedAfterRecord, RunningAfter, CauseAfter,
        Opening, Closing

(* ... and the exit is over.                                              *)
LEMMA ReadExited ==
  ASSUME NEW r, NEW p, NEW m, NEW a, NEW u, NEW c, Told(r, p, m, a, u, c),
         NEW s, m # <<>>,
         Head(m) = ExitBegan(s)
  PROVE  Told(Read(r, Exited(s)), Tail(p), Tail(m), a, u, c)
<1> DEFINE x == Exited(s)
<1>1. x.is = "Exited" /\ x.state = s
  BY DEF Exited
<1>2. Expected(r, x)
  BY DEF Expected, Exited, Told, AtRest, Within, Inside, Innermost
<1>3. x = Exited(s)
  OBVIOUS
<1> HIDE DEF x
<1>4. Learned(r, x)
  BY <1>1, <1>2, ReadIs DEF Told
<1> QED BY <1>1, <1>3, <1>4
    DEF Learned, Told, PathAfter, MarksAfter, ArmedAfterRecord, RunningAfter, CauseAfter,
        Opening, Closing

(* Within an entry and an exit.                                           *)
LEMMA ReadDuringStarted ==
  ASSUME NEW r, NEW p, NEW m, NEW a, NEW u, NEW c, Told(r, p, m, a, u, c),
         NEW s, NEW i, m # <<>>,
         Head(m) = EnterBegan(s)
  PROVE  Told(Read(r, DuringStarted(s, i)), p, m, a, u \cup {<<s, i>>}, c)
<1> DEFINE x == DuringStarted(s, i)
<1>1. x.is = "DuringStarted" /\ x.state = s /\ x.during = i
  BY DEF DuringStarted
<1>2. Expected(r, x)
  BY DEF Expected, DuringStarted, Told, AtRest, Within, Inside, Innermost
<1>3. x = DuringStarted(s, i)
  OBVIOUS
<1> HIDE DEF x
<1>4. Learned(r, x)
  BY <1>1, <1>2, ReadIs DEF Told
<1> QED BY <1>1, <1>3, <1>4
    DEF Learned, Told, PathAfter, MarksAfter, ArmedAfterRecord, RunningAfter, CauseAfter,
        Opening, Closing

(* A during is cancelled while its state is exited.                        *)
LEMMA ReadDuringCancelled ==
  ASSUME NEW r, NEW p, NEW m, NEW a, NEW u, NEW c, Told(r, p, m, a, u, c),
         NEW s, NEW i, m # <<>>,
         Head(m) = ExitBegan(s)
  PROVE  Told(Read(r, DuringCancelled(s, i)), p, m, a, u \ {<<s, i>>}, c)
<1> DEFINE x == DuringCancelled(s, i)
<1>1. x.is = "DuringCancelled" /\ x.state = s /\ x.during = i
  BY DEF DuringCancelled
<1>2. Expected(r, x)
  BY DEF Expected, DuringCancelled, Told, AtRest, Within, Inside, Innermost
<1>3. x = DuringCancelled(s, i)
  OBVIOUS
<1> HIDE DEF x
<1>4. Learned(r, x)
  BY <1>1, <1>2, ReadIs DEF Told
<1> QED BY <1>1, <1>3, <1>4
    DEF Learned, Told, PathAfter, MarksAfter, ArmedAfterRecord, RunningAfter, CauseAfter,
        Opening, Closing

(* ... and so is a timer.                                                  *)
LEMMA ReadTimerCancelled ==
  ASSUME NEW r, NEW p, NEW m, NEW a, NEW u, NEW c, Told(r, p, m, a, u, c),
         NEW s, NEW t, m # <<>>,
         Head(m) = ExitBegan(s)
  PROVE  Told(Read(r, TimerCancelled(s, t)), p, m, a \ {<<s, t>>}, u, c)
<1> DEFINE x == TimerCancelled(s, t)
<1>1. x.is = "TimerCancelled" /\ x.state = s /\ x.timer = t
  BY DEF TimerCancelled
<1>2. Expected(r, x)
  BY DEF Expected, TimerCancelled, Told, AtRest, Within, Inside, Innermost
<1>3. x = TimerCancelled(s, t)
  OBVIOUS
<1> HIDE DEF x
<1>4. Learned(r, x)
  BY <1>1, <1>2, ReadIs DEF Told
<1> QED BY <1>1, <1>3, <1>4
    DEF Learned, Told, PathAfter, MarksAfter, ArmedAfterRecord, RunningAfter, CauseAfter,
        Opening, Closing

(* A timer is armed by an entry, or again by its own firing.               *)
LEMMA ReadTimerArmed ==
  ASSUME NEW r, NEW p, NEW m, NEW a, NEW u, NEW c, Told(r, p, m, a, u, c),
         NEW s, NEW t,
         \/ m # <<>> /\ Head(m) = EnterBegan(s)
         \/ m = <<>> /\ c.reason = ByTimer(s, t)
  PROVE  Told(Read(r, TimerArmed(s, t)), p, m, a \cup {<<s, t>>}, u, c)
<1> DEFINE x == TimerArmed(s, t)
<1>1. x.is = "TimerArmed" /\ x.state = s /\ x.timer = t
  BY DEF TimerArmed
<1>2. Expected(r, x)
  BY DEF Expected, TimerArmed, Told, AtRest, Within, Inside, Innermost
<1>3. x = TimerArmed(s, t)
  OBVIOUS
<1> HIDE DEF x
<1>4. Learned(r, x)
  BY <1>1, <1>2, ReadIs DEF Told
<1> QED BY <1>1, <1>3, <1>4
    DEF Learned, Told, PathAfter, MarksAfter, ArmedAfterRecord, RunningAfter, CauseAfter,
        Opening, Closing

(* An action runs for its state, or for the one that handles.             *)
LEMMA ReadActionInvoked ==
  ASSUME NEW r, NEW p, NEW m, NEW a, NEW u, NEW c, Told(r, p, m, a, u, c),
         NEW s, NEW act, NEW kind,
         \/ kind = "Entry" /\ m # <<>> /\ Head(m) = EnterBegan(s)
         \/ kind = "Exit" /\ m # <<>> /\ Head(m) = ExitBegan(s)
         \/ kind = "Handler" /\ m = <<>> /\ c.state = s
  PROVE  Told(Read(r, ActionInvoked(s, act, kind)), p, m, a, u, c)
<1> DEFINE x == ActionInvoked(s, act, kind)
<1>1. x.is = "ActionInvoked" /\ x.state = s /\ x.action = act /\ x.kind = kind
  BY DEF ActionInvoked
<1>2. Expected(r, x)
  BY DEF Expected, ActionInvoked, Told, AtRest, Within, Inside, Innermost
<1>3. x = ActionInvoked(s, act, kind)
  OBVIOUS
<1> HIDE DEF x
<1>4. Learned(r, x)
  BY <1>1, <1>2, ReadIs DEF Told
<1> QED BY <1>1, <1>3, <1>4
    DEF Learned, Told, PathAfter, MarksAfter, ArmedAfterRecord, RunningAfter, CauseAfter,
        Opening, Closing

(* A transition fires for its cause, a default within another.            *)
LEMMA ReadTransitionFired ==
  ASSUME NEW r, NEW p, NEW m, NEW a, NEW u, NEW c, Told(r, p, m, a, u, c),
         NEW f, NEW t, NEW why, p # <<>>,
         Head(p) = f,
         \/ m = <<>> /\ why \in {c.reason, Internally}
         \/ m # <<>> /\ Head(m).is = "TransitionFired" /\ why = Internally
  PROVE  Told(Read(r, TransitionFired(f, t, why)), p,
              <<TransitionFired(f, t, why)>> \o m, a, u, c)
<1> DEFINE x == TransitionFired(f, t, why)
<1>1. x.is = "TransitionFired" /\ x.from = f /\ x.to = t /\ x.reason = why
  BY DEF TransitionFired
<1>2. Expected(r, x)
  BY DEF Expected, TransitionFired, Told, AtRest, Within, Inside, Innermost
<1>3. x = TransitionFired(f, t, why)
  OBVIOUS
<1> HIDE DEF x
<1>4. Learned(r, x)
  BY <1>1, <1>2, ReadIs DEF Told
<1> QED BY <1>1, <1>3, <1>4
    DEF Learned, Told, PathAfter, MarksAfter, ArmedAfterRecord, RunningAfter, CauseAfter,
        Opening, Closing

(* The innermost transition that is open is complete.                      *)
LEMMA ReadTransitionComplete ==
  ASSUME NEW r, NEW p, NEW m, NEW a, NEW u, NEW c, Told(r, p, m, a, u, c),
         NEW f, NEW t, m # <<>>,
         Head(m).is = "TransitionFired",
         Head(m).from = f,
         Head(m).to = t
  PROVE  Told(Read(r, TransitionComplete(f, t)), p, Tail(m), a, u, c)
<1> DEFINE x == TransitionComplete(f, t)
<1>1. x.is = "TransitionComplete" /\ x.from = f /\ x.to = t
  BY DEF TransitionComplete
<1>2. Expected(r, x)
  BY DEF Expected, TransitionComplete, Told, AtRest, Within, Inside, Innermost
<1>3. x = TransitionComplete(f, t)
  OBVIOUS
<1> HIDE DEF x
<1>4. Learned(r, x)
  BY <1>1, <1>2, ReadIs DEF Told
<1> QED BY <1>1, <1>3, <1>4
    DEF Learned, Told, PathAfter, MarksAfter, ArmedAfterRecord, RunningAfter, CauseAfter,
        Opening, Closing

(* An event is received and delivered, dropped, or the end.               *)
LEMMA ReadEventReceived ==
  ASSUME NEW r, NEW p, NEW m, NEW a, NEW u, NEW c, Told(r, p, m, a, u, c),
         NEW e, m = <<>>
  PROVE  Told(Read(r, EventReceived(e)), p, <<EventReceived(e)>> \o m, a, u, c)
<1> DEFINE x == EventReceived(e)
<1>1. x.is = "EventReceived" /\ x.event = e
  BY DEF EventReceived
<1>2. Expected(r, x)
  BY DEF Expected, EventReceived, Told, AtRest, Within, Inside, Innermost
<1>3. x = EventReceived(e)
  OBVIOUS
<1> HIDE DEF x
<1>4. Learned(r, x)
  BY <1>1, <1>2, ReadIs DEF Told
<1> QED BY <1>1, <1>3, <1>4
    DEF Learned, Told, PathAfter, MarksAfter, ArmedAfterRecord, RunningAfter, CauseAfter,
        Opening, Closing

(* An event that no state handles.                                         *)
LEMMA ReadEventDropped ==
  ASSUME NEW r, NEW p, NEW m, NEW a, NEW u, NEW c, Told(r, p, m, a, u, c),
         NEW e, m # <<>>,
         Head(m) = EventReceived(e)
  PROVE  Told(Read(r, EventDropped(e)), p, Tail(m), a, u, c)
<1> DEFINE x == EventDropped(e)
<1>1. x.is = "EventDropped" /\ x.event = e
  BY DEF EventDropped
<1>2. Expected(r, x)
  BY DEF Expected, EventDropped, Told, AtRest, Within, Inside, Innermost
<1>3. x = EventDropped(e)
  OBVIOUS
<1> HIDE DEF x
<1>4. Learned(r, x)
  BY <1>1, <1>2, ReadIs DEF Told
<1> QED BY <1>1, <1>3, <1>4
    DEF Learned, Told, PathAfter, MarksAfter, ArmedAfterRecord, RunningAfter, CauseAfter,
        Opening, Closing

(* An event that ends the machine: the mark stays until the last record.   *)
LEMMA ReadTerminateRequested ==
  ASSUME NEW r, NEW p, NEW m, NEW a, NEW u, NEW c, Told(r, p, m, a, u, c),
         NEW e, m # <<>>,
         Head(m) = EventReceived(e)
  PROVE  Told(Read(r, TerminateRequested(e)), p, <<TerminateRequested(e)>> \o Tail(m), a, u, c)
<1> DEFINE x == TerminateRequested(e)
<1>1. x.is = "TerminateRequested" /\ x.event = e
  BY DEF TerminateRequested
<1>2. Expected(r, x)
  BY DEF Expected, TerminateRequested, Told, AtRest, Within, Inside, Innermost
<1>3. x = TerminateRequested(e)
  OBVIOUS
<1> HIDE DEF x
<1>4. Learned(r, x)
  BY <1>1, <1>2, ReadIs DEF Told
<1> QED BY <1>1, <1>3, <1>4
    DEF Learned, Told, PathAfter, MarksAfter, ArmedAfterRecord, RunningAfter, CauseAfter,
        Opening, Closing

(* An event that an active state handles.                                  *)
LEMMA ReadEventDelivered ==
  ASSUME NEW r, NEW p, NEW m, NEW a, NEW u, NEW c, Told(r, p, m, a, u, c),
         NEW s, NEW e, m # <<>>,
         Head(m) = EventReceived(e),
         s \in Range(p)
  PROVE  Told(Read(r, EventDelivered(s, e)), p, Tail(m), a, u,
              [state |-> s, reason |-> ByEvent(e)])
<1> DEFINE x == EventDelivered(s, e)
<1>1. x.is = "EventDelivered" /\ x.state = s /\ x.event = e
  BY DEF EventDelivered
<1>2. Expected(r, x)
  BY DEF Expected, EventDelivered, Told, AtRest, Within, Inside, Innermost
<1>3. x = EventDelivered(s, e)
  OBVIOUS
<1> HIDE DEF x
<1>4. Learned(r, x)
  BY <1>1, <1>2, ReadIs DEF Told
<1> QED BY <1>1, <1>3, <1>4
    DEF Learned, Told, PathAfter, MarksAfter, ArmedAfterRecord, RunningAfter, CauseAfter,
        Opening, Closing

(* A timer that is armed fires.                                            *)
LEMMA ReadTimerFired ==
  ASSUME NEW r, NEW p, NEW m, NEW a, NEW u, NEW c, Told(r, p, m, a, u, c),
         NEW s, NEW t, m = <<>>,
         <<s, t>> \in a
  PROVE  Told(Read(r, TimerFired(s, t)), p, m, a \ {<<s, t>>}, u,
              [state |-> s, reason |-> ByTimer(s, t)])
<1> DEFINE x == TimerFired(s, t)
<1>1. x.is = "TimerFired" /\ x.state = s /\ x.timer = t
  BY DEF TimerFired
<1>2. Expected(r, x)
  BY DEF Expected, TimerFired, Told, AtRest, Within, Inside, Innermost
<1>3. x = TimerFired(s, t)
  OBVIOUS
<1> HIDE DEF x
<1>4. Learned(r, x)
  BY <1>1, <1>2, ReadIs DEF Told
<1> QED BY <1>1, <1>3, <1>4
    DEF Learned, Told, PathAfter, MarksAfter, ArmedAfterRecord, RunningAfter, CauseAfter,
        Opening, Closing

(* An emit is told wherever it comes.                                     *)
LEMMA ReadEmit ==
  ASSUME NEW r, NEW p, NEW m, NEW a, NEW u, NEW c, Told(r, p, m, a, u, c),
         NEW x, x.is \in {"EmitQueued", "EmitFailed"}
  PROVE  Told(Read(r, x), p, m, a, u, c)
<1>1. Expected(r, x)
  <2>1. CASE x.is = "EmitQueued"
    BY <2>1 DEF Expected
  <2>2. CASE x.is = "EmitFailed"
    BY <2>2 DEF Expected
  <2> QED BY <2>1, <2>2
<1>2. Learned(r, x)
  BY <1>1, ReadIs DEF Told
<1>3. CASE x.is = "EmitQueued"
  BY <1>2, <1>3
    DEF Learned, Told, PathAfter, MarksAfter, ArmedAfterRecord, RunningAfter, CauseAfter,
        Opening, Closing
<1>4. CASE x.is = "EmitFailed"
  BY <1>2, <1>4
    DEF Learned, Told, PathAfter, MarksAfter, ArmedAfterRecord, RunningAfter, CauseAfter,
        Opening, Closing
<1> QED BY <1>3, <1>4

(* The first record and the last.                                          *)
LEMMA ReadStarted ==
  ASSUME NEW r, r.sound, ~r.started, ~r.ended
  PROVE  Told(Read(r, Started), r.path, r.marks, r.armed, r.running, r.cause)
<1> DEFINE x == Started
<1>1. x.is = "Started"
  BY DEF Started
<1>2. Expected(r, x)
  BY DEF Expected, Started, AtRest, Within, Inside, Innermost
<1>3. x = Started
  OBVIOUS
<1> HIDE DEF x
<1>4. Learned(r, x)
  BY <1>1, <1>2, ReadIs
<1> QED BY <1>1, <1>3, <1>4
    DEF Learned, Told, PathAfter, MarksAfter, ArmedAfterRecord, RunningAfter, CauseAfter,
        Opening, Closing

(* The last record: no state is left.                                      *)
LEMMA ReadTerminated ==
  ASSUME NEW r, NEW p, NEW m, NEW a, NEW u, NEW c, Told(r, p, m, a, u, c),
         m # <<>>, Head(m).is = "TerminateRequested", p = <<>>
  PROVE  LET n == Read(r, Terminated)
         IN  /\ n.sound /\ n.started /\ n.ended /\ n.ended \in BOOLEAN
             /\ n.path = p /\ n.marks = Tail(m) /\ n.armed = a /\ n.running = u /\ n.cause = c
<1> DEFINE x == Terminated
<1>1. x.is = "Terminated"
  BY DEF Terminated
<1>2. Expected(r, x)
  BY DEF Expected, Terminated, Told, AtRest, Within, Inside, Innermost
<1>3. x = Terminated
  OBVIOUS
<1> HIDE DEF x
<1>4. Learned(r, x)
  BY <1>1, <1>2, ReadIs DEF Told
<1> QED BY <1>1, <1>3, <1>4
    DEF Learned, Told, PathAfter, MarksAfter, ArmedAfterRecord, RunningAfter, CauseAfter,
        Opening, Closing
-----------------------------------------------------------------------------
(* Several records in turn. *)

Records ==
  Mark \cup {Started, Terminated}
    \cup {Entered(s) : s \in State} \cup {Exited(s) : s \in State}
    \cup {DuringStarted(s, i) : s \in State, i \in Nat}
    \cup {DuringCancelled(s, i) : s \in State, i \in Nat}
    \cup {TimerArmed(s, t) : s \in State, t \in Trigger}
    \cup {TimerCancelled(s, t) : s \in State, t \in Trigger}
    \cup {TimerFired(s, t) : s \in State, t \in Trigger}
    \cup {TransitionComplete(f, t) : f \in State, t \in State}
    \cup {EventDelivered(s, e) : s \in State, e \in Event}
    \cup {EventDropped(e) : e \in Event}
    \cup {ActionInvoked(s, a, kind) :
            s \in State, a \in Action, kind \in {"Entry", "Exit", "Handler"}}

(* Records, by the hook that pushes them.                                  *)
LEMMA InvokedType ==
  ASSUME NEW s \in State, NEW actions \in Seq(Action), NEW kind \in {"Entry", "Exit", "Handler"}
  PROVE  Invoked(s, actions, kind) \in Seq(Records)
<1>1. CASE actions = <<>>
  BY <1>1 DEF Invoked
<1>2. CASE actions # <<>>
  <2>1. Head(actions) \in Action
    BY <1>2
  <2>2. ActionInvoked(s, Head(actions), kind) \in Records
    BY <2>1 DEF Records
  <2> QED BY <1>2, <2>2 DEF Invoked
<1> QED BY <1>1, <1>2

(* One record for each during of a state.                                  *)
LEMMA DuringsType ==
  ASSUME NEW s \in State
  PROVE  /\ DuringsStarted(s) \in Seq(Records) /\ Len(DuringsStarted(s)) = DuringCount[s]
         /\ DuringsCancelled(s) \in Seq(Records) /\ Len(DuringsCancelled(s)) = DuringCount[s]
         /\ DuringCount[s] \in Nat
         /\ \A i \in 1 .. DuringCount[s] :
              /\ DuringsStarted(s)[i] = DuringStarted(s, i)
              /\ DuringsCancelled(s)[i] = DuringCancelled(s, i)
<1>1. DuringCount[s] \in Nat
  BY DuringCountType
<1>2. \A i \in 1 .. DuringCount[s] :
        DuringStarted(s, i) \in Records /\ DuringCancelled(s, i) \in Records
  BY <1>1 DEF Records
<1> QED BY <1>1, <1>2 DEF DuringsStarted, DuringsCancelled

(* One record for each timer a state declares.                             *)
LEMMA CancelledType ==
  ASSUME NEW s \in State
  PROVE  /\ OwnedTimers[s] \in Seq(Trigger)
         /\ TimersCancelled(s) \in Seq(Records) /\ Len(TimersCancelled(s)) = Len(OwnedTimers[s])
         /\ \A i \in 1 .. Len(OwnedTimers[s]) :
              TimersCancelled(s)[i] = TimerCancelled(s, OwnedTimers[s][i])
<1>1. OwnedTimers[s] \in Seq(Trigger)
  BY TableTypes
<1>2. \A i \in 1 .. Len(OwnedTimers[s]) : TimerCancelled(s, OwnedTimers[s][i]) \in Records
  BY <1>1 DEF Records
<1> QED BY <1>1, <1>2 DEF TimersCancelled

(* The action that runs next. *)
LEMMA ReadInvoked ==
  ASSUME NEW r, NEW p, NEW m, NEW a, NEW u, NEW c, Told(r, p, m, a, u, c),
         NEW s, NEW actions, NEW kind,
         \/ kind = "Entry" /\ m # <<>> /\ Head(m) = EnterBegan(s)
         \/ kind = "Exit" /\ m # <<>> /\ Head(m) = ExitBegan(s)
         \/ kind = "Handler" /\ m = <<>> /\ c.state = s
  PROVE  Told(ReadAll(r, Invoked(s, actions, kind)), p, m, a, u, c)
<1>1. CASE actions = <<>>
  BY <1>1, ReadNone DEF Invoked
<1>2. CASE actions # <<>>
  <2>1. Told(Read(r, ActionInvoked(s, Head(actions), kind)), p, m, a, u, c)
    BY ReadActionInvoked
  <2> QED BY <1>2, <2>1, ReadOne DEF Invoked
<1> QED BY <1>1, <1>2

(* All durings of a state, all timers of a state. *)
DuringsOf(s, n) == {<<s, i>> : i \in 1 .. n}

(* The durings up to one more.                                             *)
LEMMA OneMore ==
  ASSUME NEW s, NEW n \in Nat
  PROVE  DuringsOf(s, n + 1) = DuringsOf(s, n) \cup {<<s, n + 1>>} /\ DuringsOf(s, 0) = {}
BY DEF DuringsOf

(* All durings of a state start at the end of its entry.                   *)
LEMMA ReadDuringsStarted ==
  ASSUME NEW r, NEW p, NEW m, NEW a, NEW u, NEW c, Told(r, p, m, a, u, c),
         NEW s \in State, m # <<>>, Head(m) = EnterBegan(s)
  PROVE  Told(ReadAll(r, DuringsStarted(s)), p, m, a, u \cup DuringsOf(s, DuringCount[s]), c)
<1> DEFINE N == DuringCount[s]
           q == DuringsStarted(s)
<1>1. N \in Nat /\ Len(q) = N /\ \A i \in 1 .. N : q[i] = DuringStarted(s, i)
  BY DuringsType
<1> HIDE DEF N, q
<1>2. PICK f : Reading(f, r, q)
  BY <1>1, ReadSteps
<1> DEFINE T == {n \in 0 .. N : Told(f[n], p, m, a, u \cup DuringsOf(s, n), c)}
<1>3. 0 \in T
  <2>1. f[0] = r /\ u \cup DuringsOf(s, 0) = u
    BY <1>2, OneMore DEF Reading
  <2>2. Told(f[0], p, m, a, u \cup DuringsOf(s, 0), c)
    BY <2>1
  <2>3. 0 \in 0 .. N
    BY <1>1
  <2> QED BY <2>2, <2>3
<1>4. ASSUME NEW n \in 0 .. N, n > 0, n - 1 \in T PROVE n \in T
  <2>1. n \in 1 .. N /\ n - 1 \in Nat /\ (n - 1) + 1 = n
    BY <1>1, <1>4
  <2>2. f[n] = Read(f[n - 1], DuringStarted(s, n))
    BY <1>1, <1>2, <2>1 DEF Reading
  <2> DEFINE v == u \cup DuringsOf(s, n - 1)
  <2>3. Told(f[n - 1], p, m, a, v, c)
    BY <1>4
  <2>4. v \cup {<<s, n>>} = u \cup DuringsOf(s, n)
    <3>1. DuringsOf(s, n) = DuringsOf(s, n - 1) \cup {<<s, n>>}
      BY <2>1, OneMore
    <3> QED BY <3>1
  <2> HIDE DEF v
  <2>5. Told(f[n], p, m, a, v \cup {<<s, n>>}, c)
    BY <2>2, <2>3, ReadDuringStarted
  <2> QED BY <2>4, <2>5
<1>5. \A n \in 0 .. N : n \in T
  <2> HIDE DEF T
  <2> QED BY <1>1, <1>3, <1>4, UpTo
<1>6. Told(f[N], p, m, a, u \cup DuringsOf(s, N), c)
  BY <1>1, <1>5
<1> QED BY <1>1, <1>2, <1>6 DEF Reading, N, q

(* ... and are cancelled at the start of its exit.                         *)
LEMMA ReadDuringsCancelled ==
  ASSUME NEW r, NEW p, NEW m, NEW a, NEW u, NEW c, Told(r, p, m, a, u, c),
         NEW s \in State, m # <<>>, Head(m) = ExitBegan(s)
  PROVE  Told(ReadAll(r, DuringsCancelled(s)), p, m, a, u \ DuringsOf(s, DuringCount[s]), c)
<1> DEFINE N == DuringCount[s]
           q == DuringsCancelled(s)
<1>1. N \in Nat /\ Len(q) = N /\ \A i \in 1 .. N : q[i] = DuringCancelled(s, i)
  BY DuringsType
<1> HIDE DEF N, q
<1>2. PICK f : Reading(f, r, q)
  BY <1>1, ReadSteps
<1> DEFINE T == {n \in 0 .. N : Told(f[n], p, m, a, u \ DuringsOf(s, n), c)}
<1>3. 0 \in T
  <2>1. f[0] = r /\ u \ DuringsOf(s, 0) = u
    BY <1>2, OneMore DEF Reading
  <2>2. Told(f[0], p, m, a, u \ DuringsOf(s, 0), c)
    BY <2>1
  <2>3. 0 \in 0 .. N
    BY <1>1
  <2> QED BY <2>2, <2>3
<1>4. ASSUME NEW n \in 0 .. N, n > 0, n - 1 \in T PROVE n \in T
  <2>1. n \in 1 .. N /\ n - 1 \in Nat /\ (n - 1) + 1 = n
    BY <1>1, <1>4
  <2>2. f[n] = Read(f[n - 1], DuringCancelled(s, n))
    BY <1>1, <1>2, <2>1 DEF Reading
  <2> DEFINE v == u \ DuringsOf(s, n - 1)
  <2>3. Told(f[n - 1], p, m, a, v, c)
    BY <1>4
  <2>4. v \ {<<s, n>>} = u \ DuringsOf(s, n)
    <3>1. DuringsOf(s, n) = DuringsOf(s, n - 1) \cup {<<s, n>>}
      BY <2>1, OneMore
    <3> QED BY <3>1
  <2> HIDE DEF v
  <2>5. Told(f[n], p, m, a, v \ {<<s, n>>}, c)
    BY <2>2, <2>3, ReadDuringCancelled
  <2> QED BY <2>4, <2>5
<1>5. \A n \in 0 .. N : n \in T
  <2> HIDE DEF T
  <2> QED BY <1>1, <1>3, <1>4, UpTo
<1>6. Told(f[N], p, m, a, u \ DuringsOf(s, N), c)
  BY <1>1, <1>5
<1> QED BY <1>1, <1>2, <1>6 DEF Reading, N, q

TimersUpTo(s, n) == {<<s, OwnedTimers[s][i]>> : i \in 1 .. n}

(* The timers up to one more.                                              *)
LEMMA OneTimerMore ==
  ASSUME NEW s, NEW n \in Nat
  PROVE  /\ TimersUpTo(s, n + 1) = TimersUpTo(s, n) \cup {<<s, OwnedTimers[s][n + 1]>>}
         /\ TimersUpTo(s, 0) = {}
BY DEF TimersUpTo

(* All timers of a state are cancelled at the start of its exit.           *)
LEMMA ReadTimersCancelled ==
  ASSUME NEW r, NEW p, NEW m, NEW a, NEW u, NEW c, Told(r, p, m, a, u, c),
         NEW s \in State, m # <<>>, Head(m) = ExitBegan(s)
  PROVE  Told(ReadAll(r, TimersCancelled(s)), p, m,
              a \ TimersUpTo(s, Len(OwnedTimers[s])), u, c)
<1> DEFINE N == Len(OwnedTimers[s])
           q == TimersCancelled(s)
<1>1. N \in Nat /\ Len(q) = N /\ \A i \in 1 .. N : q[i] = TimerCancelled(s, OwnedTimers[s][i])
  BY CancelledType
<1> HIDE DEF N, q
<1>2. PICK f : Reading(f, r, q)
  BY <1>1, ReadSteps
<1> DEFINE T == {n \in 0 .. N : Told(f[n], p, m, a \ TimersUpTo(s, n), u, c)}
<1>3. 0 \in T
  <2>1. f[0] = r /\ a \ TimersUpTo(s, 0) = a
    BY <1>2, OneTimerMore DEF Reading
  <2>2. Told(f[0], p, m, a \ TimersUpTo(s, 0), u, c)
    BY <2>1
  <2>3. 0 \in 0 .. N
    BY <1>1
  <2> QED BY <2>2, <2>3
<1>4. ASSUME NEW n \in 0 .. N, n > 0, n - 1 \in T PROVE n \in T
  <2>1. n \in 1 .. N /\ n - 1 \in Nat /\ (n - 1) + 1 = n
    BY <1>1, <1>4
  <2> DEFINE t == OwnedTimers[s][n]
  <2>2. f[n] = Read(f[n - 1], TimerCancelled(s, t))
    BY <1>1, <1>2, <2>1 DEF Reading
  <2> DEFINE v == a \ TimersUpTo(s, n - 1)
  <2>3. Told(f[n - 1], p, m, v, u, c)
    BY <1>4
  <2>4. v \ {<<s, t>>} = a \ TimersUpTo(s, n)
    <3>1. TimersUpTo(s, n) = TimersUpTo(s, n - 1) \cup {<<s, t>>}
      BY <2>1, OneTimerMore
    <3> QED BY <3>1
  <2> HIDE DEF v, t
  <2>5. Told(f[n], p, m, v \ {<<s, t>>}, u, c)
    BY <2>2, <2>3, ReadTimerCancelled
  <2> QED BY <2>4, <2>5
<1>5. \A n \in 0 .. N : n \in T
  <2> HIDE DEF T
  <2> QED BY <1>1, <1>3, <1>4, UpTo
<1>6. Told(f[N], p, m, a \ TimersUpTo(s, N), u, c)
  <2>1. N \in 0 .. N
    BY <1>1
  <2>2. N \in T
    BY <1>5, <2>1
  <2> QED BY <2>2
<1> QED BY <1>1, <1>2, <1>6 DEF Reading, N, q
-----------------------------------------------------------------------------
(* The journal observes: every step is a step of the machine. *)

(* A hook only adds a record.                                              *)
LEMMA JournalStepIs == JournalNext => Next
<1>1. \A d, c : LogFireTimer(d, c) => FireTimer(d, c)
  BY DEF LogFireTimer, FireTimer
<1>2. \A d, c : LogTakeEvent(d, c) => TakeEvent(d, c)
  BY DEF LogTakeEvent
<1>3. \A c : LogEnterRoot(c) => EnterRoot(c)
  BY DEF LogEnterRoot
<1>4. \A d \in Elapsed : LogStep(d) => Step(d)
  BY <1>1, <1>2, <1>3 DEF LogStep, Step
<1>5. LogDispatchStep => DispatchStep
  BY <1>1, <1>2, <1>3 DEF LogDispatchStep, DispatchStep
<1>6. JournalInternal => Internal
  BY <1>5
    DEF JournalInternal, Internal, Progress, LogActionReturns, LogHandlerDone, LogBeginExit,
        LogEndExit, LogBeginEnter, LogArmTimer, LogEndEnter, LogUpTransition, LogFollowDefault,
        LogTerminate
<1>7. \A e : LogEmit(e) => Emit(e)
  BY DEF LogEmit
<1> QED BY <1>4, <1>6, <1>7 DEF JournalNext, Next

(* A machine with a journal is a machine.                                  *)
LEMMA JournalObserves == JournalSpec => Spec
<1>1. JournalInit => Init
  BY DEF JournalInit
<1>2. [JournalNext]_jvars => [Next]_vars
  BY JournalStepIs DEF jvars
<1> QED BY <1>1, <1>2, PTL DEF JournalSpec, Spec

-----------------------------------------------------------------------------
(* The marks. *)

(* The head and the tail of what a mark was pushed on.                     *)
LEMMA Pushed ==
  ASSUME NEW S, NEW g \in Seq(S), NEW x
  PROVE  <<x>> \o g # <<>> /\ Head(<<x>> \o g) = x /\ Tail(<<x>> \o g) = g
<1>1. <<x>> \in Seq(S \cup {x}) /\ g \in Seq(S \cup {x})
  OBVIOUS
<1> QED BY <1>1

(* One mark for each open transition.                                      *)
LEMMA DueForIs ==
  ASSUME NEW ts \in Seq(Transition), NEW why \in Reason
  PROVE  /\ DueFor(ts, why) \in Seq(Mark) /\ Len(DueFor(ts, why)) = Len(ts)
         /\ \A i \in 1 .. Len(ts) : DueFor(ts, why)[i] = FiredFor(ts[i], why)
<1>1. ASSUME NEW i \in 1 .. Len(ts) PROVE FiredFor(ts[i], why) \in Mark
  <2>0. ts[i] \in Transition
    OBVIOUS
  <2>1. ts[i].from \in State /\ ts[i].to \in State
    BY <2>0 DEF Transition
  <2>2. (IF ts[i].default THEN Internally ELSE why) \in Reason
    BY DEF Reason
  <2> QED BY <2>1, <2>2 DEF FiredFor, Mark
<1>2. DOMAIN ts = 1 .. Len(ts) /\ Len(ts) \in Nat
  OBVIOUS
<1> QED BY <1>1, <1>2 DEF DueFor

(* With no open transition no mark is due.                                 *)
LEMMA DueNone ==
  ASSUME NEW why \in Reason
  PROVE  DueFor(<<>>, why) = <<>>
<1> DEFINE d == DueFor(<<>>, why)
<1>1. <<>> \in Seq(Transition) /\ Len(<<>>) = 0
  OBVIOUS
<1>2. d \in Seq(Mark) /\ Len(d) = Len(<<>>)
  BY <1>1, DueForIs
<1> HIDE DEF d
<1>3. d = <<>>
  BY <1>1, <1>2
<1> QED BY <1>3 DEF d

(* Another transition is opened within those that are open.               *)
LEMMA DueOpened ==
  ASSUME NEW a \in Transition, NEW rest \in Seq(Transition), NEW why \in Reason
  PROVE  DueFor(<<a>> \o rest, why) = <<FiredFor(a, why)>> \o DueFor(rest, why)
<1> DEFINE w == <<a>> \o rest
           l == DueFor(w, why)
           d == DueFor(rest, why)
<1>1. /\ w \in Seq(Transition) /\ Len(w) = 1 + Len(rest) /\ Len(rest) \in Nat /\ w[1] = a
      /\ \A i \in 1 .. Len(rest) : w[i + 1] = rest[i]
  OBVIOUS
<1> HIDE DEF w
<1>2. /\ l \in Seq(Mark) /\ Len(l) = Len(w)
      /\ \A i \in 1 .. Len(w) : l[i] = FiredFor(w[i], why)
  BY <1>1, DueForIs
<1>3. /\ d \in Seq(Mark) /\ Len(d) = Len(rest)
      /\ \A i \in 1 .. Len(rest) : d[i] = FiredFor(rest[i], why)
  BY DueForIs
<1>4. FiredFor(a, why) \in Mark
  BY <1>1, <1>2
<1> HIDE DEF l, d
<1> DEFINE x == FiredFor(a, why)
<1>5. l[1] = x
  BY <1>1, <1>2
<1>6. \A i \in 1 .. Len(rest) : l[i + 1] = d[i]
  BY <1>1, <1>2, <1>3
<1> HIDE DEF x
<1>7. /\ <<x>> \o d \in Seq(Mark) /\ Len(<<x>> \o d) = 1 + Len(rest)
      /\ (<<x>> \o d)[1] = x /\ \A i \in 1 .. Len(rest) : (<<x>> \o d)[i + 1] = d[i]
  BY <1>1, <1>3, <1>4 DEF x
<1>8. \A i \in 1 .. 1 + Len(rest) : i = 1 \/ \E k \in 1 .. Len(rest) : i = k + 1
  <2>1. ASSUME NEW i \in 1 .. 1 + Len(rest), i # 1 PROVE i - 1 \in 1 .. Len(rest) /\ i = (i - 1) + 1
    BY <1>1, <2>1
  <2> QED BY <2>1
<1> DEFINE v == <<x>> \o d
<1>9. /\ v \in Seq(Mark) /\ Len(v) = 1 + Len(rest)
      /\ v[1] = x /\ \A i \in 1 .. Len(rest) : v[i + 1] = d[i]
  BY <1>7
<1> HIDE DEF v
<1>10. \A i \in 1 .. 1 + Len(rest) : l[i] = v[i]
  BY <1>5, <1>6, <1>8, <1>9
<1>11. l = v
  <2>1. l \in Seq(Mark) /\ v \in Seq(Mark) /\ Len(l) = Len(v) /\ Len(v) = 1 + Len(rest)
    BY <1>1, <1>2, <1>9
  <2> QED BY <1>10, <2>1, SeqEqual
<1> QED BY <1>11 DEF l, v, d, w, x

(* The same for the machine.                                               *)
LEMMA DueIs ==
  ASSUME JournalTypes
  PROVE  /\ Due \in Seq(Mark) /\ Len(Due) = Len(open)
         /\ \A i \in 1 .. Len(open) : Due[i] = FiredFor(open[i], handling.reason)
BY DueForIs DEF Due, JournalTypes

(* Below the mark of an entry or exit are those of its transition.         *)
LEMMA GroundIs ==
  ASSUME JournalTypes
  PROVE  /\ Ground \in Seq(Mark)
         /\ target # None => Ground = Due
         /\ ~Moving => Ground = Due
<1>1. Due \in Seq(Mark)
  BY DueIs
<1>2. TerminateRequested(TerminateEvent) \in Mark
  BY TableTypes DEF Mark
<1> QED BY <1>1, <1>2 DEF Ground

(* Nothing opened and nothing completed: the same marks are due.           *)
LEMMA DueSame ==
  ASSUME UNCHANGED <<open, handling>>
  PROVE  Due' = Due
BY DEF Due

(* Nothing is open: no mark is due.                                        *)
LEMMA NothingDueToEnd ==
  ASSUME JournalTypes, open = <<>>
  PROVE  Due = <<>>
BY DueIs

(* The reader of a machine that has begun and not terminated. *)
LEMMA Known ==
  ASSUME JournalInvariant, Begun, ~terminated
  PROVE  Told(reader, active, Marks, reader.armed, Running, handling)
BY DEF JournalInvariant, ReaderKnows, Told

(* What a step has to establish.                                           *)
LEMMA InvariantNext ==
  ASSUME Begun', ~terminated', NEW a, Told(reader', active', Marks', a, Running', handling'),
         JournalTypes', OpenShape', OneEntryEach(timers'), Pairs(timers') \subseteq a
  PROVE  JournalInvariant' /\ reader'.armed = a
BY DEF JournalInvariant, ReaderKnows, Told

-----------------------------------------------------------------------------
(* The machine's steps, one after another. *)

(* Nothing that the journal tells changes: between two steps, or while a   *)
(* user's action runs.                                                     *)
LEMMA StillKnown ==
  ASSUME JournalInvariant,
         UNCHANGED <<current, terminated, active, timers, open, handling, exits, enters, target>>,
         UNCHANGED phase \/ (~Moving /\ ~Moving' /\ phase # "defaults")
  PROVE  /\ JournalTypes' /\ OpenShape' /\ Marks' = Marks /\ Running' = Running
         /\ Begun' = Begun /\ OneEntryEach(timers') /\ Pairs(timers') = Pairs(timers)
<1>1. Due' = Due
  BY DueSame
<1>2. Moving' = Moving /\ Exiting' = Exiting
  BY DEF Moving, Exiting
<1>3. Ground' = Ground
  BY <1>1, <1>2 DEF Ground
<1>4. Marks' = Marks
  <2>1. CASE UNCHANGED phase
    BY <1>3, <2>1, Zenon DEF Marks
  <2>2. CASE ~Moving /\ ~Moving'
    BY <1>3, <2>2 DEF Marks, Moving
  <2> QED BY <2>1, <2>2
<1>5. OpenShape'
  BY <1>2 DEF JournalInvariant, OpenShape
<1>6. Running' = Running
  BY <1>2 DEF Running
<1>7. JournalTypes' /\ OneEntryEach(timers') /\ Pairs(timers') = Pairs(timers)
  BY DEF JournalInvariant, JournalTypes
<1> QED BY <1>2, <1>4, <1>5, <1>6, <1>7 DEF Begun

(* A step without a record that changes nothing the journal tells.         *)
LEMMA UnobservedKnown ==
  ASSUME JournalInvariant, UNCHANGED reader,
         UNCHANGED <<current, terminated, active, timers, open, handling, exits, enters, target>>,
         UNCHANGED phase \/ (~Moving /\ ~Moving' /\ phase # "defaults")
  PROVE  JournalInvariant' /\ reader'.armed = reader.armed
BY StillKnown DEF JournalInvariant, ReaderKnows

(* An emit, queued or refused.                                             *)
LEMMA EmitKnown ==
  ASSUME TypeOK, MachineInvariant, JournalInvariant, NEW e \in Event, LogEmit(e)
  PROVE  JournalInvariant' /\ reader'.armed = reader.armed
<1>1. UNCHANGED <<current, terminated, active, timers, open, handling, exits, enters, target, phase>>
  BY DEF LogEmit, Emit, Push, frame
<1>2. Begun /\ ~terminated
  BY DEF LogEmit, Emit, MachineInvariant, Control, Begun, Moving
<1> DEFINE x == IF ~overflow /\ Len(queue) < QueueCap THEN EmitQueued(e) ELSE EmitFailed(e)
<1>3. x.is \in {"EmitQueued", "EmitFailed"}
  BY DEF EmitQueued, EmitFailed
<1>4. reader' = ReadAll(reader, <<x>>)
  BY DEF LogEmit, Observe
<1> HIDE DEF x
<1>5. Told(Read(reader, x), active, Marks, reader.armed, Running, handling)
  BY <1>2, <1>3, Known, ReadEmit
<1>6. Told(reader', active', Marks', reader.armed, Running', handling')
  BY <1>1, <1>4, <1>5, ReadOne, StillKnown
<1>7. Pairs(timers') \subseteq reader.armed
  BY <1>1 DEF JournalInvariant
<1> QED BY <1>1, <1>2, <1>6, <1>7, StillKnown, InvariantNext

(* The innermost mark while a state is entered or exited. *)
LEMMA InnermostMark ==
  ASSUME JournalInvariant
  PROVE  /\ phase = "exiting" => Marks # <<>> /\ Head(Marks) = ExitBegan(Head(exits))
                                 /\ Tail(Marks) = Ground
         /\ phase \in {"entering", "arming"} =>
              Marks # <<>> /\ Head(Marks) = EnterBegan(Head(enters)) /\ Tail(Marks) = Ground
         /\ phase \notin {"exiting", "entering", "arming"} => Marks = Ground
<1>1. Ground \in Seq(Mark)
  BY GroundIs DEF JournalInvariant
<1>2. CASE phase = "exiting"
  <2>1. Marks = <<ExitBegan(Head(exits))>> \o Ground
    BY <1>2 DEF Marks
  <2> QED BY <1>1, <1>2, <2>1, Pushed
<1>3. CASE phase \in {"entering", "arming"}
  <2>1. Marks = <<EnterBegan(Head(enters))>> \o Ground
    BY <1>3 DEF Marks
  <2> QED BY <1>1, <1>3, <2>1, Pushed
<1>4. CASE phase \notin {"exiting", "entering", "arming"}
  BY <1>4 DEF Marks
<1> QED BY <1>2, <1>3, <1>4

(* At rest nothing is open. *)
LEMMA NoMarksAtRest ==
  ASSUME JournalInvariant, ~Moving, phase # "defaults"
  PROVE  Marks = <<>> /\ open = <<>>
<1>1. open = <<>> /\ Due = <<>>
  BY NothingDueToEnd DEF JournalInvariant, OpenShape
<1>2. Ground = Due
  BY GroundIs DEF JournalInvariant
<1> QED BY <1>1, <1>2 DEF Marks, Moving

(* The next action is invoked.                                             *)
LEMMA ActionReturnsKnown ==
  ASSUME TypeOK, MachineInvariant, JournalInvariant, LogActionReturns
  PROVE  JournalInvariant' /\ reader'.armed = reader.armed
<1>1. UNCHANGED <<current, terminated, active, timers, open, handling, exits, enters, target, phase>>
  BY DEF LogActionReturns, ActionReturns, fields, history
<1>2. /\ phase \in {"handler", "exiting", "entering"} /\ Begun /\ ~terminated
  BY DEF LogActionReturns, ActionReturns, MachineInvariant, Control, Begun, Moving
<1>3. Told(reader', active, Marks, reader.armed, Running, handling)
  <2>1. CASE phase = "handler"
    <3>1. reader' = ReadAll(reader, Invoked(handling.state, Tail(acts), "Handler"))
      BY <2>1 DEF LogActionReturns, Observe
    <3>2. Marks = <<>>
      BY <2>1, NoMarksAtRest DEF Moving
    <3> QED BY <1>2, <3>1, <3>2, Known, ReadInvoked
  <2>2. CASE phase = "entering"
    <3>1. reader' = ReadAll(reader, Invoked(Head(enters), Tail(acts), "Entry"))
      BY <2>2 DEF LogActionReturns, Observe
    <3> QED BY <1>2, <2>2, <3>1, Known, InnermostMark, ReadInvoked
  <2>3. CASE phase = "exiting"
    <3>1. reader' = ReadAll(reader, Invoked(Head(exits), Tail(acts), "Exit"))
      BY <2>3 DEF LogActionReturns, Observe
    <3> QED BY <1>2, <2>3, <3>1, Known, InnermostMark, ReadInvoked
  <2> QED BY <1>2, <2>1, <2>2, <2>3
<1>4. Told(reader', active', Marks', reader.armed, Running', handling')
  BY <1>1, <1>3, StillKnown
<1>5. Pairs(timers') \subseteq reader.armed
  BY <1>1 DEF JournalInvariant
<1> QED BY <1>1, <1>2, <1>4, <1>5, StillKnown, InvariantNext

(* A transition sets out: what it has open is what it has recorded.        *)
LEMMA MarksSettingOut ==
  ASSUME Moving', phase' = "path", target' # None
  PROVE  Marks' = Due' /\ Running' = {p \in State \X Nat : p[1] \in Range(active') /\ p[2] \in 1 .. DuringCount[p[1]]}
BY DEF Marks, Ground, Running, Exiting

(* Unless a state is being exited, the durings of all active states run.   *)
LEMMA RunningIs ==
  ASSUME ~(phase = "exiting")
  PROVE  Running = {p \in State \X Nat : p[1] \in Range(active) /\ p[2] \in 1 .. DuringCount[p[1]]}
BY DEF Running, Exiting

(* At rest the configuration is the path of current. *)
LEMMA InnermostIsCurrent ==
  ASSUME MachineInvariant, ~Moving, current \in State
  PROVE  active = TerminatePath[current] /\ active # <<>> /\ Head(active) = current
<1>1. current # None
  BY TableTypes
<1>2. active = TerminatePath[current]
  BY <1>1 DEF MachineInvariant, ActiveMatchesCurrent
<1> QED BY <1>2, PathsAreClosed

(* The handler is done: its transition, if any, fires.                     *)
LEMMA HandlerDoneKnown ==
  ASSUME TypeOK, MachineInvariant, JournalInvariant, LogHandlerDone
  PROVE  JournalInvariant' /\ reader'.armed = reader.armed
<1>1. /\ phase = "handler" /\ HandlerDone /\ ~Moving /\ current # None /\ ~terminated /\ Begun
      /\ UNCHANGED handling /\ current \in State
  BY DEF LogHandlerDone, HandlerDone, MachineInvariant, Control, Begun, Moving, TypeOK
<1>2. Marks = <<>> /\ open = <<>>
  BY <1>1, NoMarksAtRest
<1>3. CASE target = None
  BY <1>1, <1>3, UnobservedKnown
    DEF LogHandlerDone, HandlerDone, BeginPath, fields, history, Moving
<1>4. CASE target # None
  <2> DEFINE a == [from |-> current, to |-> target, default |-> FALSE]
  <2>1. /\ reader' = ReadAll(reader, <<TransitionFired(current, target, handling.reason)>>)
        /\ open' = <<a>>
    BY <1>4 DEF LogHandlerDone, Observe
  <2>2. BeginPath(current, target)
    BY <1>1, <1>4 DEF HandlerDone
  <2>3. /\ phase' = "path" /\ target' = target /\ Moving'
        /\ UNCHANGED <<current, terminated, active, timers>>
    BY <2>2 DEF BeginPath, Moving, fields
  <2>4. a \in Transition /\ a.from = current /\ a.to = target /\ a.default = FALSE
    BY <1>1, <1>4 DEF TypeOK, Transition
  <2> HIDE DEF a
  <2>5. JournalTypes'
    BY <1>1, <2>1, <2>4 DEF JournalInvariant, JournalTypes
  <2>6. OpenShape'
    BY <2>1, <2>3, <1>4 DEF OpenShape
  <2>7. Marks' = <<TransitionFired(current, target, handling.reason)>> \o <<>>
    <3>1. open' = <<a>> \o <<>> /\ <<>> \in Seq(Transition) /\ handling.reason \in Reason
      BY <2>1 DEF JournalInvariant, JournalTypes
    <3>2. Due' = <<FiredFor(a, handling.reason)>> \o DueFor(<<>>, handling.reason)
      BY <1>1, <2>4, <3>1, DueOpened DEF Due
    <3>3. DueFor(<<>>, handling.reason) = <<>>
      BY <3>1, DueNone
    <3> QED BY <1>4, <2>3, <2>4, <3>2, <3>3, MarksSettingOut DEF FiredFor
  <2>8. Running' = Running
    BY <1>1, <1>4, <2>3, MarksSettingOut, RunningIs
  <2>9. Told(reader', active', Marks', reader.armed, Running', handling')
    <3>1. active # <<>> /\ Head(active) = current
      BY <1>1, InnermostIsCurrent
    <3>2. Told(reader, active, <<>>, reader.armed, Running, handling)
      BY <1>1, <1>2, Known
    <3>3. handling.reason \in {handling.reason, Internally}
      OBVIOUS
    <3>4. Told(Read(reader, TransitionFired(current, target, handling.reason)), active,
               <<TransitionFired(current, target, handling.reason)>> \o <<>>,
               reader.armed, Running, handling)
      BY <3>1, <3>2, <3>3, ReadTransitionFired
    <3> QED BY <1>1, <2>1, <2>3, <2>7, <2>8, <3>4, ReadOne
  <2>10. Begun' /\ ~terminated'
    BY <1>1, <2>3 DEF Begun
  <2>11. OneEntryEach(timers') /\ Pairs(timers') \subseteq reader.armed
    BY <2>3 DEF JournalInvariant
  <2> QED BY <2>5, <2>6, <2>9, <2>10, <2>11, InvariantNext
<1> QED BY <1>3, <1>4

(* The innermost mark of a transition or of a termination under way.      *)
LEMMA ExitsAreOpened ==
  ASSUME TypeOK, JournalInvariant, Moving, phase = "path", exits # <<>>
  PROVE  /\ Marks = Ground /\ Ground # <<>>
         /\ Head(Ground).is \in {"TransitionFired", "TerminateRequested"}
<1>1. Marks = Ground
  BY InnermostMark
<1>2. CASE target = None
  BY <1>1, <1>2 DEF Ground, TerminateRequested
<1>3. CASE target # None
  <2>1. open # <<>> /\ open \in Seq(Transition)
    BY <1>3 DEF JournalInvariant, OpenShape, JournalTypes
  <2>2. Ground = Due /\ Due \in Seq(Mark) /\ Due # <<>> /\ Due[1] = FiredFor(open[1], handling.reason)
    BY <1>3, <2>1, GroundIs, DueIs DEF JournalInvariant
  <2>3. Head(Due).is = "TransitionFired"
    BY <2>2 DEF FiredFor, TransitionFired
  <2> QED BY <1>1, <2>2, <2>3
<1> QED BY <1>2, <1>3

(* Exits and entries go on within the marks of their transition.           *)
LEMMA GroundSame ==
  ASSUME UNCHANGED <<open, handling, target>>, Moving, Moving'
  PROVE  Ground' = Ground
BY DueSame DEF Ground

(* Fewer timers, fewer pairs.                                              *)
LEMMA PairsOfSubset ==
  ASSUME NEW ts, NEW rest \in SUBSET ts, OneEntryEach(ts)
  PROVE  OneEntryEach(rest) /\ Pairs(rest) \subseteq Pairs(ts)
BY DEF OneEntryEach, Pairs

(* cancel_state leaves no pair of its state.                               *)
LEMMA CancelledPairs ==
  ASSUME NEW ts \in SUBSET Timer, NEW s, NEW a, NEW n, OneEntryEach(ts), Pairs(ts) \subseteq a
  PROVE  /\ OneEntryEach(CancelState(ts, s))
         /\ Pairs(CancelState(ts, s)) \subseteq a \ TimersUpTo(s, n)
<1>1. CancelState(ts, s) \subseteq ts
  BY DEF CancelState
<1>2. \A e \in CancelState(ts, s) : <<e.state, e.trigger>> \notin TimersUpTo(s, n)
  BY DEF CancelState, TimersUpTo
<1>3. \A x \in Pairs(CancelState(ts, s)) : x \notin TimersUpTo(s, n)
  BY <1>2 DEF Pairs
<1> QED BY <1>1, <1>3, PairsOfSubset

(* An exit begins: durings and timers are cancelled, an action is invoked. *)
LEMMA BeginExitKnown ==
  ASSUME TypeOK, MachineInvariant, JournalInvariant, LogBeginExit
  PROVE  JournalInvariant' /\ reader'.armed = reader.armed \ TimersUpTo(Head(exits), Len(OwnedTimers[Head(exits)]))
<1> DEFINE s == Head(exits)
           n == Len(OwnedTimers[s])
           a == reader.armed \ TimersUpTo(s, n)
           u == Running \ DuringsOf(s, DuringCount[s])
           m == <<ExitBegan(s)>> \o Ground
<1>1. /\ BeginExit /\ phase = "path" /\ exits # <<>> /\ Moving /\ Moving' /\ Begun /\ ~terminated
      /\ phase' = "exiting" /\ timers' = CancelState(timers, s)
      /\ UNCHANGED <<current, terminated, active, open, handling, target, exits>>
  BY DEF LogBeginExit, BeginExit, MachineInvariant, Control, Begun, Moving
<1>2. s \in State /\ active # <<>> /\ Head(active) = s
  BY <1>1, ExitLeaves DEF MachineInvariant
<1>3. /\ Marks = Ground /\ Ground # <<>> /\ Ground \in Seq(Mark)
      /\ Head(Ground).is \in {"TransitionFired", "TerminateRequested"}
  BY <1>1, ExitsAreOpened, GroundIs DEF JournalInvariant
<1>4. Marks' = m
  <2>1. Ground' = Ground
    BY <1>1, GroundSame
  <2> QED BY <1>1, <2>1 DEF Marks
<1>5. Running' = u
  <2>1. Exiting' = {s} /\ Exiting = {}
    BY <1>1 DEF Exiting
  <2>2. \A p \in State \X Nat :
          p \in DuringsOf(s, DuringCount[s]) <=> (p[1] = s /\ p[2] \in 1 .. DuringCount[s])
    BY DEF DuringsOf
  <2> HIDE DEF s
  <2> QED BY <1>1, <2>1, <2>2 DEF Running
<1>6. m # <<>> /\ Head(m) = ExitBegan(s)
  BY <1>3, Pushed
<1> DEFINE q1 == <<ExitBegan(s)>>
           q2 == DuringsCancelled(s)
           q3 == TimersCancelled(s)
           q4 == Invoked(s, ExitActions[s], "Exit")
<1>7. q1 \in Seq(Records) /\ q2 \in Seq(Records) /\ q3 \in Seq(Records) /\ q4 \in Seq(Records)
  <2>1. ExitActions[s] \in Seq(Action)
    BY <1>2, TableTypes
  <2>2. ExitBegan(s) \in Records
    BY <1>2 DEF Records, Mark
  <2>3. q4 \in Seq(Records)
    BY <1>2, <2>1, InvokedType
  <2> QED BY <1>2, <2>2, <2>3, DuringsType, CancelledType
<1>8. reader' = ReadAll(reader, ((q1 \o q2) \o q3) \o q4)
  BY DEF LogBeginExit, Observe
<1>9. Told(ReadAll(reader, q1), active, m, reader.armed, Running, handling)
  <2>1. Told(reader, active, Ground, reader.armed, Running, handling)
    BY <1>1, <1>3, Known
  <2> HIDE DEF s
  <2>2. Told(Read(reader, ExitBegan(s)), active, m, reader.armed, Running, handling)
    BY <1>2, <1>3, <2>1, ReadExitBegan
  <2> QED BY <2>2, ReadOne
<1> HIDE DEF s, m
<1>10. Told(ReadAll(ReadAll(reader, q1), q2), active, m, reader.armed, u, handling)
  <2> HIDE DEF q1
  <2> QED BY <1>2, <1>6, <1>9, ReadDuringsCancelled
<1>11. Told(ReadAll(ReadAll(ReadAll(reader, q1), q2), q3), active, m, a, u, handling)
  <2> HIDE DEF q1, q2, u
  <2> QED BY <1>2, <1>6, <1>10, ReadTimersCancelled
<1>12. Told(ReadAll(ReadAll(ReadAll(ReadAll(reader, q1), q2), q3), q4), active, m, a, u, handling)
  <2> HIDE DEF q1, q2, q3, u, a
  <2> QED BY <1>6, <1>11, ReadInvoked
<1>13. ReadAll(reader, ((q1 \o q2) \o q3) \o q4)
         = ReadAll(ReadAll(ReadAll(ReadAll(reader, q1), q2), q3), q4)
  <2> HIDE DEF q1, q2, q3, q4
  <2>1. q1 \o q2 \in Seq(Records) /\ (q1 \o q2) \o q3 \in Seq(Records)
    BY <1>7
  <2>2. ReadAll(reader, q1 \o q2) = ReadAll(ReadAll(reader, q1), q2)
    BY <1>7, ReadInTurn
  <2> DEFINE w2 == q1 \o q2
  <2>3. ReadAll(reader, w2 \o q3) = ReadAll(ReadAll(reader, w2), q3)
    <3> HIDE DEF w2
    <3>1. w2 \in Seq(Records)
      BY <2>1 DEF w2
    <3> QED BY <1>7, <3>1, ReadInTurn
  <2> DEFINE w3 == w2 \o q3
  <2>4. ReadAll(reader, w3 \o q4) = ReadAll(ReadAll(reader, w3), q4)
    <3> HIDE DEF w3
    <3>1. w3 \in Seq(Records)
      BY <2>1 DEF w3
    <3> QED BY <1>7, <3>1, ReadInTurn
  <2> QED BY <2>2, <2>3, <2>4
<1>14. Told(reader', active', Marks', a, Running', handling')
  <2> HIDE DEF q1, q2, q3, q4, a, u
  <2> QED BY <1>1, <1>4, <1>5, <1>8, <1>12, <1>13
<1>15. OneEntryEach(timers') /\ Pairs(timers') \subseteq a
  BY <1>1, CancelledPairs DEF TypeOK, JournalInvariant
<1>16. JournalTypes' /\ OpenShape' /\ Begun' /\ ~terminated'
  BY <1>1 DEF JournalInvariant, JournalTypes, OpenShape, Begun
<1> HIDE DEF a
<1>17. JournalInvariant' /\ reader'.armed = a
  BY <1>14, <1>15, <1>16, InvariantNext
<1> QED BY <1>17 DEF a, n, s

(* An exit ends.                                                           *)
LEMMA EndExitKnown ==
  ASSUME TypeOK, MachineInvariant, JournalInvariant, LogEndExit
  PROVE  JournalInvariant' /\ reader'.armed = reader.armed
<1> DEFINE s == Head(exits)
<1>1. /\ EndExit /\ phase = "exiting" /\ exits # <<>> /\ Moving /\ Moving' /\ Begun /\ ~terminated
      /\ phase' = "path" /\ active' = Leave(s) /\ exits' = Tail(exits)
      /\ UNCHANGED <<current, terminated, timers, open, handling, target>>
  BY DEF LogEndExit, EndExit, MachineInvariant, Control, Begun, Moving, fields
<1>2. s \in State /\ active # <<>> /\ Head(active) = s /\ active' = Tail(active)
  BY <1>1, ExitLeaves DEF MachineInvariant
<1>3. Marks # <<>> /\ Head(Marks) = ExitBegan(s) /\ Tail(Marks) = Ground
  BY <1>1, InnermostMark
<1>4. Marks' = Ground
  <2>1. Ground' = Ground
    BY <1>1, GroundSame
  <2> QED BY <1>1, <2>1 DEF Marks
<1>5. Running' = Running
  <2>1. Exiting' = {} /\ Exiting = {s}
    BY <1>1 DEF Exiting
  <2>2. active \in Seq(State)
    BY DEF TypeOK
  <2>3. s \notin Range(Tail(active))
    BY <1>2, <2>2, HeadNotInTail DEF MachineInvariant, ActiveIsPath
  <2>4. Range(active) = {s} \cup Range(Tail(active))
    <3>1. Tail(active) \in Seq(State) /\ active = <<s>> \o Tail(active)
      BY <1>2, <2>2
    <3> QED BY <1>2, <3>1, RangeOfPush
  <2> HIDE DEF s
  <2> QED BY <1>1, <1>2, <2>1, <2>3, <2>4 DEF Running
<1>6. reader' = ReadAll(reader, <<Exited(s)>>)
  BY DEF LogEndExit, Observe
<1> HIDE DEF s
<1>7. Told(Read(reader, Exited(s)), Tail(active), Tail(Marks), reader.armed, Running, handling)
  BY <1>1, <1>3, Known, ReadExited
<1>8. Told(reader', active', Marks', reader.armed, Running', handling')
  BY <1>1, <1>2, <1>3, <1>4, <1>5, <1>6, <1>7, ReadOne
<1>9. OneEntryEach(timers') /\ Pairs(timers') \subseteq reader.armed
  BY <1>1 DEF JournalInvariant
<1>10. OpenShape'
  BY <1>1 DEF JournalInvariant, OpenShape
<1>11. JournalTypes' /\ Begun' /\ ~terminated'
  BY <1>1 DEF JournalInvariant, JournalTypes, Begun
<1> QED BY <1>8, <1>9, <1>10, <1>11, InvariantNext

(* An entry begins.                                                        *)
LEMMA BeginEnterKnown ==
  ASSUME TypeOK, MachineInvariant, JournalInvariant, LogBeginEnter
  PROVE  JournalInvariant' /\ reader'.armed = reader.armed
<1> DEFINE s == Head(enters)
           m == <<EnterBegan(s)>> \o Ground
           q1 == <<EnterBegan(s)>>
           q2 == Invoked(s, EntryActions[s], "Entry")
<1>1. /\ BeginEnter /\ phase = "path" /\ exits = <<>> /\ enters # <<>> /\ Moving /\ Moving'
      /\ Begun /\ ~terminated /\ phase' = "entering"
      /\ UNCHANGED <<current, terminated, active, timers, open, handling, target, exits, enters>>
  BY DEF LogBeginEnter, BeginEnter, MachineInvariant, Control, Begun, Moving, fields, history
<1>2. /\ s \in State /\ enters \in Seq(State) /\ active \in Seq(State)
      /\ target # None /\ target \in State
  BY <1>1 DEF TypeOK, MachineInvariant, OnTheWay
<1>3. TerminatePath[s] = <<s>> \o active
  <2>1. Untouched = active
    BY <1>1, <1>2 DEF Untouched
  <2>2. TerminatePath[target] = Reverse(enters) \o active
    BY <1>1, <1>2, <2>1 DEF MachineInvariant, OnTheWay
  <2> QED BY <1>1, <1>2, <2>2, HeadOfEnters
<1>4. /\ Marks = Ground /\ Ground = Due /\ Due \in Seq(Mark)
      /\ Due = <<>> \/ Head(Due).is = "TransitionFired"
  <2>1. Marks = Ground
    BY <1>1, InnermostMark
  <2>2. /\ Ground = Due /\ Due \in Seq(Mark) /\ Len(Due) = Len(open)
        /\ \A i \in 1 .. Len(open) : Due[i] = FiredFor(open[i], handling.reason)
    BY <1>2, GroundIs, DueIs DEF JournalInvariant
  <2>3. \A a, why : FiredFor(a, why).is = "TransitionFired"
    BY DEF FiredFor, TransitionFired
  <2>4. Due # <<>> => Due[1].is = "TransitionFired"
    <3> HIDE DEF Due
    <3> QED BY <2>2, <2>3
  <2> QED BY <2>1, <2>2, <2>4
<1>5. Marks' = m
  <2>1. Ground' = Ground
    BY <1>1, GroundSame
  <2> QED BY <1>1, <2>1 DEF Marks
<1>6. Running' = Running
  BY <1>1 DEF Running, Exiting
<1>7. m # <<>> /\ Head(m) = EnterBegan(s)
  BY <1>4, Pushed
<1>8. q1 \in Seq(Records) /\ q2 \in Seq(Records)
  <2>1. EntryActions[s] \in Seq(Action)
    BY <1>2, TableTypes
  <2>2. EnterBegan(s) \in Records
    BY <1>2 DEF Records, Mark
  <2>3. q2 \in Seq(Records)
    BY <1>2, <2>1, InvokedType
  <2> QED BY <2>2, <2>3
<1>9. reader' = ReadAll(ReadAll(reader, q1), q2)
  <2>1. reader' = ReadAll(reader, q1 \o q2)
    BY DEF LogBeginEnter, Observe
  <2> HIDE DEF q1, q2
  <2> QED BY <1>8, <2>1, ReadInTurn
<1> HIDE DEF s
<1>10. Told(ReadAll(reader, q1), active, m, reader.armed, Running, handling)
  <2>1. Told(reader, active, Ground, reader.armed, Running, handling)
    BY <1>1, <1>4, Known
  <2>2. Told(Read(reader, EnterBegan(s)), active, m, reader.armed, Running, handling)
    BY <1>3, <1>4, <2>1, ReadEnterBegan
  <2> QED BY <2>2, ReadOne
<1> HIDE DEF m
<1>11. Told(ReadAll(ReadAll(reader, q1), q2), active, m, reader.armed, Running, handling)
  <2> HIDE DEF q1
  <2> QED BY <1>7, <1>10, ReadInvoked
<1>12. Told(reader', active', Marks', reader.armed, Running', handling')
  BY <1>1, <1>5, <1>6, <1>9, <1>11
<1>13. OneEntryEach(timers') /\ Pairs(timers') \subseteq reader.armed
  BY <1>1 DEF JournalInvariant
<1>14. JournalTypes' /\ OpenShape' /\ Begun' /\ ~terminated'
  BY <1>1 DEF JournalInvariant, JournalTypes, OpenShape, Begun
<1> QED BY <1>12, <1>13, <1>14, InvariantNext

(* The entry actions are done: no record.                                  *)
LEMMA EntryActionsDoneKnown ==
  ASSUME TypeOK, MachineInvariant, JournalInvariant, EntryActionsDone, Unobserved
  PROVE  JournalInvariant' /\ reader'.armed = reader.armed
<1>1. /\ phase = "entering" /\ phase' = "arming" /\ Moving /\ Moving' /\ Begun /\ ~terminated
      /\ UNCHANGED <<current, terminated, active, timers, open, handling, target, exits, enters, reader>>
  BY DEF Unobserved, EntryActionsDone, MachineInvariant, Control, Begun, Moving, fields, history
<1>2. Marks' = Marks
  <2>1. Ground' = Ground
    BY <1>1, GroundSame
  <2> QED BY <1>1, <2>1 DEF Marks
<1>3. Running' = Running
  BY <1>1 DEF Running, Exiting
<1>4. Told(reader', active', Marks', reader.armed, Running', handling')
  BY <1>1, <1>2, <1>3, Known
<1>5. OneEntryEach(timers') /\ Pairs(timers') \subseteq reader.armed
  BY <1>1 DEF JournalInvariant
<1>6. JournalTypes' /\ OpenShape' /\ Begun' /\ ~terminated'
  BY <1>1 DEF JournalInvariant, JournalTypes, OpenShape, Begun
<1> QED BY <1>4, <1>5, <1>6, InvariantNext

(* A start, even a refused one, arms at most its own pair.                 *)
LEMMA StartedPairs ==
  ASSUME NEW ts \in SUBSET Timer, NEW s \in State, NEW t \in Trigger, NEW d \in Nat, NEW a,
         OneEntryEach(ts), Pairs(ts) \subseteq a
  PROVE  /\ OneEntryEach(Start(ts, s, t, d))
         /\ Pairs(Start(ts, s, t, d)) \subseteq a \cup {<<s, t>>}
<1>1. CASE Slot(ts, s, t) # {} \/ Cardinality(ts) < Capacity
  <2>1. /\ OneEntryEach(Start(ts, s, t, d))
        /\ \A e \in Start(ts, s, t, d) : e \in ts \/ (e.state = s /\ e.trigger = t)
    BY <1>1, StartArms
  <2> QED BY <2>1 DEF Pairs
<1>2. CASE ~(Slot(ts, s, t) # {} \/ Cardinality(ts) < Capacity)
  <2>1. Start(ts, s, t, d) = ts
    BY <1>2, Zenon DEF Start
  <2> QED BY <2>1
<1> QED BY <1>1, <1>2

(* A timer is armed.                                                       *)
LEMMA ArmTimerKnown ==
  ASSUME TypeOK, MachineInvariant, JournalInvariant, LogArmTimer
  PROVE  JournalInvariant' /\ reader'.armed = reader.armed \cup {<<Head(enters), Head(arms)>>}
<1> DEFINE s == Head(enters)
           t == Head(arms)
           a == reader.armed \cup {<<s, t>>}
<1>1. /\ ArmTimer /\ phase = "arming" /\ arms # <<>> /\ Moving
      /\ timers' = Start(timers, s, t, DurationFor[t])
      /\ UNCHANGED <<current, terminated, active, open, handling, target, exits, enters, phase>>
  BY DEF LogArmTimer, ArmTimer, Moving, history
<1>2. enters # <<>> /\ Begun /\ ~terminated
  BY <1>1 DEF MachineInvariant, Control, Begun
<1>2a. s \in State /\ t \in Trigger
  BY <1>1, <1>2 DEF TypeOK
<1>2b. DurationFor[t] \in Nat
  BY <1>2a, TableTypes
<1>3. Marks # <<>> /\ Head(Marks) = EnterBegan(s)
  BY <1>1, InnermostMark
<1>4. Marks' = Marks
  <2>1. Ground' = Ground
    BY <1>1, DueSame DEF Ground, Moving
  <2> QED BY <1>1, <2>1 DEF Marks
<1>5. Running' = Running
  BY <1>1 DEF Running, Exiting
<1>6. reader' = ReadAll(reader, <<TimerArmed(s, t)>>)
  BY DEF LogArmTimer, Observe
<1>7. OneEntryEach(timers') /\ Pairs(timers') \subseteq a
  <2> HIDE DEF s, t
  <2> QED BY <1>1, <1>2a, <1>2b, StartedPairs DEF TypeOK, JournalInvariant
<1> HIDE DEF s, t
<1>8. Told(Read(reader, TimerArmed(s, t)), active, Marks, a, Running, handling)
  BY <1>2, <1>3, Known, ReadTimerArmed
<1>9. Told(reader', active', Marks', a, Running', handling')
  BY <1>1, <1>4, <1>5, <1>6, <1>8, ReadOne
<1>10. JournalTypes' /\ OpenShape' /\ Begun' /\ ~terminated'
  BY <1>1, <1>2 DEF JournalInvariant, JournalTypes, OpenShape, Begun, Moving
<1> HIDE DEF a
<1>11. JournalInvariant' /\ reader'.armed = a
  BY <1>7, <1>9, <1>10, InvariantNext
<1> QED BY <1>11 DEF a, s, t

(* An entry ends: the durings start.                                       *)
LEMMA EndEnterKnown ==
  ASSUME TypeOK, MachineInvariant, JournalInvariant, LogEndEnter
  PROVE  JournalInvariant' /\ reader'.armed = reader.armed
<1> DEFINE s == Head(enters)
           u == Running \cup DuringsOf(s, DuringCount[s])
           q1 == DuringsStarted(s)
           q2 == <<Entered(s)>>
<1>1. /\ EndEnter /\ phase = "arming" /\ exits = <<>> /\ enters # <<>> /\ Moving
      /\ Begun /\ ~terminated /\ phase' \in {"defaults", "path"}
      /\ current' = s /\ active' = <<s>> \o active
      /\ UNCHANGED <<terminated, timers, open, handling, target, exits>>
  BY DEF LogEndEnter, EndEnter, MachineInvariant, Control, Begun, Moving
<1>2. s \in State /\ active \in Seq(State) /\ target # None
  BY <1>1 DEF TypeOK, MachineInvariant, OnTheWay
<1>3. Marks # <<>> /\ Head(Marks) = EnterBegan(s) /\ Tail(Marks) = Due
  BY <1>1, <1>2, InnermostMark, GroundIs DEF JournalInvariant
<1>4. Marks' = Due
  <2>1. Due' = Due
    BY <1>1, DueSame
  <2>2. Ground' = Due'
    BY <1>1, <1>2 DEF Ground
  <2> QED BY <1>1, <2>1, <2>2 DEF Marks
<1>5. Running' = u
  <2>1. Exiting' = {} /\ Exiting = {}
    BY <1>1 DEF Exiting
  <2>2. Range(active') = {s} \cup Range(active)
    BY <1>1, <1>2, RangeOfPush
  <2>3. \A p \in State \X Nat :
          p \in DuringsOf(s, DuringCount[s]) <=> (p[1] = s /\ p[2] \in 1 .. DuringCount[s])
    BY DEF DuringsOf
  <2>4. DuringsOf(s, DuringCount[s]) \subseteq State \X Nat
    BY <1>2, DuringCountType DEF DuringsOf
  <2> HIDE DEF s
  <2> QED BY <2>1, <2>2, <2>3, <2>4 DEF Running
<1>6. q1 \in Seq(Records) /\ q2 \in Seq(Records)
  <2>1. Entered(s) \in Records
    BY <1>2 DEF Records
  <2> QED BY <1>2, <2>1, DuringsType
<1>7. reader' = ReadAll(ReadAll(reader, q1), q2)
  <2>1. reader' = ReadAll(reader, q1 \o q2)
    BY DEF LogEndEnter, Observe
  <2> HIDE DEF q1, q2
  <2> QED BY <1>6, <2>1, ReadInTurn
<1> HIDE DEF s
<1>8. Told(ReadAll(reader, q1), active, Marks, reader.armed, u, handling)
  BY <1>1, <1>2, <1>3, Known, ReadDuringsStarted
<1>9. Told(ReadAll(ReadAll(reader, q1), q2), <<s>> \o active, Tail(Marks), reader.armed, u, handling)
  <2> HIDE DEF q1, u
  <2>1. Told(Read(ReadAll(reader, q1), Entered(s)), <<s>> \o active, Tail(Marks), reader.armed, u,
             handling)
    BY <1>3, <1>8, ReadEntered
  <2> QED BY <2>1, ReadOne
<1>10. Told(reader', active', Marks', reader.armed, Running', handling')
  BY <1>1, <1>3, <1>4, <1>5, <1>7, <1>9
<1>11. OneEntryEach(timers') /\ Pairs(timers') \subseteq reader.armed
  BY <1>1 DEF JournalInvariant
<1>12. JournalTypes' /\ OpenShape' /\ Begun' /\ ~terminated'
  <2>1. current' # None
    BY <1>1, <1>2, TableTypes
  <2> QED BY <1>1, <2>1 DEF JournalInvariant, JournalTypes, OpenShape, Begun, Moving
<1> QED BY <1>10, <1>11, <1>12, InvariantNext

(* Completing what is open, innermost first. *)
LEMMA CompletedIs ==
  ASSUME NEW ts \in Seq(Transition)
  PROVE  /\ Completed(ts) \in Seq(Records) /\ Len(Completed(ts)) = Len(ts)
         /\ \A i \in 1 .. Len(ts) : Completed(ts)[i] = TransitionComplete(ts[i].from, ts[i].to)
<1>1. ASSUME NEW i \in 1 .. Len(ts) PROVE TransitionComplete(ts[i].from, ts[i].to) \in Records
  <2>1. ts[i] \in Transition
    OBVIOUS
  <2>2. ts[i].from \in State /\ ts[i].to \in State
    BY <2>1 DEF Transition
  <2> QED BY <2>2 DEF Records
<1>2. DOMAIN ts = 1 .. Len(ts) /\ Len(ts) \in Nat
  OBVIOUS
<1> QED BY <1>1, <1>2 DEF Completed

(* The end of the innermost open transition.                               *)
LEMMA ReadCompletion ==
  ASSUME NEW r, NEW p, NEW a, NEW u, NEW c, NEW x \in Transition, NEW rest \in Seq(Transition),
         NEW why \in Reason, Told(r, p, DueFor(<<x>> \o rest, why), a, u, c)
  PROVE  Told(Read(r, TransitionComplete(x.from, x.to)), p, DueFor(rest, why), a, u, c)
<1> DEFINE g == DueFor(rest, why)
           y == FiredFor(x, why)
           m == DueFor(<<x>> \o rest, why)
<1>1. m = <<y>> \o g
  BY DueOpened
<1>2. g \in Seq(Mark)
  BY DueForIs
<1>3. y.is = "TransitionFired" /\ y.from = x.from /\ y.to = x.to
  BY DEF FiredFor, TransitionFired
<1> HIDE DEF g, y, m
<1>4. m # <<>> /\ Head(m) = y /\ Tail(m) = g
  BY <1>1, <1>2, Pushed
<1>5. Told(r, p, m, a, u, c)
  BY DEF m
<1>6. Told(Read(r, TransitionComplete(x.from, x.to)), p, Tail(m), a, u, c)
  BY <1>3, <1>4, <1>5, ReadTransitionComplete
<1> QED BY <1>4, <1>6 DEF g

(* An element on top of a sequence.                                        *)
LEMMA PushIs ==
  ASSUME NEW S, NEW x \in S, NEW s \in Seq(S)
  PROVE  /\ <<x>> \o s \in Seq(S) /\ Len(<<x>> \o s) = 1 + Len(s) /\ (<<x>> \o s)[1] = x
         /\ \A i \in 1 .. Len(s) : (<<x>> \o s)[i + 1] = s[i]
OBVIOUS

(* The open transitions from the n-th on.                                  *)
LEMMA RestOfOpen ==
  ASSUME NEW ts \in Seq(Transition), NEW n \in 1 .. Len(ts)
  PROVE  /\ ts[n] \in Transition /\ SubSeq(ts, n + 1, Len(ts)) \in Seq(Transition)
         /\ SubSeq(ts, n, Len(ts)) = <<ts[n]>> \o SubSeq(ts, n + 1, Len(ts))
<1> DEFINE l == SubSeq(ts, n, Len(ts))
           v == SubSeq(ts, n + 1, Len(ts))
           z == ts[n]
           w == <<z>> \o v
<1>1. ts[n] \in Transition
  OBVIOUS
<1>2. l \in Seq(Transition) /\ Len(l) = Len(ts) - n + 1 /\ \A i \in 1 .. Len(l) : l[i] = ts[n + i - 1]
  OBVIOUS
<1>3. v \in Seq(Transition) /\ Len(v) = Len(ts) - n /\ \A i \in 1 .. Len(v) : v[i] = ts[n + i]
  OBVIOUS
<1>4. /\ w \in Seq(Transition) /\ Len(w) = 1 + Len(v) /\ w[1] = z
      /\ \A i \in 1 .. Len(v) : w[i + 1] = v[i]
  <2>1. z \in Transition /\ v \in Seq(Transition)
    BY <1>1, <1>3
  <2> HIDE DEF v, z
  <2> QED BY <2>1, PushIs
<1> HIDE DEF l, v, w
<1>5. Len(l) = Len(w) /\ Len(l) \in Nat
  BY <1>2, <1>3, <1>4
<1>6. ASSUME NEW i \in 1 .. Len(l) PROVE l[i] = w[i]
  <2>1. CASE i = 1
    BY <1>2, <1>4, <2>1
  <2>2. CASE i # 1
    <3>1. i - 1 \in 1 .. Len(v) /\ (i - 1) + 1 = i /\ n + (i - 1) = n + i - 1
      BY <1>4, <1>5, <2>2, <1>3
    <3>2. w[i] = v[i - 1] /\ v[i - 1] = ts[n + (i - 1)]
      BY <1>3, <1>4, <3>1
    <3> QED BY <1>2, <3>1, <3>2
  <2> QED BY <2>1, <2>2
<1>7. l = w
  BY <1>2, <1>4, <1>5, <1>6, SeqEqual
<1> QED BY <1>1, <1>3, <1>7 DEF l, v, w

(* The ends of all open transitions, innermost first.                      *)
LEMMA ReadCompleted ==
  ASSUME NEW r, NEW p, NEW a, NEW u, NEW c, NEW ts \in Seq(Transition), NEW why \in Reason,
         Told(r, p, DueFor(ts, why), a, u, c)
  PROVE  Told(ReadAll(r, Completed(ts)), p, <<>>, a, u, c)
<1> DEFINE N == Len(ts)
           q == Completed(ts)
           Rest(n) == SubSeq(ts, n + 1, Len(ts))
<1>1. N \in Nat /\ Len(q) = N /\ \A i \in 1 .. N : q[i] = TransitionComplete(ts[i].from, ts[i].to)
  BY CompletedIs
<1>2. PICK f : Reading(f, r, q)
  <2> HIDE DEF q, N
  <2> QED BY <1>1, ReadSteps
<1> DEFINE T == {n \in 0 .. N : Told(f[n], p, DueFor(Rest(n), why), a, u, c)}
<1>3. 0 \in T
  <2>1. Rest(0) = ts
    OBVIOUS
  <2>2. f[0] = r
    BY <1>2 DEF Reading
  <2>3. Told(f[0], p, DueFor(Rest(0), why), a, u, c)
    BY <2>1, <2>2
  <2>4. 0 \in 0 .. N
    BY <1>1
  <2> HIDE DEF Rest
  <2> QED BY <2>3, <2>4
<1>4. ASSUME NEW n \in 0 .. N, n > 0, n - 1 \in T PROVE n \in T
  <2>1. n \in 1 .. N /\ (n - 1) + 1 = n
    BY <1>1, <1>4
  <2>2. ts[n] \in Transition /\ Rest(n) \in Seq(Transition) /\ Rest(n - 1) = <<ts[n]>> \o Rest(n)
    BY <2>1, RestOfOpen
  <2> HIDE DEF Rest
  <2>3. f[n] = Read(f[n - 1], TransitionComplete(ts[n].from, ts[n].to))
    <3> HIDE DEF q, N
    <3> QED BY <1>1, <1>2, <2>1 DEF Reading
  <2>4. Told(f[n - 1], p, DueFor(Rest(n - 1), why), a, u, c)
    BY <1>4
  <2>5. Told(f[n - 1], p, DueFor(<<ts[n]>> \o Rest(n), why), a, u, c)
    BY <2>2, <2>4
  <2>6. Told(f[n], p, DueFor(Rest(n), why), a, u, c)
    BY <2>2, <2>3, <2>5, ReadCompletion
  <2> QED BY <2>6
<1>5. \A n \in 0 .. N : n \in T
  <2> HIDE DEF T, N
  <2> QED BY <1>1, <1>3, <1>4, UpTo
<1>6. Told(f[N], p, DueFor(Rest(N), why), a, u, c)
  <2>1. N \in 0 .. N
    BY <1>1
  <2>2. N \in T
    BY <1>5, <2>1
  <2> HIDE DEF Rest, N
  <2> QED BY <2>2
<1>7. Rest(N) = <<>>
  OBVIOUS
<1>8. Told(f[N], p, <<>>, a, u, c)
  <2> HIDE DEF Rest, N
  <2> QED BY <1>6, <1>7, DueNone
<1>9. ReadAll(r, q) = f[N]
  <2> HIDE DEF q, N
  <2> QED BY <1>1, <1>2 DEF Reading
<1> QED BY <1>8, <1>9


(* Every transition that is still open is complete. *)
LEMMA UpTransitionKnown ==
  ASSUME TypeOK, MachineInvariant, JournalInvariant, LogUpTransition
  PROVE  JournalInvariant' /\ reader'.armed = reader.armed
<1>1. /\ phase = "path" /\ phase' = "return" /\ exits = <<>> /\ enters = <<>> /\ Moving /\ ~Moving'
      /\ Begun /\ ~terminated /\ target # None /\ current' = target /\ open' = <<>>
      /\ UNCHANGED <<terminated, active, timers, handling>>
  BY DEF LogUpTransition, UpTransition, MachineInvariant, Control, Begun, Moving, history
<1>2. Marks = Due /\ open \in Seq(Transition) /\ handling.reason \in Reason
  BY <1>1, InnermostMark, GroundIs DEF JournalInvariant, JournalTypes
<1>3. JournalTypes'
  BY <1>1 DEF JournalInvariant, JournalTypes
<1>4. Marks' = <<>>
  <2>1. Due' = <<>>
    BY <1>1, <1>2, DueNone DEF Due
  <2>2. Ground' = Due'
    BY <1>1 DEF Ground
  <2> QED BY <1>1, <2>1, <2>2 DEF Marks
<1>5. Running' = Running
  BY <1>1 DEF Running, Exiting
<1>6. Told(ReadAll(reader, Completed(open)), active, <<>>, reader.armed, Running, handling)
  <2>1. Told(reader, active, DueFor(open, handling.reason), reader.armed, Running, handling)
    BY <1>1, <1>2, Known DEF Due
  <2> QED BY <1>2, <2>1, ReadCompleted
<1>7. Told(reader', active', Marks', reader.armed, Running', handling')
  BY <1>1, <1>4, <1>5, <1>6 DEF LogUpTransition, Observe
<1>8. OpenShape' /\ Begun' /\ ~terminated' /\ OneEntryEach(timers') /\ Pairs(timers') \subseteq reader.armed
  BY <1>1 DEF JournalInvariant, OpenShape, Begun
<1> QED BY <1>3, <1>7, <1>8, InvariantNext

(* What is left open once the default just applied is complete.            *)
LEMMA OuterIs ==
  ASSUME TypeOK, JournalInvariant, phase = "defaults"
  PROVE  /\ Applied \in Seq(Transition) /\ Outer \in Seq(Transition) /\ Len(Outer) <= 1
         /\ open = Applied \o Outer
         /\ Applied # <<>> => Applied = <<Head(open)>> /\ Head(open) \in Transition
         /\ Outer # <<>> => ~Outer[1].default
<1>1. open \in Seq(Transition) /\ Len(open) \in Nat /\ Len(open) <= 2
  BY DEF JournalInvariant, JournalTypes, OpenShape
<1>2. Len(open) = 2 => open[1].default /\ ~open[2].default
  BY DEF JournalInvariant, OpenShape
<1>3. CASE DefaultIsOpen
  <2>1. open # <<>> /\ Head(open) = open[1] /\ Head(open) \in Transition /\ Tail(open) \in Seq(Transition)
        /\ Len(Tail(open)) = Len(open) - 1 /\ (Len(open) = 2 => Tail(open)[1] = open[2])
    BY <1>1, <1>3 DEF DefaultIsOpen
  <2>2. Applied = <<Head(open)>> /\ Outer = Tail(open)
    BY <1>3 DEF Applied, Outer
  <2>3. open = <<Head(open)>> \o Tail(open)
    BY <1>1, <2>1
  <2>4. Tail(open) # <<>> => Len(open) = 2
    BY <1>1, <2>1
  <2>5. Applied \in Seq(Transition) /\ (Applied # <<>> => Applied = <<Head(open)>>)
    BY <2>1, <2>2
  <2>6. Outer \in Seq(Transition) /\ Len(Outer) <= 1
    BY <1>1, <2>1, <2>2
  <2>7. Outer # <<>> => ~Outer[1].default
    BY <1>2, <2>1, <2>2, <2>4
  <2>8. open = Applied \o Outer
    BY <2>2, <2>3
  <2> QED BY <2>1, <2>5, <2>6, <2>7, <2>8
<1>4. CASE ~DefaultIsOpen
  <2>1. Applied = <<>> /\ Outer = open
    BY <1>4 DEF Applied, Outer
  <2>2. open # <<>> => Head(open) = open[1] /\ ~open[1].default
    BY <1>1, <1>4 DEF DefaultIsOpen
  <2>3. Len(open) # 2
    <3>1. Len(open) = 2 => open # <<>>
      BY <1>1
    <3> QED BY <1>2, <2>2, <3>1
  <2>4. open = <<>> \o open
    BY <1>1
  <2>5. Outer # <<>> => ~Outer[1].default
    BY <2>1, <2>2
  <2>6. Applied = <<>> /\ open = Applied \o Outer
    BY <2>1, <2>4
  <2>7. Outer \in Seq(Transition) /\ Len(Outer) <= 1
    <3>1. \A n \in Nat : n <= 2 /\ n # 2 => n <= 1
      OBVIOUS
    <3>2. Len(open) <= 1
      BY <1>1, <2>3, <3>1, Zenon
    <3> QED BY <1>1, <2>1, <3>2, Zenon
  <2>8. <<>> \in Seq(Transition)
    OBVIOUS
  <2> QED BY <2>5, <2>6, <2>7, <2>8
<1> QED BY <1>3, <1>4

(* The applied default is complete. *)
LEMMA ReadApplied ==
  ASSUME TypeOK, JournalInvariant, phase = "defaults", Begun, ~terminated
  PROVE  Told(ReadAll(reader, Completed(Applied)), active, DueFor(Outer, handling.reason),
              reader.armed, Running, handling)
<1>1. /\ Applied \in Seq(Transition) /\ Outer \in Seq(Transition) /\ open = Applied \o Outer
      /\ Applied # <<>> => Applied = <<Head(open)>> /\ Head(open) \in Transition
  BY OuterIs
<1>2. Told(reader, active, DueFor(open, handling.reason), reader.armed, Running, handling)
  <2>1. Marks = Due
    BY InnermostMark, GroundIs DEF JournalInvariant, Moving
  <2> QED BY <2>1, Known DEF Due
<1>3. handling.reason \in Reason
  BY DEF JournalInvariant, JournalTypes
<1>4. CASE Applied = <<>>
  <2>1. Completed(Applied) = <<>>
    BY <1>4 DEF Completed
  <2>2. open = Outer
    BY <1>1, <1>4
  <2> QED BY <1>2, <2>1, <2>2, ReadNone
<1>5. CASE Applied # <<>>
  <2> DEFINE x == Head(open)
  <2>1. x \in Transition /\ Applied = <<x>> /\ open = <<x>> \o Outer
    BY <1>1, <1>5
  <2> HIDE DEF x
  <2>2. Completed(Applied) = <<TransitionComplete(x.from, x.to)>>
    BY <2>1 DEF Completed
  <2>3. Told(Read(reader, TransitionComplete(x.from, x.to)), active, DueFor(Outer, handling.reason),
             reader.armed, Running, handling)
    BY <1>1, <1>2, <1>3, <2>1, ReadCompletion
  <2> QED BY <2>2, <2>3, ReadOne
<1> QED BY <1>4, <1>5

(* The next default fires, or all is complete. *)
LEMMA FollowDefaultKnown ==
  ASSUME TypeOK, MachineInvariant, JournalInvariant, LogFollowDefault
  PROVE  JournalInvariant' /\ reader'.armed = reader.armed
<1> DEFINE to == DefaultChild[current]
<1>1. /\ phase = "defaults" /\ FollowDefault /\ ~Moving /\ current # None /\ current \in State
      /\ ~terminated /\ Begun /\ UNCHANGED handling
  BY DEF LogFollowDefault, FollowDefault, MachineInvariant, Control, Begun, Moving, TypeOK
<1>2. Marks = Due /\ open \in Seq(Transition) /\ handling.reason \in Reason
  BY <1>1, InnermostMark, GroundIs DEF JournalInvariant, JournalTypes
<1>3. CASE to = None
  <2>1. /\ phase' = "return" /\ ~Moving' /\ open' = <<>>
        /\ UNCHANGED <<current, terminated, active, timers>>
    BY <1>1, <1>3, TableTypes DEF LogFollowDefault, FollowDefault, Moving, fields, history
  <2>2. reader' = ReadAll(reader, Completed(open))
    BY <1>3 DEF LogFollowDefault, Observe
  <2>3. JournalTypes'
    BY <1>1, <2>1 DEF JournalInvariant, JournalTypes
  <2>4. Marks' = <<>>
    <3>1. Due' = <<>>
      BY <1>1, <1>2, <2>1, DueNone DEF Due
    <3>2. Ground' = Due'
      BY <2>1 DEF Ground
    <3> QED BY <2>1, <3>1, <3>2 DEF Marks
  <2>5. Running' = Running
    BY <1>1, <2>1 DEF Running, Exiting
  <2>6. Told(ReadAll(reader, Completed(open)), active, <<>>, reader.armed, Running, handling)
    <3>1. Told(reader, active, DueFor(open, handling.reason), reader.armed, Running, handling)
      BY <1>1, <1>2, Known DEF Due
    <3> QED BY <1>2, <3>1, ReadCompleted
  <2>7. Told(reader', active', Marks', reader.armed, Running', handling')
    BY <1>1, <2>1, <2>2, <2>4, <2>5, <2>6
  <2>8. OpenShape' /\ Begun' /\ ~terminated' /\ OneEntryEach(timers') /\ Pairs(timers') \subseteq reader.armed
    BY <1>1, <2>1 DEF JournalInvariant, OpenShape, Begun
  <2> QED BY <2>3, <2>7, <2>8, InvariantNext
<1>4. CASE to # None
  <2> DEFINE a == [from |-> current, to |-> to, default |-> TRUE]
             x == TransitionFired(current, to, Internally)
  <2>1. /\ reader' = ReadAll(reader, Completed(Applied) \o <<x>>)
        /\ open' = <<a>> \o Outer
    BY <1>4 DEF LogFollowDefault, Observe
  <2>2. BeginPath(current, to)
    BY <1>1, <1>4 DEF FollowDefault
  <2>3. to \in State
    BY <1>1, <1>4, TableTypes
  <2>4. /\ phase' = "path" /\ target' = to /\ target' # None /\ Moving'
        /\ UNCHANGED <<current, terminated, active, timers>>
    BY <1>4, <2>2 DEF BeginPath, Moving, fields
  <2>5. a \in Transition /\ a.from = current /\ a.to = to /\ a.default = TRUE
    BY <1>1, <2>3 DEF Transition
  <2>6. Applied \in Seq(Transition) /\ Outer \in Seq(Transition) /\ Len(Outer) <= 1
        /\ (Outer # <<>> => ~Outer[1].default)
    BY <1>1, OuterIs
  <2>7. x \in Records
    BY <1>1, <2>3 DEF Records, Mark, Reason
  <2>8. FiredFor(a, handling.reason) = x
    BY <2>5 DEF FiredFor
  <2> HIDE DEF a, to
  <2>9. JournalTypes'
    BY <1>1, <2>1, <2>5, <2>6 DEF JournalInvariant, JournalTypes
  <2>10. OpenShape'
    <3>1. /\ open' # <<>> /\ Len(open') = 1 + Len(Outer) /\ open'[1] = a
          /\ \A i \in 1 .. Len(Outer) : open'[i + 1] = Outer[i]
      BY <2>1, <2>5, <2>6, PushIs, Pushed
    <3>2. Len(open') <= 2
      BY <2>6, <3>1
    <3>3. ASSUME Len(open') = 2 PROVE open'[1].default /\ ~open'[2].default
      <4>1. 1 \in 1 .. Len(Outer) /\ Outer # <<>> /\ 1 + 1 = 2
        <5>1. Len(Outer) = 1
          <6>1. Len(Outer) \in Nat
            BY <2>6
          <6>2. 2 = 1 + Len(Outer)
            BY <3>1, <3>3
          <6>3. \A n \in Nat : 2 = 1 + n => n = 1
            OBVIOUS
          <6> DEFINE l == Len(Outer)
          <6>4. l \in Nat /\ 2 = 1 + l
            BY <6>1, <6>2
          <6> HIDE DEF l
          <6>5. l = 1
            BY <6>3, <6>4
          <6> QED BY <6>5 DEF l
        <5>2. Outer # <<>>
          BY <5>1
        <5> QED BY <5>1, <5>2
      <4>2. open'[1 + 1] = Outer[1]
        BY <3>1, <4>1
      <4> QED BY <2>5, <2>6, <3>1, <4>1, <4>2
    <3> QED BY <2>4, <3>1, <3>2, <3>3 DEF OpenShape
  <2>11. Marks' = <<x>> \o DueFor(Outer, handling.reason)
    <3>1. Due' = DueFor(<<a>> \o Outer, handling.reason)
      BY <1>1, <2>1 DEF Due
    <3>2. Due' = <<x>> \o DueFor(Outer, handling.reason)
      BY <1>2, <2>5, <2>6, <2>8, <3>1, DueOpened
    <3> QED BY <2>4, <3>2, MarksSettingOut
  <2>12. Running' = Running
    BY <1>1, <2>4, MarksSettingOut, RunningIs
  <2> DEFINE r == ReadAll(reader, Completed(Applied))
             m == DueFor(Outer, handling.reason)
  <2>13. Told(r, active, m, reader.armed, Running, handling)
    BY <1>1, ReadApplied
  <2>14. m = <<>> \/ (m # <<>> /\ Head(m).is = "TransitionFired")
    <3>1. m \in Seq(Mark) /\ Len(m) = Len(Outer)
          /\ \A i \in 1 .. Len(Outer) : m[i] = FiredFor(Outer[i], handling.reason)
      BY <1>2, <2>6, DueForIs
    <3>2. \A b, why : FiredFor(b, why).is = "TransitionFired"
      BY DEF FiredFor, TransitionFired
    <3> HIDE DEF m
    <3> QED BY <2>6, <3>1, <3>2
  <2>15. active # <<>> /\ Head(active) = current
    BY <1>1, InnermostIsCurrent
  <2>16. Told(ReadAll(r, <<x>>), active, <<x>> \o m, reader.armed, Running, handling)
    <3> HIDE DEF r, m
    <3>1. Internally \in {handling.reason, Internally}
      OBVIOUS
    <3>2. Told(Read(r, x), active, <<x>> \o m, reader.armed, Running, handling)
      BY <2>13, <2>14, <2>15, <3>1, ReadTransitionFired
    <3> QED BY <3>2, ReadOne
  <2>17. reader' = ReadAll(r, <<x>>)
    <3> DEFINE q1 == Completed(Applied)
               q2 == <<x>>
    <3>1. q1 \in Seq(Records) /\ q2 \in Seq(Records)
      BY <2>6, <2>7, CompletedIs
    <3>2. reader' = ReadAll(reader, q1 \o q2)
      BY <2>1
    <3> HIDE DEF x, q1, q2
    <3>3. reader' = ReadAll(ReadAll(reader, q1), q2)
      BY <3>1, <3>2, ReadInTurn
    <3> QED BY <3>3 DEF q1, q2
  <2>18. Told(reader', active', Marks', reader.armed, Running', handling')
    <3> HIDE DEF r, x
    <3> QED BY <1>1, <2>4, <2>11, <2>12, <2>16, <2>17
  <2>19. Begun' /\ ~terminated' /\ OneEntryEach(timers') /\ Pairs(timers') \subseteq reader.armed
    BY <1>1, <2>4 DEF JournalInvariant, Begun
  <2> QED BY <2>9, <2>10, <2>18, <2>19, InvariantNext
<1> QED BY <1>3, <1>4

(* The last record of all. *)
LEMMA TerminateKnown ==
  ASSUME TypeOK, MachineInvariant, JournalInvariant, LogTerminate
  PROVE  JournalInvariant' /\ reader'.armed = reader.armed
<1>1. /\ phase = "path" /\ phase' = "return" /\ exits = <<>> /\ enters = <<>> /\ Moving /\ ~Moving'
      /\ Begun /\ ~terminated /\ target = None /\ terminated'
      /\ UNCHANGED <<active, timers, handling, open>>
  BY DEF LogTerminate, Terminate, MachineInvariant, Control, Begun, Moving, history
<1>2. open = <<>> /\ active = <<>>
  BY <1>1, Arrived DEF JournalInvariant, OpenShape
<1>3. Marks = <<TerminateRequested(TerminateEvent)>>
  BY <1>1, InnermostMark DEF Ground
<1>4. /\ Marks # <<>> /\ Head(Marks).is = "TerminateRequested" /\ Tail(Marks) = <<>>
  BY <1>3 DEF TerminateRequested
<1>5. JournalTypes'
  BY <1>1 DEF JournalInvariant, JournalTypes
<1>6. Marks' = <<>>
  <2>1. Due' = <<>>
    BY <1>1, <1>2, DueSame, NothingDueToEnd DEF JournalInvariant
  <2>2. Ground' = Due'
    BY <1>1 DEF Ground
  <2> QED BY <1>1, <2>1, <2>2 DEF Marks
<1>7. Running' = Running
  BY <1>1 DEF Running, Exiting
<1> DEFINE n == Read(reader, Terminated)
<1>8. /\ n.sound /\ n.started /\ n.ended /\ n.ended \in BOOLEAN
      /\ n.path = active /\ n.marks = Tail(Marks) /\ n.armed = reader.armed
      /\ n.running = Running /\ n.cause = handling
  BY <1>1, <1>2, <1>4, Known, ReadTerminated
<1>9. reader' = n
  BY ReadOne DEF LogTerminate, Observe
<1> HIDE DEF n
<1>10. ReaderKnows'
  BY <1>1, <1>4, <1>6, <1>7, <1>8, <1>9 DEF ReaderKnows, Begun
<1>11. OpenShape' /\ OneEntryEach(timers') /\ Pairs(timers') \subseteq reader'.armed
  BY <1>1, <1>2, <1>8, <1>9 DEF JournalInvariant, OpenShape
<1> QED BY <1>5, <1>8, <1>9, <1>10, <1>11 DEF JournalInvariant

(* The first record. *)
LEMMA EnterRootKnown ==
  ASSUME TypeOK, MachineInvariant, JournalInvariant, ~Moving, phase # "defaults",
         NEW c, LogEnterRoot(c)
  PROVE  JournalInvariant' /\ reader'.armed = reader.armed
<1>1. /\ ~Begun /\ ~terminated /\ current = None /\ phase' = "path" /\ Moving' /\ exits' = <<>>
      /\ target' = Root /\ target' # None
      /\ UNCHANGED <<current, terminated, active, timers, open, handling>>
  BY TableTypes DEF LogEnterRoot, EnterRoot, Begun, Moving, fields
<1>2. Marks = <<>> /\ open = <<>>
  BY NoMarksAtRest
<1>3. /\ reader.sound /\ ~reader.started /\ ~reader.ended /\ reader.path = active
      /\ reader.marks = <<>> /\ reader.running = Running /\ reader.cause = handling
  BY <1>1, <1>2 DEF JournalInvariant, ReaderKnows
<1>4. Told(Read(reader, Started), active, <<>>, reader.armed, Running, handling)
  BY <1>3, ReadStarted
<1>5. JournalTypes'
  BY <1>1 DEF JournalInvariant, JournalTypes
<1>6. Running' = Running
  BY <1>1 DEF Running, Exiting, Moving
<1>7. Marks' = <<>>
  <2>1. Due' = <<>>
    BY <1>1, <1>2, DueSame, NothingDueToEnd DEF JournalInvariant
  <2> QED BY <1>1, <2>1, MarksSettingOut
<1>8. Told(reader', active', Marks', reader.armed, Running', handling')
  BY <1>1, <1>4, <1>6, <1>7, ReadOne DEF LogEnterRoot, Observe
<1>9. OpenShape'
  BY <1>1, <1>2 DEF OpenShape
<1>10. Begun' /\ ~terminated' /\ OneEntryEach(timers') /\ Pairs(timers') \subseteq reader.armed
  BY <1>1 DEF JournalInvariant, Begun
<1> QED BY <1>5, <1>8, <1>9, <1>10, InvariantNext

(* Counting down changes no pair. *)
LEMMA TickedPairs ==
  ASSUME TypeOK, JournalInvariant, NEW d \in Nat
  PROVE  /\ Ticked(d) \in SUBSET Timer /\ OneEntryEach(Ticked(d))
         /\ Pairs(Ticked(d)) \subseteq reader.armed
<1>1. timers \in SUBSET Timer /\ OneEntryEach(timers) /\ Pairs(timers) \subseteq reader.armed
  BY DEF TypeOK, JournalInvariant
<1>2. /\ Ticked(d) \in SUBSET Timer /\ OneEntryEach(Ticked(d))
      /\ \A e \in Ticked(d) : \E f \in timers : f.state = e.state /\ f.trigger = e.trigger
  BY <1>1, DecrementTimers, DecrementKeepsPairs DEF Ticked
<1> QED BY <1>1, <1>2 DEF Pairs

(* A unit of work begins: the handler of an event or a timer is to run, or *)
(* nothing is to be done.                                                  *)
LEMMA AtWork ==
  ASSUME JournalInvariant, UNCHANGED <<current, terminated, active, open>>,
         ~Moving, phase # "defaults", ~Moving', phase' # "defaults",
         current # None, handling'.reason \in Reason
  PROVE  /\ open = <<>> /\ Marks = <<>> /\ Marks' = <<>> /\ Running' = Running
         /\ OpenShape' /\ Begun /\ Begun'
<1>1. open = <<>> /\ Marks = <<>>
  BY NoMarksAtRest
<1>2. Due' = <<>>
  BY <1>1, DueNone DEF Due
<1>3. Marks' = <<>>
  <2>1. Ground' = Due'
    BY DEF Ground
  <2> QED BY <1>2, <2>1 DEF Marks, Moving
<1>4. Running' = Running
  BY DEF Running, Exiting, Moving
<1> QED BY <1>1, <1>3, <1>4 DEF OpenShape, Begun

(* A timer fires, and starts again if it repeats. *)
ArmedAfter(a, e) ==
  IF Repeats[e.trigger] THEN (a \ {<<e.state, e.trigger>>}) \cup {<<e.state, e.trigger>>}
  ELSE a \ {<<e.state, e.trigger>>}

FireRecords(e, actions) ==
  <<TimerFired(e.state, e.trigger)>>
    \o (IF Repeats[e.trigger] THEN <<TimerArmed(e.state, e.trigger)>> ELSE <<>>)
    \o Invoked(e.state, actions, "Handler")

(* The records of a timer that fires.                                      *)
LEMMA ReadFire ==
  ASSUME NEW r, NEW p, NEW a, NEW u, NEW c, Told(r, p, <<>>, a, u, c),
         NEW e \in Timer, <<e.state, e.trigger>> \in a, NEW actions \in Seq(Action)
  PROVE  Told(ReadAll(r, FireRecords(e, actions)), p, <<>>, ArmedAfter(a, e), u,
              [state |-> e.state, reason |-> ByTimer(e.state, e.trigger)])
<1> DEFINE s == e.state
           t == e.trigger
           k == [state |-> s, reason |-> ByTimer(s, t)]
           q1 == <<TimerFired(s, t)>>
           q2 == IF Repeats[t] THEN <<TimerArmed(s, t)>> ELSE <<>>
           q3 == Invoked(s, actions, "Handler")
           b == a \ {<<s, t>>}
           v == ArmedAfter(a, e)
<1>1. s \in State /\ t \in Trigger
  BY TimerType
<1>2. k.state = s /\ k.reason = ByTimer(s, t)
  OBVIOUS
<1>3. q1 \in Seq(Records) /\ q2 \in Seq(Records) /\ q3 \in Seq(Records)
  <2>1. TimerFired(s, t) \in Records /\ TimerArmed(s, t) \in Records
    BY <1>1 DEF Records
  <2>2. q3 \in Seq(Records)
    BY <1>1, InvokedType
  <2> QED BY <2>1, <2>2
<1>4. ReadAll(r, FireRecords(e, actions)) = ReadAll(ReadAll(ReadAll(r, q1), q2), q3)
  <2>1. FireRecords(e, actions) = (q1 \o q2) \o q3
    BY DEF FireRecords
  <2> DEFINE w == q1 \o q2
  <2>2. w \in Seq(Records)
    <3> HIDE DEF q1, q2
    <3> QED BY <1>3
  <2>3. ReadAll(r, w) = ReadAll(ReadAll(r, q1), q2)
    <3> HIDE DEF q1, q2
    <3> QED BY <1>3, ReadInTurn
  <2>4. FireRecords(e, actions) = w \o q3
    BY <2>1
  <2> HIDE DEF q1, q2, q3, w
  <2>5. ReadAll(r, w \o q3) = ReadAll(ReadAll(r, w), q3)
    BY <1>3, <2>2, ReadInTurn
  <2> QED BY <2>3, <2>4, <2>5
<1> HIDE DEF s, t, k
<1>5. Told(ReadAll(r, q1), p, <<>>, b, u, k)
  <2>1. <<s, t>> \in a
    BY DEF s, t
  <2>2. Told(Read(r, TimerFired(s, t)), p, <<>>, b, u, [state |-> s, reason |-> ByTimer(s, t)])
    BY <2>1, ReadTimerFired
  <2> QED BY <2>2, ReadOne DEF k
<1>6. Told(ReadAll(ReadAll(r, q1), q2), p, <<>>, v, u, k)
  <2> HIDE DEF q1, b
  <2>1. CASE Repeats[t]
    <3>1. Told(Read(ReadAll(r, q1), TimerArmed(s, t)), p, <<>>, b \cup {<<s, t>>}, u, k)
      BY <1>2, <1>5, ReadTimerArmed
    <3>2. v = b \cup {<<s, t>>} /\ q2 = <<TimerArmed(s, t)>>
      BY <2>1 DEF ArmedAfter, b, s, t
    <3> HIDE DEF v
    <3> QED BY <3>1, <3>2, ReadOne
  <2>2. CASE ~Repeats[t]
    <3>1. v = b /\ q2 = <<>>
      BY <2>2 DEF ArmedAfter, b, s, t
    <3> HIDE DEF v
    <3> QED BY <1>5, <3>1, ReadNone
  <2> QED BY <2>1, <2>2
<1>7. Told(ReadAll(ReadAll(ReadAll(r, q1), q2), q3), p, <<>>, v, u, k)
  <2> HIDE DEF q1, q2, v
  <2> QED BY <1>2, <1>6, ReadInvoked
<1> QED BY <1>4, <1>7 DEF k, s, t

(* A timer fires, is armed again if it repeats, its handler runs.          *)
LEMMA FireTimerKnown ==
  ASSUME TypeOK, MachineInvariant, JournalInvariant, ~Moving, phase # "defaults",
         NEW d \in Nat, NEW c, LogFireTimer(d, c)
  PROVE  /\ JournalInvariant'
         /\ \E e \in Ticked(d) :
              /\ timers' = IF Repeats[e.trigger] THEN Again(Ticked(d), e) ELSE Ticked(d) \ {e}
              /\ reader'.armed = ArmedAfter(reader.armed, e)
<1>1. PICK e \in Poppable(Ticked(d)) :
        /\ Fire(e, d, c)
        /\ handling' = [state |-> e.state, reason |-> ByTimer(e.state, e.trigger)]
        /\ reader' = ReadAll(reader, FireRecords(e, acts'))
        /\ open' = open
  BY DEF LogFireTimer, Observe, FireRecords
<1>2. /\ Ticked(d) \in SUBSET Timer /\ OneEntryEach(Ticked(d))
      /\ Pairs(Ticked(d)) \subseteq reader.armed
  BY TickedPairs
<1>3. e \in Ticked(d) /\ e \in Timer
  BY <1>1, <1>2, PoppableTimers
<1>4. e.state \in State /\ e.trigger \in Trigger /\ DurationFor[e.trigger] \in Nat
  BY <1>3, TimerType, TableTypes
<1>5. /\ ~terminated /\ current # None /\ phase' = "handler" /\ ~Moving'
      /\ timers' = (IF Repeats[e.trigger] THEN Again(Ticked(d), e) ELSE Ticked(d) \ {e})
      /\ acts' = TimerHandler[e.state][e.trigger].actions
      /\ UNCHANGED <<current, terminated, active, open>>
  BY <1>1 DEF Fire, Again, Moving
<1>6. acts' \in Seq(Action)
  BY <1>4, <1>5, HandlerType
<1>7. /\ handling'.state = e.state /\ handling'.reason = ByTimer(e.state, e.trigger)
      /\ handling'.reason \in Reason
  BY <1>1, <1>4 DEF Reason
<1>8. JournalTypes'
  <2>1. handling' \in [state : State \cup {None}, reason : Reason]
    BY <1>1, <1>4, <1>7
  <2> QED BY <1>5, <2>1 DEF JournalInvariant, JournalTypes
<1>9. /\ Marks = <<>> /\ Marks' = <<>> /\ Running' = Running /\ OpenShape' /\ Begun /\ Begun'
  BY <1>5, <1>7, AtWork
<1>10. <<e.state, e.trigger>> \in reader.armed
  BY <1>2, <1>3 DEF Pairs
<1>11. Told(reader', active', Marks', ArmedAfter(reader.armed, e), Running', handling')
  <2>1. Told(reader, active, <<>>, reader.armed, Running, handling)
    BY <1>5, <1>9, Known
  <2>2. Told(ReadAll(reader, FireRecords(e, acts')), active, <<>>, ArmedAfter(reader.armed, e),
             Running, [state |-> e.state, reason |-> ByTimer(e.state, e.trigger)])
    BY <1>3, <1>6, <1>10, <2>1, ReadFire
  <2> QED BY <1>1, <1>5, <1>9, <2>2
<1>12. OneEntryEach(timers') /\ Pairs(timers') \subseteq ArmedAfter(reader.armed, e)
  <2> DEFINE rest == Ticked(d) \ {e}
             b == reader.armed \ {<<e.state, e.trigger>>}
  <2>1. rest \in SUBSET Timer /\ OneEntryEach(rest) /\ Pairs(rest) \subseteq b
    <3>1. \A f \in rest : f.state # e.state \/ f.trigger # e.trigger
      BY <1>2, <1>3 DEF OneEntryEach
    <3>2. OneEntryEach(rest) /\ Pairs(rest) \subseteq Pairs(Ticked(d))
      BY <1>2, PairsOfSubset
    <3>3. <<e.state, e.trigger>> \notin Pairs(rest)
      BY <3>1 DEF Pairs
    <3> QED BY <1>2, <3>2, <3>3
  <2>2. CASE ~Repeats[e.trigger]
    BY <1>5, <2>1, <2>2 DEF ArmedAfter
  <2>3. CASE Repeats[e.trigger]
    <3>1. timers' = Start(rest, e.state, e.trigger, DurationFor[e.trigger])
      BY <1>5, <2>3 DEF Again
    <3>2. ArmedAfter(reader.armed, e) = b \cup {<<e.state, e.trigger>>}
      BY <2>3 DEF ArmedAfter
    <3> HIDE DEF rest, b
    <3> QED BY <1>4, <2>1, <3>1, <3>2, StartedPairs
  <2> QED BY <2>2, <2>3
<1>13. ~terminated'
  BY <1>5
<1> DEFINE a == ArmedAfter(reader.armed, e)
<1>14. JournalInvariant' /\ reader'.armed = a
  <2> HIDE DEF a
  <2>1. Told(reader', active', Marks', a, Running', handling') /\ Pairs(timers') \subseteq a
    BY <1>11, <1>12 DEF a
  <2> QED BY <1>8, <1>9, <1>12, <1>13, <2>1, InvariantNext
<1> QED BY <1>3, <1>5, <1>14

(* Two records. *)
LEMMA ReadTwo ==
  ASSUME NEW r, NEW x \in Records, NEW y \in Records
  PROVE  ReadAll(r, <<x, y>>) = Read(Read(r, x), y)
<1> DEFINE p == <<x>>
           q == <<y>>
           w == <<x, y>>
           v == p \o q
<1>1. p \in Seq(Records) /\ q \in Seq(Records) /\ w \in Seq(Records)
  OBVIOUS
<1>2. Len(p) = 1 /\ p[1] = x /\ Len(q) = 1 /\ q[1] = y /\ Len(w) = 2 /\ w[1] = x /\ w[2] = y
  OBVIOUS
<1> HIDE DEF p, q, w
<1>3. v \in Seq(Records) /\ Len(v) = 2 /\ v[1] = x /\ v[2] = y
  <2>1. /\ v \in Seq(Records) /\ Len(v) = Len(p) + Len(q)
        /\ \A i \in 1 .. Len(p) + Len(q) : v[i] = IF i <= Len(p) THEN p[i] ELSE q[i - Len(p)]
    BY <1>1, ConcatProperties
  <2>2. /\ Len(p) + Len(q) = 2 /\ 1 \in 1 .. 2 /\ 2 \in 1 .. 2 /\ 1 <= 1 /\ ~(2 <= 1) /\ 2 - 1 = 1
    BY <1>2
  <2> HIDE DEF v
  <2> QED BY <1>2, <2>1, <2>2
<1>4. \A i \in 1 .. 2 : i = 1 \/ i = 2
  OBVIOUS
<1> HIDE DEF v
<1>5. w = v
  BY <1>1, <1>2, <1>3, <1>4, SeqEqual
<1>6. ReadAll(r, v) = ReadAll(ReadAll(r, p), q)
  BY <1>1, ReadInTurn DEF v
<1> QED BY <1>5, <1>6, ReadOne DEF p, q, w

(* An event is taken: it ends the machine, is dropped, or is delivered to  *)
(* a state that is active.                                                 *)
LEMMA TakeEventKnown ==
  ASSUME TypeOK, MachineInvariant, JournalInvariant, ~Moving, phase # "defaults",
         NEW d \in Nat, NEW c, LogTakeEvent(d, c)
  PROVE  /\ JournalInvariant' /\ reader'.armed = reader.armed
         /\ timers' = Ticked(d)
<1> DEFINE e == Head(queue)
           h == EventHandler[current][e]
<1>1. /\ TakeEvent(d, c) /\ current # None /\ current \in State /\ ~terminated /\ queue # <<>>
      /\ timers' = Ticked(d) /\ UNCHANGED <<current, terminated, active, open>>
  BY DEF LogTakeEvent, TakeEvent, TypeOK
<1>2. e \in Event /\ h \in Handler
  <2>1. queue \in Seq(Event) /\ e \in Event
    BY <1>1 DEF TypeOK
  <2> HIDE DEF e
  <2> QED BY <1>1, <2>1, TableTypes
<1>3. open = <<>> /\ Marks = <<>> /\ Begun
  BY <1>1, NoMarksAtRest DEF Begun
<1>4. Told(reader, active, <<>>, reader.armed, Running, handling)
  BY <1>1, <1>3, Known
<1>5. OneEntryEach(timers') /\ Pairs(timers') \subseteq reader.armed
  BY <1>1, TickedPairs
<1>6. handling.reason \in Reason /\ JournalTypes
  BY DEF JournalInvariant, JournalTypes
<1>7. EventReceived(e) \in Records
  BY <1>2 DEF Records, Mark
<1>8. Told(Read(reader, EventReceived(e)), active, <<EventReceived(e)>> \o <<>>, reader.armed,
           Running, handling)
  BY <1>4, ReadEventReceived
<1> DEFINE m == <<EventReceived(e)>> \o <<>>
<1>9. m # <<>> /\ Head(m) = EventReceived(e) /\ Tail(m) = <<>>
  OBVIOUS
<1>10. CASE e = TerminateEvent
  <2>1. /\ phase' = "path" /\ Moving' /\ target' = None
        /\ reader' = ReadAll(reader, <<EventReceived(e), TerminateRequested(e)>>)
        /\ UNCHANGED handling
    BY <1>1, <1>10 DEF LogTakeEvent, Observe, TakeEvent, Moving
  <2>2. Marks' = <<TerminateRequested(e)>>
    <3>1. Ground' = <<TerminateRequested(e)>>
      BY <1>10, <2>1 DEF Ground
    <3> QED BY <2>1, <3>1 DEF Marks
  <2>3. Running' = Running
    BY <1>1, <2>1 DEF Running, Exiting, Moving
  <2>4. Told(ReadAll(reader, <<EventReceived(e), TerminateRequested(e)>>), active,
             <<TerminateRequested(e)>> \o Tail(m), reader.armed, Running, handling)
    <3>1. TerminateRequested(e) \in Records
      BY <1>2 DEF Records, Mark
    <3> HIDE DEF e, m
    <3>2. Told(Read(reader, EventReceived(e)), active, m, reader.armed, Running, handling)
      BY <1>8 DEF m
    <3>3. Told(Read(Read(reader, EventReceived(e)), TerminateRequested(e)), active,
               <<TerminateRequested(e)>> \o Tail(m), reader.armed, Running, handling)
      BY <1>9, <3>2, ReadTerminateRequested
    <3> QED BY <1>7, <3>1, <3>3, ReadTwo
  <2>5. <<TerminateRequested(e)>> \o Tail(m) = <<TerminateRequested(e)>>
    BY <1>9
  <2>6. Told(reader', active', Marks', reader.armed, Running', handling')
    <3> HIDE DEF e, m
    <3> QED BY <1>1, <2>1, <2>2, <2>3, <2>4, <2>5
  <2>7. JournalTypes' /\ OpenShape' /\ Begun' /\ ~terminated'
    BY <1>1, <1>3, <1>6, <2>1 DEF JournalTypes, OpenShape, Begun
  <2> QED BY <1>1, <1>5, <2>6, <2>7, InvariantNext
<1>11. CASE e # TerminateEvent /\ h.owner = None
  <2>1. /\ phase' = "return" /\ ~Moving'
        /\ reader' = ReadAll(reader, <<EventReceived(e), EventDropped(e)>>)
        /\ UNCHANGED handling
    BY <1>1, <1>11 DEF LogTakeEvent, Observe, TakeEvent, Moving
  <2>2. /\ Marks' = <<>> /\ Running' = Running /\ OpenShape' /\ Begun'
    BY <1>1, <1>6, <2>1, AtWork
  <2>3. Told(ReadAll(reader, <<EventReceived(e), EventDropped(e)>>), active, Tail(m),
             reader.armed, Running, handling)
    <3>1. EventDropped(e) \in Records
      BY <1>2 DEF Records
    <3> HIDE DEF e, m
    <3>2. Told(Read(reader, EventReceived(e)), active, m, reader.armed, Running, handling)
      BY <1>8 DEF m
    <3>3. Told(Read(Read(reader, EventReceived(e)), EventDropped(e)), active, Tail(m),
               reader.armed, Running, handling)
      BY <1>9, <3>2, ReadEventDropped
    <3> QED BY <1>7, <3>1, <3>3, ReadTwo
  <2>4. Told(reader', active', Marks', reader.armed, Running', handling')
    <3> HIDE DEF e, m
    <3> QED BY <1>1, <1>9, <2>1, <2>2, <2>3
  <2>5. JournalTypes' /\ ~terminated'
    BY <1>1, <1>6, <2>1 DEF JournalTypes
  <2> QED BY <1>1, <1>5, <2>2, <2>4, <2>5, InvariantNext
<1>12. CASE e # TerminateEvent /\ h.owner # None
  <2> DEFINE s == h.owner
             k == [state |-> s, reason |-> ByEvent(e)]
             q1 == <<EventReceived(e), EventDelivered(s, e)>>
             q2 == Invoked(s, h.actions, "Handler")
  <2>1. /\ phase' = "handler" /\ ~Moving'
        /\ reader' = ReadAll(reader, q1 \o q2)
        /\ handling' = k
    BY <1>1, <1>12 DEF LogTakeEvent, Observe, TakeEvent, Moving
  <2>2. s \in State /\ h.actions \in Seq(Action)
    BY <1>2, <1>12 DEF Handler
  <2>3. s \in Range(active)
    <3>1. active = TerminatePath[current]
      BY <1>1, InnermostIsCurrent
    <3>2. s \in Range(TerminatePath[current]) \cup {None}
      BY <1>1, <1>2, HandlersAreAround
    <3> QED BY <1>12, <3>1, <3>2
  <2>4. /\ k \in [state : State \cup {None}, reason : Reason]
        /\ k.state = s /\ k.reason \in Reason
    BY <1>2, <2>2 DEF Reason
  <2>5. /\ Marks' = <<>> /\ Running' = Running /\ OpenShape' /\ Begun'
    BY <1>1, <2>1, <2>4, AtWork
  <2>6. q1 \in Seq(Records) /\ q2 \in Seq(Records)
    <3>1. EventDelivered(s, e) \in Records
      BY <1>2, <2>2 DEF Records
    <3>2. q2 \in Seq(Records)
      BY <2>2, InvokedType
    <3> HIDE DEF s, e, q2
    <3> QED BY <1>7, <3>1, <3>2
  <2>7. Told(ReadAll(reader, q1), active, Tail(m), reader.armed, Running, k)
    <3>1. EventDelivered(s, e) \in Records
      BY <1>2, <2>2 DEF Records
    <3> HIDE DEF e, m, s
    <3>2. Told(Read(reader, EventReceived(e)), active, m, reader.armed, Running, handling)
      BY <1>8 DEF m
    <3>3. Told(Read(Read(reader, EventReceived(e)), EventDelivered(s, e)), active, Tail(m),
               reader.armed, Running, [state |-> s, reason |-> ByEvent(e)])
      BY <1>9, <2>3, <3>2, ReadEventDelivered
    <3> QED BY <1>7, <3>1, <3>3, ReadTwo
  <2>8. Told(ReadAll(ReadAll(reader, q1), q2), active, <<>>, reader.armed, Running, k)
    <3>1. Told(ReadAll(reader, q1), active, <<>>, reader.armed, Running, k)
      BY <1>9, <2>7
    <3> HIDE DEF q1, k, s
    <3> QED BY <2>4, <3>1, ReadInvoked
  <2>9. reader' = ReadAll(ReadAll(reader, q1), q2)
    <3> HIDE DEF q1, q2
    <3> QED BY <2>1, <2>6, ReadInTurn
  <2>10. Told(reader', active', Marks', reader.armed, Running', handling')
    <3> HIDE DEF q1, q2, k
    <3> QED BY <1>1, <2>1, <2>5, <2>8, <2>9
  <2>11. JournalTypes' /\ ~terminated'
    <3> HIDE DEF k
    <3> QED BY <1>1, <1>6, <2>1, <2>4 DEF JournalTypes
  <2> QED BY <1>1, <1>5, <2>5, <2>10, <2>11, InvariantNext
<1> QED BY <1>10, <1>11, <1>12

(* The timers are counted down, and that is all. *)
LEMMA NothingDueKnown ==
  ASSUME TypeOK, MachineInvariant, JournalInvariant, ~Moving, phase # "defaults",
         NEW d \in Nat, NEW c, NothingDue(d, c), Unobserved
  PROVE  /\ JournalInvariant' /\ reader'.armed = reader.armed
         /\ timers' = Ticked(d)
<1>1. /\ current # None /\ ~terminated /\ phase' = "return" /\ ~Moving'
      /\ timers' = Ticked(d) /\ UNCHANGED <<current, terminated, active, open, handling, reader>>
  BY DEF NothingDue, Unobserved, Moving
<1>2. handling'.reason \in Reason /\ JournalTypes'
  BY <1>1 DEF JournalInvariant, JournalTypes
<1>3. /\ Marks = <<>> /\ Marks' = <<>> /\ Running' = Running /\ OpenShape' /\ Begun /\ Begun'
  BY <1>1, <1>2, AtWork
<1>4. OneEntryEach(timers') /\ Pairs(timers') \subseteq reader.armed
  BY <1>1, TickedPairs
<1>5. Told(reader', active', Marks', reader.armed, Running', handling')
  BY <1>1, <1>3, Known
<1> QED BY <1>1, <1>2, <1>3, <1>4, <1>5, InvariantNext

(* The drivers leave no record of their own. *)
LEMMA DriverKnown ==
  ASSUME TypeOK, MachineInvariant, JournalInvariant, Unobserved,
         \/ \E e \in Event : Send(e) \/ Dispatch(e)
         \/ TakeOverflow \/ StepReturns \/ DispatchChecks \/ DispatchDrained
  PROVE  /\ JournalInvariant' /\ reader'.armed = reader.armed
         /\ timers' = timers
<1>1. UNCHANGED <<current, terminated, active, timers, exits, enters, target>>
  BY DEF Send, Dispatch, TakeOverflow, StepReturns, DispatchChecks, DispatchDrained,
         DispatchReturns, fields, frame, history
<1>2. UNCHANGED phase \/ (~Moving /\ ~Moving' /\ phase # "defaults")
  <2>1. CASE \E e \in Event : Dispatch(e)
    BY <2>1 DEF Dispatch, Idle, MachineInvariant, Control, Moving
  <2>2. CASE \E e \in Event : Send(e)
    BY <2>2 DEF Send, frame
  <2>3. CASE TakeOverflow
    BY <2>3 DEF TakeOverflow, frame
  <2>4. CASE StepReturns
    BY <2>4 DEF StepReturns, Moving
  <2>5. CASE DispatchChecks
    BY <2>5 DEF DispatchChecks, DispatchReturns, Moving
  <2>6. CASE DispatchDrained
    BY <2>6 DEF DispatchDrained, DispatchReturns, Moving
  <2> QED BY <2>1, <2>2, <2>3, <2>4, <2>5, <2>6
<1> QED BY <1>1, <1>2, UnobservedKnown DEF Unobserved

-----------------------------------------------------------------------------
(* In every state. *)

(* Before the first record.                                                *)
LEMMA JournalStarts == JournalInit => JournalInvariant
<1> SUFFICES ASSUME JournalInit PROVE JournalInvariant
  OBVIOUS
<1>1. /\ current = None /\ timers = {} /\ ~terminated /\ phase = "idle" /\ active = <<>>
      /\ ~Moving /\ phase # "defaults"
      /\ reader = NoJournal /\ open = <<>> /\ handling = [state |-> None, reason |-> None]
  BY DEF JournalInit, Init, Moving
<1>2. JournalTypes
  BY <1>1 DEF JournalTypes, Reason
<1>3. OpenShape
  BY <1>1 DEF OpenShape
<1>4. Marks = <<>>
  <2>1. Due = <<>>
    BY <1>1, <1>2, NothingDueToEnd
  <2>2. Ground = Due
    BY <1>1 DEF Ground
  <2> QED BY <1>1, <2>1, <2>2 DEF Marks
<1>5. Running = {}
  BY <1>1 DEF Running, Exiting, Range
<1>6. ReaderKnows
  BY <1>1, <1>4, <1>5 DEF ReaderKnows, NoJournal, Begun
<1>7. OneEntryEach(timers) /\ Pairs(timers) \subseteq reader.armed
  BY <1>1 DEF OneEntryEach, Pairs
<1> QED BY <1>2, <1>3, <1>6, <1>7 DEF JournalInvariant

(* A unit of work begins between two others. *)
LEMMA WorkIsAtRest ==
  ASSUME MachineInvariant, Idle \/ phase = "drain"
  PROVE  ~Moving /\ phase # "defaults"
BY DEF MachineInvariant, Control, Idle, Moving

(* Every step keeps the reader up to date.                                 *)
LEMMA JournalStep ==
  ASSUME TypeOK, MachineInvariant, JournalInvariant, [JournalNext]_jvars
  PROVE  JournalInvariant'
<1>1. CASE UNCHANGED jvars
  BY <1>1, UnobservedKnown DEF jvars, vars, fields, frame, history
<1>2. CASE LogDispatchStep \/ \E d \in Elapsed : LogStep(d)
  <2>1. ~Moving /\ phase # "defaults"
    BY <1>2, WorkIsAtRest DEF LogDispatchStep, LogStep
  <2>2. 0 \in Nat /\ \A d \in Elapsed : d \in Nat
    BY TableTypes
  <2> QED BY <1>2, <2>1, <2>2, EnterRootKnown, FireTimerKnown, TakeEventKnown, NothingDueKnown
          DEF LogDispatchStep, LogStep
<1>3. CASE \E e \in Event : LogEmit(e)
  BY <1>3, EmitKnown
<1>4. CASE \/ \E e \in Event : (Send(e) \/ Dispatch(e)) /\ Unobserved
           \/ (TakeOverflow \/ StepReturns \/ DispatchChecks \/ DispatchDrained) /\ Unobserved
  BY <1>4, DriverKnown
<1>5. CASE LogActionReturns \/ LogHandlerDone \/ LogUpTransition \/ LogFollowDefault \/ LogTerminate
  BY <1>5, ActionReturnsKnown, HandlerDoneKnown, UpTransitionKnown, FollowDefaultKnown, TerminateKnown
<1>6. CASE \/ LogBeginExit \/ LogEndExit \/ LogBeginEnter \/ (EntryActionsDone /\ Unobserved)
           \/ LogArmTimer \/ LogEndEnter
  BY <1>6, BeginExitKnown, EndExitKnown, BeginEnterKnown, EntryActionsDoneKnown, ArmTimerKnown,
     EndEnterKnown
<1> QED BY <1>1, <1>2, <1>3, <1>4, <1>5, <1>6 DEF JournalNext, JournalInternal

(* In every chart, what the reader makes of the journal is what the        *)
(* machine is, at every record.                                            *)
THEOREM JournalInvariantHolds == JournalSpec => [](TypeOK /\ MachineInvariant /\ JournalInvariant)
<1>1. JournalInit => JournalInvariant
  BY JournalStarts
<1>2. TypeOK /\ MachineInvariant /\ JournalInvariant /\ [JournalNext]_jvars => JournalInvariant'
  BY JournalStep
<1>3. JournalSpec => [](TypeOK /\ MachineInvariant)
  BY JournalObserves, MachineInvariantHolds, PTL
<1> QED BY <1>1, <1>2, <1>3, PTL DEF JournalSpec

(* Every record of every run comes where the documentation lets it come.   *)
THEOREM JournalAlwaysReads == JournalSpec => []JournalReads
<1>1. JournalInvariant => JournalReads
  BY DEF JournalInvariant, ReaderKnows, JournalReads
<1> QED BY <1>1, JournalInvariantHolds, PTL

(* Between two calls every marker has its end.                             *)
THEOREM JournalAlwaysSettles == JournalSpec => []JournalSettles
<1>1. MachineInvariant /\ JournalInvariant => JournalSettles
  <2> SUFFICES ASSUME MachineInvariant, JournalInvariant, Idle PROVE AtRest(reader)
    BY DEF JournalSettles
  <2>1. Marks = <<>>
    BY WorkIsAtRest, NoMarksAtRest
  <2> QED BY <2>1 DEF JournalInvariant, ReaderKnows, AtRest
<1> QED BY <1>1, JournalInvariantHolds, PTL

-----------------------------------------------------------------------------
(* What is told to be armed is armed, when no start is refused. *)

AllTold == reader.armed \subseteq Pairs(timers)

(* Counting down loses no pair.                                            *)
LEMMA TickedTold ==
  ASSUME NEW ts \in SUBSET Timer, NEW d \in Nat, OneEntryEach(ts)
  PROVE  Pairs(ts) \subseteq Pairs(Decrement(ts, d))
<1> SUFFICES ASSUME NEW e \in ts PROVE <<e.state, e.trigger>> \in Pairs(Decrement(ts, d))
  BY DEF Pairs
<1>1. e.state \in State /\ e.trigger \in Trigger /\ Slot(ts, e.state, e.trigger) # {}
  BY TimerType DEF Slot
<1>2. Slot(Decrement(ts, d), e.state, e.trigger) # {}
  BY <1>1, DecrementKeepsPairs
<1> QED BY <1>2 DEF Slot, Pairs

(* A table that has a slot for each pair of another holds all its pairs.   *)
LEMMA SlotsArePairs ==
  ASSUME NEW ts \in SUBSET Timer, NEW us,
         \A s \in State, t \in Trigger : Slot(ts, s, t) # {} => Slot(us, s, t) # {}
  PROVE  Pairs(ts) \subseteq Pairs(us)
<1> SUFFICES ASSUME NEW e \in ts PROVE <<e.state, e.trigger>> \in Pairs(us)
  BY DEF Pairs
<1>1. e.state \in State /\ e.trigger \in Trigger /\ Slot(ts, e.state, e.trigger) # {}
  BY TimerType DEF Slot
<1>2. Slot(us, e.state, e.trigger) # {}
  BY <1>1
<1> QED BY <1>2 DEF Slot, Pairs

(* Steps that count the timers down.                                       *)
LEMMA ToldAtTick ==
  ASSUME TypeOK, JournalInvariant, AllTold, NEW d \in Nat,
         reader'.armed = reader.armed, timers' = Ticked(d)
  PROVE  AllTold'
<1>1. Pairs(timers) \subseteq Pairs(Ticked(d))
  BY TickedTold DEF TypeOK, JournalInvariant, Ticked
<1> QED BY <1>1 DEF AllTold

(* A timer that fires and repeats is armed again.                          *)
LEMMA ToldAtFire ==
  ASSUME TypeOK, MachineInvariant, JournalInvariant, AllArmed, EveryPathFits, AllTold,
         ~Moving, phase # "defaults", NEW d \in Nat, NEW c, LogFireTimer(d, c)
  PROVE  AllTold'
<1>1. PICK e \in Ticked(d) :
        /\ timers' = IF Repeats[e.trigger] THEN Again(Ticked(d), e) ELSE Ticked(d) \ {e}
        /\ reader'.armed = ArmedAfter(reader.armed, e)
  BY FireTimerKnown
<1> DEFINE ticked == Ticked(d)
           rest == ticked \ {e}
           p == <<e.state, e.trigger>>
<1>2. ticked \in SUBSET Timer /\ OneEntryEach(ticked) /\ Pairs(timers) \subseteq Pairs(ticked)
  BY TickedPairs, TickedTold DEF TypeOK, JournalInvariant, Ticked
<1>3. Pairs(ticked) \ {p} \subseteq Pairs(rest)
  BY DEF Pairs
<1>4. reader.armed \ {p} \subseteq Pairs(rest)
  BY <1>2, <1>3 DEF AllTold
<1>5. CASE ~Repeats[e.trigger]
  BY <1>1, <1>4, <1>5 DEF ArmedAfter, AllTold
<1>6. CASE Repeats[e.trigger]
  <2> DEFINE again == Again(ticked, e)
  <2>1. current # None
    BY DEF LogFireTimer, Fire
  <2>2. /\ Slot(again, e.state, e.trigger) # {}
        /\ \A s \in State, t \in Trigger : Slot(rest, s, t) # {} => Slot(again, s, t) # {}
    BY <1>1, <2>1, RoomAgain
  <2>3. timers' = again /\ reader'.armed = (reader.armed \ {p}) \cup {p}
    BY <1>1, <1>6 DEF ArmedAfter
  <2> HIDE DEF again
  <2>4. p \in Pairs(again)
    BY <2>2 DEF Slot, Pairs
  <2>5. rest \in SUBSET Timer
    BY <1>2
  <2> HIDE DEF rest, p
  <2>6. Pairs(rest) \subseteq Pairs(again)
    BY <2>2, <2>5, SlotsArePairs
  <2> QED BY <1>4, <2>3, <2>4, <2>6 DEF AllTold
<1> QED BY <1>5, <1>6

(* An exit cancels the timers that its records name, and no other.         *)
LEMMA ToldAtExit ==
  ASSUME TypeOK, MachineInvariant, JournalInvariant, AllArmed, AllTold, LogBeginExit
  PROVE  AllTold'
<1> DEFINE s == Head(exits)
<1>1. timers' = CancelState(timers, s) /\ exits # <<>>
  BY DEF LogBeginExit, BeginExit
<1>2. reader'.armed = reader.armed \ TimersUpTo(s, Len(OwnedTimers[s]))
  BY BeginExitKnown
<1>3. s \in State /\ OwnedTimers[s] \in Seq(Trigger)
  <2>1. s \in State
    BY <1>1 DEF TypeOK
  <2> HIDE DEF s
  <2> QED BY <2>1, TableTypes
<1>4. \A e \in timers : e.trigger \in Range(OwnedTimers[e.state])
  BY DEF AllArmed, TimersDeclared
<1> HIDE DEF s
<1>5. ASSUME NEW e \in timers, <<e.state, e.trigger>> \notin TimersUpTo(s, Len(OwnedTimers[s]))
      PROVE  e \in CancelState(timers, s)
  <2>1. ASSUME e.state = s PROVE FALSE
    <3>1. PICK i \in DOMAIN OwnedTimers[s] : OwnedTimers[s][i] = e.trigger
      BY <1>4, <2>1 DEF Range
    <3>2. i \in 1 .. Len(OwnedTimers[s])
      BY <1>3, <3>1
    <3> QED BY <1>5, <2>1, <3>1, <3>2 DEF TimersUpTo
  <2> QED BY <2>1 DEF CancelState
<1> QED BY <1>1, <1>2, <1>5 DEF AllTold, Pairs

(* A timer told to be armed found room.                                    *)
LEMMA ToldAtArming ==
  ASSUME TypeOK, MachineInvariant, JournalInvariant, AllArmed, EveryPathFits, AllTold, LogArmTimer
  PROVE  AllTold'
<1>1. reader'.armed = reader.armed \cup {<<Head(enters), Head(arms)>>}
  BY ArmTimerKnown
<1>2. /\ Slot(timers', Head(enters), Head(arms)) # {}
      /\ \A s \in State, t \in Trigger : Slot(timers, s, t) # {} => Slot(timers', s, t) # {}
  BY ArmedAtArming DEF LogArmTimer
<1>3. <<Head(enters), Head(arms)>> \in Pairs(timers')
  BY <1>2 DEF Slot, Pairs
<1>4. Pairs(timers) \subseteq Pairs(timers')
  BY <1>2, SlotsArePairs DEF TypeOK
<1> QED BY <1>1, <1>3, <1>4 DEF AllTold

(* Every step.                                                             *)
LEMMA ToldStep ==
  ASSUME TypeOK, MachineInvariant, JournalInvariant, AllArmed, EveryPathFits, AllTold,
         [JournalNext]_jvars
  PROVE  AllTold'
<1>0. ASSUME timers' = timers, reader'.armed = reader.armed PROVE AllTold'
  BY <1>0 DEF AllTold
<1>1. CASE UNCHANGED jvars
  BY <1>0, <1>1 DEF jvars, vars, fields
<1>2. CASE LogDispatchStep \/ \E d \in Elapsed : LogStep(d)
  <2>1. ~Moving /\ phase # "defaults"
    BY <1>2, WorkIsAtRest DEF LogDispatchStep, LogStep
  <2>2. 0 \in Nat /\ \A d \in Elapsed : d \in Nat
    BY TableTypes
  <2>3. ASSUME NEW c, LogEnterRoot(c) PROVE AllTold'
    BY <1>0, <2>1, <2>3, EnterRootKnown DEF LogEnterRoot, EnterRoot, fields
  <2>4. ASSUME NEW c, NEW d \in Nat, LogTakeEvent(d, c) PROVE AllTold'
    BY <2>1, <2>4, TakeEventKnown, ToldAtTick
  <2>5. ASSUME NEW c, NEW d \in Nat, NothingDue(d, c), Unobserved PROVE AllTold'
    BY <2>1, <2>5, NothingDueKnown, ToldAtTick
  <2> QED BY <1>2, <2>1, <2>2, <2>3, <2>4, <2>5, ToldAtFire DEF LogDispatchStep, LogStep
<1>3. CASE \E e \in Event : LogEmit(e)
  BY <1>0, <1>3, EmitKnown DEF LogEmit, Emit
<1>4. CASE \/ \E e \in Event : (Send(e) \/ Dispatch(e)) /\ Unobserved
           \/ (TakeOverflow \/ StepReturns \/ DispatchChecks \/ DispatchDrained) /\ Unobserved
  BY <1>0, <1>4, DriverKnown
<1>5. CASE LogActionReturns
  BY <1>0, <1>5, ActionReturnsKnown DEF LogActionReturns, ActionReturns, fields
<1>6. CASE LogHandlerDone
  BY <1>0, <1>6, HandlerDoneKnown DEF LogHandlerDone, HandlerDone, BeginPath, fields
<1>7. CASE LogUpTransition
  BY <1>0, <1>7, UpTransitionKnown DEF LogUpTransition, UpTransition
<1>8. CASE LogFollowDefault
  BY <1>0, <1>8, FollowDefaultKnown DEF LogFollowDefault, FollowDefault, BeginPath, fields
<1>9. CASE LogTerminate
  BY <1>0, <1>9, TerminateKnown DEF LogTerminate, Terminate
<1>10. CASE LogBeginExit
  BY <1>10, ToldAtExit
<1>11. CASE LogEndExit
  BY <1>0, <1>11, EndExitKnown DEF LogEndExit, EndExit, fields
<1>12. CASE LogBeginEnter
  BY <1>0, <1>12, BeginEnterKnown DEF LogBeginEnter, BeginEnter, fields
<1>13. CASE EntryActionsDone /\ Unobserved
  BY <1>0, <1>13, EntryActionsDoneKnown DEF EntryActionsDone, fields
<1>14. CASE LogArmTimer
  BY <1>14, ToldAtArming
<1>15. CASE LogEndEnter
  BY <1>0, <1>15, EndEnterKnown DEF LogEndEnter, EndEnter
<1> QED BY <1>1, <1>2, <1>3, <1>4, <1>5, <1>6, <1>7, <1>8, <1>9, <1>10, <1>11, <1>12, <1>13,
           <1>14, <1>15 DEF JournalNext, JournalInternal

(* In every chart whose timers fit the table, the journal alone tells what *)
(* is entered, armed, running and over, at every moment of every run.      *)
THEOREM JournalAlwaysTells ==
  ASSUME EveryPathFits
  PROVE  JournalSpec => []JournalTells
<1>1. JournalInit => AllTold
  BY DEF JournalInit, NoJournal, AllTold
<1>2. TypeOK /\ MachineInvariant /\ JournalInvariant /\ AllArmed /\ AllTold /\ [JournalNext]_jvars
        => AllTold'
  BY ToldStep
<1>3. JournalSpec => []AllArmed
  BY JournalObserves, AlwaysArmed, PTL
<1>4. TypeOK /\ JournalInvariant /\ AllTold => JournalTells
  <2> SUFFICES ASSUME TypeOK, JournalInvariant, AllTold PROVE JournalTells
    OBVIOUS
  <2>1. reader.path = active /\ (reader.ended <=> terminated) /\ reader.running = Running
    BY DEF JournalInvariant, ReaderKnows
  <2>2. reader.armed = {<<e.state, e.trigger>> : e \in timers}
    BY DEF JournalInvariant, AllTold, Pairs
  <2>3. Running = UNION {{<<s, i>> : i \in 1 .. DuringCount[s]} : s \in Range(active) \ Exiting}
    <3>1. Range(active) \subseteq State
      BY DEF TypeOK, Range
    <3>2. \A s \in State : DuringCount[s] \in Nat
      BY DuringCountType
    <3> QED BY <3>1, <3>2 DEF Running
  <2>4. reader.ended = terminated
    <3>1. reader.ended \in BOOLEAN /\ terminated \in BOOLEAN
      BY DEF JournalInvariant, ReaderKnows, TypeOK
    <3> QED BY <2>1, <3>1
  <2> QED BY <2>1, <2>2, <2>3, <2>4 DEF JournalTells
<1> QED BY <1>1, <1>2, <1>3, <1>4, JournalInvariantHolds, PTL DEF JournalSpec
=============================================================================
