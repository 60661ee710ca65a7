-------------------------- MODULE Compiler_proofs --------------------------
(***************************************************************************)
(* Proofs about the macro, for every invocation of any size.               *)
(*                                                                         *)
(* SourceOK says what parsing has built: bodies whose parents come before  *)
(* them. The uses of the source are one sequence in declaration order      *)
(* (AllUsesAreListed), and LoweringInv says what the part of it that is    *)
(* lowered has put into the tables: everything in them was asked for by a  *)
(* use, and every use done so far agrees with them. So a refused use is    *)
(* one that two declarations disagree about, whichever came first          *)
(* (RefusedActionIsIllegal, RefusedHandlerIsIllegal); for a payload        *)
(* without fields, where the first use does count, LoweredInOrder also     *)
(* says how far in the source the lowering has come. VerdictInv says       *)
(* phase by phase which of the rules already hold; a default cycle is      *)
(* found where a chain meets its own marks (CycleIsIllegal), a walk that   *)
(* ends has closed every chain (WalkedMeansEnd).                           *)
(***************************************************************************)
EXTENDS Compiler, FiniteSetTheorems, Induction

-----------------------------------------------------------------------------
(* What has been read: every body in its place, its parent before it, and  *)
(* the braces that are open.                                               *)
AnyName == {ChartName} \cup UNION ToSet(Names)

Clauses == [on : {h.on : h \in Handlers}, do : UNION {ToSet(h.do) : h \in Handlers}]

Body ==
  [name : AnyName, parent : Nat \cup {None}, entries : Seq(Actions), exits : Seq(Actions),
   handlers : Seq(Clauses), durings : Seq(Durings), default : Targets \cup {None},
   defaults : Nat, terminate : TerminateEvents \cup {None}, terminates : Nat]

SourceOK ==
  /\ bodies \in Seq(Body) /\ Len(bodies) \geq 1
  /\ open \in Seq(1 .. Len(bodies)) /\ Len(open) \geq 1
  /\ \A s \in States \ {1} : bodies[s].parent \in 1 .. s - 1

LEMMA StatesAreNumbers ==
  ASSUME SourceOK
  PROVE  States = 1 .. Len(bodies) /\ Len(bodies) \in Nat /\ None \notin States
BY SourceAssumption DEF SourceOK, States

LEMMA ClauseOfHandler ==
  ASSUME NEW h \in Handlers
  PROVE  [i \in DOMAIN h.do |-> [on |-> h.on, do |-> h.do[i]]] \in Seq(Clauses)
<1>1. h.do \in Seq(ToSet(h.do))
  BY SourceAssumption
<1>2. DOMAIN h.do = 1 .. Len(h.do) /\ Len(h.do) \in Nat
  BY <1>1
<1>3. ASSUME NEW i \in DOMAIN h.do PROVE [on |-> h.on, do |-> h.do[i]] \in Clauses
  BY DEF Clauses, ToSet
<1> QED BY <1>2, <1>3

LEMMA NewBodyOK ==
  ASSUME NEW name \in AnyName, NEW parent \in Nat \cup {None}
  PROVE  NewBody(name, parent) \in Body /\ NewBody(name, parent).parent = parent
BY DEF NewBody, Body

(* A body with one field replaced. *)
LEMMA BodyFields ==
  ASSUME NEW b \in Body
  PROVE  /\ b.entries \in Seq(Actions) /\ b.exits \in Seq(Actions)
         /\ b.handlers \in Seq(Clauses) /\ b.durings \in Seq(Durings)
         /\ b.default \in Targets \cup {None} /\ b.defaults \in Nat
         /\ b.terminate \in TerminateEvents \cup {None} /\ b.terminates \in Nat
BY DEF Body

LEMMA BodyWith ==
  ASSUME NEW b \in Body
  PROVE  /\ \A x \in Seq(Actions) :
              /\ [b EXCEPT !.entries = x] \in Body /\ [b EXCEPT !.entries = x].parent = b.parent
              /\ [b EXCEPT !.exits = x] \in Body /\ [b EXCEPT !.exits = x].parent = b.parent
         /\ \A x \in Seq(Clauses) :
              /\ [b EXCEPT !.handlers = x] \in Body
              /\ [b EXCEPT !.handlers = x].parent = b.parent
         /\ \A x \in Seq(Durings) :
              /\ [b EXCEPT !.durings = x] \in Body /\ [b EXCEPT !.durings = x].parent = b.parent
<1> DEFINE SA == Seq(Actions)  SC == Seq(Clauses)  SD == Seq(Durings)
<1>1. Body = [name : AnyName, parent : Nat \cup {None}, entries : SA, exits : SA,
              handlers : SC, durings : SD, default : Targets \cup {None},
              defaults : Nat, terminate : TerminateEvents \cup {None}, terminates : Nat]
  BY DEF Body
<1> HIDE DEF SA, SC, SD
<1>2. ASSUME NEW x \in SA
      PROVE  /\ [b EXCEPT !.entries = x] \in Body /\ [b EXCEPT !.entries = x].parent = b.parent
             /\ [b EXCEPT !.exits = x] \in Body /\ [b EXCEPT !.exits = x].parent = b.parent
  BY <1>1
<1>3. ASSUME NEW x \in SC
      PROVE  [b EXCEPT !.handlers = x] \in Body /\ [b EXCEPT !.handlers = x].parent = b.parent
  BY <1>1
<1>4. ASSUME NEW x \in SD
      PROVE  [b EXCEPT !.durings = x] \in Body /\ [b EXCEPT !.durings = x].parent = b.parent
  BY <1>1
<1> QED BY <1>2, <1>3, <1>4 DEF SA, SC, SD

LEMMA BodyCounting ==
  ASSUME NEW b \in Body, NEW n \in Nat
  PROVE  /\ \A x \in Targets \cup {None} :
              /\ [b EXCEPT !.defaults = n, !.default = x] \in Body
              /\ [b EXCEPT !.defaults = n, !.default = x].parent = b.parent
         /\ \A x \in TerminateEvents \cup {None} :
              /\ [b EXCEPT !.terminates = n, !.terminate = x] \in Body
              /\ [b EXCEPT !.terminates = n, !.terminate = x].parent = b.parent
<1> DEFINE SA == Seq(Actions)  SC == Seq(Clauses)  SD == Seq(Durings)
           T == Targets \cup {None}  E == TerminateEvents \cup {None}
<1>1. Body = [name : AnyName, parent : Nat \cup {None}, entries : SA, exits : SA,
              handlers : SC, durings : SD, default : T,
              defaults : Nat, terminate : E, terminates : Nat]
  BY DEF Body
<1> HIDE DEF SA, SC, SD, T, E
<1>2. ASSUME NEW x \in T
      PROVE  /\ [b EXCEPT !.defaults = n, !.default = x] \in Body
             /\ [b EXCEPT !.defaults = n, !.default = x].parent = b.parent
  BY <1>1
<1>3. ASSUME NEW x \in E
      PROVE  /\ [b EXCEPT !.terminates = n, !.terminate = x] \in Body
             /\ [b EXCEPT !.terminates = n, !.terminate = x].parent = b.parent
  BY <1>1
<1> QED BY <1>2, <1>3 DEF T, E

LEMMA DeclareKeeps ==
  ASSUME SourceOK, NEW body \in Body, body.parent = Here.parent, Declare(body)
  PROVE  SourceOK'
<1>1. Last(open) \in 1 .. Len(bodies)
  BY DEF SourceOK, Last
<1>2. bodies' = [bodies EXCEPT ![Last(open)] = body] /\ open' = open
  BY DEF Declare
<1>3. bodies' \in Seq(Body) /\ Len(bodies') = Len(bodies)
  BY <1>1, <1>2 DEF SourceOK
<1>4. ASSUME NEW s \in 2 .. Len(bodies) PROVE bodies'[s].parent \in 1 .. s - 1
  <2>1. bodies'[s].parent = bodies[s].parent
    BY <1>1, <1>2 DEF Here, SourceOK
  <2>2. s \in States \ {1}
    BY DEF States, SourceOK
  <2> QED BY <2>1, <2>2 DEF SourceOK
<1>5. States' = 1 .. Len(bodies)
  BY <1>3 DEF States
<1> QED BY <1>2, <1>3, <1>4, <1>5 DEF SourceOK

LEMMA LastOf ==
  ASSUME NEW S, NEW q \in Seq(S), Len(q) \geq 1
  PROVE  Last(q) \in S
BY DEF Last

LEMMA FrontOf ==
  ASSUME NEW S, NEW q \in Seq(S), Len(q) > 1
  PROVE  Front(q) \in Seq(S) /\ Len(Front(q)) \geq 1
BY DEF Front

LEMMA ParseKeeps == SourceOK /\ Parse => SourceOK'
<1> SUFFICES ASSUME SourceOK, Parse PROVE SourceOK'
  OBVIOUS
<1>0. Here \in Body /\ Last(open) \in 1 .. Len(bodies) /\ Len(bodies) \in Nat
  <2>1. Last(open) \in 1 .. Len(bodies)
    BY LastOf DEF SourceOK
  <2> QED BY <2>1 DEF SourceOK, Here
<1>1. ASSUME NEW a \in Actions, Entry(a) PROVE SourceOK'
  <2>1. Append(Here.entries, a) \in Seq(Actions)
    BY <1>0, BodyFields
  <2> QED BY <2>1, <1>1, <1>0, BodyWith, DeclareKeeps DEF Entry
<1>2. ASSUME NEW a \in Actions, Exit(a) PROVE SourceOK'
  <2>1. Append(Here.exits, a) \in Seq(Actions)
    BY <1>0, BodyFields
  <2> QED BY <2>1, <1>2, <1>0, BodyWith, DeclareKeeps DEF Exit
<1>3. ASSUME NEW h \in Handlers, Handle(h) PROVE SourceOK'
  <2> DEFINE more == [i \in DOMAIN h.do |-> [on |-> h.on, do |-> h.do[i]]]
  <2>1. more \in Seq(Clauses)
    BY ClauseOfHandler
  <2>2. Handle(h) = Declare([Here EXCEPT !.handlers = @ \o more])
    BY DEF Handle
  <2> HIDE DEF more
  <2>3. Here.handlers \o more \in Seq(Clauses)
    BY <1>0, <2>1, BodyFields
  <2> QED BY <2>2, <2>3, <1>3, <1>0, BodyWith, DeclareKeeps
<1>4. ASSUME NEW d \in Durings, During(d) PROVE SourceOK'
  <2>1. Append(Here.durings, d) \in Seq(Durings)
    BY <1>0, BodyFields
  <2> QED BY <2>1, <1>4, <1>0, BodyWith, DeclareKeeps DEF During
<1>5. ASSUME NEW t \in Targets, DefaultTo(t) PROVE SourceOK'
  <2> DEFINE n == Here.defaults + 1
             x == IF Here.default = None THEN t ELSE Here.default
  <2>1. n \in Nat /\ x \in Targets \cup {None}
    BY <1>0, BodyFields
  <2>2. Declare([Here EXCEPT !.defaults = n, !.default = x])
    BY <1>5 DEF DefaultTo
  <2> HIDE DEF n, x
  <2> QED BY <2>1, <2>2, <1>0, BodyCounting, DeclareKeeps
<1>6. ASSUME NEW e \in TerminateEvents, TerminateOn(e) PROVE SourceOK'
  <2> DEFINE n == Here.terminates + 1
             x == IF Here.terminate = None THEN e ELSE Here.terminate
  <2>1. n \in Nat /\ x \in TerminateEvents \cup {None}
    BY <1>0, BodyFields
  <2>2. Declare([Here EXCEPT !.terminates = n, !.terminate = x])
    BY <1>6 DEF TerminateOn
  <2> HIDE DEF n, x
  <2> QED BY <2>1, <2>2, <1>0, BodyCounting, DeclareKeeps
<1>7. ASSUME Len(bodies) < Len(Names), NEW n \in Names[Len(bodies) + 1], OpenState(n)
      PROVE  SourceOK'
  <2> DEFINE b == NewBody(n, Last(open))
  <2>1. n \in AnyName
    <3>1. Len(Names) \in Nat /\ DOMAIN Names = 1 .. Len(Names)
      BY SourceAssumption
    <3>2. Names[Len(bodies) + 1] \in ToSet(Names)
      BY <3>1, <1>7, <1>0 DEF ToSet
    <3> QED BY <3>2, <1>7 DEF AnyName
  <2>2. b \in Body /\ b.parent = Last(open)
    <3>1. Last(open) \in Nat \cup {None}
      BY <1>0
    <3> QED BY <3>1, <2>1, NewBodyOK
  <2>3. bodies' = Append(bodies, b) /\ open' = Append(open, Len(bodies) + 1)
    BY <1>7 DEF OpenState
  <2> HIDE DEF b
  <2>4. /\ bodies' \in Seq(Body) /\ Len(bodies') = Len(bodies) + 1
        /\ bodies'[Len(bodies) + 1] = b
        /\ \A s \in 1 .. Len(bodies) : bodies'[s] = bodies[s]
    BY <2>2, <2>3 DEF SourceOK
  <2>5. open' \in Seq(1 .. Len(bodies')) /\ Len(open') \geq 1
    <3>1. open \in Seq(1 .. Len(bodies) + 1) /\ Len(open) \geq 1
      BY <1>0 DEF SourceOK
    <3>2. Len(bodies) + 1 \in 1 .. Len(bodies) + 1
      BY <1>0
    <3> QED BY <3>1, <3>2, <2>3, <2>4
  <2>6. ASSUME NEW s \in 2 .. Len(bodies') PROVE bodies'[s].parent \in 1 .. s - 1
    <3>1. CASE s = Len(bodies) + 1
      BY <3>1, <2>2, <2>4, <1>0
    <3>2. CASE s # Len(bodies) + 1
      <4>1. s \in 2 .. Len(bodies)
        BY <3>2, <2>4, <1>0
      <4>2. s \in States \ {1}
        BY <4>1, <1>0 DEF States, SourceOK
      <4>3. bodies[s].parent \in 1 .. s - 1 /\ bodies'[s] = bodies[s]
        BY <4>1, <4>2, <2>4, <1>0 DEF SourceOK
      <4> QED BY <4>3
    <3> QED BY <3>1, <3>2
  <2>7. States' = 1 .. Len(bodies')
    BY <2>4 DEF States
  <2> QED BY <2>4, <2>5, <2>6, <2>7, <1>0 DEF SourceOK
<1>8. ASSUME CloseState PROVE SourceOK'
  <2>1. Front(open) \in Seq(1 .. Len(bodies)) /\ Len(Front(open)) \geq 1
    BY <1>8, FrontOf DEF SourceOK, CloseState
  <2> QED BY <2>1, <1>8 DEF SourceOK, CloseState, States
<1> QED BY <1>1, <1>2, <1>3, <1>4, <1>5, <1>6, <1>7, <1>8 DEF Parse

-----------------------------------------------------------------------------
(* Interning.  Each operation leaves what it knows of other uses alone.    *)

PayloadOK(x) ==
  ~IsTimer(x) => /\ x.kind \in {"Unit", "Tuple", "Struct"}
                 /\ x.kind = "Unit" => x.fields = <<>>

LEMMA TriggerOfHandler ==
  ASSUME SourceOK, NEW h \in AllHandlers
  PROVE  h \in Clauses /\ PayloadOK(h.on)
<1>1. PICK s \in States : h \in ToSet(bodies[s].handlers)
  BY DEF AllHandlers
<1>2. bodies[s] \in Body
  BY StatesAreNumbers DEF SourceOK
<1>3. bodies[s].handlers \in Seq(Clauses)
  BY <1>2, BodyFields
<1>4. h \in Clauses
  BY <1>1, <1>3 DEF ToSet
<1>5. PICK g \in Handlers : h.on = g.on
  BY <1>4 DEF Clauses
<1>6. PayloadOK(g.on)
  BY SourceAssumption DEF PayloadOK
<1> QED BY <1>4, <1>5, <1>6

ActionInterned(new, a, p, v) ==
  /\ a \in DOMAIN new /\ new[a].params = p /\ v \subseteq new[a].variants
  /\ DOMAIN new = DOMAIN actions \cup {a}
  /\ \A b \in DOMAIN actions : /\ new[b].params = actions[b].params
                              /\ actions[b].variants \subseteq new[b].variants

LEMMA InternActionKeeps ==
  ASSUME NEW a, NEW p, NEW v, ActionFits(a, p)
  PROVE  ActionInterned(InternAction(a, p, v), a, p, v)
BY DEF ActionInterned, InternAction, ActionFits, Put

EventInterned(new, x) ==
  /\ x.event \in DOMAIN new /\ DOMAIN new = DOMAIN events \cup {x.event}
  /\ x.kind # "Unit" => new[x.event] = [kind |-> x.kind, count |-> Len(x.fields)]
  /\ \A e \in DOMAIN events : events[e].kind # "Unit" => new[e] = events[e]
  /\ \A e \in DOMAIN new : \/ e \in DOMAIN events /\ new[e] = events[e]
                          \/ /\ e = x.event
                             /\ new[e] = [kind |-> x.kind, count |-> Len(x.fields)]

LEMMA InternEventKeeps ==
  ASSUME NEW x, EventFits(x)
  PROVE  EventInterned(InternEvent(x), x)
BY DEF EventInterned, InternEvent, EventFits, Put

-----------------------------------------------------------------------------
(* build_ir: every use is still to be lowered or what has been interned    *)
(* agrees with it, and nothing is interned that no use asked for.          *)

UnitActions == UNION {ToSet(bodies[s].entries) \cup ToSet(bodies[s].exits) : s \in States}

UnitUses == {[action |-> a] : a \in UnitActions}

TerminateUses == {[terminate |-> e] : e \in TerminateEvents}

SourceUses == UnitUses \cup AllHandlers \cup TerminateUses

UnitLowered(a) == a \in DOMAIN actions /\ actions[a].params = <<>>

HandlerLowered(h) ==
  /\ ~IsTimer(h.on) =>
       /\ h.on.event \in DOMAIN events
       /\ h.on.kind # "Unit" =>
            events[h.on.event] = [kind |-> h.on.kind, count |-> Len(h.on.fields)]
  /\ h.do \in StateNames => MayTransition(h.on)
  /\ h.do \notin StateNames =>
       /\ h.do \in DOMAIN actions /\ actions[h.do].params = Params(h.on)
       /\ Variants(h.on) \subseteq actions[h.do].variants

ActionAskedFor(a) ==
  \/ a \in UnitActions /\ actions[a].params = <<>>
  \/ \E h \in AllHandlers :
       h.do = a /\ a \notin StateNames /\ actions[a].params = Params(h.on)

EventAskedFor(e) ==
  /\ events[e].kind \in {"Unit", "Tuple", "Struct"}
  /\ events[e].kind # "Unit" => \E h \in Binding :
       h.on.event = e /\ events[e] = [kind |-> h.on.kind, count |-> Len(h.on.fields)]

Provenance ==
  /\ todo \in Seq(SourceUses)
  /\ \A a \in DOMAIN actions : ActionAskedFor(a)
  /\ \A e \in DOMAIN events : EventAskedFor(e)
  /\ IsFiniteSet(durations) /\ \A x \in durations : IsTimer(x)

Interned ==
  /\ \A a \in UnitActions : [action |-> a] \in ToSet(todo) \/ UnitLowered(a)
  /\ \A h \in AllHandlers : h \in ToSet(todo) \/ HandlerLowered(h)

LoweringInv ==
  /\ Provenance
  /\ phase = "parse" => todo = <<>> /\ actions = <<>> /\ events = <<>> /\ durations = {}
  /\ phase \notin {"parse", "rejected"} => Interned
  /\ phase \notin {"parse", "lower", "rejected"} => todo = <<>>

LEMMA SeqOver ==
  ASSUME NEW S, NEW T, NEW q \in Seq(S), \A i \in DOMAIN q : q[i] \in T
  PROVE  q \in Seq(T)
<1>1. q = [i \in 1 .. Len(q) |-> q[i]] /\ Len(q) \in Nat /\ DOMAIN q = 1 .. Len(q)
  OBVIOUS
<1> QED BY <1>1

LEMMA ConcatOfUses ==
  ASSUME NEW S, NEW p \in Seq(S), NEW q \in Seq(S), NEW r \in Seq(S)
  PROVE  p \o q \o r \in Seq(S) /\ ToSet(p \o q \o r) = ToSet(p) \cup ToSet(q) \cup ToSet(r)
<1>1. p \o q \in Seq(S) /\ ToSet(p \o q) = ToSet(p) \cup ToSet(q)
  BY ToSetOfConcat
<1> DEFINE pq == p \o q
<1>2. pq \in Seq(S)
  BY <1>1
<1> HIDE DEF pq
<1>3. pq \o r \in Seq(S) /\ ToSet(pq \o r) = ToSet(pq) \cup ToSet(r)
  BY <1>2, ToSetOfConcat
<1> QED BY <1>1, <1>3 DEF pq

LEMMA UsesOfState ==
  ASSUME SourceOK, NEW s \in States
  PROVE  /\ Uses(bodies[s]) \in Seq(SourceUses)
         /\ \A h \in ToSet(bodies[s].handlers) : h \in ToSet(Uses(bodies[s]))
         /\ \A a \in ToSet(bodies[s].entries) \cup ToSet(bodies[s].exits) :
              [action |-> a] \in ToSet(Uses(bodies[s]))
<1> DEFINE b == bodies[s]
           p == [i \in DOMAIN b.entries |-> [action |-> b.entries[i]]]
           q == [i \in DOMAIN b.exits |-> [action |-> b.exits[i]]]
           r == b.handlers
<1>1. b \in Body
  BY StatesAreNumbers DEF SourceOK
<1>2. b.entries \in Seq(Actions) /\ b.exits \in Seq(Actions) /\ r \in Seq(Clauses)
  BY <1>1, BodyFields
<1>3. p \in Seq(SourceUses) /\ \A a \in ToSet(b.entries) : [action |-> a] \in ToSet(p)
  <2> DEFINE n == Len(b.entries)
  <2>1. n \in Nat /\ DOMAIN b.entries = 1 .. n
    BY <1>2
  <2>2. ASSUME NEW i \in 1 .. n PROVE [action |-> b.entries[i]] \in SourceUses
    <3>1. b.entries[i] \in ToSet(bodies[s].entries)
      BY <2>1 DEF ToSet
    <3>2. b.entries[i] \in UnitActions
      BY <3>1 DEF UnitActions
    <3> QED BY <3>2 DEF SourceUses, UnitUses
  <2>3. DOMAIN p = 1 .. n
    BY <2>1
  <2>4. p \in Seq(SourceUses)
    <3> HIDE DEF n
    <3> QED BY <2>1, <2>2
  <2>5. \A i \in DOMAIN b.entries : [action |-> b.entries[i]] \in ToSet(p)
    BY <2>1, <2>3 DEF ToSet
  <2> HIDE DEF p, b
  <2> QED BY <2>4, <2>5, Zenon DEF ToSet
<1>4. q \in Seq(SourceUses) /\ \A a \in ToSet(b.exits) : [action |-> a] \in ToSet(q)
  <2> DEFINE n == Len(b.exits)
  <2>1. n \in Nat /\ DOMAIN b.exits = 1 .. n
    BY <1>2
  <2>2. ASSUME NEW i \in 1 .. n PROVE [action |-> b.exits[i]] \in SourceUses
    <3>1. b.exits[i] \in ToSet(bodies[s].exits)
      BY <2>1 DEF ToSet
    <3>2. b.exits[i] \in UnitActions
      BY <3>1 DEF UnitActions
    <3> QED BY <3>2 DEF SourceUses, UnitUses
  <2>3. DOMAIN q = 1 .. n
    BY <2>1
  <2>4. q \in Seq(SourceUses)
    <3> HIDE DEF n
    <3> QED BY <2>1, <2>2
  <2>5. \A i \in DOMAIN b.exits : [action |-> b.exits[i]] \in ToSet(q)
    BY <2>1, <2>3 DEF ToSet
  <2> HIDE DEF q, b
  <2> QED BY <2>4, <2>5, Zenon DEF ToSet
<1>5. r \in Seq(SourceUses)
  <2>1. DOMAIN r = 1 .. Len(r) /\ Len(r) \in Nat
    BY <1>2
  <2>2. \A i \in DOMAIN r : r[i] \in SourceUses
    BY DEF SourceUses, AllHandlers, ToSet
  <2> HIDE DEF r
  <2> QED BY <1>2, <2>2, SeqOver
<1>6. Uses(bodies[s]) = p \o q \o r
  BY DEF Uses
<1> HIDE DEF p, q
<1>7. /\ Uses(bodies[s]) \in Seq(SourceUses)
      /\ ToSet(Uses(bodies[s])) = ToSet(p) \cup ToSet(q) \cup ToSet(r)
  BY <1>3, <1>4, <1>5, <1>6, ConcatOfUses
<1> QED BY <1>3, <1>4, <1>7

LEMMA AllUsesAreListed ==
  ASSUME SourceOK
  PROVE  /\ AllUses \in Seq(SourceUses)
         /\ \A h \in AllHandlers : h \in ToSet(AllUses)
         /\ \A a \in UnitActions : [action |-> a] \in ToSet(AllUses)
<1> DEFINE seqs == [s \in States |-> Uses(bodies[s])]
           flat == FlattenSeq(seqs)
           end == IF bodies[1].terminate = None
                    THEN <<>> ELSE <<[terminate |-> bodies[1].terminate]>>
<1>0. States = 1 .. Len(bodies) /\ Len(bodies) \in Nat /\ 1 \in States
  BY StatesAreNumbers DEF SourceOK
<1>1. ListOfSeqs(seqs, SourceUses) /\ Len(seqs) = Len(bodies)
  <2>1. \A s \in States : Uses(bodies[s]) \in Seq(SourceUses)
    BY UsesOfState
  <2> QED BY <1>0, <2>1 DEF ListOfSeqs
<1>2. flat \in Seq(SourceUses)
  <2> HIDE DEF seqs
  <2> QED BY <1>1, FlattenHoldsOnly
<1>3. end \in Seq(SourceUses)
  <2>1. bodies[1] \in Body
    BY <1>0 DEF SourceOK
  <2>2. bodies[1].terminate \in TerminateEvents \cup {None}
    BY <2>1, BodyFields
  <2>3. bodies[1].terminate # None => [terminate |-> bodies[1].terminate] \in SourceUses
    BY <2>2 DEF SourceUses, TerminateUses
  <2> QED BY <2>3
<1>4. AllUses = flat \o end
  BY DEF AllUses
<1>5. ASSUME NEW s \in States, NEW u \in ToSet(Uses(bodies[s])) PROVE u \in ToSet(flat)
  <2>1. Uses(bodies[s]) \in Seq(SourceUses)
    BY UsesOfState
  <2>2. seqs[s] = Uses(bodies[s])
    OBVIOUS
  <2>3. PICK i \in 1 .. Len(seqs[s]) : u = seqs[s][i]
    BY <2>1, <2>2 DEF ToSet
  <2>4. s \in 1 .. Len(seqs)
    BY <1>0, <1>1
  <2> HIDE DEF seqs
  <2> QED BY <1>1, <2>3, <2>4, FlattenContains
<1>6. AllUses \in Seq(SourceUses) /\ ToSet(AllUses) = ToSet(flat) \cup ToSet(end)
  <2> HIDE DEF flat, end
  <2> QED BY <1>2, <1>3, <1>4, ToSetOfConcat
<1>7. ASSUME NEW h \in AllHandlers PROVE h \in ToSet(flat)
  <2>1. PICK s \in States : h \in ToSet(bodies[s].handlers)
    BY DEF AllHandlers
  <2> HIDE DEF flat
  <2> QED BY <2>1, <1>5, UsesOfState
<1>8. ASSUME NEW a \in UnitActions PROVE [action |-> a] \in ToSet(flat)
  <2>1. PICK s \in States : a \in ToSet(bodies[s].entries) \cup ToSet(bodies[s].exits)
    BY DEF UnitActions
  <2> HIDE DEF flat
  <2> QED BY <2>1, <1>5, UsesOfState
<1> QED BY <1>6, <1>7, <1>8

LEMMA SourceSame ==
  ASSUME UNCHANGED bodies
  PROVE  /\ States' = States /\ StateNames' = StateNames /\ AllHandlers' = AllHandlers
         /\ Typed' = Typed /\ Binding' = Binding
         /\ UnitActions' = UnitActions /\ SourceUses' = SourceUses
BY DEF States, StateNames, AllHandlers, Typed, Binding, UnitActions, SourceUses, UnitUses

LEMMA LoweringSame ==
  ASSUME LoweringInv, UNCHANGED <<source, todo, ir>>,
         \/ phase' = phase
         \/ phase' = "rejected"
         \/ phase \notin {"parse", "rejected"} /\ phase' # "parse" /\ todo = <<>>
  PROVE  LoweringInv'
<1>0. UNCHANGED <<bodies, todo, actions, events, durations>>
  BY DEF source, ir
<1>1. \A a : ActionAskedFor(a)' = ActionAskedFor(a)
  BY <1>0, SourceSame DEF ActionAskedFor
<1>2. \A e : EventAskedFor(e)' = EventAskedFor(e)
  BY <1>0, SourceSame DEF EventAskedFor
<1>3. Provenance'
  BY <1>0, <1>1, <1>2, SourceSame DEF LoweringInv, Provenance
<1>4. (\A a : UnitLowered(a)' = UnitLowered(a)) /\ \A h : HandlerLowered(h)' = HandlerLowered(h)
  BY <1>0, SourceSame DEF UnitLowered, HandlerLowered
<1>5. Interned => Interned'
  BY <1>0, <1>4, SourceSame DEF Interned
<1> QED BY <1>0, <1>3, <1>5 DEF LoweringInv

(* A use is taken off the list and interned; whatever else was interned    *)
(* still agrees with its uses.                                             *)
LEMMA LoweringStep ==
  ASSUME NEW u, SourceOK, LoweringInv, phase = "lower", phase' = "lower",
         todo # <<>>, Head(todo) = u, UNCHANGED source, todo' = Tail(todo),
         \A a \in DOMAIN actions : a \in DOMAIN actions'
           /\ actions'[a].params = actions[a].params
           /\ actions[a].variants \subseteq actions'[a].variants,
         \A a \in DOMAIN actions' \ DOMAIN actions : ActionAskedFor(a)',
         DOMAIN events \subseteq DOMAIN events',
         \A e \in DOMAIN events : events[e].kind # "Unit" => events'[e] = events[e],
         \A e \in DOMAIN events' :
           (e \in DOMAIN events /\ events'[e] = events[e]) \/ EventAskedFor(e)',
         IsFiniteSet(durations') /\ \A x \in durations' : IsTimer(x),
         \A a : u = [action |-> a] => UnitLowered(a)',
         u \in AllHandlers => HandlerLowered(u)'
  PROVE  LoweringInv'
<1>0. UNCHANGED <<bodies, open>>
  BY DEF source
<1>1. /\ todo \in Seq(SourceUses) /\ Tail(todo) \in Seq(SourceUses)
      /\ ToSet(todo) = {u} \cup ToSet(Tail(todo))
  <2>1. todo \in Seq(SourceUses)
    BY DEF LoweringInv, Provenance
  <2> QED BY <2>1, ToSetOfTail
<1>2. ASSUME NEW a \in DOMAIN actions' PROVE ActionAskedFor(a)'
  <2>1. CASE a \in DOMAIN actions
    <3>1. ActionAskedFor(a) /\ actions'[a].params = actions[a].params
      BY <2>1 DEF LoweringInv, Provenance
    <3> QED BY <3>1, <1>0, SourceSame DEF ActionAskedFor
  <2> QED BY <2>1
<1>3. ASSUME NEW e \in DOMAIN events' PROVE EventAskedFor(e)'
  <2>1. CASE e \in DOMAIN events /\ events'[e] = events[e]
    <3>1. EventAskedFor(e)
      BY <2>1 DEF LoweringInv, Provenance
    <3> QED BY <3>1, <2>1, <1>0, SourceSame DEF EventAskedFor
  <2> QED BY <2>1
<1>4. Provenance'
  BY <1>0, <1>1, <1>2, <1>3, SourceSame DEF Provenance
<1>5. ASSUME NEW a \in UnitActions PROVE [action |-> a] \in ToSet(todo') \/ UnitLowered(a)'
  <2>1. CASE [action |-> a] = u
    BY <2>1
  <2>2. CASE UnitLowered(a)
    BY <2>2 DEF UnitLowered
  <2>3. CASE [action |-> a] \in ToSet(todo) /\ [action |-> a] # u
    BY <2>3, <1>1
  <2> QED BY <2>1, <2>2, <2>3 DEF LoweringInv, Interned
<1>6. ASSUME NEW h \in AllHandlers PROVE h \in ToSet(todo') \/ HandlerLowered(h)'
  <2>1. CASE h = u
    BY <2>1
  <2>2. CASE HandlerLowered(h)
    BY <2>2, <1>0, SourceSame DEF HandlerLowered
  <2>3. CASE h \in ToSet(todo) /\ h # u
    BY <2>3, <1>1
  <2> QED BY <2>1, <2>2, <2>3 DEF LoweringInv, Interned
<1>7. Interned'
  BY <1>0, <1>5, <1>6, SourceSame DEF Interned
<1> QED BY <1>4, <1>7 DEF LoweringInv

(* What a use says it is. *)
LEMMA KindOfUse ==
  ASSUME SourceOK, LoweringInv, todo # <<>>
  PROVE  /\ "action" \in DOMAIN Head(todo) =>
              \E a \in UnitActions : Head(todo) = [action |-> a]
         /\ "on" \in DOMAIN Head(todo) => Head(todo) \in AllHandlers
         /\ "terminate" \in DOMAIN Head(todo) => \E e : Head(todo) = [terminate |-> e]
         /\ \A h \in AllHandlers : \A x : h # [action |-> x] /\ h # [terminate |-> x]
<1>1. Head(todo) \in SourceUses
  BY ToSetOfTail DEF LoweringInv, Provenance
<1>2. \A h \in AllHandlers : DOMAIN h = {"on", "do"}
  BY TriggerOfHandler DEF Clauses
<1>3. \A u \in UnitUses : \E a \in UnitActions : u = [action |-> a]
  BY DEF UnitUses
<1>4. \A u \in TerminateUses : \E e : u = [terminate |-> e]
  BY DEF TerminateUses
<1>5. \A x : DOMAIN [action |-> x] = {"action"} /\ DOMAIN [terminate |-> x] = {"terminate"}
  OBVIOUS
<1>6. \A h \in AllHandlers : \A x : h # [action |-> x] /\ h # [terminate |-> x]
  BY <1>2, <1>5
<1>7. CASE Head(todo) \in UnitUses
  BY <1>7, <1>3, <1>5, <1>6
<1>8. CASE Head(todo) \in TerminateUses
  BY <1>8, <1>4, <1>5, <1>6
<1>9. CASE Head(todo) \in AllHandlers
  BY <1>9, <1>2, <1>6
<1> QED BY <1>1, <1>7, <1>8, <1>9 DEF SourceUses

LEMMA LowerActionKeeps ==
  ASSUME SourceOK, LoweringInv, LowerAction
  PROVE  LoweringInv'
<1>1. phase = "lower" /\ todo # <<>> /\ "action" \in DOMAIN Head(todo)
  BY DEF LowerAction
<1>2. PICK a \in UnitActions : Head(todo) = [action |-> a]
  BY <1>1, KindOfUse
<1>3. \/ /\ ActionFits(a, <<>>) /\ actions' = InternAction(a, <<>>, {})
         /\ todo' = Tail(todo) /\ UNCHANGED <<source, phase, events, durations>>
      \/ UNCHANGED <<source, todo, ir>> /\ phase' = "rejected"
  BY <1>2 DEF LowerAction, Reject
<1>4. CASE UNCHANGED <<source, todo, ir>> /\ phase' = "rejected"
  BY <1>4, LoweringSame
<1>5. CASE /\ ActionFits(a, <<>>) /\ actions' = InternAction(a, <<>>, {})
           /\ todo' = Tail(todo) /\ UNCHANGED <<source, phase, events, durations>>
  <2>2. /\ a \in DOMAIN actions' /\ actions'[a].params = <<>>
        /\ DOMAIN actions' = DOMAIN actions \cup {a}
        /\ \A b \in DOMAIN actions : /\ actions'[b].params = actions[b].params
                                    /\ actions[b].variants \subseteq actions'[b].variants
    <3>1. ActionInterned(actions', a, <<>>, {})
      BY <1>5, InternActionKeeps
    <3> QED BY <3>1 DEF ActionInterned
  <2>3. \A b \in DOMAIN actions' \ DOMAIN actions : ActionAskedFor(b)'
    BY <1>5, <2>2, SourceSame DEF ActionAskedFor, source
  <2>4. \A b : [action |-> a] = [action |-> b] => UnitLowered(b)'
    <3>1. \A b : [action |-> a] = [action |-> b] => a = b
      <4>1. ASSUME NEW b, [action |-> a] = [action |-> b] PROVE a = b
        <5>1. [action |-> a].action = [action |-> b].action
          BY <4>1
        <5> QED BY <5>1
      <4> QED BY <4>1
    <3> QED BY <3>1, <2>2 DEF UnitLowered
  <2>5. [action |-> a] \notin AllHandlers
    BY <1>1, KindOfUse
  <2>6. IsFiniteSet(durations') /\ \A x \in durations' : IsTimer(x)
    BY <1>5 DEF LoweringInv, Provenance
  <2> QED BY <1>1, <1>2, <1>5, <2>2, <2>3, <2>4, <2>5, <2>6, LoweringStep
<1> QED BY <1>3, <1>4, <1>5

LEMMA LowerTerminateKeeps ==
  ASSUME SourceOK, LoweringInv, LowerTerminate
  PROVE  LoweringInv'
<1>1. phase = "lower" /\ todo # <<>> /\ "terminate" \in DOMAIN Head(todo)
  BY DEF LowerTerminate
<1>2. PICK e : Head(todo) = [terminate |-> e]
  BY <1>1, KindOfUse
<1> DEFINE x == UnitTrigger(e)
<1>3. /\ events' = InternEvent(x) /\ todo' = Tail(todo)
      /\ UNCHANGED <<source, phase, actions, durations>>
  BY <1>2 DEF LowerTerminate
<1>4. x.event = e /\ x.kind = "Unit" /\ EventFits(x)
  BY DEF UnitTrigger, EventFits
<1> HIDE DEF x
<1>5. /\ DOMAIN events' = DOMAIN events \cup {x.event}
      /\ \A y \in DOMAIN events : events[y].kind # "Unit" => events'[y] = events[y]
      /\ \A y \in DOMAIN events' : \/ y \in DOMAIN events /\ events'[y] = events[y]
                                  \/ events'[y].kind = "Unit"
  <2>1. EventInterned(events', x)
    BY <1>3, <1>4, InternEventKeeps
  <2>2. [kind |-> x.kind, count |-> Len(x.fields)].kind = "Unit"
    BY <1>4
  <2> QED BY <2>1, <2>2 DEF EventInterned
<1>6. \A y \in DOMAIN events' :
        (y \in DOMAIN events /\ events'[y] = events[y]) \/ EventAskedFor(y)'
  BY <1>5 DEF EventAskedFor
<1>7. IsFiniteSet(durations') /\ \A d \in durations' : IsTimer(d)
  BY <1>3 DEF LoweringInv, Provenance
<1>8. [terminate |-> e] \notin AllHandlers
  BY <1>1, KindOfUse
<1>9. \A a : [terminate |-> e] # [action |-> a]
  <2>1. \A a : DOMAIN [terminate |-> e] # DOMAIN [action |-> a]
    OBVIOUS
  <2> QED BY <2>1
<1> QED BY <1>1, <1>2, <1>3, <1>5, <1>6, <1>7, <1>8, <1>9, LoweringStep

LEMMA LowerHandlerKeeps ==
  ASSUME SourceOK, LoweringInv, LowerHandler
  PROVE  LoweringInv'
<1>1. phase = "lower" /\ todo # <<>> /\ "on" \in DOMAIN Head(todo)
  BY DEF LowerHandler
<1>2. PICK h \in AllHandlers : Head(todo) = h
  BY <1>1, KindOfUse
<1>3. \/ /\ Fits(h) /\ todo' = Tail(todo) /\ UNCHANGED <<source, phase>>
         /\ \/ /\ IsTimer(h.on) /\ durations' = InternDuration(h.on)
               /\ UNCHANGED events
            \/ /\ ~IsTimer(h.on) /\ events' = InternEvent(h.on)
               /\ UNCHANGED durations
         /\ actions' = IF h.do \in StateNames
                         THEN actions
                         ELSE InternAction(h.do, Params(h.on), Variants(h.on))
      \/ UNCHANGED <<source, todo, ir>> /\ phase' = "rejected"
  BY <1>2 DEF LowerHandler, Reject
<1>4. CASE UNCHANGED <<source, todo, ir>> /\ phase' = "rejected"
  BY <1>4, LoweringSame
<1>5. CASE /\ Fits(h) /\ todo' = Tail(todo) /\ UNCHANGED <<source, phase>>
           /\ \/ /\ IsTimer(h.on) /\ durations' = InternDuration(h.on)
                 /\ UNCHANGED events
              \/ /\ ~IsTimer(h.on) /\ events' = InternEvent(h.on)
                 /\ UNCHANGED durations
           /\ actions' = IF h.do \in StateNames
                           THEN actions
                           ELSE InternAction(h.do, Params(h.on), Variants(h.on))
  <2>0. UNCHANGED <<bodies, open>>
    BY <1>5 DEF source
  <2>1. /\ \A b \in DOMAIN actions : /\ b \in DOMAIN actions'
                                    /\ actions'[b].params = actions[b].params
                                    /\ actions[b].variants \subseteq actions'[b].variants
        /\ DOMAIN actions' \ DOMAIN actions \subseteq {h.do}
        /\ h.do \notin StateNames =>
             /\ h.do \in DOMAIN actions' /\ actions'[h.do].params = Params(h.on)
             /\ Variants(h.on) \subseteq actions'[h.do].variants
        /\ h.do \in StateNames => actions' = actions
    <3>1. CASE h.do \in StateNames
      BY <1>5, <3>1
    <3>2. CASE h.do \notin StateNames
      <4>1. ActionFits(h.do, Params(h.on))
        BY <1>5, <3>2 DEF Fits
      <4>2. actions' = InternAction(h.do, Params(h.on), Variants(h.on))
        BY <1>5, <3>2
      <4>3. ActionInterned(actions', h.do, Params(h.on), Variants(h.on))
        BY <4>1, <4>2, InternActionKeeps
      <4> QED BY <4>3, <3>2 DEF ActionInterned
    <3> QED BY <3>1, <3>2
  <2>2. \A a \in DOMAIN actions' \ DOMAIN actions : ActionAskedFor(a)'
    BY <2>0, <2>1, SourceSame DEF ActionAskedFor
  <2>3. /\ DOMAIN events \subseteq DOMAIN events'
        /\ \A e \in DOMAIN events : events[e].kind # "Unit" => events'[e] = events[e]
        /\ \A e \in DOMAIN events' :
             (e \in DOMAIN events /\ events'[e] = events[e]) \/ EventAskedFor(e)'
        /\ ~IsTimer(h.on) =>
             /\ h.on.event \in DOMAIN events'
             /\ h.on.kind # "Unit" =>
                  events'[h.on.event] = [kind |-> h.on.kind, count |-> Len(h.on.fields)]
    <3>1. CASE IsTimer(h.on)
      BY <1>5, <3>1
    <3>2. CASE ~IsTimer(h.on)
      <4>1. EventFits(h.on) /\ events' = InternEvent(h.on)
        BY <1>5, <3>2 DEF Fits
      <4>2. /\ h.on.event \in DOMAIN events'
            /\ DOMAIN events' = DOMAIN events \cup {h.on.event}
            /\ h.on.kind # "Unit" =>
                 events'[h.on.event] = [kind |-> h.on.kind, count |-> Len(h.on.fields)]
            /\ \A e \in DOMAIN events : events[e].kind # "Unit" => events'[e] = events[e]
            /\ \A e \in DOMAIN events' :
                 \/ e \in DOMAIN events /\ events'[e] = events[e]
                 \/ /\ e = h.on.event
                    /\ events'[e] = [kind |-> h.on.kind, count |-> Len(h.on.fields)]
        <5>1. EventInterned(events', h.on)
          BY <4>1, InternEventKeeps
        <5> QED BY <5>1 DEF EventInterned
      <4>3. /\ h.on.kind \in {"Unit", "Tuple", "Struct"}
            /\ h.on.kind = "Unit" => h.on.fields = <<>>
        BY <3>2, TriggerOfHandler DEF PayloadOK
      <4>4. h.on.kind # "Unit" => h \in Binding
        BY <3>2 DEF Binding, Binds
      <4>5. ASSUME events'[h.on.event] = [kind |-> h.on.kind, count |-> Len(h.on.fields)]
            PROVE  EventAskedFor(h.on.event)'
        <5>1. events'[h.on.event].kind = h.on.kind
          BY <4>5
        <5> QED BY <4>3, <4>4, <4>5, <5>1, <2>0, SourceSame DEF EventAskedFor
      <4> QED BY <4>2, <4>5
    <3> QED BY <3>1, <3>2
  <2>4. HandlerLowered(h)'
    <3>1. h.do \in StateNames => MayTransition(h.on)
      BY <1>5 DEF Fits
    <3> QED BY <2>0, <2>1, <2>3, <3>1, SourceSame DEF HandlerLowered
  <2>5. IsFiniteSet(durations') /\ \A x \in durations' : IsTimer(x)
    <3>1. IsFiniteSet(durations) /\ \A x \in durations : IsTimer(x)
      BY DEF LoweringInv, Provenance
    <3>2. CASE IsTimer(h.on) /\ durations' = InternDuration(h.on)
      BY <3>1, <3>2, FS_AddElement DEF InternDuration
    <3> QED BY <3>1, <3>2, <1>5
  <2>6. \A a : h # [action |-> a]
    BY <1>1, KindOfUse
  <2> QED BY <1>1, <1>2, <1>5, <2>1, <2>2, <2>3, <2>4, <2>5, <2>6, LoweringStep
<1> QED BY <1>3, <1>4, <1>5

-----------------------------------------------------------------------------
(* The order of the uses counts for a payload without fields only.  How    *)
(* far the lowering has come is a position n in the source: an action is   *)
(* interned exactly if one of the first n uses is of it, and none of them  *)
(* is an empty payload that comes too late.                                *)

ComeTo(n) ==
  /\ Len(todo) = Len(AllUses) - n
  /\ \A i \in 1 .. Len(todo) : todo[i] = AllUses[n + i]

ActionsUsed(n) ==
  \A a : a \notin StateNames =>
    (a \in DOMAIN actions <=> \E i \in 1 .. n : IsUseOf(AllUses[i], a))

InTime(j) ==
  BindsNothing(AllUses[j]) => \A i \in 1 .. j - 1 : ~IsUseOf(AllUses[i], AllUses[j].do)

LoweredInOrder ==
  \E n \in 0 .. Len(AllUses) :
    ComeTo(n) /\ ActionsUsed(n) /\ \A j \in 1 .. n : InTime(j)

LEMMA UsesSame ==
  ASSUME UNCHANGED bodies
  PROVE  AllUses' = AllUses /\ EmptyPayloadsComeFirst' = EmptyPayloadsComeFirst
<1>1. AllUses' = AllUses
  BY DEF AllUses, States
<1> QED BY <1>1, SourceSame DEF EmptyPayloadsComeFirst, BindsNothing

LEMMA OrderSame ==
  ASSUME LoweredInOrder, UNCHANGED <<bodies, todo, actions>>
  PROVE  LoweredInOrder'
BY UsesSame, SourceSame DEF LoweredInOrder, ComeTo, ActionsUsed, InTime, BindsNothing

LEMMA OrderStarts ==
  ASSUME SourceOK, actions = <<>>, todo' = AllUses, UNCHANGED <<bodies, actions>>
  PROVE  LoweredInOrder'
<1>1. AllUses \in Seq(SourceUses) /\ AllUses' = AllUses
  BY AllUsesAreListed, UsesSame
<1>2. Len(AllUses) \in Nat /\ DOMAIN actions' = {}
  BY <1>1
<1>3. ComeTo(0)'
  BY <1>1, <1>2 DEF ComeTo
<1>4. ActionsUsed(0)'
  BY <1>1, <1>2 DEF ActionsUsed
<1>5. 0 \in 0 .. Len(AllUses)'
  BY <1>1, <1>2
<1> QED BY <1>3, <1>4, <1>5 DEF LoweredInOrder

LEMMA NextUse ==
  ASSUME SourceOK, NEW n \in 0 .. Len(AllUses), ComeTo(n), todo \in Seq(SourceUses), todo # <<>>
  PROVE  /\ n + 1 \in 1 .. Len(AllUses) /\ Len(AllUses) \in Nat
         /\ AllUses[n + 1] = Head(todo)
         /\ Len(Tail(todo)) = Len(AllUses) - (n + 1)
         /\ \A i \in 1 .. Len(Tail(todo)) : Tail(todo)[i] = AllUses[n + 1 + i]
<1>1. Len(AllUses) \in Nat
  BY AllUsesAreListed
<1>2. /\ Len(todo) \in Nat \ {0} /\ Head(todo) = todo[1]
      /\ Len(Tail(todo)) = Len(todo) - 1
      /\ \A i \in 1 .. Len(todo) - 1 : Tail(todo)[i] = todo[i + 1]
  OBVIOUS
<1>3. Len(todo) = Len(AllUses) - n
  BY DEF ComeTo
<1>4. \A i \in 1 .. Len(todo) : todo[i] = AllUses[n + i]
  BY DEF ComeTo
<1>5. todo[1] = AllUses[n + 1]
  BY <1>2, <1>4
<1>6. ASSUME NEW i \in 1 .. Len(Tail(todo)) PROVE Tail(todo)[i] = AllUses[n + 1 + i]
  <2>1. i \in 1 .. Len(todo) - 1 /\ i + 1 \in 1 .. Len(todo) /\ n + (i + 1) = n + 1 + i
    BY <1>2
  <2>2. Tail(todo)[i] = todo[i + 1]
    BY <1>2, <2>1
  <2> QED BY <1>4, <2>1, <2>2
<1> QED BY <1>1, <1>2, <1>3, <1>5, <1>6

LEMMA OrderStep ==
  ASSUME SourceOK, Provenance, LoweredInOrder, todo # <<>>,
         todo' = Tail(todo), UNCHANGED bodies,
         \A a : a \notin StateNames =>
           (a \in DOMAIN actions' <=> a \in DOMAIN actions \/ IsUseOf(Head(todo), a)),
         BindsNothing(Head(todo)) => Head(todo).do \notin DOMAIN actions
  PROVE  LoweredInOrder'
<1> DEFINE u == Head(todo)
<1>1. PICK n \in 0 .. Len(AllUses) : ComeTo(n) /\ ActionsUsed(n) /\ \A j \in 1 .. n : InTime(j)
  BY DEF LoweredInOrder
<1>2. /\ n + 1 \in 1 .. Len(AllUses) /\ Len(AllUses) \in Nat
      /\ AllUses[n + 1] = u
      /\ Len(Tail(todo)) = Len(AllUses) - (n + 1)
      /\ \A i \in 1 .. Len(Tail(todo)) : Tail(todo)[i] = AllUses[n + 1 + i]
  BY <1>1, NextUse DEF Provenance
<1>3. AllUses' = AllUses /\ StateNames' = StateNames
  BY UsesSame, SourceSame
<1>4. ComeTo(n + 1)'
  BY <1>2, <1>3 DEF ComeTo
<1>5. 1 .. n + 1 = 1 .. n \cup {n + 1}
  OBVIOUS
<1>6. ASSUME NEW a, a \notin StateNames
      PROVE  a \in DOMAIN actions' <=> \E i \in 1 .. n + 1 : IsUseOf(AllUses[i], a)
  <2>1. a \in DOMAIN actions <=> \E i \in 1 .. n : IsUseOf(AllUses[i], a)
    BY <1>1, <1>6 DEF ActionsUsed
  <2>2. a \in DOMAIN actions' <=> a \in DOMAIN actions \/ IsUseOf(AllUses[n + 1], a)
    BY <1>2, <1>6
  <2> HIDE DEF u
  <2> QED BY <2>1, <2>2, <1>5, Zenon
<1>7. ActionsUsed(n + 1)'
  BY <1>3, <1>6 DEF ActionsUsed
<1>8. InTime(n + 1)
  <2> SUFFICES ASSUME BindsNothing(u), NEW i \in 1 .. n PROVE ~IsUseOf(AllUses[i], u.do)
    BY <1>2 DEF InTime
  <2>1. u.do \notin StateNames /\ u.do \notin DOMAIN actions
    BY DEF BindsNothing
  <2> HIDE DEF u
  <2> QED BY <2>1, <1>1 DEF ActionsUsed
<1>9. \A j : InTime(j)' = InTime(j)
  BY <1>3 DEF InTime, BindsNothing
<1>10. \A j \in 1 .. n + 1 : InTime(j)'
  BY <1>1, <1>5, <1>8, <1>9
<1>11. (n + 1 \in 0 .. Len(AllUses))'
  BY <1>2, <1>3
<1> QED BY <1>4, <1>7, <1>10, <1>11 DEF LoweredInOrder

LEMMA OrderEnds ==
  ASSUME SourceOK, LoweredInOrder, todo = <<>>
  PROVE  EmptyPayloadsComeFirst
<1>1. PICK n \in 0 .. Len(AllUses) : ComeTo(n) /\ \A j \in 1 .. n : InTime(j)
  BY DEF LoweredInOrder
<1>2. AllUses \in Seq(SourceUses) /\ Len(AllUses) \in Nat
  BY AllUsesAreListed
<1>3. n = Len(AllUses)
  BY <1>1, <1>2 DEF ComeTo
<1>4. DOMAIN AllUses = 1 .. n
  BY <1>2, <1>3
<1>5. ASSUME NEW i \in DOMAIN AllUses, NEW j \in DOMAIN AllUses,
             i < j, BindsNothing(AllUses[j])
      PROVE  ~IsUseOf(AllUses[i], AllUses[j].do)
  <2>1. j \in 1 .. n /\ i \in 1 .. j - 1
    BY <1>4, <1>5
  <2> QED BY <1>1, <1>5, <2>1 DEF InTime
<1> QED BY <1>5 DEF EmptyPayloadsComeFirst

(* A use that intern_action_with_params takes for one without a payload.   *)
LEMMA EmptyPayloadTooLate ==
  ASSUME SourceOK, Provenance, LoweredInOrder, todo # <<>>,
         BindsNothing(Head(todo)), Head(todo).do \in DOMAIN actions
  PROVE  ~EmptyPayloadsComeFirst
<1>1. PICK n \in 0 .. Len(AllUses) : ComeTo(n) /\ ActionsUsed(n)
  BY DEF LoweredInOrder
<1>2. n + 1 \in 1 .. Len(AllUses) /\ AllUses[n + 1] = Head(todo)
  BY <1>1, NextUse DEF Provenance
<1>3. Head(todo).do \notin StateNames
  BY DEF BindsNothing
<1>4. PICK i \in 1 .. n : IsUseOf(AllUses[i], Head(todo).do)
  BY <1>1, <1>3 DEF ActionsUsed
<1>5. DOMAIN AllUses = 1 .. Len(AllUses) /\ Len(AllUses) \in Nat
  BY AllUsesAreListed
<1>6. i \in DOMAIN AllUses /\ n + 1 \in DOMAIN AllUses /\ i < n + 1
  BY <1>2, <1>5
<1> QED BY <1>2, <1>4, <1>6 DEF EmptyPayloadsComeFirst

LEMMA LoweringKeepsOrder ==
  ASSUME SourceOK, LoweringInv, LoweredInOrder, phase' = "lower",
         LowerAction \/ LowerHandler \/ LowerTerminate
  PROVE  LoweredInOrder'
<1>0. /\ phase = "lower" /\ todo # <<>> /\ Provenance
      /\ \A a : DOMAIN [action |-> a] = {"action"} /\ [action |-> a].action = a
      /\ \A e : DOMAIN [terminate |-> e] = {"terminate"}
  BY DEF LoweringInv, LowerAction, LowerHandler, LowerTerminate
<1>1. CASE LowerAction
  <2>1. PICK a \in UnitActions : Head(todo) = [action |-> a]
    BY <1>0, <1>1, KindOfUse DEF LowerAction
  <2>2. /\ ActionFits(a, <<>>) /\ actions' = InternAction(a, <<>>, {})
        /\ todo' = Tail(todo) /\ UNCHANGED bodies
    BY <1>0, <1>1, <2>1 DEF LowerAction, Reject, source
  <2>3. DOMAIN actions' = DOMAIN actions \cup {a}
    BY <2>2, InternActionKeeps DEF ActionInterned
  <2>4. (\A b : IsUseOf(Head(todo), b) <=> b = a) /\ ~BindsNothing(Head(todo))
    BY <1>0, <2>1 DEF IsUseOf, BindsNothing
  <2> QED BY <1>0, <2>2, <2>3, <2>4, OrderStep
<1>2. CASE LowerHandler
  <2>1. PICK h \in AllHandlers : Head(todo) = h
    BY <1>0, <1>2, KindOfUse DEF LowerHandler
  <2>2. /\ Fits(h) /\ todo' = Tail(todo) /\ UNCHANGED bodies
        /\ actions' = IF h.do \in StateNames
                        THEN actions
                        ELSE InternAction(h.do, Params(h.on), Variants(h.on))
    BY <1>0, <1>2, <2>1 DEF LowerHandler, Reject, source
  <2>3. \A b : IsUseOf(h, b) <=> b = h.do
    <3>1. DOMAIN h = {"on", "do"}
      BY TriggerOfHandler DEF Clauses
    <3> QED BY <3>1 DEF IsUseOf
  <2>4. ASSUME NEW b, b \notin StateNames
        PROVE  b \in DOMAIN actions' <=> b \in DOMAIN actions \/ IsUseOf(h, b)
    <3>1. CASE h.do \in StateNames
      BY <3>1, <2>2, <2>3, <2>4
    <3>2. CASE h.do \notin StateNames
      <4>1. ActionFits(h.do, Params(h.on))
        BY <2>2, <3>2 DEF Fits
      <4>2. actions' = InternAction(h.do, Params(h.on), Variants(h.on))
        BY <2>2, <3>2
      <4>3. ActionInterned(actions', h.do, Params(h.on), Variants(h.on))
        BY <4>1, <4>2, InternActionKeeps
      <4>4. DOMAIN actions' = DOMAIN actions \cup {h.do}
        BY <4>3 DEF ActionInterned
      <4> QED BY <4>4, <2>3
    <3> QED BY <3>1, <3>2
  <2>5. BindsNothing(h) => h.do \notin DOMAIN actions
    BY <2>2 DEF BindsNothing, Fits, ActionFits, TakenForUnit
  <2> QED BY <1>0, <2>1, <2>2, <2>4, <2>5, OrderStep
<1>3. CASE LowerTerminate
  <2>1. PICK e : Head(todo) = [terminate |-> e]
    BY <1>0, <1>3, KindOfUse DEF LowerTerminate
  <2>2. todo' = Tail(todo) /\ UNCHANGED <<bodies, actions>>
    BY <1>3 DEF LowerTerminate, source
  <2>3. (\A b : ~IsUseOf(Head(todo), b)) /\ ~BindsNothing(Head(todo))
    BY <1>0, <2>1 DEF IsUseOf, BindsNothing
  <2> QED BY <1>0, <2>2, <2>3, OrderStep
<1> QED BY <1>1, <1>2, <1>3

-----------------------------------------------------------------------------
(* When all uses are lowered they agree; when one is refused they do not.  *)

LEMMA UsesAgreeWhenLowered ==
  ASSUME SourceOK, Interned, todo = <<>>
  PROVE  UsesAgree /\ TransitionsAreBare
<1>1. (\A h \in AllHandlers : HandlerLowered(h)) /\ \A a \in UnitActions : UnitLowered(a)
  <2>1. \A x : x \notin ToSet(<<>>)
    BY DEF ToSet
  <2> QED BY <2>1 DEF Interned
<1>2. TransitionsAreBare
  BY <1>1 DEF TransitionsAreBare, HandlerLowered
<1>3. ASSUME NEW h \in AllHandlers, NEW g \in AllHandlers,
             h.do = g.do, h.do \notin StateNames
      PROVE  Params(h.on) = Params(g.on)
  BY <1>1, <1>3 DEF HandlerLowered
<1>4. \A h \in Typed : /\ h \in AllHandlers /\ ~IsTimer(h.on) /\ h.on.kind # "Unit"
                       /\ Params(h.on) # <<>>
  BY TriggerOfHandler DEF Typed, Params, PayloadOK
<1>5. ASSUME NEW h \in Typed, NEW s \in States
      PROVE  h.do \notin ToSet(bodies[s].entries) \cup ToSet(bodies[s].exits)
  <2>1. h.do \notin StateNames
    BY <1>2, <1>4 DEF TransitionsAreBare, MayTransition
  <2>2. actions[h.do].params # <<>>
    BY <1>1, <1>4, <2>1 DEF HandlerLowered
  <2>3. h.do \notin UnitActions
    BY <1>1, <2>2 DEF UnitLowered
  <2> QED BY <2>3 DEF UnitActions
<1>6. ASSUME NEW h \in Binding, NEW g \in Binding, h.on.event = g.on.event
      PROVE  h.on.kind = g.on.kind /\ Len(h.on.fields) = Len(g.on.fields)
  <2>1. /\ events[h.on.event] = [kind |-> h.on.kind, count |-> Len(h.on.fields)]
        /\ events[g.on.event] = [kind |-> g.on.kind, count |-> Len(g.on.fields)]
    BY <1>1 DEF HandlerLowered, Binding, Binds
  <2> DEFINE hh == [kind |-> h.on.kind, count |-> Len(h.on.fields)]
             gg == [kind |-> g.on.kind, count |-> Len(g.on.fields)]
  <2>2. hh.kind = gg.kind /\ hh.count = gg.count
    BY <2>1, <1>6
  <2> QED BY <2>2
<1> QED BY <1>2, <1>3, <1>5, <1>6 DEF UsesAgree

LEMMA RefusedActionIsIllegal ==
  ASSUME SourceOK, Provenance, NEW a \in UnitActions, ~ActionFits(a, <<>>)
  PROVE  ~UsesAgree
<1>1. a \in DOMAIN actions /\ actions[a].params # <<>>
  BY DEF ActionFits
<1>2. PICK h \in AllHandlers : h.do = a /\ actions[a].params = Params(h.on)
  BY <1>1 DEF Provenance, ActionAskedFor
<1>3. h \in Typed
  BY <1>1, <1>2 DEF Typed
<1>4. PICK s \in States : a \in ToSet(bodies[s].entries) \cup ToSet(bodies[s].exits)
  BY DEF UnitActions
<1> QED BY <1>2, <1>3, <1>4 DEF UsesAgree

LEMMA RefusedHandlerIsIllegal ==
  ASSUME SourceOK, Provenance, LoweredInOrder, todo # <<>>,
         NEW h \in AllHandlers, h = Head(todo), ~Fits(h)
  PROVE  ~(UsesAgree /\ TransitionsAreBare /\ EmptyPayloadsComeFirst)
<1>1. CASE ~IsTimer(h.on) /\ ~EventFits(h.on)
  <2>1. /\ h.on.event \in DOMAIN events /\ h.on.kind # "Unit"
        /\ events[h.on.event].kind # "Unit"
        /\ events[h.on.event] # [kind |-> h.on.kind, count |-> Len(h.on.fields)]
    BY <1>1 DEF EventFits
  <2>2. PICK g \in Binding : /\ g.on.event = h.on.event
                           /\ events[h.on.event] = [kind |-> g.on.kind,
                                                      count |-> Len(g.on.fields)]
    BY <2>1 DEF Provenance, EventAskedFor
  <2>3. h \in Binding
    BY <1>1, <2>1 DEF Binding, Binds
  <2>4. ~(g.on.kind = h.on.kind /\ Len(g.on.fields) = Len(h.on.fields))
    BY <2>1, <2>2
  <2> QED BY <2>2, <2>3, <2>4 DEF UsesAgree
<1>2. CASE h.do \in StateNames /\ ~MayTransition(h.on)
  BY <1>2 DEF TransitionsAreBare
<1>3. CASE h.do \notin StateNames /\ ~ActionFits(h.do, Params(h.on))
  <2>1. h.do \in DOMAIN actions /\ actions[h.do].params # Params(h.on)
    BY <1>3 DEF ActionFits
  <2>2. ActionAskedFor(h.do)
    BY <2>1 DEF Provenance
  <2>3. CASE h.do \in UnitActions /\ actions[h.do].params = <<>>
    <3>1. h \in Typed
      BY <2>1, <2>3 DEF Typed
    <3>2. PICK s \in States : h.do \in ToSet(bodies[s].entries) \cup ToSet(bodies[s].exits)
      BY <2>3 DEF UnitActions
    <3> QED BY <3>1, <3>2 DEF UsesAgree
  <2>4. CASE \E g \in AllHandlers : g.do = h.do /\ actions[h.do].params = Params(g.on)
    <3>1. PICK g \in AllHandlers : g.do = h.do /\ actions[h.do].params = Params(g.on)
      BY <2>4
    <3> QED BY <3>1, <2>1, <1>3 DEF UsesAgree
  <2> QED BY <2>2, <2>3, <2>4 DEF ActionAskedFor
<1>4. CASE h.do \notin StateNames /\ ActionFits(h.do, Params(h.on))
           /\ Binds(h.on) /\ TakenForUnit(h)
  <2>1. Params(h.on) = <<>> /\ h.do \in DOMAIN actions
    BY <1>4 DEF TakenForUnit, ActionFits
  <2>2. "on" \in DOMAIN h
    BY TriggerOfHandler DEF Clauses
  <2>3. BindsNothing(h)
    BY <1>4, <2>1, <2>2 DEF BindsNothing
  <2> QED BY <1>4, <2>1, <2>3, EmptyPayloadTooLate
<1> QED BY <1>1, <1>2, <1>3, <1>4 DEF Fits

-----------------------------------------------------------------------------
(* resolve_transitions finds a state for the name of one. *)

LEMMA StateNamedIsState ==
  ASSUME SourceOK, NEW n \in StateNames
  PROVE  StateNamed(n) \in States
<1> DEFINE Same == {s \in States : bodies[s].name = n}
<1>1. States = 1 .. Len(bodies) /\ Len(bodies) \in Nat /\ 1 \in States
  BY StatesAreNumbers DEF SourceOK
<1>2. Same \in SUBSET (0 .. Len(bodies)) /\ Same # {}
  BY <1>1 DEF StateNames
<1>3. PICK m \in Same : \A y \in Same : y <= m
  <2>1. \E m \in Same : \A y \in Same : y <= m
    <3> HIDE DEF Same
    <3> QED BY <1>1, <1>2, GreatestExists
  <2> QED BY <2>1
<1>4. bodies[m].name = n /\ \A r \in States : bodies[r].name = n => r <= m
  BY <1>3
<1>5. m \in States
  OBVIOUS
<1> QED BY <1>1, <1>4, <1>5 DEF StateNamed

GoalsOf ==
  [s \in States |-> [i \in DOMAIN bodies[s].handlers |->
     IF bodies[s].handlers[i].do \in StateNames
       THEN StateNamed(bodies[s].handlers[i].do) ELSE None]]

DefaultsOf ==
  [s \in States |-> IF bodies[s].default = None THEN None ELSE StateNamed(bodies[s].default)]

LEMMA ResolvedTypes ==
  ASSUME SourceOK, DefaultsAreStates
  PROVE  /\ DefaultsOf \in [States -> States \cup {None}]
         /\ \A s \in States : \A i \in DOMAIN bodies[s].handlers :
              /\ GoalsOf[s][i] \in States \cup {None}
              /\ GoalsOf[s][i] = None <=> bodies[s].handlers[i].do \notin StateNames
<1>1. \A n \in StateNames : StateNamed(n) \in States
  BY StateNamedIsState
<1>2. None \notin States
  BY StatesAreNumbers
<1> QED BY <1>1, <1>2 DEF DefaultsOf, GoalsOf, DefaultsAreStates

-----------------------------------------------------------------------------
(* validate_default_graph.  The walk's chain is the gray states in order;  *)
(* the defaults of the black ones stay among the black and form no cycle.  *)

Black == {s \in States : color[s] = "black"}

Acyclic(set) == \A closed \in (SUBSET set) \ {{}} : \E s \in closed : defaults[s] \notin closed

WalkOK ==
  /\ color \in [States -> {"white", "gray", "black"}]
  /\ chain \in Seq(States) /\ cur \in States \cup {None}
  /\ \A s \in States : color[s] = "gray" <=> s \in ToSet(chain)
  /\ \A i \in 1 .. Len(chain) - 1 : defaults[chain[i]] = chain[i + 1]
  /\ chain # <<>> => cur = defaults[chain[Len(chain)]]
  /\ \A s \in Black : defaults[s] \in Black \cup {None}
  /\ Acyclic(Black)

LEMMA WalkStarts ==
  ASSUME color' = [s \in States' |-> "white"], chain' = <<>>, cur' = None
  PROVE  WalkOK'
<1>1. Black' = {} /\ \A x : x \notin ToSet(<<>>)
  BY DEF Black, ToSet
<1>2. /\ color' \in [States' -> {"white", "gray", "black"}]
      /\ \A s \in States' : color'[s] # "gray"
  OBVIOUS
<1>3. chain' \in Seq(States') /\ Len(chain') = 0
  OBVIOUS
<1>4. Acyclic(Black)'
  BY <1>1 DEF Acyclic
<1> QED BY <1>1, <1>2, <1>3, <1>4 DEF WalkOK

LEMMA StartWalkKeeps ==
  ASSUME SourceOK, WalkOK, StartWalk
  PROVE  WalkOK'
<1>1. UNCHANGED <<bodies, defaults, color, chain>> /\ chain = <<>>
  BY DEF StartWalk, source
<1>2. cur' \in States
  <2>1. White \in SUBSET Nat /\ White # {}
    BY StatesAreNumbers DEF StartWalk, White
  <2>2. Min(White) \in White /\ \A y \in White : Min(White) <= y
    BY <2>1, MinIsElement
  <2>3. PICK m \in White : \A r \in White : m <= r
    BY <2>2
  <2>4. cur' \in White
    BY <2>3 DEF StartWalk
  <2> QED BY <2>4 DEF White
<1>3. States' = States /\ Black' = Black
  BY <1>1 DEF States, Black
<1> QED BY <1>1, <1>2, <1>3 DEF WalkOK, Acyclic

LEMMA AppendToWalk ==
  ASSUME NEW S, NEW q \in Seq(S), NEW x \in S
  PROVE  /\ Append(q, x) \in Seq(S) /\ Len(Append(q, x)) = Len(q) + 1
         /\ ToSet(Append(q, x)) = ToSet(q) \cup {x}
         /\ Append(q, x)[Len(q) + 1] = x
         /\ \A i \in 1 .. Len(q) : Append(q, x)[i] = q[i]
<1>1. /\ Append(q, x) \in Seq(S) /\ Len(Append(q, x)) = Len(q) + 1 /\ Len(q) \in Nat
      /\ Append(q, x)[Len(q) + 1] = x /\ \A i \in 1 .. Len(q) : Append(q, x)[i] = q[i]
      /\ DOMAIN q = 1 .. Len(q) /\ DOMAIN Append(q, x) = 1 .. Len(q) + 1
  OBVIOUS
<1> DEFINE p == Append(q, x)
<1> HIDE DEF p
<1>2. DOMAIN p = 1 .. Len(q) + 1 /\ p[Len(q) + 1] = x /\ \A i \in 1 .. Len(q) : p[i] = q[i]
  BY <1>1 DEF p
<1>3. ToSet(p) = ToSet(q) \cup {x}
  <2>1. \A i \in DOMAIN p : p[i] \in ToSet(q) \cup {x}
    BY <1>1, <1>2 DEF ToSet
  <2>2. \A i \in DOMAIN q : q[i] \in ToSet(p)
    BY <1>1, <1>2 DEF ToSet
  <2>3. x \in ToSet(p)
    BY <1>1, <1>2 DEF ToSet
  <2>4. \A y \in ToSet(p) : y \in ToSet(q) \cup {x}
    BY <2>1, Zenon DEF ToSet
  <2>5. \A y \in ToSet(q) : y \in ToSet(p)
    BY <2>2, Zenon DEF ToSet
  <2> QED BY <2>3, <2>4, <2>5
<1> QED BY <1>1, <1>3 DEF p

LEMMA FollowKeeps ==
  ASSUME SourceOK, WalkOK, defaults \in [States -> States \cup {None}], Follow
  PROVE  WalkOK'
<1>0. None \notin States
  BY StatesAreNumbers
<1>1. /\ cur \in States /\ color[cur] = "white"
      /\ color' = [color EXCEPT ![cur] = "gray"] /\ chain' = Append(chain, cur)
      /\ cur' = defaults[cur] /\ UNCHANGED <<bodies, defaults>>
  BY DEF WalkOK, Follow, source
<1>2. States' = States
  BY <1>1 DEF States
<1>3. color' \in [States -> {"white", "gray", "black"}]
  BY <1>1 DEF WalkOK
<1>4. Black' = Black
  BY <1>1, <1>2 DEF Black, WalkOK
<1> DEFINE n == Len(chain)
<1>5. /\ chain' \in Seq(States) /\ Len(chain') = n + 1 /\ n \in Nat
      /\ ToSet(chain') = ToSet(chain) \cup {cur}
      /\ chain'[n + 1] = cur /\ \A i \in 1 .. n : chain'[i] = chain[i]
  <2>1. chain \in Seq(States) /\ n \in Nat
    BY DEF WalkOK
  <2> QED BY <2>1, <1>1, AppendToWalk
<1>6. ASSUME NEW s \in States PROVE color'[s] = "gray" <=> s \in ToSet(chain')
  BY <1>1, <1>5 DEF WalkOK
<1>7. ASSUME NEW i \in 1 .. n PROVE defaults[chain'[i]] = chain'[i + 1]
  <2>1. CASE i = n
    <3>1. chain # <<>>
      BY <2>1, <1>7
    <3>2. cur = defaults[chain[n]]
      BY <3>1 DEF WalkOK
    <3> QED BY <3>2, <2>1, <1>5
  <2>2. CASE i # n
    <3>1. i \in 1 .. n - 1 /\ i + 1 \in 1 .. n
      BY <2>2, <1>5
    <3>2. defaults[chain[i]] = chain[i + 1]
      BY <3>1 DEF WalkOK
    <3> QED BY <3>1, <3>2, <1>5
  <2> QED BY <2>1, <2>2
<1>8. cur' \in States \cup {None} /\ cur' = defaults[chain'[Len(chain')]]
  BY <1>1, <1>5
<1>9. \A i \in 1 .. Len(chain') - 1 : defaults[chain'[i]] = chain'[i + 1]
  BY <1>7, <1>5
<1> QED BY <1>1, <1>2, <1>3, <1>4, <1>5, <1>6, <1>8, <1>9 DEF WalkOK, Acyclic

LEMMA EndWalkKeeps ==
  ASSUME SourceOK, WalkOK, EndWalk
  PROVE  WalkOK'
<1>0. None \notin States
  BY StatesAreNumbers
<1> DEFINE n == Len(chain)
<1>1. /\ chain # <<>> /\ chain' = <<>> /\ cur' = None /\ UNCHANGED <<bodies, defaults>>
      /\ color' = [s \in States |-> IF s \in ToSet(chain) THEN "black" ELSE color[s]]
      /\ defaults[chain[n]] \in Black \cup {None}
  BY DEF EndWalk, source, WalkOK, Black
<1>2. /\ chain \in Seq(States) /\ n \in Nat /\ n \geq 1 /\ DOMAIN chain = 1 .. n
      /\ \A i \in 1 .. n : chain[i] \in States
  BY <1>1 DEF WalkOK
<1>3. States' = States
  BY <1>1 DEF States
<1>4. Black' = Black \cup ToSet(chain)
  <2>1. \A x \in ToSet(chain) : x \in States
    BY <1>2 DEF ToSet
  <2> QED BY <2>1, <1>1, <1>3 DEF Black
<1>5. color' \in [States -> {"white", "gray", "black"}]
  BY <1>1 DEF WalkOK
<1>6. \A s \in States : color'[s] = "gray" <=> s \in ToSet(chain')
  <2>1. \A s \in States : color'[s] # "gray"
    BY <1>1 DEF WalkOK
  <2>2. \A x : x \notin ToSet(<<>>)
    BY DEF ToSet
  <2> QED BY <1>1, <2>1, <2>2
<1>7. ASSUME NEW i \in 1 .. n
      PROVE  \/ i < n /\ defaults[chain[i]] = chain[i + 1]
             \/ i = n /\ defaults[chain[i]] \in Black \cup {None}
  <2>1. CASE i = n
    BY <2>1, <1>1
  <2>2. CASE i # n
    <3>1. i \in 1 .. n - 1 /\ i < n
      <4> HIDE DEF n
      <4> QED BY <2>2, <1>2
    <3>2. defaults[chain[i]] = chain[i + 1]
      BY <3>1 DEF WalkOK
    <3> QED BY <3>1, <3>2
  <2> QED BY <2>1, <2>2
<1>8. ASSUME NEW s \in Black' PROVE defaults[s] \in Black' \cup {None}
  <2>1. CASE s \in Black
    BY <2>1, <1>4 DEF WalkOK
  <2>2. CASE s \in ToSet(chain)
    <3>1. PICK i \in 1 .. n : s = chain[i]
      BY <2>2, <1>2 DEF ToSet
    <3>2. CASE i < n
      <4>1. i + 1 \in DOMAIN chain
        BY <3>2, <1>2
      <4>2. defaults[s] \in ToSet(chain)
        BY <4>1, <3>1, <3>2, <1>7 DEF ToSet
      <4> QED BY <4>2, <1>4
    <3> QED BY <3>1, <3>2, <1>7, <1>4
  <2> QED BY <2>1, <2>2, <1>4
<1>9. ASSUME NEW closed \in SUBSET (Black \cup ToSet(chain)), closed # {},
             \A s \in closed : defaults[s] \in closed
      PROVE  FALSE
  <2> DEFINE I == {i \in 1 .. n : chain[i] \in closed}
  <2>1. ASSUME I # {} PROVE closed \cap Black # {}
    <3>1. I \in SUBSET (0 .. n)
      BY <1>2
    <3>2. PICK m \in I : \A y \in I : y <= m
      <4>1. \E m \in I : \A y \in I : y <= m
        <5> HIDE DEF I
        <5> QED BY <2>1, <3>1, <1>2, GreatestExists
      <4> QED BY <4>1
    <3>3. m \in 1 .. n /\ chain[m] \in closed /\ defaults[chain[m]] \in closed
      BY <1>9
    <3>4. CASE m < n
      <4>1. m + 1 \in 1 .. n /\ chain[m + 1] \in closed
        <5>1. defaults[chain[m]] = chain[m + 1]
          BY <3>3, <3>4, <1>7
        <5> HIDE DEF n, I
        <5> QED BY <5>1, <3>3, <3>4, <1>2
      <4>2. m + 1 \in I
        BY <4>1
      <4> HIDE DEF I
      <4> QED BY <4>2, <3>2, <3>3
    <3>5. CASE m = n
      <4>1. defaults[chain[m]] \in Black \cup {None} /\ None \notin closed
        <5>1. \A x \in ToSet(chain) : x \in States
          BY <1>2 DEF ToSet
        <5> QED BY <3>3, <3>5, <1>7, <1>0, <5>1 DEF Black
      <4> QED BY <4>1, <3>3
    <3> QED BY <3>3, <3>4, <3>5
  <2>2. closed \cap Black # {}
    <3>1. CASE I = {}
      <4>1. closed \cap ToSet(chain) = {}
        BY <3>1, <1>2 DEF ToSet
      <4> QED BY <4>1, <1>9
    <3> QED BY <3>1, <2>1
  <2>3. PICK s \in closed \cap Black : defaults[s] \notin closed \cap Black
    BY <2>2 DEF WalkOK, Acyclic
  <2>4. defaults[s] \in closed /\ defaults[s] \in Black \cup {None}
    BY <2>3, <1>9 DEF WalkOK
  <2>5. None \notin closed
    <3>1. \A x \in ToSet(chain) : x \in States
      BY <1>2 DEF ToSet
    <3> QED BY <3>1, <1>0 DEF Black
  <2> QED BY <2>3, <2>4, <2>5
<1>10. Acyclic(Black)'
  <2>1. \A closed \in (SUBSET (Black \cup ToSet(chain))) \ {{}} :
          \E s \in closed : defaults[s] \notin closed
    BY <1>9
  <2>2. Black' = Black \cup ToSet(chain) /\ defaults' = defaults
    BY <1>1, <1>4
  <2> QED BY <2>1, <2>2 DEF Acyclic
<1>11. chain' \in Seq(States)
  BY <1>1
<1> QED BY <1>1, <1>3, <1>5, <1>6, <1>8, <1>10, <1>11 DEF WalkOK

(* A state met again on its own walk closes a cycle. *)
LEMMA CycleIsIllegal ==
  ASSUME SourceOK, WalkOK, defaults = DefaultsOf, FindCycle
  PROVE  ~DefaultsEnd
<1>0. None \notin States
  BY StatesAreNumbers
<1> DEFINE n == Len(chain)
<1>1. cur \in States /\ color[cur] = "gray"
  BY DEF FindCycle, WalkOK
<1>2. /\ chain \in Seq(States) /\ n \in Nat /\ DOMAIN chain = 1 .. n
      /\ \A i \in 1 .. n : chain[i] \in States
  BY DEF WalkOK
<1>3. PICK j \in 1 .. n : cur = chain[j]
  BY <1>1, <1>2 DEF WalkOK, ToSet
<1> DEFINE closed == {chain[i] : i \in j .. n}
<1>4. closed \in (SUBSET States) \ {{}}
  <2>1. j \in j .. n /\ \A i \in j .. n : chain[i] \in States
    BY <1>2, <1>3
  <2> QED BY <2>1
<1>5. ASSUME NEW i \in j .. n PROVE defaults[chain[i]] \in closed
  <2>1. CASE i = n
    <3>1. chain # <<>>
      BY <1>2, <1>3
    <3>2. defaults[chain[n]] = chain[j]
      BY <3>1, <1>3 DEF WalkOK
    <3> QED BY <3>2, <2>1, <1>2, <1>3
  <2>2. CASE i # n
    <3>1. i \in 1 .. n - 1 /\ i + 1 \in j .. n
      <4> HIDE DEF n, closed
      <4>1. n \in Nat /\ j \in 1 .. n /\ i \in j .. n
        BY <1>2
      <4> QED BY <4>1, <2>2
    <3>2. defaults[chain[i]] = chain[i + 1]
      BY <3>1 DEF WalkOK
    <3> QED BY <3>1, <3>2
  <2> QED BY <2>1, <2>2
<1>6. \A s \in closed : defaults[s] \in closed
  BY <1>5
<1> HIDE DEF closed
<1>7. ASSUME NEW s \in closed
      PROVE  bodies[s].default # None /\ StateNamed(bodies[s].default) \in closed
  <2>1. s \in States /\ defaults[s] \in closed /\ defaults[s] # None
    BY <1>0, <1>4, <1>6
  <2>2. defaults[s] = IF bodies[s].default = None THEN None ELSE StateNamed(bodies[s].default)
    BY <2>1 DEF DefaultsOf
  <2> QED BY <2>1, <2>2
<1> QED BY <1>4, <1>7 DEF DefaultsEnd

LEMMA WalkedMeansEnd ==
  ASSUME SourceOK, WalkOK, defaults = DefaultsOf, chain = <<>>, White = {}
  PROVE  DefaultsEnd
<1>0. None \notin States
  BY StatesAreNumbers
<1>1. Black = States
  <2>1. \A x : x \notin ToSet(<<>>)
    BY DEF ToSet
  <2> QED BY <2>1 DEF Black, White, WalkOK
<1>2. ASSUME NEW closed \in (SUBSET States) \ {{}}
      PROVE  \E s \in closed :
               bodies[s].default = None \/ StateNamed(bodies[s].default) \notin closed
  <2>1. PICK s \in closed : defaults[s] \notin closed
    BY <1>1 DEF WalkOK, Acyclic
  <2>2. defaults[s] = IF bodies[s].default = None THEN None ELSE StateNamed(bodies[s].default)
    BY DEF DefaultsOf
  <2> QED BY <2>1, <2>2
<1> QED BY <1>2 DEF DefaultsEnd

-----------------------------------------------------------------------------
(* The invariant of the whole macro, phase by phase. *)

LoweredPhases == {"resolve", "defaults", "validate", "generate", "done", "panicked"}

ResolvedPhases == LoweredPhases \ {"resolve"}

WalkedPhases == ResolvedPhases \ {"defaults"}

CheckedPhases == WalkedPhases \ {"validate"}

NotResolvedYet == goals = <<>> /\ defaults = <<>> /\ color = <<>> /\ chain = <<>> /\ cur = None

VerdictInv ==
  /\ phase \in {"parse", "lower", "resolve"} => NotResolvedYet
  /\ phase \notin {"parse", "rejected"} => ParseTreeValid
  /\ phase = "lower" => LoweredInOrder
  /\ phase \in LoweredPhases => UsesAgree /\ TransitionsAreBare /\ EmptyPayloadsComeFirst
  /\ phase \in ResolvedPhases =>
       DefaultsAreStates /\ goals = GoalsOf /\ defaults = DefaultsOf
  /\ phase = "defaults" => WalkOK
  /\ phase \in WalkedPhases => DefaultsEnd
  /\ phase \in CheckedPhases => Legal
  /\ phase = "rejected" => ~Legal

CompilerInv == SourceOK /\ LoweringInv /\ TypeOK /\ VerdictInv

(* Nothing a state declares on a trigger after leaving on it: the ids say  *)
(* it as the names do.                                                     *)
LEMMA ValidIsLegal ==
  ASSUME SourceOK, VerdictInv, phase = "validate"
  PROVE  Valid <=> Legal
<1>1. /\ ParseTreeValid /\ UsesAgree /\ TransitionsAreBare /\ DefaultsAreStates
      /\ EmptyPayloadsComeFirst /\ goals = GoalsOf /\ DefaultsEnd
  BY DEF VerdictInv, LoweredPhases, ResolvedPhases, WalkedPhases
<1>2. \A s \in States : \A i \in DOMAIN bodies[s].handlers :
        goals[s][i] = None <=> bodies[s].handlers[i].do \notin StateNames
  BY <1>1, ResolvedTypes
<1>3. (\A s \in States : TransitionComesLast(s)) <=> NothingAfterTransition
  BY <1>2 DEF TransitionComesLast, NothingAfterTransition
<1> QED BY <1>1, <1>3 DEF Valid, Legal, Consistent

LEMMA SameVerdict ==
  ASSUME UNCHANGED bodies
  PROVE  /\ ParseTreeValid' = ParseTreeValid /\ UsesAgree' = UsesAgree
         /\ TransitionsAreBare' = TransitionsAreBare
         /\ EmptyPayloadsComeFirst' = EmptyPayloadsComeFirst
         /\ DefaultsAreStates' = DefaultsAreStates /\ DefaultsEnd' = DefaultsEnd
         /\ Legal' = Legal /\ GoalsOf' = GoalsOf /\ DefaultsOf' = DefaultsOf
<1>1. \A n : StateNamed(n)' = StateNamed(n)
  BY SourceSame DEF StateNamed
<1>2. ParseTreeValid' = ParseTreeValid
  BY DEF ParseTreeValid
<1>3. UsesAgree' = UsesAgree
  BY SourceSame DEF UsesAgree
<1>4. TransitionsAreBare' = TransitionsAreBare
  BY SourceSame DEF TransitionsAreBare
<1>5. DefaultsAreStates' = DefaultsAreStates
  BY SourceSame DEF DefaultsAreStates
<1>6. DefaultsEnd' = DefaultsEnd
  BY <1>1, SourceSame DEF DefaultsEnd
<1>7. GoalsOf' = GoalsOf
  BY <1>1, SourceSame DEF GoalsOf
<1>8. DefaultsOf' = DefaultsOf
  BY <1>1, SourceSame DEF DefaultsOf
<1>9. UniqueNames' = UniqueNames /\ NothingAfterTransition' = NothingAfterTransition
  BY SourceSame DEF UniqueNames, NothingAfterTransition
<1>10. \A s : NotEmpty(s)' = NotEmpty(s) /\ FieldsDisjoint(s)' = FieldsDisjoint(s)
  BY SourceSame DEF NotEmpty, FieldsDisjoint
<1>11. Consistent' = Consistent
  BY <1>2, <1>3, <1>4, <1>5, <1>6, <1>9, <1>10, SourceSame DEF Consistent
<1>12. Legal' = Legal /\ EmptyPayloadsComeFirst' = EmptyPayloadsComeFirst
  BY <1>9, <1>11, UsesSame DEF Legal
<1> QED BY <1>2, <1>3, <1>4, <1>5, <1>6, <1>7, <1>8, <1>12

LEMMA InitEstablishes == Init => CompilerInv
<1> SUFFICES ASSUME Init PROVE CompilerInv
  OBVIOUS
<1> USE DEF Init, ParseInit
<1>1. SourceOK
  <2>1. NewBody(ChartName, None) \in Body
    BY NewBodyOK DEF AnyName
  <2>2. bodies \in Seq(Body) /\ Len(bodies) = 1 /\ open \in Seq(1 .. 1) /\ Len(open) = 1
    BY <2>1
  <2>3. States = {1}
    BY DEF States
  <2> QED BY <2>2, <2>3 DEF SourceOK
<1>2. LoweringInv
  <2>1. DOMAIN <<>> = {}
    OBVIOUS
  <2>2. Provenance
    BY <2>1, FS_EmptySet DEF Provenance
  <2> QED BY <2>2 DEF LoweringInv
<1>3. TypeOK
  <2>1. States = {1} /\ ToSet(open) = {1} /\ ToSet(<<>>) = {} /\ DOMAIN <<>> = {}
    <3>1. DOMAIN open = {1} /\ open[1] = 1
      OBVIOUS
    <3> QED BY <3>1 DEF States, ToSet
  <2> QED BY <2>1, FS_EmptySet DEF TypeOK, Phases
<1>4. VerdictInv
  BY DEF VerdictInv, NotResolvedYet, LoweredPhases, ResolvedPhases, WalkedPhases, CheckedPhases
<1> QED BY <1>1, <1>2, <1>3, <1>4 DEF CompilerInv

LEMMA SourceStays ==
  ASSUME SourceOK, UNCHANGED source
  PROVE  SourceOK'
BY SourceSame DEF SourceOK, source

LEMMA RejectKeeps ==
  ASSUME CompilerInv, ~Legal, Reject
  PROVE  CompilerInv'
<1>1. /\ UNCHANGED <<source, todo, ir, goals, defaults, walk>> /\ phase' = "rejected"
      /\ UNCHANGED <<bodies, open, durations, events, color, chain, cur>>
  BY DEF Reject, source, walk, ir
<1>2. SourceOK' /\ LoweringInv'
  BY <1>1, SourceStays, LoweringSame DEF CompilerInv
<1>3. TypeOK'
  BY <1>1, SourceSame DEF CompilerInv, TypeOK, Phases
<1>4. VerdictInv'
  BY <1>1, SameVerdict
    DEF VerdictInv, LoweredPhases, ResolvedPhases, WalkedPhases, CheckedPhases
<1> QED BY <1>2, <1>3, <1>4 DEF CompilerInv

LEMMA ParsingKeeps ==
  ASSUME CompilerInv, Parsing
  PROVE  CompilerInv'
<1>1. phase = "parse" /\ phase' = "parse" /\ UNCHANGED <<todo, ir, goals, defaults, walk>>
  BY DEF Parsing, Parse, Entry, Exit, Handle, During, DefaultTo, TerminateOn, OpenState,
         CloseState, Declare
<1>2. UNCHANGED <<todo, actions, events, durations, goals, defaults, color, chain, cur>>
  BY <1>1 DEF ir, walk
<1>3. SourceOK'
  BY ParseKeeps DEF CompilerInv, Parsing
<1>4. todo = <<>> /\ actions = <<>> /\ events = <<>> /\ durations = {} /\ DOMAIN <<>> = {}
  BY <1>1 DEF CompilerInv, LoweringInv
<1>5. LoweringInv'
  <2>1. Provenance'
    BY <1>2, <1>4, FS_EmptySet DEF Provenance
  <2> QED BY <1>1, <1>2, <1>4, <2>1 DEF LoweringInv
<1>6. NotResolvedYet /\ NotResolvedYet'
  BY <1>1, <1>2 DEF CompilerInv, VerdictInv, NotResolvedYet
<1>7. TypeOK'
  <2>1. ToSet(open') \subseteq States' /\ ToSet(<<>>) = {}
    BY <1>3, StatesAreNumbers DEF SourceOK, ToSet, States
  <2>2. \A s \in States' \ {1} : bodies'[s].parent \in 1 .. s - 1
    BY <1>3 DEF SourceOK
  <2> QED BY <1>1, <1>2, <1>4, <1>6, <2>1, <2>2, FS_EmptySet DEF TypeOK, Phases, NotResolvedYet
<1>8. VerdictInv'
  BY <1>1, <1>6
    DEF VerdictInv, LoweredPhases, ResolvedPhases, WalkedPhases, CheckedPhases
<1> QED BY <1>3, <1>5, <1>7, <1>8 DEF CompilerInv

LEMMA EndOfInputKeeps ==
  ASSUME CompilerInv, EndOfInput
  PROVE  CompilerInv'
<1>1. CASE ~ParseTreeValid /\ Reject
  BY <1>1, RejectKeeps DEF Legal, Consistent
<1>2. CASE /\ ParseTreeValid /\ phase' = "lower" /\ todo' = AllUses
           /\ UNCHANGED <<source, ir, goals, defaults, walk>>
  <2>0. /\ phase = "parse"
        /\ UNCHANGED <<bodies, open, actions, events, durations, goals, defaults, color, chain, cur>>
    BY <1>2 DEF EndOfInput, source, ir, walk
  <2>1. SourceOK' /\ SourceOK
    BY <1>2, SourceStays DEF CompilerInv
  <2>2. actions = <<>> /\ events = <<>> /\ durations = {} /\ DOMAIN <<>> = {}
    BY <2>0 DEF CompilerInv, LoweringInv
  <2>3. Provenance'
    BY <1>2, <2>0, <2>1, <2>2, AllUsesAreListed, SourceSame, FS_EmptySet DEF Provenance
  <2>4. Interned'
    BY <1>2, <2>0, <2>1, AllUsesAreListed, SourceSame DEF Interned
  <2>5. LoweringInv'
    BY <1>2, <2>3, <2>4 DEF LoweringInv
  <2>6. TypeOK'
    BY <1>2, <2>0, SourceSame DEF CompilerInv, TypeOK, Phases
  <2>7. LoweredInOrder'
    BY <1>2, <2>0, <2>1, <2>2, OrderStarts
  <2>8. VerdictInv'
    BY <1>2, <2>0, <2>7, SameVerdict DEF CompilerInv, VerdictInv, NotResolvedYet,
       LoweredPhases, ResolvedPhases, WalkedPhases, CheckedPhases
  <2> QED BY <2>1, <2>5, <2>6, <2>8 DEF CompilerInv
<1> QED BY <1>1, <1>2 DEF EndOfInput

(* An action of the lowering that goes on. *)
LEMMA LoweringGoesOn ==
  ASSUME CompilerInv, phase = "lower", phase' = "lower", LoweringInv', LoweredInOrder',
         UNCHANGED <<source, goals, defaults, walk>>
  PROVE  CompilerInv'
<1>1. UNCHANGED <<bodies, open, goals, defaults, color, chain, cur>>
  BY DEF source, walk
<1>2. SourceOK'
  BY SourceStays DEF CompilerInv
<1>3. TypeOK'
  <2>1. /\ IsFiniteSet(durations') /\ \A x \in durations' : IsTimer(x)
        /\ \A e \in DOMAIN events' : events'[e].kind \in {"Unit", "Tuple", "Struct"}
    BY DEF LoweringInv, Provenance, EventAskedFor
  <2> QED BY <1>1, <2>1, SourceSame DEF CompilerInv, TypeOK, Phases
<1>4. VerdictInv'
  BY <1>1, SameVerdict DEF CompilerInv, VerdictInv, NotResolvedYet,
     LoweredPhases, ResolvedPhases, WalkedPhases, CheckedPhases
<1> QED BY <1>2, <1>3, <1>4 DEF CompilerInv

LEMMA LowerKeeps ==
  ASSUME CompilerInv, LowerAction \/ LowerHandler \/ LowerTerminate
  PROVE  CompilerInv'
<1>0. /\ SourceOK /\ LoweringInv /\ Provenance /\ phase = "lower" /\ todo # <<>>
      /\ LoweredInOrder
  BY DEF CompilerInv, VerdictInv, LoweringInv, LowerAction, LowerHandler, LowerTerminate
<1>1. CASE phase' = "lower"
  <2>1. LoweringInv'
    BY <1>0, LowerActionKeeps, LowerHandlerKeeps, LowerTerminateKeeps
  <2>2. UNCHANGED <<source, goals, defaults, walk>>
    BY <1>1 DEF LowerAction, LowerHandler, LowerTerminate, Reject
  <2>3. LoweredInOrder'
    BY <1>0, <1>1, LoweringKeepsOrder
  <2> QED BY <1>0, <1>1, <2>1, <2>2, <2>3, LoweringGoesOn
<1>2. CASE phase' # "lower"
  <2>1. CASE LowerAction
    <3>1. PICK a \in UnitActions : Head(todo) = [action |-> a]
      BY <1>0, <2>1, KindOfUse DEF LowerAction
    <3>2. ~ActionFits(a, <<>>) /\ Reject
      BY <1>0, <1>2, <2>1, <3>1 DEF LowerAction
    <3> QED BY <1>0, <3>2, RefusedActionIsIllegal, RejectKeeps DEF Legal, Consistent
  <2>2. CASE LowerHandler
    <3>1. PICK h \in AllHandlers : Head(todo) = h
      BY <1>0, <2>2, KindOfUse DEF LowerHandler
    <3>2. ~Fits(h) /\ Reject
      BY <1>0, <1>2, <2>2, <3>1 DEF LowerHandler
    <3> QED BY <1>0, <3>2, <3>1, RefusedHandlerIsIllegal, RejectKeeps DEF Legal, Consistent
  <2>3. CASE LowerTerminate
    BY <1>0, <1>2, <2>3 DEF LowerTerminate
  <2> QED BY <2>1, <2>2, <2>3
<1> QED BY <1>1, <1>2

LEMMA LoweredKeeps ==
  ASSUME CompilerInv, Lowered
  PROVE  CompilerInv'
<1>0. /\ phase = "lower" /\ todo = <<>> /\ phase' = "resolve"
      /\ UNCHANGED <<source, todo, ir>>
      /\ UNCHANGED <<bodies, open, durations, events, goals, defaults, color, chain, cur>>
  BY DEF Lowered, source, walk, ir
<1>1. SourceOK' /\ LoweringInv'
  BY <1>0, SourceStays, LoweringSame DEF CompilerInv
<1>2. TypeOK'
  BY <1>0, SourceSame DEF CompilerInv, TypeOK, Phases
<1>3. UsesAgree /\ TransitionsAreBare /\ EmptyPayloadsComeFirst
  BY <1>0, UsesAgreeWhenLowered, OrderEnds DEF CompilerInv, LoweringInv, VerdictInv
<1>4. VerdictInv'
  BY <1>0, <1>3, SameVerdict DEF CompilerInv, VerdictInv, NotResolvedYet,
     LoweredPhases, ResolvedPhases, WalkedPhases, CheckedPhases
<1> QED BY <1>1, <1>2, <1>4 DEF CompilerInv

LEMMA ResolveKeeps ==
  ASSUME CompilerInv, Resolve
  PROVE  CompilerInv'
<1>1. CASE (\E s \in States : bodies[s].default \notin StateNames \cup {None}) /\ Reject
  BY <1>1, RejectKeeps DEF Legal, Consistent, DefaultsAreStates
<1>2. CASE /\ DefaultsAreStates /\ goals' = GoalsOf /\ defaults' = DefaultsOf
           /\ color' = [s \in States |-> "white"] /\ phase' = "defaults"
           /\ UNCHANGED <<source, todo, ir, chain, cur>>
  <2>0. /\ phase = "resolve" /\ UNCHANGED <<bodies, open, events, durations>>
        /\ todo = <<>>
    BY <1>2 DEF Resolve, source, ir, CompilerInv, LoweringInv
  <2>1. SourceOK /\ SourceOK' /\ LoweringInv'
    BY <1>2, <2>0, SourceStays, LoweringSame DEF CompilerInv
  <2>2. /\ DefaultsOf \in [States -> States \cup {None}]
        /\ \A s \in States : \A i \in DOMAIN bodies[s].handlers :
             GoalsOf[s][i] \in States \cup {None}
        /\ DOMAIN GoalsOf = States
        /\ \A s \in States : DOMAIN GoalsOf[s] = DOMAIN bodies[s].handlers
    BY <1>2, <2>1, ResolvedTypes DEF GoalsOf
  <2>3. chain = <<>> /\ cur = None
    BY <2>0 DEF CompilerInv, VerdictInv, NotResolvedYet
  <2>4. TypeOK'
    <3>1. /\ \A s \in DOMAIN defaults' : defaults'[s] \in States \cup {None}
          /\ \A s \in DOMAIN goals' : \A i \in DOMAIN goals'[s] :
               goals'[s][i] \in States \cup {None}
      BY <1>2, <2>2
    <3> QED BY <1>2, <2>0, <3>1, SourceSame DEF CompilerInv, TypeOK, Phases
  <2>5. WalkOK'
    <3>1. color' = [s \in States' |-> "white"] /\ chain' = <<>> /\ cur' = None
      BY <1>2, <2>0, <2>3, SourceSame
    <3> QED BY <3>1, WalkStarts
  <2>6. VerdictInv'
    BY <1>2, <2>0, <2>5, SameVerdict DEF CompilerInv, VerdictInv,
       LoweredPhases, ResolvedPhases, WalkedPhases, CheckedPhases
  <2> QED BY <2>1, <2>4, <2>6 DEF CompilerInv
<1>3. DOMAIN bodies = States
  BY DEF States
<1> QED BY <1>1, <1>2 DEF Resolve, DefaultsAreStates, GoalsOf, DefaultsOf

LEMMA WalkKeeps ==
  ASSUME CompilerInv, StartWalk \/ Follow \/ EndWalk
  PROVE  CompilerInv'
<1>0. /\ phase = "defaults" /\ phase' = "defaults" /\ UNCHANGED <<source, todo, ir>>
      /\ UNCHANGED <<bodies, open, events, durations, goals, defaults>>
      /\ SourceOK /\ todo = <<>>
  BY DEF StartWalk, Follow, EndWalk, source, ir, CompilerInv, LoweringInv
<1>1. SourceOK' /\ LoweringInv'
  BY <1>0, SourceStays, LoweringSame DEF CompilerInv
<1>2. WalkOK /\ DefaultsAreStates /\ defaults = DefaultsOf
  BY <1>0 DEF CompilerInv, VerdictInv, ResolvedPhases, LoweredPhases
<1>3. defaults \in [States -> States \cup {None}]
  BY <1>0, <1>2, ResolvedTypes
<1>4. WalkOK'
  BY <1>0, <1>2, <1>3, StartWalkKeeps, FollowKeeps, EndWalkKeeps
<1>5. TypeOK'
  <2>1. cur' \in States' \cup {None} /\ ToSet(chain') \subseteq States'
    BY <1>4 DEF WalkOK, ToSet
  <2> QED BY <1>0, <2>1, SourceSame DEF CompilerInv, TypeOK, Phases
<1>6. VerdictInv'
  BY <1>0, <1>4, SameVerdict DEF CompilerInv, VerdictInv,
     LoweredPhases, ResolvedPhases, WalkedPhases, CheckedPhases
<1> QED BY <1>1, <1>5, <1>6 DEF CompilerInv

LEMMA FindCycleKeeps ==
  ASSUME CompilerInv, FindCycle
  PROVE  CompilerInv'
<1>1. phase = "defaults" /\ Reject
  BY DEF FindCycle
<1>2. SourceOK /\ WalkOK /\ defaults = DefaultsOf
  BY <1>1 DEF CompilerInv, VerdictInv, ResolvedPhases, LoweredPhases
<1> QED BY <1>1, <1>2, CycleIsIllegal, RejectKeeps DEF Legal, Consistent

(* Passing on to the next pass, with a verdict on what was checked. *)
LEMMA AdvanceKeeps ==
  ASSUME CompilerInv, phase \in ResolvedPhases, phase' \in WalkedPhases,
         UNCHANGED <<source, todo, ir, goals, defaults, walk>>,
         DefaultsEnd, phase' \in CheckedPhases => Legal
  PROVE  CompilerInv'
<1>0. /\ UNCHANGED <<bodies, open, durations, events, goals, defaults, color, chain, cur>>
      /\ todo = <<>> /\ phase \notin {"parse", "rejected", "lower", "resolve"}
      /\ phase' \in {"validate", "generate", "done", "panicked"}
  BY DEF source, walk, ir, CompilerInv, LoweringInv,
         LoweredPhases, ResolvedPhases, WalkedPhases
<1>1. SourceOK' /\ LoweringInv'
  BY <1>0, SourceStays, LoweringSame DEF CompilerInv
<1>2. TypeOK'
  BY <1>0, SourceSame DEF CompilerInv, TypeOK, Phases
<1>3. VerdictInv'
  <2>1. /\ ParseTreeValid' /\ UsesAgree' /\ TransitionsAreBare' /\ DefaultsAreStates'
        /\ EmptyPayloadsComeFirst' /\ goals' = GoalsOf' /\ defaults' = DefaultsOf' /\ DefaultsEnd'
    BY <1>0, SameVerdict DEF CompilerInv, VerdictInv,
       LoweredPhases, ResolvedPhases, WalkedPhases
  <2>2. phase' \in CheckedPhases => Legal'
    BY <1>0, SameVerdict
  <2> QED BY <1>0, <2>1, <2>2 DEF VerdictInv
<1> QED BY <1>1, <1>2, <1>3 DEF CompilerInv

LEMMA DefaultsWalkedKeeps ==
  ASSUME CompilerInv, DefaultsWalked
  PROVE  CompilerInv'
<1>0. /\ phase = "defaults" /\ phase' = "validate" /\ chain = <<>> /\ White = {}
      /\ UNCHANGED <<source, todo, ir, goals, defaults, walk>>
  BY DEF DefaultsWalked
<1>1. SourceOK /\ WalkOK /\ defaults = DefaultsOf
  BY <1>0 DEF CompilerInv, VerdictInv, ResolvedPhases, LoweredPhases
<1>2. DefaultsEnd
  BY <1>0, <1>1, WalkedMeansEnd
<1> QED BY <1>0, <1>2, AdvanceKeeps
      DEF CheckedPhases, WalkedPhases, ResolvedPhases, LoweredPhases

LEMMA ValidateKeeps ==
  ASSUME CompilerInv, Validate
  PROVE  CompilerInv'
<1>0. SourceOK /\ VerdictInv /\ phase = "validate" /\ DefaultsEnd
  BY DEF Validate, CompilerInv, VerdictInv, WalkedPhases, ResolvedPhases, LoweredPhases
<1>1. CASE ~Valid /\ Reject
  BY <1>0, <1>1, ValidIsLegal, RejectKeeps
<1>2. CASE /\ Valid /\ phase' = "generate"
           /\ UNCHANGED <<source, todo, ir, goals, defaults, walk>>
  BY <1>0, <1>2, ValidIsLegal, AdvanceKeeps
    DEF CheckedPhases, WalkedPhases, ResolvedPhases, LoweredPhases
<1> QED BY <1>1, <1>2 DEF Validate

LEMMA GenerateKeeps ==
  ASSUME CompilerInv, Generate
  PROVE  CompilerInv'
<1>0. /\ phase = "generate" /\ phase' \in {"done", "panicked"}
      /\ UNCHANGED <<source, todo, ir, goals, defaults, walk>>
  BY DEF Generate
<1>1. DefaultsEnd /\ Legal
  BY <1>0 DEF CompilerInv, VerdictInv,
     CheckedPhases, WalkedPhases, ResolvedPhases, LoweredPhases
<1> QED BY <1>0, <1>1, AdvanceKeeps
      DEF CheckedPhases, WalkedPhases, ResolvedPhases, LoweredPhases

LEMMA StutterKeeps == CompilerInv /\ UNCHANGED vars => CompilerInv'
<1> SUFFICES ASSUME CompilerInv, UNCHANGED vars PROVE CompilerInv'
  OBVIOUS
<1>0. /\ UNCHANGED <<source, todo, ir, phase, goals, defaults>>
      /\ UNCHANGED <<bodies, open, durations, events, color, chain, cur>>
  BY DEF vars, source, walk, ir
<1>1. SourceOK' /\ LoweringInv'
  BY <1>0, SourceStays, LoweringSame DEF CompilerInv
<1>2. TypeOK'
  BY <1>0, SourceSame DEF CompilerInv, TypeOK
<1>3. WalkOK => WalkOK'
  BY <1>0, SourceSame DEF WalkOK, Black, Acyclic
<1>4. LoweredInOrder => LoweredInOrder'
  BY <1>0, OrderSame DEF ir
<1>5. VerdictInv'
  BY <1>0, <1>3, <1>4, SameVerdict DEF CompilerInv, VerdictInv, NotResolvedYet
<1> QED BY <1>1, <1>2, <1>5 DEF CompilerInv

LEMMA CompilerKeeps == CompilerInv /\ [Next]_vars => CompilerInv'
BY ParsingKeeps, EndOfInputKeeps, LowerKeeps, LoweredKeeps, ResolveKeeps, WalkKeeps,
   FindCycleKeeps, DefaultsWalkedKeeps, ValidateKeeps, GenerateKeeps, StutterKeeps
   DEF Next, Check

(* What the passes keep, together. *)
THEOREM CompilerInvariant == Spec => []CompilerInv
BY InitEstablishes, CompilerKeeps, PTL DEF Spec

(* The types of the macro's tables, and that a state's parent is declared  *)
(* before it.                                                              *)
THEOREM CompilerTypeCorrect == Spec => []TypeOK
<1>1. CompilerInv => TypeOK
  BY DEF CompilerInv
<1> QED BY <1>1, CompilerInvariant, PTL

(* The macro rejects exactly the charts that are not Legal, for charts of  *)
(* any size: interning, the walk along the defaults and the scan of the    *)
(* handlers depend on the order of the declarations where Legal does, for  *)
(* the clauses of one state on one trigger and for payloads without        *)
(* fields, and nowhere else.                                               *)
THEOREM RejectsExactlyTheIllegal == Spec => []VerdictIsLegal
<1>1. CompilerInv => VerdictIsLegal
  BY DEF CompilerInv, VerdictInv, VerdictIsLegal,
         CheckedPhases, WalkedPhases, ResolvedPhases, LoweredPhases
<1> QED BY <1>1, CompilerInvariant, PTL

LEMMA EveryHandlerIsLowered ==
  ASSUME CompilerInv, AfterLowering
  PROVE  SourceOK /\ \A h \in AllHandlers : HandlerLowered(h)
<1>1. phase \notin {"parse", "lower", "rejected"}
  BY DEF AfterLowering
<1>2. todo = <<>> /\ Interned /\ SourceOK
  BY <1>1 DEF CompilerInv, LoweringInv
<1>3. \A x : x \notin ToSet(<<>>)
  BY DEF ToSet
<1> QED BY <1>2, <1>3 DEF Interned

(* Whichever use of an event comes first, its variant is matched with the  *)
(* pattern its payload needs.                                              *)
THEOREM PatternsAlwaysFit == Spec => []PatternsFit
<1>1. ASSUME CompilerInv, AfterLowering, NEW h \in Binding
      PROVE  events[h.on.event] = [kind |-> h.on.kind, count |-> Len(h.on.fields)]
  <2>1. h \in AllHandlers /\ HandlerLowered(h)
    BY <1>1, EveryHandlerIsLowered DEF Binding
  <2>2. ~IsTimer(h.on) /\ h.on.kind # "Unit"
    BY <1>1 DEF Binding, Binds
  <2> QED BY <2>1, <2>2 DEF HandlerLowered
<1>2. CompilerInv => PatternsFit
  BY <1>1 DEF PatternsFit
<1> QED BY <1>2, CompilerInvariant, PTL

(* No handler's action falls through run_action's arms because another use *)
(* of the action was declared before it.                                   *)
THEOREM PayloadsAlwaysReachActions == Spec => []PayloadsReachActions
<1>1. ASSUME CompilerInv, AfterLowering, NEW h \in AllHandlers, h.do \notin StateNames
      PROVE  Called(h.do, h.on)
  <2>1. HandlerLowered(h) /\ PayloadOK(h.on)
    BY <1>1, EveryHandlerIsLowered, TriggerOfHandler
  <2>2. actions[h.do].params = Params(h.on) /\ Variants(h.on) \subseteq actions[h.do].variants
    BY <1>1, <2>1 DEF HandlerLowered
  <2>3. CASE Params(h.on) = <<>>
    BY <2>2, <2>3 DEF Called
  <2>4. CASE Params(h.on) # <<>>
    BY <2>1, <2>2, <2>4 DEF Called, Variants, Params, Binds, PayloadOK
  <2> QED BY <2>3, <2>4
<1>2. CompilerInv => PayloadsReachActions
  BY <1>1 DEF PayloadsReachActions
<1> QED BY <1>2, CompilerInvariant, PTL
=============================================================================
