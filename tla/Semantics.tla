----------------------------- MODULE Semantics -----------------------------
(***************************************************************************)
(* The machine implements the statechart.  A reaction is one step of the   *)
(* statechart: it happens when the machine sets out on the path to the     *)
(* target, and the exits, entries and defaults that follow, and the user's *)
(* actions between them, change nothing of it.                             *)
(***************************************************************************)
EXTENDS Machine

CONSTANT Settled   \* where follow_defaults ends, from a state just entered

Above == [s \in State |-> Range(TerminatePath[s])]

(* compute_transition_paths: exactly a strict ancestor is not entered.     *)
ASSUME UpEntersNothing ==
  \A f, t \in State : EnterPath[f][t] = <<>> <=> t \in Above[f] \ {f}

(* A default leads on from where it ends, an up-transition excepted.       *)
ASSUME SettledRule ==
  \A s \in State : LET d == DefaultChild[s] IN
    /\ Settled[s] \in State
    /\ Settled[s] = IF d = None THEN s
                    ELSE IF d \in Above[s] \ {s} THEN d ELSE Settled[d]

(* Where the path being walked will end: with nothing to enter it goes up. *)
Arriving == IF enters = <<>> THEN target ELSE Settled[target]

place ==
  IF phase = "defaults" THEN Settled[current]
  ELSE IF Moving /\ target # None THEN Arriving ELSE current

goal == IF phase = "handler" THEN target ELSE None

ending == Moving /\ target = None

Abstract == INSTANCE Statechart WITH inbox <- queue, over <- terminated

(* Whatever is emitted, fires, overflows or is interrupted on the way, the *)
(* machine rests where the chart says, takes events in order, each once,   *)
(* and reacts to one at a time (run_handlers, apply_path, follow_defaults, *)
(* do_terminate).                                                          *)
ImplementsStatechart == Abstract!Spec
=============================================================================
