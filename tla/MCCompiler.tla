----------------------------- MODULE MCCompiler -----------------------------
(***************************************************************************)
(* All invocations with a few declarations in a few states: clauses on one *)
(* event without and with payloads of four forms, on timers that repeat    *)
(* and do not, lists, transitions up, down and to the state itself,        *)
(* defaults that may form cycles, names used twice, missing or meant for   *)
(* something else.                                                         *)
(***************************************************************************)
EXTENDS Compiler

CONSTANTS Chart, A, B, C, work, e, f

CNames == <<{}, {A}, {B}, {A, C}>>

CMaxItems == <<3, 3, 3, 2>>

CActions == {work}

Bare == [event |-> e, kind |-> "Unit", fields |-> <<>>]
Tuple == [event |-> e, kind |-> "Tuple", fields |-> <<"x">>]
Struct == [event |-> e, kind |-> "Struct", fields |-> <<"y">>]
Empty == [event |-> e, kind |-> "Tuple", fields |-> <<>>]
Other == [event |-> f, kind |-> "Struct", fields |-> <<"x">>]
After == [text |-> "t", repeat |-> FALSE]
Every == [text |-> "t", repeat |-> TRUE]

CHandlers ==
  {[on |-> Bare, do |-> <<work, B>>], [on |-> Bare, do |-> <<work>>],
   [on |-> Tuple, do |-> <<work>>], [on |-> Struct, do |-> <<work>>],
   [on |-> Tuple, do |-> <<B>>], [on |-> Other, do |-> <<work>>],
   [on |-> Empty, do |-> <<work>>],
   [on |-> After, do |-> <<Chart>>], [on |-> Every, do |-> <<A>>]}

CTargets == {A, B}

CTerminateEvents == {e}

CDurings == {[fn |-> work, fields |-> <<"f">>]}
=============================================================================
