----------------------------- MODULE PathTables -----------------------------
(***************************************************************************)
(* How codegen lays the paths of a chart out (hsmc-macros/src/codegen.rs,  *)
(* generate): all exit and enter paths one after the other in one array,   *)
(* with the offsets where each begins, in integers of limited width; the   *)
(* checks the generated code makes on them; and the slices the machine     *)
(* takes out of them.  States are numbered from 1 in preorder.             *)
(***************************************************************************)
EXTENDS Chart

CONSTANT MaxOffset   \* u16::MAX

Size == Cardinality(State)

(* from * N + to *)
PairIndex(from, to) == (from - 1) * Size + to

PathSlices ==
  FlattenSeq([k \in 1 .. Size * Size |->
    LET from == ((k - 1) \div Size) + 1
        to == ((k - 1) % Size) + 1
    IN  <<ExitOf(from, to), EnterOf(from, to)>>])

TerminateSlices == [s \in 1 .. Size |-> Chain[s]]

(* __PATH_DATA and __TERMINATE_DATA *)
PathData == FlattenSeq(PathSlices)
TerminateData == FlattenSeq(TerminateSlices)

(* Mutant: `as u16` for try_into. *)
OffsetsNeverChecked == TRUE

(* `try_into().expect(..)`: the macro panics on an offset that is too big. *)
OffsetsFit == Len(PathData) <= MaxOffset /\ Len(TerminateData) <= MaxOffset

(* Where slice k ends, as it is stored. *)
End(slices, k) == Len(FlattenSeq(SubSeq(slices, 1, k))) % (MaxOffset + 1)

(* (start, mid, end) of a pair, (start, end) of a state. *)
PathRange(k) ==
  LET slices == PathSlices
  IN  <<End(slices, 2 * k - 2), End(slices, 2 * k - 1), End(slices, 2 * k)>>

TerminateRange(s) == <<End(TerminateSlices, s - 1), End(TerminateSlices, s)>>

-----------------------------------------------------------------------------
(* What the const block of the generated code asserts, as the verification *)
(* crate names it.                                                         *)

PathRangeInvariant ==
  \A k \in 1 .. Size * Size :
    LET r == PathRange(k)
    IN  r[1] <= r[2] /\ r[2] <= r[3] /\ r[3] <= Len(PathData)

TerminateRangeInvariant ==
  \A s \in 1 .. Size :
    LET r == TerminateRange(s) IN r[1] <= r[2] /\ r[2] <= Len(TerminateData)

StateIdsInBounds(data) == ToSet(data) \subseteq State

DefaultChildInBounds == \A s \in State : Default[s] \in State \cup {None}

PathTablesSound ==
  /\ PathRangeInvariant /\ TerminateRangeInvariant
  /\ StateIdsInBounds(PathData) /\ StateIdsInBounds(TerminateData)
  /\ DefaultChildInBounds

-----------------------------------------------------------------------------
(* The slices apply_path and do_terminate take. *)

Slice(data, start, end) == SubSeq(data, start + 1, end)

ExitSlice(from, to) ==
  LET r == PathRange(PairIndex(from, to)) IN Slice(PathData, r[1], r[2])

EnterSlice(from, to) ==
  LET r == PathRange(PairIndex(from, to)) IN Slice(PathData, r[2], r[3])

TerminateSlice(s) ==
  LET r == TerminateRange(s) IN Slice(TerminateData, r[1], r[2])
=============================================================================
