------------------------------ MODULE Vectors ------------------------------
(***************************************************************************)
(* What Vec::retain and Iterator::filter leave of a vector.  The predicate *)
(* is the set of the positions where it holds.                             *)
(***************************************************************************)
EXTENDS Naturals, Sequences

(* The entries at the positions of `keep`, in their order. *)
Retain(seq, keep) ==
  LET kept[n \in 0 .. Len(seq)] ==
        IF n = 0 THEN <<>>
        ELSE IF n \in keep THEN Append(kept[n - 1], seq[n])
        ELSE kept[n - 1]
  IN  kept[Len(seq)]
=============================================================================
