------------------------------- MODULE MCFile -------------------------------
(* TLC instance of File.                                                    *)
EXTENDS File, TLC

CONSTANTS s, none, b1, b2

Boxes == {b1, b2}
SameBoxes == Permutations(Boxes)
Slices == {s, none}

(* A slice longer than the buffer, and the empty one that poll_flush writes. *)
Lengths == s :> 3 @@ none :> 0
=============================================================================
