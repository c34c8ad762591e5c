------------------------------ MODULE MCStdio ------------------------------
(* TLC instance of Stdio.                                                   *)
EXTENDS Stdio

CONSTANTS t1, t2, newline, none, b1, b2

Boxes == {b1, b2}
SameBoxes == Permutations(Boxes)
Texts == {t1, t2, newline, none}
Borrowed == {newline}

(* t2 is longer than the buffer; none is what poll_flush writes.            *)
Lengths == t1 :> 2 @@ t2 :> 3 @@ newline :> 1 @@ none :> 0
=============================================================================
