------------------------------- MODULE Buffer -------------------------------
(***************************************************************************)
(* src/buf.rs: the buffer that files, streams and Stdout keep between the  *)
(* user's bytes and the kernel.  A buffer is a record:                     *)
(*   box   the heap allocation, or NoBox before the first and after it was *)
(*         given to a Cancellation                                         *)
(*   pos   how much of the contents has been consumed                      *)
(*   cap   how much contents there is                                      *)
(*   src   where the contents come from: the position of the first byte if *)
(*         they were read, the user's slice if they are to be written      *)
(***************************************************************************)
EXTENDS Naturals

CONSTANTS
  NoBox,     \* no heap allocation
  NoSource   \* nothing was ever put in the buffer

MinOf(a, b) == IF a <= b THEN a ELSE b

Buf(box, pos, cap, src) == [box |-> box, pos |-> pos, cap |-> cap, src |-> src]

Fresh == Buf(NoBox, 0, 0, NoSource)

Exhausted(b) == b.pos >= b.cap

(* The length of buffered_from_read: nothing where there is no allocation.  *)
Unread(b) == IF b.box = NoBox \/ Exhausted(b) THEN 0 ELSE b.cap - b.pos

(* fill_buf up to the call of fill, one result for each box of free: only   *)
(* an exhausted buffer gets memory if it has none.                          *)
Boxed(b, free) ==
  IF Exhausted(b) /\ b.box = NoBox
    THEN {Buf(x, b.pos, b.cap, b.src) : x \in free} ELSE {b}

(* Faulty: what was consumed of the last contents is skipped in the new.     *)
FilledBehind(b, n, from) == Buf(b.box, b.pos, n, from)

(* fill_buf after a fill of n bytes.                                        *)
Filled(b, n, from) == Buf(b.box, 0, n, from)

(* fill_buf with the fill that every poll_write has, which copies a slice.  *)
Loaded(b, n, slice) == IF Exhausted(b) THEN Filled(b, n, slice) ELSE b

Consumed(b, n) == Buf(b.box, MinOf(b.pos + n, b.cap), b.cap, b.src)

(* Faulty: what was written stays to be written again.                      *)
Uncleared(b) == b

Cleared(b) == Buf(b.box, 0, 0, b.src)

(* cancellation: the allocation goes, the position and the capacity stay.   *)
Taken(b) == Buf(NoBox, b.pos, b.cap, b.src)
=============================================================================
