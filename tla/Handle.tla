------------------------------- MODULE Handle -------------------------------
(***************************************************************************)
(* What File, TcpStream, TcpListener and UnixListener have in common: a    *)
(* descriptor, a Ring, the operation that was last polled ("active"), and  *)
(* the rule that polling another one cancels what is in flight.            *)
(*                                                                         *)
(* A handle is polled through a pinned mutable reference, so its polls are *)
(* steps; between them the user may do anything, and the kernel goes on    *)
(* with what it was given, cancelled or not.                               *)
(***************************************************************************)
EXTENDS IoRing, Buffer

CONSTANTS
  Box,      \* heap allocations
  Err       \* any error as the result of an event

VARIABLES
  active,   \* the Op; "Gone" when there is no handle, "Std" if it was made one
            \* of the standard library
  fd,       \* the descriptor the handle was made with: "open" or "closed"
  orphans   \* cancelled events the kernel still has, with what is kept for them

handleVars == <<event, result, active, fd, orphans>>

(* An event: the operation, the memory it works on, what is kept alive for  *)
(* it once it is cancelled, the file position, the length and the slice.    *)
Event(op, box, at, len, src) ==
  [op |-> op, box |-> box, keeps |-> NoBox, at |-> at, len |-> len, src |-> src]

HandleInit ==
  RingInit /\ active = "Gone" /\ fd = "closed" /\ orphans = {}

Begin == active' = "Nothing" /\ fd' = "open"

-----------------------------------------------------------------------------
Over == {"Closed", "Gone", "Std"}

Switches(op) == active \notin {"Nothing", op}

(* A cancelled event, with box for its callback to keep.  Whose bytes it    *)
(* writes is nobody's concern any more.                                     *)
Kept(e, box) ==
  [op |-> e.op, box |-> e.box, keeps |-> box, at |-> e.at, len |-> e.len,
   src |-> NoSource]

(* What Ring::cancel leaves with the kernel, if the callback keeps box.     *)
Cancelled(box) ==
  IF event # NoEvent /\ result = NoResult THEN {Kept(event, box)} ELSE {}

(* Faulty: the cancellation is not given the memory.                        *)
GuardOpKeepsNothing(op, box) ==
  /\ active \notin Over
  /\ active' = op
  /\ orphans' = orphans \cup (IF Switches(op) THEN Cancelled(NoBox) ELSE {})

(* guard_op: a closed handle panics; a poll of another operation cancels    *)
(* the one in flight, with a callback that keeps box.                       *)
GuardOp(op, box) ==
  /\ active \notin Over
  /\ active' = op
  /\ orphans' = orphans \cup (IF Switches(op) THEN Cancelled(box) ELSE {})

Current(op) == IF Switches(op) THEN NoEvent ELSE event

(* Ring::poll, after guard_op, that returns Pending: event e is prepared if *)
(* none is in flight and the driver is ready.                               *)
PollPending(op, e) ==
  /\ Current(op) = NoEvent \/ result = NoResult
  /\ event' \in IF Current(op) = NoEvent THEN {NoEvent, e} ELSE {event}
  /\ result' = NoResult

(* Ring::poll, after guard_op, that returns the result.                     *)
PollReady(op) == Current(op) # NoEvent /\ Return

-----------------------------------------------------------------------------
ClosePending(box) ==
  GuardOp("Close", box) /\ PollPending("Close", Event("Close", NoBox, 0, 0, NoSource))

(* Faulty: the close is not confirmed.                                      *)
CloseReadyUnconfirmed ==
  active = "Close" /\ PollReady("Close") /\ UNCHANGED <<active, orphans>>

(* poll_close, confirmed by confirm_close unless it failed.                 *)
CloseReady ==
  /\ active = "Close"
  /\ PollReady("Close")
  /\ active' = IF result = Err THEN "Close" ELSE "Closed"
  /\ UNCHANGED orphans

(* cancel, at the end of a handle: what is in flight is left with box.      *)
Release(box) ==
  /\ orphans' = orphans \cup Cancelled(box)
  /\ event' = NoEvent /\ result' = NoResult

(* Drop: closes the descriptor itself only if no operation was ever polled. *)
Drop(box) ==
  /\ active \notin {"Gone", "Std"}
  /\ active' = "Gone"
  /\ Release(box)
  /\ fd' = IF active = "Nothing" THEN "closed" ELSE fd

-----------------------------------------------------------------------------
(* The kernel closes the descriptor, even where it reports an error then.   *)
CloseOutcome ==
  {[res |-> 0, fd |-> "closed"], [res |-> Err, fd |-> "closed"], [res |-> Err, fd |-> fd]}

(* Memory the kernel works on is the handle's own, which is "mine", or is   *)
(* kept by the callback of the cancelled event; and it is no other's.       *)
LentAlive(mine) ==
  /\ event # NoEvent /\ result = NoResult => event.box \in {NoBox, mine}
  /\ \A o \in orphans :
       o.box # NoBox => /\ o.keeps = o.box
                        /\ o.box # mine
                        /\ \A p \in orphans : p.box = o.box => p = o
=============================================================================
