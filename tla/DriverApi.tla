------------------------------ MODULE DriverApi ------------------------------
(***************************************************************************)
(* What a driver does with events (the contract of src/drive/mod.rs), as   *)
(* the demo driver keeps it: an event is prepared, given to the kernel     *)
(* with all others that are, executed, and completed.  CQEs are completed  *)
(* in the order in which the kernel posted them, and one before the next   *)
(* is taken.  There are no locks, no full queues and no errors.            *)
(***************************************************************************)
EXTENDS Naturals, Sequences

CONSTANTS
  Task,     \* tasks, each with one event at a time
  NoTask    \* the absence of a task

VARIABLES
  prepared, \* tasks whose event was prepared and not submitted
  inflight, \* tasks whose event the kernel is executing
  cqes,     \* those it has finished, in that order
  cqe,      \* the one being completed
  done      \* tasks whose completion holds a result

vars == <<prepared, inflight, cqes, cqe, done>>

Init == prepared = {} /\ inflight = {} /\ cqes = <<>> /\ cqe = NoTask /\ done = {}

Idle(t) ==
  /\ t \notin prepared \cup inflight \cup done \cup {cqe}
  /\ \A i \in 1 .. Len(cqes) : cqes[i] # t

(* poll_prepare calls prepare.                                              *)
Prepare(t) ==
  /\ Idle(t)
  /\ prepared' = prepared \cup {t}
  /\ UNCHANGED <<inflight, cqes, cqe, done>>

Submit ==
  /\ inflight' = inflight \cup prepared
  /\ prepared' = {}
  /\ UNCHANGED <<cqes, cqe, done>>

Post(t) ==
  /\ t \in inflight
  /\ inflight' = inflight \ {t}
  /\ cqes' = Append(cqes, t)
  /\ UNCHANGED <<prepared, cqe, done>>

TakeCqe ==
  /\ cqe = NoTask /\ cqes # <<>>
  /\ cqe' = Head(cqes)
  /\ cqes' = Tail(cqes)
  /\ UNCHANGED <<prepared, inflight, done>>

(* drive::complete                                                          *)
Complete ==
  /\ cqe # NoTask
  /\ done' = done \cup {cqe}
  /\ cqe' = NoTask
  /\ UNCHANGED <<prepared, inflight, cqes>>

(* The ring finds the result.                                               *)
Return(t) ==
  /\ t \in done
  /\ done' = done \ {t}
  /\ UNCHANGED <<prepared, inflight, cqes, cqe>>

Next ==
  \/ \E t \in Task : Prepare(t) \/ Post(t) \/ Return(t)
  \/ Submit \/ TakeCqe \/ Complete

Spec == Init /\ [][Next]_vars
=============================================================================
