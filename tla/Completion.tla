----------------------------- MODULE Completion -----------------------------
(***************************************************************************)
(* The completion object of src/ring/completion.rs, seen through its API:  *)
(* every call (new, check, cancel, complete) takes effect in one step.     *)
(*                                                                         *)
(* A Completion is a pointer to a heap object shared by two parties: the   *)
(* Ring that polls it and io-uring, which holds the object's address as    *)
(* the user_data of an SQE.  Addresses are recycled: a freed one may be    *)
(* handed out again by the allocator at once.                              *)
(*                                                                         *)
(* Module Ring uses these steps as the completion operations of its own    *)
(* actions; module CompletionLock shows that the mutex-protected code      *)
(* implements them.                                                        *)
(***************************************************************************)

CONSTANTS
  Addr,     \* heap addresses a completion may be allocated at
  Task,     \* tasks, identified with the wakers that wake them
  NoTask    \* the absence of a waker

VARIABLES
  cell,     \* cell[a]: the State stored at a, "Free" when a is not allocated
  waker,    \* waker[a]: the waker of State::Submitted, NoTask in other states
  kern,     \* kern[a]: io-uring's interest in a (see KernState)
  notified  \* pairs <<a, t>>: task t was woken through a and has not run since

vars == <<cell, waker, kern, notified>>

CellState == {"Free", "Submitted", "Completed", "Cancelled"}

(* "owned": an SQE naming a is in the queue or is being executed, and the  *)
(* event's data is the kernel's; "posted": its CQE waits to be processed.  *)
KernState == {"none", "owned", "posted"}

TypeOK ==
  /\ cell \in [Addr -> CellState]
  /\ waker \in [Addr -> Task \cup {NoTask}]
  /\ kern \in [Addr -> KernState]
  /\ notified \subseteq Addr \X Task

Init ==
  /\ cell = [a \in Addr |-> "Free"]
  /\ waker = [a \in Addr |-> NoTask]
  /\ kern = [a \in Addr |-> "none"]
  /\ notified = {}

-----------------------------------------------------------------------------
(* Completion::new, called by the driver's prepare callback, which stores   *)
(* the new address in the SQE: from here on the kernel side refers to it.   *)
New(a, t) ==
  /\ cell[a] = "Free"
  /\ cell' = [cell EXCEPT ![a] = "Submitted"]
  /\ waker' = [waker EXCEPT ![a] = t]
  /\ kern' = [kern EXCEPT ![a] = "owned"]
  /\ UNCHANGED notified

(* check on a Submitted object: it now wakes the task of the latest poll.   *)
CheckPending(a, t) ==
  /\ cell[a] = "Submitted"
  /\ waker' = [waker EXCEPT ![a] = t]
  /\ UNCHANGED <<cell, kern, notified>>

(* Freeing a finished object: a wake-up through it has nothing left to say. *)
Dispose(a) ==
  /\ cell[a] = "Completed"
  /\ cell' = [cell EXCEPT ![a] = "Free"]
  /\ notified' = notified \ ({a} \X Task)
  /\ UNCHANGED <<waker, kern>>

(* check on a Completed object: the result is taken and the object freed.   *)
CheckReady(a) == Dispose(a)

(* Faulty: cancel frees the object, though a CQE will name it.              *)
CancelDetachFrees(a) ==
  /\ cell[a] = "Submitted"
  /\ cell' = [cell EXCEPT ![a] = "Free"]
  /\ waker' = [waker EXCEPT ![a] = NoTask]
  /\ UNCHANGED <<kern, notified>>

(* cancel on a Submitted object: the callback replaces the waker.           *)
CancelDetach(a) ==
  /\ cell[a] = "Submitted"
  /\ cell' = [cell EXCEPT ![a] = "Cancelled"]
  /\ waker' = [waker EXCEPT ![a] = NoTask]
  /\ UNCHANGED <<kern, notified>>

(* cancel on a Completed object: callback dropped, object freed.            *)
CancelFinished(a) == Dispose(a)

Cancel(a) == CancelDetach(a) \/ CancelFinished(a)

(* The kernel finishes the event and posts its CQE.                         *)
Post(a) ==
  /\ kern[a] = "owned"
  /\ kern' = [kern EXCEPT ![a] = "posted"]
  /\ UNCHANGED <<cell, waker, notified>>

(* Faulty: the result is stored and nobody is woken.                        *)
CompleteSilently(a) ==
  /\ kern[a] = "posted"
  /\ cell[a] = "Submitted"
  /\ cell' = [cell EXCEPT ![a] = "Completed"]
  /\ waker' = [waker EXCEPT ![a] = NoTask]
  /\ kern' = [kern EXCEPT ![a] = "none"]
  /\ UNCHANGED notified

(* complete on a Submitted object: store the result, wake the task.         *)
CompleteWake(a) ==
  /\ kern[a] = "posted"
  /\ cell[a] = "Submitted"
  /\ cell' = [cell EXCEPT ![a] = "Completed"]
  /\ waker' = [waker EXCEPT ![a] = NoTask]
  /\ kern' = [kern EXCEPT ![a] = "none"]
  /\ notified' = notified \cup {<<a, waker[a]>>}

(* complete on a Cancelled object: drop the callback and free the object.   *)
CompleteDrop(a) ==
  /\ kern[a] = "posted"
  /\ cell[a] = "Cancelled"
  /\ cell' = [cell EXCEPT ![a] = "Free"]
  /\ kern' = [kern EXCEPT ![a] = "none"]
  /\ UNCHANGED <<waker, notified>>

Complete(a) == CompleteWake(a) \/ CompleteDrop(a)

(* The executor runs woken tasks; their wake-ups S are used up.             *)
Run(S) ==
  /\ notified' = notified \ S
  /\ UNCHANGED <<cell, waker, kern>>

-----------------------------------------------------------------------------
Next ==
  \/ \E a \in Addr, t \in Task : New(a, t) \/ CheckPending(a, t)
  \/ \E a \in Addr : CheckReady(a) \/ Cancel(a) \/ Post(a) \/ Complete(a)
  \/ \E S \in SUBSET notified : Run(S)

(* The kernel completes what it was given, and CQEs are processed.          *)
Fairness ==
  \A a \in Addr : WF_vars(Post(a)) /\ WF_vars(Complete(a))

Spec == Init /\ [][Next]_vars /\ Fairness
=============================================================================
