--------------------------- MODULE CompletionLock ---------------------------
(***************************************************************************)
(* src/ring/completion.rs at the granularity of its mutex and of the heap: *)
(* a call waits for the lock, moves the State out, acts on it, releases    *)
(* the lock, and only then frees the box.  Two parties run concurrently on *)
(* one object: its owner (the Ring whose `Completion' value it is) and the *)
(* threads that process CQEs (drive::complete is public: a driver may call *)
(* it from several).                                                       *)
(*                                                                         *)
(* The abstract view of the same operations is module Completion; Atomic   *)
(* below states that this module implements it.                            *)
(***************************************************************************)

CONSTANTS
  Addr,     \* heap addresses
  Task,     \* tasks, identified with the wakers that wake them
  Reaper,   \* threads that call drive::complete
  NoAddr,   \* the absence of an address
  NoTask    \* the absence of a waker

ASSUME SentinelAssumption == NoAddr \notin Addr /\ NoTask \notin Task

VARIABLES
  cell,     \* cell[a]: the contents of the heap object at a
  waker,    \* waker[a]: the waker of State::Submitted (or of a State moved out)
  lock,     \* lock[a]: whether the mutex at a is held
  kern,     \* kern[a]: io-uring's interest in a, as in module Completion
  owner,    \* owner[a]: where the owner of a's Completion value is
  saw,      \* saw[a]: the State the owner found, a local of check and cancel
  ctx,      \* ctx[a]: the task of the owner's latest poll
  rpc,      \* rpc[r]: where CQE-processing thread r is
  raddr,    \* raddr[r]: the user_data thread r is processing
  took,     \* took[r]: the State thread r moved out, a local of complete
  data,     \* data[a]: who holds the data the event shares with the kernel
  notified  \* pairs <<a, t>>: task t was woken through a and has not run since

ownerVars == <<owner, saw, ctx>>
reaperVars == <<rpc, raddr, took>>
vars == <<cell, waker, lock, kern, ownerVars, reaperVars, data, notified>>

Contents == {"Submitted", "Completed", "Cancelled", "Empty"}
KernState == {"none", "owned", "posted"}

(* "none": no Completion value; "held": stored in a Ring; "check" and       *)
(* "cancel": in the call, before the lock; "checking" and "canceling": lock *)
(* held; "free": lock released, the box about to be dropped.                *)
OwnerState ==
  {"none", "held", "check", "checking", "cancel", "canceling", "free"}

(* "lock": in complete, before the lock; "completing": State moved out;     *)
(* "waking": result stored, about to wake; "free": about to drop the box.   *)
ReaperState == {"idle", "lock", "completing", "waking", "free"}

(* "lent": in the event, lent to the kernel; "callback": in the Cancellation *)
(* stored in the object; "returned" to the user with the result; "dropped". *)
DataState == {"none", "lent", "callback", "returned", "dropped"}

TypeOK ==
  /\ cell \in [Addr -> Contents \cup {"Free"}]
  /\ waker \in [Addr -> Task \cup {NoTask}]
  /\ lock \in [Addr -> BOOLEAN]
  /\ kern \in [Addr -> KernState]
  /\ owner \in [Addr -> OwnerState]
  /\ saw \in [Addr -> Contents]
  /\ ctx \in [Addr -> Task \cup {NoTask}]
  /\ rpc \in [Reaper -> ReaperState]
  /\ raddr \in [Reaper -> Addr \cup {NoAddr}]
  /\ took \in [Reaper -> Contents]
  /\ data \in [Addr -> DataState]
  /\ notified \subseteq Addr \X Task

Init ==
  /\ cell = [a \in Addr |-> "Free"]
  /\ waker = [a \in Addr |-> NoTask]
  /\ lock = [a \in Addr |-> FALSE]
  /\ kern = [a \in Addr |-> "none"]
  /\ owner = [a \in Addr |-> "none"]
  /\ saw = [a \in Addr |-> "Empty"]
  /\ ctx = [a \in Addr |-> NoTask]
  /\ rpc = [r \in Reaper |-> "idle"]
  /\ raddr = [r \in Reaper |-> NoAddr]
  /\ took = [r \in Reaper |-> "Empty"]
  /\ data = [a \in Addr |-> "none"]
  /\ notified = {}

-----------------------------------------------------------------------------
(* The owner: calls made by a Ring, on the task that polls it.              *)

(* Completion::new inside a poll by task t.                                 *)
New(a, t) ==
  /\ cell[a] = "Free"
  /\ cell' = [cell EXCEPT ![a] = "Submitted"]
  /\ waker' = [waker EXCEPT ![a] = t]
  /\ kern' = [kern EXCEPT ![a] = "owned"]
  /\ owner' = [owner EXCEPT ![a] = "held"]
  /\ ctx' = [ctx EXCEPT ![a] = t]
  /\ data' = [data EXCEPT ![a] = "lent"]
  /\ UNCHANGED <<lock, saw, reaperVars, notified>>

(* Task t polls and calls check with its own waker.                         *)
CheckCall(a, t) ==
  /\ owner[a] = "held"
  /\ owner' = [owner EXCEPT ![a] = "check"]
  /\ ctx' = [ctx EXCEPT ![a] = t]
  /\ notified' = notified \ {<<a, t>>}
  /\ UNCHANGED <<cell, waker, lock, kern, saw, reaperVars, data>>

(* self.state.lock(), then mem::replace(&mut *state, State::Empty).         *)
CheckLock(a) ==
  /\ owner[a] = "check"
  /\ ~lock[a]
  /\ lock' = [lock EXCEPT ![a] = TRUE]
  /\ saw' = [saw EXCEPT ![a] = cell[a]]
  /\ cell' = [cell EXCEPT ![a] = "Empty"]
  /\ owner' = [owner EXCEPT ![a] = "checking"]
  /\ UNCHANGED <<waker, kern, ctx, reaperVars, data, notified>>

(* Faulty: check keeps the first waker, whichever task polls.               *)
CheckPendingKeepsWaker(a) ==
  /\ owner[a] = "checking"
  /\ saw[a] = "Submitted"
  /\ cell' = [cell EXCEPT ![a] = "Submitted"]
  /\ lock' = [lock EXCEPT ![a] = FALSE]
  /\ owner' = [owner EXCEPT ![a] = "held"]
  /\ saw' = [saw EXCEPT ![a] = "Empty"]
  /\ UNCHANGED <<waker, kern, ctx, reaperVars, data, notified>>

(* Not complete: put Submitted back with a waker that wakes the polling     *)
(* task, release the lock and hand the Completion back (Err(self)).         *)
CheckPending(a) ==
  /\ owner[a] = "checking"
  /\ saw[a] = "Submitted"
  /\ cell' = [cell EXCEPT ![a] = "Submitted"]
  /\ waker' = [waker EXCEPT ![a] = ctx[a]]
  /\ lock' = [lock EXCEPT ![a] = FALSE]
  /\ owner' = [owner EXCEPT ![a] = "held"]
  /\ saw' = [saw EXCEPT ![a] = "Empty"]
  /\ UNCHANGED <<kern, ctx, reaperVars, data, notified>>

(* Faulty: check copies the result and leaves the object in place.          *)
CheckReadyCopies(a) ==
  /\ owner[a] = "checking"
  /\ saw[a] = "Completed"
  /\ cell' = [cell EXCEPT ![a] = "Completed"]
  /\ lock' = [lock EXCEPT ![a] = FALSE]
  /\ owner' = [owner EXCEPT ![a] = "held"]
  /\ data' = [data EXCEPT ![a] = "returned"]
  /\ UNCHANGED <<waker, kern, saw, ctx, reaperVars, notified>>

(* Complete: the result, and with it the event's data, goes to the user.    *)
CheckReady(a) ==
  /\ owner[a] = "checking"
  /\ saw[a] = "Completed"
  /\ lock' = [lock EXCEPT ![a] = FALSE]
  /\ owner' = [owner EXCEPT ![a] = "free"]
  /\ data' = [data EXCEPT ![a] = "returned"]
  /\ UNCHANGED <<cell, waker, kern, saw, ctx, reaperVars, notified>>

(* The Completion value is gone, and with it the call's locals.             *)
LeaveCall(a) ==
  /\ saw' = [saw EXCEPT ![a] = "Empty"]
  /\ ctx' = [ctx EXCEPT ![a] = NoTask]

CancelCall(a) ==
  /\ owner[a] = "held"
  /\ owner' = [owner EXCEPT ![a] = "cancel"]
  /\ UNCHANGED <<cell, waker, lock, kern, saw, ctx, reaperVars, data, notified>>

(* cancel looks at the State in place (match &*state).                      *)
CancelLock(a) ==
  /\ owner[a] = "cancel"
  /\ ~lock[a]
  /\ lock' = [lock EXCEPT ![a] = TRUE]
  /\ saw' = [saw EXCEPT ![a] = cell[a]]
  /\ owner' = [owner EXCEPT ![a] = "canceling"]
  /\ UNCHANGED <<cell, waker, kern, ctx, reaperVars, data, notified>>

(* Faulty: cancel frees the object though io-uring still refers to it.      *)
CancelDetachFrees(a) ==
  /\ owner[a] = "canceling"
  /\ saw[a] = "Submitted"
  /\ data' = [data EXCEPT ![a] = "callback"]
  /\ lock' = [lock EXCEPT ![a] = FALSE]
  /\ owner' = [owner EXCEPT ![a] = "free"]
  /\ UNCHANGED <<cell, waker, kern, saw, ctx, reaperVars, notified>>

(* Faulty: cancel drops the callback instead of storing it.                 *)
CancelDetachDropsCallback(a) ==
  /\ owner[a] = "canceling"
  /\ saw[a] = "Submitted"
  /\ cell' = [cell EXCEPT ![a] = "Cancelled"]
  /\ waker' = [waker EXCEPT ![a] = NoTask]
  /\ data' = [data EXCEPT ![a] = "dropped"]
  /\ lock' = [lock EXCEPT ![a] = FALSE]
  /\ owner' = [owner EXCEPT ![a] = "none"]
  /\ LeaveCall(a)
  /\ UNCHANGED <<kern, reaperVars, notified>>

(* Still in the kernel: leave the callback in the object and let go of it.  *)
CancelDetach(a) ==
  /\ owner[a] = "canceling"
  /\ saw[a] = "Submitted"
  /\ cell' = [cell EXCEPT ![a] = "Cancelled"]
  /\ waker' = [waker EXCEPT ![a] = NoTask]
  /\ data' = [data EXCEPT ![a] = "callback"]
  /\ lock' = [lock EXCEPT ![a] = FALSE]
  /\ owner' = [owner EXCEPT ![a] = "none"]
  /\ LeaveCall(a)
  /\ UNCHANGED <<kern, reaperVars, notified>>

(* Already completed: the callback is dropped at once.                      *)
CancelFinished(a) ==
  /\ owner[a] = "canceling"
  /\ saw[a] = "Completed"
  /\ data' = [data EXCEPT ![a] = "dropped"]
  /\ lock' = [lock EXCEPT ![a] = FALSE]
  /\ owner' = [owner EXCEPT ![a] = "free"]
  /\ UNCHANGED <<cell, waker, kern, saw, ctx, reaperVars, notified>>

(* drop(ManuallyDrop::into_inner(self.state)), after the guard is gone.     *)
OwnerFree(a) ==
  /\ owner[a] = "free"
  /\ cell' = [cell EXCEPT ![a] = "Free"]
  /\ owner' = [owner EXCEPT ![a] = "none"]
  /\ LeaveCall(a)
  /\ notified' = notified \ ({a} \X Task)
  /\ UNCHANGED <<waker, lock, kern, reaperVars, data>>

-----------------------------------------------------------------------------
(* io-uring and the threads that process its CQEs.                          *)

Post(a) ==
  /\ kern[a] = "owned"
  /\ kern' = [kern EXCEPT ![a] = "posted"]
  /\ UNCHANGED <<cell, waker, lock, ownerVars, reaperVars, data, notified>>

(* A thread takes a CQE off the queue and passes it to complete.            *)
Reap(r, a) ==
  /\ rpc[r] = "idle"
  /\ kern[a] = "posted"
  /\ kern' = [kern EXCEPT ![a] = "none"]
  /\ rpc' = [rpc EXCEPT ![r] = "lock"]
  /\ raddr' = [raddr EXCEPT ![r] = a]
  /\ UNCHANGED <<cell, waker, lock, ownerVars, took, data, notified>>

(* Faulty: complete goes ahead while the owner holds the lock.              *)
CompleteLockIgnoresOwner(r) ==
  /\ rpc[r] = "lock"
  /\ lock' = [lock EXCEPT ![raddr[r]] = TRUE]
  /\ took' = [took EXCEPT ![r] = cell[raddr[r]]]
  /\ cell' = [cell EXCEPT ![raddr[r]] = "Empty"]
  /\ rpc' = [rpc EXCEPT ![r] = "completing"]
  /\ UNCHANGED <<waker, kern, ownerVars, raddr, data, notified>>

(* self.state.lock(), then mem::replace(&mut *state, State::Empty).         *)
CompleteLock(r) ==
  /\ rpc[r] = "lock"
  /\ ~lock[raddr[r]]
  /\ lock' = [lock EXCEPT ![raddr[r]] = TRUE]
  /\ took' = [took EXCEPT ![r] = cell[raddr[r]]]
  /\ cell' = [cell EXCEPT ![raddr[r]] = "Empty"]
  /\ rpc' = [rpc EXCEPT ![r] = "completing"]
  /\ UNCHANGED <<waker, kern, ownerVars, raddr, data, notified>>

(* Faulty: the waker is given up before it is used.                         *)
CompleteStoreLosesWaker(r) ==
  /\ rpc[r] = "completing"
  /\ took[r] = "Submitted"
  /\ cell' = [cell EXCEPT ![raddr[r]] = "Completed"]
  /\ waker' = [waker EXCEPT ![raddr[r]] = NoTask]
  /\ rpc' = [rpc EXCEPT ![r] = "waking"]
  /\ UNCHANGED <<lock, kern, ownerVars, raddr, took, data, notified>>

(* Awaited: store the result.                                               *)
CompleteStore(r) ==
  /\ rpc[r] = "completing"
  /\ took[r] = "Submitted"
  /\ cell' = [cell EXCEPT ![raddr[r]] = "Completed"]
  /\ rpc' = [rpc EXCEPT ![r] = "waking"]
  /\ UNCHANGED <<waker, lock, kern, ownerVars, raddr, took, data, notified>>

(* complete returns to the loop that reads CQEs.                            *)
LeaveComplete(r) ==
  /\ rpc' = [rpc EXCEPT ![r] = "idle"]
  /\ raddr' = [raddr EXCEPT ![r] = NoAddr]
  /\ took' = [took EXCEPT ![r] = "Empty"]

(* Faulty: the result is stored and nobody is woken.                        *)
CompleteWithoutWake(r) ==
  /\ rpc[r] = "waking"
  /\ waker' = [waker EXCEPT ![raddr[r]] = NoTask]
  /\ lock' = [lock EXCEPT ![raddr[r]] = FALSE]
  /\ LeaveComplete(r)
  /\ UNCHANGED <<cell, kern, ownerVars, data, notified>>

(* waker.wake() runs under the lock, which the end of the function drops.   *)
CompleteWake(r) ==
  /\ rpc[r] = "waking"
  /\ notified' = notified \cup {<<raddr[r], waker[raddr[r]]>>}
  /\ waker' = [waker EXCEPT ![raddr[r]] = NoTask]
  /\ lock' = [lock EXCEPT ![raddr[r]] = FALSE]
  /\ LeaveComplete(r)
  /\ UNCHANGED <<cell, kern, ownerVars, data>>

(* Faulty: the callback is dropped and the box is not.                      *)
CompleteDropLeaks(r) ==
  /\ rpc[r] = "completing"
  /\ took[r] = "Cancelled"
  /\ data' = [data EXCEPT ![raddr[r]] = "dropped"]
  /\ lock' = [lock EXCEPT ![raddr[r]] = FALSE]
  /\ LeaveComplete(r)
  /\ UNCHANGED <<cell, waker, kern, ownerVars, notified>>

(* Interest was withdrawn: drop the callback and release the lock.          *)
CompleteDrop(r) ==
  /\ rpc[r] = "completing"
  /\ took[r] = "Cancelled"
  /\ data' = [data EXCEPT ![raddr[r]] = "dropped"]
  /\ lock' = [lock EXCEPT ![raddr[r]] = FALSE]
  /\ rpc' = [rpc EXCEPT ![r] = "free"]
  /\ UNCHANGED <<cell, waker, kern, ownerVars, raddr, took, notified>>

CompleteFree(r) ==
  /\ rpc[r] = "free"
  /\ cell' = [cell EXCEPT ![raddr[r]] = "Free"]
  /\ LeaveComplete(r)
  /\ UNCHANGED <<waker, lock, kern, ownerVars, data, notified>>

-----------------------------------------------------------------------------
Owner(a) ==
  \/ \E t \in Task : New(a, t) \/ CheckCall(a, t)
  \/ CheckLock(a) \/ CheckPending(a) \/ CheckReady(a)
  \/ CancelCall(a) \/ CancelLock(a) \/ CancelDetach(a) \/ CancelFinished(a)
  \/ OwnerFree(a)

Completer(r) ==
  \/ \E a \in Addr : Reap(r, a)
  \/ CompleteLock(r) \/ CompleteStore(r) \/ CompleteWake(r)
  \/ CompleteDrop(r) \/ CompleteFree(r)

Next ==
  \/ \E a \in Addr : Owner(a) \/ Post(a)
  \/ \E r \in Reaper : Completer(r)

(* The executor polls a future whose current task was woken.                *)
PollWoken(a) == \E t \in Task : <<a, t>> \in notified /\ CheckCall(a, t)

(* Threads keep running; the mutex is eventually fair (parking_lot) and the *)
(* completion queue is first in, first out, so acquiring the one and being  *)
(* taken off the other are strongly fair; the executor polls woken tasks;   *)
(* the kernel completes every event.  Nobody is obliged to start, to poll   *)
(* without being woken, or to cancel.                                       *)
Fairness ==
  /\ \A a \in Addr :
       /\ WF_vars(Post(a))
       /\ WF_vars(PollWoken(a))
       /\ SF_vars(CheckLock(a)) /\ SF_vars(CancelLock(a))
       /\ WF_vars(CheckPending(a) \/ CheckReady(a))
       /\ WF_vars(CancelDetach(a) \/ CancelFinished(a))
       /\ WF_vars(OwnerFree(a))
  /\ \A a \in Addr : SF_vars(\E r \in Reaper : Reap(r, a))
  /\ \A r \in Reaper :
       /\ SF_vars(CompleteLock(r))
       /\ WF_vars(CompleteStore(r) \/ CompleteWake(r))
       /\ WF_vars(CompleteDrop(r) \/ CompleteFree(r))

Spec == Init /\ [][Next]_vars /\ Fairness

-----------------------------------------------------------------------------
OwnerInLock(a) == owner[a] \in {"checking", "canceling"}
ReaperInLock(r) == rpc[r] \in {"completing", "waking"}

(* No party is inside a call on, or holds a reference to, an object that    *)
(* was freed: not the owner, not io-uring through user_data, not a thread   *)
(* that runs complete.  (The box is freed after the lock is released, so    *)
(* this rests on nobody else being left to take the lock.)                  *)
NoUseAfterFree ==
  \A a \in Addr : cell[a] = "Free" =>
    /\ owner[a] = "none"
    /\ kern[a] = "none"
    /\ \A r \in Reaper : raddr[r] # a

(* The unreachable!() arms of check, cancel and complete are unreachable:   *)
(* the owner only finds Submitted or Completed, complete only Submitted or  *)
(* Cancelled.                                                               *)
UnreachableArms ==
  /\ \A a \in Addr : OwnerInLock(a) => saw[a] \in {"Submitted", "Completed"}
  /\ \A r \in Reaper :
       ReaperInLock(r) => took[r] \in {"Submitted", "Cancelled"}

(* While the kernel may touch an event's data, the data is alive and out of *)
(* the user's reach: in the event being awaited or in the stored callback.  *)
KernelDataAlive ==
  \A a \in Addr : kern[a] = "owned" => data[a] \in {"lent", "callback"}

(* No lost wake-up: when a result is stored and the lock is released, the   *)
(* task of the owner's latest poll has been woken.                          *)
ResultWakesLatestTask ==
  \A a \in Addr :
    owner[a] = "held" /\ cell[a] = "Completed" /\ ~lock[a]
      => <<a, ctx[a]>> \in notified

(* No leak: an allocated object always has somebody who will free it.       *)
SomeoneFrees ==
  \A a \in Addr : cell[a] # "Free" =>
    \/ owner[a] # "none"
    \/ kern[a] # "none"
    \/ \E r \in Reaper : raddr[r] = a

(* The calls that return an event's data to the user, or drop it.           *)
Disposes(a) ==
  \/ CheckReady(a) \/ CancelFinished(a)
  \/ \E r \in Reaper : raddr[r] = a /\ CompleteDrop(r)

(* Every event's data is disposed of once: a call that returns it or drops  *)
(* it finds it still lent to the kernel or in the callback.                 *)
DisposedOnce ==
  [][\A a \in Addr : Disposes(a) => data[a] \in {"lent", "callback"}]_vars

(* Every completion object is freed in the end, whichever way the race      *)
(* between the owner and the CQE goes, though the owner need not poll again *)
(* unless it is woken.                                                      *)
EventuallyFreed == \A a \in Addr : cell[a] # "Free" ~> cell[a] = "Free"

-----------------------------------------------------------------------------
(* Refinement.  While a call has the State moved out, the abstract object   *)
(* is still in the state the call found; a call takes effect where it puts  *)
(* a State back, wakes, or frees.                                           *)
TakenBy(a) == {r \in Reaper : raddr[r] = a /\ rpc[r] \notin {"idle", "lock"}}

AbstractCell(a) ==
  IF owner[a] \in {"checking", "free"} THEN saw[a]
  ELSE IF TakenBy(a) # {} THEN took[CHOOSE r \in TakenBy(a) : TRUE]
  ELSE cell[a]

AbstractKern(a) ==
  IF \E r \in Reaper : raddr[r] = a THEN "posted" ELSE kern[a]

Api == INSTANCE Completion WITH
         cell <- [a \in Addr |-> AbstractCell(a)],
         kern <- [a \in Addr |-> AbstractKern(a)]

(* The mutex-protected code implements the one-step API of Completion.      *)
Atomic == Api!Spec
=============================================================================
