------------------------ MODULE CompletionLockProofs ------------------------
(***************************************************************************)
(* Proofs about CompletionLock, for any addresses, tasks and CQE-processing *)
(* threads: its safety invariants hold, and each event's data is disposed  *)
(* of once.  They rest on one inductive invariant, IInv, which says for    *)
(* every object who may touch it in which of its states.                   *)
(***************************************************************************)
EXTENDS CompletionLock, TLAPS

(* The owner is outside of the lock and will find the object in place.      *)
Awaiting(a) == owner[a] \in {"held", "check", "cancel"}

(* The owner has moved out a State that was Submitted, and puts it back.    *)
PuttingBack(a) == owner[a] = "checking" /\ saw[a] = "Submitted"

At(r, a, where) == raddr[r] = a /\ rpc[r] \in where

(* The object's CQE has still to come, or to get the lock.                  *)
Pending(a) == kern[a] # "none" \/ \E r \in Reaper : At(r, a, {"lock"})

(* A CQE is delivered once, to one thread.                                  *)
RefInv ==
  /\ \A r \in Reaper : rpc[r] = "idle" <=> raddr[r] = NoAddr
  /\ \A r \in Reaper, q \in Reaper :
       raddr[r] = raddr[q] /\ raddr[r] # NoAddr => r = q
  /\ \A r \in Reaper, a \in Addr : raddr[r] = a => kern[a] = "none"

(* The mutex excludes: one party is in the critical section.                *)
LockInv ==
  /\ \A a \in Addr : OwnerInLock(a) => lock[a]
  /\ \A r \in Reaper, a \in Addr :
       raddr[r] = a /\ ReaperInLock(r) => lock[a] /\ ~OwnerInLock(a)

(* What the owner knows of the object.                                      *)
OwnerInv == \A a \in Addr :
  /\ owner[a] = "none" => cell[a] \in {"Free", "Cancelled", "Empty"}
  /\ Awaiting(a) => cell[a] \in {"Submitted", "Completed", "Empty"}
  /\ owner[a] = "checking" =>
       cell[a] = "Empty" /\ saw[a] \in {"Submitted", "Completed"}
  /\ owner[a] = "canceling" =>
       cell[a] = saw[a] /\ saw[a] \in {"Submitted", "Completed"}
  /\ owner[a] = "free" => cell[a] \in {"Empty", "Completed"}

(* Who refers to an object in each of its states.                           *)
CellInv == \A a \in Addr :
  /\ cell[a] = "Free" => kern[a] = "none" /\ \A r \in Reaper : raddr[r] # a
  /\ cell[a] \in {"Submitted", "Cancelled"} \/ PuttingBack(a) => Pending(a)
  /\ Pending(a) => cell[a] \in {"Submitted", "Cancelled"} \/ PuttingBack(a)
  /\ cell[a] = "Empty" /\ (Awaiting(a) \/ owner[a] = "none") =>
       \E r \in Reaper : At(r, a, {"completing", "free"})

(* What a thread in complete knows of its object.                           *)
ReaperInv == \A r \in Reaper, a \in Addr : raddr[r] = a =>
  /\ rpc[r] = "completing" =>
       /\ cell[a] = "Empty"
       /\ \/ took[r] = "Submitted" /\ Awaiting(a)
          \/ took[r] = "Cancelled" /\ owner[a] = "none"
  /\ rpc[r] = "waking" =>
       took[r] = "Submitted" /\ cell[a] = "Completed" /\ Awaiting(a)
  /\ rpc[r] = "free" => cell[a] = "Empty" /\ owner[a] = "none"

(* The data is in the event as long as it is awaited, in the callback once  *)
(* interest was withdrawn.                                                  *)
DataInv ==
  /\ \A a \in Addr :
       /\ Awaiting(a) \/ OwnerInLock(a) => data[a] = "lent"
       /\ cell[a] = "Cancelled" => data[a] = "callback"
  /\ \A r \in Reaper, a \in Addr :
       At(r, a, {"completing"}) /\ took[r] = "Cancelled" => data[a] = "callback"

(* The waker in the object is a task's, and while the owner is not in a     *)
(* call it is that of the latest poll.                                      *)
WakerInv ==
  /\ \A a \in Addr :
       /\ owner[a] \notin {"none", "free"} => ctx[a] \in Task
       /\ cell[a] = "Submitted" => waker[a] \in Task
       /\ owner[a] = "held" /\ cell[a] = "Submitted" => waker[a] = ctx[a]
  /\ \A r \in Reaper, a \in Addr :
       At(r, a, {"waking"}) \/ (At(r, a, {"completing"}) /\ took[r] = "Submitted")
         => /\ waker[a] \in Task
            /\ owner[a] = "held" => waker[a] = ctx[a]

(* A result that is there for the owner was announced, or is just being.    *)
WakeInv == \A a \in Addr :
  owner[a] = "held" /\ cell[a] = "Completed" =>
    \/ <<a, ctx[a]>> \in notified
    \/ \E r \in Reaper : At(r, a, {"waking"})

IInv ==
  /\ TypeOK /\ RefInv /\ LockInv /\ OwnerInv /\ CellInv
  /\ ReaperInv /\ DataInv /\ WakerInv /\ WakeInv
-----------------------------------------------------------------------------
(* Every step preserves the invariant: a lemma for each action.             *)

(* A new object is Submitted, owned, and named by its SQE.                  *)
LEMMA NewStep ==
  ASSUME IInv, NEW a \in Addr, NEW t \in Task, New(a, t)
  PROVE  IInv'
<1>1. TypeOK'
  BY DEF IInv, TypeOK, Contents, OwnerState, ReaperState, KernState,
    DataState, New, reaperVars
<1>2. RefInv'
  BY DEF IInv, RefInv, CellInv, New, reaperVars
<1>3. LockInv'
  BY DEF IInv, LockInv, OwnerInLock, ReaperInLock, New, reaperVars
<1>4. OwnerInv'
  BY DEF IInv, TypeOK, OwnerInv, Awaiting, New
<1>5. CellInv'
  BY DEF IInv, TypeOK, CellInv, Awaiting, PuttingBack, Pending, At, New,
    reaperVars
<1>6. ReaperInv'
  BY DEF IInv, ReaperInv, Awaiting, New, reaperVars
<1>7. DataInv'
  BY DEF IInv, TypeOK, ReaperInv, DataInv, OwnerInLock, Awaiting, At, New,
    reaperVars
<1>8. WakerInv'
  BY DEF IInv, TypeOK, WakerInv, At, New, reaperVars
<1>9. WakeInv'
  BY DEF IInv, WakeInv, At, New, reaperVars
<1>. QED
  BY <1>1, <1>2, <1>3, <1>4, <1>5, <1>6, <1>7, <1>8, <1>9 DEF IInv

(* The owner enters check; the lock is not its yet.                         *)
LEMMA CheckCallStep ==
  ASSUME IInv, NEW a \in Addr, NEW t \in Task, CheckCall(a, t)
  PROVE  IInv'
<1>1. TypeOK'
  BY DEF IInv, TypeOK, Contents, OwnerState, ReaperState, KernState,
    DataState, CheckCall, reaperVars
<1>2. RefInv'
  BY DEF IInv, RefInv, CheckCall, reaperVars
<1>3. LockInv'
  BY DEF IInv, LockInv, OwnerInLock, ReaperInLock, CheckCall, reaperVars
<1>4. OwnerInv'
  BY DEF IInv, OwnerInv, Awaiting, CheckCall
<1>5. CellInv'
  BY DEF IInv, CellInv, Awaiting, PuttingBack, Pending, At, CheckCall,
    reaperVars
<1>6. ReaperInv'
  BY DEF IInv, ReaperInv, Awaiting, CheckCall, reaperVars
<1>7. DataInv'
  BY DEF IInv, DataInv, OwnerInLock, Awaiting, At, CheckCall, reaperVars
<1>8. WakerInv'
  BY DEF IInv, TypeOK, WakerInv, At, CheckCall, reaperVars
<1>9. WakeInv'
  BY DEF IInv, TypeOK, WakeInv, At, CheckCall, reaperVars
<1>. QED
  BY <1>1, <1>2, <1>3, <1>4, <1>5, <1>6, <1>7, <1>8, <1>9 DEF IInv

(* The owner takes the lock and moves the State out.                        *)
LEMMA CheckLockStep ==
  ASSUME IInv, NEW a \in Addr, CheckLock(a)
  PROVE  IInv'
<1>1. TypeOK'
  BY DEF IInv, TypeOK, OwnerInv, Contents, OwnerState, ReaperState,
    KernState, DataState, Awaiting, CheckLock, reaperVars
<1>2. RefInv'
  BY DEF IInv, RefInv, CheckLock, reaperVars
<1>3. LockInv'
  BY DEF IInv, TypeOK, LockInv, OwnerInLock, ReaperInLock, CheckLock,
    reaperVars
<1>4. OwnerInv'
  BY DEF IInv, TypeOK, LockInv, OwnerInv, CellInv, ReaperInv, ReaperInLock,
    Awaiting, At, CheckLock
<1>5. CellInv'
  BY DEF IInv, TypeOK, OwnerInv, CellInv, Awaiting, PuttingBack, Pending,
    At, CheckLock, reaperVars
<1>6. ReaperInv'
  BY DEF IInv, LockInv, ReaperInv, ReaperInLock, Awaiting, CheckLock,
    reaperVars
<1>7. DataInv'
  BY DEF IInv, DataInv, OwnerInLock, Awaiting, At, CheckLock, reaperVars
<1>8. WakerInv'
  BY DEF IInv, WakerInv, At, CheckLock, reaperVars
<1>9. WakeInv'
  BY DEF IInv, WakeInv, At, CheckLock, reaperVars
<1>. QED
  BY <1>1, <1>2, <1>3, <1>4, <1>5, <1>6, <1>7, <1>8, <1>9 DEF IInv

(* It puts Submitted back, with the waker of the latest poll.               *)
LEMMA CheckPendingStep ==
  ASSUME IInv, NEW a \in Addr, CheckPending(a)
  PROVE  IInv'
<1>1. TypeOK'
  BY DEF IInv, TypeOK, Contents, OwnerState, ReaperState, KernState,
    DataState, CheckPending, reaperVars
<1>2. RefInv'
  BY DEF IInv, RefInv, CheckPending, reaperVars
<1>3. LockInv'
  BY DEF IInv, TypeOK, LockInv, OwnerInLock, ReaperInLock, CheckPending,
    reaperVars
<1>4. OwnerInv'
  BY DEF IInv, TypeOK, OwnerInv, Awaiting, CheckPending
<1>5. CellInv'
  BY DEF IInv, TypeOK, CellInv, Awaiting, PuttingBack, Pending, At,
    CheckPending, reaperVars
<1>6. ReaperInv'
  BY DEF IInv, ReaperInv, Awaiting, CheckPending, reaperVars
<1>7. DataInv'
  BY DEF IInv, DataInv, OwnerInLock, Awaiting, At, CheckPending, reaperVars
<1>8. WakerInv'
  BY DEF IInv, TypeOK, WakerInv, At, CheckPending, reaperVars
<1>9. WakeInv'
  BY DEF IInv, TypeOK, WakeInv, At, CheckPending, reaperVars
<1>. QED
  BY <1>1, <1>2, <1>3, <1>4, <1>5, <1>6, <1>7, <1>8, <1>9 DEF IInv

(* It takes the result; the object is finished and its own.                 *)
LEMMA CheckReadyStep ==
  ASSUME IInv, NEW a \in Addr, CheckReady(a)
  PROVE  IInv'
<1>1. TypeOK'
  BY DEF IInv, TypeOK, Contents, OwnerState, ReaperState, KernState,
    DataState, CheckReady, reaperVars
<1>2. RefInv'
  BY DEF IInv, RefInv, CheckReady, reaperVars
<1>3. LockInv'
  BY DEF IInv, TypeOK, LockInv, OwnerInLock, ReaperInLock, CheckReady,
    reaperVars
<1>4. OwnerInv'
  BY DEF IInv, OwnerInv, Awaiting, CheckReady
<1>5. CellInv'
  BY DEF IInv, CellInv, Awaiting, PuttingBack, Pending, At, CheckReady,
    reaperVars
<1>6. ReaperInv'
  BY DEF IInv, ReaperInv, Awaiting, CheckReady, reaperVars
<1>7. DataInv'
  BY DEF IInv, TypeOK, DataInv, OwnerInLock, Awaiting, At, CheckReady,
    reaperVars
<1>8. WakerInv'
  BY DEF IInv, WakerInv, At, CheckReady, reaperVars
<1>9. WakeInv'
  BY DEF IInv, WakeInv, At, CheckReady, reaperVars
<1>. QED
  BY <1>1, <1>2, <1>3, <1>4, <1>5, <1>6, <1>7, <1>8, <1>9 DEF IInv

(* The owner enters cancel; the lock is not its yet.                        *)
LEMMA CancelCallStep ==
  ASSUME IInv, NEW a \in Addr, CancelCall(a)
  PROVE  IInv'
<1>1. TypeOK'
  BY DEF IInv, TypeOK, Contents, OwnerState, ReaperState, KernState,
    DataState, CancelCall, reaperVars
<1>2. RefInv'
  BY DEF IInv, RefInv, CancelCall, reaperVars
<1>3. LockInv'
  BY DEF IInv, LockInv, OwnerInLock, ReaperInLock, CancelCall, reaperVars
<1>4. OwnerInv'
  BY DEF IInv, OwnerInv, Awaiting, CancelCall
<1>5. CellInv'
  BY DEF IInv, CellInv, Awaiting, PuttingBack, Pending, At, CancelCall,
    reaperVars
<1>6. ReaperInv'
  BY DEF IInv, ReaperInv, Awaiting, CancelCall, reaperVars
<1>7. DataInv'
  BY DEF IInv, DataInv, OwnerInLock, Awaiting, At, CancelCall, reaperVars
<1>8. WakerInv'
  BY DEF IInv, WakerInv, At, CancelCall, reaperVars
<1>9. WakeInv'
  BY DEF IInv, WakeInv, At, CancelCall, reaperVars
<1>. QED
  BY <1>1, <1>2, <1>3, <1>4, <1>5, <1>6, <1>7, <1>8, <1>9 DEF IInv

(* It takes the lock and looks at the State.                                *)
LEMMA CancelLockStep ==
  ASSUME IInv, NEW a \in Addr, CancelLock(a)
  PROVE  IInv'
<1>1. TypeOK'
  BY DEF IInv, TypeOK, OwnerInv, Contents, OwnerState, ReaperState,
    KernState, DataState, Awaiting, CancelLock, reaperVars
<1>2. RefInv'
  BY DEF IInv, RefInv, CancelLock, reaperVars
<1>3. LockInv'
  BY DEF IInv, TypeOK, LockInv, OwnerInLock, ReaperInLock, CancelLock,
    reaperVars
<1>4. OwnerInv'
  BY DEF IInv, TypeOK, LockInv, OwnerInv, CellInv, ReaperInv, ReaperInLock,
    Awaiting, At, CancelLock
<1>5. CellInv'
  BY DEF IInv, CellInv, Awaiting, PuttingBack, Pending, At, CancelLock,
    reaperVars
<1>6. ReaperInv'
  BY DEF IInv, LockInv, ReaperInv, ReaperInLock, Awaiting, CancelLock,
    reaperVars
<1>7. DataInv'
  BY DEF IInv, DataInv, OwnerInLock, Awaiting, At, CancelLock, reaperVars
<1>8. WakerInv'
  BY DEF IInv, WakerInv, At, CancelLock, reaperVars
<1>9. WakeInv'
  BY DEF IInv, WakeInv, At, CancelLock, reaperVars
<1>. QED
  BY <1>1, <1>2, <1>3, <1>4, <1>5, <1>6, <1>7, <1>8, <1>9 DEF IInv

(* It leaves the callback in the object and lets go of it.                  *)
LEMMA CancelDetachStep ==
  ASSUME IInv, NEW a \in Addr, CancelDetach(a)
  PROVE  IInv'
<1>1. TypeOK'
  BY DEF IInv, TypeOK, Contents, OwnerState, ReaperState, KernState,
    DataState, CancelDetach, LeaveCall, reaperVars
<1>2. RefInv'
  BY DEF IInv, RefInv, CancelDetach, LeaveCall, reaperVars
<1>3. LockInv'
  BY DEF IInv, TypeOK, LockInv, OwnerInLock, ReaperInLock, CancelDetach,
    LeaveCall, reaperVars
<1>4. OwnerInv'
  BY DEF IInv, TypeOK, OwnerInv, Awaiting, CancelDetach, LeaveCall
<1>5. CellInv'
  BY DEF IInv, OwnerInv, CellInv, Awaiting, PuttingBack, Pending, At,
    CancelDetach, LeaveCall, reaperVars
<1>6. ReaperInv'
  BY DEF IInv, ReaperInv, Awaiting, CancelDetach, LeaveCall, reaperVars
<1>7. DataInv'
  BY DEF IInv, TypeOK, DataInv, OwnerInLock, Awaiting, At, CancelDetach,
    LeaveCall, reaperVars
<1>8. WakerInv'
  BY DEF IInv, TypeOK, LockInv, WakerInv, OwnerInLock, ReaperInLock, At,
    CancelDetach, LeaveCall, reaperVars
<1>9. WakeInv'
  BY DEF IInv, WakeInv, At, CancelDetach, LeaveCall, reaperVars
<1>. QED
  BY <1>1, <1>2, <1>3, <1>4, <1>5, <1>6, <1>7, <1>8, <1>9 DEF IInv

(* It drops the callback; the object is finished and its own.               *)
LEMMA CancelFinishedStep ==
  ASSUME IInv, NEW a \in Addr, CancelFinished(a)
  PROVE  IInv'
<1>1. TypeOK'
  BY DEF IInv, TypeOK, Contents, OwnerState, ReaperState, KernState,
    DataState, CancelFinished, reaperVars
<1>2. RefInv'
  BY DEF IInv, RefInv, CancelFinished, reaperVars
<1>3. LockInv'
  BY DEF IInv, TypeOK, LockInv, OwnerInLock, ReaperInLock, CancelFinished,
    reaperVars
<1>4. OwnerInv'
  BY DEF IInv, OwnerInv, Awaiting, CancelFinished
<1>5. CellInv'
  BY DEF IInv, CellInv, Awaiting, PuttingBack, Pending, At, CancelFinished,
    reaperVars
<1>6. ReaperInv'
  BY DEF IInv, ReaperInv, Awaiting, CancelFinished, reaperVars
<1>7. DataInv'
  BY DEF IInv, TypeOK, DataInv, OwnerInLock, Awaiting, At, CancelFinished,
    reaperVars
<1>8. WakerInv'
  BY DEF IInv, WakerInv, At, CancelFinished, reaperVars
<1>9. WakeInv'
  BY DEF IInv, WakeInv, At, CancelFinished, reaperVars
<1>. QED
  BY <1>1, <1>2, <1>3, <1>4, <1>5, <1>6, <1>7, <1>8, <1>9 DEF IInv

(* It frees an object nobody else refers to.                                *)
LEMMA OwnerFreeStep ==
  ASSUME IInv, NEW a \in Addr, OwnerFree(a)
  PROVE  IInv'
<1>1. TypeOK'
  BY DEF IInv, TypeOK, Contents, OwnerState, ReaperState, KernState,
    DataState, OwnerFree, LeaveCall, reaperVars
<1>2. RefInv'
  BY DEF IInv, RefInv, OwnerFree, LeaveCall, reaperVars
<1>3. LockInv'
  BY DEF IInv, LockInv, OwnerInLock, ReaperInLock, OwnerFree, LeaveCall,
    reaperVars
<1>4. OwnerInv'
  BY DEF IInv, TypeOK, OwnerInv, Awaiting, OwnerFree, LeaveCall
<1>5. CellInv'
  BY SentinelAssumption DEF IInv, TypeOK, RefInv, OwnerInv, CellInv,
    ReaperInv, Contents, OwnerState, ReaperState, KernState, DataState,
    Awaiting, PuttingBack, Pending, At, OwnerFree, LeaveCall, reaperVars
<1>6. ReaperInv'
  BY DEF IInv, ReaperInv, Awaiting, OwnerFree, LeaveCall, reaperVars
<1>7. DataInv'
  BY DEF IInv, DataInv, OwnerInLock, Awaiting, At, OwnerFree, LeaveCall,
    reaperVars
<1>8. WakerInv'
  BY DEF IInv, WakerInv, At, OwnerFree, LeaveCall, reaperVars
<1>9. WakeInv'
  BY DEF IInv, WakeInv, At, OwnerFree, LeaveCall, reaperVars
<1>. QED
  BY <1>1, <1>2, <1>3, <1>4, <1>5, <1>6, <1>7, <1>8, <1>9 DEF IInv

(* The kernel is done with the data, and posts the CQE.                     *)
LEMMA PostStep ==
  ASSUME IInv, NEW a \in Addr, Post(a)
  PROVE  IInv'
<1>1. TypeOK'
  BY DEF IInv, TypeOK, Contents, OwnerState, ReaperState, KernState,
    DataState, Post, ownerVars, reaperVars
<1>2. RefInv'
  BY DEF IInv, RefInv, Post, reaperVars
<1>3. LockInv'
  BY DEF IInv, LockInv, OwnerInLock, ReaperInLock, Post, ownerVars,
    reaperVars
<1>4. OwnerInv'
  BY DEF IInv, OwnerInv, Awaiting, Post, ownerVars
<1>5. CellInv'
  BY DEF IInv, CellInv, Awaiting, PuttingBack, Pending, At, Post,
    ownerVars, reaperVars
<1>6. ReaperInv'
  BY DEF IInv, ReaperInv, Awaiting, Post, ownerVars, reaperVars
<1>7. DataInv'
  BY DEF IInv, DataInv, OwnerInLock, Awaiting, At, Post, ownerVars,
    reaperVars
<1>8. WakerInv'
  BY DEF IInv, WakerInv, At, Post, ownerVars, reaperVars
<1>9. WakeInv'
  BY DEF IInv, WakeInv, At, Post, ownerVars, reaperVars
<1>. QED
  BY <1>1, <1>2, <1>3, <1>4, <1>5, <1>6, <1>7, <1>8, <1>9 DEF IInv

(* A thread takes the CQE and, with it, the reference.                      *)
LEMMA ReapStep ==
  ASSUME IInv, NEW a \in Addr, NEW r \in Reaper, Reap(r, a)
  PROVE  IInv'
<1>1. TypeOK'
  BY DEF IInv, TypeOK, Contents, OwnerState, ReaperState, KernState,
    DataState, Reap, ownerVars
<1>2. RefInv'
  BY DEF IInv, TypeOK, RefInv, Reap
<1>3. LockInv'
  BY DEF IInv, LockInv, OwnerInLock, ReaperInLock, Reap, ownerVars
<1>4. OwnerInv'
  BY DEF IInv, OwnerInv, Awaiting, Reap, ownerVars
<1>5. CellInv'
  BY DEF IInv, TypeOK, CellInv, Awaiting, PuttingBack, Pending, At, Reap,
    ownerVars
<1>6. ReaperInv'
  BY DEF IInv, ReaperInv, Awaiting, Reap, ownerVars
<1>7. DataInv'
  BY DEF IInv, DataInv, OwnerInLock, Awaiting, At, Reap, ownerVars
<1>8. WakerInv'
  BY DEF IInv, WakerInv, At, Reap, ownerVars
<1>9. WakeInv'
  BY DEF IInv, WakeInv, At, Reap, ownerVars
<1>. QED
  BY <1>1, <1>2, <1>3, <1>4, <1>5, <1>6, <1>7, <1>8, <1>9 DEF IInv

(* The thread takes the lock and moves the State out.                       *)
LEMMA CompleteLockStep ==
  ASSUME IInv, NEW r \in Reaper, CompleteLock(r)
  PROVE  IInv'
<1>1. TypeOK'
  BY DEF IInv, TypeOK, RefInv, CellInv, Contents, OwnerState, ReaperState,
    KernState, DataState, CompleteLock, ownerVars
<1>2. RefInv'
  BY DEF IInv, RefInv, CompleteLock
<1>3. LockInv'
  BY DEF IInv, TypeOK, LockInv, OwnerInLock, ReaperInLock, CompleteLock,
    ownerVars
<1>4. OwnerInv'
  BY DEF IInv, LockInv, OwnerInv, OwnerInLock, Awaiting, CompleteLock,
    ownerVars
<1>5. CellInv'
  BY DEF IInv, TypeOK, RefInv, LockInv, CellInv, OwnerInLock, Awaiting,
    PuttingBack, Pending, At, CompleteLock, ownerVars
<1>6. ReaperInv'
  BY DEF IInv, TypeOK, LockInv, OwnerInv, CellInv, ReaperInv, Contents,
    OwnerState, ReaperState, KernState, DataState, OwnerInLock, Awaiting,
    PuttingBack, Pending, At, CompleteLock, ownerVars
<1>7. DataInv'
  BY DEF IInv, TypeOK, DataInv, OwnerInLock, Awaiting, At, CompleteLock,
    ownerVars
<1>8. WakerInv'
  BY DEF IInv, TypeOK, WakerInv, At, CompleteLock, ownerVars
<1>9. WakeInv'
  BY DEF IInv, WakeInv, At, CompleteLock, ownerVars
<1>. QED
  BY <1>1, <1>2, <1>3, <1>4, <1>5, <1>6, <1>7, <1>8, <1>9 DEF IInv

(* It stores the result and keeps the lock.                                 *)
LEMMA CompleteStoreStep ==
  ASSUME IInv, NEW r \in Reaper, CompleteStore(r)
  PROVE  IInv'
<1>1. TypeOK'
  BY DEF IInv, TypeOK, Contents, OwnerState, ReaperState, KernState,
    DataState, CompleteStore, ownerVars
<1>2. RefInv'
  BY DEF IInv, RefInv, CompleteStore
<1>3. LockInv'
  BY DEF IInv, LockInv, OwnerInLock, ReaperInLock, CompleteStore, ownerVars
<1>4. OwnerInv'
  BY DEF IInv, OwnerInv, ReaperInv, Awaiting, CompleteStore, ownerVars
<1>5. CellInv'
  BY DEF IInv, TypeOK, RefInv, CellInv, Awaiting, PuttingBack, Pending, At,
    CompleteStore, ownerVars
<1>6. ReaperInv'
  BY DEF IInv, TypeOK, RefInv, ReaperInv, Awaiting, CompleteStore,
    ownerVars
<1>7. DataInv'
  BY DEF IInv, DataInv, OwnerInLock, Awaiting, At, CompleteStore, ownerVars
<1>8. WakerInv'
  BY DEF IInv, WakerInv, At, CompleteStore, ownerVars
<1>9. WakeInv'
  BY DEF IInv, TypeOK, WakeInv, At, CompleteStore, ownerVars
<1>. QED
  BY <1>1, <1>2, <1>3, <1>4, <1>5, <1>6, <1>7, <1>8, <1>9 DEF IInv

(* It wakes the task whose waker was stored.                                *)
LEMMA CompleteWakeStep ==
  ASSUME IInv, NEW r \in Reaper, CompleteWake(r)
  PROVE  IInv'
<1>1. TypeOK'
  BY DEF IInv, TypeOK, RefInv, WakerInv, Contents, OwnerState, ReaperState,
    KernState, DataState, At, CompleteWake, LeaveComplete, ownerVars
<1>2. RefInv'
  BY SentinelAssumption DEF IInv, TypeOK, RefInv, CompleteWake,
    LeaveComplete
<1>3. LockInv'
  BY DEF IInv, TypeOK, RefInv, LockInv, OwnerInLock, ReaperInLock,
    CompleteWake, LeaveComplete, ownerVars
<1>4. OwnerInv'
  BY DEF IInv, OwnerInv, Awaiting, CompleteWake, LeaveComplete, ownerVars
<1>5. CellInv'
  BY SentinelAssumption DEF IInv, CellInv, Awaiting, PuttingBack, Pending,
    At, CompleteWake, LeaveComplete, ownerVars
<1>6. ReaperInv'
  BY DEF IInv, TypeOK, ReaperInv, Awaiting, CompleteWake, LeaveComplete,
    ownerVars
<1>7. DataInv'
  BY DEF IInv, DataInv, OwnerInLock, Awaiting, At, CompleteWake,
    LeaveComplete, ownerVars
<1>8. WakerInv'
  BY DEF IInv, TypeOK, RefInv, ReaperInv, WakerInv, At, CompleteWake,
    LeaveComplete, ownerVars
<1>9. WakeInv'
  BY DEF IInv, WakerInv, WakeInv, At, CompleteWake, LeaveComplete,
    ownerVars
<1>. QED
  BY <1>1, <1>2, <1>3, <1>4, <1>5, <1>6, <1>7, <1>8, <1>9 DEF IInv

(* It drops the callback and releases the lock.                             *)
LEMMA CompleteDropStep ==
  ASSUME IInv, NEW r \in Reaper, CompleteDrop(r)
  PROVE  IInv'
<1>1. TypeOK'
  BY DEF IInv, TypeOK, Contents, OwnerState, ReaperState, KernState,
    DataState, CompleteDrop, ownerVars
<1>2. RefInv'
  BY DEF IInv, RefInv, CompleteDrop
<1>3. LockInv'
  BY DEF IInv, TypeOK, RefInv, LockInv, OwnerInLock, ReaperInLock,
    CompleteDrop, ownerVars
<1>4. OwnerInv'
  BY DEF IInv, OwnerInv, Awaiting, CompleteDrop, ownerVars
<1>5. CellInv'
  BY DEF IInv, CellInv, Awaiting, PuttingBack, Pending, At, CompleteDrop,
    ownerVars
<1>6. ReaperInv'
  BY DEF IInv, ReaperInv, Awaiting, CompleteDrop, ownerVars
<1>7. DataInv'
  BY DEF IInv, TypeOK, RefInv, ReaperInv, DataInv, OwnerInLock, Awaiting,
    At, CompleteDrop, ownerVars
<1>8. WakerInv'
  BY DEF IInv, WakerInv, At, CompleteDrop, ownerVars
<1>9. WakeInv'
  BY DEF IInv, WakeInv, At, CompleteDrop, ownerVars
<1>. QED
  BY <1>1, <1>2, <1>3, <1>4, <1>5, <1>6, <1>7, <1>8, <1>9 DEF IInv

(* It frees an object nobody else refers to.                                *)
LEMMA CompleteFreeStep ==
  ASSUME IInv, NEW r \in Reaper, CompleteFree(r)
  PROVE  IInv'
<1>1. TypeOK'
  BY DEF IInv, TypeOK, Contents, OwnerState, ReaperState, KernState,
    DataState, CompleteFree, LeaveComplete, ownerVars
<1>2. RefInv'
  BY SentinelAssumption DEF IInv, TypeOK, RefInv, CompleteFree,
    LeaveComplete
<1>3. LockInv'
  BY DEF IInv, LockInv, OwnerInLock, ReaperInLock, CompleteFree,
    LeaveComplete, ownerVars
<1>4. OwnerInv'
  BY DEF IInv, OwnerInv, ReaperInv, Awaiting, CompleteFree, LeaveComplete,
    ownerVars
<1>5. CellInv'
  BY SentinelAssumption DEF IInv, TypeOK, RefInv, CellInv, Awaiting,
    PuttingBack, Pending, At, CompleteFree, LeaveComplete, ownerVars
<1>6. ReaperInv'
  BY DEF IInv, TypeOK, RefInv, ReaperInv, Awaiting, CompleteFree,
    LeaveComplete, ownerVars
<1>7. DataInv'
  BY DEF IInv, DataInv, OwnerInLock, Awaiting, At, CompleteFree,
    LeaveComplete, ownerVars
<1>8. WakerInv'
  BY DEF IInv, WakerInv, At, CompleteFree, LeaveComplete, ownerVars
<1>9. WakeInv'
  BY DEF IInv, WakeInv, At, CompleteFree, LeaveComplete, ownerVars
<1>. QED
  BY <1>1, <1>2, <1>3, <1>4, <1>5, <1>6, <1>7, <1>8, <1>9 DEF IInv

-----------------------------------------------------------------------------
(* The invariant holds initially.                                           *)
LEMMA InitIInv == Init => IInv
<1>. SUFFICES ASSUME Init PROVE IInv
  OBVIOUS
<1>1. TypeOK
  BY DEF Init, TypeOK, Contents, KernState, OwnerState, ReaperState, DataState
<1>2. RefInv /\ LockInv /\ OwnerInv
  BY SentinelAssumption
  DEF Init, RefInv, LockInv, OwnerInv, OwnerInLock, ReaperInLock, Awaiting
<1>3. CellInv /\ ReaperInv
  BY SentinelAssumption
  DEF Init, CellInv, ReaperInv, Awaiting, PuttingBack, Pending, At
<1>4. DataInv /\ WakerInv /\ WakeInv
  BY DEF Init, DataInv, WakerInv, WakeInv, Awaiting, OwnerInLock, At
<1>. QED
  BY <1>1, <1>2, <1>3, <1>4 DEF IInv

(* A step of an owner is one of the above.                                  *)
LEMMA OwnerStep ==
  ASSUME IInv, NEW a \in Addr, Owner(a)
  PROVE  IInv'
<1>1. CASE \E t \in Task : New(a, t) \/ CheckCall(a, t)
  BY <1>1, NewStep, CheckCallStep
<1>2. CASE CheckLock(a) \/ CheckPending(a) \/ CheckReady(a)
  BY <1>2, CheckLockStep, CheckPendingStep, CheckReadyStep
<1>3. CASE CancelCall(a) \/ CancelLock(a) \/ CancelDetach(a) \/ CancelFinished(a)
  BY <1>3, CancelCallStep, CancelLockStep, CancelDetachStep, CancelFinishedStep
<1>4. CASE OwnerFree(a)
  BY <1>4, OwnerFreeStep
<1>. QED
  BY <1>1, <1>2, <1>3, <1>4 DEF Owner

(* So is a step of a thread in complete.                                    *)
LEMMA CompleterStep ==
  ASSUME IInv, NEW r \in Reaper, Completer(r)
  PROVE  IInv'
<1>1. CASE \E a \in Addr : Reap(r, a)
  BY <1>1, ReapStep
<1>2. CASE CompleteLock(r) \/ CompleteStore(r) \/ CompleteWake(r)
  BY <1>2, CompleteLockStep, CompleteStoreStep, CompleteWakeStep
<1>3. CASE CompleteDrop(r) \/ CompleteFree(r)
  BY <1>3, CompleteDropStep, CompleteFreeStep
<1>. QED
  BY <1>1, <1>2, <1>3 DEF Completer

(* A step that changes nothing preserves the invariant.                     *)
LEMMA StutterStep ==
  ASSUME IInv, UNCHANGED vars
  PROVE  IInv'
<1>1. TypeOK' /\ RefInv' /\ LockInv' /\ OwnerInv'
  BY DEF IInv, TypeOK, RefInv, LockInv, OwnerInv, OwnerInLock, ReaperInLock,
    Awaiting, vars, ownerVars, reaperVars
<1>2. CellInv' /\ ReaperInv'
  BY DEF IInv, CellInv, ReaperInv, Awaiting, PuttingBack, Pending, At,
    vars, ownerVars, reaperVars
<1>3. DataInv' /\ WakerInv' /\ WakeInv'
  BY DEF IInv, DataInv, WakerInv, WakeInv, Awaiting, OwnerInLock, At,
    vars, ownerVars, reaperVars
<1>. QED
  BY <1>1, <1>2, <1>3 DEF IInv

(* Every step preserves the invariant.                                      *)
LEMMA NextIInv == IInv /\ [Next]_vars => IInv'
<1>. SUFFICES ASSUME IInv, [Next]_vars PROVE IInv'
  OBVIOUS
<1>1. CASE \E a \in Addr : Owner(a)
  BY <1>1, OwnerStep
<1>2. CASE \E a \in Addr : Post(a)
  BY <1>2, PostStep
<1>3. CASE \E r \in Reaper : Completer(r)
  BY <1>3, CompleterStep
<1>4. CASE UNCHANGED vars
  BY <1>4, StutterStep
<1>. QED
  BY <1>1, <1>2, <1>3, <1>4 DEF Next

-----------------------------------------------------------------------------
(* The inductive invariant holds of every behaviour of the mutex-protected  *)
(* completion code.                                                         *)
THEOREM Invariance == Spec => []IInv
<1>1. IInv /\ [Next]_vars => IInv'
  BY NextIInv
<1>. QED
  BY InitIInv, <1>1, PTL DEF Spec

(* Type correctness; in particular, whom complete wakes is always a task.   *)
THEOREM TypeCorrect == Spec => []TypeOK
<1>1. IInv => TypeOK
  BY DEF IInv
<1>. QED
  BY Invariance, <1>1, PTL

(* No call is inside, and no pointer leads to, a freed completion object.   *)
THEOREM NeverUsedAfterFree == Spec => []NoUseAfterFree
<1>1. IInv => NoUseAfterFree
  <2>. SUFFICES ASSUME IInv, NEW a \in Addr, cell[a] = "Free"
                PROVE  /\ owner[a] = "none" /\ kern[a] = "none"
                       /\ \A r \in Reaper : raddr[r] # a
    BY DEF NoUseAfterFree
  <2>1. kern[a] = "none" /\ \A r \in Reaper : raddr[r] # a
    BY DEF IInv, CellInv
  <2>2. owner[a] = "none"
    BY DEF IInv, TypeOK, OwnerState, OwnerInv, Awaiting
  <2>. QED
    BY <2>1, <2>2
<1>. QED
  BY Invariance, <1>1, PTL

(* The unreachable!() arms of check, cancel and complete are not reached.   *)
THEOREM ArmsUnreachable == Spec => []UnreachableArms
<1>1. IInv => UnreachableArms
  <2>. SUFFICES ASSUME IInv PROVE UnreachableArms
    OBVIOUS
  <2>1. ASSUME NEW a \in Addr, OwnerInLock(a)
        PROVE  saw[a] \in {"Submitted", "Completed"}
    BY <2>1 DEF IInv, OwnerInv, OwnerInLock
  <2>2. ASSUME NEW r \in Reaper, ReaperInLock(r)
        PROVE  took[r] \in {"Submitted", "Cancelled"}
    <3>1. raddr[r] \in Addr
      BY <2>2 DEF IInv, TypeOK, RefInv, ReaperInLock
    <3>. QED
      BY <2>2, <3>1 DEF IInv, ReaperInv, ReaperInLock
  <2>. QED
    BY <2>1, <2>2 DEF UnreachableArms
<1>. QED
  BY Invariance, <1>1, PTL

(* What the kernel was lent lives until its CQE, cancelled or not.          *)
THEOREM KernelDataStaysAlive == Spec => []KernelDataAlive
<1>1. IInv => KernelDataAlive
  <2>. SUFFICES ASSUME IInv, NEW a \in Addr, kern[a] = "owned"
                PROVE  data[a] \in {"lent", "callback"}
    BY DEF KernelDataAlive
  <2>1. cell[a] \in {"Submitted", "Cancelled"} \/ PuttingBack(a)
    BY DEF IInv, CellInv, Pending
  <2>2. cell[a] = "Submitted" => Awaiting(a) \/ OwnerInLock(a)
    BY DEF IInv, TypeOK, OwnerState, OwnerInv, Awaiting, OwnerInLock
  <2>. QED
    BY <2>1, <2>2 DEF IInv, DataInv, PuttingBack, OwnerInLock
<1>. QED
  BY Invariance, <1>1, PTL

(* No lost wake-up: a stored result was announced to the latest poller.     *)
THEOREM LatestTaskIsWoken == Spec => []ResultWakesLatestTask
<1>1. IInv => ResultWakesLatestTask
  BY DEF IInv, LockInv, WakeInv, At, ReaperInLock, ResultWakesLatestTask
<1>. QED
  BY Invariance, <1>1, PTL

(* No leak: an allocated object has an owner, a CQE to come, or a thread    *)
(* that is completing it.                                                   *)
THEOREM NeverLeaked == Spec => []SomeoneFrees
<1>1. IInv => SomeoneFrees
  <2>. SUFFICES ASSUME IInv, NEW a \in Addr, cell[a] # "Free", owner[a] = "none"
                PROVE  kern[a] # "none" \/ \E r \in Reaper : raddr[r] = a
    BY DEF SomeoneFrees
  <2>1. cell[a] \in {"Cancelled", "Empty"}
    BY DEF IInv, OwnerInv
  <2>2. CASE cell[a] = "Cancelled"
    BY <2>2 DEF IInv, CellInv, Pending, At
  <2>3. CASE cell[a] = "Empty"
    BY <2>3 DEF IInv, CellInv, At
  <2>. QED
    BY <2>1, <2>2, <2>3
<1>. QED
  BY Invariance, <1>1, PTL

(* An event's data is returned or dropped only while it is still lent or in *)
(* the callback, hence once.                                                *)
THEOREM DataDisposedOnce == Spec => DisposedOnce
<1>1. IInv /\ [Next]_vars =>
        [\A a \in Addr : Disposes(a) => data[a] \in {"lent", "callback"}]_vars
  <2>. SUFFICES ASSUME IInv, NEW a \in Addr, Disposes(a)
                PROVE  data[a] \in {"lent", "callback"}
    OBVIOUS
  <2>1. CASE CheckReady(a) \/ CancelFinished(a)
    BY <2>1 DEF IInv, DataInv, OwnerInLock, CheckReady, CancelFinished
  <2>2. CASE \E r \in Reaper : raddr[r] = a /\ CompleteDrop(r)
    BY <2>2 DEF IInv, DataInv, At, CompleteDrop
  <2>. QED
    BY <2>1, <2>2 DEF Disposes
<1>. QED
  BY Invariance, <1>1, PTL DEF Spec, DisposedOnce
=============================================================================
