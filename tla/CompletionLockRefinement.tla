---------------------- MODULE CompletionLockRefinement ----------------------
(***************************************************************************)
(* CompletionLock implements Completion: each step of a call under the     *)
(* mutex is a step of the one-step API or changes nothing in it, for any   *)
(* addresses, tasks and threads.                                           *)
(***************************************************************************)
EXTENDS CompletionLockProofs

(* A box is freed by an owner that found a result, or by a thread that      *)
(* found a callback.                                                        *)
FreeInv ==
  /\ \A a \in Addr : owner[a] = "free" => saw[a] = "Completed"
  /\ \A r \in Reaper : rpc[r] = "free" => took[r] = "Cancelled"

LEMMA FreeInvStep ==
  ASSUME IInv, FreeInv, [Next]_vars
  PROVE  FreeInv'
<1>. USE DEF FreeInv, IInv, TypeOK, ownerVars, reaperVars
<1>1. CASE UNCHANGED vars
  BY <1>1 DEF vars
<1>2. ASSUME NEW a \in Addr, Owner(a) PROVE FreeInv'
  <2>1. UNCHANGED reaperVars
    BY <1>2 DEF Owner, New, CheckCall, CheckLock, CheckPending, CheckReady, CancelCall,
       CancelLock, CancelDetach, CancelFinished, OwnerFree
  <2>2. \A b \in Addr \ {a} : owner'[b] = owner[b] /\ saw'[b] = saw[b]
    BY <1>2 DEF Owner, New, CheckCall, CheckLock, CheckPending, CheckReady, CancelCall,
       CancelLock, CancelDetach, CancelFinished, OwnerFree, LeaveCall
  <2>3. owner'[a] = "free" => saw'[a] = "Completed"
    BY <1>2 DEF Owner, New, CheckCall, CheckLock, CheckPending, CheckReady, CancelCall,
       CancelLock, CancelDetach, CancelFinished, OwnerFree, LeaveCall
  <2>. QED
    BY <2>1, <2>2, <2>3
<1>3. ASSUME NEW a \in Addr, Post(a) PROVE FreeInv'
  BY <1>3 DEF Post
<1>4. ASSUME NEW r \in Reaper, Completer(r) PROVE FreeInv'
  BY <1>4 DEF Completer, Reap, CompleteLock, CompleteStore, CompleteWake, CompleteDrop,
     CompleteFree, LeaveComplete
<1>. QED
  BY <1>1, <1>2, <1>3, <1>4 DEF Next

-----------------------------------------------------------------------------
(* What the abstract object is.                                             *)

InComplete == {"completing", "waking", "free"}

LEMMA NotTaken ==
  ASSUME IInv, NEW a \in Addr, \A r \in Reaper : ~At(r, a, InComplete)
  PROVE  TakenBy(a) = {}
BY DEF IInv, TypeOK, ReaperState, At, InComplete, TakenBy

(* An object that is in a call of its owner is in no thread's.              *)
LEMMA OwnersAlone ==
  ASSUME IInv, NEW a \in Addr,
         owner[a] \in {"checking", "canceling", "free"} \/ (~lock[a] /\ owner[a] # "none")
  PROVE  TakenBy(a) = {}
<1>. SUFFICES ASSUME NEW r \in Reaper, At(r, a, InComplete) PROVE FALSE
  BY NotTaken
<1>1. raddr[r] = a /\ rpc[r] \in InComplete
  BY DEF At
<1>. QED
  BY <1>1 DEF IInv, LockInv, ReaperInv, OwnerInLock, ReaperInLock, Awaiting, InComplete

LEMMA Taken ==
  ASSUME IInv, NEW r \in Reaper, rpc[r] \in InComplete
  PROVE  /\ raddr[r] \in Addr
         /\ TakenBy(raddr[r]) = {r}
         /\ AbstractCell(raddr[r]) = took[r]
         /\ AbstractKern(raddr[r]) = "posted"
<1>1. raddr[r] \in Addr
  BY DEF IInv, TypeOK, RefInv, InComplete
<1>2. TakenBy(raddr[r]) = {r}
  BY <1>1, SentinelAssumption DEF IInv, RefInv, TakenBy, InComplete
<1>3. owner[raddr[r]] \notin {"checking", "free"}
  BY <1>1 DEF IInv, ReaperInv, Awaiting, InComplete
<1>4. (CHOOSE q \in {r} : TRUE) = r
  OBVIOUS
<1>. QED
  BY <1>1, <1>2, <1>3, <1>4 DEF AbstractCell, AbstractKern

(* A step does not change what it has nothing to do with.                   *)
LEMMA Others ==
  ASSUME NEW b \in Addr,
         owner'[b] = owner[b], saw'[b] = saw[b], cell'[b] = cell[b], kern'[b] = kern[b],
         \A r \in Reaper : raddr'[r] = b <=> raddr[r] = b,
         \A r \in Reaper : raddr[r] = b => rpc'[r] = rpc[r] /\ took'[r] = took[r]
  PROVE  AbstractCell(b)' = AbstractCell(b) /\ AbstractKern(b)' = AbstractKern(b)
<1>1. TakenBy(b)' = TakenBy(b)
  BY DEF TakenBy
<1>2. TakenBy(b) # {} =>
        LET r == CHOOSE q \in TakenBy(b) : TRUE IN took'[r] = took[r]
  BY DEF TakenBy
<1>. QED
  BY <1>1, <1>2 DEF AbstractCell, AbstractKern

AbsCells == [a \in Addr |-> AbstractCell(a)]
AbsKerns == [a \in Addr |-> AbstractKern(a)]

(* One object changes.                                                      *)
LEMMA Update ==
  ASSUME NEW a \in Addr,
         \A b \in Addr \ {a} :
           AbstractCell(b)' = AbstractCell(b) /\ AbstractKern(b)' = AbstractKern(b)
  PROVE  /\ AbsCells' = [AbsCells EXCEPT ![a] = AbstractCell(a)']
         /\ AbsKerns' = [AbsKerns EXCEPT ![a] = AbstractKern(a)']
         /\ AbsCells[a] = AbstractCell(a) /\ AbsKerns[a] = AbstractKern(a)
         /\ AbstractCell(a)' = AbstractCell(a) => AbsCells' = AbsCells
         /\ AbstractKern(a)' = AbstractKern(a) => AbsKerns' = AbsKerns
BY DEF AbsCells, AbsKerns

-----------------------------------------------------------------------------
(* Steps of the owner.                                                      *)

LEMMA OwnerOthers ==
  ASSUME IInv, NEW a \in Addr, Owner(a) \/ Post(a)
  PROVE  /\ \A b \in Addr \ {a} :
              AbstractCell(b)' = AbstractCell(b) /\ AbstractKern(b)' = AbstractKern(b)
         /\ UNCHANGED reaperVars
         /\ TakenBy(a)' = TakenBy(a)
<1>1. UNCHANGED reaperVars
  BY DEF Owner, New, CheckCall, CheckLock, CheckPending, CheckReady, CancelCall,
     CancelLock, CancelDetach, CancelFinished, OwnerFree, Post
<1>2. ASSUME NEW b \in Addr \ {a}
      PROVE  owner'[b] = owner[b] /\ saw'[b] = saw[b] /\ cell'[b] = cell[b] /\ kern'[b] = kern[b]
  BY DEF Owner, New, CheckCall, CheckLock, CheckPending, CheckReady, CancelCall,
     CancelLock, CancelDetach, CancelFinished, OwnerFree, LeaveCall, Post, ownerVars, IInv, TypeOK
<1>. QED
  BY <1>1, <1>2, Others DEF reaperVars, TakenBy

(* Going into a call, and all of a call but where it takes effect, is no    *)
(* step of the API.                                                         *)
LEMMA OwnerQuiet ==
  ASSUME IInv, FreeInv, NEW a \in Addr,
         CheckLock(a) \/ CheckReady(a) \/ CancelCall(a) \/ CancelLock(a) \/ CancelFinished(a)
  PROVE  UNCHANGED <<AbsCells, waker, AbsKerns, notified>>
<1>1. UNCHANGED <<waker, kern, notified, reaperVars>>
  BY DEF CheckLock, CheckReady, CancelCall, CancelLock, CancelFinished
<1>2. AbstractKern(a)' = AbstractKern(a)
  BY <1>1 DEF AbstractKern, reaperVars
<1>3. TakenBy(a)' = TakenBy(a) /\ (TakenBy(a) = {} \/ CancelCall(a))
  BY OwnerOthers, OwnersAlone
     DEF Owner, CheckLock, CheckReady, CancelCall, CancelLock, CancelFinished
<1>4. AbstractCell(a)' = AbstractCell(a)
  <2>1. CASE CancelCall(a)
    BY <1>1, <1>3, <2>1 DEF CancelCall, AbstractCell, reaperVars, IInv, TypeOK
  <2>2. CASE CheckLock(a) \/ CancelLock(a)
    BY <1>3, <2>2 DEF CheckLock, CancelLock, CancelCall, AbstractCell, IInv, TypeOK
  <2>3. CASE CheckReady(a) \/ CancelFinished(a)
    BY <1>3, <2>3 DEF CheckReady, CancelFinished, CancelCall, AbstractCell, IInv, TypeOK, OwnerInv
  <2>. QED
    BY <2>1, <2>2, <2>3
<1>. QED
  BY <1>1, <1>2, <1>4, OwnerOthers, Update DEF Owner

LEMMA OwnerSteps ==
  ASSUME IInv, FreeInv, NEW a \in Addr, Owner(a) \/ Post(a)
  PROVE  [Api!Next]_(Api!vars)
<1>. DEFINE Done == [Api!Next]_(Api!vars)
<1>. USE DEF IInv, TypeOK
<1>1. /\ AbsCells' = [AbsCells EXCEPT ![a] = AbstractCell(a)']
      /\ AbsKerns' = [AbsKerns EXCEPT ![a] = AbstractKern(a)']
      /\ AbsCells[a] = AbstractCell(a) /\ AbsKerns[a] = AbstractKern(a)
      /\ AbstractCell(a)' = AbstractCell(a) => AbsCells' = AbsCells
      /\ AbstractKern(a)' = AbstractKern(a) => AbsKerns' = AbsKerns
  BY OwnerOthers, Update
<1>2. TakenBy(a)' = TakenBy(a) /\ UNCHANGED <<rpc, raddr, took>>
  BY OwnerOthers DEF reaperVars
<1>3. kern'[a] = kern[a] => AbstractKern(a)' = AbstractKern(a)
  BY <1>2 DEF AbstractKern
<1>4. ASSUME NEW t \in Task, New(a, t) PROVE Done
  <2>1. \A r \in Reaper : raddr[r] # a
    BY <1>4 DEF New, CellInv
  <2>2. TakenBy(a) = {} /\ owner[a] = "none"
    BY <1>4, <2>1 DEF New, TakenBy, OwnerInv, OwnerState, Awaiting
  <2>3. AbstractCell(a) = "Free" /\ AbstractCell(a)' = "Submitted"
    BY <1>2, <1>4, <2>2 DEF New, AbstractCell
  <2>4. AbstractKern(a)' = "owned"
    BY <1>2, <1>4, <2>1 DEF New, AbstractKern
  <2>. QED
    BY <1>1, <1>4, <2>3, <2>4 DEF New, Api!Next, Api!New, AbsCells, AbsKerns
<1>5. ASSUME NEW t \in Task, CheckCall(a, t) PROVE Done
  <2>1. AbstractCell(a)' = AbstractCell(a)
    BY <1>2, <1>5 DEF CheckCall, AbstractCell
  <2>2. AbstractKern(a)' = AbstractKern(a)
    BY <1>3, <1>5 DEF CheckCall
  <2>3. notified \cap {<<a, t>>} \in SUBSET notified
        /\ notified' = notified \ (notified \cap {<<a, t>>})
    BY <1>5 DEF CheckCall
  <2>4. Api!Run(notified \cap {<<a, t>>})
    BY <1>1, <1>5, <2>1, <2>2, <2>3 DEF CheckCall, Api!Run, AbsCells, AbsKerns
  <2>. QED
    BY <2>3, <2>4 DEF Api!Next
<1>6. CASE CheckPending(a)
  <2>1. TakenBy(a) = {}
    BY <1>6, OwnersAlone DEF CheckPending
  <2>2. AbstractCell(a) = "Submitted" /\ AbstractCell(a)' = "Submitted"
    BY <1>2, <1>6, <2>1 DEF CheckPending, AbstractCell
  <2>3. ctx[a] \in Task
    BY <1>6 DEF CheckPending, WakerInv
  <2>. QED
    BY <1>1, <1>3, <1>6, <2>2, <2>3 DEF CheckPending, Api!Next, Api!CheckPending, AbsCells, AbsKerns
<1>7. CASE CancelDetach(a)
  <2>1. TakenBy(a) = {}
    BY <1>7, OwnersAlone DEF CancelDetach
  <2>2. AbstractCell(a) = "Submitted" /\ AbstractCell(a)' = "Cancelled"
    BY <1>2, <1>7, <2>1 DEF CancelDetach, AbstractCell, OwnerInv
  <2>. QED
    BY <1>1, <1>3, <1>7, <2>2 DEF CancelDetach, Api!Next, Api!Cancel, Api!CancelDetach, AbsCells, AbsKerns
<1>8. CASE OwnerFree(a)
  <2>1. TakenBy(a) = {}
    BY <1>8, OwnersAlone DEF OwnerFree
  <2>2. AbstractCell(a) = "Completed" /\ AbstractCell(a)' = "Free"
    BY <1>2, <1>8, <2>1 DEF OwnerFree, AbstractCell, FreeInv
  <2>. QED
    BY <1>1, <1>3, <1>8, <2>2 DEF OwnerFree, Api!Next, Api!CheckReady, Api!Dispose, AbsCells, AbsKerns
<1>9. CASE Post(a)
  <2>1. \A r \in Reaper : raddr[r] # a
    BY <1>9 DEF Post, RefInv
  <2>2. AbstractKern(a) = "owned" /\ AbstractKern(a)' = "posted"
    BY <1>2, <1>9, <2>1 DEF Post, AbstractKern
  <2>3. AbstractCell(a)' = AbstractCell(a)
    BY <1>2, <1>9 DEF Post, AbstractCell, ownerVars
  <2>. QED
    BY <1>1, <1>9, <2>2, <2>3 DEF Post, Api!Next, Api!Post, AbsCells, AbsKerns
<1>10. CASE CheckLock(a) \/ CheckReady(a) \/ CancelCall(a) \/ CancelLock(a) \/ CancelFinished(a)
  BY <1>10, OwnerQuiet DEF Api!vars, AbsCells, AbsKerns
<1>. QED
  BY <1>4, <1>5, <1>6, <1>7, <1>8, <1>9, <1>10 DEF Owner

-----------------------------------------------------------------------------
(* Steps of the threads that process CQEs.                                  *)

LEMMA CompleterOthers ==
  ASSUME IInv, NEW r \in Reaper, NEW a \in Addr, UNCHANGED ownerVars,
         raddr[r] \in {a, NoAddr}, raddr'[r] \in {a, NoAddr},
         \A q \in Reaper \ {r} :
           rpc'[q] = rpc[q] /\ raddr'[q] = raddr[q] /\ took'[q] = took[q],
         \A b \in Addr \ {a} : cell'[b] = cell[b] /\ kern'[b] = kern[b]
  PROVE  \A b \in Addr \ {a} :
           AbstractCell(b)' = AbstractCell(b) /\ AbstractKern(b)' = AbstractKern(b)
<1>. SUFFICES ASSUME NEW b \in Addr \ {a}
              PROVE  AbstractCell(b)' = AbstractCell(b) /\ AbstractKern(b)' = AbstractKern(b)
  OBVIOUS
<1>1. \A q \in Reaper : raddr'[q] = b <=> raddr[q] = b
  BY SentinelAssumption
<1>2. \A q \in Reaper : raddr[q] = b => rpc'[q] = rpc[q] /\ took'[q] = took[q]
  BY SentinelAssumption
<1>. QED
  BY <1>1, <1>2, Others DEF ownerVars

(* A CQE that is being processed is one that was posted.                    *)
LEMMA ReapQuiet ==
  ASSUME IInv, NEW r \in Reaper, NEW a \in Addr, Reap(r, a)
  PROVE  UNCHANGED <<AbsCells, waker, AbsKerns, notified>>
<1>. USE DEF IInv, TypeOK, Reap, ReaperState
<1>1. raddr[r] = NoAddr /\ raddr'[r] = a /\ rpc'[r] = "lock"
  BY DEF RefInv
<1>2. \A q \in Reaper : raddr[q] # a
  BY DEF RefInv
<1>3. AbstractKern(a) = "posted" /\ AbstractKern(a)' = "posted"
  BY <1>1, <1>2 DEF AbstractKern
<1>4. TakenBy(a) = {} /\ TakenBy(a)' = {}
  BY <1>1, <1>2 DEF TakenBy
<1>5. AbstractCell(a)' = AbstractCell(a)
  BY <1>4 DEF AbstractCell, ownerVars
<1>6. \A b \in Addr \ {a} :
        AbstractCell(b)' = AbstractCell(b) /\ AbstractKern(b)' = AbstractKern(b)
  BY <1>1, CompleterOthers
<1>7. UNCHANGED <<AbsCells, AbsKerns>>
  <2>. HIDE DEF IInv, Reap
  <2>. QED
    BY <1>3, <1>5, <1>6, Update
<1>. QED
  BY <1>7

(* Inside of complete the object is what was taken out of it.               *)
LEMMA InsideQuiet ==
  ASSUME IInv, NEW r \in Reaper, CompleteLock(r) \/ CompleteStore(r) \/ CompleteDrop(r)
  PROVE  UNCHANGED <<AbsCells, waker, AbsKerns, notified>>
<1>. USE DEF IInv, TypeOK, CompleteLock, CompleteStore, CompleteDrop, ReaperState
<1>. DEFINE a == raddr[r]
<1>1. a \in Addr /\ raddr' = raddr /\ UNCHANGED <<waker, kern, ownerVars, notified>>
  BY DEF RefInv
<1>2. rpc'[r] \in InComplete
  BY DEF InComplete
<1>3. TakenBy(a)' = {r}
  BY <1>1, <1>2, SentinelAssumption DEF TakenBy, RefInv, InComplete
<1>4. owner[a] \notin {"checking", "free"}
  <2>1. CASE CompleteLock(r)
    <3>1. cell[a] # "Free" /\ Pending(a)
      BY <1>1, <2>1 DEF CellInv, Pending, At
    <3>. QED
      BY <1>1, <2>1, <3>1 DEF LockInv, OwnerInLock, OwnerInv, CellInv, PuttingBack
  <2>2. CASE CompleteStore(r) \/ CompleteDrop(r)
    BY <1>1, <2>2 DEF ReaperInv, Awaiting
  <2>. QED
    BY <2>1, <2>2
<1>5. (CHOOSE q \in {r} : TRUE) = r
  OBVIOUS
<1>6. AbstractCell(a)' = took'[r]
  BY <1>1, <1>3, <1>4, <1>5 DEF AbstractCell, ownerVars
<1>7. AbstractCell(a) = took'[r]
  <2>1. CASE CompleteLock(r)
    <3>1. \A q \in Reaper : ~At(q, a, InComplete)
      BY <1>1, <2>1, SentinelAssumption DEF RefInv, At, InComplete
    <3>. QED
      BY <1>1, <1>4, <2>1, <3>1, NotTaken DEF AbstractCell
  <2>2. CASE CompleteStore(r) \/ CompleteDrop(r)
    BY <2>2, Taken DEF InComplete
  <2>. QED
    BY <2>1, <2>2
<1>8. AbstractKern(a) = "posted" /\ AbstractKern(a)' = "posted"
  BY <1>1 DEF AbstractKern
<1>9. \A b \in Addr \ {a} :
        AbstractCell(b)' = AbstractCell(b) /\ AbstractKern(b)' = AbstractKern(b)
  BY <1>1, CompleterOthers
<1>. QED
  BY <1>1, <1>6, <1>7, <1>8, <1>9, Update

(* Leaving complete is complete.                                            *)
LEMMA LeaveEffect ==
  ASSUME IInv, FreeInv, NEW r \in Reaper, CompleteWake(r) \/ CompleteFree(r)
  PROVE  Api!Next
<1>. USE DEF IInv, TypeOK, CompleteWake, CompleteFree, LeaveComplete, ReaperState
<1>. PICK a \in Addr : raddr[r] = a
  BY Taken DEF InComplete
<1>1. /\ AbstractCell(a) = took[r] /\ AbstractKern(a) = "posted"
      /\ UNCHANGED <<kern, ownerVars>>
  BY Taken DEF InComplete
<1>2. kern[a] = "none" /\ \A q \in Reaper : raddr'[q] # a
  BY <1>1, SentinelAssumption DEF RefInv
<1>3. TakenBy(a)' = {} /\ AbstractKern(a)' = "none"
  BY <1>1, <1>2 DEF TakenBy, AbstractKern
<1>4. owner[a] \notin {"checking", "free"}
  BY <1>1 DEF ReaperInv, Awaiting
<1>5. AbstractCell(a)' = cell'[a]
  BY <1>1, <1>3, <1>4 DEF AbstractCell, ownerVars
<1>6. \A b \in Addr \ {a} :
        AbstractCell(b)' = AbstractCell(b) /\ AbstractKern(b)' = AbstractKern(b)
  <2>1. raddr'[r] = NoAddr
    OBVIOUS
  <2>. QED
    BY <1>1, <2>1, CompleterOthers
<1>7. /\ AbsCells' = [AbsCells EXCEPT ![a] = cell'[a]]
      /\ AbsKerns' = [AbsKerns EXCEPT ![a] = "none"]
      /\ AbsCells[a] = took[r] /\ AbsKerns[a] = "posted"
  BY <1>1, <1>3, <1>5, <1>6, Update
<1>8. CASE CompleteWake(r)
  <2>1. took[r] = "Submitted" /\ cell'[a] = "Completed"
    BY <1>1, <1>8 DEF ReaperInv
  <2>2. Api!CompleteWake(a)
    BY <1>1, <1>7, <1>8, <2>1 DEF Api!CompleteWake, AbsCells, AbsKerns
  <2>. QED
    BY <1>1, <2>2 DEF Api!Next, Api!Complete
<1>9. CASE CompleteFree(r)
  <2>1. took[r] = "Cancelled" /\ cell'[a] = "Free"
    BY <1>1, <1>9 DEF FreeInv
  <2>2. Api!CompleteDrop(a)
    BY <1>1, <1>7, <1>9, <2>1 DEF Api!CompleteDrop, AbsCells, AbsKerns
  <2>. QED
    BY <1>1, <2>2 DEF Api!Next, Api!Complete
<1>. QED
  BY <1>8, <1>9

(* The code under the mutex and the heap it works on do to a completion     *)
(* object only what the one-step API does: the safety part of Atomic.       *)
THEOREM ImplementsApi == Spec => Api!Init /\ [][Api!Next]_(Api!vars)
<1>1. Init => Api!Init
  <2>. SUFFICES ASSUME Init PROVE Api!Init
    OBVIOUS
  <2>1. \A a \in Addr : TakenBy(a) = {} /\ \A r \in Reaper : raddr[r] # a
    BY SentinelAssumption DEF Init, TakenBy
  <2>2. \A a \in Addr : AbstractCell(a) = "Free" /\ AbstractKern(a) = "none"
    BY <2>1 DEF Init, AbstractCell, AbstractKern
  <2>. QED
    BY <2>2 DEF Init, Api!Init
<1>2. Init => FreeInv
  BY DEF Init, FreeInv
<1>3. IInv /\ FreeInv /\ [Next]_vars => [Api!Next]_(Api!vars)
  <2>. SUFFICES ASSUME IInv, FreeInv, [Next]_vars
                PROVE  [Api!Next]_(Api!vars)
    OBVIOUS
  <2>1. CASE \E a \in Addr : Owner(a) \/ Post(a)
    BY <2>1, OwnerSteps
  <2>2. ASSUME NEW r \in Reaper, Completer(r) PROVE [Api!Next]_(Api!vars)
    <3>1. CASE \E a \in Addr : Reap(r, a)
      BY <3>1, ReapQuiet DEF Api!vars, AbsCells, AbsKerns
    <3>2. CASE CompleteLock(r) \/ CompleteStore(r) \/ CompleteDrop(r)
      BY <3>2, InsideQuiet DEF Api!vars, AbsCells, AbsKerns
    <3>3. CASE CompleteWake(r) \/ CompleteFree(r)
      BY <3>3, LeaveEffect
    <3>. QED
      BY <2>2, <3>1, <3>2, <3>3 DEF Completer
  <2>3. CASE UNCHANGED vars
    <3>1. \A a \in Addr : AbstractCell(a)' = AbstractCell(a) /\ AbstractKern(a)' = AbstractKern(a)
      BY <2>3, Others DEF vars, ownerVars, reaperVars
    <3>. QED
      BY <2>3, <3>1 DEF vars, Api!vars
  <2>. QED
    BY <2>1, <2>2, <2>3 DEF Next
<1>4. IInv /\ FreeInv /\ [Next]_vars => FreeInv'
  BY FreeInvStep
<1>. QED
  BY <1>1, <1>2, <1>3, <1>4, Invariance, PTL DEF Spec
=============================================================================
