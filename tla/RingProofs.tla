----------------------------- MODULE RingProofs -----------------------------
(***************************************************************************)
(* Proofs about Ring, for any number of rings, addresses and SQEs: its     *)
(* safety invariants hold, every step uses completions as module           *)
(* Completion has it, and every step is to each ring's owner one that      *)
(* module IoRing allows.                                                   *)
(***************************************************************************)
EXTENDS Ring, TLAPS

(* What a ring's State, its completion and its task's place say of each     *)
(* other.                                                                   *)
StateInv == \A r \in Ring :
  /\ rst[r] \in {"Prepared", "Submitted"} => raddr[r] \in Addr
  /\ pc[r] = "submit" => rst[r] = "Prepared"

(* The waker in an awaited completion is that of the ring that holds it.    *)
WakerInv == \A a \in Addr : cell[a] = "Submitted" =>
  waker[a] \in Ring /\ Holds(waker[a], a)

(* A ring was woken through the completion it holds, if that has a result,  *)
(* and through no other.                                                    *)
NotifiedInv == \A a \in Addr, r \in Ring :
  <<a, r>> \in notified <=> Holds(r, a) /\ cell[a] = "Completed"

(* A task that was sent away has an event, or the driver has seen to it.    *)
ParkedInv == \A r \in Ring : pc[r] = "parked" =>
  r \in woken \/ r \in waiters \/ rst[r] \in {"Prepared", "Submitted"}

IInv ==
  /\ TypeOK /\ StateInv /\ SoleOwner /\ UserDataValid
  /\ WakerInv /\ NotifiedInv /\ ParkedInv

-----------------------------------------------------------------------------
(* Every step preserves the invariant: a lemma for each action.             *)

LEMMA PrepareReadyStep ==
  ASSUME IInv, NEW r \in Ring, NEW a \in Addr, PrepareReady(r, a)
  PROVE  IInv'
<1>. USE RingAssumption DEF IInv, PrepareReady, Cells!New, InPoll
<1>1. TypeOK'
  BY DEF TypeOK, RingState, Ran, Cells!TypeOK, Cells!CellState, Cells!KernState
<1>2. StateInv'
  BY DEF StateInv, TypeOK
<1>3. SoleOwner'
  BY DEF SoleOwner, Holds, StateInv, TypeOK, Cells!TypeOK
<1>4. UserDataValid'
  BY DEF UserDataValid, TypeOK, Cells!TypeOK
<1>5. WakerInv'
  BY DEF WakerInv, SoleOwner, Holds, TypeOK, Cells!TypeOK
<1>6. NotifiedInv'
  <2>. SUFFICES ASSUME NEW b \in Addr, NEW q \in Ring
                PROVE  <<b, q>> \in notified <=> Holds(q, b)' /\ cell'[b] = "Completed"
    BY DEF NotifiedInv
  <2>1. <<b, q>> \in notified <=> Holds(q, b) /\ cell[b] = "Completed"
    BY DEF NotifiedInv
  <2>2. b # a => (Holds(q, b)' <=> Holds(q, b)) /\ cell'[b] = cell[b]
    BY DEF Holds, TypeOK, Cells!TypeOK
  <2>3. cell[a] = "Free" /\ cell'[a] = "Submitted"
    BY DEF TypeOK, Cells!TypeOK
  <2>. QED
    BY <2>1, <2>2, <2>3
<1>7. ParkedInv'
  BY DEF ParkedInv, TypeOK, Ran
<1>. QED
  BY <1>1, <1>2, <1>3, <1>4, <1>5, <1>6, <1>7

LEMMA PreparePendingStep ==
  ASSUME IInv, NEW r \in Ring, PreparePending(r)
  PROVE  IInv'
<1>. USE DEF IInv, PreparePending, InPoll, cells, kernelVars
<1>1. TypeOK'
  BY DEF TypeOK, Ran, Cells!TypeOK
<1>2. StateInv' /\ ParkedInv'
  BY DEF StateInv, ParkedInv, TypeOK, Ran
<1>3. SoleOwner' /\ UserDataValid' /\ WakerInv' /\ NotifiedInv'
  BY DEF SoleOwner, UserDataValid, WakerInv, NotifiedInv, Holds
<1>. QED
  BY <1>1, <1>2, <1>3

LEMMA SubmitReadyStep ==
  ASSUME IInv, NEW r \in Ring, NEW flush \in BOOLEAN, SubmitReady(r, flush)
  PROVE  IInv'
<1>. USE DEF IInv, SubmitReady, InPoll, cells, driverVars
<1>1. TypeOK'
  BY DEF TypeOK, RingState, Cells!TypeOK
<1>2. StateInv' /\ ParkedInv'
  BY DEF StateInv, ParkedInv, TypeOK
<1>3. \A q \in Ring, a \in Addr : Holds(q, a)' <=> Holds(q, a)
  BY DEF StateInv, Holds, TypeOK
<1>4. SoleOwner' /\ UserDataValid' /\ WakerInv' /\ NotifiedInv'
  BY <1>3 DEF SoleOwner, UserDataValid, WakerInv, NotifiedInv
<1>. QED
  BY <1>1, <1>2, <1>4

LEMMA SubmitPendingStep ==
  ASSUME IInv, NEW r \in Ring, SubmitPending(r)
  PROVE  IInv'
<1>. USE DEF IInv, SubmitPending, InPoll, cells, kernelVars
<1>1. TypeOK'
  BY DEF TypeOK, Cells!TypeOK
<1>2. StateInv' /\ ParkedInv'
  BY DEF StateInv, ParkedInv, TypeOK
<1>3. SoleOwner' /\ UserDataValid' /\ WakerInv' /\ NotifiedInv'
  BY DEF SoleOwner, UserDataValid, WakerInv, NotifiedInv, Holds
<1>. QED
  BY <1>1, <1>2, <1>3

(* What a ring gives up, by taking the result or by cancelling, was its     *)
(* alone.                                                                   *)
LEMMA ReleaseStep ==
  ASSUME IInv, NEW r \in Ring, ~InPoll(r), rst[r] \in {"Prepared", "Submitted"},
         \/ Cells!Dispose(raddr[r])
         \/ Cells!CancelDetach(raddr[r]),
         rst' \in [Ring -> RingState], rst'[r] \notin {"Prepared", "Submitted"},
         raddr' \in [Ring -> Addr \cup {NoAddr}],
         \A q \in Ring \ {r} : rst'[q] = rst[q] /\ raddr'[q] = raddr[q],
         pc' = [pc EXCEPT ![r] = "idle"], Ran(r), UNCHANGED <<waiters, kernelVars>>
  PROVE  IInv'
<1>. USE RingAssumption DEF IInv, InPoll, kernelVars, Cells!Dispose, Cells!CancelDetach
<1>1. raddr[r] \in Addr
  BY DEF StateInv
<1>2. TypeOK'
  BY <1>1 DEF TypeOK, Ran, Cells!TypeOK, Cells!CellState, Cells!KernState
<1>3. StateInv' /\ ParkedInv'
  BY DEF StateInv, ParkedInv, TypeOK, Ran
<1>4. \A q \in Ring, a \in Addr : Holds(q, a)' <=> Holds(q, a) /\ a # raddr[r]
  BY <1>1 DEF Holds, SoleOwner
<1>5. SoleOwner' /\ UserDataValid' /\ WakerInv'
  BY <1>1, <1>4 DEF SoleOwner, UserDataValid, WakerInv, TypeOK, Cells!TypeOK
<1>6. NotifiedInv'
  <2>. SUFFICES ASSUME NEW b \in Addr, NEW q \in Ring
                PROVE  <<b, q>> \in notified' <=> Holds(q, b)' /\ cell'[b] = "Completed"
    BY DEF NotifiedInv
  <2>1. <<b, q>> \in notified <=> Holds(q, b) /\ cell[b] = "Completed"
    BY DEF NotifiedInv
  <2>2. b # raddr[r] =>
          cell'[b] = cell[b] /\ (<<b, q>> \in notified' <=> <<b, q>> \in notified)
    BY <1>1 DEF TypeOK, Cells!TypeOK
  <2>3. <<raddr[r], q>> \notin notified'
    <3>1. CASE Cells!Dispose(raddr[r])
      BY <3>1
    <3>2. CASE Cells!CancelDetach(raddr[r])
      BY <1>1, <3>2 DEF NotifiedInv
    <3>. QED
      BY <3>1, <3>2
  <2>. QED
    BY <1>4, <2>1, <2>2, <2>3
<1>. QED
  BY <1>2, <1>3, <1>5, <1>6

LEMMA CheckReadyStep ==
  ASSUME IInv, NEW r \in Ring, CheckReady(r)
  PROVE  IInv'
<1>. USE DEF CheckReady
<1>1. rst \in [Ring -> RingState] /\ raddr \in [Ring -> Addr \cup {NoAddr}]
  BY DEF IInv, TypeOK
<1>2. /\ rst' \in [Ring -> RingState] /\ rst'[r] = "Inert"
      /\ raddr' \in [Ring -> Addr \cup {NoAddr}]
      /\ \A q \in Ring \ {r} : rst'[q] = rst[q] /\ raddr'[q] = raddr[q]
  BY <1>1 DEF RingState
<1>3. Cells!Dispose(raddr[r])
  BY DEF Cells!CheckReady
<1>. QED
  BY <1>2, <1>3, ReleaseStep

LEMMA CancelStep ==
  ASSUME IInv, NEW r \in Ring, Cancel(r)
  PROVE  IInv'
<1>. USE DEF Cancel
<1>1. rst \in [Ring -> RingState] /\ raddr \in [Ring -> Addr \cup {NoAddr}]
  BY DEF IInv, TypeOK
<1>2. /\ rst' \in [Ring -> RingState] /\ rst'[r] = "Cancelled"
      /\ raddr' \in [Ring -> Addr \cup {NoAddr}]
      /\ \A q \in Ring \ {r} : rst'[q] = rst[q] /\ raddr'[q] = raddr[q]
  BY <1>1 DEF RingState
<1>3. Cells!Dispose(raddr[r]) \/ Cells!CancelDetach(raddr[r])
  BY DEF Cells!Cancel, Cells!CancelFinished
<1>. QED
  BY <1>2, <1>3, ReleaseStep

LEMMA CheckPendingStep ==
  ASSUME IInv, NEW r \in Ring, CheckPending(r)
  PROVE  IInv'
<1>. USE DEF IInv, CheckPending, Cells!CheckPending, InPoll, kernelVars
<1>1. TypeOK'
  BY DEF TypeOK, Ran, Cells!TypeOK
<1>2. StateInv' /\ ParkedInv'
  BY DEF StateInv, ParkedInv, TypeOK, Ran
<1>3. SoleOwner' /\ UserDataValid' /\ NotifiedInv'
  BY DEF SoleOwner, UserDataValid, NotifiedInv, Holds
<1>4. WakerInv'
  BY DEF WakerInv, StateInv, Holds, TypeOK, Cells!TypeOK
<1>. QED
  BY <1>1, <1>2, <1>3, <1>4

LEMMA AbandonStep ==
  ASSUME IInv, NEW r \in Ring, Abandon(r)
  PROVE  IInv'
<1>. USE DEF IInv, Abandon, cells, kernelVars
<1>1. TypeOK'
  BY DEF TypeOK, Ran, Cells!TypeOK
<1>2. StateInv' /\ ParkedInv'
  BY DEF StateInv, ParkedInv, TypeOK, Ran
<1>3. SoleOwner' /\ UserDataValid' /\ WakerInv' /\ NotifiedInv'
  BY DEF SoleOwner, UserDataValid, WakerInv, NotifiedInv, Holds
<1>. QED
  BY <1>1, <1>2, <1>3

LEMMA RenewStep ==
  ASSUME IInv, NEW r \in Ring, Renew(r)
  PROVE  IInv'
<1>. USE DEF IInv, Renew, cells, driverVars, kernelVars
<1>1. TypeOK'
  BY DEF TypeOK, RingState, Cells!TypeOK
<1>2. StateInv' /\ ParkedInv'
  BY DEF StateInv, ParkedInv, TypeOK
<1>3. \A q \in Ring, a \in Addr : Holds(q, a)' <=> Holds(q, a)
  BY DEF Holds, TypeOK
<1>4. SoleOwner' /\ UserDataValid' /\ WakerInv' /\ NotifiedInv'
  BY <1>3 DEF SoleOwner, UserDataValid, WakerInv, NotifiedInv
<1>. QED
  BY <1>1, <1>2, <1>4

LEMMA DriverStep ==
  ASSUME IInv, Flush \/ WakeWaiters
  PROVE  IInv'
<1>. USE DEF IInv, Flush, WakeWaiters, cells, ringVars, driverVars, kernelVars
<1>1. TypeOK'
  BY DEF TypeOK, Cells!TypeOK
<1>2. StateInv' /\ ParkedInv'
  BY DEF StateInv, ParkedInv
<1>3. SoleOwner' /\ UserDataValid' /\ WakerInv' /\ NotifiedInv'
  BY DEF SoleOwner, UserDataValid, WakerInv, NotifiedInv, Holds
<1>. QED
  BY <1>1, <1>2, <1>3

(* The kernel posts a CQE, of an event of its own accord or of the target   *)
(* of a linked cancel; or it gives up the cancel.                           *)
LEMMA KernelStep ==
  ASSUME IInv, NEW a \in Addr, Post(a) \/ LinkedCancel(a)
  PROVE  IInv'
<1>. USE DEF IInv, ringVars, driverVars
<1>1. link' \in [Addr -> Addr \cup {NoAddr}]
  BY DEF TypeOK, Post, LinkedCancel
<1>2. UNCHANGED <<ringVars, driverVars, sq>>
  BY DEF Post, LinkedCancel
<1>3. UNCHANGED cells \/ \E b \in Addr : Cells!Post(b)
  <2>1. link[a] \in Addr \cup {NoAddr}
    BY DEF TypeOK
  <2>2. CASE Post(a)
    BY <2>2 DEF Post
  <2>3. CASE LinkedCancel(a)
    BY <2>1, <2>3 DEF LinkedCancel
  <2>. QED
    BY <2>2, <2>3
<1>4. cell' = cell /\ waker' = waker /\ notified' = notified
  BY <1>3 DEF cells, Cells!Post
<1>5. /\ kern' \in [Addr -> Cells!KernState]
      /\ \A b \in Addr : kern'[b] # "none" <=> kern[b] # "none"
  BY <1>3 DEF TypeOK, Cells!TypeOK, Cells!KernState, cells, Cells!Post
<1>6. TypeOK' /\ UserDataValid'
  BY <1>1, <1>2, <1>4, <1>5 DEF TypeOK, Cells!TypeOK, UserDataValid
<1>7. StateInv' /\ SoleOwner' /\ WakerInv' /\ NotifiedInv' /\ ParkedInv'
  BY <1>2, <1>4 DEF StateInv, SoleOwner, WakerInv, NotifiedInv, ParkedInv, Holds
<1>. QED
  BY <1>6, <1>7

(* A CQE is processed: the ring that awaits it is woken, or the object of   *)
(* one that does not is freed.                                              *)
LEMMA CompleteStep ==
  ASSUME IInv, NEW a \in Addr, Complete(a)
  PROVE  IInv'
<1>. USE DEF IInv, Complete, Cells!Complete, Cells!CompleteWake, Cells!CompleteDrop,
             ringVars, driverVars, kernelVars
<1>1. TypeOK'
  BY DEF TypeOK, WakerInv, Cells!TypeOK, Cells!CellState, Cells!KernState
<1>2. StateInv' /\ ParkedInv'
  BY DEF StateInv, ParkedInv
<1>3. SoleOwner' /\ UserDataValid' /\ WakerInv'
  BY DEF SoleOwner, UserDataValid, WakerInv, Holds, TypeOK, Cells!TypeOK
<1>4. NotifiedInv'
  <2>. SUFFICES ASSUME NEW b \in Addr, NEW q \in Ring
                PROVE  <<b, q>> \in notified' <=> Holds(q, b) /\ cell'[b] = "Completed"
    BY DEF NotifiedInv, Holds
  <2>1. <<b, q>> \in notified <=> Holds(q, b) /\ cell[b] = "Completed"
    BY DEF NotifiedInv
  <2>2. b # a => cell'[b] = cell[b] /\ (<<b, q>> \in notified' <=> <<b, q>> \in notified)
    BY DEF TypeOK, Cells!TypeOK
  <2>3. CASE Cells!CompleteWake(a)
    <3>1. Holds(q, a) <=> q = waker[a]
      BY <2>3 DEF WakerInv, SoleOwner
    <3>2. <<a, q>> \in notified' <=> q = waker[a]
      BY <2>1, <2>3 DEF NotifiedInv
    <3>. QED
      BY <2>1, <2>2, <2>3, <3>1, <3>2 DEF TypeOK, Cells!TypeOK
  <2>4. CASE Cells!CompleteDrop(a)
    BY <2>1, <2>2, <2>4 DEF TypeOK, Cells!TypeOK
  <2>. QED
    BY <2>3, <2>4
<1>. QED
  BY <1>1, <1>2, <1>3, <1>4

LEMMA NextIInv == IInv /\ [Next]_vars => IInv'
<1>. SUFFICES ASSUME IInv, [Next]_vars PROVE IInv'
  OBVIOUS
<1>1. CASE UNCHANGED vars
  BY <1>1 DEF vars, cells, ringVars, driverVars, kernelVars, IInv, TypeOK, StateInv,
    SoleOwner, UserDataValid, WakerInv, NotifiedInv, ParkedInv, Holds, Cells!TypeOK
<1>2. CASE \E r \in Ring : Poll(r)
  BY <1>2, PrepareReadyStep, PreparePendingStep, CheckReadyStep, CheckPendingStep DEF Poll
<1>3. CASE \E r \in Ring : Submit(r)
  BY <1>3, SubmitReadyStep, SubmitPendingStep DEF Submit
<1>4. CASE \E r \in Ring : Cancel(r) \/ Abandon(r) \/ Renew(r)
  BY <1>4, CancelStep, AbandonStep, RenewStep
<1>5. CASE Flush \/ WakeWaiters
  BY <1>5, DriverStep
<1>6. CASE \E a \in Addr : Post(a) \/ LinkedCancel(a) \/ Complete(a)
  BY <1>6, KernelStep, CompleteStep
<1>. QED
  BY <1>1, <1>2, <1>3, <1>4, <1>5, <1>6 DEF Next

-----------------------------------------------------------------------------
(* The inductive invariant holds throughout.                                *)
THEOREM Invariance == Spec => []IInv
<1>1. Init => IInv
  BY RingAssumption DEF Init, IInv, TypeOK, RingState, StateInv, SoleOwner, UserDataValid,
    WakerInv, NotifiedInv, ParkedInv, Holds, Cells!Init, Cells!TypeOK,
    Cells!CellState, Cells!KernState
<1>. QED
  BY <1>1, NextIInv, PTL DEF Spec

(* Type correctness; in particular no ring is left Lost by a poll.          *)
THEOREM TypeCorrect == Spec => []TypeOK
BY Invariance, PTL DEF IInv

(* Completion values and heap objects match one to one.                     *)
THEOREM OwnerIsSole == Spec => []SoleOwner
BY Invariance, PTL DEF IInv

(* The user_data of a CQE names an object that waits for it, and of a       *)
(* waiting object there is one to come.                                     *)
THEOREM UserDataIsValid == Spec => []UserDataValid
BY Invariance, PTL DEF IInv

(* No Pending of a poll leaves the task without a waker or a wake-up.       *)
THEOREM ParkedIsWoken == Spec => []ParkedWillBeWoken
<1>1. IInv => ParkedWillBeWoken
  <2>. SUFFICES ASSUME IInv, NEW r \in Ring, pc[r] = "parked", r \notin woken, r \notin waiters
                PROVE  \/ \E a \in Addr : <<a, r>> \in notified
                       \/ \E a \in Addr :
                            Holds(r, a) /\ cell[a] = "Submitted" /\ waker[a] = r
    BY DEF ParkedWillBeWoken, Scheduled
  <2>1. Holds(r, raddr[r]) /\ raddr[r] \in Addr
    BY DEF IInv, ParkedInv, StateInv, Holds
  <2>2. CASE cell[raddr[r]] = "Completed"
    BY <2>1, <2>2 DEF IInv, NotifiedInv
  <2>3. CASE cell[raddr[r]] = "Submitted"
    BY <2>1, <2>3 DEF IInv, WakerInv, SoleOwner
  <2>. QED
    BY <2>1, <2>2, <2>3 DEF IInv, SoleOwner
<1>. QED
  BY Invariance, <1>1, PTL

-----------------------------------------------------------------------------
(* Rings, driver and kernel together do to completions only what module     *)
(* Completion has them do: the safety part of UsesCompletions.              *)
THEOREM ImplementsCompletion == Spec => Cells!Init /\ [][Cells!Next]_(Cells!vars)
<1>1. Init => Cells!Init
  BY DEF Init
<1>2. IInv /\ [Next]_vars => [Cells!Next]_(Cells!vars)
  <2>. SUFFICES ASSUME IInv, [Next]_vars
                PROVE  Cells!Next \/ UNCHANGED cells
    BY DEF cells, Cells!vars
  <2>. USE DEF Cells!Next, ringVars, driverVars, kernelVars
  <2>1. ASSUME NEW r \in Ring, Poll(r) PROVE Cells!Next \/ UNCHANGED cells
    <3>1. ASSUME rst[r] \in {"Prepared", "Submitted"} PROVE raddr[r] \in Addr
      BY <3>1 DEF IInv, StateInv
    <3>. QED
      BY <2>1, <3>1 DEF Poll, PrepareReady, PreparePending, CheckReady, CheckPending
  <2>2. ASSUME NEW r \in Ring, Submit(r) \/ Abandon(r) \/ Renew(r) PROVE UNCHANGED cells
    BY <2>2 DEF Submit, SubmitPending, SubmitReady, Abandon, Renew
  <2>3. ASSUME NEW r \in Ring, Cancel(r) PROVE Cells!Next
    BY <2>3 DEF IInv, StateInv, Cancel
  <2>4. CASE Flush \/ WakeWaiters \/ UNCHANGED vars
    BY <2>4 DEF Flush, WakeWaiters, vars
  <2>5. ASSUME NEW a \in Addr, Post(a) \/ LinkedCancel(a) \/ Complete(a)
        PROVE  Cells!Next \/ UNCHANGED cells
    <3>1. link[a] # NoAddr => link[a] \in Addr
      BY DEF IInv, TypeOK
    <3>. QED
      BY <2>5, <3>1 DEF Post, LinkedCancel, Complete
  <2>. QED
    BY <2>1, <2>2, <2>3, <2>4, <2>5 DEF Next
<1>. QED
  BY Invariance, <1>1, <1>2, PTL DEF Spec

(* A ring's event and result, as module IoRing has them.                    *)
EventOf(r) == IF rst[r] \in {"Prepared", "Submitted"} THEN raddr[r] ELSE NoAddr

ResultOf(r) ==
  IF rst[r] \in {"Prepared", "Submitted"} /\ cell[raddr[r]] = "Completed"
    THEN "ready" ELSE "none"

Still(r) == EventOf(r)' = EventOf(r) /\ ResultOf(r)' = ResultOf(r)

(* What a step may do to them.                                              *)
LEMMA PromiseStep ==
  ASSUME NEW r \in Ring,
         \/ Still(r)
         \/ \E e \in Addr : EventOf(r) = NoAddr /\ EventOf(r)' = e /\ ResultOf(r)' = "none"
         \/ /\ EventOf(r) # NoAddr /\ ResultOf(r) = "none"
            /\ EventOf(r)' = EventOf(r) /\ ResultOf(r)' = "ready"
         \/ EventOf(r) # NoAddr /\ EventOf(r)' = NoAddr /\ ResultOf(r)' = "none"
  PROVE  Promise(r)!RingStep(Addr, {"ready"})
BY DEF Still, EventOf, ResultOf, Promise!RingStep, Promise!Prepare, Promise!Finish,
  Promise!Return, Promise!Cancel

(* What rings do not hold, steps do to no ring.                             *)
LEMMA StillStep ==
  ASSUME IInv, NEW q \in Ring, rst'[q] = rst[q], raddr'[q] = raddr[q],
         \A a \in Addr : Holds(q, a) => cell'[a] = cell[a]
  PROVE  Still(q)
BY DEF IInv, StateInv, Holds, Still, EventOf, ResultOf

(* To its owner each ring is what IoRing promises: an event at a time, its  *)
(* result once, and no new event before it was returned or cancelled.       *)
THEOREM PromiseKept == Spec => KeepsPromise
<1>1. Init => \A r \in Ring : Promise(r)!RingInit
  BY DEF Init, Promise!RingInit
<1>2. IInv /\ [Next]_vars =>
        [\A r \in Ring : Promise(r)!RingStep(Addr, {"ready"})]_vars
  <2>. SUFFICES ASSUME IInv, Next, NEW q \in Ring
                PROVE  Promise(q)!RingStep(Addr, {"ready"})
    OBVIOUS
  <2>. USE RingAssumption
  <2>1. /\ rst \in [Ring -> RingState] /\ raddr \in [Ring -> Addr \cup {NoAddr}]
        /\ cell \in [Addr -> Cells!CellState]
    BY DEF IInv, TypeOK, Cells!TypeOK
  <2>2. ASSUME NEW r \in Ring, NEW a \in Addr, PrepareReady(r, a)
        PROVE  Promise(q)!RingStep(Addr, {"ready"})
    <3>1. CASE r = q
      <4>1. EventOf(q) = NoAddr /\ EventOf(q)' = a /\ ResultOf(q)' = "none"
        BY <2>1, <2>2, <3>1 DEF PrepareReady, Cells!New, EventOf, ResultOf
      <4>. QED
        BY <4>1, PromiseStep
    <3>2. CASE r # q
      BY <2>1, <2>2, <3>2, StillStep, PromiseStep DEF IInv, SoleOwner, PrepareReady, Cells!New
    <3>. QED
      BY <3>1, <3>2
  <2>3. ASSUME NEW r \in Ring, CheckReady(r) \/ Cancel(r)
        PROVE  Promise(q)!RingStep(Addr, {"ready"})
    <3>1. /\ raddr[r] \in Addr /\ Holds(r, raddr[r])
          /\ \A a \in Addr : a # raddr[r] => cell'[a] = cell[a]
      BY <2>1, <2>3 DEF IInv, StateInv, Holds, CheckReady, Cancel, Cells!CheckReady, Cells!Cancel,
        Cells!CancelDetach, Cells!CancelFinished, Cells!Dispose
    <3>2. CASE r = q
      <4>1. EventOf(q) # NoAddr /\ EventOf(q)' = NoAddr /\ ResultOf(q)' = "none"
        BY <2>1, <2>3, <3>1, <3>2 DEF CheckReady, Cancel, EventOf, ResultOf
      <4>. QED
        BY <4>1, PromiseStep
    <3>3. CASE r # q
      <4>1. rst'[q] = rst[q] /\ raddr'[q] = raddr[q] /\ ~Holds(q, raddr[r])
        BY <2>1, <2>3, <3>1, <3>3 DEF CheckReady, Cancel, IInv, SoleOwner
      <4>. QED
        BY <3>1, <4>1, StillStep, PromiseStep
    <3>. QED
      BY <3>2, <3>3
  <2>4. ASSUME NEW r \in Ring,
               \/ PreparePending(r) \/ CheckPending(r) \/ Submit(r) \/ Abandon(r) \/ Renew(r)
        PROVE  Promise(q)!RingStep(Addr, {"ready"})
    <3>1. Still(q)
      BY <2>1, <2>4 DEF IInv, StateInv, InPoll, PreparePending, CheckPending, Cells!CheckPending,
        Submit, SubmitReady, SubmitPending, Abandon, Renew, cells, Still, EventOf, ResultOf
    <3>. QED
      BY <3>1, PromiseStep
  <2>5. ASSUME NEW a \in Addr, Complete(a)
        PROVE  Promise(q)!RingStep(Addr, {"ready"})
    <3>1. UNCHANGED <<rst, raddr>> /\ \A b \in Addr \ {a} : cell'[b] = cell[b]
      BY <2>1, <2>5 DEF Complete, Cells!Complete, Cells!CompleteWake, Cells!CompleteDrop, ringVars
    <3>2. CASE Holds(q, a)
      <4>1. cell[a] = "Submitted" /\ cell'[a] = "Completed"
        BY <2>1, <2>5, <3>2 DEF IInv, SoleOwner, Complete, Cells!Complete, Cells!CompleteWake,
          Cells!CompleteDrop
      <4>2. /\ EventOf(q) # NoAddr /\ ResultOf(q) = "none"
            /\ EventOf(q)' = EventOf(q) /\ ResultOf(q)' = "ready"
        BY <3>1, <3>2, <4>1 DEF Holds, EventOf, ResultOf
      <4>. QED
        BY <4>2, PromiseStep
    <3>3. CASE ~Holds(q, a)
      BY <3>1, <3>3, StillStep, PromiseStep
    <3>. QED
      BY <3>2, <3>3
  <2>6. ASSUME \/ Flush \/ WakeWaiters
               \/ \E a \in Addr : Post(a) \/ LinkedCancel(a)
        PROVE  Promise(q)!RingStep(Addr, {"ready"})
    <3>1. UNCHANGED <<rst, raddr, cell>>
      BY <2>6 DEF Flush, WakeWaiters, Post, LinkedCancel, Cells!Post, cells, ringVars
    <3>. QED
      BY <3>1, StillStep, PromiseStep
  <2>. QED
    BY <2>2, <2>3, <2>4, <2>5, <2>6 DEF Next, Poll
<1>. QED
  BY Invariance, <1>1, <1>2, PTL DEF Spec, KeepsPromise
=============================================================================
