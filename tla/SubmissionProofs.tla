-------------------------- MODULE SubmissionProofs --------------------------
(***************************************************************************)
(* Proofs about Submission, for any number of submissions, completions and *)
(* events.  The ring's own invariant is that of module RingProofs.         *)
(***************************************************************************)
EXTENDS Submission, Events, TLAPS

P == INSTANCE RingProofs

(* An event in a slot is in that slot only, which is where its data is.     *)
SlotInv ==
  /\ \A s \in Ring : slot[s] # NoEvent => place[slot[s]] = "slot"
  /\ \A s, t \in Ring : slot[s] # NoEvent /\ slot[s] = slot[t] => s = t
  /\ \A e \in Event : place[e] = "slot" => \E s \in Ring : slot[s] = e

(* What a submission awaits is its event.                                   *)
HoldsInv == \A s \in Ring, a \in Addr : R!Holds(s, a) =>
  slot[s] # NoEvent /\ using[a] = slot[s]

IdleInv == \A s \in Ring : pc[s] = "idle" => rst[s] \in {"Inert", "Cancelled"}

(* Callbacks that are stored are of different events, and are all of those  *)
(* that are left of events.                                                 *)
CallbackInv ==
  /\ \A a \in Addr : cell[a] = "Cancelled" =>
       using[a] \in Event /\ place[using[a]] = "callback"
  /\ \A a, b \in Addr :
       cell[a] = "Cancelled" /\ cell[b] = "Cancelled" /\ using[a] = using[b] => a = b
  /\ \A e \in Event : place[e] = "callback" =>
       \E a \in Addr : cell[a] = "Cancelled" /\ using[a] = e

TypeInv ==
  /\ slot \in [Ring -> Event \cup {NoEvent}]
  /\ place \in [Event -> Place]
  /\ using \in [Addr -> Event \cup {NoEvent}]

IInv == P!IInv /\ TypeInv /\ SlotInv /\ HoldsInv /\ IdleInv /\ CallbackInv

-----------------------------------------------------------------------------
(* The ring, the driver and the kernel take steps of module Ring.           *)

LEMMA RingInvariant ==
  ASSUME P!IInv, [R!Next]_(R!vars)
  PROVE  P!IInv'
<1>1. P!RingAssumption
  BY SubmissionAssumption DEF P!RingAssumption
<1>. USE DEF R!cells, P!cells, R!ringVars, P!ringVars, R!driverVars, P!driverVars,
             R!kernelVars, P!kernelVars, R!InPoll, P!InPoll, R!Ran, P!Ran
<1>2. ASSUME NEW r \in Ring, R!Poll(r) PROVE P!Poll(r)
  <2>1. R!SqesUsed = P!SqesUsed /\ R!SqesNeeded(r) = P!SqesNeeded(r)
    BY DEF R!SqesUsed, P!SqesUsed, R!SqesNeeded, P!SqesNeeded, R!Cardinality, P!Cardinality
  <2>2. R!Room(r) => P!Room(r)
    BY <2>1 DEF R!Room, P!Room
  <2>3. ASSUME NEW a \in Addr, R!PrepareReady(r, a) PROVE P!PrepareReady(r, a)
    BY <2>2, <2>3 DEF R!PrepareReady, P!PrepareReady, R!Cells!New, P!Cells!New
  <2>4. R!PreparePending(r) => P!PreparePending(r)
    BY DEF R!PreparePending, P!PreparePending
  <2>5. R!CheckReady(r) => P!CheckReady(r)
    BY DEF R!CheckReady, P!CheckReady, R!Cells!CheckReady, P!Cells!CheckReady,
       R!Cells!Dispose, P!Cells!Dispose
  <2>6. R!CheckPending(r) => P!CheckPending(r)
    BY DEF R!CheckPending, P!CheckPending, R!Cells!CheckPending, P!Cells!CheckPending
  <2>. QED
    BY <1>2, <2>3, <2>4, <2>5, <2>6 DEF R!Poll, P!Poll
<1>3. ASSUME NEW r \in Ring, R!Submit(r) PROVE P!Submit(r)
  BY <1>3 DEF R!Submit, P!Submit, R!SubmitPending, P!SubmitPending, R!SubmitReady, P!SubmitReady
<1>4. ASSUME NEW r \in Ring, R!Cancel(r) \/ R!Abandon(r) \/ R!Renew(r)
      PROVE  P!Cancel(r) \/ P!Abandon(r) \/ P!Renew(r)
  BY <1>4 DEF R!Cancel, P!Cancel, R!Abandon, P!Abandon, R!Renew, P!Renew,
     R!Cells!Cancel, P!Cells!Cancel, R!Cells!CancelDetach, P!Cells!CancelDetach,
     R!Cells!CancelFinished, P!Cells!CancelFinished, R!Cells!Dispose, P!Cells!Dispose
<1>5. ASSUME R!Flush \/ R!WakeWaiters PROVE P!Flush \/ P!WakeWaiters
  BY <1>5 DEF R!Flush, P!Flush, R!WakeWaiters, P!WakeWaiters
<1>6. ASSUME NEW a \in Addr, R!Post(a) \/ R!LinkedCancel(a) \/ R!Complete(a)
      PROVE  P!Post(a) \/ P!LinkedCancel(a) \/ P!Complete(a)
  BY <1>6 DEF R!Post, P!Post, R!LinkedCancel, P!LinkedCancel, R!Complete, P!Complete,
     R!Running, P!Running, R!Cells!Post, P!Cells!Post, R!Cells!Complete, P!Cells!Complete,
     R!Cells!CompleteWake, P!Cells!CompleteWake, R!Cells!CompleteDrop, P!Cells!CompleteDrop
<1>7. UNCHANGED R!vars => UNCHANGED P!vars
  BY DEF R!vars, P!vars
<1>8. [P!Next]_(P!vars)
  BY <1>2, <1>3, <1>4, <1>5, <1>6, <1>7 DEF R!Next, P!Next
<1>. QED
  BY <1>1, <1>8, P!NextIInv

(* What it says of rings and completions.                                   *)
LEMMA RingFacts ==
  ASSUME P!IInv
  PROVE  /\ R!TypeOK
         /\ R!SoleOwner
         /\ R!UserDataValid
         /\ \A s \in Ring : rst[s] \in {"Prepared", "Submitted"} =>
              raddr[s] \in Addr /\ R!Holds(s, raddr[s])
<1>1. R!TypeOK
  BY DEF P!IInv, R!TypeOK, P!TypeOK, R!RingState, P!RingState, R!Cells!TypeOK, P!Cells!TypeOK,
     R!Cells!CellState, P!Cells!CellState, R!Cells!KernState, P!Cells!KernState
<1>2. R!SoleOwner /\ R!UserDataValid
  BY DEF P!IInv, R!SoleOwner, P!SoleOwner, R!Holds, P!Holds, R!UserDataValid, P!UserDataValid
<1>3. \A s \in Ring : rst[s] \in {"Prepared", "Submitted"} =>
        raddr[s] \in Addr /\ R!Holds(s, raddr[s])
  BY DEF P!IInv, P!StateInv, R!Holds
<1>. QED
  BY <1>1, <1>2, <1>3

-----------------------------------------------------------------------------
(* Every step preserves the invariant: a lemma for each kind of step.       *)

EventsInv == TypeInv /\ SlotInv /\ HoldsInv /\ IdleInv /\ CallbackInv

(* Events are where they were, no ring awaits another event, and as many    *)
(* callbacks are stored.                                                    *)
LEMMA StayStep ==
  ASSUME IInv, UNCHANGED eventVars,
         \A s \in Ring, a \in Addr : R!Holds(s, a)' => R!Holds(s, a),
         \A a \in Addr : cell'[a] = "Cancelled" <=> cell[a] = "Cancelled",
         IdleInv'
  PROVE  EventsInv'
BY DEF IInv, EventsInv, eventVars, TypeInv, SlotInv, HoldsInv, CallbackInv

LEMMA PollPendingStep ==
  ASSUME IInv, NEW s \in Ring, PollPending(s)
  PROVE  EventsInv'
<1>. USE DEF PollPending, R!PreparePending, R!CheckPending, R!Cells!CheckPending,
             R!cells, R!kernelVars
<1>1. R!TypeOK
  BY RingFacts DEF IInv
<1>2. UNCHANGED <<eventVars, rst, raddr, cell>>
  OBVIOUS
<1>3. IdleInv'
  BY <1>1 DEF IInv, IdleInv, R!TypeOK
<1>. QED
  BY <1>2, <1>3, StayStep DEF R!Holds

LEMMA SubmitStep ==
  ASSUME IInv, NEW s \in Ring, Submit(s) \/ Renew(s)
  PROVE  EventsInv'
<1>. USE DEF Submit, Renew, R!Submit, R!SubmitPending, R!SubmitReady, R!Renew,
             R!cells, R!kernelVars, R!driverVars, R!InPoll
<1>1. R!TypeOK /\ (rst[s] = "Prepared" \/ pc[s] # "submit")
  BY RingFacts DEF IInv, P!IInv, P!StateInv
<1>2. UNCHANGED <<eventVars, cell>>
  OBVIOUS
<1>3. IdleInv'
  BY <1>1 DEF IInv, IdleInv, R!TypeOK
<1>4. \A t \in Ring, a \in Addr : R!Holds(t, a)' => R!Holds(t, a)
  BY <1>1 DEF R!Holds, R!TypeOK
<1>. QED
  BY <1>2, <1>3, <1>4, StayStep

LEMMA DriverStep ==
  ASSUME IInv, Driver \/ \E a \in Addr : Kernel(a)
  PROVE  EventsInv'
<1>1. UNCHANGED <<eventVars, rst, raddr, pc, cell>>
  BY DEF Driver, Kernel, R!Flush, R!WakeWaiters, R!Post, R!LinkedCancel, R!Cells!Post,
     R!cells, R!ringVars, R!kernelVars, R!driverVars
<1>. QED
  BY <1>1, StayStep DEF IInv, IdleInv, R!Holds

LEMMA NewStep ==
  ASSUME IInv, NEW s \in Ring, NEW e \in Event, New(s, e)
  PROVE  EventsInv'
<1>. USE SubmissionAssumption DEF IInv, New, ringVars, TypeInv
<1>1. TypeInv'
  BY DEF Place
<1>2. SlotInv'
  BY DEF SlotInv
<1>3. HoldsInv' /\ IdleInv'
  BY DEF HoldsInv, IdleInv, R!Holds
<1>4. CallbackInv'
  BY DEF CallbackInv
<1>. QED
  BY <1>1, <1>2, <1>3, <1>4 DEF EventsInv

LEMMA PollPrepareStep ==
  ASSUME IInv, NEW s \in Ring, NEW a \in Addr, PollPrepare(s, a)
  PROVE  EventsInv'
<1>. USE DEF IInv, PollPrepare, R!PrepareReady, R!Cells!New, R!InPoll, TypeInv
<1>1. R!TypeOK /\ R!SoleOwner
  BY RingFacts
<1>2. TypeInv' /\ SlotInv'
  BY DEF SlotInv
<1>3. HoldsInv'
  BY <1>1 DEF HoldsInv, R!Holds, R!TypeOK, R!SoleOwner
<1>4. IdleInv'
  BY <1>1 DEF IdleInv, R!TypeOK
<1>5. CallbackInv'
  BY <1>1 DEF CallbackInv, R!TypeOK, R!Cells!TypeOK
<1>. QED
  BY <1>2, <1>3, <1>4, <1>5 DEF EventsInv

LEMMA PollReadyStep ==
  ASSUME IInv, NEW s \in Ring, PollReady(s)
  PROVE  EventsInv'
<1>. USE DEF IInv, PollReady, R!CheckReady, R!Cells!CheckReady, R!Cells!Dispose, R!InPoll, TypeInv
<1>1. R!TypeOK /\ R!SoleOwner /\ raddr[s] \in Addr /\ R!Holds(s, raddr[s])
  BY RingFacts
<1>2. slot[s] \in Event
  OBVIOUS
<1>3. TypeInv'
  BY <1>2 DEF Place
<1>4. SlotInv'
  BY SubmissionAssumption, <1>2 DEF SlotInv
<1>5. HoldsInv'
  BY <1>1 DEF HoldsInv, R!Holds, R!TypeOK, R!SoleOwner
<1>6. IdleInv'
  BY <1>1 DEF IdleInv, R!TypeOK
<1>7. CallbackInv'
  BY <1>1 DEF CallbackInv, SlotInv, R!TypeOK, R!Cells!TypeOK
<1>. QED
  BY <1>3, <1>4, <1>5, <1>6, <1>7 DEF EventsInv

(* Cancelling leaves a callback where the kernel still has the event, and   *)
(* the ring awaits nothing in any case.                                     *)
LEMMA GiveUp ==
  ASSUME IInv, NEW s \in Ring, slot[s] # NoEvent, CancelEvent(s), UNCHANGED using
  PROVE  /\ slot[s] \in Event /\ place[slot[s]] = "slot"
         /\ AfterCancel(s) \in {"out", "callback"}
         /\ \A t \in Ring, a \in Addr : R!Holds(t, a)' => R!Holds(t, a) /\ t # s
         /\ \A a \in Addr : cell'[a] = "Cancelled" =>
              \/ cell[a] = "Cancelled"
              \/ AfterCancel(s) = "callback" /\ using[a] = slot[s] /\ a = raddr[s]
         /\ \A a \in Addr : cell[a] = "Cancelled" => cell'[a] = "Cancelled"
         /\ AfterCancel(s) = "callback" =>
              \E a \in Addr : cell'[a] = "Cancelled" /\ using[a] = slot[s]
         /\ IdleInv'
<1>. USE DEF IInv
<1>1. R!TypeOK /\ R!SoleOwner
  BY RingFacts
<1>2. slot[s] \in Event /\ place[slot[s]] = "slot"
  BY DEF TypeInv, SlotInv
<1>3. CASE R!Cancel(s)
  <2>. USE <1>3 DEF R!Cancel, R!Cells!Cancel, R!Cells!CancelDetach, R!Cells!CancelFinished,
                    R!Cells!Dispose, R!InPoll
  <2>1. raddr[s] \in Addr /\ R!Holds(s, raddr[s])
    BY RingFacts
  <2>2. using[raddr[s]] = slot[s]
    BY <2>1 DEF HoldsInv
  <2>3. IdleInv'
    BY <1>1 DEF IdleInv, R!TypeOK
  <2>4. \A t \in Ring, a \in Addr : R!Holds(t, a)' => R!Holds(t, a) /\ t # s
    BY <1>1 DEF R!Holds, R!TypeOK
  <2>. QED
    BY <1>1, <1>2, <2>1, <2>2, <2>3, <2>4 DEF AfterCancel, R!TypeOK, R!Cells!TypeOK
<1>4. CASE R!Abandon(s) \/ (pc[s] = "idle" /\ UNCHANGED ringVars)
  <2>. USE <1>4 DEF R!Abandon, ringVars, R!cells, R!kernelVars
  <2>1. rst[s] \in {"Inert", "Cancelled"} /\ UNCHANGED <<cell, rst, raddr>>
    BY DEF IdleInv
  <2>2. IdleInv'
    BY <1>1, <2>1 DEF IdleInv, R!TypeOK
  <2>3. \A t \in Ring, a \in Addr : R!Holds(t, a)' => R!Holds(t, a) /\ t # s
    BY <2>1 DEF R!Holds
  <2>. QED
    BY <1>2, <2>1, <2>2, <2>3 DEF AfterCancel
<1>. QED
  BY <1>3, <1>4 DEF CancelEvent

LEMMA ReplaceEventStep ==
  ASSUME IInv, NEW s \in Ring, NEW e \in Event, ReplaceEvent(s, e)
  PROVE  EventsInv'
<1>. USE SubmissionAssumption DEF IInv, ReplaceEvent, TypeInv
<1>. DEFINE old == slot[s]
<1>1. /\ old \in Event /\ place[old] = "slot" /\ old # e
      /\ AfterCancel(s) \in {"out", "callback"}
      /\ IdleInv'
  BY GiveUp
<1>2. \A t \in Ring, a \in Addr : R!Holds(t, a)' => R!Holds(t, a) /\ t # s
  BY GiveUp
<1>3. TypeInv'
  BY <1>1 DEF Place
<1>4. SlotInv'
  BY <1>1 DEF SlotInv
<1>5. HoldsInv'
  BY <1>2 DEF HoldsInv
<1>6. CallbackInv'
  BY <1>1, GiveUp DEF CallbackInv
<1>. QED
  BY <1>1, <1>3, <1>4, <1>5, <1>6 DEF EventsInv

LEMMA DropStep ==
  ASSUME IInv, NEW s \in Ring, Drop(s)
  PROVE  EventsInv'
<1>. USE SubmissionAssumption DEF IInv, Drop, TypeInv
<1>1. /\ slot[s] \in Event /\ place[slot[s]] = "slot"
      /\ AfterCancel(s) \in {"out", "callback"}
      /\ IdleInv'
  BY GiveUp
<1>2. \A t \in Ring, a \in Addr : R!Holds(t, a)' => R!Holds(t, a) /\ t # s
  BY GiveUp
<1>3. TypeInv'
  BY <1>1 DEF Place
<1>4. SlotInv'
  BY <1>1 DEF SlotInv
<1>5. HoldsInv'
  BY <1>2 DEF HoldsInv
<1>6. CallbackInv'
  BY <1>1, GiveUp DEF CallbackInv
<1>. QED
  BY <1>1, <1>3, <1>4, <1>5, <1>6 DEF EventsInv

LEMMA CompleteStep ==
  ASSUME IInv, NEW a \in Addr, Complete(a)
  PROVE  EventsInv'
<1>. USE DEF IInv, Complete, TypeInv
<1>1. R!TypeOK /\ R!SoleOwner
  BY RingFacts
<1>2. UNCHANGED <<rst, raddr, pc, slot>>
  BY DEF R!Complete, R!ringVars
<1>3. \A b \in Addr : cell'[b] = "Cancelled" <=> cell[b] = "Cancelled" /\ b # a
  BY <1>1 DEF R!Complete, R!Cells!Complete, R!Cells!CompleteWake, R!Cells!CompleteDrop,
     R!TypeOK, R!Cells!TypeOK
<1>4. IdleInv'
  BY <1>2 DEF IdleInv
<1>5. CASE cell[a] = "Cancelled"
  <2>1. /\ using[a] \in Event /\ place[using[a]] = "callback"
        /\ \A b \in Addr : cell[b] = "Cancelled" /\ using[b] = using[a] => b = a
        /\ \A s \in Ring : ~R!Holds(s, a)
    BY <1>1, <1>5 DEF CallbackInv, R!SoleOwner
  <2>2. TypeInv' /\ SlotInv'
    BY <1>2, <1>5, <2>1 DEF SlotInv, Place
  <2>3. HoldsInv'
    BY <1>2, <1>5, <2>1 DEF HoldsInv, R!Holds
  <2>4. CallbackInv'
    BY <1>3, <1>5, <2>1 DEF CallbackInv
  <2>. QED
    BY <1>4, <2>2, <2>3, <2>4 DEF EventsInv
<1>6. CASE cell[a] # "Cancelled"
  BY <1>2, <1>3, <1>4, <1>6, StayStep DEF eventVars, R!Holds
<1>. QED
  BY <1>5, <1>6

(* Whatever a submission does, its ring takes a step of module Ring.        *)
LEMMA RingStep ==
  ASSUME Next
  PROVE  [R!Next]_(R!vars)
<1>. USE DEF R!vars, R!cells, R!ringVars, R!driverVars, R!kernelVars, ringVars
<1>1. ASSUME NEW s \in Ring, Poll(s) PROVE R!Next
  BY <1>1 DEF Poll, PollPending, PollReady, PollPrepare, R!Next, R!Poll
<1>2. ASSUME NEW s \in Ring, Submit(s) \/ Renew(s) PROVE R!Next
  BY <1>2 DEF Submit, Renew, R!Next
<1>3. ASSUME NEW s \in Ring, Drop(s) \/ \E e \in Event : ReplaceEvent(s, e)
      PROVE  R!Next \/ UNCHANGED R!vars
  BY <1>3 DEF Drop, ReplaceEvent, CancelEvent, R!Next
<1>4. ASSUME NEW s \in Ring, NEW e \in Event, New(s, e) PROVE UNCHANGED R!vars
  BY <1>4 DEF New
<1>5. CASE Driver
  BY <1>5 DEF Driver, R!Next
<1>6. ASSUME NEW a \in Addr, Kernel(a) \/ Complete(a) PROVE R!Next
  BY <1>6 DEF Kernel, Complete, R!Next
<1>. QED
  BY <1>1, <1>2, <1>3, <1>4, <1>5, <1>6 DEF Next

LEMMA NextIInv == IInv /\ [Next]_vars => IInv'
<1>. SUFFICES ASSUME IInv, [Next]_vars PROVE IInv'
  OBVIOUS
<1>1. CASE UNCHANGED vars
  <2>1. UNCHANGED R!vars /\ UNCHANGED eventVars
    BY <1>1 DEF vars, ringVars, R!vars, R!cells, R!ringVars, R!driverVars, R!kernelVars
  <2>2. P!IInv'
    BY <2>1, RingInvariant DEF IInv
  <2>3. EventsInv'
    BY <1>1, StayStep DEF vars, ringVars, IInv, IdleInv, R!Holds
  <2>. QED
    BY <2>2, <2>3 DEF EventsInv, IInv
<1>2. CASE Next
  <2>1. P!IInv'
    BY <1>2, RingStep, RingInvariant DEF IInv
  <2>2. EventsInv'
    BY <1>2, PollPendingStep, PollReadyStep, PollPrepareStep, SubmitStep, DropStep, NewStep,
       ReplaceEventStep, DriverStep, CompleteStep DEF Next, Poll
  <2>. QED
    BY <2>1, <2>2 DEF EventsInv, IInv
<1>. QED
  BY <1>1, <1>2

-----------------------------------------------------------------------------
(* The inductive invariant holds throughout.                                *)
THEOREM Invariance == Spec => []IInv
<1>1. Init => IInv
  <2>. SUFFICES ASSUME Init PROVE IInv
    OBVIOUS
  <2>1. P!IInv
    BY SubmissionAssumption DEF Init, R!Init, R!Cells!Init, P!IInv, P!TypeOK, P!RingState,
       P!StateInv, P!SoleOwner, P!UserDataValid, P!WakerInv, P!NotifiedInv, P!ParkedInv,
       P!Holds, P!Cells!TypeOK, P!Cells!CellState, P!Cells!KernState
  <2>2. TypeInv /\ SlotInv /\ HoldsInv /\ IdleInv /\ CallbackInv
    BY SubmissionAssumption DEF Init, R!Init, R!Cells!Init, TypeInv, Place, SlotInv, HoldsInv,
       IdleInv, CallbackInv, R!Holds
  <2>. QED
    BY <2>1, <2>2 DEF IInv
<1>. QED
  BY <1>1, NextIInv, PTL DEF Spec

(* Type correctness, of rings and of events.                                *)
THEOREM TypeCorrect == Spec => []TypeOK
<1>1. IInv => TypeOK
  BY RingFacts DEF IInv, TypeInv, TypeOK
<1>. QED
  BY <1>1, Invariance, PTL

(* What a submission returns is the result of the event it returns.         *)
THEOREM ResultIsOwn == Spec => []ResultIsOfTheSlot
<1>1. IInv => ResultIsOfTheSlot
  BY DEF IInv, HoldsInv, ResultIsOfTheSlot
<1>. QED
  BY <1>1, Invariance, PTL

(* Events that are not with the user are in one slot, or in a callback.     *)
THEOREM EventsAreKept == Spec => []NoEventLost
<1>1. IInv => NoEventLost
  BY SubmissionAssumption DEF IInv, SlotInv, CallbackInv, NoEventLost
<1>. QED
  BY <1>1, Invariance, PTL

(* The halves of a pair are of types that do not need the second word.      *)
LEMMA PairFreesBoth ==
  ASSUME NEW o, NEW p, NEW l, NEW r, l \in {Boxed(o), CStr(o)}, r \in {Boxed(p), CStr(p)}
  PROVE  From(Pair(l, r)) = {o, p}
BY DEF From, IntoRaw, DropRaw, DropPair, Free, Object, NoMetadata, Boxed, CStr, Pair

(* What a value owned is freed from the two words and the function that are *)
(* left of it, whatever its type.                                           *)
THEOREM CallbackFreesAll ==
  /\ From(Unit) = {}
  /\ \A o : /\ From(Boxed(o)) = {o} /\ From(CStr(o)) = {o}
           /\ From(Dyn(o)) = {o} /\ From(RegisteredBuf(o)) = {o}
  /\ \A o, owns : From(Slice(o, owns)) = {o} \cup owns
  /\ \A o, p, l, r : l \in {Boxed(o), CStr(o)} /\ r \in {Boxed(p), CStr(p)} =>
       From(Pair(l, r)) = {o, p}
<1>1. From(Unit) = {}
  BY DEF From, IntoRaw, DropRaw, Unit
<1>2. \A o : /\ From(Boxed(o)) = {o} /\ From(CStr(o)) = {o}
             /\ From(Dyn(o)) = {o} /\ From(RegisteredBuf(o)) = {o}
  BY DEF From, IntoRaw, DropRaw, Free, Object, NoMetadata, Boxed, CStr, Dyn, RegisteredBuf
<1>3. \A o, owns : From(Slice(o, owns)) = {o} \cup owns
  BY DEF From, IntoRaw, DropRaw, Free, Object, Slice
<1>. QED
  BY <1>1, <1>2, <1>3, PairFreesBoth

(* No event of the library lends what its callback does not keep.           *)
LEMMA EveryKindKeeps ==
  ASSUME NEW n \in DOMAIN EventKinds
  PROVE  EventKinds[n].lends \subseteq EventKinds[n].keeps
<1>1. From(Pair(Boxed("statx"), CStr("path"))) = {"statx", "path"}
  BY PairFreesBoth
<1>. QED
  BY <1>1, CallbackFreesAll
     DEF EventKinds, Read, ReadFixed, Write, WriteFixed, Recv, Send, ReadVectored, WriteVectored,
       Accept, Connect, EpollCtl, FilesUpdate, OpenAt, Statx, Timeout, ProvideBuffers, Close,
       Fadvise, Fallocate, Fsync, RemoveBuffers, Splice, StaticTimeout, DefaultCancel

(* What the kernel works on is alive, if the events are of the library's    *)
(* kinds.                                                                   *)
THEOREM LentDataStaysAlive ==
  ASSUME \A e \in Event : \E n \in DOMAIN EventKinds : Kind[e] = EventKinds[n]
  PROVE  Spec => []LentDataAlive
<1>1. IInv => LentDataAlive
  <2>. SUFFICES ASSUME IInv, NEW a \in Addr, kern[a] = "owned"
                PROVE  \/ /\ place[using[a]] = "slot"
                          /\ \E s \in Ring : slot[s] = using[a] /\ R!Holds(s, a)
                       \/ /\ place[using[a]] = "callback"
                          /\ cell[a] = "Cancelled"
                          /\ using[a] \in Event
    BY EveryKindKeeps DEF LentDataAlive
  <2>1. R!SoleOwner /\ cell[a] \in {"Submitted", "Cancelled"}
    BY RingFacts DEF IInv, R!UserDataValid
  <2>. QED
    BY <2>1 DEF IInv, R!SoleOwner, HoldsInv, SlotInv, CallbackInv
<1>. QED
  BY <1>1, Invariance, PTL

(* A Submission takes no steps of its ring but those of module Ring: the    *)
(* safety part of UsesRing.                                                 *)
THEOREM ImplementsRing == Spec => R!Init /\ [][R!Next]_(R!vars)
<1>1. Init => R!Init
  BY DEF Init
<1>2. [Next]_vars => [R!Next]_(R!vars)
  BY RingStep DEF vars, ringVars, R!vars, R!cells, R!ringVars, R!driverVars, R!kernelVars
<1>. QED
  BY <1>1, <1>2, PTL DEF Spec
=============================================================================
