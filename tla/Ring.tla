-------------------------------- MODULE Ring --------------------------------
(***************************************************************************)
(* src/ring/mod.rs: the Ring state machine that cycles through IO events,  *)
(* on top of a driver that keeps the contract of the Drive trait           *)
(* (src/drive/mod.rs) and of completion objects (module Completion).       *)
(*                                                                         *)
(* A poll is several steps, because the driver is entered twice and other  *)
(* tasks, the kernel and the CQE-processing thread run in between:         *)
(* poll_prepare (or poll_complete), then poll_submit.  Every ring is       *)
(* polled by a task of its own and is identified with it.                  *)
(*                                                                         *)
(* The driver is any implementation of the contract: it may accept or      *)
(* refuse an event while the queue has room, submit at poll_submit or      *)
(* later, and has to wake whom it sent away.  Module DemoDriver models the *)
(* driver that comes with the library.                                     *)
(***************************************************************************)
EXTENDS Naturals, FiniteSets

CONSTANTS
  Ring,     \* rings, each with the task that polls it
  Addr,     \* heap addresses of completions
  Entries,  \* SQEs the submission queue can hold
  NoAddr,   \* the absence of an address
  NoTask    \* the absence of a waker

ASSUME RingAssumption ==
  NoAddr \notin Addr /\ NoTask \notin Ring /\ Entries \in Nat

VARIABLES
  cell, waker, kern, notified,  \* the completions: see module Completion
  rst,      \* rst[r]: the State of ring r
  raddr,    \* raddr[r]: the completion, or the address State::Cancelled keeps
  pc,       \* pc[r]: where r's task is
  waiters,  \* rings whose waker the driver holds, having returned Pending
  woken,    \* rings the driver woke that have not been polled since
  sq,       \* addresses of the events on the submission queue
  link      \* link[a]: target of the cancel hard-linked before event a

cells == <<cell, waker, kern, notified>>
ringVars == <<rst, raddr, pc>>
driverVars == <<waiters, woken>>
kernelVars == <<sq, link>>
vars == <<cells, ringVars, driverVars, kernelVars>>

Cells == INSTANCE Completion WITH Task <- Ring

RingState == {"Inert", "Prepared", "Submitted", "Cancelled"}

TypeOK ==
  /\ Cells!TypeOK
  /\ rst \in [Ring -> RingState]
  /\ raddr \in [Ring -> Addr \cup {NoAddr}]
  /\ pc \in [Ring -> {"idle", "submit", "parked"}]
  /\ waiters \subseteq Ring
  /\ woken \subseteq Ring
  /\ sq \subseteq Addr
  /\ link \in [Addr -> Addr \cup {NoAddr}]

Init ==
  /\ Cells!Init
  /\ rst = [r \in Ring |-> "Inert"]
  /\ raddr = [r \in Ring |-> NoAddr]
  /\ pc = [r \in Ring |-> "idle"]
  /\ waiters = {}
  /\ woken = {}
  /\ sq = {}
  /\ link = [a \in Addr |-> NoAddr]

-----------------------------------------------------------------------------
(* Ring::poll.                                                              *)

InPoll(r) == pc[r] = "submit"

(* The task runs, for itself: what it was woken for is seen to.             *)
Ran(r) == woken' = woken \ {r}

(* An event takes one SQE, and one more for a cancel linked before it.      *)
SqesUsed == Cardinality(sq) + Cardinality({a \in sq : link[a] # NoAddr})
SqesNeeded(r) == IF rst[r] = "Cancelled" THEN 2 ELSE 1
Room(r) == SqesUsed + SqesNeeded(r) <= Entries

(* Faulty: the allocation of the cancelled event is used again.             *)
PrepareReadyReuses(r, a) ==
  /\ ~InPoll(r)
  /\ rst[r] \in {"Inert", "Cancelled"}
  /\ cell[a] = "Free" \/ raddr[r] = a
  /\ Room(r)
  /\ cell' = [cell EXCEPT ![a] = "Submitted"]
  /\ waker' = [waker EXCEPT ![a] = r]
  /\ kern' = [kern EXCEPT ![a] = "owned"]
  /\ sq' = sq \cup {a}
  /\ link' = [link EXCEPT ![a] = NoAddr]
  /\ rst' = [rst EXCEPT ![r] = "Prepared"]
  /\ raddr' = [raddr EXCEPT ![r] = a]
  /\ pc' = [pc EXCEPT ![r] = "submit"]
  /\ Ran(r)
  /\ UNCHANGED <<notified, waiters>>

(* poll_prepare when the driver finds SQEs: the event, with a new completion *)
(* at a, is put on the queue, after a cancel of the previous event if that  *)
(* one was cancelled.                                                       *)
PrepareReady(r, a) ==
  /\ ~InPoll(r)
  /\ rst[r] \in {"Inert", "Cancelled"}
  /\ Room(r)
  /\ Cells!New(a, r)
  /\ sq' = sq \cup {a}
  /\ link' = [link EXCEPT ![a] = raddr[r]]
  /\ rst' = [rst EXCEPT ![r] = "Prepared"]
  /\ raddr' = [raddr EXCEPT ![r] = a]
  /\ pc' = [pc EXCEPT ![r] = "submit"]
  /\ Ran(r)
  /\ UNCHANGED waiters

(* Faulty: the driver returns Pending and keeps no waker.                   *)
PreparePendingForgets(r) ==
  /\ ~InPoll(r)
  /\ rst[r] \in {"Inert", "Cancelled"}
  /\ pc' = [pc EXCEPT ![r] = "parked"]
  /\ Ran(r)
  /\ UNCHANGED <<cells, rst, raddr, waiters, kernelVars>>

(* poll_prepare when the driver is not ready: it keeps the task's waker.    *)
PreparePending(r) ==
  /\ ~InPoll(r)
  /\ rst[r] \in {"Inert", "Cancelled"}
  /\ waiters' = waiters \cup {r}
  /\ pc' = [pc EXCEPT ![r] = "parked"]
  /\ Ran(r)
  /\ UNCHANGED <<cells, rst, raddr, kernelVars>>

(* poll_submit: the driver submits the queue (flush) or leaves it for later; *)
(* an error of the submission is ignored and looks like the latter.         *)
SubmitReady(r, flush) ==
  /\ InPoll(r)
  /\ sq' = IF flush THEN {} ELSE sq
  /\ rst' = [rst EXCEPT ![r] = "Submitted"]
  /\ pc' = [pc EXCEPT ![r] = "parked"]
  /\ UNCHANGED <<cells, raddr, driverVars, link>>

(* poll_submit when the driver wants to be called again.                    *)
SubmitPending(r) ==
  /\ InPoll(r)
  /\ waiters' = waiters \cup {r}
  /\ pc' = [pc EXCEPT ![r] = "parked"]
  /\ UNCHANGED <<cells, rst, raddr, woken, kernelVars>>

(* Faulty: the State taken out by mem::replace is not put back.             *)
CheckReadyLosesState(r) ==
  /\ ~InPoll(r)
  /\ rst[r] \in {"Prepared", "Submitted"}
  /\ Cells!CheckReady(raddr[r])
  /\ rst' = [rst EXCEPT ![r] = "Lost"]
  /\ raddr' = [raddr EXCEPT ![r] = NoAddr]
  /\ pc' = [pc EXCEPT ![r] = "idle"]
  /\ Ran(r)
  /\ UNCHANGED <<waiters, kernelVars>>

(* poll_complete: the event has a result, which poll returns.               *)
CheckReady(r) ==
  /\ ~InPoll(r)
  /\ rst[r] \in {"Prepared", "Submitted"}
  /\ Cells!CheckReady(raddr[r])
  /\ rst' = [rst EXCEPT ![r] = "Inert"]
  /\ raddr' = [raddr EXCEPT ![r] = NoAddr]
  /\ pc' = [pc EXCEPT ![r] = "idle"]
  /\ Ran(r)
  /\ UNCHANGED <<waiters, kernelVars>>

(* poll_complete: not yet.  From Prepared, poll goes on to submit.          *)
CheckPending(r) ==
  /\ ~InPoll(r)
  /\ rst[r] \in {"Prepared", "Submitted"}
  /\ Cells!CheckPending(raddr[r], r)
  /\ pc' = [pc EXCEPT ![r] = IF rst[r] = "Prepared" THEN "submit" ELSE "parked"]
  /\ Ran(r)
  /\ UNCHANGED <<rst, raddr, waiters, kernelVars>>

Poll(r) ==
  \/ \E a \in Addr : PrepareReady(r, a)
  \/ PreparePending(r) \/ CheckReady(r) \/ CheckPending(r)

Submit(r) == SubmitPending(r) \/ \E flush \in BOOLEAN : SubmitReady(r, flush)

-----------------------------------------------------------------------------
(* Faulty: the ring goes on holding the completion it cancelled.            *)
CancelKeepsState(r) ==
  /\ ~InPoll(r)
  /\ rst[r] \in {"Prepared", "Submitted"}
  /\ Cells!Cancel(raddr[r])
  /\ pc' = [pc EXCEPT ![r] = "idle"]
  /\ Ran(r)
  /\ UNCHANGED <<rst, raddr, waiters, kernelVars>>

(* Ring::cancel with an event under way: the ring keeps its address.        *)
Cancel(r) ==
  /\ ~InPoll(r)
  /\ rst[r] \in {"Prepared", "Submitted"}
  /\ Cells!Cancel(raddr[r])
  /\ rst' = [rst EXCEPT ![r] = "Cancelled"]
  /\ pc' = [pc EXCEPT ![r] = "idle"]
  /\ Ran(r)
  /\ UNCHANGED <<raddr, waiters, kernelVars>>

(* The user stops waiting for room: nothing was prepared, cancel does nothing. *)
Abandon(r) ==
  /\ pc[r] = "parked"
  /\ rst[r] \in {"Inert", "Cancelled"}
  /\ pc' = [pc EXCEPT ![r] = "idle"]
  /\ Ran(r)
  /\ UNCHANGED <<cells, rst, raddr, waiters, kernelVars>>

(* The ring is dropped, after the cancel it requires, and a new one made.   *)
Renew(r) ==
  /\ pc[r] = "idle"
  /\ rst[r] = "Cancelled"
  /\ rst' = [rst EXCEPT ![r] = "Inert"]
  /\ raddr' = [raddr EXCEPT ![r] = NoAddr]
  /\ UNCHANGED <<cells, pc, driverVars, kernelVars>>

-----------------------------------------------------------------------------
(* The driver, outside of the calls a ring makes.                           *)
Flush ==
  /\ sq # {}
  /\ sq' = {}
  /\ UNCHANGED <<cells, ringVars, driverVars, link>>

(* A task that is not waiting takes no notice.                              *)
WakeWaiters ==
  /\ waiters # {}
  /\ woken' = woken \cup {r \in waiters : pc[r] # "idle"}
  /\ waiters' = {}
  /\ UNCHANGED <<cells, ringVars, kernelVars>>

-----------------------------------------------------------------------------
(* io-uring.  A hard-linked cancel runs before its event starts.            *)
Running(a) == kern[a] = "owned" /\ a \notin sq /\ link[a] = NoAddr

Post(a) ==
  /\ Running(a)
  /\ Cells!Post(a)
  /\ UNCHANGED <<ringVars, driverVars, sq, link>>

(* The cancel linked before a finds a running event with the user_data it   *)
(* was given and cancels it, or it finds none or cannot stop it.  Its own   *)
(* CQE has a null user_data, which complete ignores.                        *)
LinkedCancel(a) ==
  /\ kern[a] = "owned" /\ a \notin sq /\ link[a] # NoAddr
  /\ link' = [link EXCEPT ![a] = NoAddr]
  /\ \/ Running(link[a]) /\ Cells!Post(link[a])
     \/ UNCHANGED cells
  /\ UNCHANGED <<ringVars, driverVars, sq>>

(* drive::complete, on whichever thread processes CQEs.                     *)
Complete(a) == Cells!Complete(a) /\ UNCHANGED <<ringVars, driverVars, kernelVars>>

-----------------------------------------------------------------------------
Next ==
  \/ \E r \in Ring : Poll(r) \/ Submit(r) \/ Cancel(r) \/ Abandon(r) \/ Renew(r)
  \/ Flush \/ WakeWaiters
  \/ \E a \in Addr : Post(a) \/ LinkedCancel(a) \/ Complete(a)

Scheduled(r) == r \in woken \/ \E a \in Addr : <<a, r>> \in notified
PollScheduled(r) == pc[r] = "parked" /\ Scheduled(r) /\ Poll(r)

(* A poll that was entered goes on; a task that was woken is polled; the     *)
(* driver keeps its contract; the kernel finishes what it is given and CQEs *)
(* are processed.  Nobody has to start an event, to poll unasked, to cancel. *)
Fairness ==
  /\ \A r \in Ring : WF_vars(Submit(r)) /\ WF_vars(PollScheduled(r))
  /\ WF_vars(Flush) /\ WF_vars(WakeWaiters)
  /\ \A a \in Addr :
       WF_vars(Post(a)) /\ WF_vars(LinkedCancel(a)) /\ WF_vars(Complete(a))

Spec == Init /\ [][Next]_vars /\ Fairness

-----------------------------------------------------------------------------
Holds(r, a) == raddr[r] = a /\ rst[r] \in {"Prepared", "Submitted"}

(* Completion values and heap objects match: an object that still has an    *)
(* owner has exactly one, and a ring never holds a freed or cancelled one.  *)
SoleOwner ==
  /\ \A a \in Addr : cell[a] \in {"Submitted", "Completed"} =>
       \E r \in Ring : Holds(r, a)
  /\ \A r \in Ring : \A a \in Addr : Holds(r, a) =>
       /\ cell[a] \in {"Submitted", "Completed"}
       /\ \A q \in Ring : Holds(q, a) => q = r

(* io-uring refers to an object exactly while it waits for its CQE: a CQE   *)
(* never names a freed object, and no object waits for a CQE that will not  *)
(* come.                                                                    *)
UserDataValid ==
  \A a \in Addr : kern[a] # "none" <=> cell[a] \in {"Submitted", "Cancelled"}

(* A task whose poll returned Pending has been woken, or its waker is with  *)
(* the driver, or with a completion that io-uring has still to complete.    *)
ParkedWillBeWoken ==
  \A r \in Ring : pc[r] = "parked" =>
    \/ Scheduled(r)
    \/ r \in waiters
    \/ \E a \in Addr :
         Holds(r, a) /\ cell[a] = "Submitted" /\ waker[a] = r

(* An event that was prepared ends in a result or in a cancellation, though *)
(* the ring is polled only when it is woken.                                *)
AwaitedResolves ==
  \A r \in Ring :
    rst[r] \in {"Prepared", "Submitted"} ~> rst[r] \in {"Inert", "Cancelled"}

(* Rings, driver and kernel use completions as module Completion has it.    *)
UsesCompletions == Cells!Spec

(* To its owner, each ring is what module IoRing says: "once an event has   *)
(* been prepared, until it is completed or cancelled, a single ring         *)
(* instance will not prepare any additional events."                        *)
Promise(r) == INSTANCE IoRing WITH
  NoEvent <- NoAddr,
  NoResult <- "none",
  event <- IF rst[r] \in {"Prepared", "Submitted"} THEN raddr[r] ELSE NoAddr,
  result <- IF rst[r] \in {"Prepared", "Submitted"} /\ cell[raddr[r]] = "Completed"
            THEN "ready" ELSE "none"

KeepsPromise ==
  /\ \A r \in Ring : Promise(r)!RingInit
  /\ [][\A r \in Ring : Promise(r)!RingStep(Addr, {"ready"})]_vars

(* "Cancel any ongoing IO": the cancel a ring issues ends an event whose    *)
(* interest was cancelled, never one that is still awaited.                 *)
OnlyCancelledEventsAreCanceled ==
  [][\A a \in Addr :
       LinkedCancel(a) /\ kern' # kern => cell[link[a]] = "Cancelled"]_vars
=============================================================================
