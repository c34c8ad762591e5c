----------------------------- MODULE Submission -----------------------------
(***************************************************************************)
(* src/submission.rs: a Submission is a Ring and a slot for one event.     *)
(* What is followed here is the event's data: it is in the slot, in the    *)
(* user's hands, or in the cancellation callback stored in a completion,   *)
(* and the kernel works on it whichever of these it is.                    *)
(*                                                                         *)
(* The steps of the ring, the driver, the kernel and the completions are   *)
(* those of module Ring; UsesRing states that a Submission takes no other. *)
(***************************************************************************)
EXTENDS Naturals

CONSTANTS
  Ring,     \* submissions, each identified with the ring in it
  Addr, Entries, NoAddr, NoTask,   \* as in module Ring
  Event,    \* identities of event values
  Kind,     \* Kind[e]: what e lends and keeps, one of module Events
  NoEvent   \* Option::None in the slot

ASSUME SubmissionAssumption ==
  NoEvent \notin Event /\ NoAddr \notin Addr /\ NoTask \notin Ring /\ Entries \in Nat

VARIABLES
  cell, waker, kern, notified, rst, raddr, pc, waiters, woken, sq, link,
  slot,     \* slot[s]: the event in submission s
  place,    \* place[e]: where event e, or what is left of it, is
  using     \* using[a]: the event the SQE with user_data a was prepared from

ringVars ==
  <<cell, waker, kern, notified, rst, raddr, pc, waiters, woken, sq, link>>
eventVars == <<slot, place, using>>
vars == <<ringVars, eventVars>>

R == INSTANCE Ring

(* "out": not in the library: not made yet, returned to the user, dropped.  *)
Place == {"out", "slot", "callback"}

TypeOK ==
  /\ R!TypeOK
  /\ slot \in [Ring -> Event \cup {NoEvent}]
  /\ place \in [Event -> Place]
  /\ using \in [Addr -> Event \cup {NoEvent}]

Init ==
  /\ R!Init
  /\ slot = [s \in Ring |-> NoEvent]
  /\ place = [e \in Event |-> "out"]
  /\ using = [a \in Addr |-> NoEvent]

-----------------------------------------------------------------------------
(* Submission::new, or replace_event on a submission that has completed:    *)
(* the slot is filled and the ring is inert.                                *)
New(s, e) ==
  /\ slot[s] = NoEvent
  /\ rst[s] = "Inert"
  /\ place[e] = "out"
  /\ place' = [place EXCEPT ![e] = "slot"]
  /\ slot' = [slot EXCEPT ![s] = e]
  /\ UNCHANGED <<ringVars, using>>

(* poll, where the ring calls the event's prepare.                          *)
PollPrepare(s, a) ==
  /\ slot[s] # NoEvent
  /\ R!PrepareReady(s, a)
  /\ using' = [using EXCEPT ![a] = slot[s]]
  /\ UNCHANGED <<slot, place>>

(* poll, where the ring returns Pending.                                    *)
PollPending(s) ==
  /\ slot[s] # NoEvent
  /\ R!PreparePending(s) \/ R!CheckPending(s)
  /\ UNCHANGED eventVars

(* poll, where the ring has a result: the user gets the event with it.      *)
PollReady(s) ==
  /\ slot[s] # NoEvent
  /\ R!CheckReady(s)
  /\ place' = [place EXCEPT ![slot[s]] = "out"]
  /\ slot' = [slot EXCEPT ![s] = NoEvent]
  /\ using' = [using EXCEPT ![raddr[s]] = NoEvent]

Submit(s) == R!Submit(s) /\ UNCHANGED eventVars

(* ring.cancel(E::cancel(event)): the callback is stored with an event the  *)
(* kernel still has, and dropped with what it keeps in every other case.    *)
CancelEvent(s) ==
  \/ R!Cancel(s)
  \/ R!Abandon(s)
  \/ /\ pc[s] = "idle"
     /\ UNCHANGED ringVars

AfterCancel(s) ==
  IF rst[s] \in {"Prepared", "Submitted"} /\ cell[raddr[s]] = "Submitted"
  THEN "callback" ELSE "out"

(* Faulty: the slot is refilled and the ring not cancelled.                 *)
ReplaceEventKeepsRing(s, e) ==
  /\ slot[s] # NoEvent
  /\ ~R!InPoll(s)
  /\ place[e] = "out"
  /\ place' = [place EXCEPT ![slot[s]] = AfterCancel(s), ![e] = "slot"]
  /\ slot' = [slot EXCEPT ![s] = e]
  /\ UNCHANGED <<ringVars, using>>

(* Faulty: the ring is replaced along with the event, not cancelled.        *)
ReplaceEventAndRing(s, e) ==
  /\ slot[s] # NoEvent
  /\ ~R!InPoll(s)
  /\ place[e] = "out"
  /\ place' = [place EXCEPT ![slot[s]] = AfterCancel(s), ![e] = "slot"]
  /\ slot' = [slot EXCEPT ![s] = e]
  /\ rst' = [rst EXCEPT ![s] = "Inert"]
  /\ raddr' = [raddr EXCEPT ![s] = NoAddr]
  /\ pc' = [pc EXCEPT ![s] = "idle"]
  /\ UNCHANGED <<cell, waker, kern, notified, waiters, woken, sq, link, using>>

(* replace_event on a submission that has not completed.                    *)
ReplaceEvent(s, e) ==
  /\ slot[s] # NoEvent
  /\ CancelEvent(s)
  /\ place[e] = "out"
  /\ place' = [place EXCEPT ![slot[s]] = AfterCancel(s), ![e] = "slot"]
  /\ slot' = [slot EXCEPT ![s] = e]
  /\ UNCHANGED using

(* Drop: as replace_event, and the ring is gone too (Renew makes another).  *)
Drop(s) ==
  /\ slot[s] # NoEvent
  /\ CancelEvent(s)
  /\ place' = [place EXCEPT ![slot[s]] = AfterCancel(s)]
  /\ slot' = [slot EXCEPT ![s] = NoEvent]
  /\ UNCHANGED using

Renew(s) ==
  /\ slot[s] = NoEvent
  /\ R!Renew(s)
  /\ UNCHANGED eventVars

-----------------------------------------------------------------------------
(* The driver and the kernel, which do not move events about.               *)
Driver == (R!Flush \/ R!WakeWaiters) /\ UNCHANGED eventVars

Kernel(a) == (R!Post(a) \/ R!LinkedCancel(a)) /\ UNCHANGED eventVars

(* Faulty: the box is freed and the callback in it is not run.              *)
CompleteForgetsCallback(a) == R!Complete(a) /\ UNCHANGED eventVars

(* drive::complete: a stored callback is dropped, with the data it keeps.   *)
Complete(a) ==
  /\ R!Complete(a)
  /\ IF cell[a] = "Cancelled"
       THEN /\ place' = [place EXCEPT ![using[a]] = "out"]
            /\ using' = [using EXCEPT ![a] = NoEvent]
       ELSE UNCHANGED <<place, using>>
  /\ UNCHANGED slot

-----------------------------------------------------------------------------
Poll(s) == PollPending(s) \/ PollReady(s) \/ \E a \in Addr : PollPrepare(s, a)

Next ==
  \/ \E s \in Ring : Poll(s) \/ Submit(s) \/ Drop(s) \/ Renew(s)
  \/ \E s \in Ring, e \in Event : New(s, e) \/ ReplaceEvent(s, e)
  \/ Driver
  \/ \E a \in Addr : Kernel(a) \/ Complete(a)

PollScheduled(s) == pc[s] = "parked" /\ R!Scheduled(s) /\ Poll(s)

(* As in module Ring.                                                       *)
Fairness ==
  /\ \A s \in Ring : WF_vars(Submit(s)) /\ WF_vars(PollScheduled(s))
  /\ WF_vars(R!Flush /\ UNCHANGED eventVars)
  /\ WF_vars(R!WakeWaiters /\ UNCHANGED eventVars)
  /\ \A a \in Addr :
       /\ WF_vars(R!Post(a) /\ UNCHANGED eventVars)
       /\ WF_vars(R!LinkedCancel(a) /\ UNCHANGED eventVars)
       /\ WF_vars(Complete(a))

Spec == Init /\ [][Next]_vars /\ Fairness

-----------------------------------------------------------------------------
(* The contract of Event::prepare: from prepare until the CQE, what the     *)
(* kernel was lent is alive and not in the user's hands: it is in the slot, *)
(* or kept by the callback stored in the event's completion.                *)
LentDataAlive ==
  \A a \in Addr : kern[a] = "owned" =>
    LET e == using[a] IN
    Kind[e].lends # {} =>
      \/ place[e] = "slot" /\ \E s \in Ring : slot[s] = e /\ R!Holds(s, a)
      \/ /\ place[e] = "callback"
         /\ cell[a] = "Cancelled"
         /\ Kind[e].lends \subseteq Kind[e].keeps

(* A result is returned with the event it is the result of: the completion  *)
(* a submission waits for is that of the event in its slot.                 *)
ResultIsOfTheSlot ==
  \A s \in Ring, a \in Addr : R!Holds(s, a) => slot[s] = using[a]

(* No event is lost: one that is in a slot is in one slot, and one whose    *)
(* callback is stored is stored in one completion, to be dropped with it.   *)
NoEventLost ==
  \A e \in Event :
    /\ place[e] = "slot" =>
         \E s \in Ring : slot[s] = e /\ \A t \in Ring : slot[t] = e => t = s
    /\ place[e] = "callback" =>
         \E a \in Addr : cell[a] = "Cancelled" /\ using[a] = e

(* An event that was dropped while under way is cleaned up in the end.      *)
CallbacksRun == \A e \in Event : place[e] = "callback" ~> place[e] # "callback"

(* A Submission drives its ring as module Ring has it.                      *)
UsesRing == R!Spec
=============================================================================
