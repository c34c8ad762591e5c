----------------------------- MODULE DemoDriver -----------------------------
(***************************************************************************)
(* src/drive/demo.rs: the driver that comes with the library.  Its statics *)
(* are one io-uring instance (the two queues behind their mutexes), one    *)
(* event_listener::Event and one thread that processes CQEs.  Each task    *)
(* has a driver handle with a listener of its own and, through a Ring, one *)
(* event at a time: it calls poll_prepare, then poll_submit, then waits.   *)
(*                                                                         *)
(* The kernel is seen from the driver: submitting takes the whole queue;   *)
(* with NODROP a CQE that finds the completion queue full waits in a       *)
(* backlog, and while the backlog cannot be flushed submitting is EBUSY.   *)
(***************************************************************************)
EXTENDS Naturals, FiniteSets, Sequences, SequencesExt

CONSTANTS
  Task,       \* tasks, each with its ring, its driver handle and one event
  Entries,    \* SQEs the submission queue holds (32 in the code)
  CqEntries,  \* CQEs the completion queue holds
  NoTask      \* the absence of a task

ASSUME DemoAssumption ==
  /\ IsFiniteSet(Task) /\ NoTask \notin Task
  /\ Entries \in Nat \ {0} /\ CqEntries \in Nat \ {0}

VARIABLES
  pc,        \* pc[t]: where task t is (TaskState)
  call,      \* call[t]: the driver function t is in, or will call again
  sqLock,    \* who holds the mutex around the submission queue
  sq,        \* tasks whose event is on the submission queue
  inflight,  \* tasks whose event the kernel is executing
  cq,        \* CQEs on the completion queue
  backlog,   \* CQEs that found it full
  done,      \* tasks whose completion holds a result
  woken,     \* tasks woken that have not run since
  listener,  \* listener[t]: the listener in t's driver handle
  listens,   \* tasks whose waker is registered with their listener
  thread,    \* where the completion thread is
  cqe,       \* the CQE it is processing
  ready      \* its counter of CQEs notified and not yet processed

taskVars == <<pc, call, sqLock>>
kernelVars == <<sq, inflight, cq, backlog>>
wakeVars == <<woken, listener, listens>>
threadVars == <<thread, cqe, ready>>
vars == <<taskVars, kernelVars, done, wakeVars, threadVars>>

(* "driver": in the function call[t], at the lock or inside it; "busy":      *)
(* inside, submit having given EBUSY; "parked": the driver returned         *)
(* Pending; "waiting": the event is submitted and awaited.                  *)
TaskState == {"idle", "driver", "busy", "parked", "waiting", "panicked"}

(* "spent": polled to completion; polling it again panics.                  *)
ListenerState == {"none", "listening", "notified", "spent"}

ThreadState == {"off", "wait", "count", "complete", "peek", "exited"}

CqeSeq == UNION {[1 .. n -> Task] : n \in 0 .. Cardinality(Task)}

TypeOK ==
  /\ pc \in [Task -> TaskState]
  /\ call \in [Task -> {"prepare", "submit"}]
  /\ sqLock \in Task \cup {NoTask}
  /\ sq \subseteq Task /\ inflight \subseteq Task
  /\ cq \in CqeSeq /\ backlog \in CqeSeq
  /\ done \subseteq Task /\ woken \subseteq Task /\ listens \subseteq Task
  /\ listener \in [Task -> ListenerState]
  /\ thread \in ThreadState
  /\ cqe \in Task \cup {NoTask}
  /\ ready \in 0 .. Cardinality(Task)

Init ==
  /\ pc = [t \in Task |-> "idle"]
  /\ call = [t \in Task |-> "prepare"]
  /\ sqLock = NoTask
  /\ sq = {} /\ inflight = {} /\ cq = <<>> /\ backlog = <<>>
  /\ done = {} /\ woken = {} /\ listens = {}
  /\ listener = [t \in Task |-> "none"]
  /\ thread = "off" /\ cqe = NoTask /\ ready = 0

-----------------------------------------------------------------------------
(* The task, outside the driver (Ring::poll).                               *)

Goes(t, where) == pc' = [pc EXCEPT ![t] = where]
Returns(t, where) == Goes(t, where) /\ sqLock' = NoTask

(* A poll with a new event, or again after poll_prepare returned Pending.   *)
PollPrepare(t) ==
  /\ pc[t] = "idle" \/ (pc[t] = "parked" /\ call[t] = "prepare")
  /\ Goes(t, "driver")
  /\ call' = [call EXCEPT ![t] = "prepare"]
  /\ woken' = woken \ {t}
  /\ UNCHANGED <<sqLock, kernelVars, done, listener, listens, threadVars>>

(* A poll with an event under way that has its result.                      *)
PollReady(t) ==
  /\ pc[t] = "waiting" \/ (pc[t] = "parked" /\ call[t] = "submit")
  /\ t \in done
  /\ Goes(t, "idle")
  /\ done' = done \ {t}
  /\ woken' = woken \ {t}
  /\ UNCHANGED <<call, sqLock, kernelVars, listener, listens, threadVars>>

(* The same without a result; poll_submit is called again if it was Pending. *)
PollPending(t) ==
  /\ t \notin done
  /\ \/ pc[t] = "waiting" /\ UNCHANGED pc
     \/ pc[t] = "parked" /\ call[t] = "submit" /\ Goes(t, "driver")
  /\ woken' = woken \ {t}
  /\ UNCHANGED <<call, sqLock, kernelVars, done, listener, listens, threadVars>>

Poll(t) == PollPrepare(t) \/ PollReady(t) \/ PollPending(t)

-----------------------------------------------------------------------------
(* poll_prepare and poll_submit.  What a task does between taking the lock  *)
(* and its next system call is one step: only the holder of the lock looks  *)
(* at the queue, and only the task itself at a listener that is not waiting. *)

Inside(t) == pc[t] = "driver" /\ sqLock \in {t, NoTask}
Full == Cardinality(sq) >= Entries

(* prepare_sqes finds room: the event is on the queue, the lock released,   *)
(* and the ring goes on to poll_submit.                                     *)
PrepareSqe(t) ==
  /\ Inside(t)
  /\ call[t] = "prepare" /\ ~Full
  /\ sq' = sq \cup {t}
  /\ call' = [call EXCEPT ![t] = "submit"]
  /\ Returns(t, "driver")
  /\ UNCHANGED <<inflight, cq, backlog, done, wakeVars, threadVars>>

(* Faulty: the completion thread is not started.                            *)
InnerWithoutThread(t) ==
  /\ Inside(t)
  /\ call[t] = "submit" \/ Full
  /\ UNCHANGED thread

(* poll_submit_inner: called by poll_submit, and by poll_prepare if the     *)
(* queue is full.  Its first caller starts the completion thread.           *)
Inner(t) ==
  /\ Inside(t)
  /\ call[t] = "submit" \/ Full
  /\ thread' = IF thread = "off" THEN "wait" ELSE thread

(* It waits for a listener that was not notified, with the task's waker.    *)
InnerListens(t) ==
  /\ Inner(t)
  /\ listener[t] = "listening"
  /\ listens' = listens \cup {t}
  /\ Returns(t, "parked")
  /\ UNCHANGED <<call, kernelVars, done, woken, listener, cqe, ready>>

(* A listener that already completed is still there: polling it panics.     *)
InnerPanics(t) ==
  /\ Inner(t)
  /\ listener[t] = "spent"
  /\ Returns(t, "panicked")
  /\ UNCHANGED <<call, kernelVars, done, wakeVars, cqe, ready>>

(* With no listener, or one that was notified, it goes on to submit.        *)
InnerSubmits(t) ==
  /\ Inner(t)
  /\ listener[t] \in {"none", "notified"}
  /\ listener' = [listener EXCEPT ![t] = IF @ = "notified" THEN "spent" ELSE @]
  /\ UNCHANGED <<call, done, woken, listens, cqe, ready>>

(* The backlog moves to the completion queue as far as there is room.       *)
FlushBacklog ==
  LET room == CqEntries - Len(cq)
      n == IF Len(backlog) <= room THEN Len(backlog) ELSE room
  IN  /\ cq' = cq \o SubSeq(backlog, 1, n)
      /\ backlog' = SubSeq(backlog, n + 1, Len(backlog))

(* What follows a submit that was Ready: poll_prepare tries again, with the *)
(* lock; the result of poll_submit, which the ring ignores, ends its poll.  *)
AfterSubmit(t) ==
  IF call[t] = "prepare"
    THEN Goes(t, "driver") /\ sqLock' = t
    ELSE Returns(t, "waiting")

(* Others may have submitted the whole queue: the kernel is not entered.    *)
SubmitNothing(t) ==
  /\ InnerSubmits(t)
  /\ sq = {}
  /\ AfterSubmit(t)
  /\ UNCHANGED kernelVars

(* Faulty: the queue's head is not moved past what was submitted.           *)
SubmitOkKeepsQueue(t) ==
  /\ InnerSubmits(t)
  /\ sq # {}
  /\ FlushBacklog
  /\ backlog' = <<>>
  /\ inflight' = inflight \cup sq
  /\ UNCHANGED sq
  /\ AfterSubmit(t)

(* The kernel takes the whole queue.                                        *)
SubmitOk(t) ==
  /\ InnerSubmits(t)
  /\ sq # {}
  /\ FlushBacklog
  /\ backlog' = <<>>
  /\ inflight' = inflight \cup sq
  /\ sq' = {}
  /\ AfterSubmit(t)

(* Any error but EBUSY is dropped by both callers; nothing was submitted.   *)
SubmitError(t) ==
  /\ InnerSubmits(t)
  /\ sq # {}
  /\ AfterSubmit(t)
  /\ UNCHANGED kernelVars

(* The kernel refuses: its backlog does not fit the completion queue.       *)
SubmitBusy(t) ==
  /\ InnerSubmits(t)
  /\ sq # {}
  /\ FlushBacklog
  /\ backlog' # <<>>
  /\ Goes(t, "busy")
  /\ sqLock' = t
  /\ UNCHANGED <<sq, inflight>>

(* Faulty: Pending is returned with the lock held.                          *)
ListenKeepsLock(t) ==
  /\ pc[t] = "busy"
  /\ listener' = [listener EXCEPT ![t] = "listening"]
  /\ listens' = listens \ {t}
  /\ Goes(t, "parked")
  /\ UNCHANGED <<call, sqLock, kernelVars, done, woken, threadVars>>

(* EBUSY: a new listener, and Pending.                                      *)
Listen(t) ==
  /\ pc[t] = "busy"
  /\ listener' = [listener EXCEPT ![t] = "listening"]
  /\ listens' = listens \ {t}
  /\ Returns(t, "parked")
  /\ UNCHANGED <<call, kernelVars, done, woken, threadVars>>

Drive(t) ==
  \/ PrepareSqe(t) \/ InnerListens(t) \/ InnerPanics(t)
  \/ SubmitNothing(t) \/ SubmitOk(t) \/ SubmitError(t) \/ SubmitBusy(t)
  \/ Listen(t)

-----------------------------------------------------------------------------
(* The kernel finishes an event.                                            *)
Post(t) ==
  /\ t \in inflight
  /\ inflight' = inflight \ {t}
  /\ IF Len(cq) < CqEntries /\ backlog = <<>>
       THEN cq' = Append(cq, t) /\ UNCHANGED backlog
       ELSE backlog' = Append(backlog, t) /\ UNCHANGED cq
  /\ UNCHANGED <<taskVars, sq, done, wakeVars, threadVars>>

(* The completion thread, which keeps the completion queue locked.          *)

TakeCqe(where) ==
  /\ cq # <<>>
  /\ cqe' = Head(cq)
  /\ cq' = Tail(cq)
  /\ thread' = where

(* wait_for_cqe: enters the kernel if the queue is empty, ...               *)
WaitForCqe ==
  /\ thread = "wait"
  /\ TakeCqe("count")
  /\ UNCHANGED <<taskVars, sq, inflight, backlog, done, wakeVars, ready>>

(* ... which flushes the backlog ...                                        *)
WaitFlushes ==
  /\ thread = "wait"
  /\ cq = <<>> /\ backlog # <<>>
  /\ FlushBacklog
  /\ UNCHANGED <<taskVars, sq, inflight, done, wakeVars, threadVars>>

(* ... or fails, with EINTR say: the thread is over.                        *)
WaitFails ==
  /\ thread = "wait"
  /\ cq = <<>>
  /\ thread' = "exited"
  /\ UNCHANGED <<taskVars, kernelVars, done, wakeVars, cqe, ready>>

(* Faulty: the CQE in hand is not counted.                                  *)
CountWithoutCurrent ==
  /\ thread = "count"
  /\ ready' = Len(cq)
  /\ thread' = "complete"
  /\ UNCHANGED <<taskVars, kernelVars, done, wakeVars, cqe>>

(* Faulty: on to the inner loop, without completing the CQE in hand.        *)
CountDropsCqe ==
  /\ thread = "count"
  /\ ready' = Len(cq)
  /\ thread' = "peek"
  /\ UNCHANGED <<taskVars, kernelVars, done, wakeVars, cqe>>

(* ready = cq.ready() + 1, and as many further listeners are notified.      *)
Count ==
  /\ thread = "count"
  /\ ready' = Len(cq) + 1
  /\ \E S \in SUBSET {t \in Task : listener[t] = "listening"} :
       /\ \/ Cardinality(S) = ready'
          \/ /\ Cardinality(S) < ready'
             /\ \A t \in Task \ S : listener[t] # "listening"
       /\ listener' = [t \in Task |-> IF t \in S THEN "notified" ELSE listener[t]]
       /\ woken' = woken \cup (S \cap listens)
       /\ listens' = listens \ S
  /\ thread' = "complete"
  /\ UNCHANGED <<taskVars, kernelVars, done, cqe>>

(* Faulty: the CQE is not taken off the count.                              *)
CompleteKeepsCount ==
  /\ thread = "complete"
  /\ done' = done \cup {cqe}
  /\ woken' = woken \cup {cqe}
  /\ cqe' = NoTask
  /\ thread' = "peek"
  /\ UNCHANGED <<taskVars, kernelVars, listener, listens, ready>>

(* Faulty: the task is not woken.                                           *)
CompleteSilently ==
  /\ thread = "complete"
  /\ done' = done \cup {cqe}
  /\ cqe' = NoTask
  /\ ready' = ready - 1
  /\ thread' = "peek"
  /\ UNCHANGED <<taskVars, kernelVars, wakeVars>>

(* complete(cqe): the result is stored and the task woken.                  *)
Complete ==
  /\ thread = "complete"
  /\ done' = done \cup {cqe}
  /\ woken' = woken \cup {cqe}
  /\ cqe' = NoTask
  /\ ready' = ready - 1
  /\ thread' = "peek"
  /\ UNCHANGED <<taskVars, kernelVars, listener, listens>>

(* peek_for_cqe finds another CQE, ...                                      *)
PeekSome ==
  /\ thread = "peek"
  /\ TakeCqe(IF ready = 0 THEN "count" ELSE "complete")
  /\ UNCHANGED <<taskVars, sq, inflight, backlog, done, wakeVars, ready>>

(* ... or none.                                                             *)
PeekNone ==
  /\ thread = "peek"
  /\ cq = <<>>
  /\ thread' = "wait"
  /\ UNCHANGED <<taskVars, kernelVars, done, wakeVars, cqe, ready>>

Completer ==
  WaitForCqe \/ WaitFlushes \/ Count \/ Complete \/ PeekSome \/ PeekNone

-----------------------------------------------------------------------------
Next ==
  \/ \E t \in Task : Poll(t) \/ Drive(t) \/ Post(t)
  \/ Completer \/ WaitFails

(* Woken tasks are polled; a task in the driver goes on, and gets the lock  *)
(* (parking_lot is eventually fair); the kernel finishes every event and    *)
(* does not fail to submit for ever; the thread runs.                       *)
Fairness ==
  /\ \A t \in Task :
       /\ WF_vars(t \in woken /\ Poll(t))
       /\ SF_vars(Drive(t))
       /\ SF_vars(SubmitOk(t))
       /\ WF_vars(Post(t))
  /\ WF_vars(Completer)

Spec == Init /\ [][Next]_vars /\ Fairness

-----------------------------------------------------------------------------
Queued == ToSet(cq) \cup ToSet(backlog)
UnderWay(t) == pc[t] = "waiting" \/ (call[t] = "submit" /\ pc[t] # "idle")

(* The lock is held only inside the driver: a task that is parked, or    *)
(* whose poll panicked, does not keep the others out.                       *)
LockHeldInside ==
  \A t \in Task :
    /\ sqLock = t => pc[t] \in {"driver", "busy"}
    /\ pc[t] = "busy" => sqLock = t

(* An event that was prepared is in exactly one place until its result is   *)
(* taken: no submission, overflow, flush or EBUSY loses or repeats it.      *)
EventInOnePlace ==
  \A t \in Task :
    Cardinality({p \in 1 .. 5 :
      t \in <<sq, inflight, Queued, {cqe}, done>>[p]}) = IF UnderWay(t) THEN 1 ELSE 0

(* debug_assert!(ready == 0) after the inner loop, and what makes it true:  *)
(* the counter is the number of CQEs that were announced to listeners and   *)
(* are still to be processed, and it never passes below zero.               *)
ReadyCounts ==
  /\ thread \in {"wait", "exited", "off"} => ready = 0
  /\ thread = "peek" => ready <= Len(cq)
  /\ thread = "complete" => ready \in 1 .. Len(cq) + 1

(* registrar() answers Some only while no event was submitted: the kernel   *)
(* is not given events before the completion thread was started.            *)
RegistrarClosed ==
  inflight # {} \/ Queued # {} \/ done # {} => thread # "off"

(* Whatever queues are full or overflow, whoever holds the lock and however *)
(* often submitting fails, the driver does with events what module          *)
(* DriverApi has one do; the completion queue and the kernel's backlog are  *)
(* to it one queue, first in, first out.                                    *)
Api == INSTANCE DriverApi WITH prepared <- sq, cqes <- cq \o backlog
KeepsApi == Api!Spec

(* What the kernel was given ends with the task polled and given its        *)
(* result, the backlog included, unless the completion thread is gone or    *)
(* the task panicked in the driver.                                         *)
Away(t) == t \in inflight \cup Queued \cup {cqe} \cup done

SubmittedReturns ==
  \A t \in Task :
    Away(t) ~> ~Away(t) \/ thread = "exited" \/ pc[t] = "panicked"

(* "If it does [return Pending], it must register a waker to wake the task" *)
(* (Drive::poll_prepare, poll_submit): a task the driver sent away has been *)
(* woken, or its waker is registered with its listener.                     *)
PendingRegistersWaker ==
  \A t \in Task : pc[t] = "parked" => t \in woken \cup listens
=============================================================================
