-------------------------- MODULE DemoDriverProofs --------------------------
(***************************************************************************)
(* Proofs about DemoDriver, for any number of tasks and queues of any      *)
(* size.                                                                   *)
(***************************************************************************)
EXTENDS DemoDriver, SequenceTheorems, FiniteSetTheorems, TLAPS

(* CQEs that the thread has not taken, in the order in which it will.       *)
Cqes == cq \o backlog

Once == \A i, j \in 1 .. Len(Cqes) : Cqes[i] = Cqes[j] => i = j

InCqes(t) == \E i \in 1 .. Len(Cqes) : Cqes[i] = t

(* TypeOK without the bounds on the sequences and the counter.              *)
TypeInv ==
  /\ pc \in [Task -> TaskState]
  /\ call \in [Task -> {"prepare", "submit"}]
  /\ sqLock \in Task \cup {NoTask}
  /\ sq \subseteq Task /\ inflight \subseteq Task /\ done \subseteq Task
  /\ cq \in Seq(Task) /\ backlog \in Seq(Task) /\ Len(cq) <= CqEntries
  /\ thread \in ThreadState
  /\ cqe \in Task \cup {NoTask}
  /\ ready \in Nat

(* Before the thread is started nothing was submitted; it holds a CQE while *)
(* it processes one.                                                        *)
ThreadInv ==
  /\ thread = "off" => inflight = {} /\ Cqes = <<>> /\ done = {}
  /\ cqe # NoTask <=> thread \in {"count", "complete"}

(* Nobody submits the same event again, and each CQE is there once.         *)
PlaceInv ==
  /\ Once
  /\ \A t \in Task :
       /\ UnderWay(t) <=> 
            t \in sq \/ t \in inflight \/ InCqes(t) \/ t = cqe \/ t \in done
       /\ t \in sq => t \notin inflight
       /\ t \in sq \cup inflight => ~InCqes(t)
       /\ t \in sq \cup inflight \/ InCqes(t) => t # cqe
       /\ t \in sq \cup inflight \/ InCqes(t) \/ t = cqe => t \notin done

IInv == TypeInv /\ ThreadInv /\ PlaceInv /\ LockHeldInside /\ ReadyCounts

-----------------------------------------------------------------------------
(* What the steps on the queues do to the CQEs.                             *)

LEMMA FlushKeeps ==
  ASSUME cq \in Seq(Task), backlog \in Seq(Task), Len(cq) <= CqEntries, FlushBacklog
  PROVE  /\ cq' \in Seq(Task) /\ backlog' \in Seq(Task)
         /\ Len(cq') >= Len(cq) /\ Len(cq') <= CqEntries
         /\ Cqes' = Cqes
<1>. USE DemoAssumption
<1>. DEFINE room == CqEntries - Len(cq)
            n == IF Len(backlog) <= room THEN Len(backlog) ELSE room
            front == SubSeq(backlog, 1, n)
            rest == SubSeq(backlog, n + 1, Len(backlog))
<1>1. n \in 0 .. Len(backlog) /\ n <= room
  OBVIOUS
<1>2. cq' = cq \o front /\ backlog' = rest
  BY DEF FlushBacklog
<1>. HIDE DEF n
<1>3. /\ front \in Seq(Task) /\ Len(front) = n
      /\ rest \in Seq(Task)
  BY <1>1
<1>4. front \o rest = backlog
  <2>1. front \o rest = SubSeq(backlog, 1, Len(backlog))
    BY <1>1, ConcatAdjacentSubSeq, 1 \in 1 .. Len(backlog) + 1, n \in 1 - 1 .. Len(backlog),
       Len(backlog) \in n .. Len(backlog)
  <2>. QED
    BY <2>1, SubSeqFull
<1>. HIDE DEF front, rest
<1>5. (cq \o front) \o rest = cq \o (front \o rest)
  <2>. DEFINE lhs == (cq \o front) \o rest
              rhs == cq \o (front \o rest)
  <2>1. lhs \in Seq(Task) /\ rhs \in Seq(Task) /\ Len(lhs) = Len(rhs)
    BY <1>3
  <2>2. \A i \in 1 .. Len(lhs) : lhs[i] = rhs[i]
    BY <1>3
  <2>. QED
    BY <2>1, <2>2, SeqEqual, Zenon
<1>6. Cqes' = Cqes
  BY <1>2, <1>4, <1>5 DEF Cqes
<1>7. cq' \in Seq(Task) /\ Len(cq') = Len(cq) + n
  BY <1>2, <1>3, ConcatProperties
<1>. QED
  BY <1>1, <1>2, <1>3, <1>6, <1>7

(* The CQEs that are not in a queue, and those that are first.              *)
LEMMA PostAppends ==
  ASSUME cq \in Seq(Task), backlog \in Seq(Task), NEW t \in Task, Post(t)
  PROVE  /\ cq' \in Seq(Task) /\ backlog' \in Seq(Task)
         /\ Len(cq') >= Len(cq) /\ (Len(cq) <= CqEntries => Len(cq') <= CqEntries)
         /\ Cqes' = Append(Cqes, t)
<1>. USE DemoAssumption
<1>1. CASE cq' = Append(cq, t) /\ backlog' = backlog /\ backlog = <<>> /\ Len(cq) < CqEntries
  BY <1>1 DEF Cqes
<1>2. CASE cq' = cq /\ backlog' = Append(backlog, t)
  <2>1. Cqes' = Append(Cqes, t)
    BY <1>2 DEF Cqes
  <2>. QED
    BY <1>2, <2>1
<1>. QED
  BY <1>1, <1>2 DEF Post

LEMMA TakeTails ==
  ASSUME cq \in Seq(Task), backlog \in Seq(Task), NEW where, TakeCqe(where), backlog' = backlog
  PROVE  /\ cq' \in Seq(Task) /\ Len(cq') = Len(cq) - 1
         /\ cqe' \in Task /\ Cqes # <<>> /\ cqe' = Head(Cqes) /\ Cqes' = Tail(Cqes)
<1>1. cqe' = Head(cq) /\ cq' = Tail(cq) /\ cq # <<>>
  BY DEF TakeCqe
<1>2. cq' \in Seq(Task) /\ Len(cq') = Len(cq) - 1 /\ cqe' \in Task /\ Len(cq) > 0
  BY <1>1
<1>3. cqe' = Head(Cqes) /\ Cqes # <<>>
  BY <1>1, <1>2 DEF Cqes
<1>4. Cqes' = Tail(Cqes)
  <2>1. Tail(Cqes) \in Seq(Task) /\ Cqes' \in Seq(Task) /\ Len(Tail(Cqes)) = Len(Cqes')
    BY <1>1, <1>2 DEF Cqes
  <2>2. \A i \in 1 .. Len(Cqes') : Cqes'[i] = Tail(Cqes)[i]
    BY <1>1, <1>2 DEF Cqes
  <2>. QED
    BY <2>1, <2>2, SeqEqual
<1>. QED
  BY <1>2, <1>3, <1>4

LEMMA AppendedIn ==
  ASSUME NEW t \in Task, Cqes \in Seq(Task), Cqes' = Append(Cqes, t), Once, ~InCqes(t)
  PROVE  /\ Once'
         /\ \A u \in Task : InCqes(u)' <=> InCqes(u) \/ u = t
<1>1. /\ Len(Cqes') = Len(Cqes) + 1
      /\ \A i \in 1 .. Len(Cqes') : Cqes'[i] = IF i = Len(Cqes') THEN t ELSE Cqes[i]
  OBVIOUS
<1>. QED
  BY <1>1 DEF Once, InCqes

LEMMA TakenOut ==
  ASSUME Cqes \in Seq(Task), Cqes # <<>>, Cqes' = Tail(Cqes), Once
  PROVE  /\ Once' /\ InCqes(Head(Cqes))
         /\ \A u \in Task : InCqes(u)' <=> InCqes(u) /\ u # Head(Cqes)
<1>1. /\ Len(Cqes') = Len(Cqes) - 1 /\ Len(Cqes) \in Nat \ {0}
      /\ \A i \in 1 .. Len(Cqes') : Cqes'[i] = Cqes[i + 1]
      /\ Head(Cqes) = Cqes[1]
  OBVIOUS
<1>2. Once' /\ InCqes(Head(Cqes))
  BY <1>1 DEF Once, InCqes
<1>3. ASSUME NEW u \in Task
      PROVE  InCqes(u)' <=> InCqes(u) /\ u # Head(Cqes)
  <2>1. ASSUME NEW i \in 1 .. Len(Cqes'), Cqes'[i] = u
        PROVE  InCqes(u) /\ u # Head(Cqes)
    <3>1. i + 1 \in 1 .. Len(Cqes) /\ Cqes[i + 1] = u /\ 1 \in 1 .. Len(Cqes) /\ i + 1 # 1
      BY <1>1, <2>1
    <3>. QED
      BY <1>1, <3>1 DEF Once, InCqes
  <2>2. ASSUME NEW i \in 1 .. Len(Cqes), Cqes[i] = u, u # Head(Cqes)
        PROVE  InCqes(u)'
    <3>1. i - 1 \in 1 .. Len(Cqes') /\ Cqes'[i - 1] = u
      BY <1>1, <2>2
    <3>. QED
      BY <3>1 DEF InCqes
  <2>. QED
    BY <2>1, <2>2 DEF InCqes
<1>. QED
  BY <1>2, <1>3

-----------------------------------------------------------------------------
(* Every step preserves the invariant.                                      *)

LEMMA PollStep ==
  ASSUME IInv, NEW t \in Task, Poll(t)
  PROVE  IInv'
<1>. USE DemoAssumption DEF IInv, Poll, PollPrepare, PollReady, PollPending, Goes,
     kernelVars, threadVars
<1>1. TypeInv'
  BY DEF TypeInv, TaskState
<1>2. ThreadInv' /\ ReadyCounts'
  BY DEF ThreadInv, ReadyCounts, Cqes
<1>3. LockHeldInside'
  BY DEF LockHeldInside, TypeInv
<1>4. PlaceInv'
  <2>1. Once' /\ (\A u \in Task : InCqes(u)' <=> InCqes(u)) /\ cqe' = cqe
    BY DEF PlaceInv, Once, InCqes, Cqes
  <2>2. \A u \in Task \ {t} : UnderWay(u)' <=> UnderWay(u)
    BY DEF UnderWay, TypeInv
  <2>3. CASE PollPrepare(t)
    <3>1. ~UnderWay(t) /\ ~UnderWay(t)'
      BY <2>3 DEF UnderWay, TypeInv
    <3>. QED
      BY <2>1, <2>2, <2>3, <3>1 DEF PlaceInv
  <2>4. CASE PollReady(t)
    <3>1. UnderWay(t) /\ ~UnderWay(t)' /\ t \in done
      BY <2>4 DEF UnderWay, TypeInv
    <3>. QED
      BY <2>1, <2>2, <2>4, <3>1 DEF PlaceInv
  <2>5. CASE PollPending(t)
    <3>1. UnderWay(t) /\ UnderWay(t)'
      BY <2>5 DEF UnderWay, TypeInv
    <3>. QED
      BY <2>1, <2>2, <2>5, <3>1 DEF PlaceInv
  <2>. QED
    BY <2>3, <2>4, <2>5
<1>. QED
  BY <1>1, <1>2, <1>3, <1>4

(* Steps of a task in the driver, all but PrepareSqe and SubmitOk.          *)
LEMMA DriverStep ==
  ASSUME IInv, NEW t \in Task,
         \/ InnerListens(t) \/ InnerPanics(t) \/ SubmitNothing(t) \/ SubmitError(t)
         \/ SubmitBusy(t) \/ Listen(t)
  PROVE  IInv'
<1>. USE DemoAssumption DEF IInv
<1>1. /\ pc[t] \in {"driver", "busy"}
      /\ pc[t] = "driver" => sqLock \in {t, NoTask}
      /\ \/ pc' = [pc EXCEPT ![t] = "parked"] /\ sqLock' = NoTask
         \/ pc' = [pc EXCEPT ![t] = "panicked"] /\ sqLock' = NoTask
         \/ pc' = [pc EXCEPT ![t] = "waiting"] /\ sqLock' = NoTask /\ call[t] = "submit"
         \/ pc' = [pc EXCEPT ![t] = "driver"] /\ sqLock' = t
         \/ pc' = [pc EXCEPT ![t] = "busy"] /\ sqLock' = t
      /\ thread' \in {thread, IF thread = "off" THEN "wait" ELSE thread}
      /\ UNCHANGED <<call, sq, inflight, done, cqe, ready>>
  <2>1. CASE Listen(t)
    BY <2>1 DEF Listen, Goes, Returns, kernelVars, threadVars
  <2>2. CASE InnerListens(t) \/ InnerPanics(t)
    BY <2>2 DEF InnerListens, InnerPanics, Inner, Inside, Goes, Returns, kernelVars, wakeVars
  <2>3. CASE SubmitNothing(t) \/ SubmitError(t)
    BY <2>3 DEF SubmitNothing, SubmitError, InnerSubmits, Inner, Inside, AfterSubmit, Goes,
       Returns, kernelVars, TypeInv
  <2>4. CASE SubmitBusy(t)
    BY <2>4 DEF SubmitBusy, InnerSubmits, Inner, Inside, Goes
  <2>. QED
    BY <2>1, <2>2, <2>3, <2>4
<1>2. /\ cq' \in Seq(Task) /\ backlog' \in Seq(Task)
      /\ Len(cq') >= Len(cq) /\ Len(cq') <= CqEntries
      /\ Cqes' = Cqes
  <2>1. CASE SubmitBusy(t)
    BY <2>1, FlushKeeps DEF SubmitBusy, TypeInv
  <2>2. CASE UNCHANGED <<cq, backlog>>
    BY <2>2 DEF TypeInv, Cqes
  <2>. QED
    BY <2>1, <2>2 DEF InnerListens, InnerPanics, SubmitNothing, SubmitError, Listen, kernelVars
<1>3. TypeInv'
  BY <1>1, <1>2 DEF TypeInv, TaskState, ThreadState
<1>4. ThreadInv'
  BY <1>1, <1>2 DEF ThreadInv
<1>5. ReadyCounts'
  BY <1>1, <1>2 DEF ReadyCounts, TypeInv
<1>6. LockHeldInside'
  BY <1>1 DEF LockHeldInside, TypeInv
<1>7. PlaceInv'
  <2>1. Once' /\ (\A u \in Task : InCqes(u)' <=> InCqes(u))
    BY <1>2 DEF PlaceInv, Once, InCqes
  <2>2. \A u \in Task : UnderWay(u)' <=> UnderWay(u)
    BY <1>1 DEF UnderWay, TypeInv
  <2>. QED
    BY <1>1, <2>1, <2>2 DEF PlaceInv
<1>. QED
  BY <1>3, <1>4, <1>5, <1>6, <1>7

LEMMA PrepareSqeStep ==
  ASSUME IInv, NEW t \in Task, PrepareSqe(t)
  PROVE  IInv'
<1>. USE DemoAssumption DEF IInv, PrepareSqe, Inside, Goes, Returns, threadVars, wakeVars
<1>1. TypeInv'
  BY DEF TypeInv, TaskState
<1>2. ThreadInv' /\ ReadyCounts'
  BY DEF ThreadInv, ReadyCounts, Cqes
<1>3. LockHeldInside'
  BY DEF LockHeldInside, TypeInv
<1>4. PlaceInv'
  <2>1. Once' /\ (\A u \in Task : InCqes(u)' <=> InCqes(u)) /\ cqe' = cqe
    BY DEF PlaceInv, Once, InCqes, Cqes
  <2>2. \A u \in Task \ {t} : UnderWay(u)' <=> UnderWay(u)
    BY DEF UnderWay, TypeInv
  <2>3. ~UnderWay(t) /\ UnderWay(t)'
    BY DEF UnderWay, TypeInv
  <2>. QED
    BY <2>1, <2>2, <2>3 DEF PlaceInv
<1>. QED
  BY <1>1, <1>2, <1>3, <1>4

LEMMA SubmitOkStep ==
  ASSUME IInv, NEW t \in Task, SubmitOk(t)
  PROVE  IInv'
<1>. USE DemoAssumption DEF IInv
<1>1. /\ pc[t] = "driver" /\ sqLock \in {t, NoTask}
      /\ \/ pc' = [pc EXCEPT ![t] = "waiting"] /\ sqLock' = NoTask /\ call[t] = "submit"
         \/ pc' = [pc EXCEPT ![t] = "driver"] /\ sqLock' = t
      /\ thread' = IF thread = "off" THEN "wait" ELSE thread
      /\ inflight' = inflight \cup sq /\ sq' = {}
      /\ UNCHANGED <<call, done, cqe, ready>>
  BY DEF SubmitOk, InnerSubmits, Inner, Inside, AfterSubmit, Goes, Returns, TypeInv
<1>2. /\ cq' \in Seq(Task) /\ backlog' \in Seq(Task)
      /\ Len(cq') >= Len(cq) /\ Len(cq') <= CqEntries
      /\ Cqes' = Cqes
  BY FlushKeeps DEF SubmitOk, TypeInv
<1>3. TypeInv'
  BY <1>1, <1>2 DEF TypeInv, TaskState, ThreadState
<1>4. ThreadInv'
  BY <1>1, <1>2 DEF ThreadInv, TypeInv, ThreadState
<1>5. ReadyCounts'
  BY <1>1, <1>2 DEF ReadyCounts, TypeInv
<1>6. LockHeldInside'
  BY <1>1 DEF LockHeldInside, TypeInv
<1>7. PlaceInv'
  <2>1. Once' /\ (\A u \in Task : InCqes(u)' <=> InCqes(u))
    BY <1>2 DEF PlaceInv, Once, InCqes
  <2>2. \A u \in Task : UnderWay(u)' <=> UnderWay(u)
    BY <1>1 DEF UnderWay, TypeInv
  <2>. QED
    BY <1>1, <2>1, <2>2 DEF PlaceInv
<1>. QED
  BY <1>3, <1>4, <1>5, <1>6, <1>7

LEMMA PostStep ==
  ASSUME IInv, NEW t \in Task, Post(t)
  PROVE  IInv'
<1>. USE DemoAssumption DEF IInv
<1>1. /\ t \in inflight /\ inflight' = inflight \ {t}
      /\ UNCHANGED <<taskVars, sq, done, threadVars>>
  BY DEF Post
<1>2. /\ cq' \in Seq(Task) /\ backlog' \in Seq(Task)
      /\ Len(cq') >= Len(cq) /\ Len(cq') <= CqEntries
      /\ Cqes' = Append(Cqes, t)
  BY PostAppends DEF TypeInv
<1>3. TypeInv'
  BY <1>1, <1>2 DEF TypeInv, taskVars, threadVars
<1>4. ThreadInv'
  BY <1>1 DEF ThreadInv, threadVars
<1>5. ReadyCounts'
  BY <1>1, <1>2 DEF ReadyCounts, TypeInv, threadVars
<1>6. LockHeldInside'
  BY <1>1 DEF LockHeldInside, taskVars
<1>7. PlaceInv'
  <2>1. Cqes \in Seq(Task) /\ Once /\ ~InCqes(t)
    BY <1>1 DEF Cqes, TypeInv, PlaceInv
  <2>2. Once' /\ (\A u \in Task : InCqes(u)' <=> InCqes(u) \/ u = t)
    BY <1>2, <2>1, AppendedIn
  <2>3. \A u \in Task : UnderWay(u)' <=> UnderWay(u)
    BY <1>1 DEF UnderWay, taskVars
  <2>. QED
    BY <1>1, <2>2, <2>3 DEF PlaceInv, threadVars
<1>. QED
  BY <1>3, <1>4, <1>5, <1>6, <1>7

(* The completion thread takes a CQE.                                       *)
LEMMA TakeStep ==
  ASSUME IInv, WaitForCqe \/ PeekSome
  PROVE  IInv'
<1>. USE DemoAssumption DEF IInv
<1>1. PICK where \in {"count", "complete"} :
        /\ TakeCqe(where)
        /\ thread = "wait" \/ thread = "peek"
        /\ where = "complete" => thread = "peek" /\ ready # 0
        /\ UNCHANGED <<taskVars, sq, inflight, backlog, done, ready>>
  BY DEF WaitForCqe, PeekSome
<1>2. /\ cq' \in Seq(Task) /\ Len(cq') = Len(cq) - 1
      /\ cqe' \in Task /\ Cqes # <<>> /\ cqe' = Head(Cqes) /\ Cqes' = Tail(Cqes)
      /\ thread' = where
  BY <1>1, TakeTails DEF TypeInv, TakeCqe
<1>3. TypeInv'
  BY <1>1, <1>2 DEF TypeInv, taskVars, ThreadState
<1>4. ThreadInv'
  BY <1>1, <1>2 DEF ThreadInv
<1>5. ReadyCounts'
  BY <1>1, <1>2 DEF ReadyCounts, TypeInv
<1>6. LockHeldInside'
  BY <1>1 DEF LockHeldInside, taskVars
<1>7. PlaceInv'
  <2>1. Cqes \in Seq(Task) /\ Once
    BY DEF Cqes, TypeInv, PlaceInv
  <2>2. /\ Once' /\ InCqes(cqe')
        /\ \A u \in Task : InCqes(u)' <=> InCqes(u) /\ u # cqe'
    BY <1>2, <2>1, TakenOut
  <2>3. \A u \in Task : UnderWay(u)' <=> UnderWay(u)
    BY <1>1 DEF UnderWay, taskVars
  <2>4. cqe = NoTask
    BY <1>1 DEF ThreadInv
  <2>. QED
    BY <1>1, <1>2, <2>2, <2>3, <2>4 DEF PlaceInv
<1>. QED
  BY <1>3, <1>4, <1>5, <1>6, <1>7

(* The other steps of the thread.                                           *)
LEMMA ThreadStep ==
  ASSUME IInv, WaitFlushes \/ WaitFails \/ Count \/ PeekNone
  PROVE  IInv'
<1>. USE DemoAssumption DEF IInv
<1>1. /\ UNCHANGED <<taskVars, sq, inflight, done, cqe>>
      /\ \/ thread = "wait" /\ thread' = "wait" /\ ready' = ready
         \/ thread = "wait" /\ thread' = "exited" /\ ready' = ready
         \/ thread = "count" /\ thread' = "complete" /\ ready' = Len(cq) + 1 /\ cq' = cq
         \/ thread = "peek" /\ cq = <<>> /\ thread' = "wait" /\ ready' = ready
  BY DEF WaitFlushes, WaitFails, Count, PeekNone, threadVars, kernelVars
<1>2. /\ cq' \in Seq(Task) /\ backlog' \in Seq(Task)
      /\ Len(cq') >= Len(cq) /\ Len(cq') <= CqEntries
      /\ Cqes' = Cqes
  <2>1. CASE WaitFlushes
    BY <2>1, FlushKeeps DEF WaitFlushes, TypeInv
  <2>2. CASE UNCHANGED <<cq, backlog>>
    BY <2>2 DEF TypeInv, Cqes
  <2>. QED
    BY <2>1, <2>2 DEF WaitFails, Count, PeekNone, kernelVars
<1>3. TypeInv'
  BY <1>1, <1>2 DEF TypeInv, taskVars, ThreadState
<1>4. ThreadInv'
  BY <1>1, <1>2 DEF ThreadInv
<1>5. ReadyCounts'
  BY <1>1, <1>2 DEF ReadyCounts, TypeInv
<1>6. LockHeldInside'
  BY <1>1 DEF LockHeldInside, taskVars
<1>7. PlaceInv'
  <2>1. Once' /\ (\A u \in Task : InCqes(u)' <=> InCqes(u))
    BY <1>2 DEF PlaceInv, Once, InCqes
  <2>2. \A u \in Task : UnderWay(u)' <=> UnderWay(u)
    BY <1>1 DEF UnderWay, taskVars
  <2>. QED
    BY <1>1, <2>1, <2>2 DEF PlaceInv
<1>. QED
  BY <1>3, <1>4, <1>5, <1>6, <1>7

LEMMA CompleteStep ==
  ASSUME IInv, Complete
  PROVE  IInv'
<1>. USE DemoAssumption DEF IInv, Complete, taskVars, kernelVars
<1>1. cqe \in Task /\ ready \in 1 .. Len(cq) + 1
  BY DEF ThreadInv, TypeInv, ReadyCounts
<1>2. TypeInv'
  BY <1>1 DEF TypeInv, ThreadState
<1>3. ThreadInv' /\ ReadyCounts' /\ LockHeldInside'
  BY <1>1 DEF ThreadInv, ReadyCounts, LockHeldInside, TypeInv
<1>4. PlaceInv'
  <2>1. Once' /\ (\A u \in Task : InCqes(u)' <=> InCqes(u))
    BY DEF PlaceInv, Once, InCqes, Cqes
  <2>2. \A u \in Task : UnderWay(u)' <=> UnderWay(u)
    BY DEF UnderWay
  <2>. QED
    BY <1>1, <2>1, <2>2 DEF PlaceInv
<1>. QED
  BY <1>2, <1>3, <1>4

LEMMA NextIInv == IInv /\ [Next]_vars => IInv'
<1>. SUFFICES ASSUME IInv, [Next]_vars
              PROVE  IInv'
  OBVIOUS
<1>1. CASE UNCHANGED vars
  BY <1>1 DEF vars, taskVars, kernelVars, wakeVars, threadVars, IInv, TypeInv, ThreadInv,
     PlaceInv, Once, InCqes, Cqes, UnderWay, LockHeldInside, ReadyCounts
<1>2. CASE Next
  BY <1>2, PollStep, DriverStep, PrepareSqeStep, SubmitOkStep, PostStep, TakeStep, ThreadStep,
     CompleteStep DEF Next, Drive, Completer
<1>. QED
  BY <1>1, <1>2

-----------------------------------------------------------------------------
(* The inductive invariant holds throughout.                                *)
THEOREM Invariance == Spec => []IInv
<1>1. Init => IInv
  BY DemoAssumption DEF Init, IInv, TypeInv, ThreadInv, PlaceInv, Once, InCqes, Cqes, UnderWay,
     LockHeldInside, ReadyCounts, TaskState, ThreadState
<1>. QED
  BY <1>1, NextIInv, PTL DEF Spec

(* A task that is parked, or whose poll panicked, does not keep the others  *)
(* out of the submission queue.                                             *)
THEOREM LockIsHeldInside == Spec => []LockHeldInside
BY Invariance, PTL DEF IInv

(* The counter is of CQEs that are still to be processed, and is zero when  *)
(* the inner loop of the thread ends.                                       *)
THEOREM CounterIsRight == Spec => []ReadyCounts
BY Invariance, PTL DEF IInv

(* The kernel is given no event before the completion thread was started.   *)
THEOREM RegistrarIsClosed == Spec => []RegistrarClosed
<1>1. IInv => RegistrarClosed
  BY DEF IInv, TypeInv, ThreadInv, RegistrarClosed, Queued, Cqes, ToSet
<1>. QED
  BY <1>1, Invariance, PTL

(* Each event is in one place until its result is taken.                    *)
THEOREM NoEventIsLost == Spec => []EventInOnePlace
<1>1. IInv => EventInOnePlace
  <2>. SUFFICES ASSUME IInv, NEW t \in Task
                PROVE  Cardinality({p \in 1 .. 5 :
                         t \in <<sq, inflight, Queued, {cqe}, done>>[p]})
                           = IF UnderWay(t) THEN 1 ELSE 0
    BY DEF EventInOnePlace
  <2>. DEFINE P == {p \in 1 .. 5 : t \in <<sq, inflight, Queued, {cqe}, done>>[p]}
  <2>1. t \in Queued <=> InCqes(t)
    <3>1. /\ Len(Cqes) = Len(cq) + Len(backlog)
          /\ \A i \in 1 .. Len(cq) : Cqes[i] = cq[i]
          /\ \A i \in 1 .. Len(backlog) : Cqes[Len(cq) + i] = backlog[i]
      BY DEF Cqes, IInv, TypeInv
    <3>2. cq \in Seq(Task) /\ backlog \in Seq(Task)
      BY DEF IInv, TypeInv
    <3>3. t \in Queued <=> \/ \E i \in 1 .. Len(cq) : cq[i] = t
                          \/ \E i \in 1 .. Len(backlog) : backlog[i] = t
      BY <3>2 DEF Queued, ToSet
    <3>4. \A i \in 1 .. Len(Cqes) :
            IF i <= Len(cq) THEN Cqes[i] = cq[i]
            ELSE i - Len(cq) \in 1 .. Len(backlog) /\ Cqes[i] = backlog[i - Len(cq)]
      BY <3>2 DEF Cqes
    <3>5. ASSUME NEW i \in 1 .. Len(cq), cq[i] = t
          PROVE  InCqes(t)
      <4>1. i \in 1 .. Len(Cqes) /\ Cqes[i] = t
        BY <3>1, <3>2, <3>5
      <4>. QED
        BY <4>1 DEF InCqes
    <3>6. ASSUME NEW i \in 1 .. Len(backlog), backlog[i] = t
          PROVE  InCqes(t)
      <4>1. Len(cq) + i \in 1 .. Len(Cqes) /\ Cqes[Len(cq) + i] = t
        BY <3>1, <3>2, <3>6
      <4>. QED
        BY <4>1 DEF InCqes
    <3>7. InCqes(t) => t \in Queued
      BY <3>3, <3>4 DEF InCqes
    <3>. QED
      BY <3>3, <3>5, <3>6, <3>7
  <2>2. /\ 1 \in P <=> t \in sq
        /\ 2 \in P <=> t \in inflight
        /\ 3 \in P <=> InCqes(t)
        /\ 4 \in P <=> t = cqe
        /\ 5 \in P <=> t \in done
        /\ \A p \in P : p \in 1 .. 5
    BY <2>1
  <2>. HIDE DEF P
  <2>3. CASE UnderWay(t)
    <3>1. PICK p \in 1 .. 5 : P = {p}
      BY <2>2, <2>3 DEF IInv, PlaceInv
    <3>. QED
      BY <2>3, <3>1, FS_Singleton DEF P
  <2>4. CASE ~UnderWay(t)
    <3>1. P = {}
      BY <2>2, <2>4 DEF IInv, PlaceInv
    <3>. QED
      BY <2>4, <3>1, FS_EmptySet DEF P
  <2>. QED
    BY <2>3, <2>4
<1>. QED
  BY <1>1, Invariance, PTL

-----------------------------------------------------------------------------
(* What TypeOK says besides TypeInv.  There are no more CQEs than tasks,    *)
(* the one the thread holds included, as each event has only one.           *)

WakeInv ==
  /\ woken \subseteq Task /\ listens \subseteq Task
  /\ listener \in [Task -> ListenerState]
  /\ thread = "count" => ready = 0

LEMMA WakeStep ==
  ASSUME IInv, WakeInv, [Next]_vars
  PROVE  WakeInv'
<1>. USE DEF WakeInv
<1>1. CASE UNCHANGED vars
  BY <1>1 DEF vars, wakeVars, threadVars
<1>2. ASSUME NEW t \in Task, Poll(t) \/ Post(t) \/ PrepareSqe(t)
      PROVE  WakeInv'
  BY <1>2 DEF Poll, PollPrepare, PollReady, PollPending, Post, PrepareSqe, wakeVars, threadVars
<1>3. ASSUME NEW t \in Task, InnerListens(t) \/ InnerPanics(t)
      PROVE  WakeInv'
  BY <1>3 DEF InnerListens, InnerPanics, Inner, wakeVars
<1>4. ASSUME NEW t \in Task, InnerSubmits(t)
      PROVE  WakeInv'
  BY <1>4 DEF InnerSubmits, Inner, ListenerState
<1>5. ASSUME NEW t \in Task, Listen(t)
      PROVE  WakeInv'
  BY <1>5 DEF Listen, threadVars, ListenerState
<1>6. CASE Count
  <2>1. PICK S \in SUBSET Task :
          /\ listener' = [t \in Task |-> IF t \in S THEN "notified" ELSE listener[t]]
          /\ woken' = woken \cup (S \cap listens) /\ listens' = listens \ S
    BY <1>6 DEF Count
  <2>2. listener' \in [Task -> ListenerState]
    BY <2>1 DEF ListenerState
  <2>. QED
    BY <1>6, <2>1, <2>2 DEF Count
<1>7. CASE Complete
  <2>1. cqe \in Task
    BY <1>7 DEF Complete, IInv, TypeInv, ThreadInv
  <2>. QED
    BY <1>7, <2>1 DEF Complete
<1>8. CASE WaitForCqe \/ PeekSome
  BY <1>8 DEF WaitForCqe, PeekSome, TakeCqe, wakeVars, IInv, ReadyCounts
<1>9. CASE WaitFlushes \/ WaitFails \/ PeekNone
  BY <1>9 DEF WaitFlushes, WaitFails, PeekNone, wakeVars, threadVars
<1>. QED
  BY <1>1, <1>2, <1>3, <1>4, <1>5, <1>6, <1>7, <1>8, <1>9
     DEF Next, Drive, SubmitNothing, SubmitOk, SubmitError, SubmitBusy, Completer

LEMMA NoRepeatsBound ==
  ASSUME NEW s \in Seq(Task), \A i, j \in 1 .. Len(s) : s[i] = s[j] => i = j
  PROVE  Len(s) <= Cardinality(Task)
<1>1. IsFiniteSet(1 .. Len(s)) /\ Cardinality(1 .. Len(s)) = Len(s)
  <2>. DEFINE n == Len(s)
  <2>1. n \in Int /\ n >= 0 /\ 1 \in Int
    OBVIOUS
  <2>. HIDE DEF n
  <2>2. /\ IsFiniteSet(1 .. n)
        /\ Cardinality(1 .. n) = IF 1 > n THEN 0 ELSE n - 1 + 1
    BY <2>1, FS_Interval
  <2>3. Cardinality(1 .. n) = n
    BY <2>1, <2>2
  <2>. QED
    BY <2>2, <2>3 DEF n
<1>2. IsFiniteSet(Task) /\ Cardinality(Task) \in Nat
  BY DemoAssumption, FS_CardinalityType
<1>3. s \in [1 .. Len(s) -> Task]
  OBVIOUS
<1>4. ~(Cardinality(Task) < Cardinality(1 .. Len(s)))
  BY <1>1, <1>2, <1>3, FS_PigeonHole
<1>. QED
  BY <1>1, <1>2, <1>4

LEMMA CqesBound ==
  ASSUME IInv
  PROVE  /\ Cqes \in Seq(Task) /\ Len(Cqes) = Len(cq) + Len(backlog)
         /\ Len(Cqes) <= Cardinality(Task)
         /\ cqe # NoTask => Len(Cqes) + 1 <= Cardinality(Task)
<1>1. Cqes \in Seq(Task) /\ Len(Cqes) = Len(cq) + Len(backlog)
  BY DEF IInv, TypeInv, Cqes
<1>2. Len(Cqes) <= Cardinality(Task)
  BY <1>1, NoRepeatsBound DEF IInv, PlaceInv, Once
<1>3. ASSUME cqe # NoTask PROVE Len(Cqes) + 1 <= Cardinality(Task)
  <2>. DEFINE s == Append(Cqes, cqe)
  <2>1. cqe \in Task /\ ~InCqes(cqe)
    BY <1>3 DEF IInv, TypeInv, PlaceInv
  <2>2. /\ s \in Seq(Task) /\ Len(s) = Len(Cqes) + 1
        /\ \A i \in 1 .. Len(s) : s[i] = IF i = Len(s) THEN cqe ELSE Cqes[i]
    BY <1>1, <2>1
  <2>. HIDE DEF s
  <2>3. \A i, j \in 1 .. Len(s) : s[i] = s[j] => i = j
    BY <1>1, <2>1, <2>2 DEF IInv, PlaceInv, Once, InCqes
  <2>. QED
    BY <2>2, <2>3, NoRepeatsBound
<1>. QED
  BY <1>1, <1>2, <1>3

(* The variables have their types; no more CQEs wait than there are tasks,  *)
(* and the counter never says more.                                         *)
THEOREM TypeCorrect == Spec => []TypeOK
<1>1. Init => WakeInv
  BY DEF Init, WakeInv, ListenerState
<1>2. IInv /\ WakeInv => TypeOK
  <2>. SUFFICES ASSUME IInv, WakeInv PROVE TypeOK
    OBVIOUS
  <2>1. /\ cq \in Seq(Task) /\ backlog \in Seq(Task) /\ ready \in Nat
        /\ cqe # NoTask <=> thread \in {"count", "complete"}
    BY DEF IInv, TypeInv, ThreadInv
  <2>2. Cardinality(Task) \in Nat
    BY DemoAssumption, FS_CardinalityType
  <2>3. /\ Len(cq) \in 0 .. Cardinality(Task) /\ Len(backlog) \in 0 .. Cardinality(Task)
        /\ thread = "complete" => Len(cq) + 1 <= Cardinality(Task)
    BY <2>1, <2>2, CqesBound
  <2>4. cq \in CqeSeq /\ backlog \in CqeSeq
    <3>1. cq \in [1 .. Len(cq) -> Task] /\ backlog \in [1 .. Len(backlog) -> Task]
      BY <2>1
    <3>. QED
      BY <2>3, <3>1 DEF CqeSeq
  <2>5. ready <= Cardinality(Task)
    BY <2>1, <2>2, <2>3 DEF IInv, TypeInv, ThreadState, WakeInv, ReadyCounts
  <2>. QED
    BY <2>1, <2>2, <2>4, <2>5 DEF TypeOK, IInv, TypeInv, WakeInv
<1>. QED
  BY <1>1, <1>2, WakeStep, Invariance, PTL DEF Spec

-----------------------------------------------------------------------------
(* DemoDriver implements DriverApi.                                         *)

ApiStep == [Api!Next]_(Api!vars)

(* Most steps are on locks, listeners and threads only, or move CQEs from   *)
(* the backlog to the completion queue.                                     *)
LEMMA QuietStep ==
  ASSUME UNCHANGED <<sq, inflight, done, cqe>>, Cqes' = Cqes
  PROVE  ApiStep
BY DEF ApiStep, Api!vars, Cqes

LEMMA PollApi ==
  ASSUME IInv, NEW t \in Task, Poll(t)
  PROVE  ApiStep
<1>1. CASE PollReady(t)
  <2>1. Api!Return(t)
    BY <1>1 DEF PollReady, Api!Return, kernelVars, threadVars
  <2>. QED
    BY <2>1 DEF ApiStep, Api!Next
<1>2. CASE PollPrepare(t) \/ PollPending(t)
  BY <1>2, QuietStep DEF PollPrepare, PollPending, kernelVars, threadVars, Cqes
<1>. QED
  BY <1>1, <1>2 DEF Poll

(* A task that is about to prepare an event has none.                       *)
LEMMA PrepareApi ==
  ASSUME IInv, NEW t \in Task, PrepareSqe(t)
  PROVE  ApiStep
<1>1. ~UnderWay(t)
  BY DEF PrepareSqe, Inside, UnderWay
<1>2. Api!Idle(t)
  BY <1>1 DEF IInv, PlaceInv, InCqes, Cqes, Api!Idle
<1>3. Api!Prepare(t)
  BY <1>2 DEF PrepareSqe, Returns, wakeVars, threadVars, Api!Prepare
<1>. QED
  BY <1>3 DEF ApiStep, Api!Next

LEMMA DriverApiStep ==
  ASSUME IInv, NEW t \in Task,
         \/ InnerListens(t) \/ InnerPanics(t) \/ SubmitNothing(t) \/ SubmitError(t)
         \/ SubmitBusy(t) \/ Listen(t)
  PROVE  ApiStep
<1>1. CASE SubmitBusy(t)
  <2>1. Cqes' = Cqes
    BY <1>1, FlushKeeps DEF SubmitBusy, IInv, TypeInv
  <2>. QED
    BY <1>1, <2>1, QuietStep DEF SubmitBusy, InnerSubmits
<1>2. CASE ~SubmitBusy(t)
  BY <1>2, QuietStep DEF InnerListens, InnerPanics, SubmitNothing, SubmitError, Listen,
     InnerSubmits, kernelVars, wakeVars, threadVars, Cqes
<1>. QED
  BY <1>1, <1>2

(* The completion thread takes the CQE that was posted first, having none.  *)
LEMMA TakeApi ==
  ASSUME IInv, WaitForCqe \/ PeekSome
  PROVE  ApiStep
<1>1. PICK where \in {"count", "complete"} :
        /\ TakeCqe(where)
        /\ UNCHANGED <<sq, inflight, backlog, done>>
  BY DEF WaitForCqe, PeekSome
<1>2. Cqes # <<>> /\ cqe' = Head(Cqes) /\ Cqes' = Tail(Cqes)
  BY <1>1, TakeTails DEF IInv, TypeInv
<1>3. cqe = NoTask
  BY DEF WaitForCqe, PeekSome, IInv, ThreadInv
<1>4. Api!TakeCqe
  BY <1>1, <1>2, <1>3 DEF Api!TakeCqe, Cqes
<1>. QED
  BY <1>4 DEF ApiStep, Api!Next

LEMMA NextApi == IInv /\ [Next]_vars => ApiStep
<1>. SUFFICES ASSUME IInv, [Next]_vars
              PROVE  ApiStep
  OBVIOUS
<1>1. CASE UNCHANGED vars
  BY <1>1, QuietStep DEF vars, kernelVars, threadVars, Cqes
<1>2. ASSUME NEW t \in Task, SubmitOk(t)
      PROVE  ApiStep
  <2>1. Cqes' = Cqes
    BY <1>2, FlushKeeps DEF SubmitOk, IInv, TypeInv
  <2>2. Api!Submit
    BY <1>2, <2>1 DEF SubmitOk, InnerSubmits, Api!Submit, Cqes
  <2>. QED
    BY <2>2 DEF ApiStep, Api!Next
<1>3. ASSUME NEW t \in Task, Post(t)
      PROVE  ApiStep
  <2>1. Cqes' = Append(Cqes, t)
    BY <1>3, PostAppends DEF IInv, TypeInv
  <2>2. Api!Post(t)
    BY <1>3, <2>1 DEF Post, threadVars, Api!Post, Cqes
  <2>. QED
    BY <2>2 DEF ApiStep, Api!Next
<1>4. CASE Complete
  <2>1. cqe # NoTask
    BY <1>4 DEF Complete, IInv, ThreadInv
  <2>2. Api!Complete
    BY <1>4, <2>1 DEF Complete, kernelVars, Api!Complete
  <2>. QED
    BY <2>2 DEF ApiStep, Api!Next
<1>5. CASE WaitFlushes
  <2>1. Cqes' = Cqes
    BY <1>5, FlushKeeps DEF WaitFlushes, IInv, TypeInv
  <2>. QED
    BY <1>5, <2>1, QuietStep DEF WaitFlushes, threadVars
<1>6. CASE WaitFails \/ Count \/ PeekNone
  BY <1>6, QuietStep DEF WaitFails, Count, PeekNone, kernelVars, Cqes
<1>7. ASSUME NEW t \in Task, Drive(t)
      PROVE  ApiStep
  BY <1>2, <1>7, PrepareApi, DriverApiStep DEF Drive
<1>. QED
  BY <1>1, <1>3, <1>4, <1>5, <1>6, <1>7, PollApi, TakeApi DEF Next, Completer

(* With full queues, a backlog, EBUSY, failing submits and whoever holds    *)
(* the lock, events go through the driver as DriverApi says: each is        *)
(* prepared, given to the kernel with all others that are, and completed    *)
(* once, in the order in which the kernel finished them.                    *)
THEOREM ImplementsDriverApi == Spec => KeepsApi
<1>1. Init => Api!Init
  BY DEF Init, Api!Init
<1>. QED
  BY <1>1, NextApi, Invariance, PTL DEF Spec, KeepsApi, Api!Spec, ApiStep
=============================================================================
