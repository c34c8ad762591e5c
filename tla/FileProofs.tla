----------------------------- MODULE FileProofs -----------------------------
(***************************************************************************)
(* Proofs about File, for buffers, files and slices of any length, any     *)
(* number of slices and allocations, and offsets of any width: all its     *)
(* invariants hold.                                                        *)
(***************************************************************************)
EXTENDS File, TLAPS

(* An event in flight is of the operation that was polled last.             *)
EventInv ==
  /\ event # NoEvent => event.op = active
  /\ event = NoEvent => result = NoResult

(* Without a file nothing is left of the last one but what is in flight.    *)
GoneInv ==
  /\ active \in {"Nothing", "Gone", "Std"} =>
       event = NoEvent /\ owed = NoSlice /\ wrote = NoWrite /\ Exhausted(buf)
  /\ active \in {"Gone", "Std"} => pos = next

(* A buffer with something in it has an allocation, and so has one that an  *)
(* event works on; a read is made when there is nothing to be read.         *)
BoxInv ==
  /\ ~Exhausted(buf) \/ buf.src = Statx => buf.box \in Box
  /\ event # NoEvent =>
       IF event.op = "Close" THEN event.box = NoBox
       ELSE event.box = buf.box /\ buf.box \in Box
  /\ event # NoEvent /\ event.op = "Statx" => buf.src = Statx
  /\ event # NoEvent /\ event.op = "Read" => Exhausted(buf)

(* What was read or written is within what was asked for, and within reach. *)
ResultInv ==
  event # NoEvent /\ event.op \in {"Read", "Write"} /\ result \in Nat =>
    result <= event.len /\ event.at + result <= MaxPos

(* What is in the buffer was read, or is, and so is what is in flight, what *)
(* poll_write was called with.                                              *)
ContentsInv ==
  /\ active = "Read" /\ ~Exhausted(buf) => buf.src \in Position
  /\ active = "Write" =>
       /\ ~Exhausted(buf) => buf.src \in Slice
       /\ "slice" \notin strayed =>
            /\ ~Exhausted(buf) => buf.src = owed /\ Unread(buf) <= SliceLen[owed]
            /\ event # NoEvent =>
                 event.src = owed /\ owed \in Slice /\ event.len <= SliceLen[owed]

IInv ==
  /\ TypeOK /\ EventInv /\ GoneInv /\ BoxInv /\ ResultInv /\ ContentsInv
  /\ LentBufferAlive /\ ReadsAreContiguous /\ WriteReportsItsSlice /\ FdIsOwn

-----------------------------------------------------------------------------
(* What guard_op finds and leaves.                                          *)

FileOp == {"Read", "Write", "Statx", "Close"}

LEMMA GuardFinds ==
  ASSUME IInv, NEW op \in FileOp, GuardOp(op, buf.box)
  PROVE  /\ active' = op
         /\ event # NoEvent => event \in FileEvent /\ event.op = active
         /\ Current(op) = IF active = op THEN event ELSE NoEvent
         /\ active \notin {op, "Nothing"} <=> Switches(op)
         /\ active = "Nothing" => event = NoEvent
         /\ orphans' = IF Switches(op) THEN orphans \cup Cancelled(buf.box) ELSE orphans
BY DEF IInv, EventInv, GoneInv, GuardOp, Current, Switches, TypeOK, FileOp

LEMMA CancelledType ==
  ASSUME IInv
  PROVE  Cancelled(buf.box) \subseteq FileEvent
<1>. SUFFICES ASSUME event # NoEvent PROVE Kept(event, buf.box) \in FileEvent
  BY DEF Cancelled
<1>1. event \in FileEvent /\ buf.box \in Box \cup {NoBox}
  BY DEF IInv, TypeOK, FileBuf
<1>. QED
  BY <1>1 DEF FileEvent, Kept

(* Memory that is newly allocated, or none, is no orphan's; memory that is  *)
(* given up with an event is kept for it.                                   *)
OrphansOwn(mine) ==
  \A o \in orphans : o.box # NoBox =>
     /\ o.keeps = o.box
     /\ o.box # mine
     /\ \A p \in orphans : p.box = o.box => p = o

LEMMA OrphansStay ==
  ASSUME IInv, orphans' = orphans, buf'.box \in Free \cup {NoBox, buf.box}
  PROVE  OrphansOwn(buf.box)'
BY DEF IInv, LentBufferAlive, LentAlive, Free, OrphansOwn

LEMMA OrphansKept ==
  ASSUME IInv, orphans' = orphans \cup Cancelled(buf.box), buf'.box \in Free \cup {NoBox}
  PROVE  OrphansOwn(buf.box)'
<1>1. OrphansOwn(buf.box)
  BY DEF IInv, LentBufferAlive, LentAlive, OrphansOwn
<1>2. event # NoEvent /\ result = NoResult => event.box \in {NoBox, buf.box}
  BY DEF IInv, LentBufferAlive, LentAlive
<1>3. \A o \in Cancelled(buf.box) : 
        o = Kept(event, buf.box) /\ o.keeps = buf.box /\ o.box \in {NoBox, buf.box}
  BY <1>2 DEF Cancelled, Kept
<1>. QED
  BY <1>1, <1>3 DEF OrphansOwn, Free

(* u64 addition stays in range.                                             *)
LEMMA AdvanceType ==
  ASSUME NEW p \in Position, NEW n \in Nat
  PROVE  Advance(p, n) \in Position
BY FileAssumption DEF Advance, Position

(* What a poll of another operation skips is what lies between the user and *)
(* the position; and from there on the user has not strayed.                *)
LEMMA SwitchedHas ==
  ASSUME IInv, NEW op \in FileOp
  PROVE  /\ NextFrom(op) = IF Switches(op) THEN pos ELSE next
         /\ NextFrom(op) \in Position
         /\ StillStrayed(op) \subseteq Way
         /\ IF Switches(op) THEN StillStrayed(op) \subseteq {"close"}
                            ELSE StillStrayed(op) = strayed
         /\ "close" \in strayed => "close" \in StillStrayed(op)
         /\ Switches(op) /\ active = "Close" => "close" \in StillStrayed(op)
<1>1. pos \in 0 .. MaxPos /\ next \in 0 .. MaxPos /\ MaxPos \in Nat
  BY FileAssumption DEF IInv, TypeOK, Position
<1>2. Unread(buf) \in Nat
  BY DEF IInv, TypeOK, FileBuf, Unread, Exhausted
<1>3. Advance(next, 0) = next
  BY <1>1 DEF Advance
<1>4. "seek" \notin strayed /\ active = "Read" => Advance(next, Unread(buf)) = pos
  BY <1>1, <1>2, <1>3 DEF IInv, ReadsAreContiguous, Advance
<1>5. "seek" \notin strayed /\ active # "Read" => next = pos
  BY DEF IInv, ReadsAreContiguous
<1>6. NextFrom(op) = IF Switches(op) THEN pos ELSE next
  BY <1>3, <1>4, <1>5 DEF NextFrom, Skipped
<1>. QED
  BY <1>1, <1>6 DEF StillStrayed, Way, IInv, TypeOK, Position

(* A poll that returns Pending, as far as the event and the memory go: b    *)
(* is what guard_op and fill_buf make of the buffer.                        *)
LEMMA Pending ==
  ASSUME IInv, NEW op \in FileOp, NEW e \in FileEvent, e.op = op,
         GuardOp(op, buf.box), PollPending(op, e),
         buf' \in FileBuf,
         ~Exhausted(buf') \/ buf'.src = Statx => buf'.box \in Box,
         IF op = "Close" THEN e.box = NoBox ELSE e.box = buf'.box /\ buf'.box \in Box,
         op = "Statx" => buf'.src = Statx,
         op = "Read" => Exhausted(buf'),
         \/ buf'.box \in Free \cup {NoBox}
         \/ ~Switches(op) /\ buf'.box = buf.box,
         ~Switches(op) /\ event # NoEvent /\ op # "Close" => buf'.box = buf.box,
         fd' = fd, "close" \in strayed => "close" \in strayed',
         Switches(op) /\ active = "Close" => "close" \in strayed'
  PROVE  /\ active' = op /\ active \notin Over /\ result' = NoResult
         /\ active \notin {op, "Nothing"} <=> Switches(op)
         /\ \/ event' \in {NoEvent, e}
            \/ active = op /\ event' = event /\ event # NoEvent
         /\ event' \in FileEvent \cup {NoEvent} /\ orphans' \subseteq FileEvent
         /\ EventInv' /\ BoxInv' /\ ResultInv' /\ LentAlive(buf.box)' /\ FdIsOwn'
<1>. USE FileAssumption, NoEventAssumption
<1>1. /\ active' = op /\ active \notin Over
      /\ event # NoEvent => event \in FileEvent /\ event.op = active
      /\ event = NoEvent => result = NoResult
      /\ Current(op) = IF active = op THEN event ELSE NoEvent
      /\ active \notin {op, "Nothing"} <=> Switches(op)
      /\ active = "Nothing" => event = NoEvent
      /\ orphans' = IF Switches(op) THEN orphans \cup Cancelled(buf.box) ELSE orphans
  BY GuardFinds DEF GuardOp, IInv, EventInv
<1>2. /\ \/ event' \in {NoEvent, e}
         \/ active = op /\ event' = event /\ event # NoEvent
      /\ result' = NoResult
      /\ active = op => event = NoEvent \/ result = NoResult
  BY <1>1 DEF PollPending
<1>3. event' \in FileEvent \cup {NoEvent} /\ orphans' \subseteq FileEvent
  BY <1>1, <1>2, CancelledType DEF IInv, TypeOK
<1>4. EventInv' /\ ResultInv'
  BY <1>1, <1>2 DEF EventInv, ResultInv
<1>5. BoxInv'
  BY <1>1, <1>2 DEF IInv, BoxInv
<1>6. OrphansOwn(buf.box)'
  BY <1>1, OrphansKept, OrphansStay
<1>7. LentAlive(buf.box)'
  BY <1>5, <1>6, <1>4 DEF LentAlive, OrphansOwn, BoxInv
<1>8. FdIsOwn'
  <2>. SUFFICES ASSUME "close" \notin strayed'
                PROVE  fd = "open" /\ \A o \in orphans' : o.op # "Close"
    BY <1>1 DEF FdIsOwn, IInv, TypeOK
  <2>1. fd = "open" /\ \A o \in orphans : o.op # "Close"
    BY <1>1, <1>2 DEF FdIsOwn, IInv, TypeOK, Over
  <2>2. Switches(op) => active # "Close"
    OBVIOUS
  <2>. QED
    BY <1>1, <2>1, <2>2 DEF Cancelled, Kept
<1>. QED
  BY <1>1, <1>2, <1>3, <1>4, <1>5, <1>7, <1>8

(* A poll that returns the result of its event.                             *)
LEMMA Ready ==
  ASSUME IInv, NEW op \in FileOp, GuardOp(op, buf.box), PollReady(op),
         buf'.box = buf.box, fd' = fd, "close" \in strayed => "close" \in strayed'
  PROVE  /\ active = op /\ active' = op /\ orphans' = orphans
         /\ event \in FileEvent /\ event.op = op /\ result # NoResult
         /\ event' = NoEvent /\ result' = NoResult
         /\ op # "Close" => buf.box \in Box
         /\ EventInv' /\ ResultInv' /\ LentAlive(buf.box)'
         /\ op # "Close" => FdIsOwn'
         /\ op # "Close" => BoxInv'
<1>1. /\ active = op /\ active' = op /\ orphans' = orphans
      /\ event \in FileEvent /\ event.op = op /\ result # NoResult
      /\ event' = NoEvent /\ result' = NoResult
  BY GuardFinds DEF PollReady, Return
<1>2. op # "Close" => buf.box \in Box
  BY <1>1, NoEventAssumption DEF IInv, BoxInv
<1>3. EventInv' /\ ResultInv'
  BY <1>1 DEF EventInv, ResultInv
<1>4. LentAlive(buf.box)'
  BY <1>1, OrphansStay DEF LentAlive, OrphansOwn
<1>5. op # "Close" => FdIsOwn'
  BY <1>1 DEF FdIsOwn, IInv, TypeOK, FileOp
<1>6. op # "Close" => BoxInv'
  BY <1>1, <1>2 DEF BoxInv
<1>. QED
  BY <1>1, <1>2, <1>3, <1>4, <1>5, <1>6

(* The buffer that a read or write has: the file's with memory, or a new one. *)
LEMMA BoxedBuf ==
  ASSUME IInv, NEW op \in {"Read", "Write"}, NEW b \in Boxed(GuardBuf(op), Free)
  PROVE  /\ b \in FileBuf /\ b.pos <= b.cap /\ b.box \in Box
         /\ b.box \in Free \cup {NoBox} \/ (~Switches(op) /\ b.box = buf.box)
         /\ Switches(op) => Exhausted(b) /\ b.src = NoSource
         /\ ~Switches(op) => b.pos = buf.pos /\ b.cap = buf.cap /\ b.src = buf.src
         /\ ~Switches(op) /\ buf.box \in Box => b = buf
<1>. USE FileAssumption
<1>1. GuardBuf(op) \in FileBuf /\ GuardBuf(op).pos <= GuardBuf(op).cap
  BY DEF GuardBuf, Fresh, Buf, IInv, TypeOK, FileBuf, Source
<1>2. ~Exhausted(GuardBuf(op)) => GuardBuf(op).box \in Box
  BY DEF GuardBuf, Fresh, Buf, Exhausted, IInv, BoxInv
<1>3. \/ b = GuardBuf(op) /\ b.box \in Box
      \/ /\ GuardBuf(op).box = NoBox
         /\ \E x \in Free :
              b = Buf(x, GuardBuf(op).pos, GuardBuf(op).cap, GuardBuf(op).src)
  BY <1>1, <1>2 DEF Boxed, FileBuf
<1>4. b \in FileBuf /\ b.pos <= b.cap /\ b.box \in Box
  BY <1>1, <1>3 DEF Buf, FileBuf, Free
<1>5. b.pos = GuardBuf(op).pos /\ b.cap = GuardBuf(op).cap /\ b.src = GuardBuf(op).src
  BY <1>3 DEF Buf
<1>6. Switches(op) => Exhausted(b) /\ b.src = NoSource /\ b.box \in Free
  BY <1>3, <1>5 DEF GuardBuf, Fresh, Buf, Exhausted
<1>. QED
  BY <1>3, <1>4, <1>5, <1>6 DEF GuardBuf, Buf

LEMMA ReadPendingStep ==
  ASSUME IInv, ReadPending
  PROVE  IInv'
<1>. USE FileAssumption
<1>1. PICK b \in Boxed(GuardBuf("Read"), Free) :
        /\ Exhausted(b)
        /\ GuardOp("Read", buf.box)
        /\ PollPending("Read", Event("Read", b.box, pos, Capacity, NoSource))
        /\ buf' = b
        /\ Switched("Read")
        /\ UNCHANGED <<fd, pos, size>>
  BY DEF ReadPending
<1>. DEFINE e == Event("Read", b.box, pos, Capacity, NoSource)
<1>2. /\ b \in FileBuf /\ b.pos <= b.cap /\ b.box \in Box
      /\ b.box \in Free \cup {NoBox} \/ (~Switches("Read") /\ b.box = buf.box)
      /\ ~Switches("Read") => b.pos = buf.pos /\ b.cap = buf.cap
      /\ ~Switches("Read") /\ buf.box \in Box => b = buf
  BY <1>1, BoxedBuf
<1>3. /\ PollPending("Read", e)
      /\ e \in FileEvent /\ e.op = "Read" /\ e.box = b.box /\ e.at = pos
  BY <1>1, <1>2 DEF Event, FileEvent, IInv, TypeOK
<1>4. /\ next' = IF Switches("Read") THEN pos ELSE next
      /\ next' \in Position /\ strayed' \subseteq Way
      /\ ~Switches("Read") => strayed' = strayed
      /\ "close" \in strayed => "close" \in strayed'
      /\ Switches("Read") /\ active = "Close" => "close" \in strayed'
      /\ owed' = NoSlice /\ wrote' = NoWrite
  BY <1>1, SwitchedHas DEF Switched, FileOp
<1>5. ~Switches("Read") /\ event # NoEvent => buf.box \in Box
  BY <1>1, GuardFinds DEF FileOp, IInv, BoxInv
<1>6. /\ active' = "Read" /\ active \notin Over /\ result' = NoResult
      /\ active \notin {"Read", "Nothing"} <=> Switches("Read")
      /\ \/ event' \in {NoEvent, e}
         \/ active = "Read" /\ event' = event /\ event # NoEvent
      /\ event' \in FileEvent \cup {NoEvent} /\ orphans' \subseteq FileEvent
      /\ EventInv' /\ BoxInv' /\ ResultInv' /\ LentAlive(buf.box)' /\ FdIsOwn'
  <2>1. "Read" \in FileOp /\ buf' \in FileBuf /\ buf'.box \in Box /\ e.box = buf'.box
    BY <1>1, <1>2, <1>3 DEF FileOp
  <2>2. \/ buf'.box \in Free \cup {NoBox}
        \/ ~Switches("Read") /\ buf'.box = buf.box
    BY <1>1, <1>2
  <2>3. ~Switches("Read") /\ event # NoEvent => buf'.box = buf.box
    BY <1>1, <1>2, <1>5
  <2>. HIDE DEF e
  <2>. QED
    BY <1>1, <1>3, <1>4, <2>1, <2>2, <2>3, Pending
<1>7. TypeOK'
  BY <1>1, <1>2, <1>4, <1>6 DEF IInv, TypeOK, NoWrite
<1>8. /\ GoneInv' /\ ContentsInv' /\ LentBufferAlive'
      /\ WriteReportsItsSlice'
  <2>1. GoneInv' /\ ContentsInv'
    BY <1>1, <1>6 DEF GoneInv, ContentsInv
  <2>2. LentBufferAlive'
    BY <1>6 DEF LentBufferAlive, EventInv
  <2>3. WriteReportsItsSlice'
    BY <1>4 DEF WriteReportsItsSlice, NoWrite
  <2>. QED
    BY <2>1, <2>2, <2>3
<1>9. ReadsAreContiguous'
  BY <1>1, <1>2, <1>3, <1>4, <1>6
     DEF IInv, ReadsAreContiguous, EventInv, Unread, Exhausted
<1>. QED
  BY <1>6, <1>7, <1>8, <1>9 DEF IInv

(* What poll_write has in the buffer.                                       *)
LEMMA WriteBufHas ==
  ASSUME NEW s \in Slice, NEW b \in FileBuf, b.pos <= b.cap
  PROVE  LET w == WriteBuf(b, s)
         IN  /\ w \in FileBuf /\ w.pos <= w.cap /\ w.box = b.box
             /\ Exhausted(b) => w.src = s /\ w.pos = 0 /\ w.cap <= SliceLen[s]
             /\ ~Exhausted(b) => w = b
BY FileAssumption DEF WriteBuf, Loaded, Filled, Buf, FileBuf, MinOf, Source

LEMMA WritePendingStep ==
  ASSUME IInv, NEW s \in Slice, WritePending(s)
  PROVE  IInv'
<1>. USE FileAssumption
<1>1. PICK b \in Boxed(GuardBuf("Write"), Free) :
        /\ GuardOp("Write", buf.box)
        /\ PollPending("Write", Event("Write", WriteBuf(b, s).box, pos,
                                      Unread(WriteBuf(b, s)), WriteBuf(b, s).src))
        /\ buf' = WriteBuf(b, s)
        /\ next' = NextFrom("Write")
        /\ strayed' = StillStrayed("Write") \cup SliceChanged(s)
        /\ owed' = s /\ wrote' = NoWrite
        /\ UNCHANGED <<fd, pos, size>>
  BY DEF WritePending
<1>. DEFINE w == WriteBuf(b, s)
            e == Event("Write", w.box, pos, Unread(w), w.src)
<1>2. /\ b \in FileBuf /\ b.pos <= b.cap /\ b.box \in Box
      /\ b.box \in Free \cup {NoBox} \/ (~Switches("Write") /\ b.box = buf.box)
      /\ Switches("Write") => Exhausted(b)
      /\ ~Switches("Write") => b.pos = buf.pos /\ b.cap = buf.cap /\ b.src = buf.src
      /\ ~Switches("Write") /\ buf.box \in Box => b = buf
  BY <1>1, BoxedBuf
<1>3. /\ w \in FileBuf /\ w.pos <= w.cap /\ w.box = b.box
      /\ Exhausted(b) => w.src = s /\ w.pos = 0 /\ w.cap <= SliceLen[s]
      /\ ~Exhausted(b) => w = b
  BY <1>2, WriteBufHas
<1>4. /\ ~Exhausted(b) => active = "Write" /\ b = buf
      /\ ~Switches("Write") /\ event # NoEvent => buf.box \in Box
  <2>1. ~Exhausted(b) => ~Exhausted(buf) /\ ~Switches("Write")
    BY <1>2 DEF Exhausted
  <2>2. /\ ~Switches("Write") => active \in {"Nothing", "Write"}
        /\ ~Switches("Write") /\ event # NoEvent => event.op = "Write"
    BY <1>1, GuardFinds DEF FileOp
  <2>. QED
    BY <1>2, <2>1, <2>2 DEF IInv, BoxInv, GoneInv
<1>5. w.src \in Slice /\ Unread(w) \in 0 .. Capacity
  BY <1>3, <1>4 DEF IInv, ContentsInv, Unread, Exhausted, FileBuf
<1>6. /\ PollPending("Write", e)
      /\ e \in FileEvent /\ e.op = "Write" /\ e.box = w.box /\ e.at = pos
      /\ e.len = Unread(w) /\ e.src = w.src
  BY <1>1, <1>3, <1>5 DEF Event, FileEvent, FileBuf, IInv, TypeOK
<1>7. /\ next' = IF Switches("Write") THEN pos ELSE next
      /\ next' \in Position /\ strayed' \subseteq Way
      /\ ~Switches("Write") \/ active = "Write" => strayed \subseteq strayed'
      /\ "close" \in strayed => "close" \in strayed'
      /\ Switches("Write") /\ active = "Close" => "close" \in strayed'
      /\ "slice" \notin strayed' /\ active = "Write" => owed \in {NoSlice, s}
  BY <1>1, SwitchedHas DEF SliceChanged, Way, FileOp, Switches
<1>8. /\ active' = "Write" /\ active \notin Over /\ result' = NoResult
      /\ active \notin {"Write", "Nothing"} <=> Switches("Write")
      /\ \/ event' \in {NoEvent, e}
         \/ active = "Write" /\ event' = event /\ event # NoEvent
      /\ event' \in FileEvent \cup {NoEvent} /\ orphans' \subseteq FileEvent
      /\ EventInv' /\ BoxInv' /\ ResultInv' /\ LentAlive(buf.box)' /\ FdIsOwn'
  <2>1. "Write" \in FileOp /\ buf' \in FileBuf /\ buf'.box \in Box /\ e.box = buf'.box
    BY <1>1, <1>2, <1>3, <1>6 DEF FileOp
  <2>2. \/ buf'.box \in Free \cup {NoBox}
        \/ ~Switches("Write") /\ buf'.box = buf.box
    BY <1>1, <1>2, <1>3
  <2>3. ~Switches("Write") /\ event # NoEvent => buf'.box = buf.box
    BY <1>1, <1>2, <1>3, <1>4
  <2>. HIDE DEF e
  <2>. QED
    BY <1>1, <1>6, <1>7, <2>1, <2>2, <2>3, Pending
<1>. HIDE DEF w, e
<1>9. buf' = w
  BY <1>1 DEF w
<1>10. TypeOK'
  BY <1>1, <1>3, <1>7, <1>8, <1>9 DEF IInv, TypeOK, NoWrite
<1>11. GoneInv' /\ WriteReportsItsSlice'
  BY <1>1, <1>8 DEF GoneInv, WriteReportsItsSlice, NoWrite
<1>12. ContentsInv'
  <2>. SUFFICES /\ ~Exhausted(w) => w.src \in Slice
                /\ "slice" \notin strayed' =>
                     /\ ~Exhausted(w) => w.src = s /\ Unread(w) <= SliceLen[s]
                     /\ event' # NoEvent => event'.src = s /\ event'.len <= SliceLen[s]
    BY <1>1, <1>8, <1>9 DEF ContentsInv
  <2>1. "slice" \notin strayed' => w.src = s /\ Unread(w) <= SliceLen[s]
    BY <1>1, <1>3, <1>4, <1>7 DEF IInv, ContentsInv, Unread, Exhausted, FileBuf
  <2>2. "slice" \notin strayed' /\ active = "Write" /\ event # NoEvent =>
          event.src = s /\ event.len <= SliceLen[s]
    BY <1>1, <1>7 DEF IInv, ContentsInv
  <2>. QED
    BY <1>5, <1>6, <1>8, <2>1, <2>2
<1>13. LentBufferAlive'
  <2>1. "consume" \notin strayed' /\ active = "Write" /\ event # NoEvent /\ event.len > 0 =>
          w.src = event.src /\ Unread(w) = event.len
    BY <1>2, <1>3, <1>4, <1>7, <1>8
       DEF IInv, LentBufferAlive, EventInv, Unread, Exhausted, TypeOK, FileEvent
  <2>. QED
    BY <1>6, <1>8, <1>9, <2>1 DEF LentBufferAlive
<1>14. ReadsAreContiguous'
  BY <1>1, <1>6, <1>7, <1>8
     DEF IInv, ReadsAreContiguous, EventInv
<1>. QED
  BY <1>8, <1>10, <1>11, <1>12, <1>13, <1>14 DEF IInv

LEMMA ReadReadyStep ==
  ASSUME IInv, NEW k \in 0 .. Capacity, ReadReady(k)
  PROVE  IInv'
<1>. USE FileAssumption
<1>1. /\ buf'.box = buf.box /\ buf'.pos = MinOf(k, result)
      /\ buf'.cap = result /\ buf'.src = event.at
  <2>1. buf' = Buf(buf.box, MinOf(0 + k, result), result, event.at)
    BY DEF ReadReady, Consumed, Filled, Buf
  <2>. QED
    BY <2>1 DEF Buf
<1>2. /\ active = "Read" /\ active' = "Read" /\ orphans' = orphans
      /\ event \in FileEvent /\ event.op = "Read" /\ result # NoResult
      /\ event' = NoEvent /\ result' = NoResult
      /\ buf.box \in Box
      /\ EventInv' /\ ResultInv' /\ LentAlive(buf.box)' /\ FdIsOwn' /\ BoxInv'
  BY <1>1, Ready DEF ReadReady, FileOp
<1>3. result \in 0 .. Capacity /\ event.at + result <= MaxPos /\ event.at \in Position
  BY <1>2, NoEventAssumption
     DEF IInv, ResultInv, TypeOK, FileEvent, ReadReady, Position
<1>4. buf' = [box |-> buf'.box, pos |-> buf'.pos, cap |-> buf'.cap, src |-> buf'.src]
  BY DEF ReadReady, Consumed, Buf
<1>5. TypeOK'
  <2>1. buf' \in FileBuf /\ buf'.pos <= buf'.cap
    BY <1>1, <1>2, <1>3, <1>4 DEF FileBuf, Source, MinOf
  <2>2. pos' \in Position /\ next' \in Position
    BY <1>3, AdvanceType DEF ReadReady, MinOf, IInv, TypeOK
  <2>. QED
    BY <1>2, <2>1, <2>2 DEF IInv, TypeOK, ReadReady
<1>6. GoneInv' /\ ContentsInv' /\ LentBufferAlive' /\ WriteReportsItsSlice'
  BY <1>1, <1>2, <1>3
     DEF GoneInv, ContentsInv, LentBufferAlive, WriteReportsItsSlice, IInv, ReadReady, Exhausted
<1>7. ReadsAreContiguous'
  <2>. SUFFICES ASSUME "seek" \notin strayed
                PROVE  IF Unread(buf') > 0
                         THEN next' = buf'.src + buf'.pos /\ pos' = next' + Unread(buf')
                         ELSE pos' = next'
    BY <1>2 DEF ReadsAreContiguous, ReadReady
  <2>1. event.at = next /\ pos = next
    BY <1>2, NoEventAssumption DEF IInv, ReadsAreContiguous, ReadReady, Unread
  <2>2. pos' = next + result /\ next' = next + MinOf(k, result)
    BY <1>3, <2>1 DEF Advance, MinOf, ReadReady, Position
  <2>. QED
    BY <1>1, <1>2, <1>3, <2>1, <2>2 DEF Unread, Exhausted, MinOf, Position
<1>. QED
  BY <1>2, <1>5, <1>6, <1>7 DEF IInv

LEMMA ConsumeStep ==
  ASSUME IInv, NEW k \in 1 .. Capacity, Consume(k)
  PROVE  IInv'
<1>. USE FileAssumption DEF handleVars
<1>1. /\ buf'.box = buf.box /\ buf'.cap = buf.cap /\ buf'.src = buf.src
      /\ buf'.pos = MinOf(buf.pos + k, buf.cap)
      /\ buf' \in FileBuf /\ buf'.pos <= buf'.cap
  BY DEF Consume, Consumed, Buf, IInv, TypeOK, FileBuf, MinOf
<1>2. /\ Unread(buf) \in 0 .. Capacity
      /\ Unread(buf') = Unread(buf) - MinOf(k, Unread(buf))
      /\ Exhausted(buf) => buf'.pos = buf.pos /\ Exhausted(buf')
      /\ Unread(buf) > 0 => Unread(buf) = buf.cap - buf.pos /\ ~Exhausted(buf)
  BY <1>1 DEF Unread, Exhausted, MinOf, IInv, TypeOK, FileBuf
<1>3. /\ strayed' \subseteq Way
      /\ \A w \in {"seek", "slice", "close", "convert"} : w \in strayed' <=> w \in strayed
      /\ "consume" \notin strayed' =>
           "consume" \notin strayed /\ (active # "Write" \/ Exhausted(buf))
  BY DEF Consume, Way, IInv, TypeOK
<1>4. TypeOK'
  <2>1. next' \in Position
    BY <1>2, AdvanceType DEF Consume, MinOf, IInv, TypeOK
  <2>. QED
    BY <1>1, <1>3, <2>1 DEF IInv, TypeOK, Consume
<1>5. EventInv' /\ BoxInv' /\ ResultInv' /\ FdIsOwn'
  BY <1>1, <1>2, <1>3 DEF Consume, IInv, EventInv, BoxInv, ResultInv, FdIsOwn
<1>6. GoneInv' /\ WriteReportsItsSlice'
  BY <1>2, <1>3 DEF Consume, IInv, GoneInv, WriteReportsItsSlice
<1>7. ContentsInv'
  <2>1. /\ ~Exhausted(buf') => ~Exhausted(buf)
        /\ Unread(buf') <= Unread(buf)
    BY <1>2 DEF MinOf
  <2>2. active = "Write" /\ "slice" \notin strayed /\ ~Exhausted(buf) =>
          owed \in Slice /\ Unread(buf') <= SliceLen[owed]
    <3>1. active = "Write" /\ "slice" \notin strayed /\ ~Exhausted(buf) => owed \in Slice
      BY DEF IInv, ContentsInv
    <3>2. SliceLen[owed] \in Nat \/ owed \notin Slice
      OBVIOUS
    <3>. QED
      BY <1>2, <2>1, <3>1, <3>2 DEF IInv, ContentsInv, MinOf
  <2>. QED
    BY <1>1, <1>3, <2>1, <2>2 DEF Consume, IInv, ContentsInv
<1>8. LentBufferAlive'
  <2>1. LentAlive(buf.box)'
    BY <1>1 DEF Consume, IInv, LentBufferAlive, LentAlive
  <2>2. ASSUME "consume" \notin strayed', event # NoEvent, event.op = "Write", event.len > 0
        PROVE  buf'.src = event.src /\ Unread(buf') = event.len
    <3>1. Exhausted(buf) /\ "consume" \notin strayed
      BY <1>3, <2>2 DEF IInv, EventInv
    <3>. QED
      BY <1>1, <1>2, <2>2, <3>1 DEF IInv, LentBufferAlive, Unread, Exhausted
  <2>. QED
    BY <2>1, <2>2 DEF LentBufferAlive, Consume
<1>9. ReadsAreContiguous'
  <2>. SUFFICES ASSUME "seek" \notin strayed
                PROVE  /\ IF active = "Read" /\ Unread(buf') > 0
                            THEN next' = buf'.src + buf'.pos /\ pos' = next' + Unread(buf')
                            ELSE pos' = next'
                       /\ event # NoEvent /\ event.op \in {"Read", "Write"} =>
                            event.at = next'
    BY <1>3 DEF ReadsAreContiguous, Consume
  <2>1. CASE active = "Read" /\ Unread(buf) > 0
    <3>1. next = buf.src + buf.pos /\ pos = next + Unread(buf)
      BY <2>1 DEF IInv, ReadsAreContiguous
    <3>2. next' = next + MinOf(k, Unread(buf)) /\ pos' = pos
      BY <1>2, <2>1, <3>1 DEF Consume, Advance, MinOf, IInv, TypeOK, Position
    <3>3. event = NoEvent \/ event.op \notin {"Read", "Write"}
      BY <1>2, <2>1 DEF IInv, EventInv, BoxInv
    <3>4. buf.src \in Position
      BY <1>2, <2>1 DEF IInv, ContentsInv
    <3>. QED
      BY <1>1, <1>2, <2>1, <3>1, <3>2, <3>3, <3>4
         DEF MinOf, Position, IInv, TypeOK, FileBuf, Exhausted
  <2>2. CASE ~(active = "Read" /\ Unread(buf) > 0)
    <3>1. active = "Read" => Unread(buf) = 0 /\ Unread(buf') = 0
      BY <1>2, <2>2 DEF MinOf
    <3>2. next' = next /\ pos' = pos
      BY <3>1 DEF Consume, Advance, MinOf, IInv, TypeOK, Position
    <3>. QED
      BY <2>2, <3>1, <3>2 DEF IInv, ReadsAreContiguous
  <2>. QED
    BY <2>1, <2>2
<1>. QED
  BY <1>4, <1>5, <1>6, <1>7, <1>8, <1>9 DEF IInv

LEMMA WriteReadyStep ==
  ASSUME IInv, NEW s \in Slice, WriteReady(s)
  PROVE  IInv'
<1>. USE FileAssumption
<1>1. LET w == WriteBuf(buf, s)
      IN  w \in FileBuf /\ w.box = buf.box /\ buf' = Buf(w.box, 0, 0, w.src)
  BY WriteBufHas DEF IInv, TypeOK, WriteReady, Cleared
<1>2. buf' \in FileBuf /\ buf'.box = buf.box /\ buf'.pos = 0 /\ buf'.cap = 0
  BY <1>1 DEF FileBuf, Buf
<1>3. /\ strayed' \subseteq Way /\ strayed \subseteq strayed'
      /\ "seek" \in strayed' => "seek" \in strayed
  BY DEF WriteReady, SliceChanged, Way, IInv, TypeOK
<1>4. /\ active = "Write" /\ active' = "Write" /\ orphans' = orphans
      /\ event \in FileEvent /\ event.op = "Write" /\ result # NoResult
      /\ event' = NoEvent /\ result' = NoResult
      /\ EventInv' /\ ResultInv' /\ LentAlive(buf.box)' /\ FdIsOwn' /\ BoxInv'
  BY <1>2, <1>3, Ready DEF WriteReady, FileOp
<1>5. /\ result \in 0 .. Capacity /\ result <= event.len
      /\ event.src \in Slice \cup {NoSource} /\ event.at \in Position
  BY <1>4, NoEventAssumption
     DEF IInv, ResultInv, TypeOK, FileEvent, WriteReady, Position
<1>6. TypeOK'
  <2>1. pos' \in Position /\ next' \in Position
    BY <1>5, AdvanceType DEF WriteReady, IInv, TypeOK
  <2>2. wrote' \in [asked : Slice \cup {NoSlice}, src : Slice \cup {NoSlice, NoSource},
                    n : 0 .. Capacity]
    BY <1>5 DEF WriteReady
  <2>. QED
    BY <1>2, <1>3, <1>4, <2>1, <2>2 DEF IInv, TypeOK, WriteReady
<1>7. GoneInv' /\ ContentsInv' /\ LentBufferAlive' /\ ReadsAreContiguous'
  BY <1>2, <1>3, <1>4 DEF GoneInv, ContentsInv, LentBufferAlive, ReadsAreContiguous, IInv,
     WriteReady, Exhausted
<1>8. WriteReportsItsSlice'
  <2>. SUFFICES ASSUME "slice" \notin strayed'
                PROVE  event.src = s /\ result <= SliceLen[s]
    BY DEF WriteReportsItsSlice, WriteReady
  <2>1. "slice" \notin strayed /\ owed \in {NoSlice, s}
    BY <1>3, <1>4 DEF WriteReady, SliceChanged
  <2>2. event.src = owed /\ owed \in Slice /\ event.len <= SliceLen[owed]
    BY <1>4, <2>1, NoEventAssumption DEF IInv, ContentsInv
  <2>. QED
    BY <1>4, <1>5, <2>1, <2>2 DEF FileEvent
<1>. QED
  BY <1>4, <1>6, <1>7, <1>8 DEF IInv

LEMMA WriteFailedStep ==
  ASSUME IInv, NEW s \in Slice, WriteFailed(s)
  PROVE  IInv'
<1>. USE FileAssumption
<1>1. /\ buf' \in FileBuf /\ buf'.pos <= buf'.cap /\ buf'.box = buf.box
      /\ Exhausted(buf) => buf'.src = s /\ buf'.pos = 0 /\ buf'.cap <= SliceLen[s]
      /\ ~Exhausted(buf) => buf' = buf
  BY WriteBufHas DEF IInv, TypeOK, WriteFailed
<1>2. /\ strayed' \subseteq Way /\ strayed \subseteq strayed'
      /\ "seek" \in strayed' => "seek" \in strayed
  BY DEF WriteFailed, SliceChanged, Way, IInv, TypeOK
<1>3. /\ active = "Write" /\ active' = "Write" /\ orphans' = orphans
      /\ event' = NoEvent /\ result' = NoResult
      /\ EventInv' /\ ResultInv' /\ LentAlive(buf.box)' /\ FdIsOwn' /\ BoxInv'
  BY <1>1, <1>2, Ready DEF WriteFailed, FileOp
<1>4. TypeOK'
  BY <1>1, <1>2, <1>3 DEF IInv, TypeOK, WriteFailed
<1>5. ContentsInv'
  <2>1. ~Exhausted(buf') => buf'.src \in Slice
    BY <1>1, <1>3 DEF IInv, ContentsInv
  <2>2. ASSUME "slice" \notin strayed', ~Exhausted(buf')
        PROVE  buf'.src = s /\ Unread(buf') <= SliceLen[s]
    <3>1. "slice" \notin strayed /\ owed \in {NoSlice, s}
      BY <1>2, <1>3, <2>2 DEF WriteFailed, SliceChanged
    <3>. QED
      BY <1>1, <1>3, <2>1, <2>2, <3>1 DEF IInv, ContentsInv, Unread, Exhausted, FileBuf
  <2>. QED
    BY <1>3, <2>1, <2>2 DEF ContentsInv, WriteFailed
<1>6. GoneInv' /\ LentBufferAlive' /\ ReadsAreContiguous' /\ WriteReportsItsSlice'
  <2>1. GoneInv' /\ LentBufferAlive'
    BY <1>3 DEF GoneInv, LentBufferAlive
  <2>2. ReadsAreContiguous'
    BY <1>2, <1>3 DEF ReadsAreContiguous, IInv, WriteFailed
  <2>3. WriteReportsItsSlice'
    BY <1>2 DEF WriteReportsItsSlice, IInv, WriteFailed
  <2>. QED
    BY <2>1, <2>2, <2>3
<1>. QED
  BY <1>3, <1>4, <1>5, <1>6 DEF IInv

-----------------------------------------------------------------------------
(* A seek that polls nothing.                                               *)
LEMMA SeekStep ==
  ASSUME IInv, NEW p \in Position, active \notin {"Gone", "Std"}, MoveTo(p),
         UNCHANGED <<handleVars, buf, size, owed>>
  PROVE  IInv'
<1>. USE FileAssumption DEF handleVars
<1>1. /\ strayed' \subseteq Way
      /\ \A w \in {"slice", "consume", "close", "convert"} : w \in strayed' <=> w \in strayed
  BY DEF MoveTo, Way, IInv, TypeOK
<1>2. TypeOK'
  BY <1>1 DEF IInv, TypeOK, MoveTo, NoWrite
<1>3. /\ EventInv' /\ GoneInv' /\ BoxInv' /\ ResultInv' /\ ContentsInv' /\ LentBufferAlive'
  BY <1>1 DEF MoveTo, IInv, EventInv, GoneInv, BoxInv, ResultInv, ContentsInv,
     LentBufferAlive, LentAlive
<1>4. ReadsAreContiguous'
  BY DEF MoveTo, ReadsAreContiguous
<1>5. WriteReportsItsSlice' /\ FdIsOwn'
  BY <1>1 DEF MoveTo, IInv, WriteReportsItsSlice, FdIsOwn, NoWrite
<1>. QED
  BY <1>2, <1>3, <1>4, <1>5 DEF IInv

LEMMA SeekEndPendingStep ==
  ASSUME IInv, SeekEndPending
  PROVE  IInv'
<1>. USE FileAssumption
<1>1. PICK b \in StatxBuf(GuardBuf("Statx")) :
        /\ GuardOp("Statx", buf.box)
        /\ PollPending("Statx", Event("Statx", b.box, 0, 0, NoSource))
        /\ buf' = b
        /\ Switched("Statx")
        /\ UNCHANGED <<fd, pos, size>>
  BY DEF SeekEndPending
<1>. DEFINE e == Event("Statx", b.box, 0, 0, NoSource)
<1>2. /\ b \in FileBuf /\ b.pos <= b.cap /\ b.box \in Box /\ b.src = Statx
      /\ b.box \in Free \/ (~Switches("Statx") /\ b = buf)
      /\ ~Switches("Statx") /\ buf.src = Statx => b = buf
  <2>1. CASE ~Switches("Statx") /\ buf.src = Statx
    BY <2>1 DEF StatxBuf, GuardBuf, IInv, TypeOK, BoxInv
  <2>2. CASE Switches("Statx") \/ buf.src # Statx
    <3>1. PICK x \in Free : b = Buf(x, 0, 0, Statx)
      BY <2>2 DEF StatxBuf, GuardBuf, Fresh, Buf
    <3>. QED
      BY <2>2, <3>1 DEF Buf, FileBuf, Free, Source
  <2>. QED
    BY <2>1, <2>2
<1>3. /\ PollPending("Statx", e)
      /\ e \in FileEvent /\ e.op = "Statx" /\ e.box = b.box
  BY <1>1, <1>2 DEF Event, FileEvent, Position
<1>4. /\ next' = IF Switches("Statx") THEN pos ELSE next
      /\ next' \in Position /\ strayed' \subseteq Way
      /\ ~Switches("Statx") => strayed' = strayed
      /\ "close" \in strayed => "close" \in strayed'
      /\ Switches("Statx") /\ active = "Close" => "close" \in strayed'
      /\ owed' = NoSlice /\ wrote' = NoWrite
  BY <1>1, SwitchedHas DEF Switched, FileOp
<1>5. ~Switches("Statx") /\ event # NoEvent => b = buf
  BY <1>1, <1>2, GuardFinds DEF FileOp, IInv, BoxInv
<1>6. /\ active' = "Statx" /\ active \notin Over /\ result' = NoResult
      /\ active \notin {"Statx", "Nothing"} <=> Switches("Statx")
      /\ \/ event' \in {NoEvent, e}
         \/ active = "Statx" /\ event' = event /\ event # NoEvent
      /\ event' \in FileEvent \cup {NoEvent} /\ orphans' \subseteq FileEvent
      /\ EventInv' /\ BoxInv' /\ ResultInv' /\ LentAlive(buf.box)' /\ FdIsOwn'
  <2>1. /\ "Statx" \in FileOp /\ buf' \in FileBuf /\ buf'.box \in Box
        /\ e.box = buf'.box /\ buf'.src = Statx
    BY <1>1, <1>2, <1>3 DEF FileOp
  <2>2. \/ buf'.box \in Free \cup {NoBox}
        \/ ~Switches("Statx") /\ buf'.box = buf.box
    BY <1>1, <1>2
  <2>3. ~Switches("Statx") /\ event # NoEvent => buf'.box = buf.box
    BY <1>1, <1>5
  <2>. HIDE DEF e
  <2>. QED
    BY <1>1, <1>3, <1>4, <2>1, <2>2, <2>3, Pending
<1>7. TypeOK'
  BY <1>1, <1>2, <1>4, <1>6 DEF IInv, TypeOK, NoWrite
<1>8. GoneInv' /\ ContentsInv' /\ LentBufferAlive' /\ WriteReportsItsSlice'
  <2>1. GoneInv' /\ ContentsInv'
    BY <1>6 DEF GoneInv, ContentsInv
  <2>2. LentBufferAlive'
    BY <1>6 DEF LentBufferAlive, EventInv
  <2>3. WriteReportsItsSlice'
    BY <1>4 DEF WriteReportsItsSlice, NoWrite
  <2>. QED
    BY <2>1, <2>2, <2>3
<1>9. ReadsAreContiguous'
  BY <1>1, <1>4, <1>6 DEF IInv, ReadsAreContiguous, EventInv
<1>. QED
  BY <1>6, <1>7, <1>8, <1>9 DEF IInv

LEMMA SeekEndReadyStep ==
  ASSUME IInv, NEW d \in Offset, SeekEndReady(d)
  PROVE  IInv'
<1>1. /\ active = "Statx" /\ active' = "Statx" /\ orphans' = orphans
      /\ event' = NoEvent /\ result' = NoResult
      /\ EventInv' /\ ResultInv' /\ LentAlive(buf.box)' /\ FdIsOwn' /\ BoxInv'
  BY Ready DEF SeekEndReady, FileOp
<1>2. TypeOK'
  BY <1>1 DEF IInv, TypeOK, SeekEndReady, ValidSeek
<1>3. GoneInv' /\ ContentsInv' /\ LentBufferAlive' /\ ReadsAreContiguous' /\ WriteReportsItsSlice'
  BY <1>1 DEF IInv, SeekEndReady, GoneInv, ContentsInv, LentBufferAlive, ReadsAreContiguous,
     WriteReportsItsSlice
<1>. QED
  BY <1>1, <1>2, <1>3 DEF IInv

LEMMA FailedStep ==
  ASSUME IInv, NEW op \in {"Read", "Statx"}, Failed(op)
  PROVE  IInv'
<1>. USE DEF fileVars, userVars
<1>1. /\ active = op /\ active' = op /\ orphans' = orphans
      /\ event' = NoEvent /\ result' = NoResult
      /\ EventInv' /\ ResultInv' /\ LentAlive(buf.box)' /\ FdIsOwn' /\ BoxInv'
  BY Ready DEF Failed, FileOp
<1>2. TypeOK'
  BY <1>1 DEF IInv, TypeOK, Failed
<1>3. GoneInv' /\ ContentsInv' /\ LentBufferAlive' /\ ReadsAreContiguous' /\ WriteReportsItsSlice'
  BY <1>1 DEF IInv, Failed, GoneInv, ContentsInv, LentBufferAlive, ReadsAreContiguous,
     WriteReportsItsSlice
<1>. QED
  BY <1>1, <1>2, <1>3 DEF IInv

-----------------------------------------------------------------------------
(* The ends of a file.                                                      *)

LEMMA CloseStep ==
  ASSUME IInv, Close
  PROVE  IInv'
<1>. USE FileAssumption
<1>. DEFINE e == Event("Close", NoBox, 0, 0, NoSource)
<1>1. /\ GuardOp("Close", buf.box) /\ PollPending("Close", e)
      /\ buf' = GuardBuf("Close")
      /\ Switched("Close")
      /\ UNCHANGED <<fd, pos, size>>
  BY DEF Close, ClosePending
<1>2. e \in FileEvent /\ e.op = "Close" /\ e.box = NoBox
  BY DEF Event, FileEvent, Position
<1>3. /\ buf' \in FileBuf /\ buf'.pos <= buf'.cap
      /\ ~Exhausted(buf') \/ buf'.src = Statx => buf'.box \in Box
      /\ \/ buf'.box \in Free \cup {NoBox}
         \/ ~Switches("Close") /\ buf'.box = buf.box
      /\ ~Switches("Close") => buf' = buf
  BY <1>1 DEF GuardBuf, Fresh, Buf, FileBuf, Source, Exhausted, IInv, TypeOK, BoxInv
<1>4. /\ next' = IF Switches("Close") THEN pos ELSE next
      /\ next' \in Position /\ strayed' \subseteq Way
      /\ ~Switches("Close") => strayed' = strayed
      /\ "close" \in strayed => "close" \in strayed'
      /\ Switches("Close") /\ active = "Close" => "close" \in strayed'
      /\ owed' = NoSlice /\ wrote' = NoWrite
  BY <1>1, SwitchedHas DEF Switched, FileOp
<1>5. /\ active' = "Close" /\ active \notin Over /\ result' = NoResult
      /\ active \notin {"Close", "Nothing"} <=> Switches("Close")
      /\ \/ event' \in {NoEvent, e}
         \/ active = "Close" /\ event' = event /\ event # NoEvent
      /\ event' \in FileEvent \cup {NoEvent} /\ orphans' \subseteq FileEvent
      /\ EventInv' /\ BoxInv' /\ ResultInv' /\ LentAlive(buf.box)' /\ FdIsOwn'
  <2>1. "Close" \in FileOp /\ fd' = fd
    BY <1>1 DEF FileOp
  <2>. HIDE DEF e
  <2>. QED
    BY <1>1, <1>2, <1>3, <1>4, <2>1, Pending
<1>6. TypeOK'
  BY <1>1, <1>3, <1>4, <1>5 DEF IInv, TypeOK, NoWrite
<1>7. GoneInv' /\ ContentsInv' /\ LentBufferAlive' /\ WriteReportsItsSlice'
  <2>1. GoneInv' /\ ContentsInv'
    BY <1>5 DEF GoneInv, ContentsInv
  <2>2. LentBufferAlive'
    BY <1>5 DEF LentBufferAlive, EventInv
  <2>3. WriteReportsItsSlice'
    BY <1>4 DEF WriteReportsItsSlice, NoWrite
  <2>. QED
    BY <2>1, <2>2, <2>3
<1>8. ReadsAreContiguous'
  BY <1>1, <1>4, <1>5 DEF IInv, ReadsAreContiguous, EventInv
<1>. QED
  BY <1>5, <1>6, <1>7, <1>8 DEF IInv

LEMMA ClosedStep ==
  ASSUME IInv, Closed
  PROVE  IInv'
<1>. USE DEF fileVars
<1>1. /\ strayed' \subseteq Way /\ strayed \subseteq strayed'
      /\ "seek" \in strayed' => "seek" \in strayed
      /\ "slice" \in strayed' => "slice" \in strayed
      /\ result = Err => "close" \in strayed'
  BY DEF Closed, Way, IInv, TypeOK
<1>2. /\ active = "Close" /\ active' \in {"Close", "Closed"} /\ orphans' = orphans
      /\ result # Err => active' = "Closed"
      /\ event' = NoEvent /\ result' = NoResult
  BY DEF Closed, CloseReady, PollReady, Return
<1>3. TypeOK'
  BY <1>1, <1>2 DEF IInv, TypeOK, Closed
<1>4. EventInv' /\ GoneInv' /\ ResultInv' /\ ContentsInv' /\ BoxInv'
  BY <1>2 DEF EventInv, GoneInv, ResultInv, ContentsInv, BoxInv, IInv, Closed
<1>5. LentBufferAlive'
  BY <1>2, OrphansStay DEF LentBufferAlive, LentAlive, OrphansOwn, Closed
<1>6. ReadsAreContiguous' /\ WriteReportsItsSlice'
  BY <1>1, <1>2 DEF IInv, Closed, ReadsAreContiguous, WriteReportsItsSlice
<1>7. FdIsOwn'
  BY <1>1, <1>2 DEF IInv, Closed, FdIsOwn
<1>. QED
  BY <1>3, <1>4, <1>5, <1>6, <1>7 DEF IInv

(* From<File> and Drop: what is in flight is left to its callback.          *)
LEMMA EndStep ==
  ASSUME IInv, active \notin {"Gone", "Std"}, active' \in {"Gone", "Std"},
         Release(buf.box), Ended, size' = size, fd' \in {fd, "closed"},
         strayed' \subseteq Way, active' = "Gone" \/ fd' = fd,
         active' = "Std" /\ active = "Close" => "close" \in strayed',
         active' = "Std" /\ active = "Closed" => "convert" \in strayed',
         strayed \subseteq strayed'
  PROVE  IInv'
<1>. USE FileAssumption DEF Ended, Release
<1>1. orphans' \subseteq FileEvent /\ OrphansOwn(buf.box)'
  BY CancelledType, OrphansKept DEF Fresh, Buf, IInv, TypeOK
<1>2. /\ buf'.box = NoBox /\ buf'.pos = 0 /\ buf'.cap = 0 /\ buf'.src = NoSource
      /\ buf' \in FileBuf
  BY DEF Fresh, Buf, FileBuf, Source
<1>3. TypeOK'
  BY <1>1, <1>2 DEF IInv, TypeOK, NoWrite, Position
<1>4. EventInv' /\ GoneInv' /\ ResultInv' /\ ContentsInv' /\ BoxInv'
  BY <1>2 DEF EventInv, GoneInv, ResultInv, ContentsInv, BoxInv, Exhausted
<1>5. LentBufferAlive' /\ ReadsAreContiguous' /\ WriteReportsItsSlice'
  BY <1>1 DEF LentBufferAlive, LentAlive, OrphansOwn, ReadsAreContiguous,
     WriteReportsItsSlice, NoWrite
<1>6. FdIsOwn'
  <2>1. CASE active' = "Gone"
    BY <2>1 DEF FdIsOwn
  <2>2. CASE active' = "Std" /\ active \notin {"Close", "Closed"}
    <3>1. event # NoEvent => event.op # "Close"
      BY <2>2 DEF IInv, EventInv
    <3>. QED
      BY <2>2, <3>1 DEF FdIsOwn, IInv, Cancelled, Kept
  <2>3. CASE active' = "Std" /\ active = "Close"
    BY <2>3 DEF FdIsOwn
  <2>4. CASE active' = "Std" /\ active = "Closed"
    <3>1. event # NoEvent => event.op # "Close"
      BY <2>4 DEF IInv, EventInv
    <3>. QED
      BY <2>4, <3>1 DEF FdIsOwn, IInv, Cancelled, Kept
  <2>. QED
    BY <2>1, <2>2, <2>3, <2>4
<1>. QED
  BY <1>3, <1>4, <1>5, <1>6 DEF IInv

LEMMA IntoStdStep ==
  ASSUME IInv, IntoStd
  PROVE  IInv'
BY EndStep DEF IntoStd, IInv, TypeOK, Way

LEMMA DropFileStep ==
  ASSUME IInv, DropFile
  PROVE  IInv'
BY EndStep DEF DropFile, Drop, IInv, TypeOK

LEMMA OpenStep ==
  ASSUME IInv, Open
  PROVE  IInv'
<1>. USE DEF Open, Begin, fileVars
<1>1. TypeOK'
  BY DEF IInv, TypeOK
<1>2. EventInv' /\ GoneInv' /\ ResultInv' /\ ContentsInv' /\ BoxInv' /\ LentBufferAlive'
  BY DEF IInv, EventInv, GoneInv, ResultInv, ContentsInv, BoxInv, LentBufferAlive, LentAlive
<1>3. ReadsAreContiguous' /\ WriteReportsItsSlice' /\ FdIsOwn'
  BY DEF IInv, GoneInv, ReadsAreContiguous, WriteReportsItsSlice, FdIsOwn, NoWrite
<1>. QED
  BY <1>1, <1>2, <1>3 DEF IInv

-----------------------------------------------------------------------------
(* The kernel.                                                              *)

LEMMA Outcomes ==
  ASSUME NEW e \in FileEvent, size \in Position, fd \in {"open", "closed"},
         NEW o \in Outcome(e)
  PROVE  /\ o.size \in Position /\ o.fd \in {"open", "closed"}
         /\ o.res \in Position \cup {Err}
         /\ e.op # "Close" => o.fd = fd
         /\ e.op \in {"Read", "Write"} /\ o.res # Err =>
              o.res <= e.len /\ e.at + o.res <= MaxPos
<1>. USE FileAssumption DEF Position
<1>1. CASE e.op = "Read"
  BY <1>1 DEF Outcome, FileEvent, MinOf
<1>2. CASE e.op = "Write"
  BY <1>2 DEF Outcome, FileEvent
<1>3. CASE e.op = "Statx"
  BY <1>3 DEF Outcome
<1>4. CASE e.op = "Close"
  BY <1>4 DEF Outcome, CloseOutcome
<1>. QED
  BY <1>1, <1>2, <1>3, <1>4 DEF FileEvent

LEMMA CompleteStep ==
  ASSUME IInv, Complete
  PROVE  IInv'
<1>. USE FileAssumption DEF userVars
<1>1. PICK o \in Outcome(event) : Finish(o.res) /\ size' = o.size /\ fd' = o.fd
  BY DEF Complete
<1>2. event \in FileEvent /\ event' = event /\ result' = o.res
  BY <1>1 DEF Complete, Finish, IInv, TypeOK
<1>3. /\ o.size \in Position /\ o.fd \in {"open", "closed"}
      /\ o.res \in Position \cup {Err}
      /\ event.op # "Close" => o.fd = fd
      /\ event.op \in {"Read", "Write"} /\ o.res # Err =>
           o.res <= event.len /\ event.at + o.res <= MaxPos
  BY <1>2, Outcomes DEF IInv, TypeOK
<1>4. TypeOK'
  BY <1>1, <1>2, <1>3 DEF IInv, TypeOK, Complete
<1>5. EventInv' /\ GoneInv' /\ ContentsInv' /\ BoxInv' /\ LentBufferAlive'
  BY <1>2 DEF IInv, Complete, EventInv, GoneInv, ContentsInv, BoxInv, LentBufferAlive, LentAlive
<1>6. ResultInv'
  BY <1>2, <1>3 DEF ResultInv
<1>7. ReadsAreContiguous' /\ WriteReportsItsSlice'
  BY <1>2 DEF IInv, Complete, ReadsAreContiguous, WriteReportsItsSlice
<1>8. FdIsOwn'
  BY <1>1, <1>2, <1>3 DEF IInv, Complete, FdIsOwn, EventInv, Position
<1>. QED
  BY <1>4, <1>5, <1>6, <1>7, <1>8 DEF IInv

LEMMA CompleteOrphanStep ==
  ASSUME IInv, NEW e \in orphans, CompleteOrphan(e)
  PROVE  IInv'
<1>. USE DEF userVars
<1>1. PICK o \in Outcome(e) : size' = o.size /\ fd' = o.fd
  BY DEF CompleteOrphan
<1>2. /\ o.size \in Position /\ o.fd \in {"open", "closed"}
      /\ e.op # "Close" => o.fd = fd
  BY Outcomes DEF IInv, TypeOK
<1>3. TypeOK'
  BY <1>1, <1>2 DEF IInv, TypeOK, CompleteOrphan
<1>4. EventInv' /\ GoneInv' /\ ResultInv' /\ ContentsInv' /\ BoxInv' /\ LentBufferAlive'
  BY DEF IInv, CompleteOrphan, EventInv, GoneInv, ResultInv, ContentsInv, BoxInv,
     LentBufferAlive, LentAlive
<1>5. ReadsAreContiguous' /\ WriteReportsItsSlice'
  BY DEF IInv, CompleteOrphan, ReadsAreContiguous, WriteReportsItsSlice
<1>6. FdIsOwn'
  BY <1>1, <1>2 DEF IInv, CompleteOrphan, FdIsOwn
<1>. QED
  BY <1>3, <1>4, <1>5, <1>6 DEF IInv

-----------------------------------------------------------------------------
LEMMA NextIInv == IInv /\ [Next]_vars => IInv'
<1>. SUFFICES ASSUME IInv, [Next]_vars
              PROVE  IInv'
  OBVIOUS
<1>1. CASE UNCHANGED vars
  BY <1>1 DEF vars, handleVars, fileVars, userVars, IInv, TypeOK, EventInv, GoneInv, BoxInv,
     ResultInv, ContentsInv, LentBufferAlive, LentAlive, ReadsAreContiguous,
     WriteReportsItsSlice, FdIsOwn
<1>2. CASE User
  <2>1. ASSUME NEW p \in Position, SeekStart(p)
        PROVE  IInv'
    BY <2>1, SeekStep DEF SeekStart
  <2>2. ASSUME NEW d \in Offset, SeekCurrent(d)
        PROVE  IInv'
    BY <2>2, SeekStep DEF SeekCurrent, ValidSeek
  <2>. QED
    BY <1>2, <2>1, <2>2, OpenStep, ReadPendingStep, SeekEndPendingStep, CloseStep, ClosedStep,
       IntoStdStep, DropFileStep, ReadReadyStep, ConsumeStep, WritePendingStep,
       WriteReadyStep, WriteFailedStep, SeekEndReadyStep, FailedStep DEF User
<1>3. CASE Complete
  BY <1>3, CompleteStep
<1>4. CASE \E e \in orphans : CompleteOrphan(e)
  BY <1>4, CompleteOrphanStep
<1>. QED
  BY <1>1, <1>2, <1>3, <1>4 DEF Next

(* The inductive invariant holds throughout.                                *)
THEOREM Invariance == Spec => []IInv
<1>1. Init => IInv
  BY FileAssumption DEF Init, HandleInit, RingInit, IInv, TypeOK, EventInv, GoneInv, BoxInv,
     ResultInv, ContentsInv, LentBufferAlive, LentAlive, ReadsAreContiguous,
     WriteReportsItsSlice, FdIsOwn, Fresh, Buf, FileBuf, NoWrite, Position, Source, Exhausted,
     Unread
<1>. QED
  BY <1>1, NextIInv, PTL DEF Spec

(* Type correctness; the position and the file's size stay in 64 bits.      *)
THEOREM TypeCorrect == Spec => []TypeOK
BY Invariance, PTL DEF IInv

(* The kernel works on memory that is alive and that nothing else uses; and *)
(* what it is to write stays as it was, unless the user calls consume with  *)
(* bytes to write in the buffer.                                            *)
THEOREM BufferStaysAlive == Spec => []LentBufferAlive
BY Invariance, PTL DEF IInv

(* Reads and writes follow one another at the byte after the last; what is  *)
(* skipped is what was read and not consumed when another operation was     *)
(* polled.  For users who seek with nothing in the buffer or in flight.     *)
THEOREM ReadsFollowOn == Spec => []ReadsAreContiguous
BY Invariance, PTL DEF IInv

(* What poll_write returns is a count of the slice it was called with, if   *)
(* the user stays with a slice until it is written.                         *)
THEOREM CountIsOfTheSlice == Spec => []WriteReportsItsSlice
BY Invariance, PTL DEF IInv

(* A file that uses its descriptor has it, unless a close failed or was     *)
(* given up; and so has an fs::File, but for one made of a file whose close *)
(* succeeded.                                                               *)
THEOREM DescriptorIsOwn == Spec => []FdIsOwn
BY Invariance, PTL DEF IInv
=============================================================================
