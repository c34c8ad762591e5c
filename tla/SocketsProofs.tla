---------------------------- MODULE SocketsProofs ----------------------------
(***************************************************************************)
(* Proofs about Sockets, for buffers and slices of any length, any number  *)
(* of bytes, slices, connections and allocations: its invariants hold.     *)
(***************************************************************************)
EXTENDS Sockets, TLAPS

(* The memory of the handle there is.                                       *)
Mine == IF kind = "Stream" THEN buf.box ELSE addr

Ops == IF kind = "Stream" THEN {"Read", "Write", "Close"} ELSE {"Accept", "Close"}

(* A handle has the operations of its kind, and what belongs to the other   *)
(* kind is as it was made.                                                  *)
KindInv ==
  /\ active \in Ops \cup {"Nothing", "Closed", "Gone"}
  /\ \A o \in orphans : o.op \in Ops \cup {"Earlier"}
  /\ kind # "Stream" => Exhausted(buf) /\ next = taken /\ ~eof
  /\ kind = "Stream" => accepted.of = accepted.conn
  /\ active = "Nothing" => Exhausted(buf)

(* An event in flight is of the operation that was polled last.             *)
EventInv ==
  /\ event # NoEvent => event.op = active /\ event.box \in {NoBox, Mine}
  /\ event = NoEvent => result = NoResult

(* A read is made when there is nothing to be read, into memory there is;   *)
(* what it got, or the buffer has, the user has not had.                    *)
ReadInv ==
  /\ event # NoEvent /\ event.op = "Read" =>
       /\ Exhausted(buf) /\ buf.box \in Box
       /\ result \in Nat =>
            /\ result <= Capacity /\ next <= from /\ from + result <= taken
            /\ result = 0 => ended /\ taken = sent
  /\ active = "Read" /\ Unread(buf) > 0 => buf.src \in Nat /\ next + Unread(buf) <= taken

(* Where nothing was discarded, no read goes on that was given up; what is  *)
(* in the buffer is there, and is all of a slice if it is to be written, of *)
(* which consume may have passed over a part.                               *)
ContentsInv ==
  active # "Gone" /\ ~discarded =>
    /\ \A o \in orphans : o.op # "Read"
    /\ ~Exhausted(buf) => buf.box \in Box
    /\ event # NoEvent /\ event.op = "Write" => buf.box \in Box
    /\ active = "Write" /\ ~Exhausted(buf) =>
         /\ ~consumed => buf.pos = 0
         /\ buf.src \in Slice
         /\ buf.cap = MinOf(SliceLen[buf.src], Capacity)

(* An accept that succeeded has written the address, if it was to.          *)
AddressInv ==
  event # NoEvent /\ event.op = "Accept" /\ result \in Nat =>
    /\ result <= MaxConn
    /\ event.box # NoBox => memory[event.box] = result

IInv ==
  /\ TypeOK /\ KindInv /\ EventInv /\ ReadInv /\ ContentsInv /\ AddressInv
  /\ LentMemoryAlive /\ StreamIsFaithful /\ AddressIsOfTheConnection

-----------------------------------------------------------------------------
(* The two parts of LentMemoryAlive.                                        *)
OrphansOwn(mine) ==
  \A o \in orphans : o.box # NoBox =>
    /\ o.keeps = o.box
    /\ o.box # mine
    /\ \A p \in orphans : p.box = o.box => p = o

WriteStays ==
  ~consumed /\ event # NoEvent /\ event.op = "Write" /\ event.len > 0 =>
    buf.src = event.src /\ Unread(buf) = event.len

LEMMA MemoryIs ==
  ASSUME EventInv', OrphansOwn(Mine)', WriteStays'
  PROVE  LentMemoryAlive'
BY DEF EventInv, OrphansOwn, WriteStays, LentMemoryAlive, LentAlive, Mine

LEMMA MemoryHas ==
  ASSUME IInv
  PROVE  OrphansOwn(Mine) /\ WriteStays
BY DEF IInv, OrphansOwn, WriteStays, LentMemoryAlive, LentAlive, Mine

(* What guard_op finds and leaves.                                          *)
LEMMA GuardFinds ==
  ASSUME IInv, NEW op \in Ops, GuardOp(op, Mine)
  PROVE  /\ active' = op /\ active \notin {"Closed", "Gone"}
         /\ Switches(op) <=> active \notin {op, "Nothing"}
         /\ event # NoEvent => event \in SocketEvent /\ event.op = active
         /\ active = "Nothing" => event = NoEvent
         /\ event = NoEvent => result = NoResult
         /\ Current(op) = IF active = op THEN event ELSE NoEvent
         /\ orphans' = IF Switches(op) THEN orphans \cup Cancelled(Mine) ELSE orphans
<1>1. /\ active' = op /\ active \notin {"Closed", "Gone"}
      /\ orphans' = orphans \cup (IF Switches(op) THEN Cancelled(Mine) ELSE {})
  BY DEF GuardOp, Over
<1>2. /\ event # NoEvent => event \in SocketEvent /\ event.op = active
      /\ event = NoEvent => result = NoResult
  BY DEF IInv, TypeOK, EventInv
<1>3. active = "Nothing" => event = NoEvent
  BY <1>2 DEF SocketEvent
<1>. QED
  BY <1>1, <1>2, <1>3 DEF Switches, Current

LEMMA MineType ==
  ASSUME IInv
  PROVE  Mine \in Box \cup {NoBox}
BY DEF IInv, TypeOK, StreamTypeOK, StreamBuf, ListenerTypeOK, Mine

LEMMA CancelledHas ==
  ASSUME IInv
  PROVE  \A o \in Cancelled(Mine) :
           /\ o = Kept(event, Mine) /\ o \in SocketEvent /\ o.keeps = Mine
           /\ event # NoEvent /\ o.op = active /\ o.box \in {NoBox, Mine}
<1>. SUFFICES ASSUME event # NoEvent
              PROVE  /\ Kept(event, Mine) \in SocketEvent
                     /\ Kept(event, Mine).keeps = Mine
                     /\ Kept(event, Mine).op = active
                     /\ Kept(event, Mine).box \in {NoBox, Mine}
  BY DEF Cancelled
<1>1. event \in SocketEvent /\ event.op = active /\ event.box \in {NoBox, Mine}
  BY DEF IInv, TypeOK, EventInv
<1>. QED
  BY <1>1, MineType DEF SocketEvent, Kept

(* Memory that is newly allocated, or none, is no orphan's; memory that is  *)
(* given up with an event is kept for it.                                   *)
LEMMA OrphansStay ==
  ASSUME IInv, orphans' \subseteq orphans, Mine' \in Free \cup {NoBox, Mine}
  PROVE  OrphansOwn(Mine)'
<1>1. OrphansOwn(Mine)
  BY MemoryHas
<1>. QED
  BY <1>1 DEF OrphansOwn, Free

LEMMA OrphansKept ==
  ASSUME IInv, orphans' = orphans \cup Cancelled(Mine), Mine' \in Free \cup {NoBox}
  PROVE  OrphansOwn(Mine)'
<1>1. OrphansOwn(Mine)
  BY MemoryHas
<1>2. Free \cap {Mine} = {}
  BY DEF Free, Mine
<1>. QED
  BY <1>1, <1>2, CancelledHas DEF OrphansOwn, Free

(* A poll that returns Pending, as far as the event and the memory go: e is *)
(* the event it may have prepared.                                          *)
LEMMA Pending ==
  ASSUME IInv, NEW op \in Ops, NEW e \in SocketEvent, e.op = op,
         GuardOp(op, Mine), PollPending(op, e), kind' = kind,
         e.box \in {NoBox, Mine'},
         \/ Mine' \in Free \cup {NoBox}
         \/ ~Switches(op) /\ Mine' = Mine,
         ~Switches(op) /\ event # NoEvent => event.box \in {NoBox, Mine'}
  PROVE  /\ active' = op /\ active \notin {"Closed", "Gone"} /\ result' = NoResult
         /\ Switches(op) <=> active \notin {op, "Nothing"}
         /\ \/ event' \in {NoEvent, e}
            \/ active = op /\ event' = event /\ event # NoEvent
         /\ event # NoEvent /\ ~Switches(op) => active = op /\ result = NoResult
         /\ event' \in SocketEvent \cup {NoEvent} /\ orphans' \subseteq SocketEvent
         /\ \A o \in orphans' \ orphans : Switches(op) /\ event # NoEvent /\ o.op = active
         /\ EventInv' /\ OrphansOwn(Mine)'
<1>1. /\ active' = op /\ active \notin {"Closed", "Gone"}
      /\ Switches(op) <=> active \notin {op, "Nothing"}
      /\ event # NoEvent => event \in SocketEvent /\ event.op = active
      /\ active = "Nothing" => event = NoEvent
      /\ event = NoEvent => result = NoResult
      /\ Current(op) = IF active = op THEN event ELSE NoEvent
      /\ orphans' = IF Switches(op) THEN orphans \cup Cancelled(Mine) ELSE orphans
  BY GuardFinds
<1>2. /\ \/ event' \in {NoEvent, e}
         \/ active = op /\ event' = event /\ event # NoEvent
      /\ result' = NoResult
      /\ active = op => event = NoEvent \/ result = NoResult
  BY <1>1 DEF PollPending
<1>3. /\ event' \in SocketEvent \cup {NoEvent} /\ orphans' \subseteq SocketEvent
      /\ \A o \in orphans' \ orphans : Switches(op) /\ event # NoEvent /\ o.op = active
  BY <1>1, <1>2, CancelledHas DEF IInv, TypeOK
<1>4. EventInv'
  BY <1>1, <1>2 DEF EventInv
<1>5. OrphansOwn(Mine)'
  BY <1>1, OrphansKept, OrphansStay
<1>. QED
  BY <1>1, <1>2, <1>3, <1>4, <1>5

(* A poll that returns the result of its event.                             *)
LEMMA Ready ==
  ASSUME IInv, NEW op \in Ops, GuardOp(op, Mine), PollReady(op), kind' = kind,
         Mine' \in Free \cup {NoBox, Mine}
  PROVE  /\ active = op /\ active' = op /\ orphans' = orphans
         /\ event \in SocketEvent /\ event.op = op /\ event # NoEvent /\ result # NoResult
         /\ event' = NoEvent /\ result' = NoResult
         /\ ~Switches(op) /\ EventInv' /\ OrphansOwn(Mine)'
<1>1. /\ active = op /\ active' = op /\ orphans' = orphans
      /\ event \in SocketEvent /\ event.op = op /\ event # NoEvent /\ result # NoResult
      /\ event' = NoEvent /\ result' = NoResult /\ ~Switches(op)
  BY GuardFinds DEF PollReady, Return
<1>2. EventInv' /\ OrphansOwn(Mine)'
  BY <1>1, OrphansStay DEF EventInv
<1>. QED
  BY <1>1, <1>2

(* A close that is ready, of which the handle only sees whether it failed.  *)
LEMMA Closes ==
  ASSUME IInv, CloseReady, kind' = kind, Mine' = Mine
  PROVE  /\ active = "Close" /\ active' \in {"Close", "Closed"} /\ orphans' = orphans
         /\ event # NoEvent /\ event.op = "Close"
         /\ event' = NoEvent /\ result' = NoResult
         /\ EventInv' /\ OrphansOwn(Mine)'
<1>1. /\ active = "Close" /\ active' \in {"Close", "Closed"} /\ orphans' = orphans
      /\ event # NoEvent /\ event.op = "Close"
      /\ event' = NoEvent /\ result' = NoResult
  BY DEF CloseReady, PollReady, Current, Switches, Return, IInv, EventInv
<1>2. EventInv' /\ OrphansOwn(Mine)'
  BY <1>1, OrphansStay DEF EventInv
<1>. QED
  BY <1>1, <1>2

LEMMA Drops ==
  ASSUME IInv, Drop(Mine), kind' = kind, Mine' = NoBox
  PROVE  /\ active' = "Gone" /\ event' = NoEvent /\ result' = NoResult
         /\ fd' \in {"open", "closed"}
         /\ orphans' \subseteq SocketEvent
         /\ \A o \in orphans' : o.op \in Ops \cup {"Earlier"}
         /\ EventInv' /\ OrphansOwn(Mine)'
<1>1. /\ active' = "Gone" /\ event' = NoEvent /\ result' = NoResult
      /\ fd' \in {"open", "closed"}
      /\ orphans' = orphans \cup Cancelled(Mine)
  BY DEF Drop, Release, IInv, TypeOK
<1>2. /\ orphans' \subseteq SocketEvent
      /\ \A o \in orphans' : o.op \in Ops \cup {"Earlier"}
  <2>1. event # NoEvent => active \in Ops
    BY DEF IInv, KindInv, EventInv, TypeOK, SocketEvent
  <2>. QED
    BY <1>1, <2>1, CancelledHas DEF IInv, TypeOK, KindInv
<1>3. EventInv' /\ OrphansOwn(Mine)'
  BY <1>1, OrphansKept DEF EventInv
<1>. QED
  BY <1>1, <1>2, <1>3

(* What has to be shown of a step of a stream, or of a listener.            *)
HandleOK ==
  /\ active \in Ops \cup {"Nothing", "Closed", "Gone"}
  /\ fd \in {"open", "closed"}
  /\ event \in SocketEvent \cup {NoEvent}
  /\ orphans \subseteq SocketEvent
  /\ \A o \in orphans : o.op \in Ops \cup {"Earlier"}
  /\ EventInv /\ OrphansOwn(Mine)

LEMMA StreamGives ==
  ASSUME IInv, kind = "Stream", UNCHANGED <<listenerVars, kind>>, HandleOK',
         result' \in 0 .. Capacity \cup 0 .. MaxConn \cup {NoResult, Err},
         StreamTypeOK', active' = "Nothing" => Exhausted(buf'),
         ReadInv', ContentsInv', WriteStays', StreamIsFaithful'
  PROVE  IInv'
<1>1. ListenerTypeOK' /\ addr' = NoBox /\ AddressIsOfTheConnection'
  BY DEF IInv, TypeOK, ListenerTypeOK, AddressIsOfTheConnection, listenerVars
<1>2. TypeOK'
  <2>1. kind' = "Stream"
    OBVIOUS
  <2>2. active' \in {"Nothing", "Read", "Write", "Accept", "Close", "Closed", "Gone"}
    BY <2>1 DEF HandleOK, Ops
  <2>3. /\ fd' \in {"open", "closed"} /\ event' \in SocketEvent \cup {NoEvent}
        /\ orphans' \subseteq SocketEvent
    BY DEF HandleOK
  <2>. QED
    BY <1>1, <2>1, <2>2, <2>3 DEF TypeOK
<1>3. KindInv'
  BY DEF IInv, KindInv, HandleOK, listenerVars, Ops
<1>4. AddressInv'
  BY DEF AddressInv, HandleOK, EventInv, Ops
<1>5. LentMemoryAlive'
  BY MemoryIs DEF HandleOK
<1>. QED
  BY <1>1, <1>2, <1>3, <1>4, <1>5 DEF IInv, HandleOK

LEMMA ListenerGives ==
  ASSUME IInv, kind # "Stream", UNCHANGED <<streamVars, kind>>, HandleOK',
         result' \in 0 .. Capacity \cup 0 .. MaxConn \cup {NoResult, Err},
         ListenerTypeOK', kind = "UnixListener" => addr' = NoBox,
         AddressInv', AddressIsOfTheConnection'
  PROVE  IInv'
<1>1. StreamTypeOK' /\ buf' = buf /\ buf.box = NoBox
  BY DEF IInv, TypeOK, StreamTypeOK, streamVars, peerVars
<1>2. TypeOK'
  <2>1. kind' = kind /\ kind \in {"TcpListener", "UnixListener"}
    BY DEF IInv, TypeOK
  <2>2. active' \in {"Nothing", "Read", "Write", "Accept", "Close", "Closed", "Gone"}
    BY <2>1 DEF HandleOK, Ops
  <2>3. /\ fd' \in {"open", "closed"} /\ event' \in SocketEvent \cup {NoEvent}
        /\ orphans' \subseteq SocketEvent
    BY DEF HandleOK
  <2>. QED
    BY <1>1, <2>1, <2>2, <2>3 DEF TypeOK
<1>3. KindInv'
  BY DEF IInv, KindInv, HandleOK, streamVars, peerVars, Ops
<1>4. active' \notin {"Read", "Write"}
  BY DEF HandleOK, Ops
<1>5. ReadInv' /\ WriteStays' /\ LentMemoryAlive'
  BY <1>4, MemoryIs DEF ReadInv, WriteStays, HandleOK, EventInv
<1>6. Exhausted(buf)' /\ Unread(buf)' = 0 /\ next' = taken' /\ ~eof'
  BY <1>3 DEF KindInv, Unread
<1>7. StreamIsFaithful'
  BY <1>4, <1>6 DEF StreamIsFaithful, HandleOK, EventInv
<1>8. \A o \in orphans' : o.op # "Read"
  BY DEF HandleOK, Ops
<1>9. ContentsInv'
  BY <1>4, <1>6, <1>8 DEF ContentsInv, HandleOK, EventInv
<1>. QED
  BY <1>2, <1>3, <1>5, <1>7, <1>9 DEF IInv, HandleOK

-----------------------------------------------------------------------------
(* The buffer that a read or write has: the stream's, with memory if there  *)
(* was none and it is needed; its contents and counters are what they were. *)
LEMMA BoxedBuf ==
  ASSUME IInv, NEW op \in {"Read", "Write"}, NEW b \in Boxed(GuardBuf(op), Free)
  PROVE  /\ b \in StreamBuf /\ b.pos = buf.pos /\ b.cap = buf.cap /\ b.src = buf.src
         /\ Exhausted(b) <=> Exhausted(buf)
         /\ \/ b.box \in Free \cup {NoBox}
            \/ ~Switches(op) /\ b.box = buf.box
         /\ Exhausted(b) => b.box \in Box
         /\ ~Exhausted(b) => b = GuardBuf(op)
         /\ ~Switches(op) /\ buf.box \in Box => b = buf
         /\ ~Switches(op) /\ ~Exhausted(b) => b = buf
<1>. USE SocketAssumption
<1>1. buf \in StreamBuf
  BY DEF IInv, TypeOK, StreamTypeOK
<1>2. /\ GuardBuf(op) \in StreamBuf /\ GuardBuf(op).pos = buf.pos
      /\ GuardBuf(op).cap = buf.cap /\ GuardBuf(op).src = buf.src
      /\ GuardBuf(op).box = IF Switches(op) THEN NoBox ELSE buf.box
      /\ ~Switches(op) => GuardBuf(op) = buf
  BY <1>1 DEF GuardBuf, Taken, Buf, StreamBuf
<1>3. \/ b = GuardBuf(op) /\ (Exhausted(b) => b.box # NoBox)
      \/ /\ GuardBuf(op).box = NoBox /\ Exhausted(GuardBuf(op))
         /\ \E x \in Free : b = Buf(x, GuardBuf(op).pos, GuardBuf(op).cap, GuardBuf(op).src)
  BY DEF Boxed
<1>4. Free \subseteq Box
  BY DEF Free
<1>. QED
  BY <1>2, <1>3, <1>4 DEF Buf, StreamBuf, Exhausted

(* What a write makes of that buffer.                                       *)
LEMMA WriteBufHas ==
  ASSUME NEW e \in StreamBuf, e.pos <= e.cap, NEW s \in Slice
  PROVE  /\ WriteBuf(e, s) \in StreamBuf /\ WriteBuf(e, s).pos <= WriteBuf(e, s).cap
         /\ WriteBuf(e, s).box = e.box
         /\ ~Exhausted(e) => WriteBuf(e, s) = e
         /\ Exhausted(e) =>
              /\ WriteBuf(e, s).pos = 0 /\ WriteBuf(e, s).src = s
              /\ WriteBuf(e, s).cap = MinOf(SliceLen[s], Capacity)
<1>. USE StreamAssumption
<1>1. MinOf(SliceLen[s], Capacity) \in 0 .. Capacity
  BY DEF MinOf
<1>. QED
  BY <1>1 DEF WriteBuf, Loaded, Filled, Buf, StreamBuf

LEMMA UnreadType ==
  ASSUME NEW b \in StreamBuf
  PROVE  /\ Unread(b) \in 0 .. Capacity
         /\ Unread(b) > 0 => b.box # NoBox /\ ~Exhausted(b)
         /\ ~Exhausted(b) /\ b.box # NoBox => Unread(b) = b.cap - b.pos /\ Unread(b) > 0
         /\ Exhausted(b) \/ b.box = NoBox => Unread(b) = 0
BY StreamAssumption DEF Unread, Exhausted, StreamBuf

(* Where nothing was discarded, what is not in the buffer or in a result of *)
(* a read, the user has.                                                    *)
LEMMA AllRead ==
  ASSUME IInv, active \notin {"Gone", "Closed"}, ~discarded,
         Unread(buf) = 0 \/ active # "Read",
         event # NoEvent /\ event.op = "Read" => result = NoResult
  PROVE  next = taken
BY DEF IInv, StreamIsFaithful

-----------------------------------------------------------------------------
LEMMA ReadPendingStep ==
  ASSUME IInv, kind = "Stream", ReadPending(Free), UNCHANGED <<listenerVars, kind>>
  PROVE  IInv'
<1>. USE SocketAssumption, StreamAssumption
<1>. PICK b \in Boxed(GuardBuf("Read"), Free) :
       /\ Exhausted(b)
       /\ GuardOp("Read", buf.box)
       /\ PollPending("Read", Event("Read", b.box, 0, Capacity, NoSource))
       /\ buf' = b
       /\ Discards("Read")
       /\ UNCHANGED <<fd, peerVars, next, eof>>
  BY DEF ReadPending
<1>. DEFINE e == Event("Read", b.box, 0, Capacity, NoSource)
<1>1. /\ b \in StreamBuf /\ b.pos = buf.pos /\ b.cap = buf.cap /\ b.box \in Box
      /\ b.box \in Free \cup {NoBox} \/ (~Switches("Read") /\ b.box = buf.box)
      /\ ~Switches("Read") /\ buf.box \in Box => b = buf
      /\ Exhausted(buf)
  BY BoxedBuf
<1>2. Mine = buf.box /\ Mine' = b.box /\ "Read" \in Ops
  BY DEF Mine, Ops
<1>3. e \in SocketEvent /\ e.op = "Read" /\ e.box = b.box
  BY <1>1 DEF Event, SocketEvent
<1>4. ~Switches("Read") /\ event # NoEvent => event.op = "Read" /\ event.box \in {NoBox, b.box}
  <2>1. event # NoEvent => event.op = active /\ event.op # "Nothing"
    BY DEF IInv, EventInv, TypeOK, SocketEvent
  <2>. QED
    BY <2>1, <1>1, <1>2 DEF IInv, EventInv, ReadInv, Switches
<1>5. /\ active' = "Read" /\ active \notin {"Closed", "Gone"} /\ result' = NoResult
      /\ Switches("Read") <=> active \notin {"Read", "Nothing"}
      /\ \/ event' \in {NoEvent, e}
         \/ active = "Read" /\ event' = event /\ event # NoEvent
      /\ event # NoEvent /\ ~Switches("Read") => active = "Read" /\ result = NoResult
      /\ event' \in SocketEvent \cup {NoEvent} /\ orphans' \subseteq SocketEvent
      /\ \A o \in orphans' \ orphans : Switches("Read") /\ event # NoEvent /\ o.op = active
      /\ EventInv' /\ OrphansOwn(Mine)'
  BY <1>1, <1>2, <1>3, <1>4, Pending
<1>. HIDE DEF e
<1>6. event # NoEvent => event.op = active
  BY DEF IInv, EventInv
<1>7. event' # NoEvent => event'.op = "Read"
  BY <1>3, <1>4, <1>5, <1>6
<1>8. StreamTypeOK' /\ Unread(buf') = 0
  BY <1>1, UnreadType DEF IInv, TypeOK, StreamTypeOK, peerVars, Discards
<1>9. HandleOK'
  BY <1>5 DEF HandleOK, IInv, TypeOK, KindInv, Ops
<1>10. ReadInv'
  BY <1>1, <1>5, <1>8 DEF ReadInv
<1>11. ContentsInv' /\ WriteStays'
  BY <1>5, <1>6, <1>7 DEF IInv, ContentsInv, WriteStays, Discards
<1>12. StreamIsFaithful'
  <2>. SUFFICES ASSUME ~discarded' PROVE next = taken /\ (eof => ended /\ next = sent)
    BY <1>5, <1>7, <1>8 DEF StreamIsFaithful, peerVars
  <2>1. ~discarded
    BY DEF Discards
  <2>2. Unread(buf) = 0
    BY <1>1, UnreadType DEF IInv, TypeOK, StreamTypeOK
  <2>3. event # NoEvent /\ event.op = "Read" => result = NoResult
    BY <1>5, <1>6
  <2>. QED
    BY <2>1, <2>2, <2>3, <1>5, AllRead DEF IInv, StreamIsFaithful
<1>. QED
  BY <1>5, <1>8, <1>9, <1>10, <1>11, <1>12, StreamGives

(* A read that got something, k bytes of which the user takes.              *)
LEMMA ReadReadyStep ==
  ASSUME IInv, kind = "Stream", UNCHANGED <<listenerVars, kind>>,
         NEW k \in 0 .. Capacity, ReadReady(k)
  PROVE  IInv'
<1>. USE SocketAssumption, StreamAssumption
<1>1. Mine = buf.box /\ Mine' = buf'.box /\ "Read" \in Ops /\ Exhausted(buf)
  BY DEF Mine, Ops, ReadReady
<1>2. buf'.box = buf.box
  BY DEF ReadReady, Consumed, Filled, Buf
<1>3. /\ active = "Read" /\ active' = "Read" /\ orphans' = orphans
      /\ event.op = "Read" /\ event # NoEvent /\ result # NoResult
      /\ event' = NoEvent /\ result' = NoResult
      /\ EventInv' /\ OrphansOwn(Mine)'
  BY <1>1, <1>2, Ready DEF ReadReady
<1>4. /\ buf \in StreamBuf /\ buf.box \in Box /\ taken \in Nat /\ sent \in Nat /\ next \in Nat
      /\ from \in 0 .. MaxSent /\ sent <= MaxSent /\ taken <= sent
  BY <1>3 DEF IInv, ReadInv, TypeOK, StreamTypeOK
<1>5. result = Err \/ result \in 0 .. Capacity
  BY <1>3, ListenerAssumption DEF IInv, ReadInv, TypeOK
<1>6. HandleOK'
  BY <1>3 DEF HandleOK, IInv, TypeOK, KindInv, Ops, ReadReady
<1>7. WriteStays'
  BY <1>3 DEF WriteStays
<1>8. CASE result = Err
  <2>1. UNCHANGED <<buf, peerVars, next, eof, discarded, consumed>>
    BY <1>8 DEF ReadReady
  <2>2. Unread(buf) = 0
    BY <1>1, <1>4, UnreadType
  <2>3. ReadInv' /\ ContentsInv' /\ StreamTypeOK'
    BY <1>1, <1>3, <2>1, <2>2 DEF ReadInv, ContentsInv, IInv, TypeOK, StreamTypeOK, peerVars
  <2>4. StreamIsFaithful'
    BY <1>3, <1>8, <2>1, <2>2 DEF StreamIsFaithful, IInv, peerVars
  <2>. QED
    BY <1>3, <1>6, <1>7, <2>3, <2>4, StreamGives
<1>9. CASE result \in 0 .. Capacity
  <2>1. UNCHANGED <<peerVars, discarded, consumed>>
    BY DEF ReadReady
  <2>2. /\ buf' = Buf(buf.box, MinOf(k, result), result, from)
        /\ next' = next + MinOf(k, result) /\ eof' = (eof \/ result = 0)
    BY <1>9, <1>4 DEF ReadReady, Consumed, Filled, Buf, MinOf
  <2>3. MinOf(k, result) \in 0 .. result
    BY <1>9 DEF MinOf
  <2>4. /\ buf' \in StreamBuf /\ buf'.pos = MinOf(k, result) /\ buf'.cap = result
        /\ buf'.src = from /\ buf'.box = buf.box /\ buf'.pos <= buf'.cap
    BY <1>4, <1>9, <2>2, <2>3 DEF Buf, StreamBuf
  <2>5. Unread(buf') = result - MinOf(k, result)
    BY <1>4, <1>9, <2>3, <2>4 DEF Unread, Exhausted
  <2>6. next <= from /\ from + result <= taken /\ (result = 0 => ended /\ taken = sent)
    BY <1>3, <1>9 DEF IInv, ReadInv
  <2>7. StreamTypeOK'
    BY <1>4, <1>9, <2>1, <2>2, <2>3, <2>4, <2>6 DEF IInv, TypeOK, StreamTypeOK, peerVars
  <2>8. ReadInv'
    BY <1>3, <1>4, <1>9, <2>1, <2>2, <2>3, <2>4, <2>5, <2>6 DEF ReadInv, peerVars
  <2>9. ContentsInv'
    BY <1>3, <1>4, <2>1, <2>4 DEF IInv, ContentsInv
  <2>10. StreamIsFaithful'
    <3>. SUFFICES ASSUME ~discarded
                  PROVE  /\ IF Unread(buf') > 0
                              THEN /\ next' = buf'.src + buf'.pos
                                   /\ taken' = next' + Unread(buf')
                              ELSE next' = taken'
                         /\ eof' => ended' /\ next' = sent'
      BY <1>3, <2>1 DEF StreamIsFaithful
    <3>1. Unread(buf) = 0
      BY <1>1, <1>4, UnreadType
    <3>2. next = from /\ taken = next + result /\ (eof => ended /\ next = sent)
      BY <1>3, <1>9, <3>1 DEF IInv, StreamIsFaithful
    <3>3. eof => result = 0
      BY <1>4, <1>9, <3>2
    <3>4. /\ MinOf(k, result) \in Nat /\ MinOf(k, result) <= result
          /\ taken' = taken /\ sent' = sent /\ ended' = ended
      BY <2>1, <2>3, <1>9 DEF peerVars
    <3>5. IF Unread(buf') > 0 THEN next' = buf'.src + buf'.pos /\ taken' = next' + Unread(buf')
                              ELSE next' = taken'
      BY <1>4, <1>9, <2>2, <2>4, <2>5, <3>2, <3>4
    <3>6. eof' => ended' /\ next' = sent'
      <4>. SUFFICES ASSUME result = 0 PROVE ended /\ next' = sent
        BY <2>2, <3>3, <3>4
      <4>. QED
        BY <1>4, <1>9, <2>2, <2>6, <3>2, <3>4
    <3>. QED
      BY <3>5, <3>6
  <2>. QED
    BY <1>3, <1>6, <1>7, <2>7, <2>8, <2>9, <2>10, StreamGives
<1>. QED
  BY <1>5, <1>8, <1>9

(* A read that need not wait.  After another operation nothing is left.     *)
LEMMA ReadBufferedStep ==
  ASSUME IInv, kind = "Stream", UNCHANGED <<listenerVars, kind>>,
         NEW k \in 0 .. Capacity, ReadBuffered(k)
  PROVE  IInv'
<1>. USE SocketAssumption, StreamAssumption
<1>. DEFINE b == GuardBuf("Read")
            m == MinOf(k, Unread(b))
<1>1. /\ ~Exhausted(b) /\ GuardOp("Read", buf.box)
      /\ event' = Current("Read")
      /\ result' = IF Current("Read") = NoEvent THEN NoResult ELSE result
      /\ buf' = Consumed(b, m) /\ next' = next + m /\ eof' = (eof \/ Unread(b) = 0)
      /\ Discards("Read") /\ UNCHANGED <<fd, peerVars>>
  BY DEF ReadBuffered
<1>2. /\ buf \in StreamBuf /\ buf.pos <= buf.cap
      /\ taken \in Nat /\ sent \in Nat /\ next \in Nat /\ next <= taken /\ taken <= sent
      /\ {ended, eof, discarded, consumed} \subseteq BOOLEAN
  BY DEF IInv, TypeOK, StreamTypeOK
<1>3. Mine = buf.box /\ Mine' = buf'.box /\ "Read" \in Ops
  BY DEF Mine, Ops
<1>4. b = IF Switches("Read") THEN Buf(NoBox, buf.pos, buf.cap, buf.src) ELSE buf
  BY DEF GuardBuf, Taken
<1>5. b \in StreamBuf /\ b.pos = buf.pos /\ b.cap = buf.cap /\ ~Exhausted(buf)
  BY <1>1, <1>2, <1>4 DEF Buf, StreamBuf, Exhausted
<1>6. Unread(b) \in 0 .. Capacity /\ m \in 0 .. Unread(b)
  BY <1>5, UnreadType DEF MinOf
<1>7. /\ active' = "Read" /\ active \notin {"Closed", "Gone", "Nothing"}
      /\ Switches("Read") <=> active # "Read"
      /\ Current("Read") = IF active = "Read" THEN event ELSE NoEvent
      /\ event # NoEvent => event.op = active
      /\ event = NoEvent => result = NoResult
      /\ orphans' = IF Switches("Read") THEN orphans \cup Cancelled(Mine) ELSE orphans
  <2>1. active # "Nothing"
    BY <1>5 DEF IInv, KindInv
  <2>. QED
    BY <1>1, <1>3, <2>1, GuardFinds
<1>8. /\ buf' \in StreamBuf /\ buf'.box = b.box /\ buf'.pos = MinOf(b.pos + m, b.cap)
      /\ buf'.cap = b.cap /\ buf'.src = b.src /\ buf'.pos <= buf'.cap
  <2>1. MinOf(b.pos + m, b.cap) \in 0 .. Capacity /\ MinOf(b.pos + m, b.cap) <= b.cap
    BY <1>5, <1>6 DEF MinOf, StreamBuf
  <2>. QED
    BY <1>1, <1>5, <2>1 DEF Consumed, Buf, StreamBuf
<1>9. event' = NoEvent /\ result' = NoResult
  BY <1>1, <1>5, <1>7 DEF IInv, ReadInv
<1>10. EventInv' /\ WriteStays'
  BY <1>9 DEF EventInv, WriteStays
<1>11. Unread(buf') = Unread(b) - m
  <2>1. CASE b.box = NoBox
    BY <1>5, <1>6, <1>8, <2>1, UnreadType
  <2>2. CASE b.box # NoBox
    <3>1. Unread(b) = b.cap - b.pos
      BY <1>1, <1>5, <2>2, UnreadType
    <3>2. buf'.pos = b.pos + m
      BY <1>5, <1>6, <1>8, <3>1 DEF MinOf, StreamBuf
    <3>. QED
      BY <1>5, <1>6, <1>8, <2>2, <3>1, <3>2 DEF Unread, Exhausted, StreamBuf
  <2>. QED
    BY <2>1, <2>2
<1>12. CASE Switches("Read")
  <2>1. b.box = NoBox /\ Unread(b) = 0 /\ m = 0 /\ discarded' = TRUE
    BY <1>1, <1>4, <1>5, <1>6, <1>12 DEF Buf, Unread, Discards
  <2>2. OrphansOwn(Mine)'
    BY <1>3, <1>7, <1>8, <1>12, <2>1, OrphansKept
  <2>3. /\ orphans' \subseteq SocketEvent
        /\ \A o \in orphans' : o.op \in Ops \cup {"Earlier"}
    <3>1. active \in Ops
      BY <1>7 DEF IInv, KindInv
    <3>. QED
      BY <1>7, <1>12, <3>1, CancelledHas DEF IInv, TypeOK, KindInv
  <2>4. HandleOK'
    BY <1>1, <1>7, <1>9, <1>10, <2>2, <2>3 DEF HandleOK, IInv, TypeOK, Ops
  <2>5. next' = next /\ eof' \in BOOLEAN /\ consumed' \in BOOLEAN
    BY <1>1, <1>2, <2>1 DEF Discards
  <2>6. StreamTypeOK' /\ ReadInv' /\ ContentsInv' /\ StreamIsFaithful'
    BY <1>1, <1>8, <1>9, <1>11, <2>1, <2>5
       DEF IInv, TypeOK, StreamTypeOK, peerVars, ReadInv, ContentsInv, StreamIsFaithful
  <2>. QED
    BY <1>7, <1>9, <1>10, <2>4, <2>6, StreamGives
<1>13. CASE ~Switches("Read")
  <2>1. /\ b = buf /\ active = "Read" /\ orphans' = orphans
        /\ discarded' = discarded /\ consumed' = consumed
    BY <1>1, <1>2, <1>4, <1>7, <1>13 DEF Discards
  <2>2. OrphansOwn(Mine)'
    BY <1>3, <1>8, <2>1, OrphansStay
  <2>3. HandleOK'
    BY <1>1, <1>7, <1>9, <1>10, <2>1, <2>2 DEF HandleOK, IInv, TypeOK, KindInv, Ops
  <2>4. Unread(buf) > 0 => buf.src \in Nat /\ next + Unread(buf) <= taken
    BY <2>1 DEF IInv, ReadInv
  <2>5. next' \in Nat /\ next' <= taken /\ next' + Unread(buf') = next + Unread(buf)
    BY <1>1, <1>2, <1>6, <1>11, <2>1, <2>4
  <2>6. StreamTypeOK'
    <3>1. eof' \in BOOLEAN
      BY <1>1, <1>2
    <3>2. UNCHANGED <<peerVars, discarded, consumed>>
      BY <1>1, <2>1
    <3>. QED
      BY <1>8, <2>5, <3>1, <3>2 DEF IInv, TypeOK, StreamTypeOK, peerVars
  <2>7. ReadInv'
    BY <1>1, <1>2, <1>6, <1>8, <1>9, <1>11, <2>1, <2>4, <2>5 DEF ReadInv, peerVars
  <2>8. ContentsInv'
    BY <1>5, <1>7, <1>8, <1>9, <2>1 DEF IInv, ContentsInv
  <2>9. StreamIsFaithful'
    <3>. SUFFICES ASSUME ~discarded
                  PROVE  /\ IF Unread(buf') > 0
                              THEN /\ next' = buf'.src + buf'.pos
                                   /\ taken' = next' + Unread(buf')
                              ELSE next' = taken'
                         /\ ~eof'
      BY <1>7, <1>9, <2>1 DEF StreamIsFaithful
    <3>1. buf.box \in Box
      BY <1>5, <2>1 DEF IInv, ContentsInv
    <3>2. Unread(buf) = buf.cap - buf.pos /\ Unread(buf) > 0
      BY <1>2, <1>5, <3>1, UnreadType
    <3>3. next = buf.src + buf.pos /\ taken = next + Unread(buf) /\ (eof => next = sent)
      BY <2>1, <3>2 DEF IInv, StreamIsFaithful
    <3>4. ~eof'
      BY <1>1, <1>2, <1>6, <2>1, <3>2, <3>3
    <3>5. buf'.pos = buf.pos + m /\ buf'.src = buf.src /\ taken' = taken
      BY <1>1, <1>2, <1>6, <1>8, <2>1, <3>2 DEF MinOf, StreamBuf, peerVars
    <3>6. buf.src \in Nat /\ buf.pos \in Nat /\ m \in Nat /\ m <= Unread(buf)
      BY <1>2, <1>6, <2>1, <2>4, <3>2 DEF StreamBuf
    <3>. HIDE DEF m
    <3>. QED
      BY <1>1, <1>2, <1>6, <1>11, <2>1, <3>2, <3>3, <3>4, <3>5, <3>6
  <2>. QED
    BY <1>7, <1>9, <1>10, <2>3, <2>6, <2>7, <2>8, <2>9, StreamGives
<1>. QED
  BY <1>12, <1>13

(* consume, which passes over bytes without a look at what they are for.    *)
LEMMA ConsumeStep ==
  ASSUME IInv, kind = "Stream", UNCHANGED <<listenerVars, kind>>,
         NEW k \in 1 .. Capacity, Consume(k)
  PROVE  IInv'
<1>. USE SocketAssumption, StreamAssumption
<1>. DEFINE m == MinOf(k, Unread(buf))
<1>1. /\ buf \in StreamBuf /\ buf.pos <= buf.cap /\ buf.box \in Box \cup {NoBox}
      /\ taken \in Nat /\ next \in Nat /\ sent \in Nat /\ next <= taken /\ taken <= sent
      /\ consumed \in BOOLEAN
  BY DEF IInv, TypeOK, StreamTypeOK, StreamBuf
<1>2. /\ buf'.box = buf.box /\ buf'.cap = buf.cap /\ buf'.src = buf.src
      /\ buf'.pos = MinOf(buf.pos + k, buf.cap)
      /\ buf' \in StreamBuf /\ buf'.pos <= buf'.cap
  BY <1>1 DEF Consume, Consumed, Buf, StreamBuf, MinOf
<1>3. /\ Unread(buf) \in Nat /\ m \in Nat /\ m <= Unread(buf)
      /\ Unread(buf') = Unread(buf) - m
  BY <1>1, <1>2 DEF Unread, Exhausted, MinOf, StreamBuf
<1>4. /\ Exhausted(buf) => buf'.pos = buf.pos /\ Exhausted(buf')
      /\ Unread(buf) > 0 => buf'.pos = buf.pos + m
  BY <1>1, <1>2 DEF Unread, Exhausted, MinOf, StreamBuf
<1>5. /\ active # "Gone" /\ Mine' = Mine
      /\ UNCHANGED <<event, result, active, fd, orphans, sent, ended, taken, from, eof, discarded>>
      /\ next' = IF active = "Read" THEN next + m ELSE next
      /\ consumed' \in BOOLEAN
      /\ ~consumed' => ~consumed /\ (active # "Write" \/ Exhausted(buf))
  BY <1>1, <1>2 DEF Consume, handleVars, peerVars, Mine
<1>6. active = "Read" /\ Unread(buf) > 0 => buf.src \in Nat /\ next + Unread(buf) <= taken
  BY DEF IInv, ReadInv
<1>7. Unread(buf) = 0 => m = 0 /\ Unread(buf') = 0
  BY <1>3
<1>. HIDE DEF m
<1>8. next' \in 0 .. taken
  BY <1>1, <1>3, <1>5, <1>6, <1>7
<1>9. StreamTypeOK'
  BY <1>2, <1>5, <1>8 DEF IInv, TypeOK, StreamTypeOK
<1>10. HandleOK'
  <2>1. EventInv'
    BY <1>5 DEF IInv, EventInv
  <2>2. OrphansOwn(Mine)'
    BY <1>5, MemoryHas DEF OrphansOwn
  <2>. QED
    BY <1>5, <2>1, <2>2 DEF HandleOK, IInv, TypeOK, KindInv, Ops
<1>11. ReadInv'
  <2>1. event # NoEvent /\ event.op = "Read" => next' = next
    <3>1. event # NoEvent /\ event.op = "Read" => Unread(buf) = 0
      BY <1>1, UnreadType DEF IInv, ReadInv
    <3>. QED
      BY <1>1, <1>5, <1>7, <3>1
  <2>2. active = "Read" /\ Unread(buf') > 0 => next' + Unread(buf') <= taken /\ buf.src \in Nat
    BY <1>1, <1>3, <1>5, <1>6, <1>7
  <2>. QED
    BY <1>2, <1>4, <1>5, <2>1, <2>2 DEF IInv, ReadInv
<1>12. ~Exhausted(buf') => ~Exhausted(buf)
  BY <1>4
<1>13. ContentsInv'
  BY <1>2, <1>4, <1>5, <1>12 DEF IInv, ContentsInv
<1>14. WriteStays'
  <2>. SUFFICES ASSUME ~consumed', event # NoEvent, event.op = "Write", event.len > 0
                PROVE  buf'.src = event.src /\ Unread(buf') = event.len
    BY <1>5 DEF WriteStays
  <2>1. Exhausted(buf) /\ ~consumed
    BY <1>5 DEF IInv, EventInv
  <2>. QED
    BY <1>2, <1>4, <2>1, MemoryHas DEF WriteStays, Unread, Exhausted
<1>15. StreamIsFaithful'
  <2>. SUFFICES ASSUME active # "Closed", ~discarded PROVE StreamIsFaithful'
    BY <1>5 DEF StreamIsFaithful
  <2>1. eof => ended /\ next = sent
    BY <1>5 DEF IInv, StreamIsFaithful
  <2>2. ~consumed' /\ event # NoEvent /\ event.op = "Write" =>
          event.src \in Slice /\ event.len = MinOf(SliceLen[event.src], Capacity)
    BY <1>5 DEF IInv, StreamIsFaithful
  <2>3. CASE active = "Read" /\ Unread(buf) > 0
    <3>1. next = buf.src + buf.pos /\ taken = next + Unread(buf) /\ buf.src \in Nat
      BY <1>5, <1>6, <2>3 DEF IInv, StreamIsFaithful
    <3>2. event = NoEvent
      BY <1>1, <2>3, UnreadType DEF IInv, EventInv, ReadInv
    <3>3. ~eof
      BY <1>1, <1>3, <2>1, <2>3, <3>1
    <3>4. next' = buf'.src + buf'.pos /\ taken = next' + Unread(buf')
      BY <1>1, <1>2, <1>3, <1>4, <1>5, <2>3, <3>1 DEF StreamBuf
    <3>. QED
      BY <1>3, <1>5, <2>3, <3>2, <3>3, <3>4 DEF StreamIsFaithful
  <2>4. CASE ~(active = "Read" /\ Unread(buf) > 0)
    <3>1. next' = next /\ ~(active = "Read" /\ Unread(buf') > 0)
      BY <1>1, <1>3, <1>5, <1>7, <2>4
    <3>2. IF event # NoEvent /\ event.op = "Read" /\ result \notin {NoResult, Err}
            THEN next = from /\ taken = next + result
            ELSE next = taken
      BY <1>5, <2>4 DEF IInv, StreamIsFaithful
    <3>. QED
      BY <1>5, <2>1, <2>2, <3>1, <3>2 DEF StreamIsFaithful
  <2>. QED
    BY <2>3, <2>4
<1>16. active' = "Nothing" => Exhausted(buf')
  BY <1>4, <1>5 DEF IInv, KindInv
<1>. QED
  BY <1>5, <1>9, <1>10, <1>11, <1>13, <1>14, <1>15, <1>16, StreamGives DEF IInv, TypeOK

-----------------------------------------------------------------------------
LEMMA WritePendingStep ==
  ASSUME IInv, kind = "Stream", UNCHANGED <<listenerVars, kind>>,
         NEW s \in Slice, WritePending(s, Free)
  PROVE  IInv'
<1>. USE SocketAssumption, StreamAssumption
<1>. PICK e0 \in Boxed(GuardBuf("Write"), Free) :
       /\ GuardOp("Write", buf.box)
       /\ PollPending("Write", Event("Write", WriteBuf(e0, s).box, 0, Unread(WriteBuf(e0, s)),
                                     WriteBuf(e0, s).src))
       /\ buf' = WriteBuf(e0, s)
       /\ Discards("Write")
       /\ UNCHANGED <<fd, peerVars, next, eof>>
  BY DEF WritePending
<1>. DEFINE e == Event("Write", buf'.box, 0, Unread(buf'), buf'.src)
<1>1. /\ e0 \in StreamBuf /\ e0.pos = buf.pos /\ e0.cap = buf.cap
      /\ Exhausted(e0) <=> Exhausted(buf)
      /\ e0.box \in Free \cup {NoBox} \/ (~Switches("Write") /\ e0.box = buf.box)
      /\ Exhausted(e0) => e0.box \in Box
      /\ ~Switches("Write") /\ buf.box \in Box => e0 = buf
      /\ ~Switches("Write") /\ ~Exhausted(e0) => e0 = buf
  BY BoxedBuf
<1>2. e0.pos <= e0.cap /\ buf.box \in Box \cup {NoBox}
  BY <1>1 DEF IInv, TypeOK, StreamTypeOK, StreamBuf
<1>3. /\ buf' \in StreamBuf /\ buf'.pos <= buf'.cap /\ buf'.box = e0.box
      /\ ~Exhausted(e0) => buf' = e0
      /\ Exhausted(e0) => /\ buf'.pos = 0 /\ buf'.src = s
                          /\ buf'.cap = MinOf(SliceLen[s], Capacity)
  BY <1>1, <1>2, WriteBufHas
<1>4. Mine = buf.box /\ Mine' = buf'.box /\ "Write" \in Ops
  BY DEF Mine, Ops
<1>5. e \in SocketEvent /\ e.op = "Write" /\ e.box = buf'.box /\ e.len = Unread(buf')
      /\ e.src = buf'.src
  BY <1>3, UnreadType DEF Event, SocketEvent, StreamBuf
<1>6. event # NoEvent => event.op = active /\ event.op # "Nothing" /\ event.box \in {NoBox, buf.box}
  BY <1>4 DEF IInv, EventInv, TypeOK, SocketEvent
<1>7. ~Switches("Write") /\ event # NoEvent => event.op = "Write" /\ event.box \in {NoBox, buf'.box}
  BY <1>1, <1>2, <1>3, <1>6 DEF Switches
<1>8. /\ active' = "Write" /\ active \notin {"Closed", "Gone"} /\ result' = NoResult
      /\ Switches("Write") <=> active \notin {"Write", "Nothing"}
      /\ \/ event' \in {NoEvent, e}
         \/ active = "Write" /\ event' = event /\ event # NoEvent
      /\ event' \in SocketEvent \cup {NoEvent} /\ orphans' \subseteq SocketEvent
      /\ \A o \in orphans' \ orphans : Switches("Write") /\ event # NoEvent /\ o.op = active
      /\ EventInv' /\ OrphansOwn(Mine)'
  BY <1>1, <1>3, <1>4, <1>5, <1>7, Pending
<1>. HIDE DEF e
<1>9. event' # NoEvent => event'.op = "Write"
  BY <1>5, <1>6, <1>8
<1>10. StreamTypeOK'
  BY <1>3 DEF IInv, TypeOK, StreamTypeOK, peerVars, Discards
<1>11. HandleOK'
  BY <1>8 DEF HandleOK, IInv, TypeOK, KindInv, Ops
<1>12. ReadInv'
  BY <1>8, <1>9 DEF ReadInv
<1>13. active = "Write" => consumed' = consumed
  BY <1>8 DEF Discards, IInv, TypeOK, StreamTypeOK
<1>14. ~consumed /\ active = "Write" /\ event' = event /\ event # NoEvent /\ event.len > 0 =>
         buf' = buf
  <2>. SUFFICES ASSUME ~consumed, active = "Write", event # NoEvent, event.len > 0
                PROVE  buf' = buf
    OBVIOUS
  <2>1. Unread(buf) > 0
    BY <1>6 DEF IInv, LentMemoryAlive
  <2>2. ~Exhausted(buf)
    BY <2>1, UnreadType DEF IInv, TypeOK, StreamTypeOK
  <2>. QED
    BY <1>1, <1>3, <1>8, <2>2
<1>15. WriteStays'
  <2>1. ASSUME event' = e PROVE WriteStays'
    BY <1>5, <2>1 DEF WriteStays
  <2>2. ASSUME active = "Write", event' = event PROVE WriteStays'
    BY <1>13, <1>14, <2>2, MemoryHas DEF WriteStays
  <2>. QED
    BY <1>8, <2>1, <2>2 DEF WriteStays
<1>16. ASSUME ~discarded'
       PROVE  /\ ~discarded /\ active # "Gone" /\ \A o \in orphans' : o.op # "Read"
              /\ buf'.box \in Box
              /\ ~Exhausted(e0) => active = "Write" /\ buf' = buf
              /\ Exhausted(buf) \/ active # "Read"
              /\ event # NoEvent => event.op # "Read"
  <2>1. ~discarded /\ (Switches("Write") => Exhausted(buf) /\ ~(active = "Read" /\ event # NoEvent))
    BY <1>16 DEF Discards
  <2>2. \A o \in orphans' : o.op # "Read"
    BY <1>8, <2>1 DEF IInv, ContentsInv
  <2>3. ~Exhausted(e0) => active = "Write" /\ buf' = buf
    BY <1>1, <1>3, <1>8, <2>1 DEF IInv, KindInv
  <2>4. buf'.box \in Box
    BY <1>1, <1>3, <1>8, <2>1, <2>3 DEF IInv, ContentsInv
  <2>. QED
    BY <1>6, <1>8, <2>1, <2>2, <2>3, <2>4
<1>17. ASSUME ~discarded', ~Exhausted(buf')
       PROVE  /\ ~consumed' => buf'.pos = 0
              /\ buf'.src \in Slice /\ buf'.cap = MinOf(SliceLen[buf'.src], Capacity)
  <2>1. CASE Exhausted(e0)
    BY <1>3, <2>1
  <2>2. CASE ~Exhausted(e0)
    BY <1>1, <1>13, <1>16, <1>17, <2>2 DEF IInv, ContentsInv
  <2>. QED
    BY <2>1, <2>2
<1>18. ContentsInv'
  BY <1>8, <1>16, <1>17 DEF ContentsInv
<1>19. StreamIsFaithful'
  <2>. SUFFICES ASSUME ~discarded'
                PROVE  /\ next = taken /\ (eof => ended /\ next = sent)
                       /\ ~consumed' /\ event' # NoEvent =>
                            /\ event'.src \in Slice
                            /\ event'.len = MinOf(SliceLen[event'.src], Capacity)
    BY <1>8, <1>9 DEF StreamIsFaithful, peerVars
  <2>1. Unread(buf) = 0 \/ active # "Read"
    BY <1>16, UnreadType DEF IInv, TypeOK, StreamTypeOK
  <2>2. next = taken /\ (eof => ended /\ next = sent)
    BY <1>8, <1>16, <2>1, AllRead DEF IInv, StreamIsFaithful
  <2>3. ASSUME event' = e, ~consumed'
        PROVE  event'.src \in Slice /\ event'.len = MinOf(SliceLen[event'.src], Capacity)
    <3>1. Unread(buf') = buf'.cap /\ buf'.src \in Slice /\ buf'.cap = MinOf(SliceLen[buf'.src], Capacity)
      <4>1. CASE Exhausted(e0)
        <5>1. buf'.pos = 0 /\ buf'.box \in Box /\ buf'.cap \in Nat
          BY <1>3, <1>16, <4>1 DEF StreamBuf
        <5>. QED
          BY <1>3, <4>1, <5>1 DEF Unread, Exhausted
      <4>2. CASE ~Exhausted(e0)
        <5>1. ~Exhausted(buf') /\ buf'.box \in Box
          BY <1>3, <1>16, <4>2
        <5>. QED
          BY <1>3, <1>17, <2>3, <5>1, UnreadType DEF StreamBuf
      <4>. QED
        BY <4>1, <4>2
    <3>. QED
      BY <1>5, <2>3, <3>1
  <2>4. ASSUME active = "Write", event' = event, event # NoEvent, ~consumed', ~discarded
        PROVE  event'.src \in Slice /\ event'.len = MinOf(SliceLen[event'.src], Capacity)
    BY <1>6, <1>13, <2>4 DEF IInv, StreamIsFaithful
  <2>. QED
    BY <1>8, <1>16, <2>2, <2>3, <2>4
<1>. QED
  BY <1>8, <1>10, <1>11, <1>12, <1>15, <1>18, <1>19, StreamGives

LEMMA WriteReadyStep ==
  ASSUME IInv, kind = "Stream", UNCHANGED <<listenerVars, kind>>,
         NEW s \in Slice, WriteReady(s)
  PROVE  IInv'
<1>. USE SocketAssumption, StreamAssumption
<1>1. Mine = buf.box /\ Mine' = buf'.box /\ "Write" \in Ops
  BY DEF Mine, Ops
<1>2. buf \in StreamBuf /\ buf.pos <= buf.cap
  BY DEF IInv, TypeOK, StreamTypeOK
<1>. DEFINE b == WriteBuf(buf, s)
<1>3. /\ b \in StreamBuf /\ b.pos <= b.cap /\ b.box = buf.box
      /\ ~Exhausted(buf) => b = buf
      /\ Exhausted(buf) => b.pos = 0 /\ b.src = s /\ b.cap = MinOf(SliceLen[s], Capacity)
  BY <1>2, WriteBufHas
<1>4. /\ GuardOp("Write", buf.box) /\ PollReady("Write")
      /\ buf' = IF result = Err THEN b ELSE Cleared(b)
      /\ consumed' = (consumed /\ result = Err)
      /\ UNCHANGED <<fd, peerVars, next, eof, discarded>>
  BY DEF WriteReady
<1>. HIDE DEF b
<1>5. /\ buf' \in StreamBuf /\ buf'.pos <= buf'.cap /\ buf'.box = buf.box
      /\ ~Exhausted(buf') => buf' = b
  BY <1>3, <1>4 DEF Cleared, Buf, StreamBuf, Exhausted
<1>6. /\ active = "Write" /\ active' = "Write" /\ orphans' = orphans
      /\ event.op = "Write" /\ event # NoEvent /\ event' = NoEvent /\ result' = NoResult
      /\ EventInv' /\ OrphansOwn(Mine)'
  BY <1>1, <1>4, <1>5, Ready
<1>7. HandleOK'
  BY <1>4, <1>6 DEF HandleOK, IInv, TypeOK, KindInv, Ops
<1>8. StreamTypeOK' /\ ReadInv' /\ WriteStays'
  BY <1>4, <1>5, <1>6 DEF IInv, TypeOK, StreamTypeOK, peerVars, ReadInv, WriteStays
<1>9. ContentsInv'
  <2>. SUFFICES ASSUME ~discarded
                PROVE  /\ \A o \in orphans : o.op # "Read"
                       /\ ~Exhausted(buf') => buf'.box \in Box
                       /\ ~Exhausted(buf') =>
                            /\ ~consumed' => buf'.pos = 0
                            /\ buf'.src \in Slice
                            /\ buf'.cap = MinOf(SliceLen[buf'.src], Capacity)
    BY <1>4, <1>6 DEF ContentsInv
  <2>1. (\A o \in orphans : o.op # "Read") /\ buf.box \in Box
    BY <1>6 DEF IInv, ContentsInv
  <2>2. ~Exhausted(buf) => /\ ~consumed => buf.pos = 0
                           /\ buf.src \in Slice
                           /\ buf.cap = MinOf(SliceLen[buf.src], Capacity)
    BY <1>6 DEF IInv, ContentsInv
  <2>3. ~Exhausted(buf') => consumed' = consumed
    BY <1>4, <1>3 DEF IInv, TypeOK, StreamTypeOK, Cleared, Buf, Exhausted
  <2>. QED
    BY <1>3, <1>5, <2>1, <2>2, <2>3
<1>10. StreamIsFaithful'
  BY <1>4, <1>6 DEF IInv, StreamIsFaithful, peerVars
<1>. QED
  BY <1>6, <1>7, <1>8, <1>9, <1>10, StreamGives

-----------------------------------------------------------------------------
LEMMA StreamClosePending ==
  ASSUME IInv, kind = "Stream", UNCHANGED <<listenerVars, kind>>,
         ClosePending(buf.box), buf' = GuardBuf("Close"), Discards("Close"),
         UNCHANGED <<fd, peerVars, next, eof>>
  PROVE  IInv'
<1>. USE SocketAssumption, StreamAssumption
<1>. DEFINE e == Event("Close", NoBox, 0, 0, NoSource)
<1>1. Mine = buf.box /\ Mine' = buf'.box /\ "Close" \in Ops
  BY DEF Mine, Ops
<1>2. buf \in StreamBuf /\ buf.pos <= buf.cap
  BY DEF IInv, TypeOK, StreamTypeOK
<1>3. /\ buf' \in StreamBuf /\ buf'.pos <= buf'.cap /\ (Exhausted(buf') <=> Exhausted(buf))
      /\ buf'.box = IF Switches("Close") THEN NoBox ELSE buf.box
      /\ Switches("Close") => buf'.box = NoBox
      /\ ~Switches("Close") => buf' = buf
  BY <1>2 DEF GuardBuf, Taken, Buf, StreamBuf, Exhausted
<1>4. GuardOp("Close", Mine) /\ PollPending("Close", e)
  BY <1>1 DEF ClosePending
<1>5. e \in SocketEvent /\ e.op = "Close" /\ e.box = NoBox
  BY DEF Event, SocketEvent
<1>6. event # NoEvent => event.op = active /\ event.box \in {NoBox, Mine}
  BY DEF IInv, EventInv
<1>7. /\ active' = "Close" /\ active \notin {"Closed", "Gone"} /\ result' = NoResult
      /\ Switches("Close") <=> active \notin {"Close", "Nothing"}
      /\ \/ event' \in {NoEvent, e}
         \/ active = "Close" /\ event' = event /\ event # NoEvent
      /\ event' \in SocketEvent \cup {NoEvent} /\ orphans' \subseteq SocketEvent
      /\ \A o \in orphans' \ orphans : Switches("Close") /\ event # NoEvent /\ o.op = active
      /\ EventInv' /\ OrphansOwn(Mine)'
  BY <1>1, <1>3, <1>4, <1>5, <1>6, Pending
<1>. HIDE DEF e
<1>8. event' # NoEvent => event'.op = "Close"
  BY <1>5, <1>6, <1>7
<1>9. HandleOK'
  BY <1>7 DEF HandleOK, IInv, TypeOK, KindInv, Ops
<1>10. StreamTypeOK' /\ ReadInv' /\ WriteStays'
  BY <1>3, <1>7, <1>8
     DEF IInv, TypeOK, StreamTypeOK, peerVars, Discards, ReadInv, WriteStays
<1>11. ASSUME ~discarded'
       PROVE  /\ ~discarded
              /\ Switches("Close") => Exhausted(buf) /\ ~(active = "Read" /\ event # NoEvent)
  BY <1>11 DEF Discards
<1>12. ContentsInv'
  <2>. SUFFICES ASSUME ~discarded'
                PROVE  /\ \A o \in orphans' : o.op # "Read"
                       /\ ~Exhausted(buf') => buf'.box \in Box
    BY <1>7, <1>8 DEF ContentsInv
  <2>1. (\A o \in orphans : o.op # "Read") /\ (~Exhausted(buf) => buf.box \in Box)
    BY <1>7, <1>11 DEF IInv, ContentsInv
  <2>. QED
    BY <1>3, <1>7, <1>11, <2>1
<1>13. StreamIsFaithful'
  <2>. SUFFICES ASSUME ~discarded' PROVE next = taken /\ (eof => ended /\ next = sent)
    BY <1>7, <1>8 DEF StreamIsFaithful, peerVars
  <2>1. Unread(buf) = 0 \/ active # "Read"
    BY <1>2, <1>7, <1>11, UnreadType
  <2>2. event # NoEvent => event.op # "Read"
    BY <1>6, <1>7, <1>11
  <2>. QED
    BY <1>7, <1>11, <2>1, <2>2, AllRead DEF IInv, StreamIsFaithful
<1>. QED
  BY <1>7, <1>9, <1>10, <1>12, <1>13, StreamGives

LEMMA StreamCloseStep ==
  ASSUME IInv, kind = "Stream", StreamClose, UNCHANGED <<listenerVars, kind>>
  PROVE  IInv'
<1>1. CASE /\ ClosePending(buf.box) /\ buf' = GuardBuf("Close") /\ Discards("Close")
           /\ UNCHANGED <<fd, peerVars, next, eof>>
  BY <1>1, StreamClosePending
<1>2. CASE CloseReady /\ UNCHANGED <<fd, streamVars>>
  <2>1. UNCHANGED <<buf, sent, ended, taken, from, next, eof, discarded, consumed, fd>> /\ Mine' = Mine
    BY <1>2 DEF streamVars, peerVars, Mine
  <2>2. /\ active = "Close" /\ active' \in {"Close", "Closed"} /\ orphans' = orphans
        /\ event # NoEvent /\ event.op = "Close"
        /\ event' = NoEvent /\ result' = NoResult
        /\ EventInv' /\ OrphansOwn(Mine)'
    BY <1>2, <2>1, Closes
  <2>3. HandleOK'
    BY <2>1, <2>2 DEF HandleOK, IInv, TypeOK, KindInv, Ops
  <2>4. StreamTypeOK' /\ ReadInv' /\ WriteStays' /\ ContentsInv'
    BY <2>1, <2>2 DEF IInv, TypeOK, StreamTypeOK, ReadInv, WriteStays, ContentsInv
  <2>5. StreamIsFaithful'
    BY <2>1, <2>2 DEF IInv, StreamIsFaithful
  <2>. QED
    BY <2>2, <2>3, <2>4, <2>5, StreamGives
<1>. QED
  BY <1>1, <1>2 DEF StreamClose

LEMMA StreamDropStep ==
  ASSUME IInv, kind = "Stream", StreamDrop, UNCHANGED <<listenerVars, kind>>
  PROVE  IInv'
<1>. USE SocketAssumption, StreamAssumption
<1>1. /\ buf' = Buf(NoBox, 0, 0, NoSource) /\ next' = 0 /\ taken' = 0 /\ from' = 0
      /\ sent' = 0 /\ ~ended' /\ ~eof' /\ discarded' = FALSE /\ ended' = FALSE /\ eof' = FALSE
      /\ consumed' = FALSE
  BY DEF StreamDrop, StreamFresh, Fresh
<1>2. Mine = buf.box /\ Mine' = NoBox /\ Exhausted(buf') /\ Unread(buf') = 0
  BY <1>1 DEF Mine, Buf, Exhausted, Unread
<1>3. /\ active' = "Gone" /\ event' = NoEvent /\ result' = NoResult /\ HandleOK'
  BY <1>2, Drops DEF StreamDrop, HandleOK, Ops
<1>4. ReadInv' /\ ContentsInv' /\ WriteStays' /\ StreamIsFaithful'
  BY <1>2, <1>3 DEF ReadInv, ContentsInv, WriteStays, StreamIsFaithful
<1>5. StreamTypeOK'
  <2>1. buf' \in StreamBuf /\ buf'.pos <= buf'.cap
    BY <1>1 DEF Buf, StreamBuf
  <2>2. taken' \in 0 .. sent' /\ sent' \in 0 .. MaxSent /\ from' \in 0 .. taken' /\ next' \in 0 .. taken'
    BY <1>1
  <2>3. {ended', eof', discarded', consumed'} \subseteq BOOLEAN
    BY <1>1
  <2>. QED
    BY <2>1, <2>2, <2>3 DEF StreamTypeOK
<1>. QED
  BY <1>2, <1>3, <1>4, <1>5, StreamGives

-----------------------------------------------------------------------------
LEMMA PeerStep ==
  ASSUME IInv, kind = "Stream", Peer, UNCHANGED <<listenerVars, kind>>
  PROVE  IInv'
<1>. USE SocketAssumption, StreamAssumption
<1>1. /\ UNCHANGED <<event, result, active, fd, orphans, buf, from, next, eof, discarded, consumed, taken>>
      /\ active # "Gone" /\ ~ended /\ Mine' = Mine
      /\ \/ sent' = sent + 1 /\ sent < MaxSent /\ ended' = ended
         \/ ended' = TRUE /\ sent' = sent
  BY DEF Peer, PeerSends, PeerEnds, handleVars, Mine
<1>2. StreamTypeOK'
  <2>1. /\ taken \in Nat /\ from \in 0 .. taken /\ next \in 0 .. taken
        /\ sent \in Nat /\ taken <= sent /\ sent <= MaxSent
        /\ {ended, eof, discarded, consumed} \subseteq BOOLEAN
        /\ buf \in StreamBuf /\ buf.pos <= buf.cap
    BY DEF IInv, TypeOK, StreamTypeOK
  <2>2. sent' \in 0 .. MaxSent /\ taken \in 0 .. sent'
    BY <1>1, <2>1
  <2>3. ended' \in BOOLEAN
    BY <1>1, <2>1
  <2>. QED
    BY <1>1, <2>1, <2>2, <2>3 DEF StreamTypeOK
<1>3. HandleOK'
  <2>1. EventInv'
    BY <1>1 DEF IInv, EventInv
  <2>2. OrphansOwn(Mine)'
    BY <1>1, MemoryHas DEF OrphansOwn
  <2>. QED
    BY <1>1, <2>1, <2>2 DEF HandleOK, IInv, TypeOK, KindInv, Ops
<1>4. WriteStays'
  BY <1>1, MemoryHas DEF WriteStays
<1>5. ContentsInv' /\ (active' = "Nothing" => Exhausted(buf'))
  BY <1>1 DEF IInv, ContentsInv, KindInv
<1>6. ReadInv'
  BY <1>1 DEF IInv, ReadInv
<1>7. StreamIsFaithful'
  <2>. SUFFICES ASSUME active \notin {"Gone", "Closed"}, ~discarded
                PROVE  ~eof
    BY <1>1 DEF IInv, StreamIsFaithful
  <2>. QED
    BY <1>1 DEF IInv, StreamIsFaithful
<1>. QED
  BY <1>1, <1>2, <1>3, <1>4, <1>5, <1>6, <1>7, StreamGives DEF IInv, TypeOK

(* What an event comes to.                                                  *)
LEMMA OutcomeHas ==
  ASSUME IInv, NEW e \in SocketEvent, e.op \in {"Read", "Write", "Close"},
         NEW o \in StreamOutcome(e)
  PROVE  /\ o.res = Err \/ o.res \in 0 .. Capacity
         /\ o.fd \in {"open", "closed"} /\ o.taken \in taken .. sent
         /\ e.op # "Read" => o.taken = taken
         /\ e.op = "Read" =>
              \/ o.res = Err /\ o.taken = taken
              \/ o.res \in 1 .. Capacity /\ o.taken = taken + o.res
              \/ o.res = 0 /\ o.taken = taken /\ ended /\ taken = sent
<1>. USE StreamAssumption, SocketAssumption
<1>1. /\ e.len \in 0 .. Capacity /\ taken \in Nat /\ sent \in Nat /\ taken <= sent
      /\ fd \in {"open", "closed"}
  BY DEF IInv, TypeOK, StreamTypeOK, SocketEvent
<1>. DEFINE Plain(n) == [res |-> n, taken |-> taken, fd |-> fd]
            Got(n) == [res |-> n, taken |-> taken + n, fd |-> fd]
<1>2. CASE e.op = "Read"
  <2>1. MinOf(e.len, sent - taken) \in 0 .. Capacity /\ MinOf(e.len, sent - taken) <= sent - taken
    BY <1>1 DEF MinOf
  <2>2. \/ o = Plain(Err)
        \/ \E n \in 1 .. MinOf(e.len, sent - taken) : o = Got(n)
        \/ o = Plain(0) /\ ended /\ taken = sent
    BY <1>2 DEF StreamOutcome
  <2>3. CASE \E n \in 1 .. MinOf(e.len, sent - taken) : o = Got(n)
    BY <1>1, <1>2, <2>1, <2>3
  <2>. QED
    BY <1>1, <1>2, <2>2, <2>3
<1>3. CASE e.op = "Write"
  <2>1. \/ o = Plain(Err)
        \/ \E n \in (IF e.len = 0 THEN 0 ELSE 1) .. e.len : o = Plain(n)
    BY <1>3 DEF StreamOutcome
  <2>. QED
    BY <1>1, <1>3, <2>1
<1>4. CASE e.op = "Close"
  <2>1. \/ o = Plain(Err)
        \/ \E c \in CloseOutcome : o = [res |-> c.res, taken |-> taken, fd |-> c.fd]
    BY <1>4 DEF StreamOutcome
  <2>2. \A c \in CloseOutcome : c.res \in {0, Err} /\ c.fd \in {"open", "closed"}
    BY <1>1 DEF CloseOutcome
  <2>. QED
    BY <1>1, <1>4, <2>1, <2>2
<1>. QED
  BY <1>2, <1>3, <1>4

LEMMA StreamCompleteStep ==
  ASSUME IInv, kind = "Stream", StreamComplete, UNCHANGED <<listenerVars, kind>>
  PROVE  IInv'
<1>. USE SocketAssumption, StreamAssumption
<1>1. /\ event \in SocketEvent /\ event # NoEvent /\ result = NoResult
      /\ event.op = active /\ active \in {"Read", "Write", "Close"}
  BY DEF StreamComplete, IInv, TypeOK, EventInv, KindInv, SocketEvent, Ops
<1>2. PICK o \in StreamOutcome(event) : Finish(o.res) /\ taken' = o.taken /\ fd' = o.fd
  BY DEF StreamComplete
<1>3. /\ UNCHANGED <<event, active, orphans, buf, sent, ended, next, eof, discarded, consumed>>
      /\ result' = o.res /\ Mine' = Mine
      /\ from' = IF event.op = "Read" THEN taken ELSE from
  BY <1>2 DEF StreamComplete, Finish, Mine
<1>4. /\ o.res = Err \/ o.res \in 0 .. Capacity
      /\ o.fd \in {"open", "closed"} /\ o.taken \in taken .. sent
      /\ event.op # "Read" => o.taken = taken
      /\ event.op = "Read" =>
           \/ o.res = Err /\ o.taken = taken
           \/ o.res \in 1 .. Capacity /\ o.taken = taken + o.res
           \/ o.res = 0 /\ o.taken = taken /\ ended /\ taken = sent
  BY <1>1, OutcomeHas
<1>5. /\ taken \in Nat /\ sent \in Nat /\ taken <= sent /\ sent <= MaxSent
      /\ next \in Nat /\ next <= taken /\ from \in Nat /\ from <= taken /\ buf \in StreamBuf
  BY DEF IInv, TypeOK, StreamTypeOK
<1>6. HandleOK'
  <2>1. EventInv'
    BY <1>1, <1>3 DEF IInv, EventInv
  <2>2. OrphansOwn(Mine)'
    BY <1>3, MemoryHas DEF OrphansOwn
  <2>. QED
    BY <1>2, <1>3, <1>4, <2>1, <2>2 DEF HandleOK, IInv, TypeOK, KindInv, Ops
<1>7. StreamTypeOK'
  BY <1>2, <1>3, <1>4, <1>5 DEF IInv, TypeOK, StreamTypeOK
<1>8. WriteStays' /\ ContentsInv'
  BY <1>1, <1>3, MemoryHas DEF WriteStays, IInv, ContentsInv
<1>9. event.op = "Read" => Exhausted(buf) /\ buf.box \in Box /\ Unread(buf) = 0
  BY <1>1, <1>5, UnreadType DEF IInv, ReadInv
<1>10. ReadInv'
  <2>1. CASE event.op = "Read"
    BY <1>1, <1>2, <1>3, <1>4, <1>5, <1>9, <2>1 DEF ReadInv
  <2>2. CASE event.op # "Read"
    BY <1>1, <1>2, <1>3, <2>2 DEF ReadInv
  <2>. QED
    BY <2>1, <2>2
<1>11. StreamIsFaithful'
  <2>. SUFFICES ASSUME ~discarded, active \notin {"Gone", "Closed"} PROVE StreamIsFaithful'
    BY <1>3 DEF StreamIsFaithful
  <2>1. CASE event.op = "Read"
    <3>1. next = taken /\ (eof => ended /\ next = sent)
      BY <1>1, <1>9, <2>1, AllRead DEF IInv, StreamIsFaithful
    <3>2. IF result' \notin {NoResult, Err} THEN next' = from' /\ taken' = next' + result'
                                            ELSE next' = taken'
      BY <1>2, <1>3, <1>4, <1>5, <2>1, <3>1
    <3>. QED
      BY <1>1, <1>3, <1>9, <2>1, <3>1, <3>2 DEF StreamIsFaithful
  <2>2. CASE event.op # "Read"
    BY <1>1, <1>2, <1>3, <1>4, <2>2 DEF IInv, StreamIsFaithful
  <2>. QED
    BY <2>1, <2>2
<1>. QED
  BY <1>1, <1>3, <1>4, <1>6, <1>7, <1>8, <1>10, <1>11, StreamGives

LEMMA StreamOrphanStep ==
  ASSUME IInv, kind = "Stream", UNCHANGED <<listenerVars, kind>>,
         NEW e \in orphans, e.op # "Earlier", StreamOrphan(e)
  PROVE  IInv'
<1>. USE SocketAssumption, StreamAssumption
<1>1. e \in SocketEvent /\ e.op \in {"Read", "Write", "Close"}
  BY DEF IInv, TypeOK, KindInv, Ops
<1>2. PICK o \in StreamOutcome(e) : taken' = o.taken /\ fd' = o.fd
  BY DEF StreamOrphan
<1>3. /\ UNCHANGED <<event, result, active, buf, sent, ended, from, next, eof, discarded, consumed>>
      /\ orphans' \subseteq orphans /\ Mine' = Mine
  BY DEF StreamOrphan, Mine
<1>4. /\ o.fd \in {"open", "closed"} /\ o.taken \in taken .. sent
      /\ e.op # "Read" => o.taken = taken
  BY <1>1, OutcomeHas
<1>5. /\ taken \in Nat /\ sent \in Nat /\ taken <= sent /\ sent <= MaxSent
      /\ next \in Nat /\ next <= taken /\ from \in Nat /\ from <= taken
  BY DEF IInv, TypeOK, StreamTypeOK
<1>6. HandleOK'
  <2>1. EventInv'
    BY <1>3 DEF IInv, EventInv
  <2>2. OrphansOwn(Mine)'
    BY <1>3, OrphansStay
  <2>. QED
    BY <1>2, <1>3, <1>4, <2>1, <2>2 DEF HandleOK, IInv, TypeOK, KindInv, Ops
<1>7. StreamTypeOK'
  BY <1>2, <1>3, <1>4, <1>5 DEF IInv, TypeOK, StreamTypeOK
<1>8. WriteStays' /\ ContentsInv'
  BY <1>3, MemoryHas DEF WriteStays, IInv, ContentsInv
<1>9. ReadInv'
  <2>1. ASSUME event # NoEvent, event.op = "Read", result \in Nat
        PROVE  from + result <= taken' /\ (result = 0 => ended /\ taken' = sent)
    BY <1>2, <1>4, <1>5, <2>1 DEF IInv, ReadInv
  <2>2. ASSUME active = "Read", Unread(buf) > 0
        PROVE  buf.src \in Nat /\ next + Unread(buf) <= taken'
    <3>1. buf.src \in Nat /\ next + Unread(buf) <= taken /\ Unread(buf) \in Nat
      BY <2>2, UnreadType DEF IInv, ReadInv, TypeOK, StreamTypeOK
    <3>. QED
      BY <1>2, <1>4, <1>5, <3>1
  <2>. QED
    BY <1>3, <2>1, <2>2 DEF IInv, ReadInv
<1>10. StreamIsFaithful'
  <2>. SUFFICES ASSUME active \notin {"Gone", "Closed"}, ~discarded PROVE taken' = taken
    BY <1>3 DEF IInv, StreamIsFaithful
  <2>. QED
    BY <1>2, <1>4 DEF IInv, ContentsInv
<1>. QED
  BY <1>3, <1>6, <1>7, <1>8, <1>9, <1>10, StreamGives DEF IInv, TypeOK, KindInv

-----------------------------------------------------------------------------
LEMMA MemoryType ==
  ASSUME IInv
  PROVE  /\ addr \in Box \cup {NoBox} /\ memory \in [Box -> 0 .. MaxConn]
         /\ conn \in 0 .. MaxConn /\ mixed \in BOOLEAN
         /\ accepted \in [conn : 0 .. MaxConn, of : 0 .. MaxConn]
         /\ NoAccept \in [conn : 0 .. MaxConn, of : 0 .. MaxConn]
         /\ kind = "UnixListener" => addr = NoBox
BY ListenerAssumption DEF IInv, TypeOK, ListenerTypeOK, NoAccept

(* The memory for the address: the listener's, as it is, or new.            *)
LEMMA AddrHas ==
  ASSUME IInv, NEW b \in WithAddr(Free)
  PROVE  /\ b \in Box /\ (b \in Free \/ (~Switches("Accept") /\ b = addr))
         /\ Uninit(b) \in [Box -> 0 .. MaxConn]
         /\ ~Switches("Accept") /\ addr # NoBox => b = addr /\ Uninit(b) = memory
<1>. USE SocketAssumption, ListenerAssumption
<1>1. Free \subseteq Box
  BY DEF Free
<1>. QED
  BY <1>1, MemoryType DEF WithAddr, GuardAddr, Uninit

LEMMA InFlight ==
  ASSUME IInv
  PROVE  /\ event # NoEvent =>
              /\ event \in SocketEvent /\ event.op = active /\ event.box \in {NoBox, Mine}
              /\ active \in Ops
         /\ event = NoEvent => result = NoResult
BY DEF IInv, TypeOK, EventInv, KindInv, Ops, SocketEvent

LEMMA AcceptPendingStep ==
  ASSUME IInv, kind = "TcpListener", AcceptPending(Free), UNCHANGED <<streamVars, kind>>
  PROVE  IInv'
<1>. USE SocketAssumption, ListenerAssumption
<1>. PICK b \in WithAddr(Free) :
       /\ GuardOp("Accept", addr)
       /\ PollPending("Accept", Event("Accept", b, 0, 0, NoSource))
       /\ addr' = b /\ memory' = Uninit(b) /\ mixed' = (mixed \/ Mixes)
       /\ accepted' = NoAccept /\ UNCHANGED <<fd, conn>>
  BY DEF AcceptPending
<1>. DEFINE e == Event("Accept", b, 0, 0, NoSource)
<1>1. /\ b \in Box /\ (b \in Free \/ (~Switches("Accept") /\ b = addr))
      /\ Uninit(b) \in [Box -> 0 .. MaxConn]
      /\ ~Switches("Accept") /\ addr # NoBox => b = addr
  BY AddrHas
<1>2. Mine = addr /\ Mine' = b /\ "Accept" \in Ops
  BY DEF Mine, Ops
<1>3. e \in SocketEvent /\ e.op = "Accept" /\ e.box = b
  BY <1>1, StreamAssumption DEF Event, SocketEvent
<1>4. ~Switches("Accept") /\ event # NoEvent => event.box \in {NoBox, b}
  BY <1>1, <1>2, InFlight
<1>5. /\ active' = "Accept" /\ result' = NoResult
      /\ event' \in SocketEvent \cup {NoEvent} /\ orphans' \subseteq SocketEvent
      /\ \A o \in orphans' \ orphans : Switches("Accept") /\ event # NoEvent /\ o.op = active
      /\ EventInv' /\ OrphansOwn(Mine)'
  BY <1>1, <1>2, <1>3, <1>4, Pending
<1>. HIDE DEF e
<1>6. HandleOK'
  BY <1>5, InFlight DEF HandleOK, IInv, TypeOK, KindInv, Ops
<1>7. mixed' \in BOOLEAN
  BY MemoryType DEF Mixes
<1>8. ListenerTypeOK'
  BY <1>1, <1>7, MemoryType DEF ListenerTypeOK
<1>9. AddressInv' /\ AddressIsOfTheConnection'
  BY <1>5 DEF AddressInv, AddressIsOfTheConnection, NoAccept
<1>. QED
  BY <1>5, <1>6, <1>8, <1>9, ListenerGives

LEMMA AcceptReadyStep ==
  ASSUME IInv, kind = "TcpListener", AcceptReady(Free), UNCHANGED <<streamVars, kind>>
  PROVE  IInv'
<1>. USE SocketAssumption, ListenerAssumption
<1>. PICK b \in WithAddr(Free) :
       /\ GuardOp("Accept", addr)
       /\ PollReady("Accept")
       /\ memory' = Uninit(b) /\ mixed' = (mixed \/ Mixes)
       /\ IF result = Err
            THEN addr' = b /\ accepted' = NoAccept
            ELSE addr' = NoBox /\ accepted' = [conn |-> result, of |-> Uninit(b)[b]]
       /\ UNCHANGED <<fd, conn>>
  BY DEF AcceptReady
<1>1. /\ b \in Box /\ (b \in Free \/ (~Switches("Accept") /\ b = addr))
      /\ Uninit(b) \in [Box -> 0 .. MaxConn]
      /\ ~Switches("Accept") /\ addr # NoBox => b = addr /\ Uninit(b) = memory
  BY AddrHas
<1>2. Mine = addr /\ Mine' = addr' /\ "Accept" \in Ops
  BY DEF Mine, Ops
<1>3. addr' \in {b, NoBox} /\ addr' \in Free \cup {NoBox, addr}
  BY <1>1
<1>4. /\ active = "Accept" /\ active' = "Accept" /\ orphans' = orphans
      /\ event \in SocketEvent /\ event.op = "Accept" /\ event # NoEvent /\ result # NoResult
      /\ event' = NoEvent /\ result' = NoResult
      /\ ~Switches("Accept") /\ EventInv' /\ OrphansOwn(Mine)'
  BY <1>2, <1>3, Ready
<1>5. HandleOK'
  BY <1>4 DEF HandleOK, IInv, TypeOK, KindInv, Ops
<1>6. result # Err =>
        /\ result \in 0 .. MaxConn /\ (event.box # NoBox => memory[event.box] = result)
  BY <1>4, StreamAssumption DEF IInv, TypeOK, AddressInv
<1>7. Uninit(b)[b] \in 0 .. MaxConn
  BY <1>1
<1>8. ListenerTypeOK'
  <2>1. accepted' \in [conn : 0 .. MaxConn, of : 0 .. MaxConn]
    BY <1>6, <1>7, MemoryType
  <2>2. mixed' \in BOOLEAN
    BY MemoryType DEF Mixes
  <2>. QED
    BY <1>1, <1>3, <2>1, <2>2, MemoryType DEF ListenerTypeOK
<1>9. AddressInv'
  BY <1>4 DEF AddressInv
<1>10. AddressIsOfTheConnection'
  <2>. SUFFICES ASSUME ~mixed', result # Err PROVE Uninit(b)[b] = result
    BY DEF AddressIsOfTheConnection, NoAccept
  <2>1. event.box # NoBox
    BY <1>4 DEF Mixes
  <2>2. event.box = addr
    BY <1>2, <1>4, <2>1, InFlight
  <2>. QED
    BY <1>1, <1>4, <1>6, <2>1, <2>2
<1>. QED
  BY <1>4, <1>5, <1>8, <1>9, <1>10, ListenerGives

(* The polls that are Pending and need no memory: an accept without an      *)
(* address, and a close.                                                    *)
LEMMA PlainPending ==
  ASSUME IInv, kind # "Stream", UNCHANGED <<streamVars, kind>>,
         NEW op \in {"Accept", "Close"}, GuardOp(op, addr),
         PollPending(op, Event(op, NoBox, 0, 0, NoSource)),
         addr' = GuardAddr(op), accepted' = NoAccept, UNCHANGED <<fd, memory, conn, mixed>>
  PROVE  IInv'
<1>. USE SocketAssumption, ListenerAssumption
<1>. DEFINE e == Event(op, NoBox, 0, 0, NoSource)
<1>1. Mine = addr /\ Mine' = addr' /\ op \in Ops
  BY DEF Mine, Ops
<1>2. addr' = IF Switches(op) THEN NoBox ELSE addr
  BY DEF GuardAddr
<1>3. e \in SocketEvent /\ e.op = op /\ e.box = NoBox
  BY StreamAssumption DEF Event, SocketEvent
<1>4. /\ active' = op /\ result' = NoResult
      /\ event' \in SocketEvent \cup {NoEvent} /\ orphans' \subseteq SocketEvent
      /\ \A o \in orphans' \ orphans : Switches(op) /\ event # NoEvent /\ o.op = active
      /\ EventInv' /\ OrphansOwn(Mine)'
  BY <1>1, <1>2, <1>3, InFlight, Pending
<1>. HIDE DEF e
<1>5. HandleOK'
  BY <1>4, InFlight DEF HandleOK, IInv, TypeOK, KindInv, Ops
<1>6. ListenerTypeOK' /\ (kind = "UnixListener" => addr' = NoBox)
  BY <1>2, MemoryType DEF ListenerTypeOK
<1>7. AddressInv' /\ AddressIsOfTheConnection'
  BY <1>4 DEF AddressInv, AddressIsOfTheConnection, NoAccept
<1>. QED
  BY <1>4, <1>5, <1>6, <1>7, ListenerGives

LEMMA AcceptNoAddrReadyStep ==
  ASSUME IInv, kind # "Stream", AcceptNoAddrReady, UNCHANGED <<streamVars, kind>>
  PROVE  IInv'
<1>1. /\ GuardOp("Accept", addr) /\ PollReady("Accept")
      /\ accepted' = NoAccept /\ UNCHANGED <<fd, addr, memory, conn, mixed>>
  BY DEF AcceptNoAddrReady
<1>2. Mine = addr /\ Mine' = addr /\ "Accept" \in Ops
  BY <1>1 DEF Mine, Ops
<1>3. /\ active = "Accept" /\ active' = "Accept" /\ orphans' = orphans
      /\ event' = NoEvent /\ result' = NoResult /\ EventInv' /\ OrphansOwn(Mine)'
  BY <1>1, <1>2, Ready
<1>4. HandleOK'
  BY <1>1, <1>3 DEF HandleOK, IInv, TypeOK, KindInv, Ops
<1>5. ListenerTypeOK' /\ AddressInv' /\ AddressIsOfTheConnection'
  BY <1>1, <1>3, MemoryType DEF ListenerTypeOK, AddressInv, AddressIsOfTheConnection, NoAccept
<1>. QED
  BY <1>1, <1>3, <1>4, <1>5, MemoryType, ListenerGives

LEMMA ListenerCloseStep ==
  ASSUME IInv, kind # "Stream", ListenerClose, UNCHANGED <<streamVars, kind>>
  PROVE  IInv'
<1>1. accepted' = NoAccept /\ UNCHANGED <<fd, memory, conn, mixed>>
  BY DEF ListenerClose
<1>2. CASE ClosePending(addr) /\ addr' = GuardAddr("Close")
  BY <1>1, <1>2, PlainPending DEF ClosePending
<1>3. CASE CloseReady /\ UNCHANGED addr
  <2>1. /\ active = "Close" /\ active' \in {"Close", "Closed"} /\ orphans' = orphans
        /\ event' = NoEvent /\ result' = NoResult
        /\ EventInv' /\ OrphansOwn(Mine)'
    BY <1>3, Closes DEF Mine
  <2>2. HandleOK'
    BY <1>1, <2>1 DEF HandleOK, IInv, TypeOK, KindInv, Ops
  <2>3. ListenerTypeOK' /\ AddressInv' /\ AddressIsOfTheConnection'
    BY <1>1, <1>3, <2>1, MemoryType
       DEF ListenerTypeOK, AddressInv, AddressIsOfTheConnection, NoAccept
  <2>. QED
    BY <1>3, <2>1, <2>2, <2>3, MemoryType, ListenerGives
<1>. QED
  BY <1>2, <1>3 DEF ListenerClose

LEMMA ListenerDropStep ==
  ASSUME IInv, kind # "Stream", ListenerDrop, UNCHANGED <<streamVars, kind>>
  PROVE  IInv'
<1>1. /\ addr' = NoBox /\ memory' = [b \in Box |-> 0] /\ conn' = 0
      /\ accepted' = NoAccept /\ mixed' = FALSE
  BY DEF ListenerDrop, ListenerFresh
<1>2. Mine = addr /\ Mine' = NoBox
  BY <1>1 DEF Mine
<1>3. /\ active' = "Gone" /\ event' = NoEvent /\ result' = NoResult /\ HandleOK'
  BY <1>2, Drops DEF ListenerDrop, HandleOK, Ops
<1>4. ListenerTypeOK'
  <2>1. memory' \in [Box -> 0 .. MaxConn] /\ conn' \in 0 .. MaxConn
    BY <1>1, ListenerAssumption
  <2>2. mixed' \in BOOLEAN
    BY <1>1
  <2>. QED
    BY <1>1, <2>1, <2>2, MemoryType DEF ListenerTypeOK
<1>5. AddressInv' /\ AddressIsOfTheConnection'
  BY <1>1, <1>3 DEF AddressInv, AddressIsOfTheConnection, NoAccept
<1>. QED
  BY <1>1, <1>3, <1>4, <1>5, ListenerGives

-----------------------------------------------------------------------------
LEMMA ConnectionType ==
  ASSUME IInv
  PROVE  Connection \in 1 .. MaxConn
<1>1. conn % MaxConn \in 0 .. MaxConn - 1
  BY MemoryType, ListenerAssumption
<1>. QED
  BY <1>1, ListenerAssumption DEF Connection

(* A connection for e: its address is in the memory of e, and nowhere else. *)
LEMMA AcceptsHas ==
  ASSUME IInv, NEW e, Accepts(e)
  PROVE  /\ conn' \in 0 .. MaxConn /\ memory' \in [Box -> 0 .. MaxConn]
         /\ \A b \in Box : memory'[b] = IF b = e.box THEN Connection ELSE memory[b]
BY ConnectionType, MemoryType, ListenerAssumption DEF Accepts

LEMMA ListenerCompleteStep ==
  ASSUME IInv, kind # "Stream", ListenerComplete, UNCHANGED <<streamVars, kind>>
  PROVE  IInv'
<1>. USE SocketAssumption, ListenerAssumption
<1>1. /\ event # NoEvent /\ result = NoResult /\ event \in SocketEvent
      /\ UNCHANGED <<event, active, orphans, addr, accepted, mixed>> /\ Mine' = Mine
  BY InFlight DEF ListenerComplete, Finish, Mine
<1>2. \/ event.op = "Accept" /\ Accepts(event) /\ result' = Connection /\ UNCHANGED fd
      \/ event.op = "Accept" /\ result' = Err /\ UNCHANGED <<conn, memory, fd>>
      \/ /\ event.op = "Close" /\ result' \in {0, Err} /\ fd' \in {"open", "closed"}
         /\ UNCHANGED <<conn, memory>>
  BY DEF ListenerComplete, Finish, CloseOutcome, IInv, TypeOK
<1>3. EventInv' /\ OrphansOwn(Mine)'
  BY <1>1, MemoryHas DEF IInv, EventInv, OrphansOwn
<1>4. HandleOK'
  BY <1>1, <1>2, <1>3 DEF HandleOK, IInv, TypeOK, KindInv, Ops
<1>5. result' \in 0 .. MaxConn \cup {Err}
  BY <1>2, ConnectionType
<1>6. ListenerTypeOK'
  BY <1>1, <1>2, AcceptsHas, MemoryType DEF ListenerTypeOK
<1>7. AddressInv'
  <2>. SUFFICES ASSUME event.op = "Accept", Accepts(event), result' = Connection
                PROVE  /\ Connection <= MaxConn
                       /\ event.box # NoBox => memory'[event.box] = Connection
    BY <1>1, <1>2 DEF AddressInv
  <2>. QED
    BY <1>1, AcceptsHas, ConnectionType DEF SocketEvent
<1>8. AddressIsOfTheConnection'
  BY <1>1 DEF IInv, AddressIsOfTheConnection
<1>. QED
  BY <1>1, <1>4, <1>5, <1>6, <1>7, <1>8, MemoryType, ListenerGives

LEMMA ListenerOrphanStep ==
  ASSUME IInv, kind # "Stream", UNCHANGED <<streamVars, kind>>,
         NEW e \in orphans, ListenerOrphan(e)
  PROVE  IInv'
<1>. USE SocketAssumption, ListenerAssumption
<1>1. /\ orphans' \subseteq orphans /\ UNCHANGED <<event, result, active, addr, accepted, mixed>>
      /\ Mine' = Mine
  BY DEF ListenerOrphan, Mine
<1>2. \/ Accepts(e) /\ UNCHANGED fd
      \/ fd' \in {fd, "closed"} /\ UNCHANGED <<conn, memory>>
  BY DEF ListenerOrphan
<1>3. EventInv' /\ OrphansOwn(Mine)'
  BY <1>1, OrphansStay DEF IInv, EventInv
<1>4. HandleOK'
  BY <1>1, <1>2, <1>3 DEF HandleOK, IInv, TypeOK, KindInv, Ops
<1>5. ListenerTypeOK'
  BY <1>1, <1>2, AcceptsHas, MemoryType DEF ListenerTypeOK
<1>6. AddressInv'
  <2>. SUFFICES ASSUME event # NoEvent, event.box # NoBox
                PROVE  memory'[event.box] = memory[event.box]
    BY <1>1 DEF IInv, AddressInv
  <2>1. event.box \in Box /\ event.box = Mine
    BY InFlight DEF SocketEvent
  <2>2. e.box # event.box
    BY <2>1, MemoryHas DEF OrphansOwn
  <2>. QED
    BY <1>2, <2>1, <2>2, AcceptsHas
<1>7. AddressIsOfTheConnection'
  BY <1>1 DEF IInv, AddressIsOfTheConnection
<1>. QED
  BY <1>1, <1>4, <1>5, <1>6, <1>7, MemoryType, ListenerGives DEF IInv, TypeOK

LEMMA EarlierOrphanStep ==
  ASSUME IInv, UNCHANGED kind, NEW e \in orphans, EarlierOrphan(e)
  PROVE  IInv'
<1>. USE SocketAssumption
<1>1. /\ orphans' \subseteq orphans
      /\ UNCHANGED <<event, result, active, fd, buf, sent, ended, taken, from, next, eof>>
      /\ UNCHANGED <<discarded, consumed, addr, memory, conn, accepted, mixed, kind>>
      /\ Mine' = Mine /\ Ops' = Ops
  BY DEF EarlierOrphan, streamVars, peerVars, listenerVars, Mine, Ops
<1>2. TypeOK' /\ KindInv' /\ EventInv'
  BY <1>1 DEF IInv, TypeOK, StreamTypeOK, ListenerTypeOK, KindInv, EventInv
<1>3. ReadInv' /\ ContentsInv' /\ AddressInv'
  BY <1>1 DEF IInv, ReadInv, ContentsInv, AddressInv
<1>4. OrphansOwn(Mine)' /\ WriteStays'
  BY <1>1, OrphansStay, MemoryHas DEF WriteStays
<1>5. StreamIsFaithful' /\ AddressIsOfTheConnection'
  BY <1>1 DEF IInv, StreamIsFaithful, AddressIsOfTheConnection
<1>. QED
  BY <1>2, <1>3, <1>4, <1>5, MemoryIs DEF IInv

LEMMA KernelStep ==
  ASSUME IInv, Kernel
  PROVE  IInv'
<1>1. CASE kind = "Stream"
  <2>1. /\ UNCHANGED <<listenerVars, kind>>
        /\ \/ StreamComplete \/ Peer
           \/ \E e \in orphans : e.op # "Earlier" /\ StreamOrphan(e)
           \/ \E e \in orphans : EarlierOrphan(e)
    BY <1>1 DEF Kernel
  <2>. QED
    BY <1>1, <2>1, StreamCompleteStep, PeerStep, StreamOrphanStep, EarlierOrphanStep
<1>2. CASE kind # "Stream"
  <2>1. /\ UNCHANGED <<streamVars, kind>>
        /\ \/ ListenerComplete
           \/ \E e \in orphans : ListenerOrphan(e)
           \/ \E e \in orphans : EarlierOrphan(e)
    BY <1>2 DEF Kernel
  <2>. QED
    BY <1>2, <2>1, ListenerCompleteStep, ListenerOrphanStep, EarlierOrphanStep
<1>. QED
  BY <1>1, <1>2

-----------------------------------------------------------------------------
LEMMA FreshHandle ==
  ASSUME StreamFresh, ListenerFresh
  PROVE  /\ StreamTypeOK' /\ ListenerTypeOK' /\ Exhausted(buf)' /\ Unread(buf)' = 0
         /\ buf'.box = NoBox /\ addr' = NoBox /\ next' = taken' /\ ~eof'
         /\ accepted'.of = accepted'.conn
<1>. USE StreamAssumption, ListenerAssumption
<1>1. /\ buf' = Buf(NoBox, 0, 0, NoSource) /\ next' = 0 /\ taken' = 0 /\ from' = 0 /\ sent' = 0
      /\ ended' = FALSE /\ eof' = FALSE /\ discarded' = FALSE /\ consumed' = FALSE
  BY DEF StreamFresh, Fresh
<1>2. /\ addr' = NoBox /\ memory' = [b \in Box |-> 0] /\ conn' = 0
      /\ accepted' = [conn |-> 0, of |-> 0] /\ mixed' = FALSE
  BY DEF ListenerFresh, NoAccept
<1>3. buf' \in StreamBuf /\ buf'.pos <= buf'.cap /\ buf'.box = NoBox /\ Exhausted(buf)'
  BY <1>1 DEF Buf, StreamBuf, Exhausted
<1>4. taken' \in 0 .. sent' /\ sent' \in 0 .. MaxSent /\ from' \in 0 .. taken' /\ next' \in 0 .. taken'
  BY <1>1
<1>5. {ended', eof', discarded', consumed'} \subseteq BOOLEAN /\ mixed' \in BOOLEAN
  BY <1>1, <1>2
<1>6. memory' \in [Box -> 0 .. MaxConn] /\ conn' \in 0 .. MaxConn
  BY <1>2
<1>7. accepted' \in [conn : 0 .. MaxConn, of : 0 .. MaxConn] /\ accepted'.of = accepted'.conn
  BY <1>2
<1>8. StreamTypeOK' /\ ListenerTypeOK'
  BY <1>2, <1>3, <1>4, <1>5, <1>6, <1>7 DEF StreamTypeOK, ListenerTypeOK
<1>. QED
  BY <1>1, <1>2, <1>3, <1>7, <1>8 DEF Unread

LEMMA NewHandleStep ==
  ASSUME IInv, NEW k \in {"Stream", "TcpListener", "UnixListener"}, NewHandle(k)
  PROVE  IInv'
<1>. USE SocketAssumption
<1>1. /\ active = "Gone" /\ active' = "Nothing" /\ fd' = "open" /\ kind' = k
      /\ UNCHANGED <<event, result>>
      /\ orphans' = {Kept(Event("Earlier", o.box, 0, 0, NoSource), o.keeps) :
                      o \in {p \in orphans : p.box # NoBox}}
  BY DEF NewHandle, Begin
<1>2. event' = NoEvent /\ result' = NoResult
  <2>1. event = NoEvent
    BY <1>1, InFlight DEF SocketEvent
  <2>. QED
    BY <1>1, <2>1, InFlight
<1>3. /\ StreamTypeOK' /\ ListenerTypeOK' /\ Exhausted(buf)' /\ Unread(buf)' = 0
      /\ buf'.box = NoBox /\ addr' = NoBox /\ next' = taken' /\ ~eof'
      /\ accepted'.of = accepted'.conn
  BY FreshHandle DEF NewHandle
<1>4. \A o \in orphans' : \E p \in orphans :
        o.op = "Earlier" /\ o.box = p.box /\ o.keeps = p.keeps /\ p.box # NoBox
        /\ o = Kept(Event("Earlier", p.box, 0, 0, NoSource), p.keeps)
  BY <1>1 DEF Kept, Event
<1>5. orphans' \subseteq SocketEvent
  <2>. SUFFICES ASSUME NEW p \in orphans
                PROVE  Kept(Event("Earlier", p.box, 0, 0, NoSource), p.keeps) \in SocketEvent
    BY <1>4
  <2>1. p \in SocketEvent
    BY DEF IInv, TypeOK
  <2>. QED
    BY <2>1, StreamAssumption DEF SocketEvent, Kept, Event
<1>6. TypeOK'
  BY <1>1, <1>2, <1>3, <1>5 DEF TypeOK
<1>7. KindInv'
  BY <1>1, <1>3, <1>4 DEF KindInv
<1>8. EventInv' /\ ReadInv' /\ AddressInv' /\ WriteStays' /\ AddressIsOfTheConnection'
  BY <1>1, <1>2, <1>3 DEF EventInv, ReadInv, AddressInv, WriteStays, AddressIsOfTheConnection
<1>9. ContentsInv'
  BY <1>1, <1>2, <1>3, <1>4 DEF ContentsInv
<1>10. StreamIsFaithful'
  BY <1>1, <1>2, <1>3 DEF StreamIsFaithful
<1>11. OrphansOwn(Mine)'
  <2>1. Mine' = NoBox
    BY <1>3 DEF Mine
  <2>2. OrphansOwn(Mine)
    BY MemoryHas
  <2>. QED
    BY <1>4, <2>1, <2>2 DEF OrphansOwn
<1>. QED
  BY <1>6, <1>7, <1>8, <1>9, <1>10, <1>11, MemoryIs DEF IInv

LEMMA UserStep ==
  ASSUME IInv, StreamUses \/ TcpListenerUses \/ UnixListenerUses
  PROVE  IInv'
<1>1. CASE StreamUses
  <2>1. kind = "Stream" /\ UNCHANGED <<listenerVars, kind>> /\ StreamUser(Free)
    BY <1>1 DEF StreamUses
  <2>. QED
    BY <2>1, ReadPendingStep, ReadReadyStep, ReadBufferedStep, ConsumeStep, WritePendingStep,
       WriteReadyStep, StreamCloseStep, StreamDropStep DEF StreamUser
<1>2. ASSUME kind # "Stream", UNCHANGED <<streamVars, kind>>,
             AcceptNoAddrPending \/ AcceptNoAddrReady \/ ListenerClose \/ ListenerDrop
      PROVE  IInv'
  <2>1. CASE AcceptNoAddrPending
    BY <1>2, <2>1, PlainPending DEF AcceptNoAddrPending
  <2>. QED
    BY <1>2, <2>1, AcceptNoAddrReadyStep, ListenerCloseStep, ListenerDropStep
<1>3. CASE TcpListenerUses
  <2>1. kind = "TcpListener" /\ UNCHANGED <<streamVars, kind>> /\ ListenerUser(Free)
    BY <1>3 DEF TcpListenerUses
  <2>. QED
    BY <1>2, <2>1, AcceptPendingStep, AcceptReadyStep DEF ListenerUser
<1>4. CASE UnixListenerUses
  BY <1>2, <1>4 DEF UnixListenerUses, UnixAccept, UnixClose, UnixDrop
<1>. QED
  BY <1>1, <1>3, <1>4

-----------------------------------------------------------------------------
LEMMA InitIInv == Init => IInv
<1>. SUFFICES ASSUME Init PROVE IInv
  OBVIOUS
<1>. USE SocketAssumption, StreamAssumption, ListenerAssumption
<1>1. /\ event = NoEvent /\ result = NoResult /\ active = "Gone" /\ fd = "closed" /\ orphans = {}
      /\ kind = "Stream" /\ buf = Buf(NoBox, 0, 0, NoSource)
      /\ sent = 0 /\ ended = FALSE /\ taken = 0 /\ from = 0 /\ next = 0 /\ eof = FALSE
      /\ discarded = FALSE /\ consumed = FALSE /\ addr = NoBox /\ memory = [b \in Box |-> 0] /\ conn = 0
      /\ accepted = [conn |-> 0, of |-> 0] /\ mixed = FALSE
  BY DEF Init, HandleInit, RingInit, StreamInit, ListenerInit, Fresh, NoAccept
<1>2. buf \in StreamBuf /\ buf.pos <= buf.cap /\ buf.box = NoBox /\ Exhausted(buf)
  BY <1>1 DEF Buf, StreamBuf, Exhausted
<1>3. Unread(buf) = 0
  BY <1>2 DEF Unread
<1>4. StreamTypeOK
  <2>1. taken \in 0 .. sent /\ sent \in 0 .. MaxSent /\ from \in 0 .. taken /\ next \in 0 .. taken
    BY <1>1
  <2>2. {ended, eof, discarded, consumed} \subseteq BOOLEAN
    BY <1>1
  <2>. QED
    BY <1>2, <2>1, <2>2 DEF StreamTypeOK
<1>5. ListenerTypeOK
  <2>1. memory \in [Box -> 0 .. MaxConn] /\ conn \in 0 .. MaxConn
    BY <1>1
  <2>2. mixed \in BOOLEAN
    BY <1>1
  <2>3. accepted \in [conn : 0 .. MaxConn, of : 0 .. MaxConn]
    BY <1>1
  <2>. QED
    BY <1>1, <2>1, <2>2, <2>3 DEF ListenerTypeOK
<1>6. TypeOK
  BY <1>1, <1>4, <1>5 DEF TypeOK
<1>7. KindInv /\ EventInv /\ ReadInv /\ ContentsInv /\ AddressInv
  BY <1>1, <1>2, <1>3 DEF KindInv, EventInv, ReadInv, ContentsInv, AddressInv, Ops
<1>8. LentMemoryAlive /\ StreamIsFaithful /\ AddressIsOfTheConnection
  BY <1>1, <1>3 DEF LentMemoryAlive, LentAlive, StreamIsFaithful, AddressIsOfTheConnection
<1>. QED
  BY <1>6, <1>7, <1>8 DEF IInv

LEMMA StutterIInv == ASSUME IInv, UNCHANGED vars PROVE IInv'
<1>1. /\ UNCHANGED <<event, result, active, fd, orphans, buf, sent, ended, taken, from, next, eof>>
      /\ UNCHANGED <<discarded, consumed, addr, memory, conn, accepted, mixed, kind>>
      /\ Mine' = Mine /\ Ops' = Ops
  BY DEF vars, handleVars, streamVars, peerVars, listenerVars, Mine, Ops
<1>2. TypeOK' /\ KindInv' /\ EventInv'
  BY <1>1 DEF IInv, TypeOK, StreamTypeOK, ListenerTypeOK, KindInv, EventInv
<1>3. ReadInv' /\ ContentsInv' /\ AddressInv'
  BY <1>1 DEF IInv, ReadInv, ContentsInv, AddressInv
<1>4. LentMemoryAlive'
  BY <1>1 DEF IInv, LentMemoryAlive, LentAlive
<1>5. StreamIsFaithful' /\ AddressIsOfTheConnection'
  BY <1>1 DEF IInv, StreamIsFaithful, AddressIsOfTheConnection
<1>. QED
  BY <1>2, <1>3, <1>4, <1>5 DEF IInv

LEMMA NextIInv == ASSUME IInv, [Next]_vars PROVE IInv'
<1>1. CASE Next
  BY <1>1, NewHandleStep, UserStep, KernelStep DEF Next, TcpConnect, UnixConnect, TcpBind, UnixBind
<1>. QED
  BY <1>1, StutterIInv

(* What everything below follows from: the inductive invariant.             *)
THEOREM Invariance == Spec => []IInv
BY InitIInv, NextIInv, PTL DEF Spec

(* The variables have their types, and memory only a stream or only a       *)
(* listener with an address ever has.                                       *)
THEOREM TypeCorrect == Spec => []TypeOK
<1>1. IInv => TypeOK
  BY DEF IInv
<1>. QED
  BY <1>1, Invariance, PTL

(* guard_op, cancel and Drop of streams and listeners: whatever the user    *)
(* polls, gives up or drops, and however late the kernel is, it only ever   *)
(* uses memory that is alive and nobody else's, the next handle's included. *)
(* The bytes it is to write are left alone too, unless the user calls       *)
(* consume with bytes of the write in the buffer.                           *)
THEOREM MemoryStaysAlive == Spec => []LentMemoryAlive
<1>1. IInv => LentMemoryAlive
  BY DEF IInv
<1>. QED
  BY <1>1, Invariance, PTL

(* poll_read, poll_fill_buf, consume and poll_write: a user who changes the *)
(* operation only when the buffer is empty and no read is in flight loses,  *)
(* repeats and reorders nothing, for buffers of every size; and writes all  *)
(* of a slice, but for one that consume was called upon.                    *)
THEOREM BytesAreFaithful == Spec => []StreamIsFaithful
<1>1. IInv => StreamIsFaithful
  BY DEF IInv
<1>. QED
  BY <1>1, Invariance, PTL

(* poll_accept: the address is the one that was written for the connection  *)
(* returned, and not that of one whose accept was cancelled, unless the     *)
(* accept was begun without an address.                                     *)
THEOREM AddressIsTrue == Spec => []AddressIsOfTheConnection
<1>1. IInv => AddressIsOfTheConnection
  BY DEF IInv
<1>. QED
  BY <1>1, Invariance, PTL
=============================================================================
