------------------------------- MODULE Stream -------------------------------
(***************************************************************************)
(* src/net/stream.rs: TcpStream, which UnixStream (src/unix/stream.rs)     *)
(* wraps and forwards to.  It differs from File in having no position and  *)
(* in what it does with the buffer when another operation is polled: the   *)
(* allocation is given to the cancellation, the counters stay.             *)
(*                                                                         *)
(* Bytes that come in are numbered from 0 in the order the peer sent them. *)
(***************************************************************************)
EXTENDS Handle

CONSTANTS
  Capacity,   \* the buffer's: 4096 * 2 in the code
  MaxSent,    \* bound: bytes the peer sends
  Slice, SliceLen   \* slices that are written, and their lengths

ASSUME StreamAssumption ==
  Capacity \in Nat \ {0} /\ MaxSent \in Nat /\ SliceLen \in [Slice -> Nat]

VARIABLES
  buf,
  sent,     \* how many bytes the peer has sent
  ended,    \* the peer will send no more
  taken,    \* how many of them reads have got from the kernel
  from,     \* the first of those that the last read of the stream got
  next,     \* the byte the user has to get next
  eof,      \* a read came back empty
  discarded, \* the user polled another operation with bytes in the buffer, read
             \* or to be written, or with a read in flight
  consumed   \* the user called consume with bytes of the write under way in the
             \* buffer

peerVars == <<sent, ended, taken, from>>
streamVars == <<buf, peerVars, next, eof, discarded, consumed>>

StreamBuf == [box : Box \cup {NoBox}, pos : 0 .. Capacity, cap : 0 .. Capacity,
              src : 0 .. MaxSent \cup Slice \cup {NoSource}]

StreamTypeOK ==
  /\ buf \in StreamBuf /\ buf.pos <= buf.cap
  /\ taken \in 0 .. sent /\ sent \in 0 .. MaxSent /\ from \in 0 .. taken
  /\ next \in 0 .. taken
  /\ {ended, eof, discarded, consumed} \subseteq BOOLEAN

StreamInit ==
  /\ buf = Fresh
  /\ sent = 0 /\ ended = FALSE /\ taken = 0 /\ from = 0
  /\ next = 0 /\ eof = FALSE /\ discarded = FALSE /\ consumed = FALSE

(* Of a stream that is gone nothing is left but cancelled events; from_fd    *)
(* makes one that was connected, accepted or made as one of a pair.         *)
StreamFresh ==
  /\ buf' = Fresh
  /\ sent' = 0 /\ ended' = FALSE /\ taken' = 0 /\ from' = 0
  /\ next' = 0 /\ eof' = FALSE /\ discarded' = FALSE /\ consumed' = FALSE

-----------------------------------------------------------------------------
(* Faulty: the allocation stays with the stream.                            *)
GuardBufKept(op) == buf

(* guard_op, for the buffer.                                                *)
GuardBuf(op) == IF Switches(op) THEN Taken(buf) ELSE buf

(* What a poll of another operation does to the bytes of the one before.    *)
Discards(op) ==
  /\ discarded' = (\/ discarded
                   \/ /\ Switches(op)
                      /\ ~Exhausted(buf) \/ (active = "Read" /\ event # NoEvent))
  /\ consumed' = (consumed /\ ~Switches(op))

ReadPending(free) ==
  \E b \in Boxed(GuardBuf("Read"), free) :
    /\ Exhausted(b)
    /\ GuardOp("Read", buf.box)
    /\ PollPending("Read", Event("Read", b.box, 0, Capacity, NoSource))
    /\ buf' = b
    /\ Discards("Read")
    /\ UNCHANGED <<fd, peerVars, next, eof>>

(* poll_read into a slice of k bytes, or poll_fill_buf for k = 0.           *)
ReadReady(k) ==
  /\ Exhausted(buf)
  /\ GuardOp("Read", buf.box)
  /\ PollReady("Read")
  /\ IF result = Err
       THEN UNCHANGED <<buf, next, eof>>
       ELSE /\ buf' = Consumed(Filled(buf, result, from), k)
            /\ next' = next + MinOf(k, result)
            /\ eof' = (eof \/ result = 0)
  /\ UNCHANGED <<fd, peerVars, discarded, consumed>>

(* A poll_read or poll_fill_buf that need not read: what there is may be     *)
(* nothing, if the counters are those of a buffer given away.               *)
ReadBuffered(k) == LET b == GuardBuf("Read") IN
  /\ ~Exhausted(b)
  /\ GuardOp("Read", buf.box)
  /\ event' = Current("Read")
  /\ result' = IF Current("Read") = NoEvent THEN NoResult ELSE result
  /\ buf' = Consumed(b, MinOf(k, Unread(b)))
  /\ next' = next + MinOf(k, Unread(b))
  /\ eof' = (eof \/ Unread(b) = 0)
  /\ Discards("Read")
  /\ UNCHANGED <<fd, peerVars>>

(* consume looks at no operation and cancels nothing: with a write under    *)
(* way it passes over bytes that are to be written.                         *)
Consume(k) ==
  /\ active # "Gone"
  /\ buf' = Consumed(buf, k)
  /\ next' = IF active = "Read" THEN next + MinOf(k, Unread(buf)) ELSE next
  /\ consumed' = (consumed \/ (active = "Write" /\ ~Exhausted(buf)))
  /\ UNCHANGED <<handleVars, peerVars, eof, discarded>>

(* poll_write(s); poll_flush writes the empty slice.                        *)
WriteBuf(b, s) == Loaded(b, MinOf(SliceLen[s], Capacity), s)

WritePending(s, free) ==
  \E e \in Boxed(GuardBuf("Write"), free) : LET b == WriteBuf(e, s) IN
    /\ GuardOp("Write", buf.box)
    /\ PollPending("Write", Event("Write", b.box, 0, Unread(b), b.src))
    /\ buf' = b
    /\ Discards("Write")
    /\ UNCHANGED <<fd, peerVars, next, eof>>

WriteReady(s) ==
  /\ GuardOp("Write", buf.box)
  /\ PollReady("Write")
  /\ buf' = IF result = Err THEN WriteBuf(buf, s) ELSE Cleared(WriteBuf(buf, s))
  /\ consumed' = (consumed /\ result = Err)
  /\ UNCHANGED <<fd, peerVars, next, eof, discarded>>

StreamClose ==
  \/ /\ ClosePending(buf.box)
     /\ buf' = GuardBuf("Close")
     /\ Discards("Close")
     /\ UNCHANGED <<fd, peerVars, next, eof>>
  \/ CloseReady /\ UNCHANGED <<fd, streamVars>>

StreamDrop == Drop(buf.box) /\ StreamFresh

-----------------------------------------------------------------------------
PeerSends == ~ended /\ sent < MaxSent /\ sent' = sent + 1 /\ UNCHANGED <<ended, taken>>
PeerEnds == ~ended /\ ended' = TRUE /\ UNCHANGED <<sent, taken>>

Peer ==
  /\ active # "Gone"
  /\ PeerSends \/ PeerEnds
  /\ UNCHANGED <<handleVars, buf, from, next, eof, discarded, consumed>>

(* What event e can come to: the result, the bytes taken, the descriptor.   *)
StreamOutcome(e) ==
  LET Plain(n) == [res |-> n, taken |-> taken, fd |-> fd]
      Got(n) == [res |-> n, taken |-> taken + n, fd |-> fd]
  IN  {Plain(Err)} \cup
      CASE e.op = "Read" -> {Got(n) : n \in 1 .. MinOf(e.len, sent - taken)}
                            \cup (IF ended /\ taken = sent THEN {Plain(0)} ELSE {})
        [] e.op = "Write" -> {Plain(n) : n \in (IF e.len = 0 THEN 0 ELSE 1) .. e.len}
        [] e.op = "Close" -> {[res |-> c.res, taken |-> taken, fd |-> c.fd] : c \in CloseOutcome}

StreamComplete ==
  /\ event # NoEvent /\ result = NoResult
  /\ \E o \in StreamOutcome(event) : Finish(o.res) /\ taken' = o.taken /\ fd' = o.fd
  /\ from' = IF event.op = "Read" THEN taken ELSE from
  /\ UNCHANGED <<active, orphans, buf, sent, ended, next, eof, discarded, consumed>>

StreamOrphan(e) ==
  /\ orphans' = orphans \ {e}
  /\ \E o \in StreamOutcome(e) : taken' = o.taken /\ fd' = o.fd
  /\ UNCHANGED <<event, result, active, buf, sent, ended, from, next, eof, discarded,
                 consumed>>

-----------------------------------------------------------------------------
StreamUser(free) ==
  \/ ReadPending(free) \/ StreamClose \/ StreamDrop
  \/ \E k \in 0 .. Capacity : ReadReady(k) \/ ReadBuffered(k)
  \/ \E k \in 1 .. Capacity : Consume(k)
  \/ \E s \in Slice : WritePending(s, free) \/ WriteReady(s)

(* Every byte the kernel handed over is the user's, in the buffer or in a   *)
(* result, in the order it was sent; the end is reported where it is; and   *)
(* writes carry all of a slice, but for one that the user called consume    *)
(* upon.  Unless the user polls another operation with bytes in the buffer  *)
(* or a read in flight: then bytes are lost, and with the counters left     *)
(* behind, the next read or write finds nothing.                            *)
StreamIsFaithful ==
  active \notin {"Gone", "Closed"} /\ ~discarded =>
    /\ IF Unread(buf) > 0 /\ active = "Read"
         THEN next = buf.src + buf.pos /\ taken = next + Unread(buf)
         ELSE IF event # NoEvent /\ event.op = "Read" /\ result \notin {NoResult, Err}
           THEN next = from /\ taken = next + result
           ELSE next = taken
    /\ eof => ended /\ next = sent
    /\ ~consumed /\ event # NoEvent /\ event.op = "Write" =>
         event.src \in Slice /\ event.len = MinOf(SliceLen[event.src], Capacity)
=============================================================================
