-------------------------------- MODULE File --------------------------------
(***************************************************************************)
(* src/fs.rs: File, with its buffer, its position and the descriptor, over *)
(* a ring as module IoRing has it.  Bytes read are followed by the         *)
(* position they were read from, bytes to write by the slice they came     *)
(* from.  The user polls any operation at any time, may give up a future   *)
(* that is pending, close, drop, convert and open again.                   *)
(*                                                                         *)
(* The last four variables are what the user knows or did, not state of    *)
(* the program.                                                            *)
(***************************************************************************)
EXTENDS Handle, Integers

CONSTANTS
  Capacity,   \* the buffer's: 4096 * 2 in the code
  MaxPos,     \* u64::MAX; offsets of seeks are signed integers of this width
  Slice,      \* slices that are written
  SliceLen,   \* SliceLen[s]: length of s
  EmptySlice, \* the slice poll_flush writes
  NoSlice,    \* no slice
  Statx       \* the buffer is Either::Right: a statx structure

ASSUME FileAssumption ==
  /\ Capacity \in Nat \ {0} /\ MaxPos \in Nat \ {0}
  /\ SliceLen \in [Slice -> Nat]
  /\ EmptySlice \in Slice /\ SliceLen[EmptySlice] = 0
  /\ NoSlice \notin Slice /\ NoBox \notin Box /\ Statx # NoSource
  /\ Err \notin Nat /\ NoResult \notin Nat \cup {Err}

VARIABLES
  buf,      \* FileBuf
  pos,      \* File::pos
  size,     \* the size of the file
  next,     \* the position of the byte the user has to get or to put next
  owed,     \* the slice of a write that was Pending or failed
  wrote,    \* the last write: the slice polled with, the one written, the count
  strayed   \* in which ways the user left what the properties presuppose

fileVars == <<buf, pos, size>>
userVars == <<next, owed, wrote, strayed>>
vars == <<handleVars, fileVars, userVars>>

Position == 0 .. MaxPos
Source == Position \cup Slice \cup {NoSource, Statx}
Way == {"seek", "slice", "close", "convert", "consume"}

FileBuf == [box : Box \cup {NoBox}, pos : 0 .. Capacity, cap : 0 .. Capacity, src : Source]

FileEvent == [op : {"Read", "Write", "Close", "Statx"}, box : Box \cup {NoBox},
              keeps : Box \cup {NoBox}, at : Position, len : 0 .. Capacity,
              src : Slice \cup {NoSource}]

ASSUME NoEventAssumption == NoEvent \notin FileEvent

TypeOK ==
  /\ active \in {"Nothing", "Read", "Write", "Statx", "Close", "Closed", "Gone", "Std"}
  /\ fd \in {"open", "closed"}
  /\ event \in FileEvent \cup {NoEvent}
  /\ result \in Position \cup {NoResult, Err}
  /\ orphans \subseteq FileEvent
  /\ buf \in FileBuf /\ buf.pos <= buf.cap
  /\ pos \in Position /\ size \in Position /\ next \in Position
  /\ owed \in Slice \cup {NoSlice}
  /\ wrote \in [asked : Slice \cup {NoSlice}, src : Slice \cup {NoSlice, NoSource},
                n : 0 .. Capacity]
  /\ strayed \subseteq Way

NoWrite == [asked |-> NoSlice, src |-> NoSlice, n |-> 0]

Init ==
  /\ HandleInit
  /\ buf = Fresh
  /\ pos = 0 /\ size \in Position /\ next = 0
  /\ owed = NoSlice /\ wrote = NoWrite
  /\ strayed = {}

(* Open and Create when their OpenAt has succeeded (src/submission.rs), or  *)
(* From<fs::File>.  What is left of earlier files is in flight on theirs.   *)
Open ==
  /\ active \in {"Gone", "Std"}
  /\ Begin
  /\ strayed' = {}
  /\ orphans' = {o \in orphans : o.op # "Close"}
  /\ UNCHANGED <<event, result, fileVars, next, owed, wrote>>

-----------------------------------------------------------------------------
(* guard_op, for the buffer: the operation that is given up takes it along. *)
GuardBuf(op) == IF Switches(op) THEN Fresh ELSE buf

(* Boxes that can be allocated: no other memory of this program is modelled. *)
Free == Box \ ({buf.box} \cup {o.keeps : o \in orphans})

(* u64 addition, as a release build has it.                                 *)
Advance(p, n) == (p + n) % (MaxPos + 1)

(* A poll of another operation drops what was read and not consumed, and    *)
(* the position stays past it: the user has to copy it out with             *)
(* read_buffered first, or these bytes are skipped.                         *)
Skipped(op) == IF Switches(op) /\ active = "Read" THEN Unread(buf) ELSE 0

(* The user who strayed with a seek goes on from the position then.         *)
NextFrom(op) ==
  IF Switches(op) /\ "seek" \in strayed THEN pos ELSE Advance(next, Skipped(op))

(* With the buffer and what is in flight given up, all ways to stray are    *)
(* over, but for a close of which nobody will know what became.             *)
StillStrayed(op) ==
  IF Switches(op)
    THEN (strayed \cap {"close"}) \cup (IF active = "Close" THEN {"close"} ELSE {})
    ELSE strayed

Switched(op) ==
  /\ next' = NextFrom(op)
  /\ strayed' = StillStrayed(op)
  /\ owed' = NoSlice /\ wrote' = NoWrite

-----------------------------------------------------------------------------
(* poll_fill_buf, or poll_read, that has to read.                           *)
ReadPending ==
  \E b \in Boxed(GuardBuf("Read"), Free) :
    /\ Exhausted(b)
    /\ GuardOp("Read", buf.box)
    /\ PollPending("Read", Event("Read", b.box, pos, Capacity, NoSource))
    /\ buf' = b
    /\ Switched("Read")
    /\ UNCHANGED <<fd, pos, size>>

(* poll_read into a slice of k bytes, or poll_fill_buf for k = 0.           *)
ReadReady(k) ==
  /\ Exhausted(buf)
  /\ GuardOp("Read", buf.box)
  /\ PollReady("Read")
  /\ result # Err
  /\ buf' = Consumed(Filled(buf, result, event.at), k)
  /\ pos' = Advance(pos, result)
  /\ next' = Advance(next, MinOf(k, result))
  /\ UNCHANGED <<fd, size, owed, wrote, strayed>>

(* consume, or a poll_read that finds bytes buffered.  consume looks at no  *)
(* operation: with a write under way it passes over bytes that are to be    *)
(* written.  Of a buffer that holds a statx it panics.                      *)
Consume(k) ==
  /\ active \notin {"Gone", "Std"} /\ buf.src # Statx
  /\ buf' = Consumed(buf, k)
  /\ next' = IF active = "Read" THEN Advance(next, MinOf(k, Unread(buf))) ELSE next
  /\ strayed' = strayed \cup
       (IF active = "Write" /\ ~Exhausted(buf) THEN {"consume"} ELSE {})
  /\ UNCHANGED <<handleVars, pos, size, owed, wrote>>

-----------------------------------------------------------------------------
(* poll_write(s), and poll_flush, which writes the empty slice.  The slice  *)
(* is copied if the buffer is exhausted; otherwise what is in it is written, *)
(* which should be the same slice, from a poll that was Pending or failed.  *)
WriteBuf(b, s) == Loaded(b, MinOf(SliceLen[s], Capacity), s)

SliceChanged(s) ==
  IF active = "Write" /\ owed \notin {NoSlice, s} THEN {"slice"} ELSE {}

WritePending(s) ==
  \E e \in Boxed(GuardBuf("Write"), Free) : LET b == WriteBuf(e, s) IN
    /\ GuardOp("Write", buf.box)
    /\ PollPending("Write", Event("Write", b.box, pos, Unread(b), b.src))
    /\ buf' = b
    /\ next' = NextFrom("Write")
    /\ strayed' = StillStrayed("Write") \cup SliceChanged(s)
    /\ owed' = s /\ wrote' = NoWrite
    /\ UNCHANGED <<fd, pos, size>>

WriteReady(s) ==
  /\ GuardOp("Write", buf.box)
  /\ PollReady("Write")
  /\ result # Err
  /\ buf' = Cleared(WriteBuf(buf, s))
  /\ pos' = Advance(pos, result) /\ next' = Advance(next, result)
  /\ wrote' = [asked |-> s, src |-> event.src, n |-> result]
  /\ owed' = NoSlice
  /\ strayed' = strayed \cup SliceChanged(s)
  /\ UNCHANGED <<fd, size>>

(* The error is returned before the buffer is cleared.                      *)
WriteFailed(s) ==
  /\ GuardOp("Write", buf.box)
  /\ PollReady("Write")
  /\ result = Err
  /\ buf' = WriteBuf(buf, s)
  /\ owed' = s
  /\ strayed' = strayed \cup SliceChanged(s)
  /\ UNCHANGED <<fd, pos, size, next, wrote>>

-----------------------------------------------------------------------------
(* poll_seek.  Start and Current poll nothing and cancel nothing: a read    *)
(* or write under way will be added to the new position, and what is        *)
(* buffered is from the old one.  With neither, all is well again.          *)
MoveTo(p) ==
  /\ pos' = p /\ next' = p
  /\ wrote' = NoWrite
  /\ strayed' = IF \/ event # NoEvent /\ event.op \in {"Read", "Write"}
                   \/ active = "Read" /\ Unread(buf) > 0
                  THEN strayed \cup {"seek"} ELSE strayed \ {"seek"}

SeekStart(p) ==
  /\ active \notin {"Gone", "Std"}
  /\ MoveTo(p)
  /\ UNCHANGED <<handleVars, buf, size, owed>>

Offset == -((MaxPos + 1) \div 2) .. (MaxPos - 1) \div 2

(* Faulty: the sum is not checked.                                          *)
UncheckedSeek(whence, d) == TRUE

(* checked_sub and checked_add; an invalid seek is an error.                *)
ValidSeek(whence, d) == whence + d \in Position

SeekCurrent(d) ==
  /\ active \notin {"Gone", "Std"}
  /\ ValidSeek(pos, d)
  /\ MoveTo(pos + d)
  /\ UNCHANGED <<handleVars, buf, size, owed>>

(* split_with_statx: the buffer makes place for a structure for the size.   *)
StatxBuf(b) ==
  IF b.src = Statx THEN {b} ELSE {Buf(x, 0, 0, Statx) : x \in Free}

(* poll_file_size, for a seek from the end.                                 *)
SeekEndPending ==
  \E b \in StatxBuf(GuardBuf("Statx")) :
    /\ GuardOp("Statx", buf.box)
    /\ PollPending("Statx", Event("Statx", b.box, 0, 0, NoSource))
    /\ buf' = b
    /\ Switched("Statx")
    /\ UNCHANGED <<fd, pos, size>>

SeekEndReady(d) ==
  /\ GuardOp("Statx", buf.box)
  /\ PollReady("Statx")
  /\ result # Err
  /\ IF ValidSeek(result, d)
       THEN pos' = result + d /\ next' = result + d
       ELSE UNCHANGED <<pos, next>>
  /\ UNCHANGED <<fd, buf, size, owed, wrote, strayed>>

(* poll_fill_buf and poll_file_size with an error.                          *)
Failed(op) ==
  /\ GuardOp(op, buf.box)
  /\ PollReady(op)
  /\ result = Err
  /\ UNCHANGED <<fd, fileVars, userVars>>

-----------------------------------------------------------------------------
Close ==
  /\ ClosePending(buf.box)
  /\ buf' = GuardBuf("Close")
  /\ Switched("Close")
  /\ UNCHANGED <<fd, pos, size>>

Closed ==
  /\ CloseReady
  /\ strayed' = strayed \cup (IF result = Err THEN {"close"} ELSE {})
  /\ UNCHANGED <<fd, fileVars, next, owed, wrote>>

(* There is no File any more; here, all is as before the next one is opened. *)
Ended == buf' = Fresh /\ pos' = 0 /\ next' = 0 /\ owed' = NoSlice /\ wrote' = NoWrite

(* From<File> for fs::File: cancels, whatever the file was doing, and hands *)
(* the descriptor over, which a close given up may close yet, and a close   *)
(* that succeeded has closed.                                               *)
IntoStd ==
  /\ active \notin {"Gone", "Std"}
  /\ active' = "Std"
  /\ Release(buf.box)
  /\ Ended
  /\ strayed' = strayed \cup (CASE active = "Close"  -> {"close"}
                               [] active = "Closed" -> {"convert"}
                               [] OTHER             -> {})
  /\ UNCHANGED <<fd, size>>

DropFile ==
  /\ Drop(buf.box)
  /\ Ended
  /\ UNCHANGED <<size, strayed>>

-----------------------------------------------------------------------------
(* What the kernel can make of an event.                                    *)
Outcome(e) ==
  LET Ends(r, s, f) == [res |-> r, size |-> s, fd |-> f]
  IN  {Ends(Err, size, fd)} \cup
      CASE e.op = "Read" ->
             {Ends(n, size, fd) :
                n \in IF e.at < size THEN 1 .. MinOf(e.len, size - e.at) ELSE {0}}
        [] e.op = "Write" ->
             {Ends(n, IF e.at + n > size /\ n > 0 THEN e.at + n ELSE size, fd) :
                n \in {m \in 0 .. e.len : e.at + m <= MaxPos}}
        [] e.op = "Statx" -> {Ends(size, size, fd)}
        [] e.op = "Close" -> {Ends(c.res, size, c.fd) : c \in CloseOutcome}

Complete ==
  /\ event # NoEvent /\ result = NoResult
  /\ \E o \in Outcome(event) : Finish(o.res) /\ size' = o.size /\ fd' = o.fd
  /\ UNCHANGED <<active, orphans, buf, pos, userVars>>

(* A cancelled event ends, done or not, and its callback is dropped.        *)
CompleteOrphan(e) ==
  /\ orphans' = orphans \ {e}
  /\ \E o \in Outcome(e) : size' = o.size /\ fd' = o.fd
  /\ UNCHANGED <<event, result, active, buf, pos, userVars>>

-----------------------------------------------------------------------------
User ==
  \/ Open \/ ReadPending \/ SeekEndPending \/ Close \/ Closed \/ IntoStd \/ DropFile
  \/ \E k \in 0 .. Capacity : ReadReady(k)
  \/ \E k \in 1 .. Capacity : Consume(k)
  \/ \E s \in Slice : WritePending(s) \/ WriteReady(s) \/ WriteFailed(s)
  \/ \E p \in Position : SeekStart(p)
  \/ \E d \in Offset : SeekCurrent(d) \/ SeekEndReady(d)
  \/ \E op \in {"Read", "Statx"} : Failed(op)

Next == User \/ Complete \/ \E e \in orphans : CompleteOrphan(e)

Spec == Init /\ [][Next]_vars

-----------------------------------------------------------------------------
(* The kernel works on memory that is alive and that nothing else uses: the *)
(* file's buffer until the event is done or cancelled, then the callback's. *)
(* And what it is to write stays in the buffer as it was, unless the user   *)
(* calls consume with bytes in the buffer that are to be written: then the  *)
(* next poll_write may copy its slice over what the kernel is reading.      *)
LentBufferAlive ==
  /\ LentAlive(buf.box)
  /\ /\ "consume" \notin strayed
     /\ event # NoEvent /\ event.op = "Write" /\ event.len > 0
     => buf.src = event.src /\ Unread(buf) = event.len

(* Reading, writing and seeking in any order, with reads and writes given   *)
(* up on the way, every byte the user gets is the one after the last, and   *)
(* every write goes where the last operation ended, but for the bytes that  *)
(* were read and not consumed when another operation was polled: these, and *)
(* no others, are skipped.  All this unless a Start or Current seek comes   *)
(* upon bytes in the buffer or in flight, until another operation is polled *)
(* or a seek comes upon none.                                               *)
ReadsAreContiguous ==
  "seek" \notin strayed =>
    /\ IF active = "Read" /\ Unread(buf) > 0
         THEN next = buf.src + buf.pos /\ pos = next + Unread(buf)
         ELSE pos = next
    /\ event # NoEvent /\ event.op \in {"Read", "Write"} => event.at = next

(* The count poll_write returns is of bytes of the slice it was called      *)
(* with, the first ones if consume was not called upon them: unless, since  *)
(* the last operation that was no write, the user called with another slice *)
(* than one that was Pending (poll_flush does) or had failed.               *)
WriteReportsItsSlice ==
  "slice" \notin strayed /\ wrote.asked # NoSlice =>
    wrote.src = wrote.asked /\ wrote.n <= SliceLen[wrote.asked]

(* Wherever the code would use its descriptor it still has it, and has not  *)
(* let go of a close that is to come: unless a close failed, or was given   *)
(* up for another operation or for an fs::File.  An fs::File has it too,    *)
(* unless it was made from a file whose close had succeeded.                *)
FdIsOwn ==
  "close" \notin strayed =>
    /\ fd = "closed" => \/ active \in {"Closed", "Gone"}
                        \/ active = "Close" /\ result # NoResult
                        \/ active = "Std" /\ "convert" \in strayed
    /\ \A o \in orphans : o.op = "Close" => active = "Gone"
=============================================================================
