------------------------------- MODULE Stdio -------------------------------
(***************************************************************************)
(* src/io.rs: the Print future of print!, println!, eprint! and eprintln!, *)
(* and Stdout.  Both have a Ring, and neither implements Drop: dropped     *)
(* with a write in flight, they free the bytes and cancel nothing.         *)
(*                                                                         *)
(* One of them is followed at a time; the kernel writes for all of them.   *)
(***************************************************************************)
EXTENDS IoRing, Buffer, SequencesExt

CONSTANTS
  Text, TextLen,  \* what is printed or written, and how long it is
  Static,         \* texts that are borrowed for ever: println!(driver)
  Box,            \* heap allocations
  Err,            \* any error as the result of a write
  Capacity,       \* the buffer's: 4096 * 2 in the code
  MaxOut,         \* bound: bytes that one handle puts out
  MaxLeft         \* bound: writes left behind by dropped handles

ASSUME StdioAssumption ==
  /\ TextLen \in [Text -> Nat] /\ Static \subseteq Text
  /\ Capacity \in Nat \ {0} /\ MaxOut \in Nat /\ MaxLeft \in Nat
  /\ NoBox \notin Box /\ NoSource \notin Text
  /\ Err \notin Nat /\ NoResult \notin Nat \cup {Err}

VARIABLES
  kind,     \* what there is: "Print", "Stdout", or "Gone"
  text,     \* Print: bytes; Stdout: the text of the poll_write that is Pending
  idx,      \* Print
  buf,      \* Stdout; of a Print, box is the allocation of owned bytes
  left,     \* writes of dropped handles that the kernel still has
  out,      \* the bytes put out since the handle was made, until strayed
  told,     \* the bytes its user was told of, until strayed
  strayed   \* a Pending write was continued with another text, which
            \* poll_flush and poll_close do; or a write failed

vars == <<event, result, kind, text, idx, buf, left, out, told, strayed>>

Write(box, src, at, len) == [box |-> box, src |-> src, at |-> at, len |-> len]

Event == [box : Box \cup {NoBox}, src : Text, at : Nat, len : Nat]

ASSUME NoEventAssumption == NoEvent \notin Event

TypeOK ==
  /\ kind \in {"Print", "Stdout", "Gone"}
  /\ event \in Event \cup {NoEvent}
  /\ result \in 0 .. MaxOut \cup {NoResult, Err}
  /\ text \in Text \cup {NoSource}
  /\ kind = "Print" => idx \in 0 .. TextLen[text]
  /\ buf \in [box : Box \cup {NoBox}, pos : 0 .. Capacity, cap : 0 .. Capacity,
              src : Text \cup {NoSource}]
  /\ buf.pos <= buf.cap
  /\ left \subseteq Event
  /\ {out, told} \subseteq Seq(Text \X Nat)
  /\ strayed \in BOOLEAN

Init ==
  /\ RingInit
  /\ kind = "Gone" /\ text = NoSource /\ idx = 0 /\ buf = Fresh
  /\ left = {} /\ out = <<>> /\ told = <<>> /\ strayed = FALSE

(* Bytes i, ..., i + n - 1 of a text.                                       *)
Bytes(t, i, n) == [j \in 1 .. n |-> <<t, i + j - 1>>]

Add(record, bytes) == IF strayed THEN record ELSE record \o bytes

(* The allocator may give memory that the kernel still reads from.          *)
Gone == kind' = "Gone" /\ text' = NoSource /\ idx' = 0 /\ buf' = Fresh

New(k, t, box) ==
  /\ kind = "Gone"
  /\ kind' = k /\ text' = t /\ idx' = 0 /\ buf' = Buf(box, 0, 0, NoSource)
  /\ out' = <<>> /\ told' = <<>> /\ strayed' = FALSE
  /\ UNCHANGED <<event, result, left>>

(* __print and __eprint, to their first poll.                               *)
NewPrint(t) ==
  \E box \in IF t \in Static THEN {NoBox} ELSE Box : New("Print", t, box)

NewStdout == New("Stdout", NoSource, NoBox)

-----------------------------------------------------------------------------
(* Ring::poll prepares e if it has nothing and the driver is ready.         *)
Polled(e) ==
  /\ event = NoEvent \/ result = NoResult
  /\ event' \in IF event = NoEvent THEN {NoEvent, e} ELSE {event}
  /\ result' = NoResult

(* Faulty: the rest is what it was before.                                  *)
RestAgain(i) == Write(buf.box, text, idx, TextLen[text] - idx)

Rest(i) == Write(buf.box, text, i, TextLen[text] - i)

PrintPending ==
  /\ kind = "Print" /\ idx < TextLen[text]
  /\ Polled(Rest(idx))
  /\ UNCHANGED <<kind, text, idx, buf, left, out, told, strayed>>

(* A write was done: the poll ends the Print, or goes on with the rest,     *)
(* which the driver may not be ready for.                                   *)
PrintWritten ==
  /\ kind = "Print" /\ result \notin {NoResult, Err}
  /\ told' = Add(told, Bytes(text, idx, result))
  /\ IF result = TextLen[text] - idx
       THEN Gone /\ event' = NoEvent
       ELSE /\ idx' = idx + result
            /\ event' \in {NoEvent, Rest(idx + result)}
            /\ UNCHANGED <<kind, text, buf>>
  /\ result' = NoResult
  /\ UNCHANGED <<left, out, strayed>>

(* There was nothing to print; or the write failed, and __print panics.     *)
PrintEnds ==
  /\ kind = "Print"
  /\ \/ TextLen[text] = 0 /\ UNCHANGED <<event, result>>
     \/ result = Err /\ Return
  /\ Gone
  /\ UNCHANGED <<left, out, told, strayed>>

-----------------------------------------------------------------------------
(* poll_write(t); poll_flush and poll_close write the empty text.           *)
WriteBuf(box, t) ==
  Loaded(Buf(box, buf.pos, buf.cap, buf.src), MinOf(TextLen[t], Capacity), t)

StdoutBoxes == {b.box : b \in Boxed(buf, Box)}

Strays(t) == text \notin {NoSource, t}

StdoutPending(t) ==
  /\ kind = "Stdout"
  /\ \E box \in StdoutBoxes : LET b == WriteBuf(box, t) IN
       Polled(Write(box, b.src, 0, Unread(b))) /\ buf' = b
  /\ strayed' = (strayed \/ Strays(t))
  /\ text' = IF text = NoSource THEN t ELSE text
  /\ UNCHANGED <<kind, idx, left, out, told>>

StdoutWritten(t) ==
  /\ kind = "Stdout" /\ result # Err
  /\ Return
  /\ buf' = Cleared(WriteBuf(buf.box, t))
  /\ told' = Add(told, Bytes(t, 0, result))
  /\ strayed' = (strayed \/ Strays(t))
  /\ text' = NoSource
  /\ UNCHANGED <<kind, idx, left, out>>

StdoutFailed(t) ==
  /\ kind = "Stdout" /\ result = Err
  /\ Return
  /\ buf' = WriteBuf(buf.box, t)
  /\ strayed' = TRUE
  /\ text' = NoSource
  /\ UNCHANGED <<kind, idx, left, out, told>>

-----------------------------------------------------------------------------
InFlight == IF event # NoEvent /\ result = NoResult THEN {event} ELSE {}

(* The fields are dropped, the state of the Ring with them.                 *)
DropHandle ==
  /\ kind # "Gone"
  /\ Cardinality(left \cup InFlight) <= MaxLeft
  /\ left' = left \cup InFlight
  /\ event' = NoEvent /\ result' = NoResult
  /\ Gone
  /\ UNCHANGED <<out, told, strayed>>

(* The kernel writes some of the bytes, or none and fails.                  *)
Complete ==
  /\ \E n \in (IF event = NoEvent \/ event.len = 0 THEN 0 ELSE 1) .. MaxOut :
       /\ event # NoEvent /\ n <= event.len /\ Len(out) + n <= MaxOut
       /\ Finish(n)
       /\ out' = Add(out, Bytes(event.src, event.at, n))
  /\ UNCHANGED <<kind, text, idx, buf, left, told, strayed>>

CompleteFailed ==
  Finish(Err) /\ UNCHANGED <<kind, text, idx, buf, left, out, told, strayed>>

CompleteLeft(e) ==
  /\ left' = left \ {e}
  /\ UNCHANGED <<event, result, kind, text, idx, buf, out, told, strayed>>

-----------------------------------------------------------------------------
Next ==
  \/ \E t \in Text : NewPrint(t) \/ StdoutPending(t) \/ StdoutWritten(t) \/ StdoutFailed(t)
  \/ NewStdout \/ PrintPending \/ PrintWritten \/ PrintEnds
  \/ DropHandle \/ Complete \/ CompleteFailed
  \/ \E e \in left : CompleteLeft(e)

Spec == Init /\ [][Next]_vars

-----------------------------------------------------------------------------
(* Short writes and all, what comes out is what the program is told came    *)
(* out, byte by byte, and at most one result it has yet to poll; and a      *)
(* Print puts out its text from the start.                                  *)
OutputIsAccountedFor ==
  /\ ~strayed => IsPrefix(told, out)
  /\ ~strayed /\ kind # "Gone" =>
       out = told \o IF event # NoEvent /\ result \notin {NoResult, Err}
                       THEN Bytes(event.src, event.at, result) ELSE <<>>
  /\ kind = "Print" => told = Bytes(text, 0, idx)

(* The bytes the kernel reads for the handle there is are its own.           *)
OwnBytesAlive == \A e \in InFlight : e.box = buf.box

(* Whatever bytes the kernel reads are alive (src/ring/mod.rs says that     *)
(* users of Ring are to implement drop to that end, and the README that the *)
(* crate is "100% memory safe"): those of dropped handles are not owned.    *)
LentBytesAlive == OwnBytesAlive /\ \A e \in left : e.box = NoBox
=============================================================================
