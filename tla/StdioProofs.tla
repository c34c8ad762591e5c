----------------------------- MODULE StdioProofs -----------------------------
(***************************************************************************)
(* Proofs about Stdio, for texts of any length and any bounds: its         *)
(* invariants hold.                                                        *)
(***************************************************************************)
EXTENDS Stdio, SequenceTheorems, TLAPS

Byte == Text \X Nat

EventInv ==
  /\ event = NoEvent => result = NoResult
  /\ event # NoEvent /\ result \in Nat => result <= event.len
  /\ kind = "Gone" => event = NoEvent

(* A Print has only the rest of its text under way.                         *)
PrintInv ==
  kind = "Print" =>
    /\ text \in Text /\ ~strayed
    /\ event # NoEvent => event = Rest(idx) /\ idx < TextLen[text]

(* What Stdout has buffered, or under way, is the text of the poll_write    *)
(* that is Pending.                                                         *)
StdoutInv ==
  kind = "Stdout" =>
    /\ ~Exhausted(buf) => buf.src \in Text
    /\ ~strayed /\ ~Exhausted(buf) => buf.src = text
    /\ ~strayed /\ event # NoEvent => event.src = text /\ event.at = 0

(* The bytes under way are those of the handle, which Stdout does not give  *)
(* away as long as there are any.                                           *)
BoxInv ==
  /\ event # NoEvent => event.box = buf.box
  /\ kind = "Stdout" /\ (event # NoEvent \/ ~Exhausted(buf)) => buf.box \in Box

IInv ==
  /\ TypeOK /\ EventInv /\ PrintInv /\ StdoutInv /\ BoxInv
  /\ OutputIsAccountedFor

-----------------------------------------------------------------------------
(* Bytes of a text, one after the other.                                    *)

LEMMA BytesType ==
  ASSUME NEW t \in Text, NEW i \in Nat, NEW n \in Nat
  PROVE  Bytes(t, i, n) \in Seq(Byte) /\ Len(Bytes(t, i, n)) = n
BY DEF Bytes, Byte

LEMMA BytesAdd ==
  ASSUME NEW t \in Text, NEW m \in Nat, NEW n \in Nat
  PROVE  Bytes(t, 0, m) \o Bytes(t, m, n) = Bytes(t, 0, m + n)
<1>. DEFINE lhs == Bytes(t, 0, m) \o Bytes(t, m, n)
            rhs == Bytes(t, 0, m + n)
<1>1. /\ Bytes(t, 0, m) \in Seq(Byte) /\ Len(Bytes(t, 0, m)) = m
      /\ Bytes(t, m, n) \in Seq(Byte) /\ Len(Bytes(t, m, n)) = n
      /\ rhs \in Seq(Byte) /\ Len(rhs) = m + n
  BY BytesType
<1>2. lhs \in Seq(Byte) /\ Len(lhs) = m + n
  BY <1>1, ConcatProperties
<1>3. \A j \in 1 .. m + n : lhs[j] = rhs[j]
  <2>. SUFFICES ASSUME NEW j \in 1 .. m + n PROVE lhs[j] = rhs[j]
    OBVIOUS
  <2>1. lhs[j] = IF j <= m THEN Bytes(t, 0, m)[j] ELSE Bytes(t, m, n)[j - m]
    BY <1>1
  <2>2. rhs[j] = <<t, 0 + j - 1>>
    BY DEF Bytes
  <2>3. CASE j <= m
    BY <2>1, <2>2, <2>3 DEF Bytes
  <2>4. CASE ~(j <= m)
    <3>1. j - m \in 1 .. n /\ m + (j - m) - 1 = 0 + j - 1
      BY <2>4
    <3>2. Bytes(t, m, n)[j - m] = <<t, m + (j - m) - 1>>
      BY <3>1 DEF Bytes
    <3>. HIDE DEF lhs, rhs
    <3>3. lhs[j] = Bytes(t, m, n)[j - m]
      BY <2>1, <2>4, Zenon
    <3>. QED
      BY <2>2, <3>1, <3>2, <3>3
  <2>. HIDE DEF lhs, rhs
  <2>. QED
    BY <2>3, <2>4
<1>. QED
  BY <1>1, <1>2, <1>3, SeqEqual

LEMMA NoBytes ==
  ASSUME NEW t, NEW i
  PROVE  Bytes(t, i, 0) = <<>>
BY DEF Bytes

LEMMA PrefixOfConcat ==
  ASSUME NEW S, NEW s \in Seq(S), NEW t \in Seq(S)
  PROVE  s \o t \in Seq(S) /\ s \o <<>> = s /\ IsPrefix(s, s \o t) /\ IsPrefix(s, s)
<1>1. s \o t \in Seq(S) /\ Len(s) <= Len(s \o t) /\ s \o <<>> = s
  BY ConcatProperties, ConcatEmptySeq
<1>2. SubSeq(s, 1, Len(s)) = SubSeq(s \o t, 1, Len(s))
  <2>. DEFINE lhs == SubSeq(s, 1, Len(s))
              rhs == SubSeq(s \o t, 1, Len(s))
  <2>1. /\ lhs \in Seq(S) /\ Len(lhs) = Len(s) /\ rhs \in Seq(S) /\ Len(rhs) = Len(s)
        /\ \A i \in 1 .. Len(s) : lhs[i] = s[i] /\ rhs[i] = (s \o t)[i] /\ (s \o t)[i] = s[i]
    BY <1>1
  <2>. QED
    BY <2>1, SeqEqual
<1>. QED
  BY <1>1, <1>2 DEF IsPrefix

-----------------------------------------------------------------------------
(* Every step preserves the invariant: a lemma for each action.             *)

LEMMA NewStep ==
  ASSUME IInv, NEW k \in {"Print", "Stdout"}, NEW t \in Text \cup {NoSource},
         NEW box \in Box \cup {NoBox}, k = "Print" => t \in Text, New(k, t, box)
  PROVE  IInv'
<1>. USE StdioAssumption
<1>1. /\ kind' = k /\ text' = t /\ idx' = 0 /\ buf' = Buf(box, 0, 0, NoSource)
      /\ out' = <<>> /\ told' = <<>> /\ strayed' = FALSE
      /\ event' = NoEvent /\ result' = NoResult /\ left' = left
  BY DEF New, IInv, EventInv
<1>2. TypeOK'
  <2>1. /\ buf' \in [box : Box \cup {NoBox}, pos : 0 .. Capacity, cap : 0 .. Capacity,
                    src : Text \cup {NoSource}]
        /\ buf'.pos <= buf'.cap
    BY <1>1 DEF Buf
  <2>2. kind' = "Print" => idx' \in 0 .. TextLen[text']
    BY <1>1
  <2>3. {out', told'} \subseteq Seq(Text \X Nat)
    BY <1>1, EmptySeq
  <2>. QED
    BY <1>1, <2>1, <2>2, <2>3 DEF IInv, TypeOK
<1>3. EventInv' /\ PrintInv' /\ StdoutInv' /\ BoxInv'
  BY <1>1 DEF EventInv, PrintInv, StdoutInv, BoxInv, Exhausted, Buf
<1>4. OutputIsAccountedFor'
  <2>1. <<>> \o <<>> = <<>> /\ IsPrefix(<<>>, <<>>)
    BY PrefixOfConcat, EmptySeq
  <2>. QED
    BY <1>1, <2>1, NoBytes DEF OutputIsAccountedFor
<1>. QED
  BY <1>2, <1>3, <1>4 DEF IInv

LEMMA RestType ==
  ASSUME NEW b \in Box \cup {NoBox}, buf.box = b, text \in Text, NEW i \in 0 .. TextLen[text]
  PROVE  Rest(i) \in Event /\ Rest(i).src = text /\ Rest(i).at = i
         /\ Rest(i).len = TextLen[text] - i /\ Rest(i).box = b
BY StdioAssumption DEF Rest, Write, Event

LEMMA PrintPendingStep ==
  ASSUME IInv, PrintPending
  PROVE  IInv'
<1>. USE StdioAssumption
<1>1. /\ kind = "Print" /\ result' = NoResult /\ event' \in {NoEvent, event, Rest(idx)}
      /\ event = NoEvent \/ result = NoResult
      /\ event' = event \/ event = NoEvent
      /\ UNCHANGED <<kind, text, idx, buf, left, out, told, strayed>>
  BY DEF PrintPending, Polled
<1>2. Rest(idx) \in Event /\ Rest(idx).box = buf.box
  BY <1>1, RestType DEF IInv, TypeOK, PrintInv
<1>3. Rest(idx)' = Rest(idx)
  BY <1>1 DEF Rest
<1>4. TypeOK'
  BY <1>1, <1>2 DEF IInv, TypeOK
<1>5. EventInv' /\ PrintInv' /\ StdoutInv' /\ BoxInv'
  <2>1. idx < TextLen[text]
    BY DEF PrintPending
  <2>. QED
    BY <1>1, <1>2, <1>3, <2>1 DEF IInv, EventInv, PrintInv, StdoutInv, BoxInv
<1>6. OutputIsAccountedFor'
  BY <1>1 DEF IInv, EventInv, OutputIsAccountedFor
<1>. QED
  BY <1>4, <1>5, <1>6 DEF IInv

LEMMA PrintWrittenStep ==
  ASSUME IInv, PrintWritten
  PROVE  IInv'
<1>. USE StdioAssumption
<1>1. /\ kind = "Print" /\ text \in Text /\ idx \in 0 .. TextLen[text] /\ ~strayed
      /\ event \in Event /\ event = Rest(idx)
      /\ result \in Nat /\ result <= TextLen[text] - idx
      /\ result' = NoResult /\ out' = out /\ left' = left /\ strayed' = strayed
  <2>1. kind = "Print" /\ result \notin {NoResult, Err}
    BY DEF PrintWritten
  <2>2. event # NoEvent /\ result \in Nat
    BY <2>1 DEF IInv, TypeOK, EventInv
  <2>. QED
    BY <2>1, <2>2, RestType DEF IInv, TypeOK, EventInv, PrintInv, PrintWritten
<1>2. /\ event.src = text /\ event.at = idx
      /\ told = Bytes(text, 0, idx) /\ out = told \o Bytes(text, idx, result)
      /\ told' = told \o Bytes(text, idx, result)
  <2>1. event.src = text /\ event.at = idx
    BY <1>1, RestType DEF IInv, TypeOK
  <2>2. result \notin {NoResult, Err} /\ event # NoEvent
    BY <1>1, NoEventAssumption
  <2>. QED
    BY <1>1, <2>1, <2>2 DEF IInv, OutputIsAccountedFor, PrintWritten, Add
<1>3. told' = Bytes(text, 0, idx + result) /\ told' = out'
  <2>1. idx \in Nat /\ Bytes(text, 0, idx) \o Bytes(text, idx, result) = Bytes(text, 0, idx + result)
    BY <1>1, BytesAdd
  <2>. QED
    BY <1>1, <1>2, <2>1
<1>4. told' \in Seq(Byte) /\ IsPrefix(told', out') /\ out' = told' \o <<>>
  BY <1>1, <1>3, BytesType, PrefixOfConcat, EmptySeq
<1>5. CASE result = TextLen[text] - idx
  <2>1. kind' = "Gone" /\ text' = NoSource /\ buf' = Fresh /\ event' = NoEvent
    BY <1>5 DEF PrintWritten, Gone
  <2>2. TypeOK'
    BY <1>1, <1>4, <2>1 DEF IInv, TypeOK, Fresh, Buf, Byte
  <2>. QED
    BY <1>1, <1>4, <2>1, <2>2
       DEF IInv, EventInv, PrintInv, StdoutInv, BoxInv, OutputIsAccountedFor
<1>6. CASE result # TextLen[text] - idx
  <2>1. /\ idx' = idx + result /\ event' \in {NoEvent, Rest(idx + result)}
        /\ UNCHANGED <<kind, text, buf>>
    BY <1>6 DEF PrintWritten
  <2>2. /\ idx' \in 0 .. TextLen[text] /\ Rest(idx') \in Event /\ Rest(idx)' = Rest(idx')
        /\ Rest(idx').box = buf.box
    BY <1>1, <2>1, RestType DEF IInv, TypeOK, Rest
  <2>3. TypeOK'
    BY <1>1, <1>4, <2>1, <2>2 DEF IInv, TypeOK, Byte
  <2>4. EventInv' /\ PrintInv' /\ StdoutInv' /\ BoxInv'
    <3>1. idx' < TextLen[text]
      BY <1>1, <1>6, <2>1
    <3>. QED
      BY <1>1, <2>1, <2>2, <3>1 DEF EventInv, PrintInv, StdoutInv, BoxInv
  <2>5. OutputIsAccountedFor'
    BY <1>1, <1>3, <1>4, <2>1 DEF OutputIsAccountedFor
  <2>. QED
    BY <2>3, <2>4, <2>5 DEF IInv
<1>. QED
  BY <1>5, <1>6

LEMMA PrintEndsStep ==
  ASSUME IInv, PrintEnds
  PROVE  IInv'
<1>. USE StdioAssumption
<1>1. /\ kind = "Print" /\ kind' = "Gone" /\ text' = NoSource /\ buf' = Fresh
      /\ UNCHANGED <<left, out, told, strayed>>
      /\ text \in Text /\ ~strayed /\ idx \in 0 .. TextLen[text]
  BY DEF PrintEnds, Gone, IInv, TypeOK, PrintInv
<1>2. result \notin Nat /\ event' = NoEvent /\ result' = NoResult
  <2>1. CASE TextLen[text] = 0 /\ UNCHANGED <<event, result>>
    BY <1>1, <2>1 DEF IInv, EventInv, PrintInv
  <2>2. CASE result = Err /\ Return
    BY <2>2 DEF Return
  <2>. QED
    BY <2>1, <2>2 DEF PrintEnds
<1>3. out = told
  <2>1. result \in {NoResult, Err} /\ told \in Seq(Byte)
    BY <1>2 DEF IInv, TypeOK, Byte
  <2>2. out = told \o <<>>
    BY <1>1, <2>1 DEF IInv, OutputIsAccountedFor
  <2>. QED
    BY <2>1, <2>2, PrefixOfConcat, EmptySeq
<1>4. TypeOK'
  BY <1>1, <1>2 DEF IInv, TypeOK, Fresh, Buf
<1>. QED
  BY <1>1, <1>2, <1>4 DEF IInv, EventInv, PrintInv, StdoutInv, BoxInv, OutputIsAccountedFor

-----------------------------------------------------------------------------
LEMMA DropHandleStep ==
  ASSUME IInv, DropHandle
  PROVE  IInv'
<1>. USE StdioAssumption
<1>1. /\ kind' = "Gone" /\ text' = NoSource /\ buf' = Fresh
      /\ event' = NoEvent /\ result' = NoResult /\ left' \subseteq Event
      /\ UNCHANGED <<out, told, strayed>>
  BY DEF DropHandle, Gone, InFlight, IInv, TypeOK
<1>2. TypeOK'
  BY <1>1 DEF IInv, TypeOK, Fresh, Buf
<1>. QED
  BY <1>1, <1>2 DEF IInv, EventInv, PrintInv, StdoutInv, BoxInv, OutputIsAccountedFor

(* What poll_write has in the buffer: the text, unless there was something. *)
LEMMA WriteBufHas ==
  ASSUME IInv, kind = "Stdout", NEW box \in Box \cup {NoBox}, NEW t \in Text
  PROVE  LET w == WriteBuf(box, t)
         IN  /\ w \in [box : Box \cup {NoBox}, pos : 0 .. Capacity, cap : 0 .. Capacity,
                       src : Text \cup {NoSource}]
             /\ w.pos <= w.cap /\ w.box = box /\ w.src \in Text
             /\ Exhausted(buf) => w.src = t
             /\ ~Exhausted(buf) => w.src = buf.src
<1>. DEFINE b == Buf(box, buf.pos, buf.cap, buf.src)
            n == MinOf(TextLen[t], Capacity)
<1>1. n \in 0 .. Capacity
  BY StdioAssumption DEF MinOf
<1>2. /\ b \in [box : Box \cup {NoBox}, pos : 0 .. Capacity, cap : 0 .. Capacity,
                src : Text \cup {NoSource}]
      /\ b.pos = buf.pos /\ b.cap = buf.cap /\ b.src = buf.src /\ b.box = box
      /\ b.pos <= b.cap
      /\ ~Exhausted(buf) => buf.src \in Text
  BY DEF IInv, TypeOK, StdoutInv, Buf
<1>3. WriteBuf(box, t) = IF Exhausted(buf) THEN Buf(box, 0, n, t) ELSE b
  <2>1. WriteBuf(box, t) = IF Exhausted(b) THEN Buf(b.box, 0, n, t) ELSE b
    BY DEF WriteBuf, Loaded, Filled
  <2>. HIDE DEF b, n
  <2>. QED
    BY <1>2, <2>1 DEF Exhausted
<1>. HIDE DEF b, n
<1>4. CASE Exhausted(buf)
  BY <1>1, <1>3, <1>4, StdioAssumption DEF Buf
<1>5. CASE ~Exhausted(buf)
  <2>1. WriteBuf(box, t) = b /\ b.src = buf.src /\ buf.src \in Text
    BY <1>2, <1>3, <1>5
  <2>. QED
    BY <1>2, <1>5, <2>1
<1>. QED
  BY <1>4, <1>5

LEMMA StdoutBoxIs ==
  ASSUME IInv, kind = "Stdout", NEW box \in StdoutBoxes
  PROVE  box \in Box /\ (buf.box \in Box => box = buf.box)
<1>1. buf.box \in Box \cup {NoBox} /\ (~Exhausted(buf) => buf.box \in Box)
  BY DEF IInv, TypeOK, BoxInv
<1>. QED
  BY <1>1, StdioAssumption DEF StdoutBoxes, Boxed, Buf

LEMMA StdoutPendingStep ==
  ASSUME IInv, NEW t \in Text, StdoutPending(t)
  PROVE  IInv'
<1>. USE StdioAssumption
<1>1. PICK box, w :
        /\ box \in StdoutBoxes /\ w = WriteBuf(box, t)
        /\ Polled(Write(box, w.src, 0, Unread(w))) /\ buf' = w
  <2>1. PICK box \in StdoutBoxes :
          /\ Polled(Write(box, WriteBuf(box, t).src, 0, Unread(WriteBuf(box, t))))
          /\ buf' = WriteBuf(box, t)
    BY DEF StdoutPending
  <2>. QED
    BY <2>1
<1>2. box \in Box \cup {NoBox}
  BY <1>1 DEF StdoutBoxes, Boxed, Buf, IInv, TypeOK
<1>3. /\ kind = "Stdout" /\ strayed' = (strayed \/ Strays(t))
      /\ text' = IF text = NoSource THEN t ELSE text
      /\ UNCHANGED <<kind, idx, left, out, told>>
  BY DEF StdoutPending
<1>4. /\ w \in [box : Box \cup {NoBox}, pos : 0 .. Capacity, cap : 0 .. Capacity,
                src : Text \cup {NoSource}]
      /\ w.pos <= w.cap /\ w.box = box /\ w.src \in Text
      /\ Exhausted(buf) => w.src = t
      /\ ~Exhausted(buf) => w.src = buf.src
  BY <1>1, <1>2, <1>3, WriteBufHas
<1>. DEFINE e == Write(box, w.src, 0, Unread(w))
<1>5. e \in Event /\ e.src = w.src /\ e.at = 0 /\ e.box = box
  <2>1. Unread(w) \in Nat
    BY <1>4 DEF Unread, Exhausted
  <2>. QED
    BY <1>2, <1>4, <2>1 DEF Write, Event
<1>6. /\ result' = NoResult
      /\ event' = event \/ event' = e
      /\ event = NoEvent \/ result = NoResult
      /\ event' = event \/ event = NoEvent
  BY <1>1 DEF Polled
<1>. HIDE DEF e
<1>7. TypeOK'
  BY <1>1, <1>3, <1>4, <1>5, <1>6 DEF IInv, TypeOK
<1>8. ~strayed' => ~strayed /\ text' = t /\ text \in {NoSource, t}
  BY <1>3 DEF Strays
<1>9. EventInv' /\ PrintInv'
  BY <1>3, <1>6 DEF IInv, EventInv, PrintInv
<1>10. StdoutInv'
  <2>1. ~strayed' => w.src = t
    BY <1>3, <1>4, <1>8 DEF IInv, StdoutInv
  <2>2. ~strayed' /\ event # NoEvent => event.src = t /\ event.at = 0
    <3>1. event # NoEvent => event.src \in Text
      BY DEF IInv, TypeOK, Event
    <3>. QED
      BY <1>3, <1>8, <3>1 DEF IInv, StdoutInv
  <2>. QED
    BY <1>1, <1>3, <1>4, <1>5, <1>6, <1>8, <2>1, <2>2 DEF StdoutInv
<1>11. BoxInv'
  <2>1. /\ event # NoEvent => event.box = buf.box /\ buf.box \in Box
        /\ box \in Box /\ (buf.box \in Box => box = buf.box)
    BY <1>1, <1>3, StdoutBoxIs DEF IInv, BoxInv
  <2>. QED
    BY <1>1, <1>3, <1>4, <1>5, <1>6, <2>1 DEF BoxInv
<1>12. OutputIsAccountedFor'
  BY <1>3, <1>6, <1>8 DEF IInv, OutputIsAccountedFor
<1>. QED
  BY <1>7, <1>9, <1>10, <1>11, <1>12 DEF IInv

LEMMA StdoutWrittenStep ==
  ASSUME IInv, NEW t \in Text, StdoutWritten(t)
  PROVE  IInv'
<1>. USE StdioAssumption
<1>1. /\ kind = "Stdout" /\ event \in Event /\ result \in Nat
      /\ event' = NoEvent /\ result' = NoResult
      /\ strayed' = (strayed \/ Strays(t)) /\ text' = NoSource
      /\ told' = Add(told, Bytes(t, 0, result))
      /\ buf' = Cleared(WriteBuf(buf.box, t))
      /\ UNCHANGED <<kind, idx, left, out>>
  BY DEF StdoutWritten, Return, IInv, TypeOK, EventInv
<1>2. /\ buf' \in [box : Box \cup {NoBox}, pos : 0 .. Capacity, cap : 0 .. Capacity,
                   src : Text \cup {NoSource}]
      /\ buf'.pos <= buf'.cap /\ Exhausted(buf')
  <2>1. PICK w : /\ w = WriteBuf(buf.box, t)
                 /\ w.box \in Box \cup {NoBox} /\ w.src \in Text
    BY <1>1, WriteBufHas DEF IInv, TypeOK
  <2>. QED
    BY <1>1, <2>1 DEF Cleared, Buf, Exhausted
<1>3. Bytes(t, 0, result) \in Seq(Byte) /\ told \in Seq(Byte) /\ out \in Seq(Byte)
  BY <1>1, BytesType DEF IInv, TypeOK, Byte
<1>4. told' \in Seq(Byte)
  BY <1>1, <1>3 DEF Add
<1>5. TypeOK'
  BY <1>1, <1>2, <1>4 DEF IInv, TypeOK, Byte
<1>6. EventInv' /\ PrintInv' /\ StdoutInv' /\ BoxInv'
  BY <1>1, <1>2 DEF EventInv, PrintInv, StdoutInv, BoxInv
<1>7. OutputIsAccountedFor'
  <2>1. ~strayed' => told' = out
    <3>. SUFFICES ASSUME ~strayed' PROVE told' = out
      OBVIOUS
    <3>1. ~strayed /\ text \in {NoSource, t} /\ event # NoEvent /\ result \notin {NoResult, Err}
      BY <1>1, NoEventAssumption DEF Strays
    <3>2. event.src = t /\ event.at = 0
      BY <1>1, <3>1 DEF IInv, StdoutInv, Event
    <3>. QED
      BY <1>1, <3>1, <3>2 DEF IInv, OutputIsAccountedFor, Add
  <2>2. out \o <<>> = out /\ IsPrefix(out, out)
    BY <1>3, PrefixOfConcat, EmptySeq
  <2>. QED
    BY <1>1, <2>1, <2>2 DEF OutputIsAccountedFor
<1>. QED
  BY <1>5, <1>6, <1>7 DEF IInv

LEMMA StdoutFailedStep ==
  ASSUME IInv, NEW t \in Text, StdoutFailed(t)
  PROVE  IInv'
<1>. USE StdioAssumption
<1>1. /\ kind = "Stdout" /\ event' = NoEvent /\ result' = NoResult
      /\ buf.box \in Box
      /\ strayed' = TRUE /\ text' = NoSource
      /\ UNCHANGED <<kind, idx, left, out, told>>
  BY DEF StdoutFailed, Return, IInv, EventInv, BoxInv
<1>2. /\ buf' \in [box : Box \cup {NoBox}, pos : 0 .. Capacity, cap : 0 .. Capacity,
                   src : Text \cup {NoSource}]
      /\ buf'.pos <= buf'.cap /\ buf'.src \in Text /\ buf'.box = buf.box
  BY <1>1, WriteBufHas DEF StdoutFailed, IInv, TypeOK
<1>3. TypeOK'
  BY <1>1, <1>2 DEF IInv, TypeOK
<1>. QED
  BY <1>1, <1>2, <1>3 DEF IInv, EventInv, PrintInv, StdoutInv, BoxInv, OutputIsAccountedFor

LEMMA CompleteStep ==
  ASSUME IInv, Complete
  PROVE  IInv'
<1>. USE StdioAssumption
<1>1. PICK n \in 0 .. MaxOut :
        /\ event # NoEvent /\ n <= event.len
        /\ Finish(n)
        /\ out' = Add(out, Bytes(event.src, event.at, n))
  BY DEF Complete
<1>2. /\ event \in Event /\ result = NoResult /\ event' = event /\ result' = n
      /\ kind # "Gone"
      /\ UNCHANGED <<kind, text, idx, buf, left, told, strayed>>
  BY <1>1 DEF Complete, Finish, IInv, TypeOK, EventInv
<1>3. /\ Bytes(event.src, event.at, n) \in Seq(Byte)
      /\ told \in Seq(Byte) /\ out \in Seq(Byte)
  <2>1. event.src \in Text /\ event.at \in Nat
    BY <1>2 DEF Event
  <2>2. told \in Seq(Byte) /\ out \in Seq(Byte)
    BY DEF IInv, TypeOK, Byte
  <2>. QED
    BY <2>1, <2>2, BytesType
<1>4. out' \in Seq(Byte)
  BY <1>1, <1>3 DEF Add
<1>5. TypeOK'
  BY <1>1, <1>2, <1>4 DEF IInv, TypeOK, Byte
<1>6. EventInv' /\ PrintInv' /\ StdoutInv' /\ BoxInv'
  BY <1>1, <1>2 DEF IInv, EventInv, PrintInv, StdoutInv, BoxInv, Rest
<1>7. OutputIsAccountedFor'
  <2>1. ~strayed => out = told
    <3>1. ~strayed => out = told \o <<>>
      BY <1>2 DEF IInv, OutputIsAccountedFor
    <3>. QED
      BY <1>3, <3>1, PrefixOfConcat, EmptySeq
  <2>2. ~strayed => out' = told \o Bytes(event.src, event.at, n)
    BY <1>1, <2>1 DEF Add
  <2>3. IsPrefix(told, told \o Bytes(event.src, event.at, n))
    BY <1>3, PrefixOfConcat
  <2>4. result' \notin {NoResult, Err}
    BY <1>2
  <2>. QED
    BY <1>1, <1>2, <2>2, <2>3, <2>4 DEF IInv, OutputIsAccountedFor
<1>. QED
  BY <1>5, <1>6, <1>7 DEF IInv

LEMMA CompleteFailedStep ==
  ASSUME IInv, CompleteFailed
  PROVE  IInv'
<1>. USE StdioAssumption
<1>1. /\ event # NoEvent /\ event' = event /\ result = NoResult /\ result' = Err
      /\ UNCHANGED <<kind, text, idx, buf, left, out, told, strayed>>
  BY DEF CompleteFailed, Finish
<1>2. TypeOK'
  BY <1>1 DEF IInv, TypeOK
<1>. QED
  BY <1>1, <1>2 DEF IInv, EventInv, PrintInv, StdoutInv, BoxInv, OutputIsAccountedFor, Rest

LEMMA NextIInv == IInv /\ [Next]_vars => IInv'
<1>. SUFFICES ASSUME IInv, [Next]_vars
              PROVE  IInv'
  OBVIOUS
<1>1. CASE UNCHANGED vars
  BY <1>1 DEF vars, IInv, TypeOK, EventInv, PrintInv, StdoutInv, BoxInv, OutputIsAccountedFor, Rest
<1>2. ASSUME NEW t \in Text, NewPrint(t) PROVE IInv'
  BY <1>2, NewStep DEF NewPrint
<1>3. CASE NewStdout
  BY <1>3, NewStep DEF NewStdout
<1>4. ASSUME NEW e \in left, CompleteLeft(e) PROVE IInv'
  BY <1>4 DEF CompleteLeft, IInv, TypeOK, EventInv, PrintInv, StdoutInv, BoxInv,
     OutputIsAccountedFor, Rest
<1>. QED
  BY <1>1, <1>2, <1>3, <1>4, PrintPendingStep, PrintWrittenStep, PrintEndsStep,
     StdoutPendingStep, StdoutWrittenStep, StdoutFailedStep, DropHandleStep, CompleteStep,
     CompleteFailedStep DEF Next

-----------------------------------------------------------------------------
(* The inductive invariant holds throughout.                                *)
THEOREM Invariance == Spec => []IInv
<1>1. Init => IInv
  <2>. SUFFICES ASSUME Init PROVE IInv
    OBVIOUS
  <2>1. <<>> \in Seq(Byte) /\ <<>> \o <<>> = <<>> /\ IsPrefix(<<>>, <<>>)
    BY PrefixOfConcat, EmptySeq
  <2>2. Fresh \in [box : Box \cup {NoBox}, pos : 0 .. Capacity, cap : 0 .. Capacity,
                   src : Text \cup {NoSource}] /\ Fresh.pos <= Fresh.cap
    BY StdioAssumption DEF Fresh, Buf
  <2>3. TypeOK
    BY <2>1, <2>2 DEF Init, RingInit, TypeOK, Byte
  <2>. QED
    BY <2>1, <2>3
       DEF IInv, Init, RingInit, EventInv, PrintInv, StdoutInv, BoxInv, OutputIsAccountedFor
<1>. QED
  BY <1>1, NextIInv, PTL DEF Spec

(* Type correctness; in particular idx stays within the text and the buffer *)
(* within its capacity.                                                     *)
THEOREM TypeCorrect == Spec => []TypeOK
BY Invariance, PTL DEF IInv

(* What comes out is what the program is told came out, byte by byte, and   *)
(* one result it has yet to poll.                                           *)
THEOREM NoByteIsLost == Spec => []OutputIsAccountedFor
BY Invariance, PTL DEF IInv

(* The bytes that the kernel reads for a Print or Stdout that is there are   *)
(* its own: what goes wrong with dropped ones is all that goes wrong.        *)
THEOREM OwnBytesStayAlive == Spec => []OwnBytesAlive
<1>1. IInv => OwnBytesAlive
  BY DEF IInv, BoxInv, OwnBytesAlive, InFlight
<1>. QED
  BY <1>1, Invariance, PTL
=============================================================================
