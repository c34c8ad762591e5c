------------------------------- MODULE Events -------------------------------
(***************************************************************************)
(* The events of src/event/: for each, the heap objects whose addresses    *)
(* Event::prepare writes into its SQE (lends), and the objects the         *)
(* callback returned by Event::cancel keeps until the event completes      *)
(* (keeps).  An event that does not override cancel keeps nothing.  Every  *)
(* event takes one SQE (sqes_needed).  Optional objects are shown present. *)
(***************************************************************************)
EXTENDS Cancellation

(* Event::cancel as the trait provides it: Cancellation::from(()).          *)
DefaultCancel == From(Unit)

(* Reading into, or writing from, one buffer, boxed or registered.          *)
Read       == [lends |-> {"buf"}, keeps |-> From(Slice("buf", {}))]
ReadFixed  == [lends |-> {"buf"}, keeps |-> From(RegisteredBuf("buf"))]
Write      == [lends |-> {"buf"}, keeps |-> From(Slice("buf", {}))]
WriteFixed == [lends |-> {"buf"}, keeps |-> From(RegisteredBuf("buf"))]
Recv       == [lends |-> {"buf"}, keeps |-> From(Slice("buf", {}))]
Send       == [lends |-> {"buf"}, keeps |-> From(Slice("buf", {}))]

(* The boxed slice of boxes doubles as the iovec array: the kernel is given *)
(* the outer box, and through it the inner ones.                            *)
ReadVectored  == [lends |-> {"bufs", "inner"}, keeps |-> From(Slice("bufs", {"inner"}))]
WriteVectored == [lends |-> {"bufs", "inner"}, keeps |-> From(Slice("bufs", {"inner"}))]

Accept      == [lends |-> {"addr"}, keeps |-> From(Boxed("addr"))]
Connect     == [lends |-> {"addr"}, keeps |-> From(Boxed("addr"))]
EpollCtl    == [lends |-> {"event"}, keeps |-> From(Boxed("event"))]
FilesUpdate == [lends |-> {"files"}, keeps |-> From(Slice("files", {}))]
OpenAt      == [lends |-> {"path"}, keeps |-> From(CStr("path"))]

Statx          == [lends |-> {"path", "statx"},
                   keeps |-> From(Pair(Boxed("statx"), CStr("path")))]
Timeout        == [lends |-> {"ts"}, keeps |-> From(Boxed("ts"))]
ProvideBuffers == [lends |-> {"bufs"}, keeps |-> From(Slice("bufs", {}))]

(* Events whose SQE carries numbers only, or a 'static timespec.            *)
Close         == [lends |-> {}, keeps |-> DefaultCancel]
Fadvise       == [lends |-> {}, keeps |-> DefaultCancel]
Fallocate     == [lends |-> {}, keeps |-> DefaultCancel]
Fsync         == [lends |-> {}, keeps |-> DefaultCancel]
RemoveBuffers == [lends |-> {}, keeps |-> DefaultCancel]
Splice        == [lends |-> {}, keeps |-> DefaultCancel]
StaticTimeout == [lends |-> {}, keeps |-> DefaultCancel]

(* All of them, by name.                                                    *)
EventKinds ==
  [Read |-> Read, ReadFixed |-> ReadFixed, Write |-> Write,
   WriteFixed |-> WriteFixed, Recv |-> Recv, Send |-> Send,
   ReadVectored |-> ReadVectored, WriteVectored |-> WriteVectored,
   Accept |-> Accept, Connect |-> Connect, EpollCtl |-> EpollCtl,
   FilesUpdate |-> FilesUpdate, OpenAt |-> OpenAt, Statx |-> Statx,
   Timeout |-> Timeout, ProvideBuffers |-> ProvideBuffers, Close |-> Close,
   Fadvise |-> Fadvise, Fallocate |-> Fallocate, Fsync |-> Fsync,
   RemoveBuffers |-> RemoveBuffers, Splice |-> Splice,
   StaticTimeout |-> StaticTimeout]
=============================================================================
