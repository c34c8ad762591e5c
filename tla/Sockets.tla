------------------------------ MODULE Sockets ------------------------------
(***************************************************************************)
(* The handles of src/net and src/unix, followed one after the other: a    *)
(* stream that was connected, made as one of a pair, or accepted, or a     *)
(* listener.  When a handle is dropped, its cancelled events stay with the *)
(* kernel, and the memory they keep is not available to the next handle.   *)
(* UnixStream only wraps a TcpStream; UnixListener has the code of         *)
(* TcpListener less the address.                                           *)
(***************************************************************************)
EXTENDS Stream, Listener

VARIABLE kind   \* "Stream", which is either's, "TcpListener" or "UnixListener"

vars == <<handleVars, streamVars, listenerVars, kind>>

SocketEvent == [op : {"Read", "Write", "Accept", "Close", "Earlier"}, box : Box \cup {NoBox},
                keeps : Box \cup {NoBox}, at : {0}, len : 0 .. Capacity,
                src : 0 .. MaxSent \cup Slice \cup {NoSource}]

ASSUME SocketAssumption ==
  /\ NoEvent \notin SocketEvent /\ NoBox \notin Box
  /\ Err \notin Nat /\ NoResult \notin Nat \cup {Err}

TypeOK ==
  /\ kind \in {"Stream", "TcpListener", "UnixListener"}
  /\ active \in {"Nothing", "Read", "Write", "Accept", "Close", "Closed", "Gone"}
  /\ fd \in {"open", "closed"}
  /\ event \in SocketEvent \cup {NoEvent}
  /\ result \in 0 .. Capacity \cup 0 .. MaxConn \cup {NoResult, Err}
  /\ orphans \subseteq SocketEvent
  /\ StreamTypeOK /\ ListenerTypeOK
  /\ IF kind = "Stream" THEN addr = NoBox ELSE buf.box = NoBox
  /\ kind = "UnixListener" => addr = NoBox

Init == HandleInit /\ StreamInit /\ ListenerInit /\ kind = "Stream"

(* Of the events of earlier handles nothing matters any more but the memory. *)
NewHandle(k) ==
  /\ active = "Gone"
  /\ Begin
  /\ kind' = k
  /\ orphans' = {Kept(Event("Earlier", o.box, 0, 0, NoSource), o.keeps) :
                  o \in {p \in orphans : p.box # NoBox}}
  /\ UNCHANGED <<event, result>>
  /\ StreamFresh /\ ListenerFresh

(* The Connect future of TcpStream, when its Submission has succeeded.      *)
TcpConnect == NewHandle("Stream")

(* The Connect future of UnixStream, or one stream of pair.                 *)
UnixConnect == NewHandle("Stream")

TcpBind == NewHandle("TcpListener")
UnixBind == NewHandle("UnixListener")

Free == Box \ ({buf.box, addr} \cup {o.keeps : o \in orphans})

-----------------------------------------------------------------------------
(* UnixStream::poll_read and the rest call those of the TcpStream inside.   *)
StreamUses == kind = "Stream" /\ StreamUser(Free) /\ UNCHANGED <<listenerVars, kind>>

TcpListenerUses ==
  kind = "TcpListener" /\ ListenerUser(Free) /\ UNCHANGED <<streamVars, kind>>

(* UnixListener: poll_accept is the one without an address, cancel keeps    *)
(* nothing, which is what there is.                                         *)
UnixAccept == AcceptNoAddrPending \/ AcceptNoAddrReady
UnixClose == ListenerClose
UnixDrop == ListenerDrop

UnixListenerUses ==
  /\ kind = "UnixListener"
  /\ UnixAccept \/ UnixClose \/ UnixDrop
  /\ UNCHANGED <<streamVars, kind>>

-----------------------------------------------------------------------------
EarlierOrphan(e) ==
  /\ orphans' = orphans \ {e}
  /\ UNCHANGED <<event, result, active, fd, streamVars, listenerVars>>

Kernel ==
  /\ IF kind = "Stream"
       THEN /\ \/ StreamComplete
               \/ Peer
               \/ \E e \in orphans : e.op # "Earlier" /\ StreamOrphan(e)
               \/ \E e \in orphans : e.op = "Earlier" /\ EarlierOrphan(e)
            /\ UNCHANGED listenerVars
       ELSE /\ \/ ListenerComplete
               \/ \E e \in orphans : e.op # "Earlier" /\ ListenerOrphan(e)
               \/ \E e \in orphans : e.op = "Earlier" /\ EarlierOrphan(e)
            /\ UNCHANGED streamVars
  /\ UNCHANGED kind

Next ==
  \/ TcpConnect \/ UnixConnect \/ TcpBind \/ UnixBind
  \/ StreamUses \/ TcpListenerUses \/ UnixListenerUses
  \/ Kernel

Spec == Init /\ [][Next]_vars

-----------------------------------------------------------------------------
(* The kernel works on memory that is alive and that nothing else uses: the *)
(* handle's buffer or address until the event is done or cancelled, then    *)
(* what the callback keeps.  And the bytes it is to write stay as they      *)
(* were, unless the user calls consume with bytes of the write in the       *)
(* buffer: then the next poll_write may copy its slice over what the kernel *)
(* is reading.                                                              *)
LentMemoryAlive ==
  /\ LentAlive(IF kind = "Stream" THEN buf.box ELSE addr)
  /\ ~consumed /\ event # NoEvent /\ event.op = "Write" /\ event.len > 0 =>
       buf.src = event.src /\ Unread(buf) = event.len
=============================================================================
