------------------------------ MODULE Listener ------------------------------
(***************************************************************************)
(* src/net/listener.rs: TcpListener, which accepts with the address of the *)
(* peer, in memory of its own that the kernel writes, or without.  Both    *)
(* count as the same operation.                                            *)
(***************************************************************************)
EXTENDS Handle

CONSTANTS
  MaxConn   \* bound: connections are numbered up to here, and again from 1

ASSUME ListenerAssumption == MaxConn \in Nat \ {0}

VARIABLES
  addr,     \* the box for the address, or NoBox
  memory,   \* memory[b]: the connection whose address is in b, or 0
  conn,     \* the last connection the kernel accepted
  accepted, \* the last accept with an address: the connection, and the one
            \* the address is of
  mixed     \* an accept begun without an address was polled for one

listenerVars == <<addr, memory, conn, accepted, mixed>>

ListenerTypeOK ==
  /\ addr \in Box \cup {NoBox}
  /\ memory \in [Box -> 0 .. MaxConn]
  /\ conn \in 0 .. MaxConn
  /\ accepted \in [conn : 0 .. MaxConn, of : 0 .. MaxConn]
  /\ mixed \in BOOLEAN

NoAccept == [conn |-> 0, of |-> 0]

ListenerInit ==
  /\ addr = NoBox
  /\ memory = [b \in Box |-> 0]
  /\ conn = 0
  /\ accepted = NoAccept
  /\ mixed = FALSE

(* bind_on_driver makes a listener, when every system call it makes has     *)
(* succeeded.                                                               *)
ListenerFresh ==
  /\ addr' = NoBox
  /\ memory' = [b \in Box |-> 0]
  /\ conn' = 0
  /\ accepted' = NoAccept
  /\ mixed' = FALSE

-----------------------------------------------------------------------------
(* Faulty: the address is not given to the cancellation.                    *)
GuardAddrKept(op) == addr

(* guard_op, for the address.                                               *)
GuardAddr(op) == IF Switches(op) THEN NoBox ELSE addr

(* split_with_addr: the memory is allocated uninitialised if there is none. *)
WithAddr(free) == IF GuardAddr("Accept") = NoBox THEN free ELSE {GuardAddr("Accept")}

Uninit(b) == IF b = GuardAddr("Accept") THEN memory ELSE [memory EXCEPT ![b] = 0]

Mixes == event # NoEvent /\ ~Switches("Accept") /\ event.box = NoBox

(* poll_accept                                                              *)
AcceptPending(free) ==
  \E b \in WithAddr(free) :
    /\ GuardOp("Accept", addr)
    /\ PollPending("Accept", Event("Accept", b, 0, 0, NoSource))
    /\ addr' = b
    /\ memory' = Uninit(b)
    /\ mixed' = (mixed \/ Mixes)
    /\ accepted' = NoAccept
    /\ UNCHANGED <<fd, conn>>

AcceptReady(free) ==
  \E b \in WithAddr(free) :
    /\ GuardOp("Accept", addr)
    /\ PollReady("Accept")
    /\ memory' = Uninit(b)
    /\ mixed' = (mixed \/ Mixes)
    /\ IF result = Err
         THEN addr' = b /\ accepted' = NoAccept
         ELSE addr' = NoBox /\ accepted' = [conn |-> result, of |-> Uninit(b)[b]]
    /\ UNCHANGED <<fd, conn>>

(* poll_accept_no_addr                                                      *)
AcceptNoAddrPending ==
  /\ GuardOp("Accept", addr)
  /\ PollPending("Accept", Event("Accept", NoBox, 0, 0, NoSource))
  /\ addr' = GuardAddr("Accept")
  /\ accepted' = NoAccept
  /\ UNCHANGED <<fd, memory, conn, mixed>>

AcceptNoAddrReady ==
  /\ GuardOp("Accept", addr)
  /\ PollReady("Accept")
  /\ accepted' = NoAccept
  /\ UNCHANGED <<fd, addr, memory, conn, mixed>>

(* The Close future.                                                        *)
ListenerClose ==
  /\ \/ ClosePending(addr) /\ addr' = GuardAddr("Close")
     \/ CloseReady /\ UNCHANGED addr
  /\ accepted' = NoAccept
  /\ UNCHANGED <<fd, memory, conn, mixed>>

ListenerDrop == Drop(addr) /\ ListenerFresh

-----------------------------------------------------------------------------
(* The kernel accepts a connection and writes the address where it is to.   *)
Connection == (conn % MaxConn) + 1

Accepts(e) ==
  /\ conn' = Connection
  /\ memory' = [b \in Box |-> IF b = e.box THEN Connection ELSE memory[b]]

ListenerComplete ==
  /\ event # NoEvent /\ result = NoResult
  /\ \/ event.op = "Accept" /\ Accepts(event) /\ Finish(Connection) /\ UNCHANGED fd
     \/ event.op = "Accept" /\ Finish(Err) /\ UNCHANGED <<conn, memory, fd>>
     \/ /\ event.op = "Close"
        /\ \E c \in CloseOutcome : Finish(c.res) /\ fd' = c.fd
        /\ UNCHANGED <<conn, memory>>
  /\ UNCHANGED <<active, orphans, addr, accepted, mixed>>

(* Of an accept that was cancelled, the connection is nobody's.             *)
ListenerOrphan(e) ==
  /\ orphans' = orphans \ {e}
  /\ \/ e.op = "Accept" /\ Accepts(e) /\ UNCHANGED fd
     \/ UNCHANGED <<conn, memory, fd>>
     \/ e.op = "Close" /\ fd' = "closed" /\ UNCHANGED <<conn, memory>>
  /\ UNCHANGED <<event, result, active, addr, accepted, mixed>>

-----------------------------------------------------------------------------
ListenerUser(free) ==
  \/ AcceptPending(free) \/ AcceptReady(free)
  \/ AcceptNoAddrPending \/ AcceptNoAddrReady
  \/ ListenerClose \/ ListenerDrop

(* The address returned with a connection is the one the kernel wrote for   *)
(* that connection: unless a pending accept_no_addr was polled on as an     *)
(* accept, which reads memory nobody has written.                           *)
AddressIsOfTheConnection == ~mixed => accepted.of = accepted.conn
=============================================================================
