------------------------------- MODULE IoRing -------------------------------
(***************************************************************************)
(* What a Ring (src/ring/mod.rs) promises to the IO object built on it:    *)
(* one event at a time, a result once and only for that event, no new      *)
(* event until it was returned or cancelled.  Module Ring is shown to      *)
(* implement it; File, Stream, Listener and Stdio are built on it.         *)
(***************************************************************************)
CONSTANTS
  NoEvent,  \* the ring is inert, or cancelled
  NoResult  \* the event has not completed

VARIABLES
  event,    \* what the ring has prepared and neither returned nor cancelled
  result    \* its result, once the completion has it

RingInit == event = NoEvent /\ result = NoResult

Prepare(e) == event = NoEvent /\ event' = e /\ result' = NoResult

(* The CQE is processed; the owner has yet to poll.                         *)
Finish(x) ==
  event # NoEvent /\ result = NoResult /\ result' = x /\ UNCHANGED event

Return == result # NoResult /\ event' = NoEvent /\ result' = NoResult

Cancel == event # NoEvent /\ event' = NoEvent /\ result' = NoResult

(* One step of a ring, or a step in which it takes no part.                 *)
RingStep(Event, Result) ==
  [ \/ \E e \in Event : Prepare(e)
    \/ \E x \in Result : Finish(x)
    \/ Return \/ Cancel ]_<<event, result>>
=============================================================================
