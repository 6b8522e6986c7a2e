---------------------------- MODULE BoundedQueue ----------------------------
(***************************************************************************)
(* What a channel of src/src/runtime/handoff.hpp promises to the two       *)
(* threads it joins: a first-in first-out queue that never holds more than *)
(* Capacity messages.  A push that the ring refuses and a pop that finds   *)
(* nothing are stutters here: "a false push leaves the caller's message    *)
(* untouched".  Handoff.tla uses queues of this form; Spsc.tla is shown to *)
(* implement this module.                                                  *)
(***************************************************************************)
EXTENDS Naturals, Sequences

CONSTANTS Capacity, \* the number of messages the channel can hold
          Values    \* the messages

VARIABLE queue

Init == queue = << >>

Push(v) ==
  /\ Len(queue) < Capacity
  /\ queue' = Append(queue, v)

Pop ==
  /\ queue # << >>
  /\ queue' = Tail(queue)

(* The destructor gives up whatever is still queued. *)
Close == queue' = << >>

Next == (\E v \in Values : Push(v)) \/ Pop \/ Close

Spec == Init /\ [][Next]_queue
=============================================================================
