------------------------------ MODULE MCReplay ------------------------------
(* Small instances of the benchmark.                                       *)
EXTENDS Replay

CONSTANTS c1, c2, none

Turn(conversation, turn, offset) ==
  [conversation |-> conversation, turn |-> turn, offset |-> offset]

(* Three turns of one conversation, a record without one in between, and   *)
(* one record more than is selected.  The middle of the trace is half a    *)
(* tick off the clock.                                                     *)
MCTrace == <<Turn(c1, 0, 0), Turn(c1, 1, 1), Turn(none, 0, 1),
             Turn(c1, 2, 2), Turn(c2, 0, 2)>>
=============================================================================
