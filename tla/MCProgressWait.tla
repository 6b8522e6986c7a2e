--------------------------- MODULE MCProgressWait ---------------------------
(* The environment publishes the completed epoch and a queue, the main     *)
(* thread the scheduler's stop flag.                                       *)
EXTENDS ProgressWait

CONSTANTS environment, main

MCNotifiers == {environment, main}
MCProducer == <<main, environment, environment>>
=============================================================================
