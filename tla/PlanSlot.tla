------------------------------ MODULE PlanSlot ------------------------------
(***************************************************************************)
(* What the plan half of src/src/runtime/handoff.hpp promises: a slot that *)
(* holds the last plan published and not yet taken, at most one plan being *)
(* executed, and the epoch of the last one retired.  A plan is known by    *)
(* its epoch.  Handoff.tla uses the slot in this form; PlanPool.tla is     *)
(* shown to implement it.                                                  *)
(***************************************************************************)
EXTENDS Naturals

CONSTANT Gated  \* the scheduler keeps at most one epoch outstanding

VARIABLES last, slot, running, done

Init == last = 0 /\ slot = 0 /\ running = 0 /\ done = 0

(* A plan that is still in the slot is dropped in favour of the new one.   *)
Publish ==
  /\ Gated => done >= last
  /\ last' = last + 1 /\ slot' = last + 1
  /\ UNCHANGED <<running, done>>

Take ==
  /\ slot # 0 /\ running = 0
  /\ running' = slot /\ slot' = 0
  /\ UNCHANGED <<last, done>>

Retire ==
  /\ running # 0
  /\ done' = running /\ running' = 0
  /\ UNCHANGED <<last, slot>>

Next == Publish \/ Take \/ Retire

Spec == Init /\ [][Next]_<<last, slot, running, done>>
=============================================================================
