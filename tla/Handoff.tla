------------------------------- MODULE Handoff -------------------------------
(***************************************************************************)
(* What the scheduler thread and the environment thread share:             *)
(* src/src/runtime/handoff.hpp.  Seven bounded channels, each with one     *)
(* producer and one consumer, one slot in which a plan is published, the   *)
(* epoch of the last plan the environment retired, and the stop flag.      *)
(* A channel is a queue that refuses a message when it is full: Spsc.tla   *)
(* shows that the ring behind it is one.  The buffers the plans live in    *)
(* are the subject of PlanPool.tla and the progress notification that of   *)
(* ProgressWait.tla; neither changes what is exchanged here.               *)
(***************************************************************************)
EXTENDS Naturals, Sequences, FiniteSets

CONSTANTS
  QueueCapacity,  \* queue_capacity
  Requests,       \* the requests that may be submitted
  MaxOutput,      \* Admission::max_output_tokens of each request
  Faults          \* the operations that may fail, on either side

ASSUME HandoffAssumption ==
  /\ QueueCapacity \in Nat /\ QueueCapacity >= 2
  /\ MaxOutput \in [Requests -> Nat]

(* What a plan is made of: WorkItem in protocol.hpp. *)
WorkItems ==
  [id : Requests, kind : {"Prefill", "Decode"}, begin : Nat, end : Nat]

VARIABLES
  admissions, releases,                             \* scheduler -> environment
  admission_results, completions, outputs,          \* environment -> scheduler
  release_acks, fatals,
  published,        \* published_: the plan in the slot, or NoPlan
  completed_epoch,  \* completed_epoch_
  stop_requested    \* stop_requested_

handoffVars == <<admissions, releases, admission_results, completions, outputs,
                 release_acks, fatals, published, completed_epoch,
                 stop_requested>>

NoPlan == [epoch |-> 0, work |-> << >>]

(* try_push refuses a message, leaving it with its producer, when the      *)
(* queue is full.                                                          *)
HasRoom_OffByOne(queue) == Len(queue) <= QueueCapacity
HasRoom(queue) == Len(queue) < QueueCapacity

HandoffInit ==
  /\ admissions = << >> /\ releases = << >>
  /\ admission_results = << >> /\ completions = << >> /\ outputs = << >>
  /\ release_acks = << >> /\ fatals = << >>
  /\ published = NoPlan /\ completed_epoch = 0
  /\ stop_requested = FALSE

(* No channel ever holds more messages than its ring has slots.            *)
Bounded ==
  /\ Len(admissions) <= QueueCapacity
  /\ Len(releases) <= QueueCapacity
  /\ Len(admission_results) <= QueueCapacity
  /\ Len(completions) <= QueueCapacity
  /\ Len(outputs) <= QueueCapacity
  /\ Len(release_acks) <= QueueCapacity
  /\ Len(fatals) <= QueueCapacity
=============================================================================
