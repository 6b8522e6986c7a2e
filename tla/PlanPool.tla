------------------------------ MODULE PlanPool ------------------------------
(***************************************************************************)
(* The plan buffers of src/src/runtime/handoff.hpp: a Plan is built in a   *)
(* spare buffer, published by an atomic exchange, taken by the environment *)
(* with another, and comes back through the queue retired_.  One step per  *)
(* access that the other thread can see.  A buffer's work is abstracted to *)
(* the epoch it was built for, so that a buffer written while it is being  *)
(* executed shows.                                                         *)
(*                                                                         *)
(* The exchange of commit() releases and that of consume_plan() acquires,  *)
(* so the environment sees every pop made before the commit it consumes    *)
(* (:93, :121), but nothing shows the scheduler a push, unless it has      *)
(* loaded the completed epoch (:155-158): the indices of retired_ may be   *)
(* stale, and the pop fail beside a queued plan.                           *)
(*                                                                         *)
(* The scheduler of scheduler.cpp commits only once the last epoch has     *)
(* been retired (Gated); the class itself lets a caller commit at any      *)
(* time, superseding a plan that has not been consumed.                    *)
(***************************************************************************)
EXTENDS Naturals, FiniteSets, SequencesExt

CONSTANTS
  PoolSize,       \* pool_size_
  QueueCapacity,  \* the capacity of retired_
  Gated,          \* the caller waits for completed_epoch
  MaxEpoch        \* bound on the number of commits

ASSUME PlanPoolAssumption ==
  /\ PoolSize \in Nat /\ PoolSize >= 2
  /\ QueueCapacity \in Nat /\ QueueCapacity >= PoolSize
  /\ Gated \in BOOLEAN
  /\ MaxEpoch \in Nat

VARIABLES
  allocated,   \* the size of pool_: its plans are 1 .. allocated
  spare,       \* spare_
  known,       \* the queued plans whose push it is sure to see
  popped,      \* its pops since its last exchange
  reading,     \* the plan run_once refers to, until it has read its work
  unseen,      \* the pops the environment may not see yet
  published,   \* published_, or Null
  retired,     \* retired_
  epoch,       \* epoch_
  stamp,       \* Plan::epoch of every plan
  content,     \* the epoch whose work a plan holds, 0 for none
  commit_pc,   \* the scheduler: "idle", "built", "exchanged" or "committed"
  retire_pc,   \* the environment: "idle", "executing", "retiring", "pushed"
  held,        \* the plan the environment executes, or Null
  executing,   \* what it started to execute
  retiring,    \* retire_plan's local epoch
  completed    \* completed_epoch_

schedulerVars == <<allocated, spare, epoch, stamp, content, known, popped, reading,
                   commit_pc>>
environmentVars == <<retire_pc, held, executing, retiring, completed>>
vars == <<schedulerVars, environmentVars, unseen, published, retired>>

Null == 0
Plans == 1 .. allocated

(* The constructor: one spare plan, the others in the retired queue.       *)
Init ==
  /\ allocated = PoolSize
  /\ spare = 1
  /\ published = Null
  /\ retired = [i \in 1 .. PoolSize - 1 |-> i + 1]
  /\ epoch = 0
  /\ stamp = [p \in Plans |-> 0]
  /\ content = [p \in Plans |-> 0]
  /\ known = PoolSize - 1 /\ popped = 0 /\ unseen = 0
  /\ reading = Null
  /\ commit_pc = "idle"
  /\ retire_pc = "idle"
  /\ held = Null /\ executing = 0 /\ retiring = 0
  /\ completed = 0
-----------------------------------------------------------------------------
(* The scheduler.                                                          *)

MayCommit == Gated => completed >= epoch

(* Loading an epoch that is completed shows the pushes before its store.   *)
Known == IF Gated THEN Len(retired) ELSE known

(* begin(), the building of the plan, and the stamp commit() gives it.     *)
Build ==
  /\ commit_pc = "idle" /\ epoch < MaxEpoch /\ MayCommit
  /\ epoch' = epoch + 1
  /\ content' = [content EXCEPT ![spare] = epoch + 1]
  /\ stamp' = [stamp EXCEPT ![spare] = epoch + 1]
  /\ reading' = spare
  /\ known' = Known
  /\ commit_pc' = "built"
  /\ UNCHANGED <<allocated, spare, popped, environmentVars, unseen, published, retired>>

(* begin() alone: a plan left empty is not published.                      *)
BuildNothing ==
  /\ commit_pc = "idle" /\ MayCommit
  /\ content' = [content EXCEPT ![spare] = 0]
  /\ known' = Known
  /\ UNCHANGED <<allocated, spare, epoch, stamp, popped, reading, commit_pc,
                 environmentVars, unseen, published, retired>>

(* The exchange: a plan that was still published becomes the spare one.    *)
Publish ==
  /\ commit_pc = "built"
  /\ published' = spare
  /\ IF published # Null
     THEN spare' = published /\ commit_pc' = "committed"
     ELSE spare' = spare /\ commit_pc' = "exchanged"
  /\ popped' = 0
  /\ UNCHANGED <<allocated, epoch, stamp, content, known, reading, environmentVars,
                 unseen, retired>>

(* A new spare: a retired plan, or an allocated one when none is seen.     *)
Reuse_LeavesQueued ==
  /\ commit_pc = "exchanged" /\ retired # << >>
  /\ spare' = Head(retired)
  /\ commit_pc' = "committed"
  /\ UNCHANGED <<allocated, epoch, stamp, content, known, popped, reading,
                 environmentVars, unseen, published, retired>>

Reuse ==
  /\ commit_pc = "exchanged"
  /\ \E seen \in known .. Len(retired) : seen > 0 /\ known' = seen - 1
  /\ spare' = Head(retired)
  /\ retired' = Tail(retired)
  /\ popped' = 1 /\ unseen' = unseen + 1
  /\ commit_pc' = "committed"
  /\ UNCHANGED <<allocated, epoch, stamp, content, reading, environmentVars, published>>

Allocate ==
  /\ commit_pc = "exchanged" /\ known = 0
  /\ allocated' = allocated + 1
  /\ spare' = allocated + 1
  /\ stamp' = Append(stamp, 0)
  /\ content' = Append(content, 0)
  /\ commit_pc' = "committed"
  /\ UNCHANGED <<epoch, known, popped, reading, environmentVars, unseen, published,
                 retired>>

(* run_once goes on reading the work of the plan it has published.         *)
ReadCommitted ==
  /\ commit_pc = "committed"
  /\ reading' = Null
  /\ commit_pc' = "idle"
  /\ UNCHANGED <<allocated, spare, epoch, stamp, content, known, popped,
                 environmentVars, unseen, published, retired>>
-----------------------------------------------------------------------------
(* The environment.                                                        *)

(* consume_plan(): acquires what the scheduler did before the exchange.    *)
Consume_LeavesPublished ==
  /\ retire_pc = "idle" /\ published # Null
  /\ held' = published
  /\ executing' = content[published]
  /\ unseen' = popped
  /\ retire_pc' = "executing"
  /\ UNCHANGED <<schedulerVars, retiring, completed, published, retired>>

Consume ==
  /\ retire_pc = "idle" /\ published # Null
  /\ held' = published
  /\ executing' = content[published]
  /\ published' = Null
  /\ unseen' = popped
  /\ retire_pc' = "executing"
  /\ UNCHANGED <<schedulerVars, retiring, completed, retired>>

(* retire_plan(): the epoch is read, the plan given back, the epoch stored.*)
BeginRetire ==
  /\ retire_pc = "executing"
  /\ retiring' = stamp[held]
  /\ retire_pc' = "retiring"
  /\ UNCHANGED <<schedulerVars, held, executing, completed, unseen, published, retired>>

GiveBack_Forgets ==
  /\ retire_pc = "retiring"
  /\ held' = Null
  /\ retire_pc' = "pushed"
  /\ UNCHANGED <<schedulerVars, executing, retiring, completed, unseen, published,
                 retired>>

GiveBack_Clears ==
  /\ retire_pc = "retiring"
  /\ retired' = IF Len(retired) < QueueCapacity THEN Append(retired, held)
                ELSE retired
  /\ content' = [content EXCEPT ![held] = 0]
  /\ held' = Null
  /\ retire_pc' = "pushed"
  /\ UNCHANGED <<allocated, spare, epoch, stamp, known, popped, reading, commit_pc,
                 executing, retiring, completed, unseen, published>>

(* The push, by a read index that may lag behind the pops not seen yet;    *)
(* its result is discarded.                                                *)
GiveBack ==
  /\ retire_pc = "retiring"
  /\ \E lag \in 0 .. unseen :
       /\ unseen' = lag
       /\ retired' = IF Len(retired) + lag < QueueCapacity
                     THEN Append(retired, held) ELSE retired
  /\ held' = Null
  /\ retire_pc' = "pushed"
  /\ UNCHANGED <<schedulerVars, executing, retiring, completed, published>>

StoreEpoch ==
  /\ retire_pc = "pushed"
  /\ completed' = retiring
  /\ executing' = 0
  /\ retire_pc' = "idle"
  /\ UNCHANGED <<schedulerVars, held, retiring, unseen, published, retired>>
-----------------------------------------------------------------------------
Scheduler == Build \/ BuildNothing \/ Publish \/ Reuse \/ Allocate \/ ReadCommitted
Environment == Consume \/ BeginRetire \/ GiveBack \/ StoreEpoch

Next == Scheduler \/ Environment

Spec == Init /\ [][Next]_vars
-----------------------------------------------------------------------------
TypeOK ==
  /\ allocated \in Nat
  /\ spare \in Plans
  /\ published \in Plans \cup {Null}
  /\ retired \in Seq(Plans)
  /\ epoch \in Nat
  /\ stamp \in [Plans -> Nat]
  /\ content \in [Plans -> Nat]
  /\ known \in Nat /\ known <= Len(retired)
  /\ popped \in {0, 1} /\ unseen \in Nat
  /\ reading \in Plans \cup {Null}
  /\ commit_pc \in {"idle", "built", "exchanged", "committed"}
  /\ retire_pc \in {"idle", "executing", "retiring", "pushed"}
  /\ held \in Plans \cup {Null}
  /\ executing \in Nat
  /\ retiring \in Nat
  /\ completed \in Nat

(* Right after the exchange spare_ still names the plan just published;    *)
(* at any other moment it is the scheduler's own.                          *)
OwnSpare == IF commit_pc = "exchanged" THEN {} ELSE {spare}
Published == {published} \ {Null}
InUse == {held} \ {Null}

(* No plan is ever in two hands: not the scheduler's spare, published,     *)
(* executed and queued for reuse at once, nor queued twice.                *)
PlansExclusive ==
  /\ IsInjective(retired)
  /\ OwnSpare \cap (Published \cup InUse \cup ToSet(retired)) = {}
  /\ Published \cap (InUse \cup ToSet(retired)) = {}
  /\ InUse \cap ToSet(retired) = {}

(* No plan is lost: retire_plan's push, whose result is discarded, never   *)
(* finds the queue full as long as it can hold the whole pool.             *)
NoPlanLost ==
  allocated <= QueueCapacity =>
    Plans = OwnSpare \cup Published \cup InUse \cup ToSet(retired)

(* The work of a plan does not change while it is executed, nor while      *)
(* run_once still reads what it has published, and the epoch stored at the *)
(* retirement of a plan is the one that was executed.                      *)
ExecutedIsStable ==
  /\ held # Null => content[held] = executing /\ stamp[held] = executing
  /\ reading # Null => content[reading] = epoch
  /\ retire_pc \in {"retiring", "pushed"} => retiring = executing

(* A caller that waits for the completed epoch never makes the pool grow:  *)
(* the plan is back in the queue, and seen there, before its epoch is.     *)
PoolBounded == Gated => allocated = PoolSize

(* The epoch of the last plan published.                                   *)
LastPublished == IF commit_pc = "built" THEN epoch - 1 ELSE epoch

Slot == INSTANCE PlanSlot WITH
  last <- LastPublished,
  slot <- IF published = Null THEN 0 ELSE content[published],
  running <- executing,
  done <- completed

(* The pool implements the slot: a plan may be dropped by a later one, but *)
(* each is executed at most once, as it was published (test_handoff.cpp:1-8).*)
ImplementsSlot == Slot!Spec
=============================================================================
