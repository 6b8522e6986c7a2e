-------------------------------- MODULE Spsc --------------------------------
(***************************************************************************)
(* The lock-free ring of src/src/runtime/spsc.hpp, one step per access to  *)
(* memory that both threads can see.  One thread calls try_emplace, one    *)
(* thread calls try_pop.                                                   *)
(*                                                                         *)
(* The two indices are size_t counters that only ever grow and wrap at     *)
(* Modulus (2^64 in a build, small here so that the wrap is reached).  An  *)
(* acquire load of the other side's index may return any value stored      *)
(* since the one this thread saw last, as the C++ memory model lets it; a  *)
(* load of a thread's own index returns its last store.  storage says what *)
(* object a slot holds; Raw is a slot with no live object in it.           *)
(***************************************************************************)
EXTENDS Integers, Sequences

CONSTANTS Capacity, \* capacity_
          Modulus,  \* 2^w, the number of values of size_t
          Values,   \* the values of T
          Raw       \* uninitialized storage

(* validate_capacity admits powers of two only, and size_t wraps at a      *)
(* larger power of two; what the algorithm needs of that is divisibility.  *)
ASSUME SpscAssumption ==
  /\ Capacity \in Nat /\ Capacity >= 2
  /\ Modulus \in Nat /\ Modulus > Capacity
  /\ \E k \in 1 .. Modulus : Modulus = Capacity * k
  /\ Raw \notin Values

VARIABLES
  storage,      \* storage_
  read_index,   \* read_index_, stored by the consumer
  write_index,  \* write_index_, stored by the producer
  push_pc, read_seen, arg,   \* try_emplace: its step, its `read`, its argument
  pop_pc, write_seen, out,   \* try_pop: its step, its `write`, its out
  alive                      \* FALSE once ~SPSCQueue has run

producerVars == <<push_pc, read_seen, arg>>
consumerVars == <<pop_pc, write_seen, out>>
vars == <<storage, read_index, write_index, push_pc, read_seen, arg,
          pop_pc, write_seen, out, alive>>

Indices == 0 .. Modulus - 1
Slots   == 0 .. Capacity - 1

(* size_t arithmetic: index + 1, to - from, and index & mask_.             *)
Inc(i) == IF i = Modulus - 1 THEN 0 ELSE i + 1
Dist(from, to) == IF from <= to THEN to - from ELSE to - from + Modulus
Slot(i) == i % Capacity

(* The index n steps after i, for n up to Modulus.                         *)
Ahead(i, n) == IF i + n < Modulus THEN i + n ELSE i + n - Modulus

(* What an acquire load may return: the last value this thread saw, the    *)
(* latest one, or any between.                                             *)
Visible(seen, latest) == {i \in Indices : Dist(seen, i) <= Dist(seen, latest)}

Init ==
  /\ storage = [s \in Slots |-> Raw]
  /\ read_index = 0 /\ write_index = 0
  /\ push_pc = "idle" /\ read_seen = 0 /\ arg = Raw
  /\ pop_pc = "idle" /\ write_seen = 0 /\ out = Raw
  /\ alive = TRUE
-----------------------------------------------------------------------------
(* try_emplace *)
LoadReadIndex(v) ==
  /\ alive /\ push_pc = "idle"
  /\ arg' = v
  /\ read_seen' \in Visible(read_seen, read_index)
  /\ push_pc' = "loaded"
  /\ UNCHANGED <<storage, read_index, write_index, consumerVars, alive>>

Full_OneLate == Dist(read_seen, write_index) > Capacity
Full == Dist(read_seen, write_index) >= Capacity

PushFull ==
  /\ push_pc = "loaded" /\ Full
  /\ push_pc' = "idle" /\ arg' = Raw
  /\ UNCHANGED <<storage, read_index, write_index, read_seen, consumerVars,
                 alive>>

Construct ==
  /\ push_pc = "loaded" /\ ~Full
  /\ storage' = [storage EXCEPT ![Slot(write_index)] = arg]
  /\ push_pc' = "built"
  /\ UNCHANGED <<read_index, write_index, read_seen, arg, consumerVars, alive>>

PublishWrite ==
  /\ push_pc = "built"
  /\ write_index' = Inc(write_index)
  /\ push_pc' = "idle" /\ arg' = Raw
  /\ UNCHANGED <<storage, read_index, read_seen, consumerVars, alive>>
-----------------------------------------------------------------------------
(* try_pop *)
LoadWriteIndex ==
  /\ alive /\ pop_pc = "idle"
  /\ write_seen' \in Visible(write_seen, write_index)
  /\ pop_pc' = "loaded"
  /\ UNCHANGED <<storage, read_index, write_index, producerVars, out, alive>>

PopEmpty ==
  /\ pop_pc = "loaded" /\ read_index = write_seen
  /\ pop_pc' = "idle"
  /\ UNCHANGED <<storage, read_index, write_index, producerVars, write_seen,
                 out, alive>>

(* The move out of the slot and the destruction of the object in it. *)
MoveOut ==
  /\ pop_pc = "loaded" /\ read_index # write_seen
  /\ out' = storage[Slot(read_index)]
  /\ storage' = [storage EXCEPT ![Slot(read_index)] = Raw]
  /\ pop_pc' = "moved"
  /\ UNCHANGED <<read_index, write_index, producerVars, write_seen, alive>>

PublishRead_Forgets ==
  /\ pop_pc = "moved"
  /\ pop_pc' = "idle" /\ out' = Raw
  /\ UNCHANGED <<storage, read_index, write_index, producerVars, write_seen,
                 alive>>

PublishRead ==
  /\ pop_pc = "moved"
  /\ read_index' = Inc(read_index)
  /\ pop_pc' = "idle" /\ out' = Raw
  /\ UNCHANGED <<storage, write_index, producerVars, write_seen, alive>>
-----------------------------------------------------------------------------
(* ~SPSCQueue, once both threads have left: its loop compares the indices  *)
(* with <, not by their distance.                                          *)
DestroyedSlots_SkipsFirst ==
  {Slot(i) : i \in {j \in Indices : read_index < j /\ j < write_index}}
DestroyedSlots == {Slot(i) : i \in {j \in Indices : read_index <= j /\ j < write_index}}

Destroy ==
  /\ alive /\ push_pc = "idle" /\ pop_pc = "idle"
  /\ storage' = [s \in Slots |-> IF s \in DestroyedSlots THEN Raw ELSE storage[s]]
  /\ alive' = FALSE
  /\ UNCHANGED <<read_index, write_index, producerVars, consumerVars>>
-----------------------------------------------------------------------------
Producer == (\E v \in Values : LoadReadIndex(v)) \/ PushFull \/ Construct \/ PublishWrite
Consumer == LoadWriteIndex \/ PopEmpty \/ MoveOut \/ PublishRead

Next == Producer \/ Consumer \/ Destroy

Spec == Init /\ [][Next]_vars
-----------------------------------------------------------------------------
TypeOK ==
  /\ storage \in [Slots -> Values \cup {Raw}]
  /\ read_index \in Indices /\ write_index \in Indices
  /\ push_pc \in {"idle", "loaded", "built"}
  /\ read_seen \in Indices
  /\ arg \in Values \cup {Raw}
  /\ pop_pc \in {"idle", "loaded", "moved"}
  /\ write_seen \in Indices
  /\ out \in Values \cup {Raw}
  /\ alive \in BOOLEAN

(* No push constructs an object over one the consumer has not destroyed,   *)
(* whatever stale read index the producer decided on.                      *)
NoOverwrite == push_pc = "loaded" /\ ~Full => storage[Slot(write_index)] = Raw

(* No pop moves out of a slot that holds no object, whatever stale write   *)
(* index the consumer decided on.                                          *)
NoReadOfRaw ==
  pop_pc = "loaded" /\ read_index # write_seen => storage[Slot(read_index)] \in Values

(* The producer and the consumer are never inside the same slot.           *)
NoSlotRace ==
  ~ /\ push_pc = "built" /\ pop_pc = "moved"
    /\ Slot(write_index) = Slot(read_index)

(* The destructor leaves no object behind as long as the write index has   *)
(* not wrapped past the read index; after a wrap its loop runs zero times. *)
DestroyedAll ==
  ~alive /\ read_index <= write_index => \A s \in Slots : storage[s] = Raw

(* The messages between the indices, in order; a message that has been     *)
(* moved out is still queued until the read index is released.             *)
Message(k) ==
  IF k = 1 /\ pop_pc = "moved" THEN out
  ELSE storage[Slot(Ahead(read_index, k - 1))]

Contents ==
  IF alive THEN [k \in 1 .. Dist(read_index, write_index) |-> Message(k)]
  ELSE << >>

Queue == INSTANCE BoundedQueue WITH queue <- Contents

(* Every push and pop of the ring is a push at the tail or a pop at the    *)
(* head of a bounded queue: nothing lost, duplicated or reordered, and     *)
(* never more than Capacity messages, across the wrap of both indices.     *)
ImplementsQueue == Queue!Spec

Fairness ==
  /\ WF_vars(PopEmpty) /\ WF_vars(MoveOut) /\ WF_vars(PublishRead)
  /\ WF_vars(PublishWrite) /\ WF_vars(Construct) /\ WF_vars(PushFull)
  /\ SF_vars(LoadWriteIndex /\ write_seen' = write_index)

FairSpec == Spec /\ Fairness

(* A published message is eventually taken by a consumer that keeps        *)
(* calling try_pop (the pops of the loop free the ring until it is empty). *)
EventuallyTaken ==
  \A i \in Indices :
    (Dist(read_index, i) < Dist(read_index, write_index)) ~>
      (~alive \/ Dist(read_index, i) >= Dist(read_index, write_index))
=============================================================================
