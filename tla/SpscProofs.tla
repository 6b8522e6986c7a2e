----------------------------- MODULE SpscProofs -----------------------------
(***************************************************************************)
(* Proofs about the ring of Spsc.tla, for every capacity, every counter    *)
(* width and every set of messages: no slot is written over, read while    *)
(* raw, or used by both threads at once.                                   *)
(***************************************************************************)
EXTENDS Spsc, SequenceTheorems, TLAPS

(* The thread-local copies of the indices are old values of them: going    *)
(* round from read_seen one meets read_index, then write_seen, and         *)
(* write_index after at most Capacity steps.                               *)
IndexInv ==
  /\ Dist(read_seen, read_index) <= Dist(read_seen, write_index)
  /\ Dist(read_seen, write_index) <= Capacity
  /\ Dist(read_index, write_seen) <= Dist(read_index, write_index)

PcInv ==
  /\ push_pc # "idle" => arg \in Values
  /\ push_pc = "built" => Dist(read_seen, write_index) < Capacity
  /\ pop_pc = "moved" => read_index # write_seen
  /\ ~alive => push_pc = "idle" /\ pop_pc = "idle"

(* The indices whose slot holds an object: from read_index up to           *)
(* write_index, without one just moved out and with one just built.        *)
Live(i) ==
  \/ /\ Dist(read_index, i) < Dist(read_index, write_index)
     /\ ~(i = read_index /\ pop_pc = "moved")
  \/ i = write_index /\ push_pc = "built"

StorageInv ==
  alive =>
    /\ \A i \in Indices : Live(i) => storage[Slot(i)] \in Values
    /\ \A s \in Slots : storage[s] # Raw => \E i \in Indices : Live(i) /\ Slot(i) = s

OutInv == pop_pc = "moved" => out \in Values

IInv ==
  TypeOK /\ IndexInv /\ PcInv /\ StorageInv /\ OutInv /\ DestroyedAll
-----------------------------------------------------------------------------
(* A multiple of a positive number that lies strictly between it and its   *)
(* negation is zero.                                                       *)
LEMMA SmallMultiple ==
  ASSUME NEW c \in Nat, c > 0, NEW d \in Int, c * d < c, c * d > -c
  PROVE  d = 0
<1>1. CASE d >= 1
  <2>1. c * d >= c BY <1>1, SMT
  <2> QED BY <2>1, SMT
<1>2. CASE d <= -1
  <2>1. c * d <= -c BY <1>2, SMT
  <2> QED BY <2>1, SMT
<1> QED BY <1>1, <1>2, SMT

(* Every index is a multiple of the capacity plus its slot.                *)
LEMMA SlotIsRemainder ==
  ASSUME NEW i \in Indices
  PROVE  /\ Slot(i) \in Slots
         /\ \E q \in Int : i = Capacity * q + Slot(i)
<1>1. i \in Int /\ Capacity \in Nat /\ Capacity > 0
  BY SpscAssumption, SMT DEF Indices
<1>2. i % Capacity \in 0 .. Capacity - 1 BY <1>1, SMT
<1>3. i = Capacity * (i \div Capacity) + (i % Capacity) BY <1>1, SMT
<1>4. i \div Capacity \in Int BY <1>1, SMT
<1> QED BY <1>2, <1>3, <1>4 DEF Slot, Slots

(* Two indices less than Capacity steps apart use different slots, also    *)
(* across the wrap of the counters: Capacity divides Modulus.              *)
LEMMA SlotsDistinct ==
  ASSUME NEW i \in Indices, NEW j \in Indices,
         Slot(i) = Slot(j), Dist(i, j) < Capacity
  PROVE  i = j
<1>1. PICK p \in Int : i = Capacity * p + Slot(i) BY SlotIsRemainder
<1>2. PICK q \in Int : j = Capacity * q + Slot(j) BY SlotIsRemainder
<1>3. PICK k \in 1 .. Modulus : Modulus = Capacity * k BY SpscAssumption
<1>4. Slot(i) \in Nat /\ Capacity \in Nat /\ Capacity > 0 /\ Modulus \in Nat
  BY SlotIsRemainder, SpscAssumption, SMT DEF Slots
<1>5. j - i = Capacity * (q - p) BY <1>1, <1>2, <1>4, SMT
<1>6. CASE i <= j
  <2>1. Capacity * (q - p) < Capacity /\ Capacity * (q - p) > -Capacity
    BY <1>4, <1>5, <1>6, SMT DEF Dist, Indices
  <2>2. q - p = 0 BY <1>4, <2>1, SmallMultiple
  <2> QED BY <1>1, <1>2, <1>4, <2>2, SMT DEF Indices
<1>7. CASE j < i
  <2>1. j - i + Modulus = Capacity * (q - p + k)
    BY <1>3, <1>4, <1>5, SMT
  <2>2. j - i + Modulus > 0 /\ j - i + Modulus < Capacity
    BY <1>4, <1>7, SMT DEF Dist, Indices
  <2>3. q - p + k = 0 BY <1>3, <1>4, <2>1, <2>2, SmallMultiple
  <2> QED BY <1>4, <2>1, <2>2, <2>3, SMT
<1> QED BY <1>6, <1>7, <1>4, SMT DEF Indices

(* Going round the counters: from a point x between a and b, b still comes *)
(* before c; and a point between b and c lies between a and c.             *)
LEMMA BetweenEarlier ==
  ASSUME NEW a \in Indices, NEW b \in Indices, NEW c \in Indices,
         NEW x \in Indices,
         Dist(a, b) <= Dist(a, c), Dist(a, x) <= Dist(a, b)
  PROVE  Dist(x, b) <= Dist(x, c) /\ Dist(x, c) <= Dist(a, c)
<1> USE SpscAssumption
<1> QED BY SMT DEF Dist, Indices

(* An index strictly between two others is so after the first moves on.    *)
LEMMA BetweenLater ==
  ASSUME NEW a \in Indices, NEW b \in Indices, NEW c \in Indices,
         NEW x \in Indices,
         Dist(a, b) <= Dist(a, c), Dist(b, x) <= Dist(b, c)
  PROVE  Dist(a, x) <= Dist(a, c)
<1> USE SpscAssumption
<1> QED BY SMT DEF Dist, Indices

(* The distance of two indices is an index.                                *)
LEMMA DistType ==
  ASSUME NEW a \in Indices, NEW b \in Indices
  PROVE  Dist(a, b) \in Nat /\ (Dist(a, b) = 0 <=> a = b)
<1> USE SpscAssumption
<1> QED BY SMT DEF Dist, Indices
-----------------------------------------------------------------------------
(* Every variable of the ring keeps its type.                              *)
LEMMA TypeStep ==
  ASSUME TypeOK, [Next]_vars
  PROVE  TypeOK'
<1> USE SpscAssumption
<1>1. ASSUME NEW i \in Indices PROVE Inc(i) \in Indices
  BY SMT DEF Inc, Indices
<1>2. ASSUME NEW v \in Values, LoadReadIndex(v) PROVE TypeOK'
  BY <1>2 DEF TypeOK, LoadReadIndex, Visible, consumerVars
<1>3. CASE PushFull
  BY <1>3 DEF TypeOK, PushFull, consumerVars
<1>4. CASE Construct
  BY <1>4 DEF TypeOK, Construct, consumerVars
<1>5. CASE PublishWrite
  BY <1>1, <1>5 DEF TypeOK, PublishWrite, consumerVars
<1>6. CASE LoadWriteIndex
  BY <1>6 DEF TypeOK, LoadWriteIndex, Visible, producerVars
<1>7. CASE PopEmpty
  BY <1>7 DEF TypeOK, PopEmpty, producerVars
<1>8. CASE MoveOut
  <2>1. Slot(read_index) \in Slots
    BY SlotIsRemainder DEF TypeOK
  <2>2. out' \in Values \cup {Raw}
    BY <1>8, <2>1 DEF TypeOK, MoveOut
  <2> QED BY <1>8, <2>2 DEF TypeOK, MoveOut, producerVars
<1>9. CASE PublishRead
  BY <1>1, <1>9 DEF TypeOK, PublishRead, producerVars
<1>10. CASE Destroy
  BY <1>10 DEF TypeOK, Destroy, producerVars, consumerVars
<1>11. CASE UNCHANGED vars
  BY <1>11 DEF TypeOK, vars
<1> QED
  BY <1>2, <1>3, <1>4, <1>5, <1>6, <1>7, <1>8, <1>9, <1>10, <1>11
  DEF Next, Producer, Consumer

(* What each thread remembers of the other's index stays an old value.     *)
LEMMA IndexStep ==
  ASSUME TypeOK, IndexInv, PcInv, [Next]_vars
  PROVE  IndexInv' /\ PcInv'
<1> USE SpscAssumption
<1>1. ASSUME NEW v \in Values, LoadReadIndex(v) PROVE IndexInv' /\ PcInv'
  <2> DEFINE x == read_seen'
  <2>1. x \in Indices /\ Dist(read_seen, x) <= Dist(read_seen, read_index)
    BY <1>1 DEF LoadReadIndex, Visible
  <2>3. /\ Dist(x, read_index) <= Dist(x, write_index)
        /\ Dist(x, write_index) <= Dist(read_seen, write_index)
    BY <2>1, BetweenEarlier DEF TypeOK, IndexInv
  <2>4. /\ Dist(x, write_index) \in Nat
        /\ Dist(read_seen, write_index) \in Nat
    BY <2>1, DistType DEF TypeOK
  <2>5. Dist(x, write_index) <= Capacity
    BY <2>3, <2>4, SMT DEF IndexInv
  <2>6. UNCHANGED <<read_index, write_index, write_seen>>
    BY <1>1 DEF LoadReadIndex, consumerVars
  <2>7. IndexInv'
    BY <2>3, <2>5, <2>6 DEF IndexInv, Dist
  <2>2. PcInv'
    BY <1>1 DEF PcInv, LoadReadIndex, consumerVars
  <2> QED BY <2>2, <2>7
<1>2. CASE PushFull
  BY <1>2 DEF IndexInv, PcInv, PushFull, consumerVars, Dist
<1>3. CASE Construct
  <2>1. IndexInv' BY <1>3 DEF IndexInv, Construct, consumerVars, Dist
  <2>2. Dist(read_seen, write_index) < Capacity
    BY <1>3, SMT DEF Construct, Full, Dist, TypeOK, Indices
  <2>3. PcInv' BY <1>3, <2>2 DEF PcInv, Construct, consumerVars, Dist
  <2> QED BY <2>1, <2>3
<1>4. CASE PublishWrite
  <2>1. Dist(read_seen, write_index) < Capacity
    BY <1>4 DEF PublishWrite, PcInv
  <2>2. IndexInv'
    BY <1>4, <2>1, SMT DEF TypeOK, IndexInv, PublishWrite, Inc, Dist, Indices,
       consumerVars
  <2>3. PcInv' BY <1>4 DEF PcInv, PublishWrite, consumerVars
  <2> QED BY <2>2, <2>3
<1>5. CASE LoadWriteIndex
  <2> DEFINE x == write_seen'
  <2>1. x \in Indices /\ Dist(write_seen, x) <= Dist(write_seen, write_index)
    BY <1>5 DEF LoadWriteIndex, Visible
  <2>2. Dist(read_index, x) <= Dist(read_index, write_index)
    BY <2>1, BetweenLater DEF TypeOK, IndexInv
  <2>3. UNCHANGED <<read_index, write_index, read_seen>>
    BY <1>5 DEF LoadWriteIndex, producerVars
  <2>4. IndexInv' BY <2>2, <2>3 DEF IndexInv, Dist
  <2>5. PcInv' BY <1>5 DEF PcInv, LoadWriteIndex, producerVars, Dist
  <2> QED BY <2>4, <2>5
<1>6. CASE PopEmpty
  BY <1>6 DEF IndexInv, PcInv, PopEmpty, producerVars, Dist
<1>7. CASE MoveOut
  BY <1>7 DEF IndexInv, PcInv, MoveOut, producerVars, Dist
<1>8. CASE PublishRead
  <2>1. read_index # write_seen BY <1>8 DEF PublishRead, PcInv
  <2>2. IndexInv'
    BY <1>8, <2>1, SMT DEF TypeOK, IndexInv, PublishRead, Inc, Dist, Indices,
       producerVars
  <2>3. PcInv' BY <1>8 DEF PcInv, PublishRead, producerVars, Dist
  <2> QED BY <2>2, <2>3
<1>9. CASE Destroy
  BY <1>9 DEF IndexInv, PcInv, Destroy, producerVars, consumerVars, Dist
<1>10. CASE UNCHANGED vars
  BY <1>10 DEF IndexInv, PcInv, vars, Dist
<1> QED
  BY <1>1, <1>2, <1>3, <1>4, <1>5, <1>6, <1>7, <1>8, <1>9, <1>10
  DEF Next, Producer, Consumer
-----------------------------------------------------------------------------
(* At most Capacity messages lie between the indices, fewer whenever the   *)
(* producer may write, and at least one whenever the consumer may read; so *)
(* every slot in use belongs to an index fewer than Capacity steps on.     *)
LEMMA Window ==
  ASSUME TypeOK, IndexInv, PcInv
  PROVE  /\ Dist(read_index, write_index) <= Dist(read_seen, write_index)
         /\ Dist(read_index, write_index) <= Capacity
         /\ push_pc = "built" => Dist(read_index, write_index) < Capacity
         /\ read_index # write_seen => read_index # write_index
         /\ \A i \in Indices : Live(i) => Dist(read_index, i) < Capacity
<1> USE SpscAssumption
<1>1. /\ Dist(read_index, write_index) <= Dist(read_seen, write_index)
      /\ Dist(read_index, write_index) <= Capacity
  BY SMT DEF TypeOK, IndexInv, Dist, Indices
<1>2. ASSUME push_pc = "built" PROVE Dist(read_index, write_index) < Capacity
  BY <1>1, <1>2, DistType, SMT DEF PcInv, TypeOK
<1>3. ASSUME read_index # write_seen PROVE read_index # write_index
  BY <1>3, SMT DEF TypeOK, IndexInv, Dist, Indices
<1>4. ASSUME NEW i \in Indices, Live(i) PROVE Dist(read_index, i) < Capacity
  <2>1. CASE Dist(read_index, i) < Dist(read_index, write_index)
    BY <1>1, <2>1, DistType, SMT DEF TypeOK
  <2>2. CASE i = write_index /\ push_pc = "built"
    BY <1>2, <2>2
  <2> QED BY <1>4, <2>1, <2>2 DEF Live
<1> QED BY <1>1, <1>2, <1>3, <1>4

(* Publishing a built object, or the removal of a moved one, changes the   *)
(* index but not the indices in use.                                       *)
LEMMA PublishKeepsLive ==
  ASSUME TypeOK, IndexInv, PcInv, PublishWrite \/ PublishRead
  PROVE  \A i \in Indices : Live(i)' <=> Live(i)
<1> USE SpscAssumption
<1> SUFFICES ASSUME NEW i \in Indices PROVE Live(i)' <=> Live(i)
  OBVIOUS
<1>1. CASE PublishWrite
  <2>1. Dist(read_index, write_index) < Capacity
    BY <1>1, Window DEF PublishWrite
  <2>2. Dist(read_index, Inc(write_index)) = Dist(read_index, write_index) + 1
    BY <2>1, SMT DEF TypeOK, Dist, Inc, Indices
  <2>3. Dist(read_index, i) = Dist(read_index, write_index) <=> i = write_index
    BY SMT DEF TypeOK, Dist, Indices
  <2>4. /\ Dist(read_index, i) \in Nat
        /\ Dist(read_index, write_index) \in Nat
    BY DistType DEF TypeOK
  <2>5. Dist(read_index, i) < Dist(read_index, Inc(write_index))
          <=> Dist(read_index, i) < Dist(read_index, write_index) \/ i = write_index
    BY <2>2, <2>3, <2>4, SMT
  <2>6. pop_pc = "moved" => read_index # write_index
    BY Window DEF PcInv
  <2>7. /\ push_pc = "built" /\ push_pc' # "built"
        /\ write_index' = Inc(write_index)
        /\ UNCHANGED <<read_index, pop_pc>>
    BY <1>1 DEF PublishWrite, consumerVars
  <2> QED BY <2>5, <2>6, <2>7 DEF Live, Dist
<1>2. CASE PublishRead
  <2>1. read_index # write_index
    BY <1>2, Window DEF PublishRead, PcInv
  <2>2. i # read_index =>
          Dist(Inc(read_index), i) = Dist(read_index, i) - 1
    BY SMT DEF TypeOK, Dist, Inc, Indices
  <2>3. Dist(Inc(read_index), write_index) = Dist(read_index, write_index) - 1
    BY <2>1, SMT DEF TypeOK, Dist, Inc, Indices
  <2>4. ~(Dist(Inc(read_index), read_index) < Dist(Inc(read_index), write_index))
    BY SMT DEF TypeOK, Dist, Inc, Indices
  <2>5. /\ Dist(read_index, i) \in Nat
        /\ Dist(read_index, write_index) \in Nat
    BY DistType DEF TypeOK
  <2>6. Dist(Inc(read_index), i) < Dist(Inc(read_index), write_index)
          <=> /\ Dist(read_index, i) < Dist(read_index, write_index)
              /\ i # read_index
    BY <2>2, <2>3, <2>4, <2>5, SMT
  <2>7. /\ pop_pc = "moved" /\ pop_pc' # "moved"
        /\ read_index' = Inc(read_index)
        /\ UNCHANGED <<write_index, push_pc>>
    BY <1>2 DEF PublishRead, producerVars
  <2> QED BY <2>6, <2>7 DEF Live, Dist
<1> QED BY <1>1, <1>2

(* The slots that hold objects are exactly those of the indices in use.    *)
LEMMA StorageStep ==
  ASSUME IInv, [Next]_vars
  PROVE  StorageInv'
<1> USE SpscAssumption DEF IInv
<1>1. SUFFICES ASSUME alive'
               PROVE /\ \A i \in Indices : Live(i)' => storage'[Slot(i)] \in Values
                     /\ \A s \in Slots : storage'[s] # Raw =>
                          \E i \in Indices : Live(i)' /\ Slot(i) = s
  BY DEF StorageInv
<1>2. alive
  BY <1>1 DEF Next, Producer, Consumer, LoadReadIndex, PushFull, Construct,
     PublishWrite, LoadWriteIndex, PopEmpty, MoveOut, PublishRead, Destroy,
     producerVars, consumerVars, vars
<1>3. /\ \A i \in Indices : Live(i) => storage[Slot(i)] \in Values
      /\ \A s \in Slots : storage[s] # Raw =>
           \E i \in Indices : Live(i) /\ Slot(i) = s
  BY <1>2 DEF StorageInv
<1>4. CASE (\E v \in Values : LoadReadIndex(v)) \/ PushFull \/ LoadWriteIndex
           \/ PopEmpty \/ UNCHANGED vars
  <2>1. /\ UNCHANGED <<storage, read_index, write_index>>
        /\ push_pc' = "built" <=> push_pc = "built"
        /\ pop_pc' = "moved" <=> pop_pc = "moved"
    BY <1>4 DEF LoadReadIndex, PushFull, LoadWriteIndex, PopEmpty,
       producerVars, consumerVars, vars
  <2>2. \A i \in Indices : Live(i)' <=> Live(i)
    BY <2>1 DEF Live, Dist
  <2> QED BY <1>3, <2>1, <2>2
<1>5. CASE Construct
  <2>1. write_index \in Indices /\ Slot(write_index) \in Slots
    BY SlotIsRemainder DEF TypeOK
  <2>2. arg \in Values /\ arg # Raw
    BY <1>5 DEF Construct, PcInv
  <2>3. \A s \in Slots : storage'[s] = IF s = Slot(write_index) THEN arg ELSE storage[s]
    BY <1>5, <2>1 DEF Construct, TypeOK
  <2>4. \A i \in Indices : Live(i)' <=> Live(i) \/ i = write_index
    BY <1>5 DEF Construct, Live, Dist, consumerVars
  <2>5. \A i \in Indices : Slot(i) \in Slots BY SlotIsRemainder
  <2>6. \A i \in Indices : Live(i)' => storage'[Slot(i)] \in Values
    BY <1>3, <2>2, <2>3, <2>4, <2>5
  <2>7. ASSUME NEW s \in Slots, storage'[s] # Raw
        PROVE \E i \in Indices : Live(i)' /\ Slot(i) = s
    <3>1. CASE s = Slot(write_index) BY <2>1, <2>4, <3>1
    <3>2. CASE s # Slot(write_index) BY <1>3, <2>3, <2>4, <2>7, <3>2
    <3> QED BY <3>1, <3>2
  <2> QED BY <2>6, <2>7
<1>6. CASE MoveOut
  <2>1. read_index \in Indices /\ Slot(read_index) \in Slots
    BY SlotIsRemainder DEF TypeOK
  <2>2. \A s \in Slots : storage'[s] = IF s = Slot(read_index) THEN Raw ELSE storage[s]
    BY <1>6, <2>1 DEF MoveOut, TypeOK
  <2>3. \A i \in Indices : Live(i) => Dist(read_index, i) < Capacity
    BY Window
  <2>4. read_index # write_index
    BY <1>6, Window DEF MoveOut
  <2>5. \A i \in Indices : Live(i)' <=> Live(i) /\ i # read_index
    BY <1>6, <2>4 DEF MoveOut, Live, Dist, producerVars
  <2>6. ASSUME NEW i \in Indices, Live(i)' PROVE storage'[Slot(i)] \in Values
    <3>1. Live(i) /\ i # read_index BY <2>5, <2>6
    <3>2. Slot(i) # Slot(read_index) BY <2>1, <2>3, <3>1, SlotsDistinct
    <3>3. Slot(i) \in Slots BY SlotIsRemainder
    <3> QED BY <1>3, <2>2, <3>1, <3>2, <3>3
  <2>7. ASSUME NEW s \in Slots, storage'[s] # Raw
        PROVE \E i \in Indices : Live(i)' /\ Slot(i) = s
    BY <1>3, <2>2, <2>5, <2>7
  <2> QED BY <2>6, <2>7
<1>7. CASE PublishWrite \/ PublishRead
  <2>1. \A i \in Indices : Live(i)' <=> Live(i)
    BY <1>7, PublishKeepsLive
  <2>2. storage' = storage
    BY <1>7 DEF PublishWrite, PublishRead
  <2> QED BY <1>3, <2>1, <2>2
<1>8. CASE Destroy
  BY <1>1, <1>8 DEF Destroy
<1> QED
  BY <1>4, <1>5, <1>6, <1>7, <1>8 DEF Next, Producer, Consumer
-----------------------------------------------------------------------------
(* The three properties of a slot follow from the invariant.               *)
LEMMA FreeSlot ==
  ASSUME IInv, push_pc = "loaded", ~Full
  PROVE  storage[Slot(write_index)] = Raw
<1> USE SpscAssumption DEF IInv
<1>1. SUFFICES ASSUME storage[Slot(write_index)] # Raw PROVE FALSE
  OBVIOUS
<1>2. alive BY DEF PcInv
<1>3. write_index \in Indices /\ read_index \in Indices
      /\ Slot(write_index) \in Slots
  BY SlotIsRemainder DEF TypeOK
<1>4. PICK i \in Indices : Live(i) /\ Slot(i) = Slot(write_index)
  BY <1>1, <1>2, <1>3 DEF StorageInv
<1>5. Dist(read_index, write_index) < Capacity
  <2>1. Dist(read_seen, write_index) < Capacity
    BY DistType, SMT DEF Full, TypeOK
  <2>2. /\ Dist(read_index, write_index) \in Nat
        /\ Dist(read_seen, write_index) \in Nat
    BY DistType DEF TypeOK
  <2> QED BY <2>1, <2>2, Window, SMT
<1>6. Dist(read_index, i) < Dist(read_index, write_index)
  BY <1>4 DEF Live
<1>7. i # write_index /\ Dist(i, write_index) < Capacity
  BY <1>3, <1>5, <1>6, SMT DEF Dist, Indices
<1> QED BY <1>3, <1>4, <1>7, SlotsDistinct

(* The slot a pop is about to read holds a message.                        *)
LEMMA FullSlot ==
  ASSUME IInv, pop_pc = "loaded", read_index # write_seen
  PROVE  storage[Slot(read_index)] \in Values
<1> USE SpscAssumption DEF IInv
<1>1. alive BY DEF PcInv
<1>2. read_index # write_index BY Window
<1>3. Dist(read_index, read_index) < Dist(read_index, write_index)
  BY <1>2, SMT DEF Dist, Indices, TypeOK
<1>4. read_index \in Indices /\ Live(read_index)
  BY <1>3 DEF Live, TypeOK
<1> QED BY <1>1, <1>4 DEF StorageInv

(* The slot being written is not the one being read.                       *)
LEMMA SlotsApart ==
  ASSUME IInv, push_pc = "built", pop_pc = "moved"
  PROVE  Slot(write_index) # Slot(read_index)
<1> USE SpscAssumption DEF IInv
<1>1. SUFFICES ASSUME Slot(write_index) = Slot(read_index) PROVE FALSE
  OBVIOUS
<1>2. Dist(read_index, write_index) < Capacity BY Window
<1>3. read_index # write_index BY Window DEF PcInv
<1> QED BY <1>1, <1>2, <1>3, SlotsDistinct DEF TypeOK

(* What a pop has moved out is a message.                                  *)
LEMMA OutStep ==
  ASSUME IInv, [Next]_vars
  PROVE  OutInv'
<1>1. CASE MoveOut
  BY <1>1, FullSlot DEF MoveOut, OutInv
<1>2. CASE ~MoveOut
  BY <1>2 DEF IInv, OutInv, Next, Producer, Consumer, LoadReadIndex, PushFull,
     Construct, PublishWrite, LoadWriteIndex, PopEmpty, PublishRead, Destroy,
     producerVars, consumerVars, vars
<1> QED BY <1>1, <1>2

(* The destructor's loop meets every index in use unless the counters have *)
(* wrapped between the two.                                                *)
LEMMA DestroyStep ==
  ASSUME IInv, [Next]_vars
  PROVE  DestroyedAll'
<1> USE SpscAssumption DEF IInv
<1>1. CASE Destroy
  <2>1. SUFFICES ASSUME read_index <= write_index, NEW s \in Slots,
                        s \notin DestroyedSlots, storage[s] # Raw
                 PROVE FALSE
    BY <1>1 DEF Destroy, DestroyedAll, producerVars, consumerVars, TypeOK
  <2>2. PICK i \in Indices : Live(i) /\ Slot(i) = s
    BY <1>1, <2>1 DEF Destroy, StorageInv
  <2>3. Dist(read_index, i) < Dist(read_index, write_index)
    BY <1>1, <2>2 DEF Live, Destroy
  <2>4. read_index <= i /\ i < write_index
    BY <2>1, <2>3, SMT DEF Dist, TypeOK, Indices
  <2> QED BY <2>1, <2>2, <2>4 DEF DestroyedSlots
<1>2. CASE ~Destroy
  <2>1. alive' = alive
    BY <1>2 DEF Next, Producer, Consumer, LoadReadIndex, PushFull, Construct,
       PublishWrite, LoadWriteIndex, PopEmpty, MoveOut, PublishRead,
       producerVars, consumerVars, vars
  <2>2. CASE alive BY <2>1, <2>2 DEF DestroyedAll, TypeOK
  <2>3. CASE ~alive
    <3>1. UNCHANGED <<storage, read_index, write_index>>
      BY <1>2, <2>3 DEF PcInv, Next, Producer, Consumer, LoadReadIndex,
         PushFull, Construct, PublishWrite, LoadWriteIndex, PopEmpty, MoveOut,
         PublishRead, producerVars, consumerVars, vars
    <3> QED BY <2>1, <3>1 DEF DestroyedAll
  <2> QED BY <2>2, <2>3
<1> QED BY <1>1, <1>2
-----------------------------------------------------------------------------
(* The inductive invariant holds at the start;                             *)
LEMMA InitInv == Init => IInv
<1> USE SpscAssumption
<1> SUFFICES ASSUME Init PROVE IInv
  OBVIOUS
<1>1. 0 \in Indices BY SMT DEF Indices
<1>2. TypeOK BY <1>1 DEF Init, TypeOK
<1>3. IndexInv BY SMT DEF Init, IndexInv, Dist
<1>4. PcInv BY DEF Init, PcInv
<1>5. StorageInv
  <2>1. \A i \in Indices : ~Live(i)
    BY SMT DEF Init, Live, Dist, Indices
  <2>2. \A s \in Slots : storage[s] = Raw
    BY DEF Init
  <2> QED BY <2>1, <2>2 DEF StorageInv
<1>6. OutInv /\ DestroyedAll BY DEF Init, OutInv, DestroyedAll
<1> QED BY <1>2, <1>3, <1>4, <1>5, <1>6 DEF IInv

(* every step of the two threads keeps it.                                 *)
LEMMA NextInv == IInv /\ [Next]_vars => IInv'
BY TypeStep, IndexStep, StorageStep, OutStep, DestroyStep DEF IInv

(* The invariant holds in every state of the ring.                         *)
THEOREM Invariance == Spec => []IInv
BY InitInv, NextInv, PTL DEF Spec

(* Every index and every slot of the ring stays within its type, across    *)
(* any number of wraps of both counters.                                   *)
THEOREM TypeCorrect == Spec => []TypeOK
<1>1. IInv => TypeOK BY DEF IInv
<1> QED BY <1>1, Invariance, PTL

(* try_emplace constructs an object only in a slot without one, even when  *)
(* it decided on an old read_index_ (spsc.hpp:45-61).                      *)
THEOREM NeverOverwrites == Spec => []NoOverwrite
<1>1. IInv => NoOverwrite BY FreeSlot DEF NoOverwrite
<1> QED BY <1>1, Invariance, PTL

(* try_pop moves only out of a slot that holds an object, even when it     *)
(* decided on an old write_index_ (spsc.hpp:69-87).                        *)
THEOREM NeverReadsRaw == Spec => []NoReadOfRaw
<1>1. IInv => NoReadOfRaw BY FullSlot DEF NoReadOfRaw
<1> QED BY <1>1, Invariance, PTL

(* The two threads are never inside the same slot.                         *)
THEOREM SlotsAreNotShared == Spec => []NoSlotRace
<1>1. IInv => NoSlotRace BY SlotsApart DEF NoSlotRace
<1> QED BY <1>1, Invariance, PTL

(* The destructor gives up every message still queued, as long as the      *)
(* write index has not wrapped past the read index (spsc.hpp:31-43).       *)
THEOREM DestructorIsComplete == Spec => []DestroyedAll
<1>1. IInv => DestroyedAll BY DEF IInv
<1> QED BY <1>1, Invariance, PTL
-----------------------------------------------------------------------------
(* The ring implements a bounded queue.                                    *)

(* The index n places ahead is an index at distance n,                     *)
LEMMA AheadType ==
  ASSUME NEW i \in Indices, NEW n \in Indices
  PROVE  Ahead(i, n) \in Indices /\ Dist(i, Ahead(i, n)) = n
<1> USE SpscAssumption
<1> QED BY SMT DEF Ahead, Dist, Indices

(* and each index is its distance ahead of another.                        *)
LEMMA AheadDist ==
  ASSUME NEW i \in Indices, NEW j \in Indices
  PROVE  Ahead(i, Dist(i, j)) = j
<1> USE SpscAssumption
<1> QED BY SMT DEF Ahead, Dist, Indices

(* While the queue is in use, the messages between the indices are         *)
(* messages.                                                               *)
LEMMA MessageType ==
  ASSUME IInv, alive, NEW k \in 1 .. Dist(read_index, write_index)
  PROVE  Message(k) \in Values
<1> USE SpscAssumption DEF IInv
<1>1. Dist(read_index, write_index) \in Nat
      /\ Dist(read_index, write_index) <= Capacity
  BY Window, DistType DEF TypeOK
<1>2. k - 1 \in Indices BY <1>1, SMT DEF Indices
<1>3. /\ Ahead(read_index, k - 1) \in Indices
      /\ Dist(read_index, Ahead(read_index, k - 1)) = k - 1
  BY <1>2, AheadType DEF TypeOK
<1>4. Ahead(read_index, k - 1) = read_index <=> k = 1
  BY <1>2, SMT DEF Ahead, Indices, TypeOK
<1>5. CASE k = 1 /\ pop_pc = "moved" BY <1>5 DEF Message, OutInv
<1>6. CASE ~(k = 1 /\ pop_pc = "moved")
  <2>1. Live(Ahead(read_index, k - 1))
    BY <1>1, <1>3, <1>4, <1>6, SMT DEF Live
  <2> QED BY <1>3, <1>6, <2>1 DEF Message, StorageInv
<1> QED BY <1>5, <1>6

Listed ==
  /\ Contents \in Seq(Values)
  /\ Len(Contents) = Dist(read_index, write_index)
  /\ \A k \in 1 .. Dist(read_index, write_index) : Contents[k] = Message(k)

(* The contents of the queue are the messages between the indices,         *)
LEMMA ContentsType == IInv /\ alive => Listed
<1> SUFFICES ASSUME IInv, alive PROVE Listed
  OBVIOUS
<1>1. Dist(read_index, write_index) \in Nat
  BY DistType DEF IInv, TypeOK
<1>2. Contents = [k \in 1 .. Dist(read_index, write_index) |-> Message(k)]
  BY DEF Contents
<1>3. Contents \in [1 .. Dist(read_index, write_index) -> Values]
  BY <1>2, MessageType
<1>4. Contents \in Seq(Values)
  BY <1>1, <1>3, SeqDef
<1>5. Len(Contents) = Dist(read_index, write_index)
  BY <1>1, <1>3, <1>4, LenProperties, SMT
<1> QED BY <1>2, <1>4, <1>5 DEF Listed

(* in the next state too.                                                  *)
LEMMA ContentsTypeNext == IInv' /\ alive' => Listed'
BY ContentsType, PTL

(* A step that leaves the indices, the moved message and the slots in use  *)
(* alone leaves the queue alone.                                           *)
LEMMA ContentsUnchanged ==
  ASSUME alive' = alive, UNCHANGED <<read_index, write_index>>,
         \A k \in 1 .. Dist(read_index, write_index) : Message(k)' = Message(k)
  PROVE  Contents' = Contents
BY DEF Contents, Dist

(* PublishWrite is the push.                                               *)
LEMMA PushRefined ==
  ASSUME IInv, IInv', PublishWrite
  PROVE  \E v \in Values : Queue!Push(v)
<1> USE SpscAssumption
<1> DEFINE n == Dist(read_index, write_index)
           v == storage[Slot(write_index)]
<1>1. alive /\ alive' /\ push_pc = "built"
  BY DEF PublishWrite, IInv, PcInv, consumerVars
<1>2. /\ write_index' = Inc(write_index)
      /\ UNCHANGED <<storage, read_index, pop_pc, out>>
  BY DEF PublishWrite, consumerVars
<1>3. n < Capacity /\ n \in Nat /\ write_index \in Indices
  BY <1>1, Window, DistType DEF IInv, TypeOK
<1>4. Dist(read_index, write_index)' = n + 1
  BY <1>2, <1>3, SMT DEF IInv, TypeOK, Dist, Inc, Indices
<1>5. v \in Values
  BY <1>1, <1>3 DEF IInv, StorageInv, Live
<1>6. \A k \in 1 .. n + 1 : Message(k)' = Message(k)
  BY <1>2 DEF Message, Ahead
<1>7. Message(n + 1) = v
  <2>1. ~(n + 1 = 1 /\ pop_pc = "moved")
    <3>1. pop_pc = "moved" => n # 0
      BY Window, DistType DEF IInv, PcInv, TypeOK
    <3> QED BY <1>3, <3>1, SMT
  <2>2. Ahead(read_index, n) = write_index
    BY <1>3, AheadDist DEF IInv, TypeOK
  <2>3. (n + 1) - 1 = n BY <1>3, SMT
  <2>4. Message(n + 1) = storage[Slot(Ahead(read_index, (n + 1) - 1))]
    BY <2>1 DEF Message
  <2> QED BY <2>2, <2>3, <2>4
<1>8. /\ Contents \in Seq(Values) /\ Len(Contents) = n
      /\ \A k \in 1 .. n : Contents[k] = Message(k)
  BY <1>1, ContentsType DEF Listed
<1>9. /\ Contents' \in Seq(Values) /\ Len(Contents') = n + 1
      /\ \A k \in 1 .. n + 1 : Contents'[k] = Message(k)'
  BY <1>1, <1>4, ContentsTypeNext DEF Listed
<1>10. Contents' = Append(Contents, v)
  <2>1. /\ Append(Contents, v) \in Seq(Values)
        /\ Len(Append(Contents, v)) = n + 1
        /\ \A k \in 1 .. n : Append(Contents, v)[k] = Contents[k]
        /\ Append(Contents, v)[n + 1] = v
    BY <1>5, <1>8, AppendProperties
  <2>2. \A k \in 1 .. n + 1 : k \in 1 .. n \/ k = n + 1
    BY <1>3, SMT
  <2>3. \A k \in 1 .. n + 1 : Contents'[k] = Append(Contents, v)[k]
    BY <1>6, <1>7, <1>8, <1>9, <2>1, <2>2
  <2> QED BY <1>9, <2>1, <2>3, SeqEqual
<1> QED BY <1>3, <1>5, <1>8, <1>10 DEF Queue!Push

(* PublishRead is the pop.                                                 *)
LEMMA PopRefined ==
  ASSUME IInv, IInv', PublishRead
  PROVE  Queue!Pop
<1> USE SpscAssumption
<1> DEFINE n == Dist(read_index, write_index)
<1>1. alive /\ alive' /\ pop_pc = "moved"
  BY DEF PublishRead, IInv, PcInv, producerVars
<1>2. /\ read_index' = Inc(read_index) /\ pop_pc' = "idle"
      /\ UNCHANGED <<storage, write_index>>
  BY DEF PublishRead, producerVars
<1>3. n > 0 /\ n \in Nat /\ n <= Capacity
  BY <1>1, Window, DistType, SMT DEF IInv, PcInv, TypeOK
<1>4. Dist(read_index, write_index)' = n - 1
  BY <1>2, <1>3, SMT DEF IInv, TypeOK, Dist, Inc, Indices
<1>5. ASSUME NEW k \in 1 .. n - 1 PROVE Message(k)' = Message(k + 1)
  <2>1. Ahead(read_index, k - 1)' = Ahead(read_index, (k + 1) - 1)
    BY <1>2, <1>3, SMT DEF IInv, TypeOK, Ahead, Inc, Indices
  <2>2. k + 1 # 1 BY <1>3, SMT
  <2>3. Message(k)' = storage[Slot(Ahead(read_index, k - 1)')]
    BY <1>2 DEF Message, Slot
  <2>4. Message(k + 1) = storage[Slot(Ahead(read_index, (k + 1) - 1))]
    BY <2>2 DEF Message
  <2> QED BY <2>1, <2>3, <2>4
<1>6. /\ Contents \in Seq(Values) /\ Len(Contents) = n
      /\ \A k \in 1 .. n : Contents[k] = Message(k)
  BY <1>1, ContentsType DEF Listed
<1>7. /\ Contents' \in Seq(Values) /\ Len(Contents') = n - 1
      /\ \A k \in 1 .. n - 1 : Contents'[k] = Message(k)'
  BY <1>1, <1>4, ContentsTypeNext DEF Listed
<1>8. Contents # << >>
  BY <1>3, <1>6, EmptySeq, SMT
<1>9. Contents' = Tail(Contents)
  <2>1. /\ Tail(Contents) \in Seq(Values)
        /\ Len(Tail(Contents)) = n - 1
        /\ \A k \in 1 .. n - 1 : Tail(Contents)[k] = Contents[k + 1]
    BY <1>6, <1>8, HeadTailProperties
  <2>2. \A k \in 1 .. n - 1 : k + 1 \in 1 .. n
    BY <1>3, SMT
  <2>3. \A k \in 1 .. n - 1 : Contents'[k] = Tail(Contents)[k]
    BY <1>5, <1>6, <1>7, <2>1, <2>2
  <2> QED BY <1>7, <2>1, <2>3, SeqEqual
<1> QED BY <1>8, <1>9 DEF Queue!Pop

(* Building an object touches no message that is queued.                   *)
LEMMA ConstructRefined ==
  ASSUME IInv, Construct
  PROVE  Contents' = Contents
<1> USE SpscAssumption DEF IInv
<1> DEFINE n == Dist(read_index, write_index)
<1>1. /\ alive' = alive
      /\ UNCHANGED <<read_index, write_index, pop_pc, out>>
      /\ storage' = [storage EXCEPT ![Slot(write_index)] = arg]
  BY DEF Construct, consumerVars
<1>2. n < Capacity /\ n \in Nat
  <2>1. Dist(read_seen, write_index) < Capacity
    BY DistType, SMT DEF Construct, Full, TypeOK
  <2>2. n \in Nat /\ Dist(read_seen, write_index) \in Nat
    BY DistType DEF TypeOK
  <2> QED BY <2>1, <2>2, Window, SMT
<1>3. ASSUME NEW k \in 1 .. n PROVE Message(k)' = Message(k)
  <2> DEFINE i == Ahead(read_index, k - 1)
  <2>1. k - 1 \in Indices BY <1>2, SMT DEF Indices
  <2>2. i \in Indices /\ Dist(read_index, i) = k - 1
    BY <2>1, AheadType DEF TypeOK
  <2>3. i # write_index /\ Dist(i, write_index) < Capacity
    BY <1>2, <2>2, SMT DEF Dist, TypeOK, Indices
  <2>4. Slot(i) # Slot(write_index)
    BY <2>2, <2>3, SlotsDistinct DEF TypeOK
  <2>5. storage'[Slot(i)] = storage[Slot(i)]
    BY <1>1, <2>2, <2>4, SlotIsRemainder DEF TypeOK
  <2> QED BY <1>1, <2>5 DEF Message, Ahead
<1> QED BY <1>1, <1>3, ContentsUnchanged

(* A message that is moved out stays queued until PublishRead.             *)
LEMMA MoveRefined ==
  ASSUME IInv, MoveOut
  PROVE  Contents' = Contents
<1> USE SpscAssumption DEF IInv
<1> DEFINE n == Dist(read_index, write_index)
<1>1. /\ alive' = alive /\ pop_pc # "moved" /\ pop_pc' = "moved"
      /\ UNCHANGED <<read_index, write_index>>
      /\ out' = storage[Slot(read_index)]
      /\ storage' = [storage EXCEPT ![Slot(read_index)] = Raw]
  BY DEF MoveOut, producerVars
<1>2. n <= Capacity /\ n \in Nat
  BY Window, DistType DEF TypeOK
<1>3. ASSUME NEW k \in 1 .. n PROVE Message(k)' = Message(k)
  <2> DEFINE i == Ahead(read_index, k - 1)
  <2>1. k - 1 \in Indices BY <1>2, SMT DEF Indices
  <2>2. i \in Indices /\ Dist(read_index, i) = k - 1
    BY <2>1, AheadType DEF TypeOK
  <2>3. CASE k = 1
    <3>1. i = read_index BY <2>3, SMT DEF Ahead, TypeOK, Indices
    <3> QED BY <1>1, <2>3, <3>1 DEF Message, Ahead
  <2>4. CASE k # 1
    <3>1. i # read_index
      BY <2>1, <2>2, <2>4, SMT DEF Dist, TypeOK, Indices
    <3>2. Dist(read_index, i) < Capacity BY <1>2, <2>2, SMT
    <3>3. Slot(i) # Slot(read_index)
      BY <2>2, <3>1, <3>2, SlotsDistinct DEF TypeOK
    <3>4. storage'[Slot(i)] = storage[Slot(i)]
      BY <1>1, <2>2, <3>3, SlotIsRemainder DEF TypeOK
    <3> QED BY <1>1, <2>4, <3>4 DEF Message, Ahead
  <2> QED BY <2>3, <2>4
<1> QED BY <1>1, <1>3, ContentsUnchanged

(* Every step is a push, a pop or a stutter of the queue.                  *)
LEMMA StepRefined ==
  ASSUME IInv, IInv', [Next]_vars
  PROVE  [Queue!Next]_Contents
<1>1. CASE PublishWrite BY <1>1, PushRefined DEF Queue!Next
<1>2. CASE PublishRead BY <1>2, PopRefined DEF Queue!Next
<1>3. CASE Construct BY <1>3, ConstructRefined
<1>4. CASE MoveOut BY <1>4, MoveRefined
<1>5. CASE Destroy
  BY <1>5 DEF Destroy, Contents, Queue!Next, Queue!Close
<1>6. CASE (\E v \in Values : LoadReadIndex(v)) \/ PushFull \/ LoadWriteIndex
           \/ PopEmpty \/ UNCHANGED vars
  <2>1. /\ UNCHANGED <<storage, read_index, write_index, out, alive>>
        /\ pop_pc' = "moved" <=> pop_pc = "moved"
    BY <1>6 DEF LoadReadIndex, PushFull, LoadWriteIndex, PopEmpty,
       producerVars, consumerVars, vars
  <2>2. ASSUME NEW k \in 1 .. Dist(read_index, write_index)
        PROVE  Message(k)' = Message(k)
    BY <2>1 DEF Message, Ahead
  <2> QED BY <2>1, <2>2, ContentsUnchanged
<1> QED
  BY <1>1, <1>2, <1>3, <1>4, <1>5, <1>6 DEF Next, Producer, Consumer

(* Every execution of the ring, with stale indices and wrapping counters,  *)
(* is one of a bounded queue: messages leave once each, in the order they  *)
(* came, and there are never more than Capacity of them.                   *)
THEOREM RingImplementsQueue == Spec => ImplementsQueue
<1>1. Init => Queue!Init
  <2>1. ASSUME Init PROVE Contents = << >>
    BY <2>1, SpscAssumption, SMT DEF Init, Contents, Dist
  <2> QED BY <2>1 DEF Queue!Init
<1> QED
  BY <1>1, StepRefined, Invariance, PTL DEF Spec, ImplementsQueue, Queue!Spec
=============================================================================
