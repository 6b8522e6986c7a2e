------------------------- MODULE ProgressWaitProofs -------------------------
(***************************************************************************)
(* Proofs about the progress notification of ProgressWait.tla, for any     *)
(* number of notifying threads and of channels.                            *)
(***************************************************************************)
EXTENDS ProgressWait, TLAPS

(* The mutex is held where the code holds it.                              *)
MutexInv ==
  /\ mutex = "waiter" <=> wait_pc \in {"checking", "blocking"}
  /\ \A n \in Notifiers : mutex = n <=> notify_pc[n] \in {"locked", "counted"}

Before == {"published", "locked"}      \* not counted yet
After == {"counted", "unlocked"}       \* counted, not notified yet

Some(pcs) == \E n \in Notifiers : notify_pc[n] \in pcs

(* The channels this iteration has read.                                   *)
Read(c) == wait_pc # "loop" /\ (wait_pc = "draining" => c < next)

(* What arrived in a channel after it was read will move, or has moved,    *)
(* the generation away from the snapshot.                                  *)
SnapshotInv ==
  /\ snapshot <= generation
  /\ \A c \in 1 .. Channels :
       unread[c] /\ Read(c) => generation # snapshot \/ Some(Before)

(* The decision to block holds while the mutex does, and from then on any  *)
(* progress has a notifier behind it.                                      *)
BlockInv ==
  /\ wait_pc = "blocking" =>
       generation = snapshot /\ (stop => Some({"published"}))
  /\ wait_pc = "blocked" =>
       /\ generation # snapshot => Some(After)
       /\ stop => Some(Before \cup After)

IInv == TypeOK /\ MutexInv /\ SnapshotInv /\ BlockInv
-----------------------------------------------------------------------------
(* What a step of one notifier does to the others.                         *)
LEMMA GoesOn ==
  ASSUME TypeOK, NEW n \in Notifiers, NEW from, NEW to, Goes(n, from, to)
  PROVE  /\ notify_pc[n] = from /\ notify_pc'[n] = to
         /\ \A m \in Notifiers : m # n => notify_pc'[m] = notify_pc[m]
BY DEF Goes, TypeOK

(* Every step keeps the variables in their types.                          *)
LEMMA TypeStep ==
  ASSUME TypeOK, [Next]_vars
  PROVE  TypeOK'
<1> USE ProgressWaitAssumption DEF TypeOK
<1>1. ASSUME NEW c \in 1 .. Channels, Publish(c) PROVE TypeOK'
  BY <1>1 DEF Publish, Goes, waiterVars
<1>2. ASSUME NEW n \in Notifiers, StoreStop(n) PROVE TypeOK'
  BY <1>2 DEF StoreStop, Goes, waiterVars
<1>3. ASSUME NEW n \in Notifiers, Notify(n) PROVE TypeOK'
  BY <1>3 DEF Notify, LockToCount, Count, Unlock, NotifyAll, Goes, waiterVars
<1>4. CASE Iterate
  <2>1. CASE TakeSnapshot
    <3>1. 1 \in 1 .. Channels + 1 BY SMT
    <3> QED BY <2>1, <3>1 DEF TakeSnapshot, notifierVars
  <2>2. CASE Drain
    <3>1. next + 1 \in 1 .. Channels + 1 BY <2>2, SMT DEF Drain
    <3> QED BY <2>2, <3>1 DEF Drain, notifierVars
  <2>3. CASE EndIteration
    BY <2>3 DEF EndIteration, notifierVars, waiterVars
  <2> QED BY <1>4, <2>1, <2>2, <2>3 DEF Iterate
<1>5. CASE Wait
  BY <1>5 DEF Wait, LockToWait, Proceed, DecideToBlock, Block, Expire,
              notifierVars, waiterVars
<1>6. CASE SpuriousWakeup \/ Timeout
  BY <1>6 DEF SpuriousWakeup, Timeout, notifierVars, waiterVars
<1>7. CASE UNCHANGED vars
  BY <1>7 DEF vars, notifierVars, waiterVars
<1> QED BY <1>1, <1>2, <1>3, <1>4, <1>5, <1>6, <1>7 DEF Next

(* No step lets two threads into the mutex.                                *)
LEMMA MutexStep ==
  ASSUME TypeOK, MutexInv, [Next]_vars
  PROVE  MutexInv'
<1> USE DEF MutexInv
<1>0. \A n \in Notifiers : n # "free" /\ n # "waiter"
  BY ProgressWaitAssumption
<1>1. ASSUME NEW c \in 1 .. Channels, Publish(c) PROVE MutexInv'
  <2>1. Producer[c] \in Notifiers BY ProgressWaitAssumption
  <2> QED BY <1>1, <2>1, GoesOn DEF Publish
<1>2. ASSUME NEW n \in Notifiers, StoreStop(n) PROVE MutexInv'
  BY <1>2, GoesOn DEF StoreStop
<1>3. ASSUME NEW n \in Notifiers, LockToCount(n) PROVE MutexInv'
  BY <1>0, <1>3, GoesOn DEF LockToCount
<1>4. ASSUME NEW n \in Notifiers, Count(n) PROVE MutexInv'
  BY <1>4, GoesOn DEF Count
<1>5. ASSUME NEW n \in Notifiers, Unlock(n) PROVE MutexInv'
  BY <1>0, <1>5, GoesOn DEF Unlock
<1>6. ASSUME NEW n \in Notifiers, NotifyAll(n) PROVE MutexInv'
  BY <1>6, GoesOn DEF NotifyAll
<1>7. CASE Iterate
  BY <1>7 DEF Iterate, TakeSnapshot, Drain, EndIteration, notifierVars
<1>8. CASE Wait
  BY <1>0, <1>8 DEF Wait, LockToWait, Proceed, DecideToBlock, Block, Expire, notifierVars
<1>9. CASE SpuriousWakeup \/ Timeout
  BY <1>9 DEF SpuriousWakeup, Timeout, notifierVars
<1>10. CASE UNCHANGED vars
  BY <1>10 DEF vars, notifierVars
<1> QED
  BY <1>1, <1>2, <1>3, <1>4, <1>5, <1>6, <1>7, <1>8, <1>9, <1>10 DEF Next, Notify

(* No step puts the count below what the waiter has seen.                  *)
LEMMA SnapshotStep ==
  ASSUME IInv, [Next]_vars
  PROVE  SnapshotInv'
<1> USE DEF IInv, SnapshotInv, Some, Before, Read
<1>1. ASSUME NEW d \in 1 .. Channels, Publish(d) PROVE SnapshotInv'
  <2>1. Producer[d] \in Notifiers BY ProgressWaitAssumption
  <2> QED BY <1>1, <2>1, GoesOn DEF Publish, waiterVars
<1>2. ASSUME NEW n \in Notifiers, StoreStop(n) PROVE SnapshotInv'
  BY <1>2, GoesOn DEF StoreStop, waiterVars
<1>3. ASSUME NEW n \in Notifiers, LockToCount(n) PROVE SnapshotInv'
  BY <1>3, GoesOn DEF LockToCount, waiterVars
<1>4. ASSUME NEW n \in Notifiers, Count(n) PROVE SnapshotInv'
  <2>1. generation' # snapshot' /\ snapshot' <= generation'
    BY <1>4, SMT DEF Count, TypeOK, waiterVars
  <2> QED BY <2>1
<1>5. ASSUME NEW n \in Notifiers, Unlock(n) PROVE SnapshotInv'
  BY <1>5, GoesOn DEF Unlock, waiterVars
<1>6. ASSUME NEW n \in Notifiers, NotifyAll(n) PROVE SnapshotInv'
  BY <1>6, GoesOn DEF NotifyAll, waiterVars
<1>7. CASE TakeSnapshot
  BY <1>7, SMT DEF TakeSnapshot, TypeOK, notifierVars
<1>8. CASE Drain
  BY <1>8, SMT DEF Drain, TypeOK, notifierVars
<1>9. CASE EndIteration
  <2>1. \A c \in 1 .. Channels : c < next
    BY <1>9, ProgressWaitAssumption, SMT DEF EndIteration, TypeOK
  <2> QED BY <1>9, <2>1 DEF EndIteration, notifierVars, waiterVars
<1>10. CASE Wait
  BY <1>10 DEF Wait, LockToWait, Proceed, DecideToBlock, Block, Expire,
               notifierVars, waiterVars
<1>11. CASE SpuriousWakeup \/ Timeout
  BY <1>11 DEF SpuriousWakeup, Timeout, notifierVars, waiterVars
<1>12. CASE UNCHANGED vars
  BY <1>12 DEF vars, notifierVars, waiterVars
<1> QED
  BY <1>1, <1>2, <1>3, <1>4, <1>5, <1>6, <1>7, <1>8, <1>9, <1>10, <1>11, <1>12
  DEF Next, Notify, Iterate

(* No step leaves the waiter blocked on progress that was made.            *)
LEMMA BlockStep ==
  ASSUME IInv, [Next]_vars
  PROVE  BlockInv'
<1> USE DEF IInv, BlockInv, Some, Before, After
<1>0. ASSUME NEW n \in Notifiers PROVE n # "free" /\ n # "waiter"
  BY ProgressWaitAssumption
<1>1. ASSUME NEW d \in 1 .. Channels, Publish(d) PROVE BlockInv'
  <2>1. Producer[d] \in Notifiers BY ProgressWaitAssumption
  <2> QED BY <1>1, <2>1, GoesOn DEF Publish, waiterVars
<1>2. ASSUME NEW n \in Notifiers, StoreStop(n) PROVE BlockInv'
  BY <1>2, GoesOn DEF StoreStop, waiterVars
<1>3. ASSUME NEW n \in Notifiers, LockToCount(n) PROVE BlockInv'
  BY <1>3, GoesOn DEF LockToCount, MutexInv, waiterVars
<1>4. ASSUME NEW n \in Notifiers, Count(n) PROVE BlockInv'
  <2>1. mutex = n /\ notify_pc'[n] = "counted"
    BY <1>4, GoesOn DEF Count, MutexInv
  <2>2. wait_pc' # "blocking" BY <1>0, <1>4, <2>1 DEF Count, MutexInv
  <2> QED BY <2>1, <2>2
<1>5. ASSUME NEW n \in Notifiers, Unlock(n) PROVE BlockInv'
  BY <1>5, GoesOn DEF Unlock, waiterVars
<1>6. ASSUME NEW n \in Notifiers, NotifyAll(n) PROVE BlockInv'
  BY <1>6, GoesOn DEF NotifyAll, waiterVars
<1>7. CASE Iterate
  BY <1>7 DEF Iterate, TakeSnapshot, Drain, EndIteration
<1>8. CASE LockToWait \/ Proceed \/ Expire
  BY <1>8 DEF LockToWait, Proceed, Expire
<1>9. CASE DecideToBlock
  BY <1>9, SMT DEF DecideToBlock, Progress, TypeOK, notifierVars, waiterVars
<1>10. CASE Block
  BY <1>10 DEF Block, notifierVars, waiterVars
<1>11. CASE SpuriousWakeup \/ Timeout
  BY <1>11 DEF SpuriousWakeup, Timeout
<1>12. CASE UNCHANGED vars
  BY <1>12 DEF vars, notifierVars, waiterVars
<1> QED
  BY <1>1, <1>2, <1>3, <1>4, <1>5, <1>6, <1>7, <1>8, <1>9, <1>10, <1>11, <1>12
  DEF Next, Notify, Wait
-----------------------------------------------------------------------------
(* The inductive invariant holds at the start;                             *)
LEMMA InitInv == Init => IInv
<1> SUFFICES ASSUME Init PROVE IInv
  OBVIOUS
<1> USE ProgressWaitAssumption DEF Init
<1>1. 1 \in 1 .. Channels + 1 BY SMT
<1>2. TypeOK BY <1>1 DEF TypeOK
<1>3. MutexInv BY DEF MutexInv
<1>4. SnapshotInv BY SMT DEF SnapshotInv
<1>5. BlockInv BY DEF BlockInv
<1> QED BY <1>2, <1>3, <1>4, <1>5 DEF IInv

(* every step keeps it;                                                    *)
LEMMA NextInv == IInv /\ [Next]_vars => IInv'
BY TypeStep, MutexStep, SnapshotStep, BlockStep DEF IInv

(* so it always holds.                                                     *)
LEMMA Invariance == Spec => []IInv
<1>1. Init => IInv BY InitInv
<1>2. IInv /\ [Next]_vars => IInv' BY NextInv
<1> QED BY <1>1, <1>2, PTL DEF Spec

(* Type correctness.                                                       *)
THEOREM TypeCorrect == Spec => []TypeOK
<1>1. IInv => TypeOK BY DEF IInv
<1> QED BY <1>1, Invariance, PTL

(* Counting under the mutex and taking the snapshot before the iteration   *)
(* are enough: no publication, and no stop, is slept through               *)
(* (handoff.hpp:193-231, benchmark_main.cpp:371-386).                      *)
THEOREM WakeupsAreNotLost == Spec => []NoLostWakeup
<1>1. IInv => NoLostWakeup
  <2> SUFFICES ASSUME IInv, wait_pc = "blocked",
                      stop \/ \E c \in 1 .. Channels : unread[c]
               PROVE  \E n \in Notifiers : notify_pc[n] # "idle"
    BY DEF NoLostWakeup
  <2>1. Some(Before \cup After)
    BY DEF IInv, SnapshotInv, BlockInv, Read, Some, Before, After
  <2> QED BY <2>1 DEF Some, Before, After
<1> QED BY <1>1, Invariance, PTL
=============================================================================
