---------------------------- MODULE ProgressWait ----------------------------
(***************************************************************************)
(* The progress notification of src/src/runtime/handoff.hpp: the replay    *)
(* thread of benchmark_main.cpp takes a snapshot of the generation, runs   *)
(* one scheduler iteration, and waits on a condition variable until the    *)
(* generation has moved or a stop was requested.  Whoever has something    *)
(* for it publishes that first and notifies then.                          *)
(*                                                                         *)
(* A channel is anything the iteration reads: the queues, the completed    *)
(* epoch, the scheduler's own stop flag.  It is abstracted to whether it   *)
(* holds something the iteration has not read, and the iteration reads the *)
(* channels one after the other.                                           *)
(***************************************************************************)
EXTENDS Naturals

CONSTANTS
  Notifiers,      \* the threads that notify
  Channels,       \* the number of channels, read in the order 1 .. Channels
  Producer,       \* the only notifier that publishes on each channel
  Timeouts,       \* whether the wait's deadline may pass
  MaxGeneration   \* bound on the number of notifications

ASSUME ProgressWaitAssumption ==
  /\ Channels \in Nat
  /\ Producer \in [1 .. Channels -> Notifiers]
  /\ Timeouts \in BOOLEAN
  /\ MaxGeneration \in Nat
  /\ "free" \notin Notifiers /\ "waiter" \notin Notifiers

VARIABLES
  generation,  \* scheduler_progress_generation_
  stop,        \* stop_requested_
  mutex,       \* who holds scheduler_progress_mutex_
  unread,      \* whether a channel holds something not yet read
  notify_pc,   \* each notifier: "idle", "published", "locked", "counted", "unlocked"
  wait_pc,     \* the waiter: "loop", "draining", "locking", "checking",
               \* "blocking", "blocked", "woken", "expired"
  snapshot,    \* its snapshot of the generation
  next         \* the channel its iteration reads next

notifierVars == <<generation, stop, notify_pc>>
waiterVars == <<snapshot, next>>
vars == <<notifierVars, waiterVars, mutex, unread, wait_pc>>

Init ==
  /\ generation = 0 /\ stop = FALSE
  /\ mutex = "free"
  /\ unread = [c \in 1 .. Channels |-> FALSE]
  /\ notify_pc = [n \in Notifiers |-> "idle"]
  /\ wait_pc = "loop" /\ snapshot = 0 /\ next = 1
-----------------------------------------------------------------------------
(* A notifier: try_push or a store, then notify_scheduler_progress().      *)

Goes(n, from, to) ==
  /\ notify_pc[n] = from
  /\ notify_pc' = [notify_pc EXCEPT ![n] = to]

Publish(c) ==
  /\ generation < MaxGeneration
  /\ Goes(Producer[c], "idle", "published")
  /\ unread' = [unread EXCEPT ![c] = TRUE]
  /\ UNCHANGED <<generation, stop, mutex, wait_pc, waiterVars>>

(* request_stop() *)
StoreStop_Silent(n) ==
  /\ generation < MaxGeneration
  /\ notify_pc[n] = "idle"
  /\ stop' = TRUE
  /\ UNCHANGED <<generation, notify_pc, mutex, unread, wait_pc, waiterVars>>

StoreStop(n) ==
  /\ generation < MaxGeneration
  /\ Goes(n, "idle", "published")
  /\ stop' = TRUE
  /\ UNCHANGED <<generation, mutex, unread, wait_pc, waiterVars>>

LockToCount_NoMutex(n) ==
  /\ Goes(n, "published", "locked")
  /\ UNCHANGED <<generation, stop, mutex, unread, wait_pc, waiterVars>>

LockToCount(n) ==
  /\ mutex = "free"
  /\ Goes(n, "published", "locked")
  /\ mutex' = n
  /\ UNCHANGED <<generation, stop, unread, wait_pc, waiterVars>>

Count(n) ==
  /\ Goes(n, "locked", "counted")
  /\ generation' = generation + 1
  /\ UNCHANGED <<stop, mutex, unread, wait_pc, waiterVars>>

Unlock(n) ==
  /\ Goes(n, "counted", "unlocked")
  /\ mutex' = "free"
  /\ UNCHANGED <<generation, stop, unread, wait_pc, waiterVars>>

NotifyAll(n) ==
  /\ Goes(n, "unlocked", "idle")
  /\ wait_pc' = IF wait_pc = "blocked" THEN "woken" ELSE wait_pc
  /\ UNCHANGED <<generation, stop, mutex, unread, waiterVars>>
-----------------------------------------------------------------------------
(* The waiter.                                                             *)

TakeSnapshot ==
  /\ wait_pc = "loop"
  /\ snapshot' = generation
  /\ next' = 1
  /\ wait_pc' = "draining"
  /\ UNCHANGED <<notifierVars, mutex, unread>>

Drain ==
  /\ wait_pc = "draining" /\ next <= Channels
  /\ unread' = [unread EXCEPT ![next] = FALSE]
  /\ next' = next + 1
  /\ UNCHANGED <<notifierVars, mutex, wait_pc, snapshot>>

EndIteration ==
  /\ wait_pc = "draining" /\ next > Channels
  /\ wait_pc' = "locking"
  /\ UNCHANGED <<notifierVars, mutex, unread, waiterVars>>

LockToWait ==
  /\ wait_pc \in {"locking", "woken"} /\ mutex = "free"
  /\ mutex' = "waiter"
  /\ wait_pc' = "checking"
  /\ UNCHANGED <<notifierVars, unread, waiterVars>>

(* The predicate of the wait. *)
Progress == generation # snapshot \/ stop

Proceed ==
  /\ wait_pc = "checking" /\ Progress
  /\ mutex' = "free"
  /\ wait_pc' = "loop"
  /\ UNCHANGED <<notifierVars, unread, waiterVars>>

DecideToBlock ==
  /\ wait_pc = "checking" /\ ~Progress
  /\ wait_pc' = "blocking"
  /\ UNCHANGED <<notifierVars, mutex, unread, waiterVars>>

(* The condition variable releases the mutex and blocks in one step.       *)
Block ==
  /\ wait_pc = "blocking"
  /\ mutex' = "free"
  /\ wait_pc' = "blocked"
  /\ UNCHANGED <<notifierVars, unread, waiterVars>>

SpuriousWakeup ==
  /\ wait_pc = "blocked"
  /\ wait_pc' = "woken"
  /\ UNCHANGED <<notifierVars, mutex, unread, waiterVars>>

Timeout ==
  /\ Timeouts
  /\ wait_pc = "blocked"
  /\ wait_pc' = "expired"
  /\ UNCHANGED <<notifierVars, mutex, unread, waiterVars>>

(* After its deadline wait_until takes the mutex once more and returns.    *)
Expire ==
  /\ wait_pc = "expired" /\ mutex = "free"
  /\ wait_pc' = "loop"
  /\ UNCHANGED <<notifierVars, mutex, unread, waiterVars>>
-----------------------------------------------------------------------------
Notify(n) == LockToCount(n) \/ Count(n) \/ Unlock(n) \/ NotifyAll(n)

Iterate == TakeSnapshot \/ Drain \/ EndIteration
Wait == LockToWait \/ Proceed \/ DecideToBlock \/ Block \/ Expire

Next ==
  \/ \E c \in 1 .. Channels : Publish(c)
  \/ \E n \in Notifiers : StoreStop(n) \/ Notify(n)
  \/ Iterate \/ Wait \/ SpuriousWakeup \/ Timeout

Spec == Init /\ [][Next]_vars

(* The threads keep running, and a notifier that waits for the mutex gets  *)
(* it at last if it is free again and again (spurious wakeups could keep   *)
(* the waiter coming back to it); no wakeup or deadline is relied on.      *)
FairSpec ==
  /\ Spec
  /\ WF_vars(Iterate) /\ WF_vars(Wait)
  /\ \A n \in Notifiers : SF_vars(Notify(n))
-----------------------------------------------------------------------------
TypeOK ==
  /\ generation \in Nat
  /\ stop \in BOOLEAN
  /\ mutex \in Notifiers \cup {"free", "waiter"}
  /\ unread \in [1 .. Channels -> BOOLEAN]
  /\ notify_pc \in [Notifiers ->
                      {"idle", "published", "locked", "counted", "unlocked"}]
  /\ wait_pc \in {"loop", "draining", "locking", "checking", "blocking",
                  "blocked", "woken", "expired"}
  /\ snapshot \in Nat
  /\ next \in 1 .. Channels + 1

(* The waiter is never blocked while a channel holds something it has not  *)
(* read, or a stop is requested, unless a notifier is still on its way to  *)
(* wake it (the comment of handoff.hpp:224-226).                           *)
NoLostWakeup ==
  wait_pc = "blocked" /\ (stop \/ \E c \in 1 .. Channels : unread[c]) =>
    \E n \in Notifiers : notify_pc[n] # "idle"

(* With no deadline at all, whatever is published is read, and the thread  *)
(* does not stay blocked once a stop is requested.                         *)
EventuallyNoticed ==
  /\ \A c \in 1 .. Channels : unread[c] ~> ~unread[c]
  /\ stop ~> [](wait_pc # "blocked")
=============================================================================
