------------------------------ MODULE QuickServe ------------------------------
(***************************************************************************)
(* The scheduler thread and the environment thread together, exchanging    *)
(* messages through the handoff.  A step of the system is a step of one    *)
(* thread, or a call of Scheduler::request_stop from any thread.           *)
(***************************************************************************)
EXTENDS Scheduler, Environment

vars == <<handoffVars, schedulerVars, environmentVars>>

Init == HandoffInit /\ SchedulerInit /\ EnvironmentInit

SchedulerThread == SchedulerNext /\ UNCHANGED environmentVars

EnvironmentThread == EnvironmentNext /\ UNCHANGED schedulerVars

(* Both threads have returned. *)
Joined == run_pc = "exited" /\ env_pc = "exited"

Terminated == Joined /\ UNCHANGED vars

Next == SchedulerThread \/ EnvironmentThread \/ Terminated

Spec == Init /\ [][Next]_vars

(* Each thread runs its loop: run_once() is called again and again until   *)
(* it returns false, the environment turns until it is told to stop.  No   *)
(* fairness is assumed of Submit and RequestStop.                          *)
FairSpec ==
  /\ Spec
  /\ WF_vars(SchedulerStep /\ UNCHANGED environmentVars)
  /\ WF_vars(EnvironmentThread)
-----------------------------------------------------------------------------
TypeOK == SchedulerTypeOK /\ EnvironmentTypeOK /\ Bounded

(* The plan the environment has still to consume, or is executing.         *)
Outstanding == IF published # NoPlan THEN published ELSE plan

(* As long as the run is not being drained, a published plan fits the      *)
(* environment's records exactly: every request is there, at the position  *)
(* the work starts from.  So no position is decoded twice or skipped, and  *)
(* the environment never fails a run over a plan the scheduler made from   *)
(* progress it had not yet seen (scheduler.cpp:133-136).                   *)
PlanFitsEnvironment ==
  published # NoPlan /\ ~draining /\ ~env_fatal => Acceptable(published.work)

(* At most one epoch is outstanding (handoff.hpp:31-33): the slot and the  *)
(* environment never both hold a plan, and it is the one after the last    *)
(* retired.                                                                *)
OneEpochOutstanding ==
  /\ published = NoPlan \/ plan = NoPlan
  /\ published_epoch <= completed_epoch + 1
  /\ Outstanding # NoPlan =>
       Outstanding.epoch = published_epoch /\ published_epoch = completed_epoch + 1

(* Every sequence of the model is free or held by one request, except what *)
(* a failed removal or an interrupted admission lost, after a fatal.       *)
SequencesExclusive ==
  LET held == {records[r].sequence : r \in {q \in Requests : Held(q)}}
  IN  /\ \A q, r \in Requests :
           Held(q) /\ Held(r) /\ records[q].sequence = records[r].sequence => q = r
      /\ held \cap ToSet(free_sequences) = {}
      /\ IsInjective(free_sequences)
      /\ env_fatal \/ held \cup ToSet(free_sequences) = 0 .. MaxSequences - 1

(* The scheduler calls a request EnvironmentOwned exactly while the        *)
(* environment holds a record for it or a message about it is on its way:  *)
(* its admission has been reported and its release is not yet acknowledged.*)
OwnershipAgrees ==
  \A r \in Requests :
    LET q == request[r]
    IN  /\ Held(r) => q.admission \in {"InFlight", "EnvironmentOwned"}
        /\ q.admission = "EnvironmentOwned" /\ ~q.release_sent => Held(r)
        /\ q.stage = "Terminal" => ~Held(r)

(* A release is sent at most once, for a request the environment holds.    *)
ReleasesAreHeld ==
  /\ \A i \in DOMAIN releases : Held(releases[i])
  /\ IsInjective(releases)

(* The published workload counts are exact: queued counts the submitted    *)
(* requests that have neither started nor ended, active the ones that      *)
(* occupy the environment.  In particular neither counter underflows.      *)
CountsExact ==
  /\ queued = Cardinality({r \in Requests :
        /\ request[r].stage \notin {"Unsubmitted", "Terminal"}
        /\ ~request[r].start_recorded})
  /\ active = Cardinality({r \in Requests : request[r].admission = "EnvironmentOwned"})

(* A request that ends without an error was answered in full: its whole    *)
(* prompt was processed and it generated its token limit, unless it may    *)
(* and did stop at an end-of-generation token; and every piece of text the *)
(* environment produced for it was appended before it was retired.         *)
SuccessIsComplete ==
  \A r \in Requests :
    LET q == request[r]
    IN  q.stage = "Terminal" /\ q.terminal_error = "None" =>
          /\ q.pieces = emitted[r]
          /\ MaxOutput[r] > 0 => q.prefill_position = Len(Prompt[r])
          /\ \/ q.decoded_count = MaxOutput[r]
             \/ r \in Natural /\ q.decoded_count \in 1 .. MaxOutput[r]

(* When the driver stops the environment, nothing is left behind: every    *)
(* request is terminal and the environment holds none of them.             *)
CleanExit ==
  run_pc = "exited" =>
    \A r \in Requests :
      request[r].stage \in {"Unsubmitted", "Terminal"} /\ ~Held(r)

(* The retirement markers are exact: every terminal request that is still  *)
(* live has one marker and no other request has any, so each is handed to  *)
(* the history or the observer once, also when an observer's failure makes *)
(* further requests terminal in the middle of the pass.  A request kept    *)
(* back by a disabled observer has lost its marker.                        *)
MarkersExact ==
  /\ IsInjective(terminal_ready)
  /\ ToSet(terminal_ready) \subseteq {r \in ToSet(live) : request[r].stage = "Terminal"}
  /\ observer_enabled \/ ~Streaming =>
       {r \in ToSet(live) : request[r].stage = "Terminal"} \subseteq ToSet(terminal_ready)

(* The cache never outgrows its capacity, keeps one entry per conversation *)
(* and orders all entries by their last use.                               *)
CacheWellFormed ==
  /\ Len(cache) <= CacheCapacity
  /\ \A i, j \in DOMAIN cache : i # j =>
       /\ cache[i].last_used # cache[j].last_used
       /\ cache[i].conversation = NoConversation
          \/ cache[i].conversation # cache[j].conversation

(* A request that may be scheduled has something left to do, so an empty   *)
(* plan is the policy's doing (scheduler.cpp:227-229).                     *)
SchedulableHasWork ==
  run_pc = "decide" /\ MaySchedule =>
    \A r \in ToSet(live) :
      request[r].stage \in {"Prefill", "Decode"} => r \in Workable

(* What the three shipped policies of the FIFO family would build here is  *)
(* what PolicyPlans says a policy builds: valid work within the budget,    *)
(* each request once, and nothing at all only while a release is pending   *)
(* or when no request has work left (scheduler.cpp:227-229).               *)
ShippedPoliciesConform ==
  run_pc = "decide" /\ MaySchedule =>
    {FifoPlan(live, request, TokenBudget),
     ContinuousFifoPlan(live, request, TokenBudget)}
      \cup CacheAwarePlans(live, request, TokenBudget, 1 .. Len(live))
    \subseteq SoundPlans
-----------------------------------------------------------------------------
(* A batch reported as successful has been folded in full: the scheduler   *)
(* has seen every completion of its plan by the time it observes the       *)
(* retirement (handoff.hpp:33-34, 153).  A request that a drain or an      *)
(* error ended meanwhile is excused: its late completions are dropped.     *)
IsFolded(w) ==
  LET q == request[w.id]
  IN  \/ q.terminal_error # "None"
      \/ w.kind = "Prefill" /\ q.prefill_position >= w.end
      \/ w.kind = "Decode" /\ q.prompt_length + q.decoded_count > w.end

SuccessfulBatchesAreFolded ==
  outcome.success => \A i \in DOMAIN outcome.work : IsFolded(outcome.work[i])

(* The lifecycle never goes back: a request waiting for its release is not *)
(* scheduled again, a terminal one never changes, progress is never lost   *)
(* and the first error of a request is the one it ends with.               *)
NeverBack(old, new) ==
  /\ old.stage = "Terminal" => new = old
  /\ old.stage = "PendingRelease" => new.stage \in {"PendingRelease", "Terminal"}
  /\ new.prefill_position >= old.prefill_position
  /\ new.decoded_count >= old.decoded_count
  /\ old.terminal_error # "None" => new.terminal_error = old.terminal_error

LifecycleMonotone == [][\A r \in Requests : NeverBack(request[r], request'[r])]_request

(* A request that started from a saved prefix does not find the            *)
(* conversation of that prefix gone when its own prompt is saved: another  *)
(* was used less recently and goes first, and a prompt that continues the  *)
(* conversation takes the place of its entry (prefix_cache.hpp:20-38).     *)
(* This takes a single sequence and two entries or more: with more         *)
(* sequences other prompts may be saved in between.                        *)
UsedPrefixStays ==
  [][MaxSequences = 1 /\ CacheCapacity >= 2 =>
       \A r \in Requests, i \in DOMAIN cache :
         /\ Len(cache[i].tokens) = request[r].cached_prefix_tokens
         /\ Held(r) /\ i = FindLongestFullPrefix(cache, Prompt[r])
         => \E j \in DOMAIN cache' :
              cache'[j].conversation = cache[i].conversation]_cache
-----------------------------------------------------------------------------
(* The phase of a request as its caller sees it.                           *)
PhaseOf(stage) ==
  CASE stage = "Unsubmitted" -> "new"
    [] stage = "PendingAdmission" -> "waiting"
    [] stage \in {"Prefill", "Decode", "PendingRelease"} -> "serving"
    [] stage = "Terminal" -> "ended"

Lifecycle == INSTANCE RequestLifecycle WITH
  Errors <- Errors \ {"None"},
  waiting <- Filter(live, {r \in Requests : request[r].stage = "PendingAdmission"}),
  phase <- [r \in Requests |-> PhaseOf(request[r].stage)],
  tokens <- [r \in Requests |-> request[r].decoded_count],
  verdict <- [r \in Requests |-> request[r].terminal_error]

(* The two threads and their channels implement the server the callers of  *)
(* submit() are promised (scheduler.hpp:107-126): first come, first        *)
(* served, every request ended once, and in full unless it has an error.   *)
ImplementsLifecycle == Lifecycle!Spec
-----------------------------------------------------------------------------
(* Every submitted request reaches its end, whatever fails.                *)
EveryRequestEnds ==
  \A r \in Requests :
    request[r].stage # "Unsubmitted" ~> request[r].stage = "Terminal"

(* Once a drain has begun, by a stop, a fatal or a protocol violation, the *)
(* run comes to an end and both threads can be joined.                     *)
DrainEnds == draining ~> Joined
=============================================================================
