------------------------------ MODULE Scheduler ------------------------------
(***************************************************************************)
(* src/src/runtime/scheduler.cpp: the request lifecycle and one iteration  *)
(* of run_once(), one step per access to the handoff.  Between two steps   *)
(* the environment thread may run.  The policy (the virtual build_plan) is *)
(* any policy: it may choose every plan the shipped ones may choose.       *)
(***************************************************************************)
EXTENDS Handoff, FifoPolicies, SequenceLoops

CONSTANTS
  Natural,      \* the requests whose output_mode is Natural
  TokenBudget,  \* token_budget_
  RoguePlans,   \* what a misbehaving policy may return besides
  Streaming,    \* streaming_retirement_
  MayStop,      \* another thread may call request_stop()
  LateSubmit    \* the caller goes on submitting while the scheduler drains

ASSUME SchedulerAssumption ==
  /\ Natural \subseteq Requests
  /\ TokenBudget \in Nat /\ TokenBudget > 0
  /\ RoguePlans \subseteq Seq(WorkItems)
  /\ {Streaming, MayStop, LateSubmit} \subseteq BOOLEAN

VARIABLES
  run_pc,              \* where run_once() is, or what its driver does
  request,             \* the RequestState of every request
  live,                \* live_requests_, in submission order
  pending_admissions,  \* pending_admissions_
  terminal_ready,      \* terminal_ready_
  observer_enabled,    \* observer_enabled_
  active, queued,      \* workload_counts_
  draining, drain_error,
  scheduler_stop,      \* Scheduler::stop_requested_
  sweep,               \* the requests retry_releases() has still to visit
  plan_done,           \* run_once's plan_done
  published_epoch, observed_epoch,
  published_work,      \* what the published_* counts are taken from
  published_success,   \* published_plan_success_
  outcome              \* the last BatchOutcome delivered

lifecycleVars == <<request, live, pending_admissions, terminal_ready,
                   observer_enabled, active, queued, draining, drain_error>>
planVars == <<published_epoch, observed_epoch, published_work,
              published_success, outcome>>
schedulerVars == <<lifecycleVars, planVars, run_pc, scheduler_stop, sweep,
                   plan_done>>

Stages == {"Unsubmitted", "PendingAdmission", "Prefill", "Decode",
           "PendingRelease", "Terminal"}
Ownerships == {"NotSent", "InFlight", "EnvironmentOwned"}
Errors == {"None", "TokenizationFailed", "ContextCapacityExceeded",
           "DecodeFailed", "SamplingFailed", "ProtocolViolation",
           "EnvironmentStopped"}
NoOutcome == [epoch |-> 0, work |-> << >>, success |-> TRUE]

(* A default-constructed RequestState; pieces counts output_text's pieces. *)
Fresh(stage) ==
  [stage |-> stage, admission |-> "NotSent", terminal_error |-> "None",
   prompt_length |-> 0, prefill_position |-> 0, decoded_count |-> 0,
   cached_prefix_tokens |-> 0, release_sent |-> FALSE,
   start_recorded |-> FALSE, pieces |-> 0]

SchedulerInit ==
  /\ run_pc = "outside"
  /\ request = [r \in Requests |-> Fresh("Unsubmitted")]
  /\ live = << >> /\ pending_admissions = << >> /\ terminal_ready = << >>
  /\ observer_enabled = Streaming
  /\ active = 0 /\ queued = 0
  /\ draining = FALSE /\ drain_error = "None"
  /\ scheduler_stop = FALSE /\ sweep = << >> /\ plan_done = FALSE
  /\ published_epoch = 0 /\ observed_epoch = 0
  /\ published_work = << >> /\ published_success = TRUE
  /\ outcome = NoOutcome
-----------------------------------------------------------------------------
(* find_request(id) is null once the request has been retired.             *)
Known(r) == r \in ToSet(live)

FirstError_Last(old, new) == IF new = "None" THEN old ELSE new
FirstError(old, new) == IF old = "None" THEN new ELSE old

ToPendingRelease(q, error) ==
  [q EXCEPT !.stage = "PendingRelease",
            !.terminal_error = FirstError(@, error)]

ToTerminal(q, error) ==
  [q EXCEPT !.stage = "Terminal", !.admission = "NotSent",
            !.terminal_error = error]

(* What enter_draining does to one live request.                           *)
Drained_ForgetsInFlight(q, error) ==
  LET cause == FirstError(q.terminal_error, error)
  IN  CASE q.stage = "Terminal" -> q
        [] q.stage # "Terminal" /\ q.admission # "EnvironmentOwned" ->
             ToTerminal(q, cause)
        [] q.stage # "Terminal" /\ q.admission = "EnvironmentOwned" ->
             ToPendingRelease(q, cause)

Drained(q, error) ==
  LET cause == FirstError(q.terminal_error, error)
  IN  CASE q.stage = "Terminal" -> q
        [] q.stage # "Terminal" /\ q.admission = "NotSent" -> ToTerminal(q, cause)
        [] q.stage # "Terminal" /\ q.admission = "InFlight" ->
             [q EXCEPT !.terminal_error = cause]
        [] q.stage # "Terminal" /\ q.admission = "EnvironmentOwned" ->
             ToPendingRelease(q, cause)

UnsentLive_CountsTerminal ==
  Filter(live, {r \in Requests : request[r].admission = "NotSent"})

UnsentLive ==
  Filter(live, {r \in Requests : /\ request[r].admission = "NotSent"
                                 /\ request[r].stage # "Terminal"})

(* enter_draining(error), called with terminal_ready_ equal to ready.      *)
EnterDraining(error, ready) ==
  /\ draining' = TRUE
  /\ IF draining
     THEN /\ terminal_ready' = ready
          /\ UNCHANGED <<drain_error, request, pending_admissions, queued>>
     ELSE /\ terminal_ready' = ready \o UnsentLive
          /\ drain_error' = error
          /\ request' = [r \in Requests |-> IF Known(r) THEN Drained(request[r], error)
                                            ELSE request[r]]
          /\ pending_admissions' = << >>
          /\ queued' = queued - Len(UnsentLive)

(* The releases one pass of retry_releases() will try, in list order.      *)
Unreleased_SendsTwice(states) ==
  Filter(live, {r \in Requests : states[r].stage = "PendingRelease"})

Unreleased(states) ==
  Filter(live, {r \in Requests : /\ states[r].stage = "PendingRelease"
                                 /\ ~states[r].release_sent})
-----------------------------------------------------------------------------
(* The caller of the scheduler.                                            *)

(* submit_admission, on the scheduler's own thread between two iterations. *)
Submit(r) ==
  /\ run_pc \in {"outside", "returned"}
  /\ request[r].stage = "Unsubmitted"
  /\ LateSubmit \/ ~draining
  /\ request' = [request EXCEPT ![r] = Fresh("PendingAdmission")]
  /\ live' = Append(live, r)
  /\ pending_admissions' = Append(pending_admissions, r)
  /\ queued' = queued + 1
  /\ run_pc' = "outside"
  /\ UNCHANGED <<handoffVars, planVars, terminal_ready, observer_enabled,
                 active, draining, drain_error, scheduler_stop, sweep, plan_done>>

(* Scheduler::request_stop, from any thread.                               *)
RequestStop ==
  /\ MayStop /\ ~scheduler_stop
  /\ scheduler_stop' = TRUE
  /\ UNCHANGED <<handoffVars, lifecycleVars, planVars, run_pc, sweep, plan_done>>

(* run() after run_once() has returned false, and the end of the replay    *)
(* loop: nothing is left to do, the environment is told to stop.           *)
StopEnvironment ==
  /\ run_pc = "returned"
  /\ stop_requested' = TRUE
  /\ run_pc' = "exited"
  /\ UNCHANGED <<lifecycleVars, planVars, scheduler_stop, sweep, plan_done,
                 admissions, releases, admission_results, completions, outputs,
                 release_acks, fatals, published, completed_epoch>>
-----------------------------------------------------------------------------
(* run_once, from its start to the end of the drains.                      *)

BeginIteration ==
  /\ run_pc = "outside"
  /\ IF scheduler_stop
     THEN EnterDraining("EnvironmentStopped", terminal_ready)
     ELSE UNCHANGED <<request, pending_admissions, terminal_ready, queued,
                      draining, drain_error>>
  /\ run_pc' = IF draining' THEN "snapshot" ELSE "flush"
  /\ UNCHANGED <<handoffVars, planVars, live, observer_enabled, active,
                 scheduler_stop, sweep, plan_done>>

(* flush_pending_admissions: one admission accepted by the channel.        *)
FlushAdmission ==
  /\ run_pc = "flush"
  /\ pending_admissions # << >> /\ HasRoom(admissions)
  /\ admissions' = Append(admissions, Head(pending_admissions))
  /\ request' = [request EXCEPT ![Head(pending_admissions)].admission = "InFlight"]
  /\ pending_admissions' = Tail(pending_admissions)
  /\ UNCHANGED <<planVars, run_pc, live, terminal_ready, observer_enabled,
                 active, queued, draining, drain_error, scheduler_stop, sweep,
                 plan_done, releases, admission_results, completions, outputs,
                 release_acks, fatals, published, completed_epoch,
                 stop_requested>>

FlushDone ==
  /\ run_pc = "flush"
  /\ pending_admissions = << >> \/ ~HasRoom(admissions)
  /\ run_pc' = "snapshot"
  /\ UNCHANGED <<handoffVars, lifecycleVars, planVars, scheduler_stop, sweep,
                 plan_done>>

(* plan_done is read before the drains, not after them.                    *)
SnapshotEpoch ==
  /\ run_pc = "snapshot"
  /\ plan_done' = (completed_epoch >= published_epoch)
  /\ run_pc' = "results"
  /\ UNCHANGED <<handoffVars, lifecycleVars, planVars, scheduler_stop, sweep>>
-----------------------------------------------------------------------------
(* The drains: each takes messages until its channel is empty, while the   *)
(* environment may be adding to it.                                        *)

(* drain_admission_results *)
Admitted_IgnoresDrain(q, result) ==
  LET owned == [q EXCEPT !.admission = "EnvironmentOwned",
                         !.prompt_length = result.prompt_tokens,
                         !.cached_prefix_tokens = result.cached_prefix_tokens,
                         !.prefill_position = result.cached_prefix_tokens]
  IN  IF MaxOutput[result.id] = 0 THEN ToPendingRelease(owned, drain_error)
      ELSE [owned EXCEPT !.stage = "Prefill"]

Admitted(q, result) ==
  LET owned == [q EXCEPT !.admission = "EnvironmentOwned",
                         !.prompt_length = result.prompt_tokens,
                         !.cached_prefix_tokens = result.cached_prefix_tokens,
                         !.prefill_position = result.cached_prefix_tokens]
  IN  IF draining \/ MaxOutput[result.id] = 0
      THEN ToPendingRelease(owned, drain_error)
      ELSE [owned EXCEPT !.stage = "Prefill"]

(* The answer is dropped unless its request still waits for it.            *)
Awaiting(r) ==
  Known(r) /\ request[r].stage # "Terminal" /\ request[r].admission = "InFlight"

TakeAdmissionResult ==
  /\ run_pc = "results" /\ admission_results # << >>
  /\ LET result == Head(admission_results)
         r == result.id
         q == request[r]
     IN  CASE ~Awaiting(r) -> UNCHANGED <<request, terminal_ready, active, queued>>
           [] Awaiting(r) /\ result.error # "None" ->
                /\ request' = [request EXCEPT ![r] =
                     ToTerminal(q, FirstError(q.terminal_error, result.error))]
                /\ terminal_ready' = Append(terminal_ready, r)
                /\ queued' = queued - 1
                /\ UNCHANGED active
           [] Awaiting(r) /\ result.error = "None" ->
                /\ request' = [request EXCEPT ![r] = Admitted(q, result)]
                /\ active' = active + 1
                /\ UNCHANGED <<terminal_ready, queued>>
  /\ admission_results' = Tail(admission_results)
  /\ UNCHANGED <<planVars, run_pc, live, pending_admissions, observer_enabled,
                 draining, drain_error, scheduler_stop, sweep, plan_done,
                 admissions, releases, completions, outputs, release_acks,
                 fatals, published, completed_epoch, stop_requested>>

(* drain_outputs *)
TakeOutput ==
  /\ run_pc = "outputs" /\ outputs # << >>
  /\ LET r == Head(outputs)
     IN  request' = IF Known(r) /\ request[r].stage # "Terminal"
                    THEN [request EXCEPT ![r].pieces = @ + 1]
                    ELSE request
  /\ outputs' = Tail(outputs)
  /\ UNCHANGED <<planVars, run_pc, live, pending_admissions, terminal_ready,
                 observer_enabled, active, queued, draining, drain_error,
                 scheduler_stop, sweep, plan_done, admissions, releases,
                 admission_results, completions, release_acks, fatals,
                 published, completed_epoch, stop_requested>>

(* drain_completions: positions and counts are absolute, so folding a      *)
(* completion twice, or an older one late, changes nothing.                *)
Progressed(q, c) ==
  [q EXCEPT !.prefill_position = Max({@, c.prefill_position}),
            !.decoded_count = Max({@, c.decoded_tokens})]

HasEnded_OneEarly(q, c) ==
  (c.eos /\ c.id \in Natural) \/ q.decoded_count + 1 >= MaxOutput[c.id]

HasEnded(q, c) ==
  (c.eos /\ c.id \in Natural) \/ q.decoded_count >= MaxOutput[c.id]

StageOf(q) ==
  IF q.prefill_position >= q.prompt_length THEN "Decode" ELSE "Prefill"

Folded(q, c) ==
  LET new == Progressed(q, c)
  IN  IF HasEnded(new, c) THEN ToPendingRelease(new, "None")
      ELSE IF q.stage = "PendingRelease" THEN new
      ELSE [new EXCEPT !.stage = StageOf(new)]

TakeCompletion ==
  /\ run_pc = "completions" /\ completions # << >>
  /\ LET c == Head(completions)
     IN  request' = IF Known(c.id) /\ request[c.id].stage # "Terminal"
                       /\ request[c.id].admission = "EnvironmentOwned"
                    THEN [request EXCEPT ![c.id] = Folded(@, c)]
                    ELSE request
  /\ completions' = Tail(completions)
  /\ UNCHANGED <<planVars, run_pc, live, pending_admissions, terminal_ready,
                 observer_enabled, active, queued, draining, drain_error,
                 scheduler_stop, sweep, plan_done, admissions, releases,
                 admission_results, outputs, release_acks, fatals, published,
                 completed_epoch, stop_requested>>

(* drain_release_acks *)
TakeReleaseAck ==
  /\ run_pc = "acks" /\ release_acks # << >>
  /\ LET r == Head(release_acks)
         q == request[r]
     IN  IF Known(r) /\ q.stage = "PendingRelease" /\ q.release_sent
         THEN /\ request' = [request EXCEPT ![r] = ToTerminal(q, q.terminal_error)]
              /\ active' = active - 1
              /\ queued' = IF q.start_recorded THEN queued ELSE queued - 1
              /\ terminal_ready' = Append(terminal_ready, r)
         ELSE UNCHANGED <<request, active, queued, terminal_ready>>
  /\ release_acks' = Tail(release_acks)
  /\ UNCHANGED <<planVars, run_pc, live, pending_admissions, observer_enabled,
                 draining, drain_error, scheduler_stop, sweep, plan_done,
                 admissions, releases, admission_results, completions, outputs,
                 fatals, published, completed_epoch, stop_requested>>

(* drain_fatals *)
TakeFatal ==
  /\ run_pc = "fatals" /\ fatals # << >>
  /\ EnterDraining(Head(fatals), terminal_ready)
  /\ published_success' = FALSE
  /\ fatals' = Tail(fatals)
  /\ UNCHANGED <<run_pc, live, observer_enabled, active, scheduler_stop, sweep,
                 plan_done, published_epoch, observed_epoch, published_work,
                 outcome, admissions, releases, admission_results, completions,
                 outputs, release_acks, published, completed_epoch,
                 stop_requested>>

(* A drain ends when its channel is found empty.                           *)
DrainDone ==
  /\ \/ run_pc = "results" /\ admission_results = << >> /\ run_pc' = "outputs"
     \/ run_pc = "outputs" /\ outputs = << >> /\ run_pc' = "completions"
     \/ run_pc = "completions" /\ completions = << >> /\ run_pc' = "acks"
     \/ run_pc = "acks" /\ release_acks = << >> /\ run_pc' = "fatals"
     \/ run_pc = "fatals" /\ fatals = << >> /\ run_pc' = "releases"
  /\ sweep' = IF run_pc' = "releases" THEN Unreleased(request) ELSE << >>
  /\ UNCHANGED <<handoffVars, lifecycleVars, planVars, scheduler_stop, plan_done>>

(* retry_releases: the next request of the pass, whose release is sent     *)
(* when the channel has room and left for a later iteration when not.      *)
TryRelease ==
  /\ sweep # << >>
  /\ IF HasRoom(releases)
     THEN /\ releases' = Append(releases, Head(sweep))
          /\ request' = [request EXCEPT ![Head(sweep)].release_sent = TRUE]
     ELSE UNCHANGED <<releases, request>>
  /\ sweep' = Tail(sweep)
  /\ UNCHANGED <<planVars, run_pc, live, pending_admissions, terminal_ready,
                 observer_enabled, active, queued, draining, drain_error,
                 scheduler_stop, plan_done, admissions, admission_results,
                 completions, outputs, release_acks, fatals, published,
                 completed_epoch, stop_requested>>

ReleasesDone ==
  /\ sweep = << >>
  /\ \/ run_pc = "releases" /\ run_pc' = "retire"
     \/ run_pc = "cleanup" /\ run_pc' = "outside"
  /\ UNCHANGED <<handoffVars, lifecycleVars, planVars, scheduler_stop, sweep,
                 plan_done>>
-----------------------------------------------------------------------------
(* retire_terminal_requests: the marker at the front.  A retired request   *)
(* leaves live_requests_ (for completed_history_ or the observer).         *)
RetireTerminal ==
  /\ run_pc = "retire" /\ terminal_ready # << >>
  /\ live' = IF Streaming /\ ~observer_enabled THEN live
             ELSE Filter(live, Requests \ {Head(terminal_ready)})
  /\ terminal_ready' = Tail(terminal_ready)
  /\ UNCHANGED <<handoffVars, planVars, run_pc, request, pending_admissions,
                 observer_enabled, active, queued, draining, drain_error,
                 scheduler_stop, sweep, plan_done>>

(* The terminal observer returns false or throws.                          *)
ObserverFails ==
  /\ run_pc = "retire" /\ terminal_ready # << >>
  /\ "observer" \in Faults /\ observer_enabled
  /\ observer_enabled' = FALSE
  /\ EnterDraining("EnvironmentStopped", Tail(terminal_ready))
  /\ UNCHANGED <<handoffVars, planVars, run_pc, live, active, scheduler_stop,
                 sweep, plan_done>>

(* The outcome of the outstanding plan, once per epoch.                    *)
Unobserved_ReadsLate ==
  /\ completed_epoch >= published_epoch
  /\ published_epoch # 0 /\ observed_epoch < published_epoch

Unobserved ==
  plan_done /\ published_epoch # 0 /\ observed_epoch < published_epoch

ObserveBatch ==
  /\ run_pc = "retire" /\ terminal_ready = << >>
  /\ IF Unobserved
     THEN /\ outcome' = [epoch |-> published_epoch, work |-> published_work,
                         success |-> published_success]
          /\ observed_epoch' = published_epoch
     ELSE UNCHANGED <<outcome, observed_epoch>>
  /\ run_pc' = "decide"
  /\ UNCHANGED <<handoffVars, lifecycleVars, scheduler_stop, sweep, plan_done,
                 published_epoch, published_work, published_success>>
-----------------------------------------------------------------------------
(* The requests a policy may pick work for.                                *)
Workable == {r \in ToSet(live) : HasWork(request[r])}

ReleasePending == \E r \in ToSet(live) : request[r].stage = "PendingRelease"

(* What build_plan may return: any batch within the budget; nothing at all *)
(* only when it waits for a release or when no request has work left.  An  *)
(* empty plan in spite of work, as heuristic_aimd.cpp:285 returns when     *)
(* nothing fits the hardware, counts as a rogue one.                       *)
Batch(order, chunk) ==
  [i \in 1 .. Len(order) |-> WorkFor(order[i], request[order[i]], chunk[order[i]])]

SoundPlans ==
  LET batches == {Batch(order, chunk) : order \in SetToAllKPermutations(Workable),
                                        chunk \in [Workable -> 1 .. TokenBudget]}
  IN  {b \in batches : /\ Cost(b) <= TokenBudget
                       /\ b = << >> => ReleasePending \/ Workable = {}}

PolicyPlans == SoundPlans \cup RoguePlans

(* validate_plan *)
ValidWork_AnyStart(w) ==
  LET q == request[w.id]
  IN  /\ Known(w.id) /\ w.begin < w.end
      /\ \/ /\ w.kind = "Prefill" /\ q.stage = "Prefill"
            /\ w.end <= q.prompt_length
         \/ /\ w.kind = "Decode" /\ q.stage = "Decode" /\ q.decoded_count >= 1
            /\ w.end = q.prompt_length + q.decoded_count /\ w.begin = w.end - 1

ValidWork(w) ==
  LET q == request[w.id]
  IN  /\ Known(w.id) /\ w.begin < w.end
      /\ \/ /\ w.kind = "Prefill" /\ q.stage = "Prefill"
            /\ w.begin = q.prefill_position /\ w.end <= q.prompt_length
         \/ /\ w.kind = "Decode" /\ q.stage = "Decode" /\ q.decoded_count >= 1
            /\ w.end = q.prompt_length + q.decoded_count /\ w.begin = w.end - 1

ValidPlan(work) ==
  /\ \A i \in DOMAIN work : ValidWork(work[i])
  /\ \A i, j \in DOMAIN work : work[i].id = work[j].id => i = j
  /\ Cost(work) <= TokenBudget
-----------------------------------------------------------------------------
(* run_once, after the drains.                                             *)

AllTerminal_IgnoresReleases ==
  /\ pending_admissions = << >>
  /\ \A r \in ToSet(live) : request[r].stage \in {"PendingRelease", "Terminal"}

AllTerminal ==
  /\ pending_admissions = << >>
  /\ \A r \in ToSet(live) : request[r].stage = "Terminal"

Schedulable ==
  \E r \in ToSet(live) : request[r].stage \in {"Prefill", "Decode"}

MaySchedule_Unacknowledged == ~AllTerminal /\ ~draining /\ Schedulable

MaySchedule_ReadsLate ==
  /\ ~AllTerminal /\ ~draining /\ Schedulable
  /\ completed_epoch >= published_epoch

MaySchedule == ~AllTerminal /\ ~draining /\ plan_done /\ Schedulable

FinishRun ==
  /\ run_pc = "decide" /\ AllTerminal
  /\ run_pc' = "returned"
  /\ UNCHANGED <<handoffVars, lifecycleVars, planVars, scheduler_stop, sweep,
                 plan_done>>

KeepRunning ==
  /\ run_pc = "decide" /\ ~AllTerminal /\ ~MaySchedule
  /\ run_pc' = "outside"
  /\ UNCHANGED <<handoffVars, lifecycleVars, planVars, scheduler_stop, sweep,
                 plan_done>>

PublishPlan ==
  /\ run_pc = "decide" /\ MaySchedule
  /\ \E work \in PolicyPlans :
       LET first == {work[i].id : i \in DOMAIN work} \cap
                    {r \in Requests : ~request[r].start_recorded}
       IN  /\ work # << >> /\ ValidPlan(work)
           /\ published' = [epoch |-> published_epoch + 1, work |-> work]
           /\ published_epoch' = published_epoch + 1
           /\ published_work' = work
           /\ request' = [r \in Requests |->
                IF r \in first THEN [request[r] EXCEPT !.start_recorded = TRUE]
                ELSE request[r]]
           /\ queued' = queued - Cardinality(first)
  /\ published_success' = TRUE
  /\ run_pc' = "outside"
  /\ UNCHANGED <<live, pending_admissions, terminal_ready, observer_enabled,
                 active, draining, drain_error, scheduler_stop, sweep,
                 plan_done, observed_epoch, outcome, admissions, releases,
                 admission_results, completions, outputs, release_acks, fatals,
                 completed_epoch, stop_requested>>

RejectPlan ==
  /\ run_pc = "decide" /\ MaySchedule
  /\ \E work \in PolicyPlans : work # << >> /\ ~ValidPlan(work)
  /\ EnterDraining("ProtocolViolation", terminal_ready)
  /\ run_pc' = "outside"
  /\ UNCHANGED <<handoffVars, planVars, live, observer_enabled, active,
                 scheduler_stop, sweep, plan_done>>

(* An empty plan is tolerated while a release is pending.                  *)
WaitForRelease ==
  /\ run_pc = "decide" /\ MaySchedule
  /\ << >> \in PolicyPlans /\ ReleasePending
  /\ run_pc' = "outside"
  /\ UNCHANGED <<handoffVars, lifecycleVars, planVars, scheduler_stop, sweep,
                 plan_done>>

NoWork ==
  /\ run_pc = "decide" /\ MaySchedule
  /\ << >> \in PolicyPlans /\ ~ReleasePending
  /\ EnterDraining("ProtocolViolation", terminal_ready)
  /\ sweep' = Unreleased(request')
  /\ run_pc' = "cleanup"
  /\ UNCHANGED <<handoffVars, planVars, live, observer_enabled, active,
                 scheduler_stop, plan_done>>

(* build_plan throws out of run_once.  The driver (benchmark_main.cpp:398) *)
(* requests a stop and keeps calling run_once until everything has ended;  *)
(* this includes the first thing that call does.                           *)
BuildThrows ==
  /\ run_pc = "decide" /\ MaySchedule
  /\ "policy" \in Faults
  /\ scheduler_stop' = TRUE
  /\ EnterDraining("EnvironmentStopped", terminal_ready)
  /\ run_pc' = "snapshot"
  /\ UNCHANGED <<handoffVars, planVars, live, observer_enabled, active, sweep,
                 plan_done>>
-----------------------------------------------------------------------------
SchedulerStep ==
  \/ BeginIteration \/ FlushAdmission \/ FlushDone \/ SnapshotEpoch
  \/ TakeAdmissionResult \/ TakeOutput \/ TakeCompletion \/ TakeReleaseAck
  \/ TakeFatal \/ DrainDone \/ TryRelease \/ ReleasesDone
  \/ RetireTerminal \/ ObserverFails \/ ObserveBatch
  \/ FinishRun \/ KeepRunning \/ PublishPlan \/ RejectPlan \/ WaitForRelease
  \/ NoWork \/ BuildThrows \/ StopEnvironment

SchedulerNext == SchedulerStep \/ RequestStop \/ \E r \in Requests : Submit(r)

SchedulerTypeOK ==
  /\ run_pc \in {"outside", "flush", "snapshot", "results", "outputs",
                 "completions", "acks", "fatals", "releases", "retire",
                 "decide", "cleanup", "returned", "exited"}
  /\ request \in [Requests ->
       [stage : Stages, admission : Ownerships, terminal_error : Errors,
        prompt_length : Nat, prefill_position : Nat, decoded_count : Nat,
        cached_prefix_tokens : Nat, release_sent : BOOLEAN,
        start_recorded : BOOLEAN, pieces : Nat]]
  /\ {live, pending_admissions, terminal_ready, sweep} \subseteq Seq(Requests)
  /\ active \in Nat /\ queued \in Nat
  /\ {observer_enabled, draining, scheduler_stop, plan_done,
      published_success} \subseteq BOOLEAN
  /\ drain_error \in Errors
  /\ published_epoch \in Nat /\ observed_epoch \in Nat
=============================================================================
