------------------------ MODULE QuickServeInvariants ------------------------
(***************************************************************************)
(* Proofs about the composed system of QuickServe.tla, for any requests,   *)
(* prompts, queue capacities and policies, whatever fails: first what the  *)
(* variables hold, the channels between the two threads included; then who *)
(* has a request, and where it is in its life.  The inductive invariant    *)
(* says of every request on which list of the scheduler and in which       *)
(* channel it is, and what the environment holds for it.                   *)
(***************************************************************************)
EXTENDS QuickServe, SequenceLemmas

RequestStates ==
  [stage : Stages, admission : Ownerships, terminal_error : Errors,
   prompt_length : Nat, prefill_position : Nat, decoded_count : Nat,
   cached_prefix_tokens : Nat, release_sent : BOOLEAN,
   start_recorded : BOOLEAN, pieces : Nat]

(* The messages, and what they are made from.                              *)
Results ==
  [id : Requests, prompt_tokens : Nat, cached_prefix_tokens : Nat, error : Errors]
Completions ==
  [id : Requests, decoded_tokens : Nat, eos : BOOLEAN, prefill_position : Nat]
Plans == [epoch : Nat, work : Seq(WorkItems)]
PendingAdmissions == [id : Requests, validated : BOOLEAN]
Records ==
  [sequence : 0 .. MaxSequences - 1, prefill_position : Nat, decoded_tokens : Nat]
Entries ==
  [tokens : Seq(Tokens), last_used : Nat,
   conversation : {Conversation[r] : r \in Requests}]

SchedulerTypes ==
  /\ run_pc \in {"outside", "flush", "snapshot", "results", "outputs",
                 "completions", "acks", "fatals", "releases", "retire",
                 "decide", "cleanup", "returned", "exited"}
  /\ request \in [Requests -> RequestStates]
  /\ live \in Seq(Requests) /\ pending_admissions \in Seq(Requests)
  /\ terminal_ready \in Seq(Requests) /\ sweep \in Seq(Requests)
  /\ active \in Int /\ queued \in Int
  /\ observer_enabled \in BOOLEAN /\ draining \in BOOLEAN
  /\ scheduler_stop \in BOOLEAN /\ plan_done \in BOOLEAN
  /\ published_success \in BOOLEAN /\ drain_error \in Errors
  /\ published_epoch \in Nat /\ observed_epoch \in Nat

ChannelTypes ==
  /\ admissions \in Seq(Requests) /\ releases \in Seq(Requests)
  /\ admission_results \in Seq(Results) /\ completions \in Seq(Completions)
  /\ outputs \in Seq(Requests) /\ release_acks \in Seq(Requests)
  /\ fatals \in Seq(Errors \ {"None"})
  /\ published \in Plans /\ completed_epoch \in Nat
  /\ stop_requested \in BOOLEAN

EnvironmentTypes ==
  /\ env_pc \in {"top", "releases", "ack", "admissions", "result", "plan",
                 "items", "output", "completion", "retire", "unwind", "catch",
                 "exited"}
  /\ records \in [Requests -> Records \cup {Nothing}]
  /\ free_sequences \in Seq(0 .. MaxSequences - 1)
  /\ env_fatal \in BOOLEAN
  /\ pending_admission \in PendingAdmissions \cup {Nothing}
  /\ result \in Results \cup {Nothing}
  /\ result # Nothing <=> env_pc = "result"
  /\ env_pc = "ack" => ack \in Requests
  /\ plan \in Plans /\ item \in Nat
  /\ completion \in Completions \cup {Nothing}
  /\ completion # Nothing <=> env_pc \in {"output", "completion"}
  /\ emitted \in [Requests -> Nat]
  /\ cache \in Seq(Entries) /\ cache_clock \in Nat

(* The items of its plan that the environment has still to execute are as  *)
(* it found them when it took the plan: nothing else touches its records.  *)
ExecutionInv ==
  /\ env_pc \in {"items", "output", "completion"} =>
       /\ item >= 1
       /\ \A i, j \in DOMAIN plan.work : plan.work[i].id = plan.work[j].id => i = j
       /\ \A i \in DOMAIN plan.work : i > item => Executable(plan.work[i])
  /\ env_pc = "items" /\ item <= Len(plan.work) => Executable(Work)
  /\ env_pc \in {"output", "completion"} => item <= Len(plan.work)

TypeInv == SchedulerTypes /\ ChannelTypes /\ EnvironmentTypes /\ ExecutionInv
-----------------------------------------------------------------------------
(* The absent value is not a message or a record.                          *)
LEMMA NothingElse ==
  /\ Nothing \notin Records /\ Nothing \notin Results
  /\ Nothing \notin Completions /\ Nothing \notin PendingAdmissions
BY SMT DEF Nothing, Records, Results, Completions, PendingAdmissions

(* The types hold at the start.                                            *)
LEMMA InitTypes == Init => TypeInv
<1> SUFFICES ASSUME Init PROVE TypeInv
  OBVIOUS
<1> USE DEF Init
<1>1. SchedulerTypes
  <2>1. request \in [Requests -> RequestStates]
    BY SMT DEF SchedulerInit, RequestStates, Fresh, Stages, Ownerships, Errors
  <2>2. Streaming \in BOOLEAN BY SchedulerAssumption
  <2>3. "None" \in Errors BY DEF Errors
  <2>4. 0 \in Nat /\ 0 \in Int BY SMT
  <2> QED BY <2>1, <2>2, <2>3, <2>4, EmptySeq, Zenon DEF SchedulerInit, SchedulerTypes
<1>2. ChannelTypes
  <2>1. NoPlan \in Plans BY EmptySeq, SMT DEF NoPlan, Plans
  <2> QED BY <2>1, EmptySeq, Zenon DEF HandoffInit, ChannelTypes
<1>3. EnvironmentTypes
  <2>1. free_sequences \in Seq(0 .. MaxSequences - 1)
    BY EnvironmentAssumption, SMT DEF EnvironmentInit
  <2>2. records \in [Requests -> Records \cup {Nothing}] /\ emitted \in [Requests -> Nat]
    BY DEF EnvironmentInit
  <2>3. plan \in Plans BY EmptySeq, SMT DEF EnvironmentInit, NoPlan, Plans
  <2>4. cache \in Seq(Entries) BY EmptySeq DEF EnvironmentInit
  <2>5. /\ env_pc = "top" /\ env_fatal = FALSE
        /\ pending_admission = Nothing /\ result = Nothing /\ completion = Nothing
        /\ item = 0 /\ cache_clock = 0
    BY DEF EnvironmentInit
  <2> QED BY <2>1, <2>2, <2>3, <2>4, <2>5 DEF EnvironmentTypes
<1>4. ExecutionInv BY DEF EnvironmentInit, ExecutionInv
<1> QED BY <1>1, <1>2, <1>3, <1>4 DEF TypeInv
-----------------------------------------------------------------------------
(* What the scheduler's functions on the state of a request return.        *)
LEMMA FreshType ==
  ASSUME NEW stage \in Stages PROVE Fresh(stage) \in RequestStates
BY SMT DEF Fresh, RequestStates, Stages, Ownerships, Errors

(* A state of a request that is ended is one,                              *)
LEMMA EndedType ==
  ASSUME NEW q \in RequestStates, NEW error \in Errors
  PROVE  /\ ToPendingRelease(q, error) \in RequestStates
         /\ ToTerminal(q, error) \in RequestStates
         /\ Drained(q, error) \in RequestStates
         /\ FirstError(q.terminal_error, error) \in Errors
<1>1. q.terminal_error \in Errors BY DEF RequestStates
<1>2. FirstError(q.terminal_error, error) \in Errors BY <1>1 DEF FirstError
<1>3. \A e \in Errors : ToPendingRelease(q, e) \in RequestStates
  <2> SUFFICES ASSUME NEW e \in Errors PROVE ToPendingRelease(q, e) \in RequestStates
    OBVIOUS
  <2>1. FirstError(q.terminal_error, e) \in Errors BY <1>1 DEF FirstError
  <2>2. "PendingRelease" \in Stages BY DEF Stages
  <2> QED BY <2>1, <2>2, Zenon DEF ToPendingRelease, RequestStates
<1>4. \A e \in Errors : ToTerminal(q, e) \in RequestStates
  <2>1. "Terminal" \in Stages /\ "NotSent" \in Ownerships BY DEF Stages, Ownerships
  <2> QED BY <2>1, Zenon DEF ToTerminal, RequestStates
<1>5. [q EXCEPT !.terminal_error = FirstError(q.terminal_error, error)] \in RequestStates
  BY <1>2, SMT DEF RequestStates
<1>6. q.admission \in Ownerships BY DEF RequestStates
<1>7. Drained(q, error) \in RequestStates
  BY <1>2, <1>3, <1>4, <1>5, <1>6 DEF Drained, Ownerships
<1> QED BY <1>2, <1>3, <1>4, <1>7

(* so is one that is admitted,                                             *)
LEMMA AdmittedType ==
  ASSUME NEW q \in RequestStates, NEW answer \in Results, drain_error \in Errors
  PROVE  Admitted(q, answer) \in RequestStates
<1> DEFINE owned == [q EXCEPT !.admission = "EnvironmentOwned",
                         !.prompt_length = answer.prompt_tokens,
                         !.cached_prefix_tokens = answer.cached_prefix_tokens,
                         !.prefill_position = answer.cached_prefix_tokens]
<1>1. owned \in RequestStates
  <2>1. "EnvironmentOwned" \in Ownerships BY DEF Ownerships
  <2>2. answer.prompt_tokens \in Nat /\ answer.cached_prefix_tokens \in Nat BY DEF Results
  <2> QED BY <2>1, <2>2, Zenon DEF RequestStates
<1>2. ToPendingRelease(owned, drain_error) \in RequestStates BY <1>1, EndedType
<1>3. [owned EXCEPT !.stage = "Prefill"] \in RequestStates
  <2> HIDE DEF owned
  <2> QED BY <1>1, SMT DEF RequestStates, Stages
<1> QED BY <1>2, <1>3 DEF Admitted

(* (the larger of two numbers)                                             *)
LEMMA MaxOfTwo ==
  ASSUME NEW a \in Int, NEW b \in Int
  PROVE  Max({a, b}) = IF a >= b THEN a ELSE b
<1> DEFINE m == IF a >= b THEN a ELSE b
<1>1. m \in {a, b} /\ \A y \in {a, b} : m >= y BY SMT
<1>2. \A x \in {a, b} : (\A y \in {a, b} : x >= y) => x = m BY SMT
<1>3. Max({a, b}) = CHOOSE x \in {a, b} : \A y \in {a, b} : x >= y BY DEF Max
<1> HIDE DEF m
<1> QED BY <1>1, <1>2, <1>3 DEF m

(* and one into which a completion is folded.                              *)
LEMMA FoldedType ==
  ASSUME NEW q \in RequestStates, NEW c \in Completions
  PROVE  Folded(q, c) \in RequestStates
<1> DEFINE new == Progressed(q, c)
<1>1. /\ q.prefill_position \in Nat /\ c.prefill_position \in Nat
      /\ q.decoded_count \in Nat /\ c.decoded_tokens \in Nat
  BY DEF RequestStates, Completions
<1>2. /\ Max({q.prefill_position, c.prefill_position}) \in Nat
      /\ Max({q.decoded_count, c.decoded_tokens}) \in Nat
  BY <1>1, MaxOfTwo, SMT
<1>3. new \in RequestStates
  <2> DEFINE x == Max({q.prefill_position, c.prefill_position})
             y == Max({q.decoded_count, c.decoded_tokens})
  <2>1. new = [q EXCEPT !.prefill_position = x, !.decoded_count = y] BY DEF Progressed
  <2> HIDE DEF new, x, y
  <2>2. x \in Nat /\ y \in Nat BY <1>2 DEF x, y
  <2> QED BY <2>1, <2>2, Zenon DEF RequestStates
<1> HIDE DEF new
<1>4. ToPendingRelease(new, "None") \in RequestStates BY <1>3, EndedType DEF Errors
<1>5. [new EXCEPT !.stage = StageOf(new)] \in RequestStates
  BY <1>3, SMT DEF StageOf, RequestStates, Stages
<1> QED BY <1>3, <1>4, <1>5 DEF Folded, new
-----------------------------------------------------------------------------
(* A plan of any policy is a list of work items of live requests.          *)
LEMMA WorkType ==
  ASSUME NEW r \in Requests, NEW q \in RequestStates, HasWork(q), NEW chunk \in Nat
  PROVE  WorkFor(r, q, chunk) \in WorkItems
<1>1. /\ q.prompt_length \in Nat /\ q.decoded_count \in Nat /\ q.prefill_position \in Nat
  BY DEF RequestStates
<1>2. Least(q.prompt_length, q.prefill_position + chunk) \in Nat BY <1>1, SMT DEF Least
<1>3. q.stage # "Prefill" => /\ q.prompt_length + q.decoded_count - 1 \in Nat
                             /\ q.prompt_length + q.decoded_count - 1 + 1 \in Nat
  BY <1>1, SMT DEF HasWork
<1> QED BY <1>1, <1>2, <1>3, Zenon DEF WorkFor, WorkItems

(* A policy returns a list of work items.                                  *)
LEMMA PolicyPlansType ==
  ASSUME SchedulerTypes PROVE PolicyPlans \subseteq Seq(WorkItems)
<1>1. RoguePlans \subseteq Seq(WorkItems) BY SchedulerAssumption
<1>2. live \in Seq(Requests) /\ request \in [Requests -> RequestStates]
  BY DEF SchedulerTypes
<1>3. ToSet(live) \subseteq Requests /\ IsFiniteSet(ToSet(live))
  BY <1>2, ToSetFinite, LenProperties DEF ToSet
<1>4. Workable \subseteq Requests /\ \A r \in Workable : HasWork(request[r])
  BY <1>3 DEF Workable
<1>5. ASSUME NEW order \in SetToAllKPermutations(Workable),
             NEW chunk \in [Workable -> 1 .. TokenBudget]
      PROVE  [i \in 1 .. Len(order) |->
                WorkFor(order[i], request[order[i]], chunk[order[i]])] \in Seq(WorkItems)
  <2>1. PICK s \in SUBSET Workable : order \in [1 .. Cardinality(s) -> s]
    BY DEF SetToAllKPermutations, SetToSeqs
  <2>2. Cardinality(s) \in Nat
    BY <1>3, FS_Subset, FS_CardinalityType DEF Workable
  <2>3. order \in Seq(Workable) /\ Len(order) \in Nat
    BY <2>1, <2>2, SMT
  <2>4. \A i \in 1 .. Len(order) : order[i] \in Workable BY <2>3, LenProperties
  <2>5. \A r \in Workable : chunk[r] \in Nat BY SchedulerAssumption, SMT
  <2>6. \A i \in 1 .. Len(order) :
          WorkFor(order[i], request[order[i]], chunk[order[i]]) \in WorkItems
    BY <1>2, <1>4, <2>4, <2>5, WorkType
  <2> QED BY <2>3, <2>6, IsASeq
<1>6. SoundPlans \subseteq Seq(WorkItems) BY <1>5 DEF SoundPlans, Batch
<1> QED BY <1>1, <1>6 DEF PolicyPlans

(* A drain keeps the types of the lists and the states.                    *)
LEMMA EnterDrainingTypes ==
  ASSUME SchedulerTypes, NEW error \in Errors, NEW ready \in Seq(Requests),
         EnterDraining(error, ready)
  PROVE  /\ request' \in [Requests -> RequestStates]
         /\ pending_admissions' \in Seq(Requests) /\ terminal_ready' \in Seq(Requests)
         /\ queued' \in Int /\ draining' \in BOOLEAN /\ drain_error' \in Errors
<1>0. /\ request \in [Requests -> RequestStates] /\ live \in Seq(Requests)
      /\ pending_admissions \in Seq(Requests) /\ queued \in Int /\ drain_error \in Errors
  BY DEF SchedulerTypes
<1>1. CASE draining BY <1>0, <1>1 DEF EnterDraining
<1>2. CASE ~draining
  <2>1. UnsentLive \in Seq(Requests) BY <1>0, FilterProperties DEF UnsentLive
  <2>2. /\ terminal_ready' = ready \o UnsentLive /\ drain_error' = error
        /\ request' = [r \in Requests |-> IF Known(r) THEN Drained(request[r], error)
                                           ELSE request[r]]
        /\ pending_admissions' = << >> /\ queued' = queued - Len(UnsentLive)
        /\ draining' = TRUE
    BY <1>2 DEF EnterDraining
  <2>3. \A r \in Requests : Drained(request[r], error) \in RequestStates
    BY <1>0, EndedType
  <2>4. request' \in [Requests -> RequestStates] BY <1>0, <2>2, <2>3
  <2>5. ready \o UnsentLive \in Seq(Requests) BY <2>1, ConcatProperties
  <2>6. queued - Len(UnsentLive) \in Int BY <1>0, <2>1, LenProperties, SMT
  <2> QED BY <2>2, <2>4, <2>5, <2>6, EmptySeq
<1> QED BY <1>1, <1>2
-----------------------------------------------------------------------------
(* Every step of the scheduler keeps the types.                            *)
LEMMA SchedulerStepTypes ==
  ASSUME SchedulerTypes, ChannelTypes, SchedulerThread
  PROVE  SchedulerTypes' /\ ChannelTypes'
<1> USE DEF SchedulerTypes, ChannelTypes
<1>0. \A T : \A s \in Seq(T) : s # << >> => Head(s) \in T /\ Tail(s) \in Seq(T)
  BY HeadTailProperties
<1>1. ASSUME NEW r \in Requests, Submit(r) PROVE SchedulerTypes' /\ ChannelTypes'
  <2>1. Fresh("PendingAdmission") \in RequestStates BY FreshType DEF Stages
  <2>2. Append(live, r) \in Seq(Requests) /\ Append(pending_admissions, r) \in Seq(Requests)
    BY AppendProperties
  <2>3. queued + 1 \in Int BY SMT
  <2> QED BY <1>1, <2>1, <2>2, <2>3 DEF Submit, handoffVars, planVars
<1>2. CASE RequestStop
  BY <1>2 DEF RequestStop, handoffVars, lifecycleVars, planVars
<1>3. CASE StopEnvironment
  BY <1>3 DEF StopEnvironment, lifecycleVars, planVars
<1>4. CASE BeginIteration
  <2>1. "EnvironmentStopped" \in Errors BY DEF Errors
  <2>2. /\ request' \in [Requests -> RequestStates]
        /\ pending_admissions' \in Seq(Requests) /\ terminal_ready' \in Seq(Requests)
        /\ queued' \in Int /\ draining' \in BOOLEAN /\ drain_error' \in Errors
    BY <1>4, <2>1, EnterDrainingTypes DEF BeginIteration
  <2> QED BY <1>4, <2>2 DEF BeginIteration, handoffVars, planVars
<1>5. CASE FlushAdmission
  <2> DEFINE r == Head(pending_admissions)
  <2>1. r \in Requests /\ Tail(pending_admissions) \in Seq(Requests)
    BY <1>0, <1>5 DEF FlushAdmission
  <2>2. Append(admissions, r) \in Seq(Requests) BY <2>1, AppendProperties
  <2>3. [request EXCEPT ![r].admission = "InFlight"] \in [Requests -> RequestStates]
    <3>1. "InFlight" \in Ownerships BY DEF Ownerships
    <3>2. [request[r] EXCEPT !.admission = "InFlight"] \in RequestStates
      BY <2>1, <3>1, Zenon DEF RequestStates
    <3> QED BY <2>1, <3>2
  <2> QED BY <1>5, <2>1, <2>2, <2>3 DEF FlushAdmission, planVars
<1>6. CASE FlushDone
  BY <1>6 DEF FlushDone, handoffVars, lifecycleVars, planVars
<1>7. CASE SnapshotEpoch
  BY <1>7, SMT DEF SnapshotEpoch, handoffVars, lifecycleVars, planVars
<1>8. CASE TakeAdmissionResult
  <2> DEFINE answer == Head(admission_results)
             r == answer.id
             q == request[r]
  <2>1. answer \in Results /\ Tail(admission_results) \in Seq(Results)
    BY <1>0, <1>8 DEF TakeAdmissionResult
  <2>2. r \in Requests /\ answer.error \in Errors BY <2>1 DEF Results
  <2>3. q \in RequestStates BY <2>2
  <2>4. Admitted(q, answer) \in RequestStates BY <2>1, <2>3, AdmittedType
  <2>5. ToTerminal(q, FirstError(q.terminal_error, answer.error)) \in RequestStates
    BY <2>2, <2>3, EndedType
  <2>6. /\ Append(terminal_ready, r) \in Seq(Requests)
        /\ active + 1 \in Int /\ queued - 1 \in Int
    BY <2>2, AppendProperties, SMT
  <2>7. /\ request' \in [Requests -> RequestStates] /\ terminal_ready' \in Seq(Requests)
        /\ active' \in Int /\ queued' \in Int
    <3> HIDE DEF answer
    <3>1. CASE ~Awaiting(r)
      BY <1>8, <3>1 DEF TakeAdmissionResult, answer
    <3>2. CASE Awaiting(r) /\ answer.error # "None"
      BY <1>8, <2>2, <2>5, <2>6, <3>2 DEF TakeAdmissionResult, answer
    <3>3. CASE Awaiting(r) /\ answer.error = "None"
      BY <1>8, <2>2, <2>4, <2>6, <3>3 DEF TakeAdmissionResult, answer
    <3> QED BY <3>1, <3>2, <3>3
  <2> QED BY <1>8, <2>1, <2>7 DEF TakeAdmissionResult, planVars
<1>9. CASE TakeOutput
  <2> DEFINE r == Head(outputs)
  <2>1. r \in Requests /\ Tail(outputs) \in Seq(Requests) BY <1>0, <1>9 DEF TakeOutput
  <2>2. [request[r] EXCEPT !.pieces = request[r].pieces + 1] \in RequestStates
    <3>1. request[r] \in RequestStates BY <2>1
    <3>2. request[r].pieces \in Nat BY <3>1 DEF RequestStates
    <3>3. request[r].pieces + 1 \in Nat BY <3>2, SMT
    <3> QED BY <3>1, <3>3, Zenon DEF RequestStates
  <2>3. request' \in [Requests -> RequestStates] BY <1>9, <2>1, <2>2 DEF TakeOutput
  <2> QED BY <1>9, <2>1, <2>3 DEF TakeOutput, planVars
<1>10. CASE TakeCompletion
  <2> DEFINE c == Head(completions)
  <2>1. c \in Completions /\ Tail(completions) \in Seq(Completions)
    BY <1>0, <1>10 DEF TakeCompletion
  <2>2. c.id \in Requests BY <2>1 DEF Completions
  <2>3. Folded(request[c.id], c) \in RequestStates BY <2>1, <2>2, FoldedType
  <2>4. request' \in [Requests -> RequestStates]
    BY <1>10, <2>2, <2>3 DEF TakeCompletion
  <2> QED BY <1>10, <2>1, <2>4 DEF TakeCompletion, planVars
<1>11. CASE TakeReleaseAck
  <2> DEFINE r == Head(release_acks)
             q == request[r]
  <2>1. r \in Requests /\ Tail(release_acks) \in Seq(Requests)
    BY <1>0, <1>11 DEF TakeReleaseAck
  <2>2. q \in RequestStates /\ q.terminal_error \in Errors BY <2>1 DEF RequestStates
  <2>3. ToTerminal(q, q.terminal_error) \in RequestStates BY <2>2, EndedType
  <2>4. /\ Append(terminal_ready, r) \in Seq(Requests)
        /\ active - 1 \in Int /\ queued - 1 \in Int
    BY <2>1, AppendProperties, SMT
  <2>5. /\ request' \in [Requests -> RequestStates] /\ terminal_ready' \in Seq(Requests)
        /\ active' \in Int /\ queued' \in Int
    BY <1>11, <2>1, <2>3, <2>4 DEF TakeReleaseAck
  <2> QED BY <1>11, <2>1, <2>5 DEF TakeReleaseAck, planVars
<1>12. CASE TakeFatal
  <2>1. Head(fatals) \in Errors /\ Tail(fatals) \in Seq(Errors \ {"None"})
    BY <1>0, <1>12 DEF TakeFatal
  <2>2. /\ request' \in [Requests -> RequestStates]
        /\ pending_admissions' \in Seq(Requests) /\ terminal_ready' \in Seq(Requests)
        /\ queued' \in Int /\ draining' \in BOOLEAN /\ drain_error' \in Errors
    BY <1>12, <2>1, EnterDrainingTypes DEF TakeFatal
  <2> QED BY <1>12, <2>1, <2>2 DEF TakeFatal
<1>13. CASE DrainDone
  <2>1. Unreleased(request) \in Seq(Requests) BY FilterProperties DEF Unreleased
  <2>2. sweep' \in Seq(Requests) BY <1>13, <2>1, EmptySeq DEF DrainDone
  <2> QED BY <1>13, <2>2 DEF DrainDone, handoffVars, lifecycleVars, planVars
<1>14. CASE TryRelease
  <2> DEFINE r == Head(sweep)
  <2>1. r \in Requests /\ Tail(sweep) \in Seq(Requests) BY <1>0, <1>14 DEF TryRelease
  <2>2. Append(releases, r) \in Seq(Requests) BY <2>1, AppendProperties
  <2>3. [request[r] EXCEPT !.release_sent = TRUE] \in RequestStates
    BY <2>1, Zenon DEF RequestStates
  <2>4. request' \in [Requests -> RequestStates] /\ releases' \in Seq(Requests)
    BY <1>14, <2>1, <2>2, <2>3 DEF TryRelease
  <2> QED BY <1>14, <2>1, <2>4 DEF TryRelease, planVars
<1>15. CASE ReleasesDone
  BY <1>15 DEF ReleasesDone, handoffVars, lifecycleVars, planVars
<1>16. CASE RetireTerminal
  <2>1. Filter(live, Requests \ {Head(terminal_ready)}) \in Seq(Requests)
    BY FilterProperties
  <2>2. live' \in Seq(Requests) /\ terminal_ready' \in Seq(Requests)
    BY <1>0, <1>16, <2>1 DEF RetireTerminal
  <2> QED BY <1>16, <2>2 DEF RetireTerminal, handoffVars, planVars
<1>17. CASE ObserverFails
  <2>1. "EnvironmentStopped" \in Errors BY DEF Errors
  <2>2. Tail(terminal_ready) \in Seq(Requests) BY <1>0, <1>17 DEF ObserverFails
  <2>3. /\ request' \in [Requests -> RequestStates]
        /\ pending_admissions' \in Seq(Requests) /\ terminal_ready' \in Seq(Requests)
        /\ queued' \in Int /\ draining' \in BOOLEAN /\ drain_error' \in Errors
    BY <1>17, <2>1, <2>2, EnterDrainingTypes DEF ObserverFails
  <2> QED BY <1>17, <2>3 DEF ObserverFails, handoffVars, planVars
<1>18. CASE ObserveBatch
  BY <1>18 DEF ObserveBatch, handoffVars, lifecycleVars
<1>19. CASE FinishRun \/ KeepRunning \/ WaitForRelease
  BY <1>19 DEF FinishRun, KeepRunning, WaitForRelease, handoffVars, lifecycleVars, planVars
<1>20. CASE RejectPlan \/ NoWork \/ BuildThrows
  <2>1. "EnvironmentStopped" \in Errors /\ "ProtocolViolation" \in Errors BY DEF Errors
  <2>2. /\ request' \in [Requests -> RequestStates]
        /\ pending_admissions' \in Seq(Requests) /\ terminal_ready' \in Seq(Requests)
        /\ queued' \in Int /\ draining' \in BOOLEAN /\ drain_error' \in Errors
    BY <1>20, <2>1, EnterDrainingTypes DEF RejectPlan, NoWork, BuildThrows
  <2>3. Unreleased(request') \in Seq(Requests) BY FilterProperties DEF Unreleased
  <2> QED BY <1>20, <2>2, <2>3 DEF RejectPlan, NoWork, BuildThrows, handoffVars, planVars
<1>21. CASE PublishPlan
  <2>1. PICK work \in PolicyPlans :
          LET first == {work[i].id : i \in DOMAIN work} \cap
                       {r \in Requests : ~request[r].start_recorded}
          IN  /\ published' = [epoch |-> published_epoch + 1, work |-> work]
              /\ request' = [r \in Requests |->
                   IF r \in first THEN [request[r] EXCEPT !.start_recorded = TRUE]
                   ELSE request[r]]
              /\ queued' = queued - Cardinality(first)
    BY <1>21 DEF PublishPlan
  <2> DEFINE first == {work[i].id : i \in DOMAIN work} \cap
                      {r \in Requests : ~request[r].start_recorded}
  <2>2. work \in Seq(WorkItems) BY PolicyPlansType
  <2>3. published_epoch' = published_epoch + 1 /\ published_epoch + 1 \in Nat
    BY <1>21, SMT DEF PublishPlan
  <2>4. published' \in Plans BY <2>1, <2>2, <2>3 DEF Plans
  <2>5. \A r \in Requests : [request[r] EXCEPT !.start_recorded = TRUE] \in RequestStates
    BY Zenon DEF RequestStates
  <2>6. request' \in [Requests -> RequestStates]
    <3> HIDE DEF first
    <3>1. request' = [r \in Requests |->
                        IF r \in first THEN [request[r] EXCEPT !.start_recorded = TRUE]
                        ELSE request[r]]
      BY <2>1 DEF first
    <3> QED BY <2>5, <3>1
  <2>7. queued' \in Int
    <3>1. IsFiniteSet({work[i].id : i \in DOMAIN work})
      <4>1. IsFiniteSet(DOMAIN work) BY <2>2, LenProperties, FS_Interval, SMT
      <4> DEFINE ids == {work[i].id : i \in DOMAIN work}
      <4>2. [i \in DOMAIN work |-> work[i].id] \in Surjection(DOMAIN work, ids)
        BY DEF Surjection
      <4> QED BY <4>1, <4>2, FS_Surjection
    <3>2. Cardinality(first) \in Nat BY <3>1, FS_Subset, FS_CardinalityType
    <3> HIDE DEF first
    <3>3. queued' = queued - Cardinality(first) BY <2>1 DEF first
    <3> QED BY <3>2, <3>3, SMT
  <2>8. /\ run_pc' = "outside" /\ published_success' = TRUE
        /\ UNCHANGED <<live, pending_admissions, terminal_ready, observer_enabled,
                       active, draining, drain_error, scheduler_stop, sweep,
                       plan_done, observed_epoch, admissions, releases,
                       admission_results, completions, outputs, release_acks, fatals,
                       completed_epoch, stop_requested>>
    BY <1>21 DEF PublishPlan
  <2> QED BY <2>3, <2>4, <2>6, <2>7, <2>8
<1> QED
  BY <1>1, <1>2, <1>3, <1>4, <1>5, <1>6, <1>7, <1>8, <1>9, <1>10, <1>11, <1>12,
     <1>13, <1>14, <1>15, <1>16, <1>17, <1>18, <1>19, <1>20, <1>21
  DEF SchedulerThread, SchedulerNext, SchedulerStep
-----------------------------------------------------------------------------
(* What the functions on the prefix cache return.                          *)
LEMMA MatchType ==
  ASSUME NEW entries \in Seq(Entries), NEW prompt \in Seq(Tokens)
  PROVE  \/ FindLongestFullPrefix(entries, prompt) = 0
         \/ FindLongestFullPrefix(entries, prompt) \in DOMAIN entries
<1> DEFINE full == {i \in DOMAIN entries : entries[i].tokens # << >>
                                          /\ IsPrefix(entries[i].tokens, prompt)}
           Longest(i) == \A j \in full :
                           \/ Len(entries[i].tokens) > Len(entries[j].tokens)
                           \/ Len(entries[i].tokens) = Len(entries[j].tokens) /\ i <= j
<1>1. \A i \in full : /\ i \in Nat /\ Len(entries[i].tokens) \in Nat
                      /\ Len(entries[i].tokens) <= Len(prompt)
  <2> SUFFICES ASSUME NEW i \in full
               PROVE  /\ i \in Nat /\ Len(entries[i].tokens) \in Nat
                      /\ Len(entries[i].tokens) <= Len(prompt)
    OBVIOUS
  <2>1. i \in 1 .. Len(entries) /\ entries[i] \in Entries BY LenProperties
  <2>2. entries[i].tokens \in Seq(Tokens) BY <2>1 DEF Entries
  <2>3. i \in Nat BY <2>1, LenProperties, SMT
  <2> QED BY <2>2, <2>3, LenProperties DEF IsPrefix
<1>2. ASSUME full # {} PROVE \E i \in full : Longest(i)
  <2> DEFINE short == {n \in Nat : \E i \in full : n = Len(prompt) - Len(entries[i].tokens)}
  <2>0. Len(prompt) \in Nat BY LenProperties
  <2>1. \A i \in full : Len(prompt) - Len(entries[i].tokens) \in short
    <3> TAKE i \in full
    <3>1. Len(prompt) - Len(entries[i].tokens) \in Nat BY <1>1, <2>0, SMT
    <3> QED BY <3>1
  <2>2. short # {} /\ short \subseteq Nat BY <1>2, <2>1
  <2>3. PICK n \in short : \A m \in short : n <= m BY <2>2, LeastNumber
  <2> DEFINE firsts == {i \in full : Len(prompt) - Len(entries[i].tokens) = n}
  <2>4. firsts # {} /\ firsts \subseteq Nat BY <1>1
  <2>5. PICK i \in firsts : \A j \in firsts : i <= j BY <2>4, LeastNumber
  <2> HIDE DEF short, full
  <2>6. i \in full /\ Len(prompt) - Len(entries[i].tokens) = n OBVIOUS
  <2>7. ASSUME NEW j \in full
        PROVE  \/ Len(entries[i].tokens) > Len(entries[j].tokens)
               \/ Len(entries[i].tokens) = Len(entries[j].tokens) /\ i <= j
    <3>1. n <= Len(prompt) - Len(entries[j].tokens) BY <2>1, <2>3
    <3>2. CASE Len(prompt) - Len(entries[j].tokens) = n
      <4>1. i <= j BY <2>5, <3>2
      <4> QED BY <1>1, <2>0, <2>6, <3>2, <4>1, SMT
    <3>3. CASE Len(prompt) - Len(entries[j].tokens) # n
      <4> DEFINE x == Len(entries[i].tokens)
                 y == Len(entries[j].tokens)
      <4>1. x \in Nat /\ y \in Nat BY <1>1, <2>6
      <4>2. Len(prompt) - x < Len(prompt) - y
        <5>1. n \in Nat BY <2>2, <2>3
        <5>2. Len(prompt) - x = n /\ n <= Len(prompt) - y /\ Len(prompt) - y # n
          BY <2>6, <3>1, <3>3
        <5> HIDE DEF x, y
        <5> QED BY <2>0, <4>1, <5>1, <5>2, SMT
      <4> HIDE DEF x, y
      <4>3. x > y BY <2>0, <4>1, <4>2, SMT
      <4> QED BY <4>3 DEF x, y
    <3> QED BY <3>2, <3>3
  <2> QED BY <2>6, <2>7
<1> HIDE DEF Longest
<1>3. FindLongestFullPrefix(entries, prompt)
        = IF full = {} THEN 0 ELSE CHOOSE i \in full : Longest(i)
  BY DEF FindLongestFullPrefix, Longest
<1> QED BY <1>2, <1>3

(* An entry replaces the one of its conversation, or joins the others      *)
(* after one of them has left a full cache.                                *)
LEMMA RetainCases ==
  ASSUME NEW entries \in Seq(Entries), NEW entry \in Entries, NEW capacity \in Nat \ {0}
  PROVE  \/ \E k \in DOMAIN entries :
              /\ entry.conversation # NoConversation
              /\ entries[k].conversation = entry.conversation
              /\ Retain(entries, entry, capacity) = ReplaceAt(entries, k, entry)
         \/ /\ entry.conversation = NoConversation
               \/ \A i \in DOMAIN entries : entries[i].conversation # entry.conversation
            /\ \/ /\ Len(entries) = capacity
                  /\ \E k \in DOMAIN entries :
                       Retain(entries, entry, capacity) = Append(RemoveAt(entries, k), entry)
               \/ /\ Len(entries) # capacity
                  /\ Retain(entries, entry, capacity) = Append(entries, entry)
<1> DEFINE same == {i \in DOMAIN entries : entry.conversation # NoConversation
                                      /\ entries[i].conversation = entry.conversation}
           First(i) == \A j \in same : i <= j
           Oldest(i) == \A j \in DOMAIN entries :
                          \/ entries[i].last_used < entries[j].last_used
                          \/ entries[i].last_used = entries[j].last_used /\ i <= j
<1>1. /\ DOMAIN entries = 1 .. Len(entries) /\ DOMAIN entries \subseteq Nat
      /\ \A i \in DOMAIN entries : entries[i].last_used \in Nat
  <2>1. DOMAIN entries = 1 .. Len(entries) /\ Len(entries) \in Nat BY LenProperties
  <2>2. \A i \in DOMAIN entries : entries[i] \in Entries BY <2>1, LenProperties
  <2>3. DOMAIN entries \subseteq Nat BY <2>1, SMT
  <2> QED BY <2>1, <2>2, <2>3 DEF Entries
<1>2. same # {} => \E i \in same : First(i) BY <1>1, LeastNumber
<1>3. ASSUME DOMAIN entries # {} PROVE \E i \in DOMAIN entries : Oldest(i)
  <2> DEFINE times == {entries[i].last_used : i \in DOMAIN entries}
  <2>1. times # {} /\ times \subseteq Nat BY <1>1, <1>3
  <2>2. PICK n \in times : \A m \in times : n <= m BY <2>1, LeastNumber
  <2> DEFINE olds == {i \in DOMAIN entries : entries[i].last_used = n}
  <2>3. olds # {} /\ olds \subseteq Nat BY <1>1
  <2>4. PICK i \in olds : \A j \in olds : i <= j BY <2>3, LeastNumber
  <2>5. ASSUME NEW j \in DOMAIN entries
        PROVE  \/ entries[i].last_used < entries[j].last_used
               \/ entries[i].last_used = entries[j].last_used /\ i <= j
    <3>1. n <= entries[j].last_used BY <2>2
    <3>2. i \in DOMAIN entries /\ entries[i].last_used = n OBVIOUS
    <3>3. CASE entries[j].last_used = n BY <2>4, <3>2, <3>3
    <3>4. CASE entries[j].last_used # n
      <4>1. n \in Nat /\ entries[j].last_used \in Nat BY <1>1, <2>1
      <4>2. n < entries[j].last_used BY <3>1, <3>4, <4>1, SMT
      <4> QED BY <3>2, <4>2
    <3> QED BY <3>3, <3>4
  <2> QED BY <2>5
<1>4. Len(entries) = capacity => DOMAIN entries # {} BY <1>1, SMT
<1> HIDE DEF First, Oldest
<1>5. Retain(entries, entry, capacity)
        = IF same # {} THEN ReplaceAt(entries, CHOOSE i \in same : First(i), entry)
          ELSE IF Len(entries) = capacity
               THEN Append(RemoveAt(entries, CHOOSE i \in DOMAIN entries : Oldest(i)), entry)
               ELSE Append(entries, entry)
  BY DEF Retain, First, Oldest
<1>6. CASE same # {}
  <2> DEFINE k == CHOOSE i \in same : First(i)
  <2>1. k \in same BY <1>2, <1>6
  <2>2. Retain(entries, entry, capacity) = ReplaceAt(entries, k, entry) BY <1>5, <1>6
  <2> HIDE DEF k
  <2> QED BY <2>1, <2>2
<1>7. CASE same = {}
  <2>1. entry.conversation = NoConversation
        \/ \A i \in DOMAIN entries : entries[i].conversation # entry.conversation
    BY <1>7
  <2>2. CASE Len(entries) = capacity
    <3> DEFINE k == CHOOSE i \in DOMAIN entries : Oldest(i)
    <3>1. k \in DOMAIN entries BY <1>3, <1>4, <2>2
    <3>2. Retain(entries, entry, capacity) = Append(RemoveAt(entries, k), entry)
      BY <1>5, <1>7, <2>2
    <3> HIDE DEF k, same
    <3> QED BY <2>1, <2>2, <3>1, <3>2
  <2>3. CASE Len(entries) # capacity BY <1>5, <1>7, <2>1, <2>3
  <2> QED BY <2>2, <2>3
<1> QED BY <1>6, <1>7

(* The cache is a list of entries after one is retained.                   *)
LEMMA RetainType ==
  ASSUME NEW entries \in Seq(Entries), NEW entry \in Entries, NEW capacity \in Nat \ {0}
  PROVE  Retain(entries, entry, capacity) \in Seq(Entries)
<1>1. Append(entries, entry) \in Seq(Entries) BY AppendProperties
<1>2. \A k \in DOMAIN entries : Append(RemoveAt(entries, k), entry) \in Seq(Entries)
  BY LeaveOut, AppendProperties
<1>3. \A k \in DOMAIN entries : ReplaceAt(entries, k, entry) \in Seq(Entries)
  BY ExceptSeq, LenProperties DEF ReplaceAt
<1>4. \/ \E k \in DOMAIN entries :
            Retain(entries, entry, capacity) = ReplaceAt(entries, k, entry)
      \/ \E k \in DOMAIN entries :
            Retain(entries, entry, capacity) = Append(RemoveAt(entries, k), entry)
      \/ Retain(entries, entry, capacity) = Append(entries, entry)
  BY RetainCases, Zenon
<1> QED BY <1>1, <1>2, <1>3, <1>4, Zenon
-----------------------------------------------------------------------------
(* What a failure sends is an error.                                       *)
LEMMA FailRunTypes ==
  ASSUME fatals \in Seq(Errors \ {"None"}), env_fatal \in BOOLEAN,
         NEW error \in Errors \ {"None"}, FailRun(error) \/ NoFailure
  PROVE  fatals' \in Seq(Errors \ {"None"}) /\ env_fatal' \in BOOLEAN
<1>1. Append(fatals, error) \in Seq(Errors \ {"None"}) BY AppendProperties
<1>2. CASE FailRun(error)
  <2>1. fatals' = fatals \/ fatals' = Append(fatals, error) BY <1>2 DEF FailRun
  <2>2. env_fatal' = TRUE BY <1>2 DEF FailRun
  <2> QED BY <1>1, <2>1, <2>2
<1>3. CASE NoFailure BY <1>3 DEF NoFailure
<1> QED BY <1>2, <1>3

(* What a step leaves behind that resolves an admission.                   *)
ResolvedTypes ==
  /\ records' \in [Requests -> Records \cup {Nothing}]
  /\ free_sequences' \in Seq(0 .. MaxSequences - 1)
  /\ env_fatal' \in BOOLEAN /\ fatals' \in Seq(Errors \ {"None"})
  /\ pending_admission' \in PendingAdmissions \cup {Nothing}
  /\ result' \in Results \cup {Nothing}
  /\ result' # Nothing <=> env_pc' = "result"
  /\ cache' \in Seq(Entries) /\ cache_clock' \in Nat
  /\ env_pc' \in {"result", "plan", "top"}

(* What is reported of an admission is a result,                           *)
LEMMA ReportTypes ==
  ASSUME NEW id \in Requests, NEW n \in Nat, NEW cached \in Nat, NEW error \in Errors,
         Report(id, n, cached, error)
  PROVE  /\ result' \in Results /\ result' # Nothing /\ env_pc' = "result"
         /\ pending_admission' = Nothing
BY NothingElse DEF Report, Results

(* with a record when a sequence was assigned,                             *)
LEMMA AssignTypes ==
  ASSUME EnvironmentTypes, NEW p \in PendingAdmissions, NEW position \in Nat,
         free_sequences # << >>, Assign(p, position)
  PROVE  /\ records' \in [Requests -> Records \cup {Nothing}]
         /\ free_sequences' \in Seq(0 .. MaxSequences - 1)
         /\ result' \in Results /\ result' # Nothing /\ env_pc' = "result"
         /\ pending_admission' = Nothing
<1>1. p.id \in Requests BY DEF PendingAdmissions
<1>2. Len(Prompt[p.id]) \in Nat BY <1>1, EnvironmentAssumption, LenProperties
<1>3. free_sequences \in Seq(0 .. MaxSequences - 1) BY DEF EnvironmentTypes
<1>4. /\ Last(free_sequences) \in 0 .. MaxSequences - 1
      /\ Front(free_sequences) \in Seq(0 .. MaxSequences - 1)
  BY <1>3, TakeLast
<1>5. [sequence |-> Last(free_sequences), prefill_position |-> position,
       decoded_tokens |-> 0] \in Records
  BY <1>4, SMT DEF Records
<1>6. Report(p.id, Len(Prompt[p.id]), position, "None") BY DEF Assign
<1>7. "None" \in Errors BY DEF Errors
<1>8. /\ records' = [records EXCEPT ![p.id] =
           [sequence |-> Last(free_sequences), prefill_position |-> position,
            decoded_tokens |-> 0]]
      /\ free_sequences' = Front(free_sequences)
  BY DEF Assign
<1>9. records' \in [Requests -> Records \cup {Nothing}]
  <2>1. records \in [Requests -> Records \cup {Nothing}] BY DEF EnvironmentTypes
  <2> QED BY <1>1, <1>5, <1>8, <2>1
<1> QED BY <1>1, <1>2, <1>4, <1>6, <1>7, <1>8, <1>9, ReportTypes

(* however the admission is resolved.                                      *)
LEMMA ResolveTypes ==
  ASSUME EnvironmentTypes, fatals \in Seq(Errors \ {"None"}), env_pc = "admissions",
         NEW p \in PendingAdmissions, Resolve(p)
  PROVE  ResolvedTypes
<1> USE DEF EnvironmentTypes
<1>0. /\ p.id \in Requests /\ [p EXCEPT !.validated = TRUE] \in PendingAdmissions
      /\ 0 \in Nat /\ Prompt[p.id] \in Seq(Tokens) /\ Len(Prompt[p.id]) \in Nat
      /\ result = Nothing
  <2>1. p.id \in Requests BY DEF PendingAdmissions
  <2>2. [p EXCEPT !.validated = TRUE] \in PendingAdmissions BY Zenon DEF PendingAdmissions
  <2> QED BY <2>1, <2>2, EnvironmentAssumption, LenProperties, SMT
<1>1. Errors = {"None", "TokenizationFailed", "ContextCapacityExceeded", "DecodeFailed",
                "SamplingFailed", "ProtocolViolation", "EnvironmentStopped"}
  BY DEF Errors
<1>2. CASE Reject(p)
  <2>1. Verdict(p) \in Errors BY <1>1 DEF Verdict
  <2>2. Report(p.id, 0, 0, Verdict(p)) BY <1>2 DEF Reject
  <2>3. /\ result' \in Results /\ result' # Nothing /\ env_pc' = "result"
        /\ pending_admission' = Nothing
    BY <1>0, <2>1, <2>2, ReportTypes
  <2> QED BY <1>2, <2>3 DEF Reject, ResolvedTypes, NoFailure, cacheVars
<1>3. CASE ValidationThrows(p)
  <2>1. Report(p.id, 0, 0, "EnvironmentStopped") /\ FailRun("EnvironmentStopped")
    BY <1>3 DEF ValidationThrows
  <2>2. /\ result' \in Results /\ result' # Nothing /\ env_pc' = "result"
        /\ pending_admission' = Nothing
    BY <1>0, <1>1, <2>1, ReportTypes
  <2>3. fatals' \in Seq(Errors \ {"None"}) /\ env_fatal' \in BOOLEAN
    BY <1>1, <2>1, FailRunTypes
  <2> QED BY <1>3, <2>2, <2>3 DEF ValidationThrows, ResolvedTypes, cacheVars
<1>4. CASE Hold(p)
  BY <1>0, <1>4 DEF Hold, ResolvedTypes, NoFailure, cacheVars
<1>5. CASE SamplerFails(p)
  <2>1. Report(p.id, 0, 0, "SamplingFailed") BY <1>5 DEF SamplerFails
  <2>2. /\ result' \in Results /\ result' # Nothing /\ env_pc' = "result"
        /\ pending_admission' = Nothing
    BY <1>0, <1>1, <2>1, ReportTypes
  <2> QED BY <1>5, <2>2 DEF SamplerFails, ResolvedTypes, NoFailure, cacheVars
<1>6. CASE Accept(p)
  <2>0. free_sequences # << >> /\ cache \in Seq(Entries) /\ cache_clock + 1 \in Nat
    BY <1>6, SMT DEF Accept
  <2> DEFINE m == Match(p)
  <2>1. CASE /\ m # 0 /\ Assign(p, Len(cache[m].tokens))
             /\ cache' = [cache EXCEPT ![m].last_used = cache_clock + 1]
             /\ cache_clock' = cache_clock + 1
    <3>1. m \in DOMAIN cache BY <1>0, <2>0, <2>1, MatchType DEF Match
    <3>2. cache[m] \in Entries BY <2>0, <3>1, LenProperties
    <3>3. Len(cache[m].tokens) \in Nat BY <3>2, LenProperties DEF Entries
    <3> HIDE DEF m
    <3>4. [cache[m] EXCEPT !.last_used = cache_clock + 1] \in Entries
      BY <2>0, <3>2, Zenon DEF Entries
    <3>5. cache' \in Seq(Entries)
      <4>1. cache' = [cache EXCEPT ![m] = [cache[m] EXCEPT !.last_used = cache_clock + 1]]
        BY <2>1
      <4> QED BY <2>0, <3>1, <3>4, <4>1, ExceptSeq, LenProperties
    <3>6. /\ records' \in [Requests -> Records \cup {Nothing}]
          /\ free_sequences' \in Seq(0 .. MaxSequences - 1)
          /\ result' \in Results /\ result' # Nothing /\ env_pc' = "result"
          /\ pending_admission' = Nothing
      BY <2>0, <2>1, <3>3, AssignTypes
    <3>7. UNCHANGED <<env_fatal, fatals>> BY <2>1 DEF Assign, NoFailure
    <3> QED BY <2>0, <2>1, <3>5, <3>6, <3>7 DEF ResolvedTypes
  <2>2. CASE Assign(p, 0) /\ UNCHANGED cacheVars
    <3>1. /\ records' \in [Requests -> Records \cup {Nothing}]
          /\ free_sequences' \in Seq(0 .. MaxSequences - 1)
          /\ result' \in Results /\ result' # Nothing /\ env_pc' = "result"
          /\ pending_admission' = Nothing
      BY <1>0, <2>0, <2>2, AssignTypes
    <3>2. UNCHANGED <<env_fatal, fatals, cache, cache_clock>>
      BY <2>2 DEF Assign, NoFailure, cacheVars
    <3> QED BY <3>1, <3>2 DEF ResolvedTypes
  <2> QED BY <1>6, <2>1, <2>2 DEF Accept
<1>7. CASE RestoreBreaks(p)
  <2>1. Report(p.id, Len(Prompt[p.id]), 0, "DecodeFailed") /\ FailRun("DecodeFailed")
    BY <1>7 DEF RestoreBreaks
  <2>2. /\ result' \in Results /\ result' # Nothing /\ env_pc' = "result"
        /\ pending_admission' = Nothing
    BY <1>0, <1>1, <2>1, ReportTypes
  <2>3. fatals' \in Seq(Errors \ {"None"}) /\ env_fatal' \in BOOLEAN
    BY <1>1, <2>1, FailRunTypes
  <2> QED BY <1>7, <2>2, <2>3 DEF RestoreBreaks, ResolvedTypes, cacheVars
<1>8. CASE AcceptThrows(p)
  <2>1. Front(free_sequences) \in Seq(0 .. MaxSequences - 1)
    BY <1>8, TakeLast DEF AcceptThrows
  <2>2. fatals' \in Seq(Errors \ {"None"}) /\ env_fatal' \in BOOLEAN
    BY <1>1, <1>8, FailRunTypes DEF AcceptThrows
  <2> QED BY <1>0, <1>8, <2>1, <2>2 DEF AcceptThrows, ResolvedTypes, cacheVars
<1> QED BY <1>2, <1>3, <1>4, <1>5, <1>6, <1>7, <1>8 DEF Resolve
-----------------------------------------------------------------------------
(* A step changes the record of the item in execution only, and so leaves  *)
(* those of the items still to come as they were found.                    *)
LEMMA LaterItemsKeep ==
  ASSUME ExecutionInv, env_pc \in {"items", "output", "completion"},
         plan' = plan, item' = item,
         env_pc' \in {"output", "completion"}, item <= Len(plan.work),
         plan.work \in Seq(WorkItems), item \in Nat,
         \A r \in Requests \ {Work.id} : records'[r] = records[r]
  PROVE  ExecutionInv'
<1>1. /\ item \in DOMAIN plan.work
      /\ \A i \in DOMAIN plan.work : plan.work[i].id \in Requests
      /\ \A i \in DOMAIN plan.work : i \in Int
  <2>1. Len(plan.work) \in Nat /\ DOMAIN plan.work = 1 .. Len(plan.work) BY LenProperties
  <2>2. item >= 1 BY DEF ExecutionInv
  <2>3. \A i \in DOMAIN plan.work : plan.work[i] \in WorkItems BY <2>1, LenProperties
  <2>4. item \in DOMAIN plan.work /\ \A i \in DOMAIN plan.work : i \in Int
    BY <2>1, <2>2, SMT
  <2> QED BY <2>3, <2>4 DEF WorkItems
<1>2. ASSUME NEW i \in DOMAIN plan.work, i > item PROVE Executable(plan.work[i])'
  <2>1. i # item BY <1>1, <1>2, SMT
  <2>2. plan.work[i].id # Work.id BY <1>1, <2>1 DEF ExecutionInv, Work
  <2>3. records'[plan.work[i].id] = records[plan.work[i].id] BY <1>1, <2>2
  <2>4. Executable(plan.work[i]) BY <1>2 DEF ExecutionInv
  <2> QED BY <2>3, <2>4 DEF Executable, Held
<1>3. env_pc' # "items" OBVIOUS
<1> QED BY <1>2, <1>3 DEF ExecutionInv

(* What the record of the item in execution becomes.                       *)
LEMMA AdvancedType ==
  ASSUME EnvironmentTypes, ExecutionInv, env_pc = "items", item <= Len(plan.work)
  PROVE  /\ Work \in WorkItems /\ Work.id \in Requests /\ Executable(Work)
         /\ plan.work \in Seq(WorkItems) /\ item \in Nat
         /\ records[Work.id] \in Records /\ Advanced \in Records
         /\ Prompt[Work.id] \in Seq(Tokens) /\ Len(Prompt[Work.id]) \in Nat
<1>1. /\ plan.work \in Seq(WorkItems) /\ item \in Nat
      /\ records \in [Requests -> Records \cup {Nothing}]
  BY DEF EnvironmentTypes, Plans
<1>2. item >= 1 /\ Executable(Work) BY DEF ExecutionInv
<1>3. item \in 1 .. Len(plan.work) BY <1>1, <1>2, LenProperties, SMT
<1>4. Work \in WorkItems BY <1>1, <1>3, LenProperties DEF Work
<1>5. Work.id \in Requests /\ Work.end \in Nat BY <1>4 DEF WorkItems
<1>6. records[Work.id] \in Records BY <1>1, <1>2, <1>5 DEF Executable, Held
<1>7. Advanced \in Records
  <2>1. [records[Work.id] EXCEPT !.prefill_position = Work.end] \in Records
    BY <1>5, <1>6, Zenon DEF Records
  <2> QED BY <1>6, <2>1 DEF Advanced
<1>8. Prompt[Work.id] \in Seq(Tokens) /\ Len(Prompt[Work.id]) \in Nat
  BY <1>5, EnvironmentAssumption, LenProperties
<1> QED BY <1>1, <1>2, <1>4, <1>5, <1>6, <1>7, <1>8

(* What is reported of an item is a completion.                            *)
LEMMA CompleteType ==
  ASSUME Work \in WorkItems, Len(Prompt[Work.id]) \in Nat,
         NEW decoded \in Nat, NEW eos \in BOOLEAN, Complete(decoded, eos)
  PROVE  completion' \in Completions /\ completion' # Nothing
<1>1. Work.id \in Requests /\ Work.end \in Nat BY DEF WorkItems
<1>2. completion' \in Completions BY <1>1, Zenon DEF Complete, Completions
<1> QED BY <1>2, NothingElse

(* Remembering a prompt keeps the cache a list of entries.                 *)
LEMMA RememberTypes ==
  ASSUME EnvironmentTypes, Remember, Work.id \in Requests, Prompt[Work.id] \in Seq(Tokens)
  PROVE  cache' \in Seq(Entries) /\ cache_clock' \in Nat
<1>1. CASE UNCHANGED cacheVars BY <1>1 DEF cacheVars, EnvironmentTypes
<1>2. CASE /\ cache' = Retain(cache, [tokens |-> Prompt[Work.id],
                                last_used |-> cache_clock + 1,
                                conversation |-> Conversation[Work.id]],
                        CacheCapacity)
           /\ cache_clock' = cache_clock + 1
  <2>1. cache \in Seq(Entries) /\ cache_clock + 1 \in Nat
    BY SMT DEF EnvironmentTypes
  <2>2. [tokens |-> Prompt[Work.id], last_used |-> cache_clock + 1,
         conversation |-> Conversation[Work.id]] \in Entries
    BY <2>1 DEF Entries
  <2>3. CacheCapacity \in Nat \ {0} BY EnvironmentAssumption
  <2> QED BY <1>2, <2>1, <2>2, <2>3, RetainType
<1> QED BY <1>1, <1>2 DEF Remember
-----------------------------------------------------------------------------
(* Every step of the environment keeps the types.                          *)
LEMMA EnvironmentStepTypes ==
  ASSUME ChannelTypes, EnvironmentTypes, ExecutionInv, EnvironmentThread
  PROVE  ChannelTypes' /\ EnvironmentTypes' /\ ExecutionInv'
<1> DEFINE Goal == ChannelTypes' /\ EnvironmentTypes' /\ ExecutionInv'
<1>0. \A T : \A s \in Seq(T) : s # << >> => Head(s) \in T /\ Tail(s) \in Seq(T)
  BY HeadTailProperties
<1>a. Errors = {"None", "TokenizationFailed", "ContextCapacityExceeded", "DecodeFailed",
                "SamplingFailed", "ProtocolViolation", "EnvironmentStopped"}
  BY DEF Errors
<1>b. fatals \in Seq(Errors \ {"None"}) /\ env_fatal \in BOOLEAN
  BY DEF ChannelTypes, EnvironmentTypes
<1>1. CASE BeginTurn \/ ReleasesTaken \/ AdmissionsTaken \/ SkipPlan
  <2>1. ChannelTypes' /\ EnvironmentTypes'
    BY <1>1 DEF BeginTurn, ReleasesTaken, AdmissionsTaken, SkipPlan, handoffVars,
                workVars, cacheVars, ChannelTypes, EnvironmentTypes
  <2>2. ExecutionInv'
    BY <1>1 DEF BeginTurn, ReleasesTaken, AdmissionsTaken, SkipPlan, ExecutionInv
  <2> QED BY <2>1, <2>2
<1>2. CASE TakeRelease
  <2>1. Head(releases) \in Requests /\ Tail(releases) \in Seq(Requests)
    BY <1>0, <1>2 DEF TakeRelease, ChannelTypes
  <2>2. records' \in [Requests -> Records \cup {Nothing}]
    BY <1>2, <2>1 DEF TakeRelease, EnvironmentTypes
  <2>3. free_sequences' \in Seq(0 .. MaxSequences - 1)
    <3>1. /\ free_sequences \in Seq(0 .. MaxSequences - 1)
          /\ records \in [Requests -> Records \cup {Nothing}]
      BY DEF EnvironmentTypes
    <3>2. Held(Head(releases)) => records[Head(releases)].sequence \in 0 .. MaxSequences - 1
      BY <2>1, <3>1, Zenon DEF Held, Records
    <3>3. \/ free_sequences' = free_sequences
          \/ /\ Held(Head(releases))
             /\ free_sequences' = Append(free_sequences, records[Head(releases)].sequence)
      BY <1>2 DEF TakeRelease
    <3>4. Held(Head(releases)) =>
            Append(free_sequences, records[Head(releases)].sequence) \in Seq(0 .. MaxSequences - 1)
      BY <3>1, <3>2, AppendProperties, Zenon
    <3> QED BY <3>1, <3>3, <3>4, Zenon
  <2>4. fatals' \in Seq(Errors \ {"None"}) /\ env_fatal' \in BOOLEAN
    <3>1. NoFailure \/ FailRun("DecodeFailed") BY <1>2 DEF TakeRelease
    <3> QED BY <3>1, <1>a, <1>b, FailRunTypes
  <2>5. ChannelTypes' BY <1>2, <2>1, <2>4 DEF TakeRelease, ChannelTypes
  <2>6. EnvironmentTypes'
    BY <1>2, <2>1, <2>2, <2>3, <2>4 DEF TakeRelease, EnvironmentTypes, workVars, cacheVars
  <2>7. ExecutionInv' BY <1>2 DEF TakeRelease, ExecutionInv
  <2> QED BY <2>5, <2>6, <2>7
<1>3. CASE AcknowledgeRelease
  <2>1. ack \in Requests BY <1>3 DEF AcknowledgeRelease, EnvironmentTypes
  <2>2. Append(release_acks, ack) \in Seq(Requests)
    BY <2>1, AppendProperties DEF ChannelTypes
  <2>3. ChannelTypes' BY <1>3, <2>2 DEF AcknowledgeRelease, ChannelTypes
  <2>4. EnvironmentTypes'
    BY <1>3 DEF AcknowledgeRelease, EnvironmentTypes, workVars, cacheVars
  <2>5. ExecutionInv' BY <1>3 DEF AcknowledgeRelease, ExecutionInv
  <2> QED BY <2>3, <2>4, <2>5
<1>4. CASE TakeAdmission
  <2>1. Head(admissions) \in Requests /\ Tail(admissions) \in Seq(Requests)
    BY <1>0, <1>4 DEF TakeAdmission, ChannelTypes
  <2>2. [id |-> Head(admissions), validated |-> FALSE] \in PendingAdmissions
    BY <2>1 DEF PendingAdmissions
  <2>3. ResolvedTypes BY <1>4, <1>b, <2>2, ResolveTypes DEF TakeAdmission
  <2>4. ChannelTypes' BY <1>4, <2>1, <2>3 DEF TakeAdmission, ChannelTypes, ResolvedTypes
  <2>5. EnvironmentTypes'
    <3>1. env_pc' \notin {"ack", "output", "completion"} BY <2>3 DEF ResolvedTypes
    <3>2. completion = Nothing BY <1>4 DEF TakeAdmission, EnvironmentTypes
    <3> QED BY <1>4, <2>3, <3>1, <3>2
            DEF TakeAdmission, EnvironmentTypes, ResolvedTypes, workVars
  <2>6. ExecutionInv' BY <2>3 DEF ResolvedTypes, ExecutionInv
  <2> QED BY <2>4, <2>5, <2>6
<1>5. CASE ResumeAdmission
  <2>1. pending_admission \in PendingAdmissions
    BY <1>5 DEF ResumeAdmission, EnvironmentTypes
  <2>2. ResolvedTypes BY <1>5, <1>b, <2>1, ResolveTypes DEF ResumeAdmission
  <2>3. ChannelTypes' BY <1>5, <2>2 DEF ResumeAdmission, ChannelTypes, ResolvedTypes
  <2>4. EnvironmentTypes'
    <3>1. env_pc' \notin {"ack", "output", "completion"} BY <2>2 DEF ResolvedTypes
    <3>2. completion = Nothing BY <1>5 DEF ResumeAdmission, EnvironmentTypes
    <3> QED BY <1>5, <2>2, <3>1, <3>2
            DEF ResumeAdmission, EnvironmentTypes, ResolvedTypes, workVars
  <2>5. ExecutionInv' BY <2>2 DEF ResolvedTypes, ExecutionInv
  <2> QED BY <2>3, <2>4, <2>5
<1>6. CASE ReportAdmission
  <2>1. result \in Results BY <1>6 DEF ReportAdmission, EnvironmentTypes
  <2>2. Append(admission_results, result) \in Seq(Results)
    BY <2>1, AppendProperties DEF ChannelTypes
  <2>3. ChannelTypes' BY <1>6, <2>2 DEF ReportAdmission, ChannelTypes
  <2>4. EnvironmentTypes'
    BY <1>6 DEF ReportAdmission, EnvironmentTypes, workVars, cacheVars
  <2>5. ExecutionInv' BY <1>6 DEF ReportAdmission, ExecutionInv
  <2> QED BY <2>3, <2>4, <2>5
<1>7. CASE ConsumePlan
  <2>1. published \in Plans /\ NoPlan \in Plans
    BY EmptySeq, SMT DEF ChannelTypes, NoPlan, Plans
  <2>2. fatals' \in Seq(Errors \ {"None"}) /\ env_fatal' \in BOOLEAN
    BY <1>7, <1>a, <1>b, FailRunTypes DEF ConsumePlan
  <2>3. ChannelTypes' BY <1>7, <2>1, <2>2 DEF ConsumePlan, ChannelTypes
  <2>4. 1 \in Nat /\ env_pc' \in {"retire", "items"} BY <1>7, SMT DEF ConsumePlan
  <2>5. EnvironmentTypes'
    BY <1>7, <2>1, <2>2, <2>4 DEF ConsumePlan, EnvironmentTypes, cacheVars
  <2>6. ExecutionInv'
    <3>1. CASE env_pc' = "retire" BY <3>1 DEF ExecutionInv
    <3>2. CASE env_pc' = "items"
      <4>1. /\ Acceptable(published.work) /\ plan' = published /\ item' = 1
            /\ records' = records
        BY <1>7, <3>2 DEF ConsumePlan
      <4>2. published.work \in Seq(WorkItems) BY <2>1 DEF Plans
      <4>3. \A i \in DOMAIN published.work : Executable(plan.work[i])'
        BY <4>1 DEF Acceptable, Executable, Held
      <4>4. 1 <= Len(published.work) => 1 \in DOMAIN published.work
        BY <4>2, LenProperties, SMT
      <4>5. 1 >= 1 BY SMT
      <4>6. item' <= Len(plan'.work) => Executable(Work)' BY <4>1, <4>3, <4>4 DEF Work
      <4> QED BY <3>2, <4>1, <4>3, <4>5, <4>6 DEF ExecutionInv, Acceptable
    <3> QED BY <2>4, <3>1, <3>2
  <2> QED BY <2>3, <2>5, <2>6
<1>8. CASE AdvancePrefill \/ SampleToken \/ SamplingFails \/ RememberThrows
  <2>0. env_pc = "items" /\ item <= Len(plan.work)
    BY <1>8 DEF AdvancePrefill, SampleToken, SamplingFails, RememberThrows
  <2>1. /\ Work \in WorkItems /\ Work.id \in Requests /\ Executable(Work)
        /\ plan.work \in Seq(WorkItems) /\ item \in Nat
        /\ records[Work.id] \in Records /\ Advanced \in Records
        /\ Prompt[Work.id] \in Seq(Tokens) /\ Len(Prompt[Work.id]) \in Nat
    BY <2>0, AdvancedType
  <2>2. UNCHANGED executionUnchanged
    BY <1>8 DEF AdvancePrefill, SampleToken, SamplingFails, RememberThrows, executionUnchanged
  <2>3. \A n \in Nat : [Advanced EXCEPT !.decoded_tokens = Advanced.decoded_tokens + n] \in Records
    <3> TAKE n \in Nat
    <3>1. Advanced.decoded_tokens \in Nat BY <2>1 DEF Records
    <3>2. Advanced.decoded_tokens + n \in Nat BY <3>1, SMT
    <3> HIDE DEF Advanced
    <3> QED BY <2>1, <3>2, Zenon DEF Records
  <2>4. PICK new \in Records : records' = [records EXCEPT ![Work.id] = new]
    <3>1. 0 \in Nat /\ 1 \in Nat BY SMT
    <3>2. CASE AdvancePrefill BY <2>1, <3>2 DEF AdvancePrefill
    <3>3. CASE RememberThrows BY <2>1, <3>3 DEF RememberThrows
    <3>4. CASE SampleToken BY <2>3, <3>1, <3>4 DEF SampleToken
    <3>5. CASE SamplingFails BY <2>3, <3>1, <3>5 DEF SamplingFails
    <3> QED BY <1>8, <3>2, <3>3, <3>4, <3>5
  <2>5. /\ records' \in [Requests -> Records \cup {Nothing}]
        /\ \A r \in Requests \ {Work.id} : records'[r] = records[r]
    BY <2>1, <2>4 DEF EnvironmentTypes
  <2>6. cache' \in Seq(Entries) /\ cache_clock' \in Nat
    <3>1. CASE Remember BY <2>1, <3>1, RememberTypes
    <3>2. CASE UNCHANGED cacheVars BY <3>2 DEF cacheVars, EnvironmentTypes
    <3> QED BY <1>8, <3>1, <3>2
            DEF AdvancePrefill, SampleToken, SamplingFails, RememberThrows
  <2>7. fatals' \in Seq(Errors \ {"None"}) /\ env_fatal' \in BOOLEAN
    <3>1. NoFailure \/ FailRun("SamplingFailed")
      BY <1>8 DEF AdvancePrefill, SampleToken, SamplingFails, RememberThrows
    <3> QED BY <3>1, <1>a, <1>b, FailRunTypes
  <2>8. ChannelTypes' BY <2>2, <2>7 DEF executionUnchanged, ChannelTypes
  <2>9. \/ /\ env_pc' \in {"output", "completion"}
           /\ completion' \in Completions /\ completion' # Nothing
        \/ env_pc' \in {"retire", "unwind"} /\ completion' = completion
    <3>1. CASE AdvancePrefill
      <4>1. Complete(Advanced.decoded_tokens, FALSE) /\ env_pc' = "completion"
        BY <3>1 DEF AdvancePrefill
      <4>2. Advanced.decoded_tokens \in Nat BY <2>1 DEF Records
      <4> QED BY <2>1, <4>1, <4>2, CompleteType
    <3>2. CASE SampleToken
      <4>1. PICK eos \in EndOfSequence :
              /\ Complete([Advanced EXCEPT !.decoded_tokens = @ + 1].decoded_tokens, eos)
              /\ env_pc' = IF eos THEN "completion" ELSE "output"
        BY <3>2 DEF SampleToken
      <4>2. eos \in BOOLEAN BY EnvironmentAssumption
      <4>3. [Advanced EXCEPT !.decoded_tokens = @ + 1].decoded_tokens \in Nat
        <5> DEFINE sampled == [Advanced EXCEPT !.decoded_tokens = Advanced.decoded_tokens + 1]
        <5>1. 1 \in Nat BY SMT
        <5>2. sampled \in Records BY <2>3, <5>1
        <5> HIDE DEF sampled
        <5>3. sampled.decoded_tokens \in Nat BY <5>2 DEF Records
        <5> QED BY <5>3 DEF sampled
      <4> QED BY <2>1, <4>1, <4>2, <4>3, CompleteType
    <3>3. CASE SamplingFails \/ RememberThrows
      BY <3>3 DEF SamplingFails, RememberThrows
    <3> QED BY <1>8, <3>1, <3>2, <3>3
  <2>10. EnvironmentTypes'
    <3>1. completion = Nothing /\ result = Nothing BY <2>0 DEF EnvironmentTypes
    <3> QED BY <2>2, <2>5, <2>6, <2>7, <2>9, <3>1 DEF EnvironmentTypes, executionUnchanged
  <2>11. ExecutionInv'
    <3>1. CASE env_pc' \in {"output", "completion"}
      BY <2>0, <2>1, <2>2, <2>5, <3>1, LaterItemsKeep DEF executionUnchanged
    <3>2. CASE env_pc' \in {"retire", "unwind"} BY <3>2 DEF ExecutionInv
    <3> QED BY <2>9, <3>1, <3>2
  <2> QED BY <2>8, <2>10, <2>11
<1>9. CASE ReportOutput
  <2>0. /\ plan.work \in Seq(WorkItems) /\ item \in Nat /\ item >= 1 /\ item <= Len(plan.work)
    BY <1>9 DEF ReportOutput, EnvironmentTypes, ExecutionInv, Plans
  <2>1. Work.id \in Requests
    <3>1. item \in 1 .. Len(plan.work) BY <2>0, LenProperties, SMT
    <3>2. Work \in WorkItems BY <2>0, <3>1, LenProperties DEF Work
    <3> QED BY <3>2 DEF WorkItems
  <2>2. Append(outputs, Work.id) \in Seq(Requests)
    BY <2>1, AppendProperties DEF ChannelTypes
  <2>3. emitted' \in [Requests -> Nat]
    <3>1. emitted \in [Requests -> Nat] BY DEF EnvironmentTypes
    <3>2. emitted[Work.id] + 1 \in Nat BY <2>1, <3>1, SMT
    <3> QED BY <1>9, <3>1, <3>2 DEF ReportOutput
  <2>4. ChannelTypes' BY <1>9, <2>2 DEF ReportOutput, ChannelTypes
  <2>5. EnvironmentTypes' BY <1>9, <2>3 DEF ReportOutput, EnvironmentTypes, cacheVars
  <2>6. ExecutionInv'
    BY <1>9 DEF ReportOutput, ExecutionInv, Executable, Held
  <2> QED BY <2>4, <2>5, <2>6
<1>10. CASE ReportCompletion
  <2>0. /\ plan.work \in Seq(WorkItems) /\ item \in Nat /\ item >= 1 /\ item <= Len(plan.work)
    BY <1>10 DEF ReportCompletion, EnvironmentTypes, ExecutionInv, Plans
  <2>1. completion \in Completions BY <1>10 DEF ReportCompletion, EnvironmentTypes
  <2>2. Append(completions, completion) \in Seq(Completions)
    BY <2>1, AppendProperties DEF ChannelTypes
  <2>3. ChannelTypes' BY <1>10, <2>2 DEF ReportCompletion, ChannelTypes
  <2>4. item' = item + 1 /\ item + 1 \in Nat /\ item + 1 >= 1 /\ item + 1 > item
    BY <1>10, <2>0, SMT DEF ReportCompletion
  <2>5. EnvironmentTypes' BY <1>10, <2>4 DEF ReportCompletion, EnvironmentTypes, cacheVars
  <2>6. ExecutionInv'
    <3>1. \A i \in DOMAIN plan.work : i > item => Executable(plan.work[i])'
      BY <1>10 DEF ReportCompletion, ExecutionInv, Executable, Held
    <3>2. item + 1 <= Len(plan.work) => item + 1 \in DOMAIN plan.work
      BY <2>0, LenProperties, SMT
    <3>3. \A i \in DOMAIN plan.work : i > item + 1 => i > item
      BY <2>0, LenProperties, SMT
    <3>4. UNCHANGED <<plan, records>> /\ env_pc' = "items" BY <1>10 DEF ReportCompletion
    <3>5. item' <= Len(plan'.work) => Executable(Work)'
      BY <2>4, <3>1, <3>2, <3>4 DEF Work
    <3>6. \A i, j \in DOMAIN plan.work : plan.work[i].id = plan.work[j].id => i = j
      BY <1>10 DEF ReportCompletion, ExecutionInv
    <3>7. \A i \in DOMAIN plan'.work : i > item' => Executable(plan.work[i])'
      BY <2>4, <3>1, <3>3, <3>4
    <3> QED BY <2>4, <3>4, <3>5, <3>6, <3>7 DEF ExecutionInv
  <2> QED BY <2>3, <2>5, <2>6
<1>11. CASE PlanExecuted
  <2>1. ChannelTypes' /\ EnvironmentTypes'
    BY <1>11 DEF PlanExecuted, handoffVars, workVars, cacheVars, ChannelTypes,
                 EnvironmentTypes
  <2>2. ExecutionInv' BY <1>11 DEF PlanExecuted, ExecutionInv
  <2> QED BY <2>1, <2>2
<1>12. CASE RetirePlan
  <2>1. plan.epoch \in Nat BY DEF EnvironmentTypes, Plans
  <2>2. NoPlan \in Plans /\ 0 \in Nat BY EmptySeq, SMT DEF NoPlan, Plans
  <2>3. ChannelTypes' BY <1>12, <2>1 DEF RetirePlan, ChannelTypes
  <2>4. EnvironmentTypes' BY <1>12, <2>2 DEF RetirePlan, EnvironmentTypes, cacheVars
  <2>5. ExecutionInv' BY <1>12 DEF RetirePlan, ExecutionInv
  <2> QED BY <2>3, <2>4, <2>5
<1>13. CASE Catch
  <2>1. fatals' \in Seq(Errors \ {"None"}) /\ env_fatal' \in BOOLEAN
    BY <1>13, <1>a, <1>b, FailRunTypes DEF Catch
  <2>2. ChannelTypes' BY <1>13, <2>1 DEF Catch, ChannelTypes
  <2>3. EnvironmentTypes' BY <1>13, <2>1 DEF Catch, EnvironmentTypes, workVars, cacheVars
  <2>4. ExecutionInv' BY <1>13 DEF Catch, ExecutionInv
  <2> QED BY <2>2, <2>3, <2>4
<1> QED
  BY <1>1, <1>2, <1>3, <1>4, <1>5, <1>6, <1>7, <1>8, <1>9, <1>10, <1>11, <1>12, <1>13
  DEF EnvironmentThread, EnvironmentNext
-----------------------------------------------------------------------------
(* Every variable keeps its type, whatever the threads do.                 *)
THEOREM TypesInvariance == Spec => []TypeInv
<1>1. TypeInv /\ [Next]_vars => TypeInv'
  <2> SUFFICES ASSUME TypeInv, [Next]_vars PROVE TypeInv'
    OBVIOUS
  <2>1. CASE SchedulerThread
    <3>1. SchedulerTypes' /\ ChannelTypes' BY <2>1, SchedulerStepTypes DEF TypeInv
    <3>2. UNCHANGED environmentVars BY <2>1 DEF SchedulerThread
    <3>3. EnvironmentTypes'
      BY <3>2 DEF TypeInv, EnvironmentTypes, environmentVars, workVars, cacheVars
    <3>4. ExecutionInv'
      BY <3>2 DEF TypeInv, ExecutionInv, Executable, Held, Work, environmentVars, workVars
    <3> QED BY <3>1, <3>3, <3>4 DEF TypeInv
  <2>2. CASE EnvironmentThread
    <3>1. ChannelTypes' /\ EnvironmentTypes' /\ ExecutionInv'
      BY <2>2, EnvironmentStepTypes DEF TypeInv
    <3>2. SchedulerTypes'
      BY <2>2 DEF EnvironmentThread, schedulerVars, lifecycleVars, planVars, TypeInv,
                  SchedulerTypes
    <3> QED BY <3>1, <3>2 DEF TypeInv
  <2>3. CASE UNCHANGED vars
    <3> USE <2>3 DEF vars, TypeInv
    <3>1. SchedulerTypes'
      BY DEF SchedulerTypes, schedulerVars, lifecycleVars, planVars
    <3>2. ChannelTypes' BY DEF ChannelTypes, handoffVars
    <3>3. EnvironmentTypes'
      BY DEF EnvironmentTypes, environmentVars, workVars, cacheVars
    <3>4. ExecutionInv'
      BY DEF ExecutionInv, Executable, Held, Work, environmentVars, workVars
    <3> QED BY <3>1, <3>2, <3>3, <3>4
  <2> QED BY <2>1, <2>2, <2>3 DEF Next, Terminated
<1> QED BY <1>1, InitTypes, PTL DEF Spec
-----------------------------------------------------------------------------
(* No entry of the prefix cache is newer than its clock, so the entry that *)
(* is used or added next is newer than every other.                        *)
Fresher(entries, clock) ==
  \A i \in DOMAIN entries : entries[i].last_used <= clock

Distinct(entries) ==
  \A i, j \in DOMAIN entries : i # j =>
    /\ entries[i].last_used # entries[j].last_used
    /\ entries[i].conversation = NoConversation
       \/ entries[i].conversation # entries[j].conversation

CacheInv ==
  /\ Len(cache) <= CacheCapacity /\ Fresher(cache, cache_clock) /\ Distinct(cache)

(* A newer entry at the end of a list that lacks its conversation.         *)
LEMMA AddedEntry ==
  ASSUME NEW entries \in Seq(Entries), NEW clock \in Nat, NEW entry \in Entries,
         Fresher(entries, clock), Distinct(entries), entry.last_used = clock + 1,
         entry.conversation = NoConversation
         \/ \A i \in DOMAIN entries : entries[i].conversation # entry.conversation
  PROVE  /\ Fresher(Append(entries, entry), clock + 1) /\ Distinct(Append(entries, entry))
         /\ Len(Append(entries, entry)) = Len(entries) + 1
<1> DEFINE new == Append(entries, entry)
           n == Len(entries)
<1>1. /\ n \in Nat /\ DOMAIN entries = 1 .. n /\ DOMAIN new = 1 .. n + 1
      /\ Len(new) = n + 1 /\ new[n + 1] = entry /\ \A i \in 1 .. n : new[i] = entries[i]
  BY AppendProperties, LenProperties, SMT
<1> HIDE DEF new, n
<1>2. \A i \in 1 .. n : entries[i].last_used \in Nat /\ entries[i].last_used <= clock
  <2>1. \A i \in 1 .. n : entries[i] \in Entries BY <1>1, LenProperties DEF n
  <2> QED BY <1>1, <2>1 DEF Fresher, Entries
<1>3. \A i \in 1 .. n + 1 : i \in 1 .. n \/ i = n + 1 BY <1>1, SMT
<1>4. ASSUME NEW i \in 1 .. n + 1 PROVE new[i].last_used <= clock + 1
  <2>1. CASE i \in 1 .. n
    <3>1. new[i].last_used \in Nat /\ new[i].last_used <= clock BY <1>1, <1>2, <2>1
    <3> QED BY <3>1, SMT
  <2>2. CASE i = n + 1
    <3>1. new[i].last_used = clock + 1 BY <1>1, <2>2
    <3> QED BY <3>1, SMT
  <2> QED BY <1>3, <2>1, <2>2
<1>5. ASSUME NEW i \in 1 .. n + 1, NEW j \in 1 .. n + 1, i # j
      PROVE  /\ new[i].last_used # new[j].last_used
             /\ new[i].conversation = NoConversation
                \/ new[i].conversation # new[j].conversation
  <2>1. CASE i \in 1 .. n /\ j \in 1 .. n BY <1>1, <1>5, <2>1 DEF Distinct
  <2>2. \A k \in 1 .. n : entries[k].last_used # clock + 1
    <3> TAKE k \in 1 .. n
    <3>1. entries[k].last_used \in Nat /\ entries[k].last_used <= clock BY <1>2
    <3> QED BY <3>1, SMT
  <2>3. CASE i = n + 1 /\ j \in 1 .. n BY <1>1, <2>2, <2>3
  <2>4. CASE i \in 1 .. n /\ j = n + 1 BY <1>1, <2>2, <2>4
  <2> QED BY <1>3, <1>5, <2>1, <2>3, <2>4
<1> QED BY <1>1, <1>4, <1>5 DEF Fresher, Distinct, new, n

(* The cache without one of its entries is in order,                       *)
LEMMA LeftOutEntry ==
  ASSUME NEW entries \in Seq(Entries), NEW clock \in Nat, NEW k \in DOMAIN entries,
         Fresher(entries, clock), Distinct(entries)
  PROVE  /\ RemoveAt(entries, k) \in Seq(Entries)
         /\ Len(RemoveAt(entries, k)) = Len(entries) - 1
         /\ Fresher(RemoveAt(entries, k), clock) /\ Distinct(RemoveAt(entries, k))
         /\ \A i \in DOMAIN RemoveAt(entries, k) :
              \E j \in DOMAIN entries : RemoveAt(entries, k)[i] = entries[j]
<1> DEFINE new == RemoveAt(entries, k)
           at(i) == IF i < k THEN i ELSE i + 1
<1>1. /\ new \in Seq(Entries) /\ Len(new) = Len(entries) - 1
      /\ \A i \in DOMAIN new : new[i] = entries[at(i)]
  BY LeaveOut
<1> HIDE DEF new
<1>2. /\ Len(entries) \in Nat /\ DOMAIN entries = 1 .. Len(entries)
      /\ DOMAIN new = 1 .. Len(entries) - 1
  BY <1>1, LenProperties
<1>3. /\ \A i \in DOMAIN new : at(i) \in DOMAIN entries
      /\ \A i, j \in DOMAIN new : i # j => at(i) # at(j)
  BY <1>2, SMT
<1> HIDE DEF at
<1>4. Fresher(new, clock) /\ Distinct(new) BY <1>1, <1>3 DEF Fresher, Distinct
<1> QED BY <1>1, <1>3, <1>4 DEF new

(* so it is after an entry is retained, and within its capacity,           *)
LEMMA RetainKeeps ==
  ASSUME NEW entries \in Seq(Entries), NEW clock \in Nat, NEW entry \in Entries,
         NEW capacity \in Nat \ {0}, Fresher(entries, clock), Distinct(entries),
         Len(entries) <= capacity, entry.last_used = clock + 1
  PROVE  /\ Len(Retain(entries, entry, capacity)) <= capacity
         /\ Fresher(Retain(entries, entry, capacity), clock + 1)
         /\ Distinct(Retain(entries, entry, capacity))
<1> DEFINE new == Retain(entries, entry, capacity)
           Other == entry.conversation = NoConversation
                    \/ \A i \in DOMAIN entries : entries[i].conversation # entry.conversation
<1>0. Len(entries) \in Nat /\ \A i \in DOMAIN entries : entries[i].last_used \in Nat
  <2>1. \A i \in DOMAIN entries : entries[i] \in Entries BY LenProperties
  <2> QED BY <2>1, LenProperties DEF Entries
<1>1. CASE \E k \in DOMAIN entries :
              /\ entry.conversation # NoConversation
              /\ entries[k].conversation = entry.conversation
              /\ new = ReplaceAt(entries, k, entry)
  <2>1. PICK k \in DOMAIN entries :
              /\ entry.conversation # NoConversation
              /\ entries[k].conversation = entry.conversation
              /\ new = ReplaceAt(entries, k, entry)
    BY <1>1
  <2> HIDE DEF new
  <2>2. /\ DOMAIN new = DOMAIN entries /\ new[k] = entry
        /\ \A i \in DOMAIN entries : i # k => new[i] = entries[i]
        /\ Len(new) = Len(entries)
    BY <2>1, ExceptSeq, LenProperties DEF ReplaceAt
  <2>3. Fresher(new, clock + 1)
    <3>1. \A i \in DOMAIN entries : entries[i].last_used <= clock + 1
      BY <1>0, SMT DEF Fresher
    <3>2. clock + 1 <= clock + 1 BY SMT
    <3> QED BY <2>2, <3>1, <3>2 DEF Fresher
  <2>4. \A i \in DOMAIN entries : entries[i].last_used # clock + 1
    <3> TAKE i \in DOMAIN entries
    <3>1. entries[i].last_used \in Nat /\ entries[i].last_used <= clock
      BY <1>0 DEF Fresher
    <3> QED BY <3>1, SMT
  <2>5. ASSUME NEW i \in DOMAIN entries, NEW j \in DOMAIN entries, i # j
        PROVE  /\ new[i].last_used # new[j].last_used
               /\ new[i].conversation = NoConversation
                  \/ new[i].conversation # new[j].conversation
    <3>1. CASE i = k
      <4>1. new[i] = entry /\ new[j] = entries[j] BY <2>2, <2>5, <3>1
      <4>2. entries[k].conversation # entries[j].conversation
        BY <2>1, <2>5, <3>1 DEF Distinct
      <4> QED BY <2>1, <2>4, <4>1, <4>2
    <3>2. CASE j = k
      <4>1. new[j] = entry /\ new[i] = entries[i] BY <2>2, <2>5, <3>2
      <4>2. entries[i].conversation = NoConversation
            \/ entries[i].conversation # entries[k].conversation
        BY <2>5, <3>2 DEF Distinct
      <4> QED BY <2>1, <2>4, <4>1, <4>2
    <3>3. CASE i # k /\ j # k
      <4>1. new[i] = entries[i] /\ new[j] = entries[j] BY <2>2, <3>3
      <4> QED BY <2>5, <4>1 DEF Distinct
    <3> QED BY <3>1, <3>2, <3>3
  <2>6. Distinct(new) BY <2>2, <2>5 DEF Distinct
  <2> QED BY <2>2, <2>3, <2>6 DEF new
<1>2. CASE /\ Other /\ Len(entries) = capacity
           /\ \E k \in DOMAIN entries : new = Append(RemoveAt(entries, k), entry)
  <2>1. PICK k \in DOMAIN entries : new = Append(RemoveAt(entries, k), entry) BY <1>2
  <2> DEFINE rest == RemoveAt(entries, k)
  <2>2. /\ rest \in Seq(Entries) /\ Len(rest) = Len(entries) - 1
        /\ Fresher(rest, clock) /\ Distinct(rest)
        /\ \A i \in DOMAIN rest : \E j \in DOMAIN entries : rest[i] = entries[j]
    BY LeftOutEntry
  <2> HIDE DEF rest, new
  <2>3. entry.conversation = NoConversation
        \/ \A i \in DOMAIN rest : rest[i].conversation # entry.conversation
    BY <1>2, <2>2
  <2>4. /\ Fresher(Append(rest, entry), clock + 1) /\ Distinct(Append(rest, entry))
        /\ Len(Append(rest, entry)) = Len(rest) + 1
    BY <2>2, <2>3, AddedEntry
  <2>5. Len(new) = capacity BY <1>0, <1>2, <2>1, <2>2, <2>4, SMT DEF rest
  <2> QED BY <2>1, <2>4, <2>5 DEF rest, new
<1>3. CASE Other /\ Len(entries) # capacity /\ new = Append(entries, entry)
  <2> HIDE DEF new
  <2>1. /\ Fresher(new, clock + 1) /\ Distinct(new) /\ Len(new) = Len(entries) + 1
    BY <1>3, AddedEntry
  <2>2. Len(new) <= capacity BY <1>0, <1>3, <2>1, SMT
  <2> QED BY <2>1, <2>2 DEF new
<1> QED BY <1>1, <1>2, <1>3, RetainCases, Zenon

(* and after one of its entries is used.                                   *)
LEMMA UsedEntryKeeps ==
  ASSUME NEW entries \in Seq(Entries), NEW clock \in Nat, NEW m \in DOMAIN entries,
         Fresher(entries, clock), Distinct(entries)
  PROVE  /\ Len([entries EXCEPT ![m].last_used = clock + 1]) = Len(entries)
         /\ Fresher([entries EXCEPT ![m].last_used = clock + 1], clock + 1)
         /\ Distinct([entries EXCEPT ![m].last_used = clock + 1])
<1> DEFINE used == [entries[m] EXCEPT !.last_used = clock + 1]
           new == [entries EXCEPT ![m] = used]
<1>0. /\ \A i \in DOMAIN entries : entries[i] \in Entries /\ entries[i].last_used \in Nat
      /\ \A i \in DOMAIN entries : entries[i].last_used <= clock
  <2>1. \A i \in DOMAIN entries : entries[i] \in Entries BY LenProperties
  <2> QED BY <2>1 DEF Entries, Fresher
<1>1. used.last_used = clock + 1 /\ used.conversation = entries[m].conversation
  BY <1>0, SMT DEF Entries
<1>2. used \in Entries
  <2>1. clock + 1 \in Nat BY SMT
  <2> QED BY <1>0, <2>1, Zenon DEF Entries
<1> HIDE DEF used
<1>3. /\ DOMAIN new = DOMAIN entries /\ new[m] = used /\ Len(new) = Len(entries)
      /\ \A i \in DOMAIN entries : i # m => new[i] = entries[i]
  BY <1>2, ExceptSeq, LenProperties
<1> HIDE DEF new
<1>4. \A i \in DOMAIN entries : /\ entries[i].last_used # clock + 1
                                /\ entries[i].last_used <= clock + 1
  BY <1>0, SMT
<1>5. clock + 1 <= clock + 1 BY SMT
<1>6. Fresher(new, clock + 1) BY <1>1, <1>3, <1>4, <1>5 DEF Fresher
<1>7. Distinct(new) BY <1>1, <1>3, <1>4 DEF Distinct
<1> QED BY <1>3, <1>6, <1>7 DEF new, used

(* The prefix cache keeps within its capacity and its entries apart        *)
(* (prefix_cache.hpp:43-73).                                               *)
THEOREM CacheIsWellFormed == Spec => []CacheWellFormed
<1>1. Init => CacheInv
  <2>1. Len(<< >>) = 0 /\ DOMAIN << >> = {} BY SMT
  <2>2. 0 <= CacheCapacity BY EnvironmentAssumption, SMT
  <2> QED BY <2>1, <2>2 DEF Init, EnvironmentInit, CacheInv, Fresher, Distinct
<1>2. TypeInv /\ CacheInv /\ [Next]_vars => CacheInv'
  <2> SUFFICES ASSUME TypeInv, CacheInv, [Next]_vars PROVE CacheInv'
    OBVIOUS
  <2>0. /\ cache \in Seq(Entries) /\ cache_clock \in Nat
        /\ CacheCapacity \in Nat \ {0} /\ EnvironmentTypes /\ ExecutionInv
    BY EnvironmentAssumption DEF TypeInv, EnvironmentTypes
  <2>1. CASE UNCHANGED cacheVars BY <2>1 DEF CacheInv, cacheVars
  <2>2. ASSUME NEW p \in PendingAdmissions, Accept(p) PROVE CacheInv'
    <3>1. CASE UNCHANGED cacheVars BY <2>1, <3>1
    <3> DEFINE m == Match(p)
    <3>2. CASE /\ m # 0 /\ cache_clock' = cache_clock + 1
               /\ cache' = [cache EXCEPT ![m].last_used = cache_clock + 1]
      <4>1. Prompt[p.id] \in Seq(Tokens)
        BY EnvironmentAssumption DEF PendingAdmissions
      <4>2. m \in DOMAIN cache BY <2>0, <3>2, <4>1, MatchType DEF Match
      <4> HIDE DEF m
      <4> QED BY <2>0, <3>2, <4>2, UsedEntryKeeps DEF CacheInv
    <3> QED BY <2>2, <3>1, <3>2 DEF Accept
  <2>3. CASE Remember /\ env_pc = "items" /\ item <= Len(plan.work)
    <3>1. CASE UNCHANGED cacheVars BY <2>1, <3>1
    <3> DEFINE entry == [tokens |-> Prompt[Work.id], last_used |-> cache_clock + 1,
                         conversation |-> Conversation[Work.id]]
    <3>2. CASE /\ cache' = Retain(cache, entry, CacheCapacity)
               /\ cache_clock' = cache_clock + 1
      <4>1. Work.id \in Requests /\ Prompt[Work.id] \in Seq(Tokens)
        BY <2>0, <2>3, AdvancedType
      <4>2. cache_clock + 1 \in Nat BY <2>0, SMT
      <4>3. entry \in Entries /\ entry.last_used = cache_clock + 1
        BY <4>1, <4>2 DEF Entries
      <4> HIDE DEF entry
      <4> QED BY <2>0, <3>2, <4>3, RetainKeeps DEF CacheInv
    <3> QED BY <2>3, <3>1, <3>2 DEF Remember
  <2>4. CASE SchedulerThread BY <2>1, <2>4 DEF SchedulerThread, environmentVars
  <2>5. CASE TakeAdmission \/ ResumeAdmission
    <3>1. PICK p \in PendingAdmissions : Resolve(p)
      <4>1. CASE TakeAdmission
        <5>1. Head(admissions) \in Requests
          BY <4>1, HeadTailProperties DEF TakeAdmission, TypeInv, ChannelTypes
        <5> QED BY <4>1, <5>1 DEF TakeAdmission, PendingAdmissions
      <4>2. CASE ResumeAdmission
        BY <2>0, <4>2 DEF ResumeAdmission, EnvironmentTypes
      <4> QED BY <2>5, <4>1, <4>2
    <3>2. Accept(p) \/ UNCHANGED cacheVars
      BY <3>1 DEF Resolve, Reject, ValidationThrows, Hold, SamplerFails, RestoreBreaks,
                  AcceptThrows
    <3> QED BY <2>1, <2>2, <3>2
  <2>6. CASE SampleToken \/ SamplingFails
    BY <2>3, <2>6 DEF SampleToken, SamplingFails
  <2>7. CASE \/ BeginTurn \/ TakeRelease \/ AcknowledgeRelease \/ ReleasesTaken
             \/ ReportAdmission \/ AdmissionsTaken \/ SkipPlan \/ ConsumePlan
             \/ AdvancePrefill \/ RememberThrows \/ ReportOutput \/ ReportCompletion
             \/ PlanExecuted \/ RetirePlan \/ Catch
    <3>1. UNCHANGED cacheVars
      BY <2>7 DEF BeginTurn, TakeRelease, AcknowledgeRelease, ReleasesTaken,
                  ReportAdmission, AdmissionsTaken, SkipPlan, ConsumePlan, AdvancePrefill,
                  RememberThrows, ReportOutput, ReportCompletion, PlanExecuted,
                  RetirePlan, Catch
    <3> QED BY <2>1, <3>1
  <2>8. CASE UNCHANGED vars BY <2>1, <2>8 DEF vars, environmentVars
  <2> QED BY <2>4, <2>5, <2>6, <2>7, <2>8
          DEF Next, EnvironmentThread, EnvironmentNext, Terminated
<1>3. CacheInv => CacheWellFormed BY DEF CacheInv, Distinct, CacheWellFormed
<1> QED BY <1>1, <1>2, <1>3, TypesInvariance, PTL DEF Spec
-----------------------------------------------------------------------------

(* What the fields of a request's state say of each other.                 *)
Coherent(q) ==
  /\ q.stage = "Unsubmitted" => q = Fresh("Unsubmitted")
  /\ q.stage = "PendingAdmission" =>
       /\ q.admission \in {"NotSent", "InFlight"}
       /\ ~q.release_sent /\ ~q.start_recorded
       /\ q.prefill_position = 0 /\ q.decoded_count = 0
  /\ q.stage \in {"Prefill", "Decode", "PendingRelease"} =>
       q.admission = "EnvironmentOwned"
  /\ q.stage = "Terminal" => q.admission = "NotSent"
  /\ q.release_sent => q.stage \in {"PendingRelease", "Terminal"}

CoherentInv == \A r \in Requests : Coherent(request[r])

Ongoing(q) == q.stage \notin {"Unsubmitted", "Terminal"}

(* A request is on the live list from its submission to its end at least.  *)
LiveInv ==
  /\ IsInjective(live)
  /\ \A r \in Requests :
       /\ Ongoing(request[r]) => r \in ToSet(live)
       /\ r \in ToSet(live) => request[r].stage # "Unsubmitted"

(* The pending list holds the requests whose admission is still to be sent.*)
Unsent == {r \in Requests : request[r].stage = "PendingAdmission"
                            /\ request[r].admission = "NotSent"}
PendingInv ==
  IsInjective(pending_admissions) /\ ToSet(pending_admissions) = Unsent

MarkersInv == MarkersExact /\ (observer_enabled => Streaming)

(* A pass over the releases still to be sent has not been overtaken.       *)
SweepInv ==
  /\ IsInjective(sweep)
  /\ \A r \in ToSet(sweep) : request[r].stage = "PendingRelease" /\ ~request[r].release_sent
  /\ sweep # << >> => run_pc \in {"releases", "cleanup"}

(* run_once returned false only when nothing was left to do.               *)
ExitInv ==
  run_pc \in {"returned", "exited"} => \A r \in Requests : ~Ongoing(request[r])

LifeInv ==
  /\ CoherentInv /\ LiveInv /\ PendingInv /\ MarkersInv /\ SweepInv /\ ExitInv

Monotone == \A r \in Requests : NeverBack(request[r], request'[r])
-----------------------------------------------------------------------------
(* What the functions on a request's state do to its fields.               *)
Same(q, new) ==
  /\ new.prompt_length = q.prompt_length
  /\ new.cached_prefix_tokens = q.cached_prefix_tokens
  /\ new.release_sent = q.release_sent /\ new.start_recorded = q.start_recorded
  /\ new.pieces = q.pieces

SameProgress(q, new) ==
  new.prefill_position = q.prefill_position /\ new.decoded_count = q.decoded_count

(* The first error is an error, and stays.                                 *)
LEMMA ErrorFields ==
  ASSUME NEW old \in Errors, NEW new \in Errors
  PROVE  /\ FirstError(old, new) \in Errors
         /\ old # "None" => FirstError(old, new) = old
         /\ FirstError(old, "None") = old
BY DEF FirstError

(* A request that becomes Terminal;                                        *)
LEMMA TerminalFields ==
  ASSUME NEW q \in RequestStates, NEW error \in Errors
  PROVE  LET new == ToTerminal(q, error)
         IN  /\ new.stage = "Terminal" /\ new.admission = "NotSent"
             /\ new.terminal_error = error
             /\ Same(q, new) /\ SameProgress(q, new)
BY SMT DEF ToTerminal, Same, SameProgress, RequestStates

(* one that waits for its release;                                         *)
LEMMA PendingReleaseFields ==
  ASSUME NEW q \in RequestStates, NEW error \in Errors
  PROVE  LET new == ToPendingRelease(q, error)
         IN  /\ new.stage = "PendingRelease" /\ new.admission = q.admission
             /\ new.terminal_error = FirstError(q.terminal_error, error)
             /\ Same(q, new) /\ SameProgress(q, new)
BY SMT DEF ToPendingRelease, Same, SameProgress, RequestStates, FirstError

(* one that is drained;                                                    *)
LEMMA DrainedFields ==
  ASSUME NEW q \in RequestStates, NEW error \in Errors
  PROVE  LET new == Drained(q, error)
         IN  /\ Same(q, new) /\ SameProgress(q, new)
             /\ q.stage = "Terminal" => new = q
             /\ q.stage # "Terminal" =>
                  /\ new.terminal_error = FirstError(q.terminal_error, error)
                  /\ q.admission = "NotSent" =>
                       new.stage = "Terminal" /\ new.admission = "NotSent"
                  /\ q.admission = "InFlight" =>
                       new.stage = q.stage /\ new.admission = "InFlight"
                  /\ q.admission = "EnvironmentOwned" =>
                       new.stage = "PendingRelease" /\ new.admission = "EnvironmentOwned"
<1> DEFINE cause == FirstError(q.terminal_error, error)
<1>1. q.terminal_error \in Errors /\ q.admission \in Ownerships BY DEF RequestStates
<1>2. cause \in Errors BY <1>1, ErrorFields
<1> HIDE DEF cause
<1>3. CASE q.stage = "Terminal" BY <1>3 DEF Drained, Same, SameProgress
<1>4. CASE q.stage # "Terminal" /\ q.admission = "NotSent"
  <2>1. Drained(q, error) = ToTerminal(q, cause) BY <1>4 DEF Drained, cause
  <2> QED BY <1>2, <1>4, <2>1, TerminalFields DEF cause
<1>5. CASE q.stage # "Terminal" /\ q.admission = "InFlight"
  <2>1. Drained(q, error) = [q EXCEPT !.terminal_error = cause] BY <1>5 DEF Drained, cause
  <2>2. LET new == [q EXCEPT !.terminal_error = cause]
        IN  /\ new.terminal_error = cause /\ new.stage = q.stage
            /\ new.admission = q.admission /\ Same(q, new) /\ SameProgress(q, new)
    BY SMT DEF Same, SameProgress, RequestStates
  <2> QED BY <1>5, <2>1, <2>2 DEF cause
<1>6. CASE q.stage # "Terminal" /\ q.admission = "EnvironmentOwned"
  <2>1. Drained(q, error) = ToPendingRelease(q, cause) BY <1>6 DEF Drained, cause
  <2>2. LET new == ToPendingRelease(q, cause)
        IN  /\ new.stage = "PendingRelease" /\ new.admission = q.admission
            /\ new.terminal_error = FirstError(q.terminal_error, cause)
            /\ Same(q, new) /\ SameProgress(q, new)
    BY <1>2, PendingReleaseFields
  <2>3. FirstError(q.terminal_error, cause) = cause BY DEF FirstError, cause
  <2> QED BY <1>6, <2>1, <2>2, <2>3 DEF cause
<1> QED BY <1>1, <1>3, <1>4, <1>5, <1>6 DEF Ownerships

(* one that is admitted;                                                   *)
LEMMA AdmittedFields ==
  ASSUME NEW q \in RequestStates, NEW answer \in Results, drain_error \in Errors
  PROVE  LET new == Admitted(q, answer)
         IN  /\ new.admission = "EnvironmentOwned" /\ new.stage \in {"Prefill", "PendingRelease"}
             /\ new.prompt_length = answer.prompt_tokens
             /\ new.prefill_position = answer.cached_prefix_tokens
             /\ new.decoded_count = q.decoded_count
             /\ new.release_sent = q.release_sent /\ new.start_recorded = q.start_recorded
             /\ new.pieces = q.pieces
             /\ new.terminal_error \in {q.terminal_error,
                                        FirstError(q.terminal_error, drain_error)}
             /\ new.stage = "PendingRelease" <=> draining \/ MaxOutput[answer.id] = 0
             /\ new.stage = "PendingRelease" =>
                  new.terminal_error = FirstError(q.terminal_error, drain_error)
             /\ new.stage = "Prefill" => new.terminal_error = q.terminal_error
<1> DEFINE owned == [q EXCEPT !.admission = "EnvironmentOwned",
                         !.prompt_length = answer.prompt_tokens,
                         !.cached_prefix_tokens = answer.cached_prefix_tokens,
                         !.prefill_position = answer.cached_prefix_tokens]
<1>1. owned \in RequestStates
  <2>1. "EnvironmentOwned" \in Ownerships BY DEF Ownerships
  <2>2. answer.prompt_tokens \in Nat /\ answer.cached_prefix_tokens \in Nat BY DEF Results
  <2> QED BY <2>1, <2>2, Zenon DEF RequestStates
<1>2. /\ owned.admission = "EnvironmentOwned" /\ owned.prompt_length = answer.prompt_tokens
      /\ owned.prefill_position = answer.cached_prefix_tokens
      /\ owned.decoded_count = q.decoded_count /\ owned.pieces = q.pieces
      /\ owned.release_sent = q.release_sent /\ owned.start_recorded = q.start_recorded
      /\ owned.terminal_error = q.terminal_error
  BY SMT DEF RequestStates
<1>3. Admitted(q, answer) = IF draining \/ MaxOutput[answer.id] = 0
                            THEN ToPendingRelease(owned, drain_error)
                            ELSE [owned EXCEPT !.stage = "Prefill"]
  BY DEF Admitted
<1> HIDE DEF owned
<1>4. CASE draining \/ MaxOutput[answer.id] = 0
  BY <1>1, <1>2, <1>3, <1>4, PendingReleaseFields DEF Same, SameProgress
<1>5. CASE ~(draining \/ MaxOutput[answer.id] = 0)
  <2>1. LET new == [owned EXCEPT !.stage = "Prefill"]
        IN  /\ new.stage = "Prefill" /\ new.admission = owned.admission
            /\ new.terminal_error = owned.terminal_error
            /\ Same(owned, new) /\ SameProgress(owned, new)
    BY <1>1, SMT DEF Same, SameProgress, RequestStates
  <2> QED BY <1>2, <1>3, <1>5, <2>1 DEF Same, SameProgress
<1> QED BY <1>4, <1>5

(* one that progresses;                                                    *)
LEMMA ProgressedFields ==
  ASSUME NEW q \in RequestStates, NEW c \in Completions
  PROVE  LET new == Progressed(q, c)
         IN  /\ new \in RequestStates
             /\ new.stage = q.stage /\ new.admission = q.admission
             /\ new.terminal_error = q.terminal_error /\ Same(q, new)
             /\ new.prefill_position = IF q.prefill_position >= c.prefill_position
                                       THEN q.prefill_position ELSE c.prefill_position
             /\ new.decoded_count = IF q.decoded_count >= c.decoded_tokens
                                    THEN q.decoded_count ELSE c.decoded_tokens
<1> DEFINE x == Max({q.prefill_position, c.prefill_position})
           y == Max({q.decoded_count, c.decoded_tokens})
<1>1. /\ q.prefill_position \in Nat /\ c.prefill_position \in Nat
      /\ q.decoded_count \in Nat /\ c.decoded_tokens \in Nat
  BY DEF RequestStates, Completions
<1>2. /\ x = IF q.prefill_position >= c.prefill_position
             THEN q.prefill_position ELSE c.prefill_position
      /\ y = IF q.decoded_count >= c.decoded_tokens
             THEN q.decoded_count ELSE c.decoded_tokens
  BY <1>1, MaxOfTwo, SMT
<1>3. Progressed(q, c) = [q EXCEPT !.prefill_position = x, !.decoded_count = y]
  BY DEF Progressed
<1> HIDE DEF x, y
<1>4. x \in Nat /\ y \in Nat BY <1>1, <1>2, SMT
<1>5. Progressed(q, c) \in RequestStates BY <1>3, <1>4, Zenon DEF RequestStates
<1>6. LET new == [q EXCEPT !.prefill_position = x, !.decoded_count = y]
      IN  /\ new.stage = q.stage /\ new.admission = q.admission
          /\ new.terminal_error = q.terminal_error /\ Same(q, new)
          /\ new.prefill_position = x /\ new.decoded_count = y
  BY SMT DEF RequestStates, Same
<1> QED BY <1>2, <1>3, <1>5, <1>6

(* one into which a completion is folded.                                  *)
LEMMA FoldedFields ==
  ASSUME NEW q \in RequestStates, NEW c \in Completions
  PROVE  LET new == Folded(q, c)
         IN  /\ new.admission = q.admission /\ new.terminal_error = q.terminal_error
             /\ Same(q, new)
             /\ new.prefill_position = IF q.prefill_position >= c.prefill_position
                                       THEN q.prefill_position ELSE c.prefill_position
             /\ new.decoded_count = IF q.decoded_count >= c.decoded_tokens
                                    THEN q.decoded_count ELSE c.decoded_tokens
             /\ new.prefill_position >= q.prefill_position
             /\ new.decoded_count >= q.decoded_count
             /\ new.stage \in {"Prefill", "Decode", "PendingRelease"}
                \/ new.stage = q.stage
             /\ q.stage = "PendingRelease" => new.stage = "PendingRelease"
             /\ q.stage # "PendingRelease" =>
                  new.stage = IF HasEnded(new, c) THEN "PendingRelease" ELSE StageOf(new)
             /\ new \in RequestStates
<1> DEFINE p == Progressed(q, c)
<1>1. /\ p \in RequestStates
      /\ p.stage = q.stage /\ p.admission = q.admission
      /\ p.terminal_error = q.terminal_error /\ Same(q, p)
      /\ p.prefill_position = IF q.prefill_position >= c.prefill_position
                              THEN q.prefill_position ELSE c.prefill_position
      /\ p.decoded_count = IF q.decoded_count >= c.decoded_tokens
                           THEN q.decoded_count ELSE c.decoded_tokens
  BY ProgressedFields
<1>2. Folded(q, c) = IF HasEnded(p, c) THEN ToPendingRelease(p, "None")
                     ELSE IF q.stage = "PendingRelease" THEN p
                     ELSE [p EXCEPT !.stage = StageOf(p)]
  BY DEF Folded
<1> HIDE DEF p
<1>3. /\ p.prefill_position >= q.prefill_position /\ p.decoded_count >= q.decoded_count
  <2>1. /\ q.prefill_position \in Nat /\ c.prefill_position \in Nat
        /\ q.decoded_count \in Nat /\ c.decoded_tokens \in Nat
    BY DEF RequestStates, Completions
  <2> QED BY <1>1, <2>1, SMT
<1>4. "None" \in Errors /\ p.terminal_error \in Errors BY <1>1 DEF Errors, RequestStates
<1>5. CASE HasEnded(p, c)
  <2>1. LET new == ToPendingRelease(p, "None")
        IN  /\ new.stage = "PendingRelease" /\ new.admission = p.admission
            /\ new.terminal_error = FirstError(p.terminal_error, "None")
            /\ Same(p, new) /\ SameProgress(p, new)
    BY <1>1, <1>4, PendingReleaseFields
  <2>2. FirstError(p.terminal_error, "None") = p.terminal_error BY <1>4, ErrorFields
  <2>3. HasEnded(ToPendingRelease(p, "None"), c)
    BY <1>5, <2>1 DEF HasEnded, SameProgress
  <2>4. ToPendingRelease(p, "None") \in RequestStates BY <1>1, <1>4, EndedType
  <2> QED BY <1>1, <1>2, <1>3, <1>5, <2>1, <2>2, <2>3, <2>4 DEF Same, SameProgress
<1>6. CASE ~HasEnded(p, c) /\ q.stage = "PendingRelease"
  BY <1>1, <1>2, <1>3, <1>6
<1>7. CASE ~HasEnded(p, c) /\ q.stage # "PendingRelease"
  <2> DEFINE new == [p EXCEPT !.stage = StageOf(p)]
  <2>1. /\ new.stage = StageOf(p) /\ new.admission = p.admission
        /\ new.terminal_error = p.terminal_error
        /\ Same(p, new) /\ SameProgress(p, new)
    BY <1>1, SMT DEF Same, SameProgress, RequestStates
  <2>2. StageOf(p) \in {"Prefill", "Decode"} BY DEF StageOf
  <2>3. new \in RequestStates BY <1>1, <2>2, Zenon DEF RequestStates, Stages
  <2>4. Folded(q, c) = new BY <1>2, <1>7
  <2> HIDE DEF new
  <2>5. ~HasEnded(new, c) /\ StageOf(new) = StageOf(p)
    BY <1>7, <2>1 DEF HasEnded, StageOf, Same, SameProgress
  <2> QED BY <1>1, <1>3, <1>7, <2>1, <2>2, <2>3, <2>4, <2>5 DEF Same, SameProgress
<1> QED BY <1>5, <1>6, <1>7
-----------------------------------------------------------------------------
(* A request that is left alone does not go back.                          *)
LEMMA NeverBackSame == ASSUME NEW q \in RequestStates PROVE NeverBack(q, q)
<1>1. q.prefill_position \in Nat /\ q.decoded_count \in Nat BY DEF RequestStates
<1>2. q.prefill_position >= q.prefill_position /\ q.decoded_count >= q.decoded_count
  BY <1>1, SMT
<1> QED BY <1>2 DEF NeverBack

(* Nothing the scheduler keeps has changed.                                *)
LEMMA LifeKept ==
  ASSUME TypeInv, LifeInv,
         UNCHANGED <<request, live, pending_admissions, terminal_ready, observer_enabled>>,
         (sweep' = sweep /\ run_pc' = run_pc) \/ sweep' = << >>,
         run_pc' \in {"returned", "exited"} =>
           \/ run_pc \in {"returned", "exited"}
           \/ \A r \in Requests : ~Ongoing(request[r])
  PROVE  LifeInv' /\ Monotone
<1>1. Monotone BY NeverBackSame DEF Monotone, TypeInv, SchedulerTypes
<1>2. CoherentInv' /\ LiveInv' /\ PendingInv' /\ MarkersInv'
  BY DEF LifeInv, CoherentInv, LiveInv, PendingInv, Unsent, MarkersInv, MarkersExact
<1>3. SweepInv' BY ToSetEmpty DEF LifeInv, SweepInv
<1>4. ExitInv' BY DEF LifeInv, ExitInv
<1> QED BY <1>1, <1>2, <1>3, <1>4 DEF LifeInv

(* One ongoing request moves on, and is still ongoing.                     *)
LEMMA OneMoves ==
  ASSUME TypeInv, LifeInv, NEW r \in Requests, NEW q,
         request' = [request EXCEPT ![r] = q],
         Ongoing(request[r]), Ongoing(q), Coherent(q), NeverBack(request[r], q),
         UNCHANGED <<live, terminal_ready, observer_enabled, run_pc>>
  PROVE  CoherentInv' /\ LiveInv' /\ MarkersInv' /\ ExitInv' /\ Monotone
<1>1. request \in [Requests -> RequestStates] BY DEF TypeInv, SchedulerTypes
<1>2. request'[r] = q /\ \A x \in Requests : x # r => request'[x] = request[x]
  BY <1>1
<1>3. CoherentInv' BY <1>2 DEF LifeInv, CoherentInv
<1>4. LiveInv' BY <1>2 DEF LifeInv, LiveInv, Ongoing
<1>5. \A x \in Requests : request'[x].stage = "Terminal" <=> request[x].stage = "Terminal"
  BY <1>2 DEF Ongoing
<1>6. ToSet(live) \subseteq Requests
  BY LenProperties DEF TypeInv, SchedulerTypes, ToSet
<1>7. MarkersInv' BY <1>5, <1>6 DEF LifeInv, MarkersInv, MarkersExact
<1>8. ExitInv' BY DEF LifeInv, ExitInv
<1>9. Monotone BY <1>1, <1>2, NeverBackSame DEF Monotone
<1> QED BY <1>3, <1>4, <1>7, <1>8, <1>9

(* One ongoing request ends and is marked for retirement.                  *)
LEMMA OneEnds ==
  ASSUME TypeInv, LifeInv, NEW r \in Requests, NEW q,
         request' = [request EXCEPT ![r] = q],
         Ongoing(request[r]), q.stage = "Terminal", Coherent(q), NeverBack(request[r], q),
         terminal_ready' = Append(terminal_ready, r),
         UNCHANGED <<live, observer_enabled, run_pc>>
  PROVE  CoherentInv' /\ LiveInv' /\ MarkersInv' /\ ExitInv' /\ Monotone
<1>1. request \in [Requests -> RequestStates] /\ terminal_ready \in Seq(Requests)
  BY DEF TypeInv, SchedulerTypes
<1>2. request'[r] = q /\ \A x \in Requests : x # r => request'[x] = request[x]
  BY <1>1
<1>3. CoherentInv' BY <1>2 DEF LifeInv, CoherentInv
<1>4. LiveInv' BY <1>2 DEF LifeInv, LiveInv, Ongoing
<1>5. r \in ToSet(live) /\ ToSet(live) \subseteq Requests
  BY LenProperties DEF LifeInv, LiveInv, TypeInv, SchedulerTypes, ToSet
<1>6. r \notin ToSet(terminal_ready) BY DEF LifeInv, MarkersInv, MarkersExact, Ongoing
<1>7. /\ IsInjective(terminal_ready')
      /\ ToSet(terminal_ready') = ToSet(terminal_ready) \cup {r}
  BY <1>1, <1>6, ToSetAppend DEF LifeInv, MarkersInv, MarkersExact
<1>8. \A x \in Requests : request'[x].stage = "Terminal"
                           <=> request[x].stage = "Terminal" \/ x = r
  BY <1>2
<1>9. MarkersInv' BY <1>5, <1>7, <1>8 DEF LifeInv, MarkersInv, MarkersExact
<1>10. ExitInv' BY DEF LifeInv, ExitInv
<1>11. Monotone BY <1>1, <1>2, NeverBackSame DEF Monotone
<1> QED BY <1>3, <1>4, <1>9, <1>10, <1>11

(* A drain ends what was never sent and asks for the release of the rest.  *)
LEMMA DrainMoves ==
  ASSUME TypeInv, LifeInv, NEW error \in Errors, NEW ready \in Seq(Requests),
         IsInjective(ready),
         ToSet(ready) \subseteq {r \in ToSet(live) : request[r].stage = "Terminal"},
         EnterDraining(error, ready), live' = live
  PROVE  /\ CoherentInv' /\ LiveInv' /\ PendingInv' /\ Monotone
         /\ \A r \in Requests : Ongoing(request'[r]) => Ongoing(request[r])
         /\ IsInjective(terminal_ready')
         /\ ToSet(terminal_ready')
              \subseteq {r \in ToSet(live) : request'[r].stage = "Terminal"}
         /\ \A r \in ToSet(live) : request'[r].stage = "Terminal"
              => r \in ToSet(terminal_ready') \/ (r \notin ToSet(ready) /\ request[r].stage = "Terminal")
<1>1. request \in [Requests -> RequestStates] /\ live \in Seq(Requests)
  BY DEF TypeInv, SchedulerTypes
<1>2. ToSet(live) \subseteq Requests BY <1>1, LenProperties DEF ToSet
<1>3. CASE draining
  <2>1. UNCHANGED <<request, pending_admissions, live>> /\ terminal_ready' = ready
    BY <1>3 DEF EnterDraining
  <2>2. CoherentInv' /\ LiveInv' /\ PendingInv'
    BY <2>1 DEF LifeInv, CoherentInv, LiveInv, PendingInv, Unsent
  <2>3. Monotone BY <1>1, <2>1, NeverBackSame DEF Monotone
  <2> QED BY <2>1, <2>2, <2>3
<1>4. CASE ~draining
  <2> DEFINE ended == {r \in Requests : /\ request[r].admission = "NotSent"
                                        /\ request[r].stage # "Terminal"}
  <2>1. /\ terminal_ready' = ready \o UnsentLive /\ pending_admissions' = << >>
        /\ request' = [r \in Requests |-> IF Known(r) THEN Drained(request[r], error)
                                           ELSE request[r]]
    BY <1>4 DEF EnterDraining
  <2>2. /\ UnsentLive \in Seq(Requests) /\ ToSet(UnsentLive) = ToSet(live) \cap ended
        /\ IsInjective(UnsentLive)
    BY <1>1, FilterProperties DEF UnsentLive, LifeInv, LiveInv
  <2>3. /\ \A r \in ToSet(live) : request'[r] = Drained(request[r], error)
        /\ \A r \in Requests : r \notin ToSet(live) => request'[r] = request[r]
    BY <1>2, <2>1 DEF Known
  <2>4. ASSUME NEW r \in ToSet(live)
        PROVE  /\ Coherent(request'[r]) /\ NeverBack(request[r], request'[r])
               /\ Ongoing(request'[r]) => Ongoing(request[r])
               /\ request'[r].stage # "Unsubmitted"
               /\ request'[r].stage = "Terminal"
                    <=> request[r].stage = "Terminal" \/ r \in ended
               /\ r \notin Unsent'
    <3> DEFINE q == request[r]
               new == request'[r]
    <3>1. /\ q \in RequestStates /\ Coherent(q) /\ q.stage # "Unsubmitted"
          /\ q.admission \in Ownerships /\ q.stage \in Stages
          /\ q.terminal_error \in Errors
          /\ q.prefill_position \in Nat /\ q.decoded_count \in Nat
      BY <1>1, <1>2 DEF LifeInv, CoherentInv, LiveInv, RequestStates
    <3>2. /\ Same(q, new) /\ SameProgress(q, new)
          /\ q.stage = "Terminal" => new = q
          /\ q.stage # "Terminal" =>
               /\ new.terminal_error = FirstError(q.terminal_error, error)
               /\ q.admission = "NotSent" =>
                    new.stage = "Terminal" /\ new.admission = "NotSent"
               /\ q.admission = "InFlight" =>
                    new.stage = q.stage /\ new.admission = "InFlight"
               /\ q.admission = "EnvironmentOwned" =>
                    new.stage = "PendingRelease" /\ new.admission = "EnvironmentOwned"
      BY <2>3, <3>1, DrainedFields
    <3> HIDE DEF q, new
    <3>3. NeverBack(q, new)
      <4>1. new.prefill_position >= q.prefill_position /\ new.decoded_count >= q.decoded_count
        BY <3>1, <3>2, SMT DEF SameProgress
      <4>2. q.terminal_error # "None" => new.terminal_error = q.terminal_error
        BY <3>1, <3>2, ErrorFields
      <4>3. q.stage = "PendingRelease" => new.stage \in {"PendingRelease", "Terminal"}
        BY <3>1, <3>2 DEF Coherent
      <4> QED BY <3>2, <4>1, <4>2, <4>3 DEF NeverBack
    <3>4. CASE q.stage = "Terminal"
      <4>1. r \notin ended BY <3>4 DEF q
      <4>2. r \notin Unsent' BY <3>2, <3>4 DEF Unsent, new
      <4> QED BY <3>1, <3>2, <3>3, <3>4, <4>1, <4>2 DEF Ongoing, q, new
    <3>5. CASE q.stage # "Terminal" /\ q.admission = "NotSent"
      <4>1. r \in ended BY <1>2, <3>5 DEF q
      <4>2. r \notin Unsent' BY <3>2, <3>5 DEF Unsent, new
      <4>3. Coherent(new) BY <3>1, <3>2, <3>5 DEF Coherent, Same
      <4> QED BY <3>1, <3>2, <3>3, <3>5, <4>1, <4>2, <4>3 DEF Ongoing, q, new
    <3>6. CASE q.stage # "Terminal" /\ q.admission = "InFlight"
      <4>1. r \notin ended BY <3>6 DEF q
      <4>2. r \notin Unsent' BY <3>2, <3>6 DEF Unsent, new
      <4>3. Coherent(new) BY <3>1, <3>2, <3>6 DEF Coherent, Same, SameProgress
      <4> QED BY <3>1, <3>2, <3>3, <3>6, <4>1, <4>2, <4>3 DEF Ongoing, q, new
    <3>7. CASE q.stage # "Terminal" /\ q.admission = "EnvironmentOwned"
      <4>1. r \notin ended BY <3>7 DEF q
      <4>2. r \notin Unsent' BY <3>2, <3>7 DEF Unsent, new
      <4>3. Coherent(new) BY <3>1, <3>2, <3>7 DEF Coherent, Same
      <4> QED BY <3>1, <3>2, <3>3, <3>7, <4>1, <4>2, <4>3 DEF Ongoing, q, new
    <3> QED BY <3>1, <3>4, <3>5, <3>6, <3>7 DEF Ownerships
  <2>5. ASSUME NEW r \in Requests, r \notin ToSet(live)
        PROVE  /\ Coherent(request'[r]) /\ NeverBack(request[r], request'[r])
               /\ ~Ongoing(request'[r]) /\ r \notin Unsent'
    <3>1. request'[r] = request[r] /\ ~Ongoing(request[r])
      BY <2>3, <2>5 DEF LifeInv, LiveInv
    <3>2. r \notin Unsent' BY <3>1 DEF Ongoing, Unsent
    <3> QED BY <1>1, <3>1, <3>2, NeverBackSame DEF LifeInv, CoherentInv
  <2>6. CoherentInv' /\ Monotone BY <2>4, <2>5 DEF CoherentInv, Monotone
  <2>7. LiveInv' BY <2>4, <2>5 DEF LifeInv, LiveInv
  <2>8. PendingInv'
    <3>1. Unsent' = {} BY <2>4, <2>5 DEF Unsent
    <3> QED BY <2>1, <3>1, ToSetEmpty DEF PendingInv
  <2>9. ToSet(ready) \cap ToSet(UnsentLive) = {} BY <2>2
  <2>10. /\ ToSet(terminal_ready') = ToSet(ready) \cup (ToSet(live) \cap ended)
         /\ IsInjective(terminal_ready')
    BY <2>1, <2>2, <2>9, ToSetConcat
  <2>11. \A r \in Requests : Ongoing(request'[r]) => Ongoing(request[r])
    BY <2>4, <2>5
  <2>12. \A r \in ToSet(live) : request'[r].stage = "Terminal"
           <=> request[r].stage = "Terminal" \/ r \in ended
    BY <2>4
  <2> HIDE DEF ended
  <2>13. /\ ToSet(terminal_ready')
              \subseteq {r \in ToSet(live) : request'[r].stage = "Terminal"}
         /\ \A r \in ToSet(live) : request'[r].stage = "Terminal"
              => r \in ToSet(terminal_ready') \/ (r \notin ToSet(ready) /\ request[r].stage = "Terminal")
    BY <2>10, <2>12
  <2> QED BY <2>6, <2>7, <2>8, <2>10, <2>11, <2>13
<1> QED BY <1>3, <1>4

(* A drain keeps the lists in step with the states.                        *)
LEMMA DrainKeeps ==
  ASSUME TypeInv, LifeInv, NEW error \in Errors, EnterDraining(error, terminal_ready),
         UNCHANGED <<live, observer_enabled>>, run_pc' \notin {"returned", "exited"}
  PROVE  CoherentInv' /\ LiveInv' /\ PendingInv' /\ MarkersInv' /\ ExitInv' /\ Monotone
<1>1. /\ terminal_ready \in Seq(Requests) /\ IsInjective(terminal_ready)
      /\ ToSet(terminal_ready) \subseteq {r \in ToSet(live) : request[r].stage = "Terminal"}
  BY DEF TypeInv, SchedulerTypes, LifeInv, MarkersInv, MarkersExact
<1>2. /\ CoherentInv' /\ LiveInv' /\ PendingInv' /\ Monotone
      /\ IsInjective(terminal_ready')
      /\ ToSet(terminal_ready')
           \subseteq {r \in ToSet(live) : request'[r].stage = "Terminal"}
      /\ \A r \in ToSet(live) : request'[r].stage = "Terminal"
           => r \in ToSet(terminal_ready')
              \/ (r \notin ToSet(terminal_ready) /\ request[r].stage = "Terminal")
  BY <1>1, DrainMoves
<1>3. MarkersInv' BY <1>2 DEF LifeInv, MarkersInv, MarkersExact
<1>4. ExitInv' BY DEF ExitInv
<1> QED BY <1>2, <1>3, <1>4

(* Between two passes nothing is left to be swept;                         *)
LEMMA SweepIdle ==
  ASSUME LifeInv, run_pc \notin {"releases", "cleanup"}
  PROVE  sweep = << >> /\ (sweep' = sweep => SweepInv')
<1>1. sweep = << >> BY DEF LifeInv, SweepInv
<1> QED BY <1>1, ToSetEmpty DEF SweepInv

(* a pass starts with what is still to be released.                        *)
LEMMA SweepBegins ==
  ASSUME TypeInv, IsInjective(live), live' = live, sweep' = Unreleased(request'),
         run_pc' \in {"releases", "cleanup"}
  PROVE  SweepInv'
<1> DEFINE unsent == {r \in Requests : /\ request'[r].stage = "PendingRelease"
                                      /\ ~request'[r].release_sent}
<1>1. live \in Seq(Requests) BY DEF TypeInv, SchedulerTypes
<1>2. sweep' = Filter(live, unsent) BY DEF Unreleased
<1>3. IsInjective(sweep') /\ ToSet(sweep') \subseteq unsent
  BY <1>1, <1>2, FilterProperties
<1> QED BY <1>3 DEF SweepInv
-----------------------------------------------------------------------------
(* Every step of the scheduler keeps its lists and goes forward.           *)
LEMMA LifeStep ==
  ASSUME TypeInv, LifeInv, SchedulerNext
  PROVE  LifeInv' /\ Monotone
<1>0. /\ request \in [Requests -> RequestStates] /\ live \in Seq(Requests)
      /\ pending_admissions \in Seq(Requests) /\ terminal_ready \in Seq(Requests)
      /\ sweep \in Seq(Requests) /\ drain_error \in Errors
      /\ ToSet(live) \subseteq Requests
  BY LenProperties DEF TypeInv, SchedulerTypes, ToSet
<1>a. "EnvironmentStopped" \in Errors /\ "ProtocolViolation" \in Errors /\ "None" \in Errors
  BY DEF Errors
<1>b. ASSUME NEW r \in Requests, Known(r), request[r].stage # "Terminal"
      PROVE  Ongoing(request[r])
  BY <1>b DEF Known, LifeInv, LiveInv, Ongoing
<1>1. ASSUME NEW r \in Requests, Submit(r) PROVE LifeInv' /\ Monotone
  <2> DEFINE q == Fresh("PendingAdmission")
  <2>1. /\ run_pc \in {"outside", "returned"} /\ request[r].stage = "Unsubmitted"
        /\ request' = [request EXCEPT ![r] = q]
        /\ live' = Append(live, r) /\ pending_admissions' = Append(pending_admissions, r)
        /\ run_pc' = "outside"
        /\ UNCHANGED <<terminal_ready, observer_enabled, sweep>>
    BY <1>1 DEF Submit
  <2>2. /\ q.stage = "PendingAdmission" /\ q.admission = "NotSent"
        /\ q.terminal_error = "None" /\ ~q.release_sent /\ ~q.start_recorded
        /\ q.prefill_position = 0 /\ q.decoded_count = 0
    BY DEF Fresh
  <2> HIDE DEF q
  <2>3. Coherent(q) BY <2>2 DEF Coherent
  <2>4. request'[r] = q /\ \A x \in Requests : x # r => request'[x] = request[x]
    BY <1>0, <2>1
  <2>5. r \notin ToSet(live) /\ r \notin ToSet(pending_admissions)
        /\ r \notin ToSet(terminal_ready)
    BY <2>1 DEF LifeInv, LiveInv, PendingInv, Unsent, MarkersInv, MarkersExact
  <2>6. CoherentInv' BY <2>3, <2>4 DEF LifeInv, CoherentInv
  <2>7. /\ IsInjective(live') /\ ToSet(live') = ToSet(live) \cup {r}
        /\ IsInjective(pending_admissions')
        /\ ToSet(pending_admissions') = ToSet(pending_admissions) \cup {r}
    BY <1>0, <2>1, <2>5, ToSetAppend DEF LifeInv, LiveInv, PendingInv
  <2>8. LiveInv' BY <2>2, <2>4, <2>7 DEF LifeInv, LiveInv, Ongoing
  <2>9. PendingInv' BY <2>1, <2>2, <2>4, <2>7 DEF LifeInv, PendingInv, Unsent
  <2>10. MarkersInv'
    BY <1>0, <2>1, <2>2, <2>4, <2>5, <2>7 DEF LifeInv, MarkersInv, MarkersExact
  <2>11. SweepInv' BY <2>1, SweepIdle
  <2>12. ExitInv' BY <2>1 DEF ExitInv
  <2>13. Monotone
    <3>1. request[r] = Fresh("Unsubmitted") BY <2>1 DEF LifeInv, CoherentInv, Coherent
    <3>2. /\ request[r].prefill_position = 0 /\ request[r].decoded_count = 0
          /\ request[r].stage = "Unsubmitted" /\ request[r].terminal_error = "None"
      BY <3>1 DEF Fresh
    <3>3. NeverBack(request[r], q) BY <2>2, <3>2, SMT DEF NeverBack
    <3> QED BY <1>0, <2>4, <3>3, NeverBackSame DEF Monotone
  <2> QED BY <2>6, <2>8, <2>9, <2>10, <2>11, <2>12, <2>13 DEF LifeInv
<1>2. CASE RequestStop
  BY <1>2, LifeKept DEF RequestStop, lifecycleVars
<1>3. CASE StopEnvironment
  BY <1>3, LifeKept, SweepIdle DEF StopEnvironment, lifecycleVars
<1>4. CASE BeginIteration
  <2>1. SweepInv' BY <1>4, SweepIdle DEF BeginIteration
  <2>2. run_pc' \notin {"returned", "exited"} BY <1>4 DEF BeginIteration
  <2>3. CASE scheduler_stop
    <3>1. EnterDraining("EnvironmentStopped", terminal_ready)
      BY <1>4, <2>3 DEF BeginIteration
    <3> QED BY <1>4, <1>a, <2>1, <2>2, <3>1, DrainKeeps DEF BeginIteration, LifeInv
  <2>4. CASE ~scheduler_stop
    BY <1>4, <2>2, <2>4, LifeKept, SweepIdle DEF BeginIteration
  <2> QED BY <2>3, <2>4
<1>5. CASE FlushAdmission
  <2> DEFINE r == Head(pending_admissions)
             q == [request[r] EXCEPT !.admission = "InFlight"]
  <2>1. /\ r \in ToSet(pending_admissions) /\ r \in Requests
        /\ IsInjective(Tail(pending_admissions))
        /\ ToSet(Tail(pending_admissions)) = ToSet(pending_admissions) \ {r}
    BY <1>0, <1>5, TakeHead, HeadTailProperties DEF FlushAdmission, LifeInv, PendingInv
  <2>2. request[r].stage = "PendingAdmission" /\ request[r] \in RequestStates
    BY <1>0, <2>1 DEF LifeInv, PendingInv, Unsent
  <2>3. /\ q.stage = request[r].stage /\ q.admission = "InFlight"
        /\ q.terminal_error = request[r].terminal_error
        /\ Same(request[r], q) /\ SameProgress(request[r], q)
    BY <2>2, SMT DEF RequestStates, Same, SameProgress
  <2>4. /\ request' = [request EXCEPT ![r] = q]
        /\ UNCHANGED <<live, terminal_ready, observer_enabled, run_pc, sweep>>
        /\ pending_admissions' = Tail(pending_admissions) /\ run_pc = "flush"
    BY <1>5 DEF FlushAdmission
  <2> HIDE DEF q, r
  <2>5. Coherent(request[r]) BY <2>1 DEF LifeInv, CoherentInv
  <2>6. Coherent(q) BY <2>2, <2>3, <2>5 DEF Coherent, Same, SameProgress
  <2>7. NeverBack(request[r], q)
    BY <2>2, <2>3, NeverBackSame DEF NeverBack, SameProgress
  <2>8. CoherentInv' /\ LiveInv' /\ MarkersInv' /\ ExitInv' /\ Monotone
    BY <2>1, <2>2, <2>3, <2>4, <2>6, <2>7, OneMoves DEF Ongoing
  <2>9. request'[r] = q /\ \A x \in Requests : x # r => request'[x] = request[x]
    BY <1>0, <2>1, <2>4
  <2>10. Unsent' = Unsent \ {r} BY <2>3, <2>9 DEF Unsent
  <2>11. PendingInv' BY <2>1, <2>4, <2>10 DEF LifeInv, PendingInv
  <2>12. SweepInv' BY <2>4, SweepIdle
  <2> QED BY <2>8, <2>11, <2>12 DEF LifeInv
<1>6. CASE FlushDone
  BY <1>6, LifeKept, SweepIdle DEF FlushDone, lifecycleVars
<1>7. CASE SnapshotEpoch
  BY <1>7, LifeKept, SweepIdle DEF SnapshotEpoch, lifecycleVars
(* The drains, one message: a request that was sent moves on or ends.      *)
<1>c. ASSUME NEW r \in Requests, NEW q, request' = [request EXCEPT ![r] = q],
             r \notin Unsent, q.admission # "NotSent" \/ q.stage # "PendingAdmission",
             UNCHANGED <<pending_admissions, sweep>>,
             run_pc \notin {"releases", "cleanup"}
      PROVE  PendingInv' /\ SweepInv'
  <2>1. request'[r] = q /\ \A x \in Requests : x # r => request'[x] = request[x]
    BY <1>0, <1>c
  <2>2. Unsent' = Unsent BY <1>c, <2>1 DEF Unsent
  <2> QED BY <1>c, <2>2, SweepIdle DEF LifeInv, PendingInv
<1>8. CASE TakeAdmissionResult
  <2> DEFINE answer == Head(admission_results)
             r == answer.id
             q == request[r]
  <2>1. answer \in Results
    BY <1>8, HeadTailProperties DEF TakeAdmissionResult, TypeInv, ChannelTypes
  <2>2. /\ run_pc = "results"
        /\ UNCHANGED <<run_pc, live, pending_admissions, observer_enabled, sweep>>
    BY <1>8 DEF TakeAdmissionResult
  <2>3. r \in Requests /\ answer.error \in Errors /\ answer.cached_prefix_tokens \in Nat
    BY <2>1 DEF Results
  <2>4. q \in RequestStates /\ Coherent(q) BY <1>0, <2>3 DEF LifeInv, CoherentInv
  <2>5. CASE ~Awaiting(r)
    <3>1. UNCHANGED <<request, terminal_ready>> BY <1>8, <2>5 DEF TakeAdmissionResult
    <3> QED BY <2>2, <3>1, LifeKept
  <2>6. ASSUME Awaiting(r)
        PROVE  Ongoing(q) /\ q.stage = "PendingAdmission" /\ q.admission = "InFlight"
               /\ r \notin Unsent
    <3>1. Ongoing(q) /\ q.admission = "InFlight"
      BY <1>b, <2>3, <2>6 DEF Awaiting
    <3>2. q.stage \in Stages BY <2>4 DEF RequestStates
    <3> QED BY <2>4, <3>1, <3>2 DEF Coherent, Ongoing, Stages, Unsent
  <2>7. CASE Awaiting(r) /\ answer.error # "None"
    <3> DEFINE cause == FirstError(q.terminal_error, answer.error)
               new == ToTerminal(q, cause)
    <3>1. request' = [request EXCEPT ![r] = new] /\ terminal_ready' = Append(terminal_ready, r)
      BY <1>8, <2>7 DEF TakeAdmissionResult
    <3>2. /\ q.terminal_error \in Errors /\ cause \in Errors
          /\ q.terminal_error # "None" => cause = q.terminal_error
      BY <2>3, <2>4, ErrorFields DEF RequestStates
    <3> HIDE DEF cause
    <3>3. /\ new.stage = "Terminal" /\ new.admission = "NotSent"
          /\ new.terminal_error = cause /\ Same(q, new) /\ SameProgress(q, new)
      BY <2>4, <3>2, TerminalFields
    <3> HIDE DEF new, q, r, answer
    <3>4. Coherent(new) BY <3>3 DEF Coherent, Same
    <3>5. NeverBack(q, new)
      BY <2>4, <2>6, <2>7, <3>2, <3>3, NeverBackSame DEF NeverBack, SameProgress
    <3>6. CoherentInv' /\ LiveInv' /\ MarkersInv' /\ ExitInv' /\ Monotone
      BY <2>2, <2>3, <2>6, <2>7, <3>1, <3>3, <3>4, <3>5, OneEnds DEF q
    <3>7. PendingInv' /\ SweepInv' BY <1>c, <2>2, <2>3, <2>6, <2>7, <3>1, <3>3
    <3> QED BY <3>6, <3>7 DEF LifeInv
  <2>8. CASE Awaiting(r) /\ answer.error = "None"
    <3> DEFINE new == Admitted(q, answer)
    <3>1. request' = [request EXCEPT ![r] = new] /\ terminal_ready' = terminal_ready
      BY <1>8, <2>8 DEF TakeAdmissionResult
    <3>2. /\ new.admission = "EnvironmentOwned" /\ new.stage \in {"Prefill", "PendingRelease"}
          /\ new.prefill_position = answer.cached_prefix_tokens
          /\ new.decoded_count = q.decoded_count
          /\ new.release_sent = q.release_sent
          /\ new.terminal_error \in {q.terminal_error,
                                     FirstError(q.terminal_error, drain_error)}
      BY <1>0, <2>1, <2>4, AdmittedFields
    <3> HIDE DEF new
    <3>3. Coherent(new) BY <2>4, <2>6, <2>8, <3>2 DEF Coherent
    <3>4. NeverBack(q, new)
      <4>1. q.prefill_position = 0 /\ q.decoded_count = 0
        BY <2>4, <2>6, <2>8 DEF Coherent
      <4>2. new.prefill_position >= q.prefill_position /\ new.decoded_count >= q.decoded_count
        BY <2>3, <3>2, <4>1, SMT
      <4>3. q.terminal_error \in Errors BY <2>4 DEF RequestStates
      <4>4. q.terminal_error # "None" => new.terminal_error = q.terminal_error
        BY <1>0, <3>2, <4>3, ErrorFields
      <4> QED BY <2>6, <2>8, <3>2, <4>2, <4>4 DEF NeverBack
    <3> HIDE DEF q, r, answer
    <3>5. CoherentInv' /\ LiveInv' /\ MarkersInv' /\ ExitInv' /\ Monotone
      BY <2>2, <2>3, <2>6, <2>8, <3>1, <3>2, <3>3, <3>4, OneMoves DEF q, Ongoing
    <3>6. PendingInv' /\ SweepInv' BY <1>c, <2>2, <2>3, <2>6, <2>8, <3>1, <3>2
    <3> QED BY <3>5, <3>6 DEF LifeInv
  <2> QED BY <2>5, <2>7, <2>8
<1>9. CASE TakeOutput
  <2> DEFINE r == Head(outputs)
             q == request[r]
             new == [q EXCEPT !.pieces = q.pieces + 1]
  <2>1. r \in Requests
    BY <1>9, HeadTailProperties DEF TakeOutput, TypeInv, ChannelTypes
  <2>2. /\ run_pc = "outputs"
        /\ UNCHANGED <<run_pc, live, pending_admissions, terminal_ready,
                       observer_enabled, sweep>>
    BY <1>9 DEF TakeOutput
  <2>3. CASE Known(r) /\ q.stage # "Terminal"
    <3>1. request' = [request EXCEPT ![r] = new] BY <1>9, <2>3 DEF TakeOutput
    <3>2. q \in RequestStates /\ Coherent(q) /\ Ongoing(q)
      BY <1>0, <1>b, <2>1, <2>3 DEF LifeInv, CoherentInv
    <3>3. /\ new.stage = q.stage /\ new.admission = q.admission
          /\ new.terminal_error = q.terminal_error /\ SameProgress(q, new)
          /\ new.release_sent = q.release_sent /\ new.start_recorded = q.start_recorded
      BY <3>2, SMT DEF RequestStates, SameProgress
    <3> HIDE DEF new
    <3>4. Coherent(new) BY <3>2, <3>3 DEF Coherent, SameProgress, Ongoing
    <3>5. NeverBack(q, new)
      BY <2>3, <3>2, <3>3, NeverBackSame DEF NeverBack, SameProgress
    <3>6. CoherentInv' /\ LiveInv' /\ MarkersInv' /\ ExitInv' /\ Monotone
      BY <2>1, <2>2, <3>1, <3>2, <3>3, <3>4, <3>5, OneMoves DEF Ongoing
    <3>7. Unsent' = Unsent
      <4>1. request'[r] = new /\ \A x \in Requests : x # r => request'[x] = request[x]
        BY <1>0, <2>1, <3>1
      <4> QED BY <3>3, <4>1 DEF Unsent
    <3>8. PendingInv' /\ SweepInv' BY <2>2, <3>7, SweepIdle DEF LifeInv, PendingInv
    <3> QED BY <3>6, <3>8 DEF LifeInv
  <2>4. CASE ~(Known(r) /\ q.stage # "Terminal")
    <3>1. request' = request BY <1>9, <2>4 DEF TakeOutput
    <3> QED BY <2>2, <3>1, LifeKept
  <2> QED BY <2>3, <2>4
<1>10. CASE TakeCompletion
  <2> DEFINE c == Head(completions)
             r == c.id
             q == request[r]
             new == Folded(q, c)
  <2>1. c \in Completions
    BY <1>10, HeadTailProperties DEF TakeCompletion, TypeInv, ChannelTypes
  <2>2. r \in Requests BY <2>1 DEF Completions
  <2>3. /\ run_pc = "completions"
        /\ UNCHANGED <<run_pc, live, pending_admissions, terminal_ready,
                       observer_enabled, sweep>>
    BY <1>10 DEF TakeCompletion
  <2>4. CASE Known(r) /\ q.stage # "Terminal" /\ q.admission = "EnvironmentOwned"
    <3>1. request' = [request EXCEPT ![r] = new] BY <1>10, <2>4 DEF TakeCompletion
    <3>2. q \in RequestStates /\ Coherent(q) /\ Ongoing(q)
      BY <1>0, <1>b, <2>2, <2>4 DEF LifeInv, CoherentInv
    <3>3. /\ new.admission = q.admission /\ new.terminal_error = q.terminal_error
          /\ Same(q, new)
          /\ new.prefill_position >= q.prefill_position
          /\ new.decoded_count >= q.decoded_count
          /\ new.stage \in {"Prefill", "Decode", "PendingRelease"} \/ new.stage = q.stage
          /\ q.stage = "PendingRelease" => new.stage = "PendingRelease"
      BY <2>1, <3>2, FoldedFields
    <3> HIDE DEF new
    <3>4. q.stage # "PendingAdmission" BY <2>4, <3>2 DEF Coherent
    <3>5. Coherent(new) BY <2>4, <3>2, <3>3, <3>4 DEF Coherent, Ongoing, Same
    <3>6. NeverBack(q, new) BY <2>4, <3>3 DEF NeverBack
    <3> HIDE DEF q, r, c
    <3>7. CoherentInv' /\ LiveInv' /\ MarkersInv' /\ ExitInv' /\ Monotone
      BY <2>2, <2>3, <3>1, <3>2, <3>3, <3>5, <3>6, OneMoves DEF Ongoing, q
    <3>8. PendingInv' /\ SweepInv'
      BY <1>c, <2>2, <2>3, <2>4, <3>1, <3>3 DEF Unsent, q
    <3> QED BY <3>7, <3>8 DEF LifeInv
  <2>5. CASE ~(Known(r) /\ q.stage # "Terminal" /\ q.admission = "EnvironmentOwned")
    <3>1. request' = request BY <1>10, <2>5 DEF TakeCompletion
    <3> QED BY <2>3, <3>1, LifeKept
  <2> QED BY <2>4, <2>5
<1>11. CASE TakeReleaseAck
  <2> DEFINE r == Head(release_acks)
             q == request[r]
             new == ToTerminal(q, q.terminal_error)
  <2>1. r \in Requests
    BY <1>11, HeadTailProperties DEF TakeReleaseAck, TypeInv, ChannelTypes
  <2>2. /\ run_pc = "acks"
        /\ UNCHANGED <<run_pc, live, pending_admissions, observer_enabled, sweep>>
    BY <1>11 DEF TakeReleaseAck
  <2>3. CASE Known(r) /\ q.stage = "PendingRelease" /\ q.release_sent
    <3>1. request' = [request EXCEPT ![r] = new] /\ terminal_ready' = Append(terminal_ready, r)
      BY <1>11, <2>3 DEF TakeReleaseAck
    <3>2. q \in RequestStates /\ q.terminal_error \in Errors
      BY <1>0, <2>1 DEF RequestStates
    <3>3. /\ new.stage = "Terminal" /\ new.admission = "NotSent"
          /\ new.terminal_error = q.terminal_error /\ Same(q, new) /\ SameProgress(q, new)
      BY <3>2, TerminalFields
    <3> HIDE DEF new
    <3>4. Coherent(new) BY <3>3 DEF Coherent
    <3>5. NeverBack(q, new)
      BY <2>3, <3>2, <3>3, NeverBackSame DEF NeverBack, SameProgress
    <3>6. CoherentInv' /\ LiveInv' /\ MarkersInv' /\ ExitInv' /\ Monotone
      BY <2>1, <2>2, <2>3, <3>1, <3>3, <3>4, <3>5, OneEnds DEF Ongoing
    <3>7. PendingInv' /\ SweepInv'
      BY <1>c, <2>1, <2>2, <2>3, <3>1, <3>3 DEF Unsent
    <3> QED BY <3>6, <3>7 DEF LifeInv
  <2>4. CASE ~(Known(r) /\ q.stage = "PendingRelease" /\ q.release_sent)
    <3>1. UNCHANGED <<request, terminal_ready>> BY <1>11, <2>4 DEF TakeReleaseAck
    <3> QED BY <2>2, <3>1, LifeKept
  <2> QED BY <2>3, <2>4
<1>12. CASE TakeFatal
  <2>1. Head(fatals) \in Errors
    BY <1>12, HeadTailProperties DEF TakeFatal, TypeInv, ChannelTypes
  <2>2. /\ EnterDraining(Head(fatals), terminal_ready) /\ run_pc = "fatals"
        /\ UNCHANGED <<live, observer_enabled, run_pc, sweep>>
    BY <1>12 DEF TakeFatal
  <2>3. SweepInv' BY <2>2, SweepIdle
  <2> QED BY <2>1, <2>2, <2>3, DrainKeeps DEF LifeInv
<1>13. CASE DrainDone
  <2>1. CASE run_pc' = "releases"
    <3>1. /\ sweep' = Unreleased(request')
          /\ UNCHANGED <<request, live, pending_admissions, terminal_ready, observer_enabled>>
      BY <1>13, <2>1 DEF DrainDone, lifecycleVars
    <3>2. SweepInv' BY <2>1, <3>1, SweepBegins DEF LifeInv, LiveInv
    <3>3. Monotone BY <1>0, <3>1, NeverBackSame DEF Monotone
    <3>4. CoherentInv' /\ LiveInv' /\ PendingInv' /\ MarkersInv' /\ ExitInv'
      BY <2>1, <3>1 DEF LifeInv, CoherentInv, LiveInv, PendingInv, Unsent, MarkersInv,
                        MarkersExact, ExitInv
    <3> QED BY <3>2, <3>3, <3>4 DEF LifeInv
  <2>2. CASE run_pc' # "releases"
    BY <1>13, <2>2, LifeKept DEF DrainDone, lifecycleVars
  <2> QED BY <2>1, <2>2
<1>14. CASE TryRelease
  <2> DEFINE r == Head(sweep)
             q == request[r]
             new == [q EXCEPT !.release_sent = TRUE]
  <2>1. /\ r \in ToSet(sweep) /\ r \in Requests /\ IsInjective(Tail(sweep))
        /\ ToSet(Tail(sweep)) = ToSet(sweep) \ {r}
    BY <1>0, <1>14, TakeHead, HeadTailProperties DEF TryRelease, LifeInv, SweepInv
  <2>2. /\ q \in RequestStates /\ Coherent(q) /\ q.stage = "PendingRelease"
        /\ run_pc \in {"releases", "cleanup"}
    BY <1>0, <1>14, <2>1 DEF TryRelease, LifeInv, SweepInv, CoherentInv
  <2>3. /\ UNCHANGED <<run_pc, live, pending_admissions, terminal_ready, observer_enabled>>
        /\ sweep' = Tail(sweep)
    BY <1>14 DEF TryRelease
  <2>4. CASE HasRoom(releases)
    <3>1. request' = [request EXCEPT ![r] = new] BY <1>14, <2>4 DEF TryRelease
    <3>2. /\ new.stage = q.stage /\ new.admission = q.admission
          /\ new.terminal_error = q.terminal_error /\ SameProgress(q, new)
      BY <2>2, SMT DEF RequestStates, SameProgress
    <3> HIDE DEF new
    <3>3. Coherent(new) BY <2>2, <3>2 DEF Coherent
    <3>4. NeverBack(q, new)
      BY <2>2, <3>2, NeverBackSame DEF NeverBack, SameProgress
    <3>5. CoherentInv' /\ LiveInv' /\ MarkersInv' /\ ExitInv' /\ Monotone
      BY <2>1, <2>2, <2>3, <3>1, <3>2, <3>3, <3>4, OneMoves DEF Ongoing
    <3>6. request'[r] = new /\ \A x \in Requests : x # r => request'[x] = request[x]
      BY <1>0, <2>1, <3>1
    <3>7. PendingInv' BY <2>2, <2>3, <3>2, <3>6 DEF LifeInv, PendingInv, Unsent
    <3>8. ToSet(sweep) \subseteq Requests BY <1>0, LenProperties DEF ToSet
    <3>9. SweepInv' BY <2>1, <2>2, <2>3, <3>6, <3>8 DEF LifeInv, SweepInv
    <3> QED BY <3>5, <3>7, <3>9 DEF LifeInv
  <2>5. CASE ~HasRoom(releases)
    <3>1. request' = request BY <1>14, <2>5 DEF TryRelease
    <3>2. SweepInv' BY <2>1, <2>2, <2>3, <3>1 DEF LifeInv, SweepInv
    <3>3. Monotone BY <1>0, <3>1, NeverBackSame DEF Monotone
    <3>4. CoherentInv' /\ LiveInv' /\ PendingInv' /\ MarkersInv' /\ ExitInv'
      BY <2>3, <3>1 DEF LifeInv, CoherentInv, LiveInv, PendingInv, Unsent, MarkersInv,
                        MarkersExact, ExitInv
    <3> QED BY <3>2, <3>3, <3>4 DEF LifeInv
  <2> QED BY <2>4, <2>5
<1>15. CASE ReleasesDone
  BY <1>15, LifeKept DEF ReleasesDone, lifecycleVars
<1>16. CASE RetireTerminal
  <2> DEFINE r == Head(terminal_ready)
             rest == Filter(live, Requests \ {r})
  <2>1. /\ r \in ToSet(terminal_ready) /\ IsInjective(Tail(terminal_ready))
        /\ ToSet(Tail(terminal_ready)) = ToSet(terminal_ready) \ {r}
    BY <1>0, <1>16, TakeHead DEF RetireTerminal, LifeInv, MarkersInv, MarkersExact
  <2>2. request[r].stage = "Terminal" /\ r \in ToSet(live)
    BY <2>1 DEF LifeInv, MarkersInv, MarkersExact
  <2>3. /\ IsInjective(rest) /\ ToSet(rest) = ToSet(live) \ {r}
    BY <1>0, FilterProperties DEF LifeInv, LiveInv
  <2> HIDE DEF rest
  <2>4. /\ live' = IF Streaming /\ ~observer_enabled THEN live ELSE rest
        /\ terminal_ready' = Tail(terminal_ready) /\ run_pc = "retire"
        /\ UNCHANGED <<request, pending_admissions, observer_enabled, run_pc, sweep>>
    BY <1>16 DEF RetireTerminal, rest
  <2>5. LiveInv' BY <2>2, <2>3, <2>4 DEF LifeInv, LiveInv, Ongoing
  <2>6. MarkersInv'
    <3>1. CASE Streaming /\ ~observer_enabled
      BY <2>1, <2>4, <3>1 DEF LifeInv, MarkersInv, MarkersExact
    <3>2. CASE ~(Streaming /\ ~observer_enabled)
      BY <2>1, <2>3, <2>4, <3>2 DEF LifeInv, MarkersInv, MarkersExact
    <3> QED BY <3>1, <3>2
  <2>7. CoherentInv' /\ PendingInv' /\ ExitInv'
    BY <2>4 DEF LifeInv, CoherentInv, PendingInv, Unsent, ExitInv
  <2>8. SweepInv' BY <2>4, SweepIdle
  <2>9. Monotone BY <1>0, <2>4, NeverBackSame DEF Monotone
  <2> QED BY <2>5, <2>6, <2>7, <2>8, <2>9 DEF LifeInv
<1>17. CASE ObserverFails
  <2> DEFINE r == Head(terminal_ready)
             ready == Tail(terminal_ready)
  <2>1. /\ r \in ToSet(terminal_ready) /\ IsInjective(ready) /\ ready \in Seq(Requests)
        /\ ToSet(ready) = ToSet(terminal_ready) \ {r}
    BY <1>0, <1>17, TakeHead DEF ObserverFails, LifeInv, MarkersInv, MarkersExact
  <2>2. /\ EnterDraining("EnvironmentStopped", ready) /\ observer_enabled
        /\ observer_enabled' = FALSE /\ run_pc = "retire"
        /\ UNCHANGED <<live, run_pc, sweep>>
    BY <1>17 DEF ObserverFails
  <2>3. ToSet(ready) \subseteq {x \in ToSet(live) : request[x].stage = "Terminal"}
    BY <2>1 DEF LifeInv, MarkersInv, MarkersExact
  <2> HIDE DEF ready, r
  <2>4. /\ CoherentInv' /\ LiveInv' /\ PendingInv' /\ Monotone
        /\ IsInjective(terminal_ready')
        /\ ToSet(terminal_ready')
             \subseteq {x \in ToSet(live) : request'[x].stage = "Terminal"}
    BY <1>a, <2>1, <2>2, <2>3, DrainMoves
  <2>5. MarkersInv' BY <2>2, <2>4 DEF LifeInv, MarkersInv, MarkersExact
  <2>6. SweepInv' /\ ExitInv' BY <2>2, SweepIdle DEF ExitInv
  <2> QED BY <2>4, <2>5, <2>6 DEF LifeInv
<1>18. CASE ObserveBatch
  BY <1>18, LifeKept, SweepIdle DEF ObserveBatch, lifecycleVars
<1>19. CASE FinishRun
  <2>1. \A r \in Requests : ~Ongoing(request[r])
    BY <1>19 DEF FinishRun, AllTerminal, LifeInv, LiveInv, CoherentInv, Coherent, Ongoing
  <2> QED BY <1>19, <2>1, LifeKept, SweepIdle DEF FinishRun, lifecycleVars
<1>20. CASE KeepRunning \/ WaitForRelease
  BY <1>20, LifeKept, SweepIdle DEF KeepRunning, WaitForRelease, lifecycleVars
<1>21. CASE PublishPlan
  <2>1. PICK work \in PolicyPlans :
          LET first == {work[i].id : i \in DOMAIN work} \cap
                       {r \in Requests : ~request[r].start_recorded}
          IN  /\ ValidPlan(work)
              /\ request' = [r \in Requests |->
                   IF r \in first THEN [request[r] EXCEPT !.start_recorded = TRUE]
                   ELSE request[r]]
    BY <1>21 DEF PublishPlan
  <2> DEFINE first == {work[i].id : i \in DOMAIN work} \cap
                      {r \in Requests : ~request[r].start_recorded}
  <2>2. \A r \in first : request[r].stage \in {"Prefill", "Decode"}
    BY <2>1 DEF ValidPlan, ValidWork
  <2>3. /\ run_pc = "decide" /\ run_pc' = "outside"
        /\ UNCHANGED <<live, pending_admissions, terminal_ready, observer_enabled, sweep>>
    BY <1>21 DEF PublishPlan
  <2>4. request' = [r \in Requests |->
                     IF r \in first THEN [request[r] EXCEPT !.start_recorded = TRUE]
                     ELSE request[r]]
    BY <2>1
  <2> HIDE DEF first
  <2>5. ASSUME NEW r \in Requests
        PROVE  /\ Coherent(request'[r]) /\ NeverBack(request[r], request'[r])
               /\ request'[r].stage = request[r].stage
               /\ request'[r].admission = request[r].admission
    <3> DEFINE q == request[r]
               new == [q EXCEPT !.start_recorded = TRUE]
    <3>1. q \in RequestStates /\ Coherent(q) BY <1>0 DEF LifeInv, CoherentInv
    <3>2. CASE r \notin first
      BY <2>4, <3>1, <3>2, NeverBackSame
    <3>3. CASE r \in first
      <4>1. request'[r] = new BY <2>4, <3>3
      <4>2. /\ new.stage = q.stage /\ new.admission = q.admission
            /\ new.terminal_error = q.terminal_error /\ SameProgress(q, new)
            /\ new.release_sent = q.release_sent
        BY <3>1, SMT DEF RequestStates, SameProgress
      <4> HIDE DEF new
      <4>3. q.stage \in {"Prefill", "Decode"} BY <2>2, <3>3
      <4>4. Coherent(new) BY <3>1, <4>2, <4>3 DEF Coherent
      <4>5. NeverBack(q, new)
        BY <3>1, <4>2, <4>3, NeverBackSame DEF NeverBack, SameProgress
      <4> QED BY <4>1, <4>2, <4>4, <4>5
    <3> QED BY <3>2, <3>3
  <2>6. CoherentInv' /\ Monotone BY <2>5 DEF CoherentInv, Monotone
  <2>7. LiveInv' /\ PendingInv' /\ MarkersInv'
    BY <1>0, <2>3, <2>5 DEF LifeInv, LiveInv, Ongoing, PendingInv, Unsent, MarkersInv, MarkersExact
  <2>8. SweepInv' /\ ExitInv' BY <2>3, SweepIdle DEF ExitInv
  <2> QED BY <2>6, <2>7, <2>8 DEF LifeInv
<1>22. CASE RejectPlan \/ BuildThrows
  <2>1. /\ \/ EnterDraining("EnvironmentStopped", terminal_ready)
           \/ EnterDraining("ProtocolViolation", terminal_ready)
        /\ run_pc = "decide" /\ run_pc' \notin {"returned", "exited"}
        /\ UNCHANGED <<live, observer_enabled, sweep>>
    BY <1>22 DEF RejectPlan, BuildThrows
  <2>2. SweepInv' BY <2>1, SweepIdle
  <2> QED BY <1>a, <2>1, <2>2, DrainKeeps DEF LifeInv
<1>23. CASE NoWork
  <2>1. /\ EnterDraining("ProtocolViolation", terminal_ready)
        /\ run_pc' = "cleanup" /\ sweep' = Unreleased(request')
        /\ UNCHANGED <<live, observer_enabled>>
    BY <1>23 DEF NoWork
  <2>2. SweepInv' BY <2>1, SweepBegins DEF LifeInv, LiveInv
  <2> QED BY <1>a, <2>1, <2>2, DrainKeeps DEF LifeInv
<1> QED
  BY <1>1, <1>2, <1>3, <1>4, <1>5, <1>6, <1>7, <1>8, <1>9, <1>10, <1>11, <1>12, <1>13,
     <1>14, <1>15, <1>16, <1>17, <1>18, <1>19, <1>20, <1>21, <1>22, <1>23
  DEF SchedulerNext, SchedulerStep
-----------------------------------------------------------------------------
(* The lists agree with the states at the start,                           *)
LEMMA InitLife == Init => LifeInv
<1> SUFFICES ASSUME Init PROVE LifeInv
  OBVIOUS
<1>1. /\ request = [r \in Requests |-> Fresh("Unsubmitted")]
      /\ live = << >> /\ pending_admissions = << >> /\ terminal_ready = << >>
      /\ sweep = << >> /\ run_pc = "outside" /\ observer_enabled = Streaming
  BY DEF Init, SchedulerInit
<1>2. /\ Fresh("Unsubmitted").stage = "Unsubmitted" /\ ~Fresh("Unsubmitted").release_sent
  BY DEF Fresh
<1>3. CoherentInv BY <1>1, <1>2 DEF CoherentInv, Coherent
<1>4. LiveInv /\ PendingInv /\ SweepInv
  BY <1>1, <1>2, ToSetEmpty DEF LiveInv, Ongoing, PendingInv, Unsent, SweepInv
<1>5. MarkersInv BY <1>1, ToSetEmpty DEF MarkersInv, MarkersExact
<1>6. ExitInv BY <1>1 DEF ExitInv
<1> QED BY <1>3, <1>4, <1>5, <1>6 DEF LifeInv

(* and after every step.                                                   *)
LEMMA LifeNext ==
  ASSUME TypeInv, LifeInv, [Next]_vars
  PROVE  LifeInv' /\ Monotone
<1>1. CASE SchedulerThread BY <1>1, LifeStep DEF SchedulerThread
<1>2. CASE UNCHANGED schedulerVars
  BY <1>2, LifeKept DEF schedulerVars, lifecycleVars
<1> QED BY <1>1, <1>2 DEF Next, EnvironmentThread, Terminated, vars

(* The lists of the scheduler agree with the states of its requests.       *)
THEOREM LifeInvariance == Spec => []LifeInv
<1>1. Init => LifeInv BY InitLife
<1>2. TypeInv /\ LifeInv /\ [Next]_vars => LifeInv' BY LifeNext
<1> QED BY <1>1, <1>2, TypesInvariance, PTL DEF Spec

(* retire_terminal_requests: the markers are exact at every moment, also   *)
(* when the observer fails in the middle of the pass and the drain it      *)
(* begins marks further requests.                                          *)
THEOREM MarkersAreExact == Spec => []MarkersExact
<1>1. LifeInv => MarkersExact BY DEF LifeInv, MarkersInv
<1> QED BY <1>1, LifeInvariance, PTL

(* The scheduler's handlers never take a request back, whatever arrives in *)
(* whatever order: a late completion or admission result of a request that *)
(* a drain ended changes nothing.                                          *)
THEOREM LifecycleIsMonotone == Spec => LifecycleMonotone
<1>1. TypeInv /\ LifeInv /\ [Next]_vars
        => [\A r \in Requests : NeverBack(request[r], request'[r])]_request
  BY LifeNext DEF Monotone
<1> QED BY <1>1, TypesInvariance, LifeInvariance, PTL DEF Spec, LifecycleMonotone
-----------------------------------------------------------------------------
(* What a step of the scheduler does to who has which request.             *)
Stays(old, new) ==
  /\ new.admission = old.admission /\ new.release_sent = old.release_sent
  /\ new.start_recorded = old.start_recorded
  /\ Ongoing(new) <=> Ongoing(old)

pathVars == <<admissions, releases, admission_results, release_acks>>

(* No request changes hands, starts or ends.                               *)
Quiet ==
  /\ \A r \in Requests : Stays(request[r], request'[r])
  /\ UNCHANGED <<active, queued, pathVars>>

Drains ==
  /\ \E error \in Errors, ready \in Seq(Requests) : EnterDraining(error, ready)
  /\ UNCHANGED <<active, pathVars>>

(* Only the request r is touched.                                          *)
Touches(r) == \A x \in Requests : x # r => request'[x] = request[x]

(* The steps that change who has which request.                            *)
LEMMA SchedulerMoves ==
  ASSUME TypeInv, LifeInv, SchedulerNext
  PROVE  \/ Quiet \/ Drains
         \/ \E r \in Requests : Submit(r)
         \/ FlushAdmission \/ TakeAdmissionResult \/ TakeReleaseAck
         \/ TryRelease \/ PublishPlan
<1>0. /\ request \in [Requests -> RequestStates] /\ terminal_ready \in Seq(Requests)
      /\ "EnvironmentStopped" \in Errors /\ "ProtocolViolation" \in Errors
  BY DEF TypeInv, SchedulerTypes, Errors
<1>1. ASSUME UNCHANGED <<request, active, queued, pathVars>> PROVE Quiet
  BY <1>1 DEF Quiet, Stays
<1>2. CASE TakeOutput
  <2> DEFINE r == Head(outputs)
             q == request[r]
             new == [q EXCEPT !.pieces = q.pieces + 1]
  <2>1. r \in Requests
    BY <1>2, HeadTailProperties DEF TakeOutput, TypeInv, ChannelTypes
  <2>2. q \in RequestStates BY <1>0, <2>1
  <2>3. Stays(q, new)
    BY <2>2, SMT DEF RequestStates, Stays, Ongoing
  <2>4. request' = [request EXCEPT ![r] = new] \/ request' = request
    BY <1>2 DEF TakeOutput
  <2> HIDE DEF new
  <2>5. \A x \in Requests : Stays(request[x], request'[x])
    BY <1>0, <2>1, <2>3, <2>4 DEF Stays
  <2> QED BY <1>2, <2>5 DEF TakeOutput, Quiet, pathVars
<1>3. CASE TakeCompletion
  <2> DEFINE c == Head(completions)
             r == c.id
             q == request[r]
             new == Folded(q, c)
  <2>1. c \in Completions
    BY <1>3, HeadTailProperties DEF TakeCompletion, TypeInv, ChannelTypes
  <2>2. r \in Requests BY <2>1 DEF Completions
  <2>3. q \in RequestStates /\ Coherent(q) BY <1>0, <2>2 DEF LifeInv, CoherentInv
  <2>4. CASE Known(r) /\ q.stage # "Terminal" /\ q.admission = "EnvironmentOwned"
    <3>1. request' = [request EXCEPT ![r] = new] BY <1>3, <2>4 DEF TakeCompletion
    <3>2. /\ new.admission = q.admission /\ Same(q, new)
          /\ new.stage \in {"Prefill", "Decode", "PendingRelease"} \/ new.stage = q.stage
      BY <2>1, <2>3, FoldedFields
    <3> HIDE DEF new
    <3>3. Ongoing(q) BY <2>2, <2>4 DEF Known, LifeInv, LiveInv, Ongoing
    <3>4. Stays(q, new) BY <3>2, <3>3 DEF Same, Stays, Ongoing
    <3> HIDE DEF q, r
    <3>5. \A x \in Requests : Stays(request[x], request'[x])
      BY <1>0, <2>2, <3>1, <3>4 DEF q, Stays
    <3> QED BY <1>3, <3>5 DEF TakeCompletion, Quiet, pathVars
  <2>5. CASE ~(Known(r) /\ q.stage # "Terminal" /\ q.admission = "EnvironmentOwned")
    BY <1>1, <1>3, <2>5 DEF TakeCompletion, pathVars
  <2> QED BY <2>4, <2>5
<1>4. CASE BeginIteration
  <2>1. CASE scheduler_stop
    BY <1>0, <1>4, <2>1 DEF BeginIteration, Drains, handoffVars, pathVars
  <2>2. CASE ~scheduler_stop
    BY <1>1, <1>4, <2>2 DEF BeginIteration, handoffVars, pathVars
  <2> QED BY <2>1, <2>2
<1>5. CASE TakeFatal
  <2>1. Head(fatals) \in Errors
    BY <1>5, HeadTailProperties DEF TakeFatal, TypeInv, ChannelTypes
  <2> QED BY <1>0, <1>5, <2>1 DEF TakeFatal, Drains, pathVars
<1>6. CASE ObserverFails
  <2>1. Tail(terminal_ready) \in Seq(Requests)
    BY <1>0, <1>6, HeadTailProperties DEF ObserverFails
  <2> QED BY <1>0, <1>6, <2>1 DEF ObserverFails, Drains, handoffVars, pathVars
<1>7. CASE RejectPlan \/ NoWork \/ BuildThrows
  BY <1>0, <1>7 DEF RejectPlan, NoWork, BuildThrows, Drains, handoffVars, pathVars
<1>8. CASE \/ RequestStop \/ StopEnvironment \/ FlushDone \/ SnapshotEpoch \/ DrainDone
           \/ ReleasesDone \/ RetireTerminal \/ ObserveBatch \/ FinishRun
           \/ KeepRunning \/ WaitForRelease
  BY <1>1, <1>8 DEF RequestStop, StopEnvironment, FlushDone, SnapshotEpoch, DrainDone,
     ReleasesDone, RetireTerminal, ObserveBatch, FinishRun, KeepRunning, WaitForRelease,
     lifecycleVars, handoffVars, pathVars
<1> QED
  BY <1>2, <1>3, <1>4, <1>5, <1>6, <1>7, <1>8 DEF SchedulerNext, SchedulerStep

(* A drain ends the requests the environment was never sent, and nothing   *)
(* else changes hands.                                                     *)
LEMMA DrainsMove ==
  ASSUME TypeInv, LifeInv, NEW error \in Errors, NEW ready, EnterDraining(error, ready)
  PROVE  LET ended == ToSet(UnsentLive)
         IN  /\ \A r \in Requests :
                  /\ request'[r].admission = request[r].admission
                  /\ request'[r].release_sent = request[r].release_sent
                  /\ request'[r].start_recorded = request[r].start_recorded
                  /\ Ongoing(request'[r]) <=>
                       Ongoing(request[r]) /\ (draining \/ r \notin ended)
             /\ \A r \in ended : /\ r \in Requests /\ Ongoing(request[r])
                                 /\ request[r].stage = "PendingAdmission"
                                 /\ request[r].admission = "NotSent"
             /\ queued' = IF draining THEN queued ELSE queued - Len(UnsentLive)
             /\ UnsentLive \in Seq(Requests) /\ IsInjective(UnsentLive)
<1> DEFINE unsent == {r \in Requests : /\ request[r].admission = "NotSent"
                                      /\ request[r].stage # "Terminal"}
<1>1. request \in [Requests -> RequestStates] /\ live \in Seq(Requests)
  BY DEF TypeInv, SchedulerTypes
<1>2. /\ UnsentLive \in Seq(Requests) /\ ToSet(UnsentLive) = ToSet(live) \cap unsent
      /\ IsInjective(UnsentLive)
  BY <1>1, FilterProperties DEF UnsentLive, LifeInv, LiveInv
<1>3. \A r \in Requests : /\ request[r] \in RequestStates /\ Coherent(request[r])
                          /\ request[r].stage \in Stages /\ request[r].admission \in Ownerships
  BY <1>1 DEF LifeInv, CoherentInv, RequestStates
<1>4. \A r \in ToSet(UnsentLive) : /\ r \in Requests /\ Ongoing(request[r])
                                   /\ request[r].stage = "PendingAdmission"
                                   /\ request[r].admission = "NotSent"
  BY <1>2, <1>3 DEF LifeInv, LiveInv, Coherent, Ongoing, Stages
<1>5. CASE draining
  <2>1. request' = request /\ queued' = queued BY <1>5 DEF EnterDraining
  <2> QED BY <1>2, <1>4, <1>5, <2>1
<1>6. CASE ~draining
  <2>1. /\ request' = [r \in Requests |-> IF Known(r) THEN Drained(request[r], error)
                                           ELSE request[r]]
        /\ queued' = queued - Len(UnsentLive)
    BY <1>6 DEF EnterDraining
  <2>2. ASSUME NEW r \in Requests
        PROVE  /\ request'[r].admission = request[r].admission
               /\ request'[r].release_sent = request[r].release_sent
               /\ request'[r].start_recorded = request[r].start_recorded
               /\ Ongoing(request'[r]) <=> Ongoing(request[r]) /\ r \notin ToSet(UnsentLive)
    <3> DEFINE q == request[r]
               new == request'[r]
    <3>1. CASE ~Known(r)
      <4>1. new = q BY <2>1, <3>1
      <4>2. r \notin ToSet(UnsentLive) BY <1>2, <3>1 DEF Known
      <4> QED BY <4>1, <4>2
    <3>2. CASE Known(r)
      <4>1. new = Drained(q, error) BY <2>1, <3>2
      <4>2. r \in ToSet(UnsentLive) <=> q.admission = "NotSent" /\ q.stage # "Terminal"
        BY <1>2, <3>2 DEF Known
      <4>3. q.stage # "Unsubmitted" BY <3>2 DEF Known, LifeInv, LiveInv
      <4>4. /\ Same(q, new)
            /\ q.stage = "Terminal" => new = q
            /\ q.stage # "Terminal" =>
                 /\ q.admission = "NotSent" =>
                      new.stage = "Terminal" /\ new.admission = "NotSent"
                 /\ q.admission = "InFlight" =>
                      new.stage = q.stage /\ new.admission = "InFlight"
                 /\ q.admission = "EnvironmentOwned" =>
                      new.stage = "PendingRelease" /\ new.admission = "EnvironmentOwned"
        BY <1>3, <4>1, DrainedFields
      <4>5. q.admission \in Ownerships BY <1>3
      <4> HIDE DEF q, new
      <4>6. /\ new.admission = q.admission /\ new.release_sent = q.release_sent
            /\ new.start_recorded = q.start_recorded
            /\ Ongoing(new) <=> Ongoing(q) /\ r \notin ToSet(UnsentLive)
        BY <4>2, <4>3, <4>4, <4>5 DEF Same, Ongoing, Ownerships
      <4> QED BY <4>6 DEF q, new
    <3> QED BY <3>1, <3>2
  <2> QED BY <1>2, <1>4, <1>6, <2>1, <2>2
<1> QED BY <1>5, <1>6

(* A submission: its request was not known before.                         *)
LEMMA SubmitMoves ==
  ASSUME TypeInv, LifeInv, NEW r \in Requests, Submit(r)
  PROVE  /\ Touches(r) /\ ~Ongoing(request[r]) /\ request[r].stage = "Unsubmitted"
         /\ request[r].admission = "NotSent"
         /\ ~request[r].release_sent
         /\ Ongoing(request'[r]) /\ request'[r].admission = "NotSent"
         /\ ~request'[r].release_sent /\ ~request'[r].start_recorded
         /\ queued' = queued + 1 /\ UNCHANGED <<active, pathVars>>
<1>1. request \in [Requests -> RequestStates] BY DEF TypeInv, SchedulerTypes
<1>2. /\ request[r].stage = "Unsubmitted"
      /\ request' = [request EXCEPT ![r] = Fresh("PendingAdmission")]
      /\ queued' = queued + 1 /\ UNCHANGED <<active, pathVars>>
  BY DEF Submit, handoffVars, pathVars
<1>3. request[r] = Fresh("Unsubmitted") BY <1>2 DEF LifeInv, CoherentInv, Coherent
<1>4. Fresh("Unsubmitted").admission = "NotSent" /\ ~Fresh("Unsubmitted").release_sent
  BY DEF Fresh
<1>5. /\ Fresh("PendingAdmission").stage = "PendingAdmission"
      /\ Fresh("PendingAdmission").admission = "NotSent"
      /\ ~Fresh("PendingAdmission").release_sent
      /\ ~Fresh("PendingAdmission").start_recorded
  BY DEF Fresh
<1>6. request'[r] = Fresh("PendingAdmission") BY <1>1, <1>2
<1> QED BY <1>1, <1>2, <1>3, <1>4, <1>5, <1>6 DEF Touches, Ongoing

(* An admission that is sent passes to the environment.                    *)
LEMMA FlushMoves ==
  ASSUME TypeInv, LifeInv, FlushAdmission
  PROVE  LET r == Head(pending_admissions)
         IN  /\ r \in Requests /\ Touches(r)
             /\ request[r].stage = "PendingAdmission" /\ request[r].admission = "NotSent"
             /\ request'[r].admission = "InFlight"
             /\ request'[r].stage = request[r].stage
             /\ request'[r].release_sent = request[r].release_sent
             /\ request'[r].start_recorded = request[r].start_recorded
             /\ admissions' = Append(admissions, r)
             /\ UNCHANGED <<active, queued, releases, admission_results, release_acks>>
<1> DEFINE r == Head(pending_admissions)
           q == request[r]
           new == [q EXCEPT !.admission = "InFlight"]
<1>1. request \in [Requests -> RequestStates] /\ pending_admissions \in Seq(Requests)
  BY DEF TypeInv, SchedulerTypes
<1>2. r \in ToSet(pending_admissions) /\ r \in Requests
  BY <1>1, TakeHead, HeadTailProperties DEF FlushAdmission, LifeInv, PendingInv
<1>3. q.stage = "PendingAdmission" /\ q.admission = "NotSent" /\ q \in RequestStates
  BY <1>1, <1>2 DEF LifeInv, PendingInv, Unsent
<1>4. /\ new.stage = q.stage /\ new.admission = "InFlight"
      /\ new.release_sent = q.release_sent /\ new.start_recorded = q.start_recorded
  BY <1>3, SMT DEF RequestStates
<1>5. /\ request' = [request EXCEPT ![r] = new] /\ admissions' = Append(admissions, r)
      /\ UNCHANGED <<active, queued, releases, admission_results, release_acks>>
  BY DEF FlushAdmission
<1> HIDE DEF new
<1>6. request'[r] = new /\ Touches(r) BY <1>1, <1>2, <1>5 DEF Touches
<1> QED BY <1>2, <1>3, <1>4, <1>5, <1>6

(* A request to which the environment's answer is awaited.                 *)
LEMMA AwaitingState ==
  ASSUME TypeInv, LifeInv, NEW r \in Requests, Awaiting(r)
  PROVE  /\ request[r].stage = "PendingAdmission" /\ request[r].admission = "InFlight"
         /\ ~request[r].release_sent /\ ~request[r].start_recorded
         /\ request[r].prefill_position = 0 /\ request[r].decoded_count = 0
         /\ Ongoing(request[r])
<1> DEFINE q == request[r]
<1>1. q \in RequestStates /\ q.stage \in Stages
  BY DEF TypeInv, SchedulerTypes, RequestStates
<1>2. /\ Coherent(q) /\ q.stage # "Terminal" /\ q.stage # "Unsubmitted"
      /\ q.admission = "InFlight"
  BY DEF Awaiting, Known, LifeInv, LiveInv, CoherentInv
<1> HIDE DEF q
<1>3. q.stage = "PendingAdmission" BY <1>1, <1>2 DEF Coherent, Stages
<1> QED BY <1>2, <1>3 DEF Coherent, Ongoing, q

(* An answer ends its request or hands it over.                            *)
LEMMA ResultMoves ==
  ASSUME TypeInv, LifeInv, TakeAdmissionResult
  PROVE  LET answer == Head(admission_results)
             r == answer.id
         IN  /\ answer \in Results /\ r \in Requests /\ Touches(r)
             /\ admission_results' = Tail(admission_results)
             /\ UNCHANGED <<admissions, releases, release_acks>>
             /\ ~Awaiting(r) => UNCHANGED <<request, active, queued>>
             /\ Awaiting(r) /\ answer.error # "None" =>
                  /\ request'[r].stage = "Terminal" /\ request'[r].admission = "NotSent"
                  /\ ~request'[r].release_sent
                  /\ request'[r].terminal_error =
                       FirstError(request[r].terminal_error, answer.error)
                  /\ request'[r].pieces = request[r].pieces
                  /\ SameProgress(request[r], request'[r])
                  /\ queued' = queued - 1 /\ UNCHANGED active
             /\ Awaiting(r) /\ answer.error = "None" =>
                  /\ request'[r].stage \in {"Prefill", "PendingRelease"}
                  /\ request'[r].admission = "EnvironmentOwned"
                  /\ ~request'[r].release_sent /\ ~request'[r].start_recorded
                  /\ request'[r].prompt_length = answer.prompt_tokens
                  /\ request'[r].prefill_position = answer.cached_prefix_tokens
                  /\ request'[r].decoded_count = 0
                  /\ request'[r].pieces = request[r].pieces
                  /\ request'[r].stage = "PendingRelease" <=> draining \/ MaxOutput[r] = 0
                  /\ request'[r].stage = "Prefill" =>
                       request'[r].terminal_error = request[r].terminal_error
                  /\ request'[r].stage = "PendingRelease" =>
                       request'[r].terminal_error =
                         FirstError(request[r].terminal_error, drain_error)
                  /\ active' = active + 1 /\ UNCHANGED queued
<1> DEFINE answer == Head(admission_results)
           r == answer.id
           q == request[r]
<1>1. request \in [Requests -> RequestStates] /\ drain_error \in Errors
  BY DEF TypeInv, SchedulerTypes
<1>2. answer \in Results
  BY HeadTailProperties DEF TakeAdmissionResult, TypeInv, ChannelTypes
<1>3. r \in Requests /\ answer.error \in Errors BY <1>2 DEF Results
<1>4. q \in RequestStates /\ q.terminal_error \in Errors BY <1>1, <1>3 DEF RequestStates
<1>5. /\ admission_results' = Tail(admission_results)
      /\ UNCHANGED <<admissions, releases, release_acks>>
  BY DEF TakeAdmissionResult
<1>6. CASE ~Awaiting(r)
  <2>1. UNCHANGED <<request, active, queued>> BY <1>6 DEF TakeAdmissionResult
  <2>2. Touches(r) BY <2>1 DEF Touches
  <2> QED BY <1>2, <1>3, <1>5, <1>6, <2>1, <2>2
<1>7. CASE Awaiting(r) /\ answer.error # "None"
  <2> DEFINE cause == FirstError(q.terminal_error, answer.error)
             new == ToTerminal(q, cause)
  <2>1. /\ request' = [request EXCEPT ![r] = new]
        /\ queued' = queued - 1 /\ UNCHANGED active
    BY <1>7 DEF TakeAdmissionResult
  <2>2. cause \in Errors BY <1>3, <1>4, ErrorFields
  <2> HIDE DEF cause
  <2>3. /\ new.stage = "Terminal" /\ new.admission = "NotSent"
        /\ new.release_sent = q.release_sent /\ new.terminal_error = cause
        /\ new.pieces = q.pieces /\ SameProgress(q, new)
    BY <1>4, <2>2, TerminalFields DEF Same
  <2> HIDE DEF new
  <2>4. ~q.release_sent BY <1>3, <1>7, AwaitingState
  <2>5. request'[r] = new /\ Touches(r) BY <1>1, <1>3, <2>1 DEF Touches
  <2> QED BY <1>2, <1>3, <1>5, <1>7, <2>1, <2>3, <2>4, <2>5 DEF cause
<1>8. CASE Awaiting(r) /\ answer.error = "None"
  <2> DEFINE new == Admitted(q, answer)
  <2>1. /\ request' = [request EXCEPT ![r] = new]
        /\ active' = active + 1 /\ UNCHANGED queued
    BY <1>8 DEF TakeAdmissionResult
  <2>2. /\ new.admission = "EnvironmentOwned" /\ new.stage \in {"Prefill", "PendingRelease"}
        /\ new.prompt_length = answer.prompt_tokens
        /\ new.prefill_position = answer.cached_prefix_tokens
        /\ new.decoded_count = q.decoded_count
        /\ new.release_sent = q.release_sent /\ new.start_recorded = q.start_recorded
        /\ new.pieces = q.pieces
        /\ new.stage = "PendingRelease" <=> draining \/ MaxOutput[r] = 0
        /\ new.stage = "Prefill" => new.terminal_error = q.terminal_error
        /\ new.stage = "PendingRelease" =>
             new.terminal_error = FirstError(q.terminal_error, drain_error)
    BY <1>1, <1>2, <1>4, AdmittedFields
  <2> HIDE DEF new
  <2>3. ~q.release_sent /\ ~q.start_recorded /\ q.decoded_count = 0
    BY <1>3, <1>8, AwaitingState
  <2>4. request'[r] = new /\ Touches(r) BY <1>1, <1>3, <2>1 DEF Touches
  <2> QED BY <1>2, <1>3, <1>5, <1>8, <2>1, <2>2, <2>3, <2>4
<1> QED BY <1>6, <1>7, <1>8

(* An acknowledged release ends its request.                               *)
LEMMA AckMoves ==
  ASSUME TypeInv, LifeInv, TakeReleaseAck
  PROVE  LET r == Head(release_acks)
             waits == Known(r) /\ request[r].stage = "PendingRelease" /\ request[r].release_sent
         IN  /\ r \in Requests /\ Touches(r)
             /\ release_acks' = Tail(release_acks)
             /\ UNCHANGED <<admissions, releases, admission_results>>
             /\ ~waits => UNCHANGED <<request, active, queued>>
             /\ waits =>
                  /\ request[r].admission = "EnvironmentOwned"
                  /\ request'[r].stage = "Terminal" /\ request'[r].admission = "NotSent"
                  /\ request'[r].start_recorded = request[r].start_recorded
                  /\ request'[r].terminal_error = request[r].terminal_error
                  /\ active' = active - 1
                  /\ queued' = IF request[r].start_recorded THEN queued ELSE queued - 1
<1> DEFINE r == Head(release_acks)
           q == request[r]
           waits == Known(r) /\ q.stage = "PendingRelease" /\ q.release_sent
           new == ToTerminal(q, q.terminal_error)
<1>1. request \in [Requests -> RequestStates] BY DEF TypeInv, SchedulerTypes
<1>2. r \in Requests
  BY HeadTailProperties DEF TakeReleaseAck, TypeInv, ChannelTypes
<1>3. q \in RequestStates /\ q.terminal_error \in Errors /\ Coherent(q)
  BY <1>1, <1>2 DEF RequestStates, LifeInv, CoherentInv
<1>4. /\ release_acks' = Tail(release_acks)
      /\ UNCHANGED <<admissions, releases, admission_results>>
  BY DEF TakeReleaseAck
<1>5. CASE ~waits
  <2>1. UNCHANGED <<request, active, queued>> BY <1>5 DEF TakeReleaseAck
  <2>2. Touches(r) BY <2>1 DEF Touches
  <2> QED BY <1>2, <1>4, <1>5, <2>1, <2>2
<1>6. CASE waits
  <2>1. /\ request' = [request EXCEPT ![r] = new] /\ active' = active - 1
        /\ queued' = IF q.start_recorded THEN queued ELSE queued - 1
    BY <1>6 DEF TakeReleaseAck
  <2>2. /\ new.stage = "Terminal" /\ new.admission = "NotSent"
        /\ new.start_recorded = q.start_recorded /\ new.terminal_error = q.terminal_error
    BY <1>3, TerminalFields DEF Same
  <2> HIDE DEF new
  <2>3. q.admission = "EnvironmentOwned" BY <1>3, <1>6 DEF Coherent
  <2>4. request'[r] = new /\ Touches(r) BY <1>1, <1>2, <2>1 DEF Touches
  <2> QED BY <1>2, <1>4, <1>6, <2>1, <2>2, <2>3, <2>4
<1> QED BY <1>5, <1>6

(* A release is sent for a request that waits for it.                      *)
LEMMA ReleaseMoves ==
  ASSUME TypeInv, LifeInv, TryRelease
  PROVE  LET r == Head(sweep)
         IN  /\ r \in Requests /\ Touches(r)
             /\ request[r].stage = "PendingRelease" /\ ~request[r].release_sent
             /\ request[r].admission = "EnvironmentOwned"
             /\ UNCHANGED <<active, queued, admissions, admission_results, release_acks>>
             /\ ~HasRoom(releases) => UNCHANGED <<request, releases>>
             /\ HasRoom(releases) =>
                  /\ request'[r].stage = "PendingRelease" /\ request'[r].release_sent
                  /\ request'[r].admission = "EnvironmentOwned"
                  /\ request'[r].start_recorded = request[r].start_recorded
                  /\ releases' = Append(releases, r)
<1> DEFINE r == Head(sweep)
           q == request[r]
           new == [q EXCEPT !.release_sent = TRUE]
<1>1. request \in [Requests -> RequestStates] /\ sweep \in Seq(Requests)
  BY DEF TypeInv, SchedulerTypes
<1>2. r \in ToSet(sweep) /\ r \in Requests
  BY <1>1, TakeHead, HeadTailProperties DEF TryRelease, LifeInv, SweepInv
<1>3. /\ q \in RequestStates /\ q.stage = "PendingRelease" /\ ~q.release_sent
      /\ q.admission = "EnvironmentOwned"
  BY <1>1, <1>2 DEF LifeInv, SweepInv, CoherentInv, Coherent
<1>4. UNCHANGED <<active, queued, admissions, admission_results, release_acks>>
  BY DEF TryRelease
<1>5. CASE ~HasRoom(releases)
  <2>1. UNCHANGED <<request, releases>> BY <1>5 DEF TryRelease
  <2> QED BY <1>2, <1>3, <1>4, <1>5, <2>1 DEF Touches
<1>6. CASE HasRoom(releases)
  <2>1. request' = [request EXCEPT ![r] = new] /\ releases' = Append(releases, r)
    BY <1>6 DEF TryRelease
  <2>2. /\ new.stage = q.stage /\ new.admission = q.admission /\ new.release_sent
        /\ new.start_recorded = q.start_recorded
    BY <1>3, SMT DEF RequestStates
  <2> HIDE DEF new
  <2>3. request'[r] = new /\ Touches(r) BY <1>1, <1>2, <2>1 DEF Touches
  <2> QED BY <1>2, <1>3, <1>4, <1>6, <2>1, <2>2, <2>3
<1> QED BY <1>5, <1>6

(* A plan that is published starts its requests, and does no more.         *)
LEMMA PublishMoves ==
  ASSUME TypeInv, LifeInv, PublishPlan
  PROVE  \E work \in Seq(WorkItems) :
           LET first == {work[i].id : i \in DOMAIN work} \cap
                        {r \in Requests : ~request[r].start_recorded}
           IN  /\ work # << >> /\ ValidPlan(work)
               /\ published' = [epoch |-> published_epoch + 1, work |-> work]
               /\ published_work' = work
               /\ \A r \in Requests :
                    /\ request'[r].stage = request[r].stage
                    /\ request'[r].admission = request[r].admission
                    /\ request'[r].release_sent = request[r].release_sent
                    /\ SameProgress(request[r], request'[r])
                    /\ request'[r].terminal_error = request[r].terminal_error
                    /\ request'[r].prompt_length = request[r].prompt_length
                    /\ request'[r].pieces = request[r].pieces
                    /\ request'[r].start_recorded <=> request[r].start_recorded \/ r \in first
               /\ \A r \in first : Ongoing(request[r]) /\ ~request[r].start_recorded
               /\ queued' = queued - Cardinality(first)
               /\ UNCHANGED <<active, pathVars>>
<1>0. request \in [Requests -> RequestStates] BY DEF TypeInv, SchedulerTypes
<1>1. PICK work \in PolicyPlans :
        LET first == {work[i].id : i \in DOMAIN work} \cap
                     {r \in Requests : ~request[r].start_recorded}
        IN  /\ work # << >> /\ ValidPlan(work)
            /\ published' = [epoch |-> published_epoch + 1, work |-> work]
            /\ published_work' = work
            /\ request' = [r \in Requests |->
                 IF r \in first THEN [request[r] EXCEPT !.start_recorded = TRUE]
                 ELSE request[r]]
            /\ queued' = queued - Cardinality(first)
  BY DEF PublishPlan
<1> DEFINE first == {work[i].id : i \in DOMAIN work} \cap
                    {r \in Requests : ~request[r].start_recorded}
<1>2. work \in Seq(WorkItems) BY <1>1, PolicyPlansType DEF TypeInv
<1>3. \A r \in first : Ongoing(request[r]) /\ ~request[r].start_recorded
  BY <1>1 DEF ValidPlan, ValidWork, Ongoing
<1>4. request' = [r \in Requests |->
                   IF r \in first THEN [request[r] EXCEPT !.start_recorded = TRUE]
                   ELSE request[r]]
  BY <1>1
<1> HIDE DEF first
<1>5. ASSUME NEW r \in Requests
      PROVE  /\ request'[r].stage = request[r].stage
             /\ request'[r].admission = request[r].admission
             /\ request'[r].release_sent = request[r].release_sent
             /\ SameProgress(request[r], request'[r])
             /\ request'[r].terminal_error = request[r].terminal_error
             /\ request'[r].prompt_length = request[r].prompt_length
             /\ request'[r].pieces = request[r].pieces
             /\ request'[r].start_recorded <=> request[r].start_recorded \/ r \in first
  <2> DEFINE q == request[r]
             new == [q EXCEPT !.start_recorded = TRUE]
  <2>1. q \in RequestStates BY <1>0
  <2>2. /\ new.stage = q.stage /\ new.admission = q.admission
        /\ new.release_sent = q.release_sent /\ SameProgress(q, new)
        /\ new.terminal_error = q.terminal_error
        /\ new.prompt_length = q.prompt_length /\ new.pieces = q.pieces
        /\ new.start_recorded
    BY <2>1, SMT DEF RequestStates, SameProgress
  <2>3. request'[r] = IF r \in first THEN new ELSE q BY <1>4
  <2> HIDE DEF new
  <2> QED BY <2>2, <2>3 DEF SameProgress
<1>6. UNCHANGED <<active, pathVars>> BY DEF PublishPlan, pathVars
<1> QED BY <1>1, <1>2, <1>3, <1>5, <1>6 DEF first
-----------------------------------------------------------------------------
(* The counts that are published: scheduler.cpp updates them one by one,   *)
(* at every change of a request.                                           *)
Waiting(states) ==
  {r \in Requests : /\ states[r].stage \notin {"Unsubmitted", "Terminal"}
                    /\ ~states[r].start_recorded}

Occupying(states) == {r \in Requests : states[r].admission = "EnvironmentOwned"}

(* What the two counts count is finite.                                    *)
LEMMA CountedAreLive ==
  ASSUME TypeInv, LifeInv
  PROVE  /\ IsFiniteSet(Waiting(request)) /\ IsFiniteSet(Occupying(request))
         /\ Cardinality(Waiting(request)) \in Nat
         /\ Cardinality(Occupying(request)) \in Nat
<1>1. live \in Seq(Requests) /\ request \in [Requests -> RequestStates]
  BY DEF TypeInv, SchedulerTypes
<1>2. \A r \in Requests : Coherent(request[r]) /\ request[r].stage \in Stages
  BY <1>1 DEF LifeInv, CoherentInv, RequestStates
<1>3. Fresh("Unsubmitted").admission = "NotSent" BY DEF Fresh
<1>4. Waiting(request) \subseteq ToSet(live) BY DEF Waiting, LifeInv, LiveInv, Ongoing
<1>5. Occupying(request) \subseteq ToSet(live)
  BY <1>2, <1>3 DEF Occupying, LifeInv, LiveInv, Ongoing, Coherent
<1>6. IsFiniteSet(ToSet(live)) BY <1>1, ToSetFinite
<1> QED BY <1>4, <1>5, <1>6, FS_Subset, FS_CardinalityType

(* The number of elements that are left.                                   *)
LEMMA FewerElements ==
  ASSUME NEW S, IsFiniteSet(S), NEW D, D \subseteq S
  PROVE  /\ Cardinality(S \ D) = Cardinality(S) - Cardinality(D)
         /\ Cardinality(S) \in Nat /\ Cardinality(D) \in Nat
<1>1. S \cap D = D OBVIOUS
<1>2. IsFiniteSet(D) BY FS_Subset
<1> QED BY <1>1, <1>2, FS_Difference, FS_CardinalityType

(* The counts are exact at the start,                                      *)
LEMMA InitCounts == Init => CountsExact
<1> SUFFICES ASSUME Init PROVE CountsExact
  OBVIOUS
<1>1. /\ request = [r \in Requests |-> Fresh("Unsubmitted")] /\ active = 0 /\ queued = 0
  BY DEF Init, SchedulerInit
<1>2. Fresh("Unsubmitted").stage = "Unsubmitted" /\ Fresh("Unsubmitted").admission = "NotSent"
  BY DEF Fresh
<1>3. Waiting(request) = {} /\ Occupying(request) = {}
  BY <1>1, <1>2 DEF Waiting, Occupying
<1> QED BY <1>1, <1>3, FS_EmptySet DEF CountsExact, Waiting, Occupying

(* and after every step of the scheduler.                                  *)
LEMMA CountsStep ==
  ASSUME TypeInv, LifeInv, CountsExact, SchedulerNext
  PROVE  CountsExact'
<1> DEFINE W == Waiting(request)
           O == Occupying(request)
<1>1. /\ IsFiniteSet(W) /\ IsFiniteSet(O)
      /\ Cardinality(W) \in Nat /\ Cardinality(O) \in Nat
  BY CountedAreLive
<1>2. queued = Cardinality(W) /\ active = Cardinality(O)
  BY DEF CountsExact, Waiting, Occupying
<1>3. SUFFICES queued' = Cardinality(Waiting(request')) /\ active' = Cardinality(Occupying(request'))
  BY DEF CountsExact, Waiting, Occupying
<1>4. CASE Quiet
  <2>1. Waiting(request') = W /\ Occupying(request') = O
    BY <1>4 DEF Quiet, Stays, Waiting, Occupying, Ongoing
  <2> QED BY <1>2, <1>4, <2>1 DEF Quiet
<1>5. CASE Drains
  <2> DEFINE ended == ToSet(UnsentLive)
  <2>1. PICK error \in Errors, ready \in Seq(Requests) : EnterDraining(error, ready)
    BY <1>5 DEF Drains
  <2>2. /\ \A r \in Requests :
             /\ request'[r].admission = request[r].admission
             /\ request'[r].start_recorded = request[r].start_recorded
             /\ Ongoing(request'[r]) <=>
                  Ongoing(request[r]) /\ (draining \/ r \notin ended)
        /\ \A r \in ended : /\ r \in Requests /\ Ongoing(request[r])
                            /\ request[r].stage = "PendingAdmission"
        /\ queued' = IF draining THEN queued ELSE queued - Len(UnsentLive)
        /\ UnsentLive \in Seq(Requests) /\ IsInjective(UnsentLive)
    BY <2>1, DrainsMove
  <2>3. ended \subseteq W
    BY <2>2 DEF Waiting, Ongoing, LifeInv, CoherentInv, Coherent
  <2>4. Cardinality(ended) = Len(UnsentLive) BY <2>2, InjectiveLength
  <2>5. Occupying(request') = O BY <2>2 DEF Occupying
  <2>6. Waiting(request') = IF draining THEN W ELSE W \ ended
    BY <2>2 DEF Waiting, Ongoing
  <2> HIDE DEF ended, W, O
  <2>7. Cardinality(W \ ended) = Cardinality(W) - Cardinality(ended)
    BY <1>1, <2>3, FewerElements
  <2> QED BY <1>2, <1>5, <2>2, <2>4, <2>5, <2>6, <2>7 DEF Drains
<1>6. ASSUME NEW r \in Requests, Submit(r)
      PROVE  queued' = Cardinality(Waiting(request')) /\ active' = Cardinality(Occupying(request'))
  <2>1. Waiting(request') = W \cup {r} /\ r \notin W /\ Occupying(request') = O
    BY <1>6, SubmitMoves DEF Touches, Waiting, Occupying, Ongoing
  <2>2. queued' = queued + 1 /\ active' = active BY <1>6, SubmitMoves
  <2> HIDE DEF W, O
  <2> QED BY <1>1, <1>2, <2>1, <2>2, FS_AddElement
<1>7. CASE FlushAdmission
  <2>1. Waiting(request') = W /\ Occupying(request') = O
    BY <1>7, FlushMoves DEF Touches, Waiting, Occupying
  <2>2. queued' = queued /\ active' = active BY <1>7, FlushMoves
  <2> QED BY <1>2, <2>1, <2>2
<1>8. CASE TakeAdmissionResult
  <2> DEFINE answer == Head(admission_results)
             r == answer.id
  <2>1. /\ r \in Requests /\ Touches(r)
        /\ ~Awaiting(r) => UNCHANGED <<request, active, queued>>
        /\ Awaiting(r) /\ answer.error # "None" =>
             /\ request'[r].stage = "Terminal" /\ request'[r].admission = "NotSent"
             /\ queued' = queued - 1 /\ UNCHANGED active
        /\ Awaiting(r) /\ answer.error = "None" =>
             /\ request'[r].stage \in {"Prefill", "PendingRelease"}
             /\ request'[r].admission = "EnvironmentOwned"
             /\ ~request'[r].start_recorded
             /\ active' = active + 1 /\ UNCHANGED queued
    BY <1>8, ResultMoves
  <2> HIDE DEF answer, r
  <2>2. Awaiting(r) => r \in W /\ r \notin O
    BY <2>1, AwaitingState DEF Waiting, Occupying
  <2>3. CASE ~Awaiting(r) BY <1>2, <2>1, <2>3
  <2>4. CASE Awaiting(r) /\ answer.error # "None"
    <3>1. Waiting(request') = W \ {r} /\ Occupying(request') = O
      BY <2>1, <2>2, <2>4 DEF Touches, Waiting, Occupying
    <3>2. queued' = queued - 1 /\ active' = active BY <2>1, <2>4
    <3> HIDE DEF W, O
    <3> QED BY <1>1, <1>2, <2>2, <2>4, <3>1, <3>2, FS_RemoveElement
  <2>5. CASE Awaiting(r) /\ answer.error = "None"
    <3>1. Waiting(request') = W /\ Occupying(request') = O \cup {r}
      BY <2>1, <2>2, <2>5 DEF Touches, Waiting, Occupying
    <3>2. queued' = queued /\ active' = active + 1 BY <2>1, <2>5
    <3> HIDE DEF W, O
    <3> QED BY <1>1, <1>2, <2>2, <2>5, <3>1, <3>2, FS_AddElement
  <2> QED BY <2>3, <2>4, <2>5
<1>9. CASE TakeReleaseAck
  <2> DEFINE r == Head(release_acks)
             waits == Known(r) /\ request[r].stage = "PendingRelease" /\ request[r].release_sent
  <2>1. /\ r \in Requests /\ Touches(r)
        /\ ~waits => UNCHANGED <<request, active, queued>>
        /\ waits =>
             /\ request[r].admission = "EnvironmentOwned"
             /\ request'[r].stage = "Terminal" /\ request'[r].admission = "NotSent"
             /\ active' = active - 1
             /\ queued' = IF request[r].start_recorded THEN queued ELSE queued - 1
    BY <1>9, AckMoves
  <2> HIDE DEF r
  <2>2. CASE ~waits BY <1>2, <2>1, <2>2
  <2>3. CASE waits
    <3>1. Waiting(request') = W \ {r} /\ Occupying(request') = O \ {r} /\ r \in O
      BY <2>1, <2>3 DEF Touches, Waiting, Occupying
    <3>2. r \in W <=> ~request[r].start_recorded
      BY <2>1, <2>3 DEF Waiting
    <3>3. active' = active - 1 /\ queued' = IF request[r].start_recorded THEN queued ELSE queued - 1
      BY <2>1, <2>3
    <3> HIDE DEF W, O, waits
    <3>4. /\ Cardinality(W \ {r}) = IF r \in W THEN Cardinality(W) - 1 ELSE Cardinality(W)
          /\ Cardinality(O \ {r}) = Cardinality(O) - 1
      BY <1>1, <3>1, FS_RemoveElement
    <3> QED BY <1>2, <3>1, <3>2, <3>3, <3>4
  <2> QED BY <2>2, <2>3
<1>10. CASE TryRelease
  <2>1. Waiting(request') = W /\ Occupying(request') = O
    BY <1>10, ReleaseMoves DEF Touches, Waiting, Occupying
  <2>2. queued' = queued /\ active' = active BY <1>10, ReleaseMoves
  <2> QED BY <1>2, <2>1, <2>2
<1>11. CASE PublishPlan
  <2>1. PICK work \in Seq(WorkItems) :
          LET first == {work[i].id : i \in DOMAIN work} \cap
                       {r \in Requests : ~request[r].start_recorded}
          IN  /\ \A r \in Requests :
                   /\ request'[r].stage = request[r].stage
                   /\ request'[r].admission = request[r].admission
                   /\ request'[r].start_recorded <=> request[r].start_recorded \/ r \in first
              /\ \A r \in first : Ongoing(request[r]) /\ ~request[r].start_recorded
              /\ queued' = queued - Cardinality(first)
              /\ active' = active
    BY <1>11, PublishMoves
  <2> DEFINE first == {work[i].id : i \in DOMAIN work} \cap
                      {r \in Requests : ~request[r].start_recorded}
  <2>2. first \subseteq Requests OBVIOUS
  <2>3. /\ \A r \in Requests :
             /\ request'[r].stage = request[r].stage
             /\ request'[r].admission = request[r].admission
             /\ request'[r].start_recorded <=> request[r].start_recorded \/ r \in first
        /\ \A r \in first : Ongoing(request[r]) /\ ~request[r].start_recorded
        /\ queued' = queued - Cardinality(first) /\ active' = active
    BY <2>1
  <2> HIDE DEF first
  <2>4. first \subseteq W /\ Waiting(request') = W \ first /\ Occupying(request') = O
    BY <2>2, <2>3 DEF Waiting, Occupying, Ongoing
  <2> HIDE DEF W, O
  <2>5. Cardinality(W \ first) = Cardinality(W) - Cardinality(first)
    BY <1>1, <2>4, FewerElements
  <2> QED BY <1>2, <2>3, <2>4, <2>5
<1> QED
  BY <1>4, <1>5, <1>6, <1>7, <1>8, <1>9, <1>10, <1>11, SchedulerMoves

(* workload_counts_: the counters are exact, so neither underflows, in     *)
(* every order of ends, admissions, releases and drains.                   *)
THEOREM CountsAreExact == Spec => []CountsExact
<1>1. Init => CountsExact BY InitCounts
<1>2. TypeInv /\ LifeInv /\ CountsExact /\ [Next]_vars => CountsExact'
  <2> SUFFICES ASSUME TypeInv, LifeInv, CountsExact, [Next]_vars PROVE CountsExact'
    OBVIOUS
  <2>1. CASE SchedulerThread BY <2>1, CountsStep DEF SchedulerThread
  <2>2. CASE UNCHANGED schedulerVars
    BY <2>2 DEF schedulerVars, lifecycleVars, CountsExact
  <2> QED BY <2>1, <2>2 DEF Next, EnvironmentThread, Terminated, vars
<1> QED BY <1>1, <1>2, TypesInvariance, LifeInvariance, PTL DEF Spec
-----------------------------------------------------------------------------
(* The path of an admission, from the scheduler to the environment and     *)
(* back as its result, and that of a release and its acknowledgement.      *)
Ids(s) == [i \in DOMAIN s |-> s[i].id]

InHand ==
  IF result # Nothing THEN <<result.id>>
  ELSE IF pending_admission # Nothing THEN <<pending_admission.id>>
  ELSE << >>

AdmissionPath == Path(Ids(admission_results), InHand, admissions)

Acknowledging == IF env_pc = "ack" THEN <<ack>> ELSE << >>

ReleasePath == Path(release_acks, Acknowledging, releases)

(* The requests in flight are on the first path, each once; the result on  *)
(* its way says whether the environment holds the request.                 *)
AdmissionInv ==
  /\ IsInjective(AdmissionPath)
  /\ ToSet(AdmissionPath) = {r \in Requests : request[r].admission = "InFlight"}
  /\ \A a \in ToSet(admission_results) : a.error = "None" <=> Held(a.id)
  /\ result = Nothing \/ pending_admission = Nothing
  /\ result # Nothing => (result.error = "None" <=> Held(result.id))
  /\ pending_admission # Nothing => ~Held(pending_admission.id)
  /\ \A r \in ToSet(admissions) : ~Held(r)

(* The requests whose release was sent and is not acknowledged are on the  *)
(* second path, and held until the environment takes the release.          *)
ReleaseInv ==
  /\ IsInjective(ReleasePath)
  /\ ToSet(ReleasePath) = {r \in Requests : /\ request[r].admission = "EnvironmentOwned"
                                            /\ request[r].release_sent}
  /\ \A r \in ToSet(releases) : Held(r)
  /\ \A r \in ToSet(release_acks) \cup ToSet(Acknowledging) : ~Held(r)

HeldInv ==
  \A r \in Requests :
    /\ Held(r) => request[r].admission \in {"InFlight", "EnvironmentOwned"}
    /\ request[r].admission = "EnvironmentOwned" /\ ~request[r].release_sent => Held(r)

PathInv == AdmissionInv /\ ReleaseInv /\ HeldInv
-----------------------------------------------------------------------------
(* The requests a list of messages is about,                               *)
LEMMA IdsOfAny ==
  ASSUME NEW Messages, \A a \in Messages : a.id \in Requests, NEW s \in Seq(Messages)
  PROVE  /\ Ids(s) \in Seq(Requests)
         /\ ToSet(Ids(s)) = {a.id : a \in ToSet(s)}
         /\ \A a \in Messages : Ids(Append(s, a)) = Append(Ids(s), a.id)
         /\ s # << >> => /\ Ids(s) # << >> /\ Head(Ids(s)) = Head(s).id
                         /\ Ids(Tail(s)) = Tail(Ids(s))
<1>1. /\ Len(s) \in Nat /\ DOMAIN s = 1 .. Len(s)
      /\ \A i \in 1 .. Len(s) : s[i] \in Messages
  BY LenProperties
<1>2. \A a \in Messages : a.id \in Requests OBVIOUS
<1>3. Ids(s) = [i \in 1 .. Len(s) |-> s[i].id] BY <1>1 DEF Ids
<1>4. Ids(s) \in Seq(Requests) BY <1>1, <1>2, <1>3, IsASeq
<1>5. Len(Ids(s)) = Len(s) BY <1>1, <1>3, <1>4, LenProperties, SMT
<1>6. ToSet(Ids(s)) = {a.id : a \in ToSet(s)} BY <1>1, <1>3 DEF ToSet
<1>7. ASSUME NEW a \in Messages PROVE Ids(Append(s, a)) = Append(Ids(s), a.id)
  <2> DEFINE t == Append(s, a)
  <2>1. /\ t \in Seq(Messages) /\ Len(t) = Len(s) + 1 /\ t[Len(s) + 1] = a
        /\ \A i \in 1 .. Len(s) : t[i] = s[i]
    BY AppendProperties
  <2>2. DOMAIN t = 1 .. Len(s) + 1 BY <2>1, LenProperties
  <2>3. Ids(t) = [i \in 1 .. Len(s) + 1 |-> t[i].id] BY <2>2 DEF Ids
  <2>4. \A i \in 1 .. Len(s) + 1 : t[i].id \in Requests
    BY <1>2, <2>1, <2>2, LenProperties
  <2>5. Ids(t) \in Seq(Requests) /\ Len(Ids(t)) = Len(s) + 1
    <3>1. Len(s) + 1 \in Nat BY <1>1, SMT
    <3>2. Ids(t) \in Seq(Requests) BY <2>3, <2>4, <3>1, IsASeq
    <3> QED BY <2>3, <3>1, <3>2, LenProperties, SMT
  <2>6. a.id \in Requests BY <1>2
  <2>7. /\ Append(Ids(s), a.id) \in Seq(Requests)
        /\ Len(Append(Ids(s), a.id)) = Len(s) + 1
        /\ Append(Ids(s), a.id)[Len(s) + 1] = a.id
        /\ \A i \in 1 .. Len(s) : Append(Ids(s), a.id)[i] = Ids(s)[i]
    BY <1>4, <1>5, <2>6, AppendProperties
  <2>8. \A i \in 1 .. Len(s) : Ids(s)[i] = s[i].id /\ Ids(t)[i] = s[i].id
    BY <1>1, <1>3, <2>1, <2>3, SMT
  <2>9. Ids(t)[Len(s) + 1] = a.id BY <1>1, <2>1, <2>3, SMT
  <2> HIDE DEF t
  <2>10. \A i \in 1 .. Len(s) + 1 : Ids(t)[i] = Append(Ids(s), a.id)[i]
    BY <1>1, <2>7, <2>8, <2>9, SMT
  <2> QED BY <2>5, <2>7, <2>10, SeqEqual DEF t
<1>8. ASSUME s # << >>
      PROVE  /\ Ids(s) # << >> /\ Head(Ids(s)) = Head(s).id
             /\ Ids(Tail(s)) = Tail(Ids(s))
  <2> DEFINE t == Tail(s)
             n == Len(s) - 1
  <2>1. /\ Len(s) >= 1 /\ Head(s) = s[1] /\ t \in Seq(Messages) /\ Len(t) = n
        /\ \A i \in 1 .. Len(t) : t[i] = s[i + 1]
    BY <1>1, <1>8, EmptySeq, HeadTailProperties, SMT
  <2>2. Ids(s) # << >> BY <1>1, <1>5, <2>1, EmptySeq, SMT
  <2>3. /\ Head(Ids(s)) = Ids(s)[1] /\ Tail(Ids(s)) \in Seq(Requests)
        /\ Len(Tail(Ids(s))) = n
        /\ \A i \in 1 .. Len(Tail(Ids(s))) : Tail(Ids(s))[i] = Ids(s)[i + 1]
    BY <1>4, <1>5, <2>2, HeadTailProperties, SMT
  <2>4. n \in Nat /\ 1 \in 1 .. Len(s) /\ \A i \in 1 .. n : i + 1 \in 1 .. Len(s)
    BY <1>1, <2>1, SMT
  <2>5. DOMAIN t = 1 .. n BY <2>1, LenProperties
  <2>6. Ids(t) = [i \in 1 .. n |-> t[i].id] BY <2>5 DEF Ids
  <2>7. \A i \in 1 .. n : t[i].id \in Requests BY <1>1, <1>2, <2>1, <2>4
  <2>8. Ids(t) \in Seq(Requests) BY <2>4, <2>6, <2>7, IsASeq
  <2>9. Len(Ids(t)) = n BY <2>4, <2>6, <2>8, LenProperties, SMT
  <2>10. \A i \in 1 .. n : Ids(t)[i] = Tail(Ids(s))[i]
    BY <1>3, <2>1, <2>3, <2>4, <2>6
  <2>11. Ids(t) = Tail(Ids(s)) BY <2>3, <2>8, <2>9, <2>10, SeqEqual
  <2> QED BY <1>3, <2>1, <2>2, <2>3, <2>4, <2>11
<1> QED BY <1>4, <1>6, <1>7, <1>8

(* and a list of results in particular.                                    *)
LEMMA IdsOf ==
  ASSUME NEW s \in Seq(Results)
  PROVE  /\ Ids(s) \in Seq(Requests)
         /\ ToSet(Ids(s)) = {a.id : a \in ToSet(s)}
         /\ \A a \in Results : Ids(Append(s, a)) = Append(Ids(s), a.id)
         /\ s # << >> => /\ Ids(s) # << >> /\ Head(Ids(s)) = Head(s).id
                         /\ Ids(Tail(s)) = Tail(Ids(s))
<1>1. \A a \in Results : a.id \in Requests BY DEF Results
<1> QED BY <1>1, IdsOfAny

(* What the environment may do with an admission.                          *)
LEMMA ResolveMoves ==
  ASSUME TypeInv, NEW p \in PendingAdmissions, env_pc = "admissions", Resolve(p)
  PROVE  /\ env_pc' # "ack"
         /\ \/ /\ result' \in Results /\ result' # Nothing /\ result'.id = p.id
               /\ pending_admission' = Nothing
               /\ \/ result'.error # "None" /\ UNCHANGED <<records, free_sequences>>
                  \/ /\ result'.error = "None" /\ free_sequences # << >>
                     /\ result'.prompt_tokens = Len(Prompt[p.id])
                     /\ free_sequences' = Front(free_sequences)
                     /\ records' = [records EXCEPT ![p.id] =
                          [sequence |-> Last(free_sequences),
                           prefill_position |-> result'.cached_prefix_tokens,
                           decoded_tokens |-> 0]]
            \/ /\ UNCHANGED <<records, result>>
               /\ pending_admission' # Nothing /\ pending_admission'.id = p.id
               /\ \/ UNCHANGED free_sequences
                  \/ /\ free_sequences # << >> /\ free_sequences' = Front(free_sequences)
                     /\ env_fatal'
         /\ env_fatal => env_fatal'
<1>0. /\ p.id \in Requests /\ [p EXCEPT !.validated = TRUE] \in PendingAdmissions
      /\ [p EXCEPT !.validated = TRUE].id = p.id
  <2>1. p.id \in Requests /\ [p EXCEPT !.validated = TRUE].id = p.id
    BY SMT DEF PendingAdmissions
  <2>2. [p EXCEPT !.validated = TRUE] \in PendingAdmissions BY Zenon DEF PendingAdmissions
  <2> QED BY <2>1, <2>2
<1>1. ResolvedTypes
  BY ResolveTypes DEF TypeInv, ChannelTypes
<1>2. ASSUME NEW n, NEW cached, NEW error, Report(p.id, n, cached, error)
      PROVE  /\ env_pc' # "ack" /\ pending_admission' = Nothing
             /\ result' \in Results /\ result' # Nothing /\ result'.id = p.id
             /\ result'.prompt_tokens = n /\ result'.cached_prefix_tokens = cached
             /\ result'.error = error
  BY <1>1, <1>2 DEF Report, ResolvedTypes
<1>3. CASE Reject(p)
  BY <1>2, <1>3 DEF Reject, NoFailure
<1>4. CASE ValidationThrows(p)
  BY <1>2, <1>4 DEF ValidationThrows, FailRun
<1>5. CASE Hold(p)
  BY <1>0, <1>5, NothingElse DEF Hold, NoFailure
<1>6. CASE SamplerFails(p)
  BY <1>2, <1>6 DEF SamplerFails, NoFailure
<1>7. CASE Accept(p)
  <2>1. free_sequences # << >> BY <1>7 DEF Accept
  <2>2. PICK position : Assign(p, position) BY <1>7 DEF Accept
  <2>3. /\ env_pc' # "ack" /\ pending_admission' = Nothing
        /\ result' \in Results /\ result' # Nothing /\ result'.id = p.id
        /\ result'.prompt_tokens = Len(Prompt[p.id])
        /\ result'.cached_prefix_tokens = position /\ result'.error = "None"
    BY <1>2, <2>2 DEF Assign
  <2> QED BY <2>1, <2>2, <2>3 DEF Assign, NoFailure
<1>8. CASE RestoreBreaks(p)
  BY <1>2, <1>8 DEF RestoreBreaks, FailRun
<1>9. CASE AcceptThrows(p)
  BY <1>0, <1>9, NothingElse DEF AcceptThrows, FailRun
<1> QED BY <1>3, <1>4, <1>5, <1>6, <1>7, <1>8, <1>9 DEF Resolve

SameRecord(old, new) ==
  /\ new = Nothing <=> old = Nothing
  /\ old # Nothing => new.sequence = old.sequence

(* A step of the environment that takes nothing from a path and puts       *)
(* nothing on it, and in which no record appears or disappears.            *)
EnvironmentIdles ==
  /\ \A r \in Requests : SameRecord(records[r], records'[r])
  /\ UNCHANGED <<free_sequences, pathVars, result, pending_admission, Acknowledging>>

(* The steps of the environment that change what it holds.                 *)
LEMMA EnvironmentMoves ==
  ASSUME TypeInv, EnvironmentNext
  PROVE  \/ EnvironmentIdles
         \/ TakeRelease \/ AcknowledgeRelease
         \/ TakeAdmission \/ ResumeAdmission \/ ReportAdmission
<1>1. ASSUME env_pc # "ack", env_pc' # "ack",
             UNCHANGED <<records, free_sequences, pathVars, result, pending_admission>>
      PROVE  EnvironmentIdles
  BY <1>1 DEF EnvironmentIdles, SameRecord, Acknowledging
<1>2. CASE BeginTurn \/ ReleasesTaken \/ AdmissionsTaken \/ SkipPlan \/ PlanExecuted
  <2>1. /\ env_pc # "ack" /\ env_pc' # "ack"
        /\ UNCHANGED <<records, free_sequences, pathVars, result, pending_admission>>
    BY <1>2 DEF BeginTurn, ReleasesTaken, AdmissionsTaken, SkipPlan, PlanExecuted,
       handoffVars, pathVars
  <2> QED BY <1>1, <2>1
<1>3. CASE ConsumePlan
  <2>1. /\ env_pc # "ack" /\ env_pc' # "ack"
        /\ UNCHANGED <<records, free_sequences, pathVars, result, pending_admission>>
    BY <1>3 DEF ConsumePlan, pathVars
  <2> QED BY <1>1, <2>1
<1>4. CASE ReportOutput \/ ReportCompletion \/ RetirePlan \/ Catch
  <2>1. /\ env_pc # "ack" /\ env_pc' # "ack"
        /\ UNCHANGED <<records, free_sequences, pathVars, result, pending_admission>>
    BY <1>4 DEF ReportOutput, ReportCompletion, RetirePlan, Catch, pathVars
  <2> QED BY <1>1, <2>1
(* An item of a plan: the record it works on stays, with its sequence.     *)
<1>5. ASSUME env_pc = "items", item <= Len(plan.work)
      PROVE  /\ Work.id \in Requests /\ records[Work.id] \in Records
             /\ Advanced \in Records /\ Advanced # Nothing
             /\ Advanced.sequence = records[Work.id].sequence
             /\ Advanced.decoded_tokens \in Nat
             /\ \A n \in Nat : LET new == [Advanced EXCEPT !.decoded_tokens = n]
                               IN  new # Nothing /\ new.sequence = Advanced.sequence
  <2>1. Executable(Work) /\ Work \in WorkItems
    <3>1. item \in 1 .. Len(plan.work) /\ plan.work \in Seq(WorkItems)
      <4>1. /\ item >= 1 /\ item \in Nat /\ plan.work \in Seq(WorkItems)
        BY <1>5 DEF TypeInv, ExecutionInv, EnvironmentTypes, Plans
      <4>2. Len(plan.work) \in Nat BY <4>1, LenProperties
      <4> QED BY <1>5, <4>1, <4>2, SMT
    <3> QED BY <1>5, <3>1, ElementOfSeq DEF TypeInv, ExecutionInv, Work
  <2>2. Work.id \in Requests /\ Work.end \in Nat BY <2>1 DEF WorkItems
  <2>3. records[Work.id] \in Records
    BY <2>1, <2>2 DEF Executable, Held, TypeInv, EnvironmentTypes
  <2> DEFINE old == records[Work.id]
             moved == [old EXCEPT !.prefill_position = Work.end]
  <2>4. moved \in Records BY <2>2, <2>3, Zenon DEF Records
  <2>5. moved.sequence = old.sequence BY <2>3, SMT DEF Records
  <2>6. Advanced = IF Work.kind = "Prefill" THEN moved ELSE old BY DEF Advanced
  <2> HIDE DEF moved, old
  <2>7. Advanced \in Records /\ Advanced.sequence = old.sequence
    BY <2>3, <2>4, <2>5, <2>6 DEF old
  <2>8. Advanced.decoded_tokens \in Nat BY <2>7 DEF Records
  <2>9. ASSUME NEW n \in Nat
        PROVE  LET new == [Advanced EXCEPT !.decoded_tokens = n]
               IN  new \in Records /\ new.sequence = Advanced.sequence
    <3>1. [Advanced EXCEPT !.decoded_tokens = n] \in Records
      BY <2>7, Zenon DEF Records
    <3>2. [Advanced EXCEPT !.decoded_tokens = n].sequence = Advanced.sequence
      BY <2>7, SMT DEF Records
    <3> QED BY <3>1, <3>2
  <2> QED BY <2>2, <2>3, <2>7, <2>8, <2>9, NothingElse DEF old
<1>6. ASSUME env_pc = "items", item <= Len(plan.work), env_pc' # "ack",
             NEW new, new # Nothing, new.sequence = records[Work.id].sequence,
             records' = [records EXCEPT ![Work.id] = new],
             UNCHANGED <<free_sequences, pathVars, result, pending_admission>>
      PROVE  EnvironmentIdles
  <2>1. /\ Work.id \in Requests /\ records[Work.id] # Nothing
        /\ records \in [Requests -> Records \cup {Nothing}]
    BY <1>5, <1>6, NothingElse DEF TypeInv, EnvironmentTypes
  <2>2. /\ records'[Work.id] = new
        /\ \A r \in Requests : r # Work.id => records'[r] = records[r]
    BY <1>6, <2>1
  <2>3. \A r \in Requests : SameRecord(records[r], records'[r])
    BY <1>6, <2>1, <2>2 DEF SameRecord
  <2>4. Acknowledging' = Acknowledging BY <1>6 DEF Acknowledging
  <2> QED BY <1>6, <2>3, <2>4 DEF EnvironmentIdles
<1>7. CASE AdvancePrefill
  BY <1>5, <1>6, <1>7 DEF AdvancePrefill, executionUnchanged, pathVars
<1>8. CASE RememberThrows
  BY <1>5, <1>6, <1>8 DEF RememberThrows, executionUnchanged, pathVars
<1>9. CASE SampleToken
  <2> DEFINE new == [Advanced EXCEPT !.decoded_tokens = Advanced.decoded_tokens + 1]
  <2>1. /\ env_pc = "items" /\ item <= Len(plan.work) /\ env_pc' # "ack"
        /\ records' = [records EXCEPT ![Work.id] = new]
        /\ UNCHANGED <<free_sequences, pathVars, result, pending_admission>>
    BY <1>9 DEF SampleToken, executionUnchanged, pathVars
  <2>2. Advanced.decoded_tokens + 1 \in Nat BY <1>5, <2>1, SMT
  <2> QED BY <1>5, <1>6, <2>1, <2>2
<1>10. CASE SamplingFails
  <2>1. PICK drawn \in {0, 1} : records' = [records EXCEPT ![Work.id] =
          [Advanced EXCEPT !.decoded_tokens = Advanced.decoded_tokens + drawn]]
    BY <1>10 DEF SamplingFails
  <2>2. /\ env_pc = "items" /\ item <= Len(plan.work) /\ env_pc' # "ack"
        /\ UNCHANGED <<free_sequences, pathVars, result, pending_admission>>
    BY <1>10 DEF SamplingFails, executionUnchanged, pathVars
  <2>3. Advanced.decoded_tokens + drawn \in Nat BY <1>5, <2>1, <2>2, SMT
  <2> QED BY <1>5, <1>6, <2>1, <2>2, <2>3
<1> QED
  BY <1>2, <1>3, <1>4, <1>7, <1>8, <1>9, <1>10 DEF EnvironmentNext
-----------------------------------------------------------------------------
InFlight(states) == {r \in Requests : states[r].admission = "InFlight"}

Releasing(states) ==
  {r \in Requests : states[r].admission = "EnvironmentOwned" /\ states[r].release_sent}

(* The parts of the two paths are lists of requests.                       *)
LEMMA PathTypes ==
  ASSUME TypeInv
  PROVE  /\ Ids(admission_results) \in Seq(Requests) /\ InHand \in Seq(Requests)
         /\ admissions \in Seq(Requests) /\ admission_results \in Seq(Results)
         /\ release_acks \in Seq(Requests) /\ Acknowledging \in Seq(Requests)
         /\ releases \in Seq(Requests)
<1>1. /\ admission_results \in Seq(Results) /\ admissions \in Seq(Requests)
      /\ release_acks \in Seq(Requests) /\ releases \in Seq(Requests)
      /\ result \in Results \cup {Nothing}
      /\ pending_admission \in PendingAdmissions \cup {Nothing}
      /\ env_pc = "ack" => ack \in Requests
  BY DEF TypeInv, ChannelTypes, EnvironmentTypes
<1>2. \A r \in Requests : <<r>> \in Seq(Requests) BY SMT
<1>3. /\ result # Nothing => result.id \in Requests
      /\ pending_admission # Nothing => pending_admission.id \in Requests
  BY <1>1 DEF Results, PendingAdmissions
<1> QED BY <1>1, <1>2, <1>3, IdsOf, EmptySeq DEF InHand, Acknowledging

(* The ends of the two paths, as sets.                                     *)
LEMMA PathSets ==
  ASSUME TypeInv
  PROVE  /\ AdmissionPath \in Seq(Requests) /\ ReleasePath \in Seq(Requests)
         /\ ToSet(AdmissionPath) =
              {a.id : a \in ToSet(admission_results)} \cup ToSet(InHand) \cup ToSet(admissions)
         /\ ToSet(ReleasePath) =
              ToSet(release_acks) \cup ToSet(Acknowledging) \cup ToSet(releases)
         /\ ToSet(InHand) = IF result # Nothing THEN {result.id}
                            ELSE IF pending_admission # Nothing THEN {pending_admission.id}
                            ELSE {}
         /\ ToSet(Acknowledging) = IF env_pc = "ack" THEN {ack} ELSE {}
<1>1. \A x : ToSet(<<x>>) = {x} BY SMT DEF ToSet
<1>2. /\ Ids(admission_results) \in Seq(Requests) /\ InHand \in Seq(Requests)
      /\ admissions \in Seq(Requests) /\ release_acks \in Seq(Requests)
      /\ Acknowledging \in Seq(Requests) /\ releases \in Seq(Requests)
      /\ ToSet(Ids(admission_results)) = {a.id : a \in ToSet(admission_results)}
  BY PathTypes, IdsOf
<1>3. /\ AdmissionPath \in Seq(Requests)
      /\ ToSet(AdmissionPath) =
           ToSet(Ids(admission_results)) \cup ToSet(InHand) \cup ToSet(admissions)
  BY <1>2, PathElements DEF AdmissionPath
<1>4. /\ ReleasePath \in Seq(Requests)
      /\ ToSet(ReleasePath) =
           ToSet(release_acks) \cup ToSet(Acknowledging) \cup ToSet(releases)
  BY <1>2, PathElements DEF ReleasePath
<1>5. /\ ToSet(InHand) = IF result # Nothing THEN {result.id}
                         ELSE IF pending_admission # Nothing THEN {pending_admission.id}
                         ELSE {}
      /\ ToSet(Acknowledging) = IF env_pc = "ack" THEN {ack} ELSE {}
  BY <1>1, ToSetEmpty DEF InHand, Acknowledging
<1> QED BY <1>2, <1>3, <1>4, <1>5

(* A step that moves no message keeps the paths.                           *)
LEMMA HandsKept ==
  ASSUME PathInv, UNCHANGED pathVars, UNCHANGED environmentVars,
         \A r \in Requests : /\ request'[r].admission = request[r].admission
                             /\ request'[r].release_sent = request[r].release_sent
  PROVE  PathInv'
<1> USE DEF PathInv
<1>1. /\ UNCHANGED <<records, result, pending_admission, env_pc, ack>>
      /\ UNCHANGED <<admissions, releases, admission_results, release_acks>>
  BY DEF environmentVars, pathVars
<1>2. AdmissionPath' = AdmissionPath /\ ReleasePath' = ReleasePath
      /\ Acknowledging' = Acknowledging
  BY <1>1 DEF AdmissionPath, ReleasePath, InHand, Acknowledging
<1>3. AdmissionInv' BY <1>1, <1>2 DEF AdmissionInv, Held
<1>4. ReleaseInv' BY <1>1, <1>2 DEF ReleaseInv, Held
<1>5. HeldInv' BY <1>1 DEF HeldInv, Held
<1> QED BY <1>3, <1>4, <1>5

(* An admission enters its path when it is sent, and leaves it when its    *)
(* answer is taken; the answer is always awaited.                          *)
LEMMA SentEntersPath ==
  ASSUME TypeInv, LifeInv, FlushAdmission, UNCHANGED environmentVars
  PROVE  AdmissionPath' = Append(AdmissionPath, Head(pending_admissions))
<1> DEFINE s == Ids(admission_results)
           m == InHand
           t == admissions
<1>1. s \in Seq(Requests) /\ m \in Seq(Requests) /\ t \in Seq(Requests) BY PathTypes
<1>2. /\ InHand' = InHand /\ UNCHANGED admission_results
      /\ admissions' = Append(admissions, Head(pending_admissions))
      /\ Head(pending_admissions) \in Requests
  BY FlushMoves DEF environmentVars, InHand
<1>3. AdmissionPath' = Path(s, m, Append(t, Head(pending_admissions)))
  BY <1>2 DEF AdmissionPath, Ids
<1>4. AdmissionPath = Path(s, m, t) BY DEF AdmissionPath
<1> HIDE DEF s, m, t
<1>5. \A x \in Requests : Path(s, m, Append(t, x)) = Append(Path(s, m, t), x)
  BY <1>1, EnterPath
<1> QED BY <1>2, <1>3, <1>4, <1>5, Zenon

(* The answer that is taken was awaited, and leaves the path.              *)
LEMMA AnswerLeavesPath ==
  ASSUME TypeInv, LifeInv, PathInv, TakeAdmissionResult, UNCHANGED environmentVars
  PROVE  /\ AdmissionPath # << >> /\ Head(AdmissionPath) = Head(admission_results).id
         /\ AdmissionPath' = Tail(AdmissionPath)
         /\ Head(admission_results) \in ToSet(admission_results)
         /\ ToSet(Tail(admission_results)) \subseteq ToSet(admission_results)
         /\ Head(admission_results).id \in Requests /\ Awaiting(Head(admission_results).id)
<1> DEFINE answer == Head(admission_results)
           r == answer.id
<1>1. /\ admission_results # << >> /\ admission_results' = Tail(admission_results)
      /\ UNCHANGED admissions /\ InHand' = InHand
  BY DEF TakeAdmissionResult, environmentVars, InHand
<1>2. /\ AdmissionPath \in Seq(Requests) /\ Ids(admission_results) \in Seq(Requests)
      /\ InHand \in Seq(Requests) /\ admissions \in Seq(Requests)
      /\ admission_results \in Seq(Results)
      /\ IsInjective(AdmissionPath) /\ ToSet(AdmissionPath) = InFlight(request)
  BY PathTypes, PathSets DEF PathInv, AdmissionInv, InFlight
<1>3. /\ AdmissionPath # << >> /\ Head(AdmissionPath) = r
      /\ Tail(AdmissionPath) = Path(Ids(Tail(admission_results)), InHand, admissions)
      /\ answer \in ToSet(admission_results)
      /\ ToSet(Tail(admission_results)) \subseteq ToSet(admission_results)
  <2>1. /\ Ids(admission_results) # << >> /\ Head(Ids(admission_results)) = r
        /\ Ids(Tail(admission_results)) = Tail(Ids(admission_results))
    BY <1>1, <1>2, IdsOf
  <2>2. /\ answer \in ToSet(admission_results)
        /\ ToSet(Tail(admission_results)) \subseteq ToSet(admission_results)
    BY <1>1, <1>2, TailSubset
  <2> DEFINE s == Ids(admission_results)
  <2> HIDE DEF s, r, answer
  <2>3. /\ Path(s, InHand, admissions) # << >>
        /\ Head(Path(s, InHand, admissions)) = Head(s)
        /\ Tail(Path(s, InHand, admissions)) = Path(Tail(s), InHand, admissions)
    BY <1>2, <2>1, LeavePath DEF s
  <2> QED BY <2>1, <2>2, <2>3 DEF AdmissionPath, s
<1>4. r \in ToSet(AdmissionPath) BY <1>2, <1>3, TakeHead
<1>5. r \in Requests /\ Awaiting(r)
  <2>1. r \in Requests /\ request[r].admission = "InFlight"
    BY <1>2, <1>4 DEF InFlight
  <2>2. Coherent(request[r]) /\ Fresh("Unsubmitted").admission = "NotSent"
    BY <2>1 DEF LifeInv, CoherentInv, Fresh
  <2>3. Ongoing(request[r]) BY <2>1, <2>2 DEF Coherent, Ongoing
  <2> QED BY <2>1, <2>3 DEF Awaiting, Known, Ongoing, LifeInv, LiveInv
<1>6. AdmissionPath' = Tail(AdmissionPath) BY <1>1, <1>3 DEF AdmissionPath
<1> QED BY <1>3, <1>5, <1>6

(* Every step of the scheduler keeps the paths.                            *)
LEMMA PathSchedulerStep ==
  ASSUME TypeInv, LifeInv, PathInv, SchedulerNext, UNCHANGED environmentVars
  PROVE  PathInv'
<1>1. /\ UNCHANGED <<records, result, pending_admission, env_pc, ack>>
      /\ InHand' = InHand /\ Acknowledging' = Acknowledging
  BY DEF environmentVars, InHand, Acknowledging
<1>2. /\ AdmissionPath \in Seq(Requests) /\ ReleasePath \in Seq(Requests)
      /\ Ids(admission_results) \in Seq(Requests) /\ InHand \in Seq(Requests)
      /\ admissions \in Seq(Requests) /\ admission_results \in Seq(Results)
      /\ release_acks \in Seq(Requests) /\ Acknowledging \in Seq(Requests)
      /\ releases \in Seq(Requests)
  BY PathTypes, PathSets
<1>3. /\ IsInjective(AdmissionPath) /\ ToSet(AdmissionPath) = InFlight(request)
      /\ IsInjective(ReleasePath) /\ ToSet(ReleasePath) = Releasing(request)
  BY DEF PathInv, AdmissionInv, ReleaseInv, InFlight, Releasing
<1>13. \A x \in Requests :
         Path(release_acks, Acknowledging, Append(releases, x))
           = Append(Path(release_acks, Acknowledging, releases), x)
  <2> DEFINE s == release_acks
             m == Acknowledging
             t == releases
  <2>1. s \in Seq(Requests) /\ m \in Seq(Requests) /\ t \in Seq(Requests) BY <1>2
  <2> HIDE DEF s, m, t
  <2>2. \A x \in Requests : Path(s, m, Append(t, x)) = Append(Path(s, m, t), x)
    BY <2>1, EnterPath
  <2> QED BY <2>2 DEF s, m, t
<1>14. release_acks # << >> =>
         /\ Path(release_acks, Acknowledging, releases) # << >>
         /\ Head(Path(release_acks, Acknowledging, releases)) = Head(release_acks)
         /\ Tail(Path(release_acks, Acknowledging, releases))
              = Path(Tail(release_acks), Acknowledging, releases)
  <2> DEFINE s == release_acks
             m == Acknowledging
             t == releases
  <2>1. s \in Seq(Requests) /\ m \in Seq(Requests) /\ t \in Seq(Requests) BY <1>2
  <2> HIDE DEF s, m, t
  <2>2. s # << >> => /\ Path(s, m, t) # << >> /\ Head(Path(s, m, t)) = Head(s)
                     /\ Tail(Path(s, m, t)) = Path(Tail(s), m, t)
    BY <2>1, LeavePath
  <2> QED BY <2>2, Zenon DEF s, m, t
<1>4. CASE Quiet
  BY <1>4, HandsKept DEF Quiet, Stays
<1>5. CASE Drains
  <2>1. PICK error \in Errors, ready \in Seq(Requests) : EnterDraining(error, ready)
    BY <1>5 DEF Drains
  <2>2. \A r \in Requests : /\ request'[r].admission = request[r].admission
                            /\ request'[r].release_sent = request[r].release_sent
    BY <2>1, DrainsMove
  <2> QED BY <1>5, <2>2, HandsKept DEF Drains
<1>6. ASSUME NEW r \in Requests, Submit(r) PROVE PathInv'
  <2>1. /\ Touches(r) /\ request[r].admission = "NotSent" /\ ~request[r].release_sent
        /\ request'[r].admission = "NotSent" /\ ~request'[r].release_sent
        /\ UNCHANGED pathVars
    BY <1>6, SubmitMoves
  <2>2. request[r].release_sent \in BOOLEAN /\ request'[r].release_sent \in BOOLEAN
    <3>1. request[r].release_sent \in BOOLEAN
      BY DEF TypeInv, SchedulerTypes, RequestStates
    <3>2. request' = [request EXCEPT ![r] = Fresh("PendingAdmission")] BY <1>6 DEF Submit
    <3>3. request'[r] = Fresh("PendingAdmission")
      BY <3>2 DEF TypeInv, SchedulerTypes
    <3> QED BY <3>1, <3>3 DEF Fresh
  <2> QED BY <2>1, <2>2, HandsKept DEF Touches
<1>7. CASE PublishPlan
  <2>1. /\ UNCHANGED pathVars
        /\ \A r \in Requests : /\ request'[r].admission = request[r].admission
                               /\ request'[r].release_sent = request[r].release_sent
    BY <1>7, PublishMoves
  <2> QED BY <2>1, HandsKept
(* An admission enters its path.                                           *)
<1>8. CASE FlushAdmission
  <2> DEFINE r == Head(pending_admissions)
  <2>1. /\ r \in Requests /\ Touches(r)
        /\ request[r].admission = "NotSent" /\ request'[r].admission = "InFlight"
        /\ request'[r].release_sent = request[r].release_sent
        /\ admissions' = Append(admissions, r)
        /\ UNCHANGED <<releases, admission_results, release_acks>>
    BY <1>8, FlushMoves
  <2> HIDE DEF r
  <2>2. r \notin ToSet(AdmissionPath) /\ ~Held(r)
    BY <1>3, <2>1 DEF InFlight, PathInv, HeldInv
  <2>3. AdmissionPath' = Append(AdmissionPath, r) BY <1>8, SentEntersPath DEF r
  <2>4. IsInjective(AdmissionPath') /\ ToSet(AdmissionPath') = ToSet(AdmissionPath) \cup {r}
    BY <1>2, <1>3, <2>1, <2>2, <2>3, ToSetAppend
  <2>5. InFlight(request') = InFlight(request) \cup {r} /\ Releasing(request') = Releasing(request)
    BY <2>1 DEF InFlight, Releasing, Touches
  <2>6. ToSet(admissions') = ToSet(admissions) \cup {r} BY <1>2, <2>1, ToSetAppend
  <2>7. AdmissionInv'
    BY <1>1, <1>3, <2>1, <2>2, <2>4, <2>5, <2>6 DEF PathInv, AdmissionInv, InFlight, Held
  <2>8. ReleasePath' = ReleasePath BY <1>1, <2>1 DEF ReleasePath
  <2>9. ReleaseInv'
    BY <1>1, <1>3, <2>1, <2>5, <2>8 DEF PathInv, ReleaseInv, Releasing, Held
  <2>10. HeldInv' BY <1>1, <2>1 DEF PathInv, HeldInv, Touches, Held
  <2> QED BY <2>7, <2>9, <2>10 DEF PathInv
(* Its answer is always awaited; it leaves its path.                       *)
<1>9. CASE TakeAdmissionResult
  <2> DEFINE answer == Head(admission_results)
             r == answer.id
  <2>1. /\ AdmissionPath # << >> /\ Head(AdmissionPath) = r
        /\ AdmissionPath' = Tail(AdmissionPath)
        /\ answer \in ToSet(admission_results)
        /\ ToSet(Tail(admission_results)) \subseteq ToSet(admission_results)
        /\ r \in Requests /\ Awaiting(r)
    BY <1>9, AnswerLeavesPath
  <2>2. /\ r \in ToSet(AdmissionPath) /\ IsInjective(Tail(AdmissionPath))
        /\ ToSet(Tail(AdmissionPath)) = ToSet(AdmissionPath) \ {r}
    BY <1>2, <1>3, <2>1, TakeHead
  <2>4. /\ Touches(r) /\ admission_results' = Tail(admission_results)
        /\ UNCHANGED <<admissions, releases, release_acks>>
        /\ ~request'[r].release_sent
        /\ answer.error # "None" => request'[r].admission = "NotSent"
        /\ answer.error = "None" => request'[r].admission = "EnvironmentOwned"
    BY <1>9, <2>1, ResultMoves
  <2>5. answer.error = "None" <=> Held(r) BY <2>1 DEF PathInv, AdmissionInv
  <2> HIDE DEF answer, r
  <2>7. InFlight(request') = InFlight(request) \ {r} /\ Releasing(request') = Releasing(request)
    <3>1. request[r].admission = "InFlight" BY <2>1 DEF Awaiting
    <3> QED BY <2>1, <2>4, <3>1 DEF InFlight, Releasing, Touches
  <2>8. AdmissionInv'
    BY <1>1, <1>3, <2>1, <2>2, <2>4, <2>7 DEF PathInv, AdmissionInv, InFlight, Held
  <2>9. ReleasePath' = ReleasePath BY <1>1, <2>4 DEF ReleasePath
  <2>10. ReleaseInv'
    BY <1>1, <1>3, <2>4, <2>7, <2>9 DEF PathInv, ReleaseInv, Releasing, Held
  <2>11. HeldInv' BY <1>1, <2>1, <2>4, <2>5 DEF PathInv, HeldInv, Touches, Held
  <2> QED BY <2>8, <2>10, <2>11 DEF PathInv
(* An acknowledgement is always awaited; the release leaves its path.      *)
<1>10. CASE TakeReleaseAck
  <2> DEFINE r == Head(release_acks)
  <2>0. release_acks # << >> BY <1>10 DEF TakeReleaseAck
  <2>1. /\ ReleasePath # << >> /\ Head(ReleasePath) = r
        /\ Tail(ReleasePath) = Path(Tail(release_acks), Acknowledging, releases)
        /\ r \in ToSet(release_acks)
        /\ ToSet(Tail(release_acks)) \subseteq ToSet(release_acks)
    <3>1. r \in ToSet(release_acks) /\ ToSet(Tail(release_acks)) \subseteq ToSet(release_acks)
      BY <1>2, <2>0, TailSubset, Zenon
    <3>2. /\ Path(release_acks, Acknowledging, releases) # << >>
          /\ Head(Path(release_acks, Acknowledging, releases)) = r
          /\ Tail(Path(release_acks, Acknowledging, releases))
               = Path(Tail(release_acks), Acknowledging, releases)
      BY <1>14, <2>0, Zenon
    <3> QED BY <3>1, <3>2, Zenon DEF ReleasePath
  <2>2. /\ r \in ToSet(ReleasePath) /\ IsInjective(Tail(ReleasePath))
        /\ ToSet(Tail(ReleasePath)) = ToSet(ReleasePath) \ {r}
    BY <1>2, <1>3, <2>1, TakeHead
  <2>3. /\ r \in Requests /\ request[r].admission = "EnvironmentOwned"
        /\ request[r].release_sent
    BY <1>3, <2>2 DEF Releasing
  <2>4. Known(r) /\ request[r].stage = "PendingRelease"
    <3>1. Coherent(request[r]) BY <2>3 DEF LifeInv, CoherentInv
    <3>2. request[r].stage = "PendingRelease" BY <2>3, <3>1 DEF Coherent
    <3> QED BY <2>3, <3>2 DEF Known, LifeInv, LiveInv, Ongoing
  <2>5. /\ Touches(r) /\ release_acks' = Tail(release_acks)
        /\ UNCHANGED <<admissions, releases, admission_results>>
        /\ request'[r].admission = "NotSent"
    BY <1>10, <2>3, <2>4, AckMoves
  <2>6. ~Held(r) BY <2>1 DEF PathInv, ReleaseInv
  <2> HIDE DEF r
  <2>7. ReleasePath' = Tail(ReleasePath) /\ AdmissionPath' = AdmissionPath
    BY <1>1, <2>1, <2>5 DEF ReleasePath, AdmissionPath
  <2>8. InFlight(request') = InFlight(request) /\ Releasing(request') = Releasing(request) \ {r}
    BY <2>3, <2>5 DEF InFlight, Releasing, Touches
  <2>9. AdmissionInv'
    BY <1>1, <1>3, <2>5, <2>7, <2>8 DEF PathInv, AdmissionInv, InFlight, Held
  <2>10. ReleaseInv'
    BY <1>1, <1>3, <2>1, <2>2, <2>5, <2>7, <2>8 DEF PathInv, ReleaseInv, Releasing, Held
  <2>11. HeldInv' BY <1>1, <2>5, <2>6 DEF PathInv, HeldInv, Touches, Held
  <2> QED BY <2>9, <2>10, <2>11 DEF PathInv
(* A release enters its path.                                              *)
<1>11. CASE TryRelease
  <2> DEFINE r == Head(sweep)
  <2>1. /\ r \in Requests /\ Touches(r) /\ ~request[r].release_sent
        /\ request[r].admission = "EnvironmentOwned"
        /\ UNCHANGED <<admissions, admission_results, release_acks>>
        /\ ~HasRoom(releases) => UNCHANGED <<request, releases>>
        /\ HasRoom(releases) =>
             /\ request'[r].release_sent /\ request'[r].admission = "EnvironmentOwned"
             /\ releases' = Append(releases, r)
    BY <1>11, ReleaseMoves
  <2> HIDE DEF r
  <2>2. CASE ~HasRoom(releases)
    BY <2>1, <2>2, HandsKept DEF pathVars
  <2>3. CASE HasRoom(releases)
    <3>1. r \notin ToSet(ReleasePath) /\ Held(r)
      BY <1>3, <2>1 DEF Releasing, PathInv, HeldInv
    <3>2. ReleasePath' = Append(ReleasePath, r)
      <4>1. Path(release_acks, Acknowledging, Append(releases, r))
              = Append(Path(release_acks, Acknowledging, releases), r)
        BY <1>13, <2>1, Zenon
      <4> QED BY <1>1, <2>1, <2>3, <4>1, Zenon DEF ReleasePath
    <3>3. IsInjective(ReleasePath') /\ ToSet(ReleasePath') = ToSet(ReleasePath) \cup {r}
      BY <1>2, <1>3, <2>1, <3>1, <3>2, ToSetAppend
    <3>4. /\ InFlight(request') = InFlight(request)
          /\ Releasing(request') = Releasing(request) \cup {r}
      BY <2>1, <2>3 DEF InFlight, Releasing, Touches
    <3>5. ToSet(releases') = ToSet(releases) \cup {r} BY <1>2, <2>1, <2>3, ToSetAppend
    <3>6. AdmissionPath' = AdmissionPath BY <1>1, <2>1 DEF AdmissionPath
    <3>7. AdmissionInv'
      BY <1>1, <1>3, <2>1, <3>4, <3>6 DEF PathInv, AdmissionInv, InFlight, Held
    <3>8. ReleaseInv'
      BY <1>1, <1>3, <2>1, <3>1, <3>3, <3>4, <3>5 DEF PathInv, ReleaseInv, Releasing, Held
    <3>9. HeldInv' BY <1>1, <2>1, <2>3 DEF PathInv, HeldInv, Touches, Held
    <3> QED BY <3>7, <3>8, <3>9 DEF PathInv
  <2> QED BY <2>2, <2>3
<1> QED
  BY <1>4, <1>5, <1>6, <1>7, <1>8, <1>9, <1>10, <1>11, SchedulerMoves
-----------------------------------------------------------------------------
(* The two paths lead through requests, whatever their state: what a path  *)
(* says of a request outside it does not depend on its record.             *)
LEMMA PathMembers ==
  ASSUME TypeInv, PathInv
  PROVE  /\ \A a \in ToSet(admission_results) : a.id \in InFlight(request)
         /\ \A r \in ToSet(admissions) : r \in InFlight(request)
         /\ result # Nothing => result.id \in InFlight(request)
         /\ pending_admission # Nothing => pending_admission.id \in InFlight(request)
         /\ \A r \in ToSet(releases) : r \in Releasing(request)
         /\ \A r \in ToSet(release_acks) : r \in Releasing(request)
         /\ env_pc = "ack" => ack \in Releasing(request)
         /\ \A r \in ToSet(Acknowledging) : r \in Releasing(request)
         /\ InFlight(request) \cap Releasing(request) = {}
         /\ InFlight(request) \subseteq Requests /\ Releasing(request) \subseteq Requests
<1>1. /\ ToSet(AdmissionPath) = InFlight(request)
      /\ ToSet(ReleasePath) = Releasing(request)
      /\ result = Nothing \/ pending_admission = Nothing
  BY DEF PathInv, AdmissionInv, ReleaseInv, InFlight, Releasing
<1>2. /\ InFlight(request) \cap Releasing(request) = {}
      /\ InFlight(request) \subseteq Requests /\ Releasing(request) \subseteq Requests
  BY DEF InFlight, Releasing
<1>3. /\ InFlight(request) = {a.id : a \in ToSet(admission_results)}
                               \cup ToSet(InHand) \cup ToSet(admissions)
      /\ Releasing(request) =
           ToSet(release_acks) \cup ToSet(Acknowledging) \cup ToSet(releases)
      /\ ToSet(InHand) = IF result # Nothing THEN {result.id}
                         ELSE IF pending_admission # Nothing THEN {pending_admission.id}
                         ELSE {}
      /\ ToSet(Acknowledging) = IF env_pc = "ack" THEN {ack} ELSE {}
  BY <1>1, PathSets
<1> QED BY <1>1, <1>2, <1>3

(* A step of the environment that neither adds nor removes a record.       *)
LEMMA IdlesKeepPaths ==
  ASSUME TypeInv, PathInv, EnvironmentIdles, UNCHANGED request
  PROVE  PathInv' /\ AdmissionPath' = AdmissionPath
<1> USE DEF PathInv
<1>1. \A r \in Requests : Held(r)' <=> Held(r)
  BY DEF EnvironmentIdles, SameRecord, Held
<1>2. /\ AdmissionPath' = AdmissionPath /\ ReleasePath' = ReleasePath
      /\ UNCHANGED <<admissions, releases, admission_results, release_acks, result,
                     pending_admission, Acknowledging, request>>
  BY DEF EnvironmentIdles, pathVars, AdmissionPath, ReleasePath, InHand
<1>3. AdmissionInv' BY <1>1, <1>2, PathMembers DEF AdmissionInv
<1>4. ReleaseInv'
  <2>1. \A r \in ToSet(releases) \cup ToSet(release_acks) \cup ToSet(Acknowledging) :
          r \in Requests
    BY PathMembers
  <2> QED BY <1>1, <1>2, <2>1 DEF ReleaseInv
<1>5. HeldInv' BY <1>1, <1>2 DEF HeldInv
<1> QED BY <1>2, <1>3, <1>4, <1>5

(* A release is taken: its record goes, and its request moves on to be     *)
(* acknowledged.                                                           *)
LEMMA TakeReleaseKeepsPaths ==
  ASSUME TypeInv, PathInv, TakeRelease, UNCHANGED request
  PROVE  PathInv' /\ AdmissionPath' = AdmissionPath
<1> DEFINE r == Head(releases)
<1>1. /\ env_pc = "releases" /\ releases # << >> /\ env_pc' = "ack" /\ ack' = r
      /\ records' = [records EXCEPT ![r] = Nothing] /\ releases' = Tail(releases)
      /\ UNCHANGED <<admissions, admission_results, release_acks, result,
                     pending_admission>>
  BY DEF TakeRelease
<1>2. /\ IsInjective(ReleasePath) /\ ToSet(ReleasePath) = Releasing(request)
      /\ \A q \in ToSet(releases) : Held(q)
      /\ \A q \in ToSet(release_acks) : ~Held(q)
  BY DEF PathInv, ReleaseInv, Releasing
<1>3. /\ releases \in Seq(Requests) /\ release_acks \in Seq(Requests)
      /\ records \in [Requests -> Records \cup {Nothing}]
  BY PathTypes DEF TypeInv, EnvironmentTypes
<1>4. Acknowledging = << >> /\ Acknowledging' = <<r>> BY <1>1 DEF Acknowledging
<1>5. IsInjective(releases)
  BY <1>2, <1>3, <1>4, PathParts, EmptySeq DEF ReleasePath
<1>6. /\ r \in ToSet(releases) /\ ToSet(Tail(releases)) = ToSet(releases) \ {r}
  BY <1>1, <1>3, <1>5, TakeHead
<1>7. ReleasePath' = ReleasePath
  <2> DEFINE s == release_acks
             t == releases
  <2>1. s \in Seq(Requests) /\ t \in Seq(Requests) /\ t # << >> BY <1>1, <1>3
  <2> HIDE DEF s, t
  <2>2. Path(s, <<Head(t)>>, Tail(t)) = Path(s, << >>, t) BY <2>1, PassOn
  <2> QED BY <1>1, <1>4, <2>2, Zenon DEF ReleasePath, s, t
<1> HIDE DEF r
<1>8. /\ r \in Releasing(request) /\ r \in Requests /\ r \notin InFlight(request)
  BY <1>6, PathMembers
<1>9. \A q \in Requests : Held(q)' <=> Held(q) /\ q # r
  BY <1>1, <1>3, <1>8 DEF Held
<1>10. ToSet(Acknowledging') = {r}
  <2>1. ToSet(<<r>>) = {r} BY SMT DEF ToSet
  <2> QED BY <1>4, <2>1
<1>11. ReleaseInv'
  <2>1. /\ \A q \in ToSet(releases') : Held(q)'
        /\ \A q \in ToSet(release_acks') \cup ToSet(Acknowledging') : ~Held(q)'
    <3>1. /\ \A q \in ToSet(releases) \cup ToSet(release_acks) : q \in Requests
          /\ releases' = Tail(releases) /\ release_acks' = release_acks
      BY <1>1, PathMembers
    <3> QED BY <1>2, <1>6, <1>8, <1>9, <1>10, <3>1
  <2> QED BY <1>2, <1>7, <2>1 DEF ReleaseInv, Releasing
<1>12. AdmissionPath' = AdmissionPath BY <1>1 DEF AdmissionPath, InHand
<1>13. AdmissionInv'
  BY <1>1, <1>8, <1>9, <1>12, PathMembers DEF PathInv, AdmissionInv
<1>14. HeldInv'
  BY <1>8, <1>9 DEF PathInv, HeldInv, Releasing
<1> QED BY <1>11, <1>12, <1>13, <1>14 DEF PathInv

(* The acknowledgement of the release it has taken.                        *)
LEMMA AcknowledgeKeepsPaths ==
  ASSUME TypeInv, PathInv, AcknowledgeRelease, UNCHANGED request
  PROVE  PathInv' /\ AdmissionPath' = AdmissionPath
<1>1. /\ env_pc = "ack" /\ env_pc' = "releases"
      /\ release_acks' = Append(release_acks, ack)
      /\ UNCHANGED <<records, releases, admissions, admission_results, result,
                     pending_admission>>
  BY DEF AcknowledgeRelease
<1>2. Acknowledging = <<ack>> /\ Acknowledging' = << >> BY <1>1 DEF Acknowledging
<1>3. releases \in Seq(Requests) /\ release_acks \in Seq(Requests) /\ ack \in Requests
  BY <1>1, PathTypes, PathMembers
<1>4. ReleasePath' = ReleasePath
  <2> DEFINE s == release_acks
             t == releases
  <2>1. s \in Seq(Requests) /\ t \in Seq(Requests) /\ ack \in Requests BY <1>3
  <2> HIDE DEF s, t
  <2>2. Path(Append(s, ack), << >>, t) = Path(s, <<ack>>, t) BY <2>1, PassOn
  <2> QED BY <1>1, <1>2, <2>2, Zenon DEF ReleasePath, s, t
<1>5. ToSet(release_acks') = ToSet(release_acks) \cup {ack} BY <1>1, <1>3, ToSetAppend
<1>6. ToSet(Acknowledging) = {ack} /\ ToSet(Acknowledging') = {}
  <2>1. ToSet(<<ack>>) = {ack} BY SMT DEF ToSet
  <2> QED BY <1>2, <2>1, ToSetEmpty
<1>7. ReleaseInv' BY <1>1, <1>4, <1>5, <1>6 DEF PathInv, ReleaseInv, Held
<1>8. AdmissionPath' = AdmissionPath BY <1>1 DEF AdmissionPath, InHand
<1>9. AdmissionInv' BY <1>1, <1>8 DEF PathInv, AdmissionInv, Held
<1>10. HeldInv' BY <1>1 DEF PathInv, HeldInv, Held
<1> QED BY <1>7, <1>8, <1>9, <1>10 DEF PathInv

(* The record of a request just accepted.                                  *)
LEMMA AcceptedRecord ==
  ASSUME TypeInv, result' \in Results, free_sequences # << >>
  PROVE  [sequence |-> Last(free_sequences),
          prefill_position |-> result'.cached_prefix_tokens,
          decoded_tokens |-> 0] \in Records
<1>1. Last(free_sequences) \in 0 .. MaxSequences - 1
  BY TakeLast DEF TypeInv, EnvironmentTypes
<1>2. result'.cached_prefix_tokens \in Nat BY DEF Results
<1>3. 0 \in Nat BY SMT
<1> QED BY <1>1, <1>2, <1>3, Zenon DEF Records

(* An admission is considered: its request keeps its place, in the         *)
(* environment's hands, and is held if and only if it is accepted.         *)
LEMMA ResolveKeepsPaths ==
  ASSUME TypeInv, PathInv, UNCHANGED request, env_pc = "admissions",
         UNCHANGED <<releases, release_acks, admission_results>>,
         NEW p \in PendingAdmissions, Resolve(p), ~Held(p.id),
         p.id \in InFlight(request),
         \A a \in ToSet(admission_results) : a.id # p.id,
         ToSet(admissions') \subseteq ToSet(admissions) \ {p.id},
         Path(Ids(admission_results), <<p.id>>, admissions') = AdmissionPath
  PROVE  PathInv' /\ AdmissionPath' = AdmissionPath
<1>1. p.id \in Requests /\ p.id \notin Releasing(request) BY PathMembers
<1>2. /\ env_pc' # "ack"
      /\ \/ /\ result' # Nothing /\ result'.id = p.id /\ pending_admission' = Nothing
            /\ \/ result'.error # "None" /\ records' = records
               \/ /\ result'.error = "None"
                  /\ \E new \in Records : records' = [records EXCEPT ![p.id] = new]
         \/ /\ records' = records /\ result' = result
            /\ pending_admission' # Nothing /\ pending_admission'.id = p.id
  BY AcceptedRecord, ResolveMoves
<1>3. result = Nothing
  BY DEF TypeInv, EnvironmentTypes
<1>4. records \in [Requests -> Records \cup {Nothing}] BY DEF TypeInv, EnvironmentTypes
<1>5. /\ \A q \in Requests : q # p.id => (Held(q)' <=> Held(q))
      /\ \A q \in Requests : q = p.id =>
           (Held(q)' <=> (result' # Nothing /\ result'.error = "None"))
  BY <1>1, <1>2, <1>3, <1>4, NothingElse DEF Held
<1>6. InHand' = <<p.id>> BY <1>2, <1>3 DEF InHand
<1>7. AdmissionPath' = AdmissionPath
  <2>1. Ids(admission_results)' = Ids(admission_results) BY DEF Ids
  <2> QED BY <1>6, <2>1, Zenon DEF AdmissionPath
<1>8. Acknowledging = << >> /\ Acknowledging' = << >> BY <1>2 DEF Acknowledging
<1>9. ReleasePath' = ReleasePath BY <1>8 DEF ReleasePath
<1>10. AdmissionInv'
  <2>1. /\ IsInjective(AdmissionPath')
        /\ ToSet(AdmissionPath') = {r \in Requests : request'[r].admission = "InFlight"}
    BY <1>7 DEF PathInv, AdmissionInv
  <2>2. \A a \in ToSet(admission_results') : a.error = "None" <=> Held(a.id)'
    <3>1. \A a \in ToSet(admission_results) : a.id \in Requests BY PathMembers
    <3> QED BY <1>5, <3>1 DEF PathInv, AdmissionInv
  <2>3. /\ result' = Nothing \/ pending_admission' = Nothing
        /\ result' # Nothing => (result'.error = "None" <=> Held(result.id)')
        /\ pending_admission' # Nothing => ~Held(pending_admission.id)'
    BY <1>1, <1>2, <1>3, <1>5
  <2>4. \A r \in ToSet(admissions') : ~Held(r)'
    BY <1>5, PathMembers DEF PathInv, AdmissionInv
  <2> QED BY <2>1, <2>2, <2>3, <2>4 DEF AdmissionInv
<1>11. ReleaseInv'
  <2>1. \A r \in ToSet(releases) \cup ToSet(release_acks) \cup ToSet(Acknowledging) :
          r \in Requests /\ r # p.id
    BY <1>1, PathMembers
  <2> QED BY <1>5, <1>8, <1>9, <2>1 DEF PathInv, ReleaseInv
<1>12. HeldInv' BY <1>5 DEF PathInv, HeldInv, InFlight
<1> QED BY <1>7, <1>10, <1>11, <1>12 DEF PathInv

(* So does an admission that is taken up,                                  *)
LEMMA TakeAdmissionKeepsPaths ==
  ASSUME TypeInv, PathInv, TakeAdmission, UNCHANGED request
  PROVE  PathInv' /\ AdmissionPath' = AdmissionPath
<1> DEFINE r == Head(admissions)
           p == [id |-> r, validated |-> FALSE]
<1>1. /\ env_pc = "admissions" /\ pending_admission = Nothing
      /\ admissions # << >> /\ Resolve(p) /\ admissions' = Tail(admissions)
      /\ UNCHANGED <<releases, release_acks, admission_results>>
  BY DEF TakeAdmission
<1>2. result = Nothing BY <1>1 DEF TypeInv, EnvironmentTypes
<1>3. /\ Ids(admission_results) \in Seq(Requests) /\ admissions \in Seq(Requests)
      /\ ToSet(Ids(admission_results)) = {a.id : a \in ToSet(admission_results)}
  BY PathTypes, IdsOf
<1>4. IsInjective(AdmissionPath) /\ \A q \in ToSet(admissions) : ~Held(q)
  BY DEF PathInv, AdmissionInv
<1>5. InHand = << >> BY <1>1, <1>2 DEF InHand
<1>6. /\ IsInjective(admissions)
      /\ ToSet(Ids(admission_results)) \cap ToSet(admissions) = {}
      /\ Path(Ids(admission_results), <<r>>, Tail(admissions)) = AdmissionPath
  <2> DEFINE s == Ids(admission_results)
             t == admissions
  <2>1. /\ s \in Seq(Requests) /\ t \in Seq(Requests) /\ << >> \in Seq(Requests)
        /\ AdmissionPath = Path(s, << >>, t) /\ t # << >>
    BY <1>1, <1>3, <1>5, EmptySeq, Zenon DEF AdmissionPath
  <2> HIDE DEF s, t
  <2>2. IsInjective(t) /\ ToSet(s) \cap ToSet(t) = {} BY <1>4, <2>1, PathParts
  <2>3. Path(s, <<Head(t)>>, Tail(t)) = AdmissionPath BY <2>1, PassOn
  <2> QED BY <2>2, <2>3, Zenon DEF s, t
<1>7. r \in ToSet(admissions) /\ ToSet(admissions') = ToSet(admissions) \ {r}
  BY <1>1, <1>3, <1>6, TakeHead
<1>8. r \in InFlight(request) /\ r \in Requests BY <1>7, PathMembers
<1>9. p \in PendingAdmissions /\ p.id = r BY <1>8 DEF PendingAdmissions
<1>10. /\ ~Held(r) /\ \A a \in ToSet(admission_results) : a.id # r
  BY <1>3, <1>4, <1>6, <1>7
<1>11. Path(Ids(admission_results), <<p.id>>, admissions') = AdmissionPath
  BY <1>1, <1>6, <1>9, Zenon
<1> HIDE DEF p, r
<1> QED
  BY <1>1, <1>7, <1>8, <1>9, <1>10, <1>11, ResolveKeepsPaths

(* one that is resumed when a sequence is free,                            *)
LEMMA ResumeAdmissionKeepsPaths ==
  ASSUME TypeInv, PathInv, ResumeAdmission, UNCHANGED request
  PROVE  PathInv' /\ AdmissionPath' = AdmissionPath
<1> DEFINE p == pending_admission
<1>1. /\ env_pc = "admissions" /\ p # Nothing /\ Resolve(p)
      /\ UNCHANGED <<admissions, releases, release_acks, admission_results>>
  BY DEF ResumeAdmission
<1>2. result = Nothing /\ p \in PendingAdmissions
  BY <1>1 DEF TypeInv, EnvironmentTypes
<1>3. /\ Ids(admission_results) \in Seq(Requests) /\ admissions \in Seq(Requests)
      /\ InHand \in Seq(Requests)
      /\ ToSet(Ids(admission_results)) = {a.id : a \in ToSet(admission_results)}
  BY PathTypes, IdsOf
<1>4. IsInjective(AdmissionPath) /\ ~Held(p.id)
  BY <1>1 DEF PathInv, AdmissionInv
<1>5. InHand = <<p.id>> /\ ToSet(InHand) = {p.id}
  BY <1>1, <1>2, PathSets DEF InHand
<1>6. /\ ToSet(Ids(admission_results)) \cap ToSet(InHand) = {}
      /\ ToSet(InHand) \cap ToSet(admissions) = {}
  <2> DEFINE s == Ids(admission_results)
             m == InHand
             t == admissions
  <2>1. /\ s \in Seq(Requests) /\ t \in Seq(Requests) /\ m \in Seq(Requests)
        /\ AdmissionPath = Path(s, m, t)
    BY <1>3, Zenon DEF AdmissionPath
  <2> HIDE DEF s, m, t
  <2>2. ToSet(s) \cap ToSet(m) = {} /\ ToSet(m) \cap ToSet(t) = {}
    BY <1>4, <2>1, PathParts
  <2> QED BY <2>2, Zenon DEF s, m, t
<1>7. /\ \A a \in ToSet(admission_results) : a.id # p.id
      /\ ToSet(admissions') \subseteq ToSet(admissions) \ {p.id}
  BY <1>1, <1>3, <1>5, <1>6
<1>8. p.id \in InFlight(request) BY <1>1, PathMembers
<1>9. Path(Ids(admission_results), <<p.id>>, admissions') = AdmissionPath
  BY <1>1, <1>5, Zenon DEF AdmissionPath
<1> QED
  BY <1>1, <1>2, <1>4, <1>7, <1>8, <1>9, ResolveKeepsPaths

(* and an answer that is sent;                                             *)
LEMMA ReportKeepsPaths ==
  ASSUME TypeInv, PathInv, ReportAdmission, UNCHANGED request
  PROVE  PathInv' /\ AdmissionPath' = AdmissionPath
<1>1. /\ env_pc = "result" /\ env_pc' = "admissions" /\ result' = Nothing
      /\ admission_results' = Append(admission_results, result)
      /\ UNCHANGED <<records, pending_admission, admissions, releases, release_acks>>
  BY DEF ReportAdmission
<1>2. result # Nothing /\ result \in Results
  BY <1>1 DEF TypeInv, EnvironmentTypes
<1>3. pending_admission = Nothing BY <1>2 DEF PathInv, AdmissionInv
<1>4. InHand = <<result.id>> /\ InHand' = << >> BY <1>1, <1>2, <1>3 DEF InHand
<1>5. /\ Ids(admission_results) \in Seq(Requests) /\ admissions \in Seq(Requests)
      /\ admission_results \in Seq(Results) /\ result.id \in Requests
      /\ Ids(Append(admission_results, result)) = Append(Ids(admission_results), result.id)
  BY <1>2, PathTypes, IdsOf DEF Results
<1>6. AdmissionPath' = AdmissionPath
  <2> DEFINE s == Ids(admission_results)
             t == admissions
             x == result.id
  <2>1. s \in Seq(Requests) /\ t \in Seq(Requests) /\ x \in Requests BY <1>5
  <2>2. Ids(admission_results)' = Append(s, x)
    BY <1>1, <1>5, Zenon DEF Ids
  <2> HIDE DEF s, t, x
  <2>3. Path(Append(s, x), << >>, t) = Path(s, <<x>>, t) BY <2>1, PassOn
  <2>4. /\ AdmissionPath' = Path(Append(s, x), << >>, t)
        /\ AdmissionPath = Path(s, <<x>>, t)
    BY <1>1, <1>4, <2>2, Zenon DEF AdmissionPath, s, t, x
  <2> QED BY <2>3, <2>4, Zenon
<1>7. ToSet(admission_results') = ToSet(admission_results) \cup {result}
  BY <1>1, <1>2, <1>5, ToSetAppend
<1>8. AdmissionInv'
  BY <1>1, <1>2, <1>3, <1>6, <1>7 DEF PathInv, AdmissionInv, Held
<1>9. ReleaseInv'
  <2>1. Acknowledging' = Acknowledging BY <1>1 DEF Acknowledging
  <2>2. ReleasePath' = ReleasePath BY <1>1, <2>1 DEF ReleasePath
  <2> QED BY <1>1, <2>1, <2>2 DEF PathInv, ReleaseInv, Held
<1>10. HeldInv' BY <1>1 DEF PathInv, HeldInv, Held
<1> QED BY <1>6, <1>8, <1>9, <1>10 DEF PathInv

(* so does every step of the environment.                                  *)
LEMMA PathEnvironmentStep ==
  ASSUME TypeInv, PathInv, EnvironmentNext, UNCHANGED schedulerVars
  PROVE  PathInv' /\ AdmissionPath' = AdmissionPath
<1>1. UNCHANGED request BY DEF schedulerVars, lifecycleVars
<1> QED
  BY <1>1, EnvironmentMoves, IdlesKeepPaths, TakeReleaseKeepsPaths,
     AcknowledgeKeepsPaths, TakeAdmissionKeepsPaths, ResumeAdmissionKeepsPaths,
     ReportKeepsPaths

(* The paths are empty at the start.                                       *)
LEMMA InitPath == Init => PathInv
<1> SUFFICES ASSUME Init PROVE PathInv
  OBVIOUS
<1>1. /\ admissions = << >> /\ releases = << >> /\ admission_results = << >>
      /\ release_acks = << >> /\ env_pc = "top" /\ result = Nothing
      /\ pending_admission = Nothing
      /\ records = [r \in Requests |-> Nothing]
      /\ request = [r \in Requests |-> Fresh("Unsubmitted")]
  BY DEF Init, HandoffInit, SchedulerInit, EnvironmentInit
<1>2. TypeInv BY InitTypes
<1>3. ToSet(AdmissionPath) = {} /\ ToSet(ReleasePath) = {}
  BY <1>1, <1>2, PathSets, ToSetEmpty
<1>4. AdmissionPath = << >> /\ ReleasePath = << >>
  <2>1. Ids(admission_results) = << >> /\ InHand = << >> /\ Acknowledging = << >>
    <3>1. DOMAIN admission_results = {} BY <1>1, SMT
    <3>2. Ids(admission_results) = << >> BY <3>1, SMT DEF Ids
    <3> QED BY <1>1, <3>2 DEF InHand, Acknowledging
  <2>2. << >> \o << >> \o << >> = << >> BY EmptySeq, ConcatEmptySeq
  <2> QED BY <1>1, <2>1, <2>2, Zenon DEF AdmissionPath, ReleasePath, Path
<1>5. \A r \in Requests : /\ ~Held(r) /\ request[r].admission = "NotSent"
  BY <1>1 DEF Held, Fresh
<1>6. ToSet(admission_results) = {} /\ ToSet(admissions) = {} /\ ToSet(releases) = {}
      /\ ToSet(release_acks) = {} /\ ToSet(Acknowledging) = {}
  BY <1>1, <1>2, PathSets, ToSetEmpty
<1>7. IsInjective(AdmissionPath) /\ IsInjective(ReleasePath)
  BY <1>4, ToSetEmpty
<1>8. AdmissionInv BY <1>1, <1>3, <1>5, <1>6, <1>7 DEF AdmissionInv
<1>9. ReleaseInv BY <1>3, <1>5, <1>6, <1>7 DEF ReleaseInv
<1>10. HeldInv BY <1>5 DEF HeldInv
<1> QED BY <1>8, <1>9, <1>10 DEF PathInv

(* The paths at every moment: an admission reaches the environment once    *)
(* and is answered once, and so is a release; nothing overtakes on the way *)
(* and nothing is lost, whatever fails (scheduler.cpp:320-373, 443-492,    *)
(* environment.cpp:282-413).                                               *)
THEOREM PathInvariance == Spec => []PathInv
<1>1. Init => PathInv BY InitPath
<1>2. TypeInv /\ LifeInv /\ PathInv /\ [Next]_vars => PathInv'
  <2> SUFFICES ASSUME TypeInv, LifeInv, PathInv, [Next]_vars PROVE PathInv'
    OBVIOUS
  <2>1. CASE SchedulerThread BY <2>1, PathSchedulerStep DEF SchedulerThread
  <2>2. CASE EnvironmentThread BY <2>2, PathEnvironmentStep DEF EnvironmentThread
  <2>3. CASE UNCHANGED vars
    BY <2>3, HandsKept DEF vars, handoffVars, schedulerVars, lifecycleVars, pathVars
  <2> QED BY <2>1, <2>2, <2>3 DEF Next, Terminated
<1> QED BY <1>1, <1>2, TypesInvariance, LifeInvariance, PTL DEF Spec

(* The scheduler's idea of who owns a request is never wrong: between the  *)
(* result of its admission and the acknowledgement of its release the      *)
(* environment has a record of it, and of no other request.                *)
THEOREM OwnershipAlwaysAgrees == Spec => []OwnershipAgrees
<1>1. LifeInv /\ PathInv => OwnershipAgrees
  BY DEF LifeInv, CoherentInv, Coherent, PathInv, HeldInv, OwnershipAgrees
<1> QED BY <1>1, LifeInvariance, PathInvariance, PTL

(* retry_releases sends a release once, for a request the environment      *)
(* still holds when it takes it, so no sequence is freed twice.            *)
THEOREM ReleasesAreAlwaysHeld == Spec => []ReleasesAreHeld
<1>1. TypeInv /\ PathInv => ReleasesAreHeld
  <2> SUFFICES ASSUME TypeInv, PathInv PROVE ReleasesAreHeld
    OBVIOUS
  <2>1. /\ release_acks \in Seq(Requests) /\ Acknowledging \in Seq(Requests)
        /\ releases \in Seq(Requests) /\ IsInjective(ReleasePath)
    BY PathTypes DEF PathInv, ReleaseInv
  <2>2. IsInjective(releases) BY <2>1, PathParts DEF ReleasePath
  <2>3. \A i \in DOMAIN releases : releases[i] \in ToSet(releases) BY DEF ToSet
  <2> QED BY <2>2, <2>3 DEF PathInv, ReleaseInv, ReleasesAreHeld
<1> QED BY <1>1, TypesInvariance, PathInvariance, PTL

(* The driver stops the environment only once run_once has returned false: *)
(* by then every request is terminal and the environment's map is empty,   *)
(* whatever failed before (benchmark_main.cpp:391-411).                    *)
THEOREM ExitIsClean == Spec => []CleanExit
<1>1. LifeInv /\ PathInv => CleanExit
  <2> SUFFICES ASSUME LifeInv, PathInv, run_pc = "exited", NEW r \in Requests
               PROVE  request[r].stage \in {"Unsubmitted", "Terminal"} /\ ~Held(r)
    BY DEF CleanExit
  <2>1. request[r].stage \in {"Unsubmitted", "Terminal"}
    BY DEF LifeInv, ExitInv, Ongoing
  <2>2. Fresh("Unsubmitted").admission = "NotSent" BY DEF Fresh
  <2>3. request[r].admission = "NotSent"
    BY <2>1, <2>2 DEF LifeInv, CoherentInv, Coherent
  <2> QED BY <2>1, <2>3 DEF PathInv, HeldInv
<1> QED BY <1>1, LifeInvariance, PathInvariance, PTL
-----------------------------------------------------------------------------
(* The requests that wait are in the order of their submission on the live *)
(* list; so they are on the path of the admissions, the ones already sent, *)
(* and behind them on the pending list.                                    *)
Arrivals(states) == {r \in Requests : states[r].stage = "PendingAdmission"}

Queue == Filter(live, Arrivals(request))

OrderInv == Queue = AdmissionPath \o pending_admissions

(* A request waits until the environment owns it or it ends.               *)
LEMMA ArrivalState ==
  ASSUME NEW q \in RequestStates, Coherent(q)
  PROVE  q.stage = "PendingAdmission" <=> Ongoing(q) /\ q.admission # "EnvironmentOwned"
<1>1. q.stage \in Stages BY DEF RequestStates
<1> QED BY <1>1 DEF Coherent, Ongoing, Stages

(* What waits is on the way to the environment or still to be sent.        *)
LEMMA ArrivalSets ==
  ASSUME TypeInv, LifeInv, PathInv
  PROVE  /\ Arrivals(request) = InFlight(request) \cup Unsent
         /\ InFlight(request) \cap Unsent = {}
         /\ ToSet(AdmissionPath) = InFlight(request)
         /\ ToSet(pending_admissions) = Unsent
         /\ Arrivals(request) \subseteq ToSet(live)
         /\ Queue \in Seq(Requests) /\ IsInjective(Queue)
         /\ ToSet(Queue) = Arrivals(request)
<1>1. request \in [Requests -> RequestStates] /\ live \in Seq(Requests)
  BY DEF TypeInv, SchedulerTypes
<1>2. \A r \in Requests : Coherent(request[r]) /\ request[r] \in RequestStates
  BY <1>1 DEF LifeInv, CoherentInv
<1>3. Arrivals(request) = InFlight(request) \cup Unsent
  <2>1. ASSUME NEW r \in InFlight(request) PROVE r \in Arrivals(request)
    <3>1. r \in Requests /\ request[r].admission = "InFlight" BY DEF InFlight
    <3>2. Fresh("Unsubmitted").admission = "NotSent" BY DEF Fresh
    <3>3. request[r].stage \in Stages BY <1>2, <3>1 DEF RequestStates
    <3>4. request[r].stage = "PendingAdmission"
      BY <1>2, <3>1, <3>2, <3>3 DEF Coherent, Stages
    <3> QED BY <3>1, <3>4 DEF Arrivals
  <2>2. ASSUME NEW r \in Arrivals(request) PROVE r \in InFlight(request) \cup Unsent
    BY <1>2 DEF Arrivals, Coherent, InFlight, Unsent
  <2> QED BY <2>1, <2>2 DEF Arrivals, Unsent
<1>4. InFlight(request) \cap Unsent = {} BY DEF InFlight, Unsent
<1>5. ToSet(AdmissionPath) = InFlight(request) /\ ToSet(pending_admissions) = Unsent
  BY DEF PathInv, AdmissionInv, InFlight, LifeInv, PendingInv
<1>6. Arrivals(request) \subseteq ToSet(live)
  BY DEF Arrivals, LifeInv, LiveInv, Ongoing
<1>7. /\ Queue \in Seq(Requests) /\ IsInjective(Queue)
      /\ ToSet(Queue) = ToSet(live) \cap Arrivals(request)
  BY <1>1, FilterProperties DEF Queue, LifeInv, LiveInv
<1> QED BY <1>3, <1>4, <1>5, <1>6, <1>7

(* The steps that change the two lists.                                    *)
LEMMA ListMoves ==
  ASSUME TypeInv, SchedulerNext, \A r \in Requests : ~Submit(r)
  PROVE  /\ RetireTerminal \/ UNCHANGED live
         /\ FlushAdmission \/ Drains \/ UNCHANGED pending_admissions
         /\ Drains \/ UNCHANGED draining
<1>0. /\ terminal_ready \in Seq(Requests)
      /\ "EnvironmentStopped" \in Errors /\ "ProtocolViolation" \in Errors
  BY DEF TypeInv, SchedulerTypes, Errors
<1>1. CASE BeginIteration
  <2>1. CASE scheduler_stop
    BY <1>0, <1>1, <2>1 DEF BeginIteration, Drains, handoffVars, pathVars
  <2>2. CASE ~scheduler_stop BY <1>1, <2>2 DEF BeginIteration
  <2> QED BY <2>1, <2>2 DEF BeginIteration, lifecycleVars
<1>2. CASE RejectPlan \/ NoWork \/ BuildThrows
  BY <1>0, <1>2 DEF RejectPlan, NoWork, BuildThrows, Drains, handoffVars, pathVars
<1>3. CASE TakeFatal
  <2>1. Head(fatals) \in Errors
    BY <1>3, HeadTailProperties DEF TakeFatal, TypeInv, ChannelTypes
  <2> QED BY <1>0, <1>3, <2>1 DEF TakeFatal, Drains, pathVars
<1>4. CASE ObserverFails
  <2>1. Tail(terminal_ready) \in Seq(Requests)
    BY <1>0, <1>4, HeadTailProperties DEF ObserverFails
  <2> QED BY <1>0, <1>4, <2>1 DEF ObserverFails, Drains, handoffVars, pathVars
<1>5. CASE \/ RequestStop \/ StopEnvironment \/ FlushDone \/ SnapshotEpoch \/ DrainDone
           \/ ReleasesDone \/ ObserveBatch \/ FinishRun \/ KeepRunning \/ WaitForRelease
  BY <1>5 DEF RequestStop, StopEnvironment, FlushDone, SnapshotEpoch, DrainDone,
     ReleasesDone, ObserveBatch, FinishRun, KeepRunning, WaitForRelease, lifecycleVars
<1>6. CASE \/ FlushAdmission \/ TakeAdmissionResult \/ TakeOutput \/ TakeCompletion
           \/ TakeReleaseAck \/ TryRelease \/ RetireTerminal \/ PublishPlan
  BY <1>6 DEF FlushAdmission, TakeAdmissionResult, TakeOutput, TakeCompletion,
     TakeReleaseAck, TryRelease, RetireTerminal, PublishPlan
<1> QED BY <1>1, <1>2, <1>3, <1>4, <1>5, <1>6 DEF SchedulerNext, SchedulerStep

(* A retired request does not wait.                                        *)
LEMMA RetiredElsewhere ==
  ASSUME TypeInv, LifeInv, RetireTerminal \/ UNCHANGED live,
         NEW W, W \subseteq Arrivals(request)
  PROVE  Filter(live', W) = Filter(live, W)
<1> SUFFICES ASSUME RetireTerminal, live' # live
             PROVE  Filter(live', W) = Filter(live, W)
  OBVIOUS
<1> DEFINE x == Head(terminal_ready)
<1>1. live \in Seq(Requests) /\ terminal_ready \in Seq(Requests)
  BY DEF TypeInv, SchedulerTypes
<1>2. terminal_ready # << >> /\ live' = Filter(live, Requests \ {x}) BY DEF RetireTerminal
<1>3. x \in ToSet(terminal_ready) BY <1>1, <1>2, TailSubset
<1>4. request[x].stage = "Terminal" BY <1>3 DEF LifeInv, MarkersInv, MarkersExact
<1> HIDE DEF x
<1>5. (Requests \ {x}) \cap W = W BY <1>4 DEF Arrivals
<1> QED BY <1>1, <1>2, <1>5, FilterTwice

(* A request joins the queue when it is submitted;                         *)
LEMMA QueueOnSubmit ==
  ASSUME TypeInv, LifeInv, PathInv, OrderInv, NEW r \in Requests, Submit(r),
         UNCHANGED environmentVars
  PROVE  Queue' = Append(Queue, r) /\ OrderInv'
<1>1. /\ live' = Append(live, r) /\ pending_admissions' = Append(pending_admissions, r)
      /\ request' = [request EXCEPT ![r] = Fresh("PendingAdmission")]
      /\ UNCHANGED <<admissions, admission_results>>
  BY DEF Submit, handoffVars
<1>2. /\ live \in Seq(Requests) /\ pending_admissions \in Seq(Requests)
      /\ request \in [Requests -> RequestStates]
  BY DEF TypeInv, SchedulerTypes
<1>3. request[r].stage = "Unsubmitted" BY DEF Submit
<1>4. r \notin ToSet(live) BY <1>3 DEF LifeInv, LiveInv
<1>5. Arrivals(request') = Arrivals(request) \cup {r}
  <2>1. Fresh("PendingAdmission").stage = "PendingAdmission" BY DEF Fresh
  <2> QED BY <1>1, <1>2, <2>1 DEF Arrivals
<1>6. Filter(live, Arrivals(request')) = Queue
  BY <1>2, <1>4, <1>5, FilterSame DEF Queue
<1>7. Filter(Append(live, r), Arrivals(request'))
        = Append(Filter(live, Arrivals(request')), r)
  <2>1. PICK W : W = Arrivals(request')
    OBVIOUS
  <2>2. r \in W BY <1>5, <2>1
  <2>3. Filter(Append(live, r), W) = Append(Filter(live, W), r)
    BY <1>2, <2>2, FilterAppend
  <2> QED BY <2>1, <2>3
<1>8. Queue' = Append(Queue, r) BY <1>1, <1>6, <1>7 DEF Queue
<1>9. AdmissionPath' = AdmissionPath
  BY <1>1 DEF AdmissionPath, Ids, InHand, environmentVars
<1>10. /\ AdmissionPath \in Seq(Requests) /\ AdmissionPath \o pending_admissions \in Seq(Requests)
       /\ <<r>> \in Seq(Requests)
  BY <1>2, PathSets, ToSetConcat, SMT
<1>11. Append(AdmissionPath \o pending_admissions, r)
         = AdmissionPath \o Append(pending_admissions, r)
  <2>1. /\ Append(AdmissionPath \o pending_admissions, r)
             = (AdmissionPath \o pending_admissions) \o <<r>>
        /\ Append(pending_admissions, r) = pending_admissions \o <<r>>
    BY <1>2, <1>10, AppendIsConcat
  <2>2. (AdmissionPath \o pending_admissions) \o <<r>>
          = AdmissionPath \o (pending_admissions \o <<r>>)
    BY <1>2, <1>10, ConcatAssociative
  <2> QED BY <2>1, <2>2
<1> QED BY <1>1, <1>8, <1>9, <1>11 DEF OrderInv

(* it leaves it when its answer is taken, and is the first to do so;       *)
LEMMA QueueOnAnswer ==
  ASSUME TypeInv, LifeInv, PathInv, OrderInv, TakeAdmissionResult, UNCHANGED environmentVars
  PROVE  /\ Queue # << >> /\ Head(Queue) = Head(admission_results).id
         /\ Queue' = Tail(Queue) /\ OrderInv'
<1>1. PICK r : r = Head(admission_results).id
  OBVIOUS
<1>2. /\ AdmissionPath # << >> /\ Head(AdmissionPath) = r
      /\ AdmissionPath' = Tail(AdmissionPath) /\ r \in Requests /\ Awaiting(r)
  BY <1>1, AnswerLeavesPath
<1>3. /\ Touches(r) /\ request'[r].stage # "PendingAdmission"
  BY <1>1, <1>2, ResultMoves
<1>4. UNCHANGED <<live, pending_admissions>> BY DEF TakeAdmissionResult
<1>5. /\ AdmissionPath \in Seq(Requests) /\ pending_admissions \in Seq(Requests)
      /\ live \in Seq(Requests)
  BY PathSets DEF TypeInv, SchedulerTypes
<1>6. /\ Queue # << >> /\ Head(Queue) = r /\ Tail(Queue) = Tail(AdmissionPath) \o pending_admissions
  <2> DEFINE s == AdmissionPath
             t == pending_admissions
  <2>1. s \in Seq(Requests) /\ t \in Seq(Requests) /\ s # << >> BY <1>2, <1>5
  <2> HIDE DEF s, t
  <2>2. s \o t # << >> /\ Head(s \o t) = Head(s) /\ Tail(s \o t) = Tail(s) \o t
    BY <2>1, LeaveConcat
  <2> QED BY <1>2, <2>2 DEF OrderInv, s, t
<1>7. Arrivals(request') = Arrivals(request) \ {r} BY <1>2, <1>3 DEF Arrivals, Touches
<1>8. /\ Queue \in Seq(Requests) /\ IsInjective(Queue) /\ ToSet(Queue) = Arrivals(request)
  BY ArrivalSets
<1>9. Filter(Queue, Arrivals(request')) = Tail(Queue)
  <2>1. ToSet(Queue) \cap Arrivals(request') = ToSet(Queue) \ {Head(Queue)}
    BY <1>6, <1>7, <1>8
  <2> QED BY <1>6, <1>8, <2>1, FilterHead
<1>10. Queue' = Tail(Queue)
  <2>1. Filter(Queue, Arrivals(request'))
          = Filter(live, Arrivals(request) \cap Arrivals(request'))
    BY <1>5, FilterTwice DEF Queue
  <2>2. Arrivals(request) \cap Arrivals(request') = Arrivals(request') BY <1>7
  <2> QED BY <1>4, <1>9, <2>1, <2>2 DEF Queue
<1> QED BY <1>1, <1>2, <1>4, <1>6, <1>10 DEF OrderInv

(* a drain ends those at the back of the queue that were not sent yet;     *)
LEMMA QueueOnDrain ==
  ASSUME TypeInv, LifeInv, PathInv, OrderInv, Drains, ~draining,
         RetireTerminal \/ UNCHANGED live, UNCHANGED environmentVars
  PROVE  /\ Queue' = AdmissionPath /\ Arrivals(request') = InFlight(request) /\ OrderInv'
<1>1. PICK error \in Errors, ready \in Seq(Requests) : EnterDraining(error, ready)
  BY DEF Drains
<1>2. /\ AdmissionPath \in Seq(Requests) /\ pending_admissions \in Seq(Requests)
      /\ live \in Seq(Requests) /\ request \in [Requests -> RequestStates]
  BY PathSets DEF TypeInv, SchedulerTypes
<1>3. /\ Arrivals(request) = InFlight(request) \cup Unsent
      /\ InFlight(request) \cap Unsent = {}
      /\ ToSet(AdmissionPath) = InFlight(request) /\ ToSet(pending_admissions) = Unsent
      /\ Arrivals(request) \subseteq ToSet(live)
  BY ArrivalSets
<1>4. Arrivals(request') = InFlight(request)
  <2>1. request' = [r \in Requests |-> IF Known(r) THEN Drained(request[r], error)
                                       ELSE request[r]]
    BY <1>1 DEF EnterDraining
  <2>2. ASSUME NEW r \in Requests
        PROVE  request'[r].stage = "PendingAdmission" <=> r \in InFlight(request)
    <3>1. request[r] \in RequestStates /\ Coherent(request[r])
          /\ request[r].stage \in Stages /\ request[r].admission \in Ownerships
      BY <1>2 DEF LifeInv, CoherentInv, RequestStates
    <3>2. CASE ~Known(r)
      <4>1. request'[r] = request[r] BY <2>1, <3>2
      <4>2. r \notin Arrivals(request) BY <1>3, <3>2 DEF Known
      <4> QED BY <1>3, <4>1, <4>2 DEF Arrivals
    <3>3. CASE Known(r)
      <4>1. request'[r] = Drained(request[r], error) BY <2>1, <3>3
      <4>2. /\ request[r].stage = "Terminal" => request'[r] = request[r]
            /\ request[r].stage # "Terminal" =>
                 /\ request[r].admission = "NotSent" => request'[r].stage = "Terminal"
                 /\ request[r].admission = "InFlight" => request'[r].stage = request[r].stage
                 /\ request[r].admission = "EnvironmentOwned" =>
                      request'[r].stage = "PendingRelease"
        BY <3>1, <4>1, DrainedFields
      <4>3. r \in InFlight(request) => request[r].stage = "PendingAdmission"
        BY <1>3 DEF Arrivals
      <4>4. request[r].stage = "Terminal" => r \notin InFlight(request) BY <4>3
      <4> QED BY <3>1, <4>2, <4>3, <4>4 DEF InFlight, Ownerships
    <3> QED BY <3>2, <3>3
  <2> QED BY <2>2 DEF Arrivals, InFlight
<1>5. Filter(live', Arrivals(request')) = Filter(live, Arrivals(request'))
  BY <1>3, <1>4, RetiredElsewhere
<1>6. Filter(live, Arrivals(request')) = Filter(Queue, Arrivals(request'))
  <2>1. Arrivals(request) \cap Arrivals(request') = Arrivals(request') BY <1>3, <1>4
  <2> QED BY <1>2, <2>1, FilterTwice DEF Queue
<1>7. Filter(Queue, Arrivals(request')) = AdmissionPath
  <2> DEFINE s == AdmissionPath
             t == pending_admissions
             W == Arrivals(request')
  <2>1. /\ s \in Seq(Requests) /\ t \in Seq(Requests) /\ Queue = s \o t
        /\ ToSet(s) \subseteq W /\ ToSet(t) \cap W = {}
    BY <1>2, <1>3, <1>4 DEF OrderInv
  <2> HIDE DEF s, t, W
  <2>2. Filter(s, W) = s /\ Filter(t, W) = << >> BY <2>1, FilterAll
  <2>3. Filter(s \o t, W) = Filter(s, W) \o Filter(t, W) BY <2>1, FilterConcat
  <2>4. Filter(Queue, W) = s BY <2>1, <2>2, <2>3, ConcatEmptySeq
  <2> QED BY <2>4 DEF s, W
<1>8. Queue' = AdmissionPath BY <1>5, <1>6, <1>7 DEF Queue
<1>9. pending_admissions' = << >> BY <1>1 DEF EnterDraining
<1>10. AdmissionPath' = AdmissionPath
  BY DEF Drains, pathVars, AdmissionPath, Ids, InHand, environmentVars
<1> QED BY <1>2, <1>4, <1>8, <1>9, <1>10, ConcatEmptySeq DEF OrderInv

(* and no other step of the scheduler touches it.                          *)
LEMMA SameArrivals ==
  ASSUME TypeInv, LifeInv, SchedulerThread, ~TakeAdmissionResult,
         \A r \in Requests : ~Submit(r), ~(Drains /\ ~draining)
  PROVE  Arrivals(request') = Arrivals(request)
<1>0. SchedulerNext BY DEF SchedulerThread
<1> SUFFICES ASSUME NEW r \in Requests
             PROVE  request'[r].stage = "PendingAdmission"
                      <=> request[r].stage = "PendingAdmission"
  BY DEF Arrivals
<1>1. /\ request[r] \in RequestStates /\ request'[r] \in RequestStates
      /\ Coherent(request[r]) /\ Coherent(request'[r])
  <2>1. SchedulerTypes' BY SchedulerStepTypes DEF TypeInv
  <2>2. LifeInv' BY <1>0, LifeStep
  <2> QED BY <2>1, <2>2 DEF TypeInv, SchedulerTypes, LifeInv, CoherentInv
<1>2. CASE Quiet
  <2>1. Stays(request[r], request'[r]) BY <1>2 DEF Quiet
  <2>2. /\ request[r].stage = "PendingAdmission"
             <=> Ongoing(request[r]) /\ request[r].admission # "EnvironmentOwned"
        /\ request'[r].stage = "PendingAdmission"
             <=> Ongoing(request'[r]) /\ request'[r].admission # "EnvironmentOwned"
    BY <1>1, ArrivalState
  <2> QED BY <2>1, <2>2 DEF Stays
<1>3. CASE Drains
  <2>1. draining BY <1>3
  <2>2. UNCHANGED request BY <1>3, <2>1 DEF Drains, EnterDraining
  <2> QED BY <2>2
<1>4. CASE FlushAdmission
  <2>1. /\ Touches(Head(pending_admissions))
        /\ request'[Head(pending_admissions)].stage = request[Head(pending_admissions)].stage
    BY <1>4, FlushMoves
  <2> QED BY <2>1 DEF Touches
<1>5. CASE TakeReleaseAck
  <2>1. PICK x \in Requests : x = Head(release_acks)
    BY <1>5, AckMoves
  <2>2. /\ Touches(x)
        /\ UNCHANGED request \/ /\ request[x].admission = "EnvironmentOwned"
                                /\ request'[x].stage = "Terminal"
    BY <1>5, <2>1, AckMoves
  <2> QED BY <1>1, <2>2 DEF Touches, Coherent
<1>6. CASE TryRelease
  <2>1. PICK x \in Requests : x = Head(sweep)
    BY <1>6, ReleaseMoves
  <2>2. /\ Touches(x) /\ request[x].stage = "PendingRelease"
        /\ UNCHANGED request \/ request'[x].stage = "PendingRelease"
    BY <1>6, <2>1, ReleaseMoves
  <2> QED BY <2>2 DEF Touches
<1>7. CASE PublishPlan
  <2>1. \A x \in Requests : request'[x].stage = request[x].stage BY <1>7, PublishMoves
  <2> QED BY <2>1
<1> QED BY <1>0, <1>2, <1>3, <1>4, <1>5, <1>6, <1>7, SchedulerMoves

(* So the two parts of the queue move on, and the queue does not;          *)
LEMMA QueueOtherwise ==
  ASSUME TypeInv, LifeInv, PathInv, OrderInv, SchedulerThread, ~TakeAdmissionResult,
         \A r \in Requests : ~Submit(r), ~(Drains /\ ~draining)
  PROVE  Queue' = Queue /\ OrderInv'
<1>0. SchedulerNext /\ UNCHANGED environmentVars BY DEF SchedulerThread
<1>1. Arrivals(request') = Arrivals(request) BY SameArrivals
<1>2. RetireTerminal \/ UNCHANGED live BY <1>0, ListMoves
<1>3. Queue' = Queue
  <2>1. Filter(live', Arrivals(request)) = Filter(live, Arrivals(request))
    BY <1>2, RetiredElsewhere
  <2> QED BY <1>1, <2>1 DEF Queue
<1>4. CASE FlushAdmission
  <2> DEFINE s == AdmissionPath
             t == pending_admissions
  <2>1. /\ s \in Seq(Requests) /\ t \in Seq(Requests) /\ t # << >>
        /\ AdmissionPath' = Append(s, Head(t)) /\ pending_admissions' = Tail(t)
    BY <1>0, <1>4, PathSets, SentEntersPath DEF FlushAdmission, TypeInv, SchedulerTypes
  <2> HIDE DEF s, t
  <2>2. /\ Head(t) \in Requests /\ Tail(t) \in Seq(Requests)
        /\ t = <<Head(t)>> \o Tail(t)
    BY <2>1, HeadTailProperties, SMT
  <2>3. <<Head(t)>> \in Seq(Requests) /\ Append(s, Head(t)) = s \o <<Head(t)>>
    BY <2>1, <2>2, AppendIsConcat, SMT
  <2>4. (s \o <<Head(t)>>) \o Tail(t) = s \o (<<Head(t)>> \o Tail(t))
    BY <2>1, <2>2, <2>3, ConcatAssociative
  <2>5. Queue = s \o t BY DEF OrderInv, s, t
  <2>6. Append(s, Head(t)) \o Tail(t) = s \o t BY <2>2, <2>3, <2>4, Zenon
  <2> QED BY <1>3, <2>1, <2>5, <2>6, Zenon DEF OrderInv
<1>5. CASE ~FlushAdmission
  <2>1. UNCHANGED pending_admissions
    <3>1. Drains => UNCHANGED pending_admissions BY DEF Drains, EnterDraining
    <3> QED BY <1>0, <1>5, <3>1, ListMoves
  <2>2. UNCHANGED <<admissions, admission_results>>
    <3>1. /\ Quiet \/ Drains => UNCHANGED <<admissions, admission_results>>
          /\ PublishPlan => UNCHANGED <<admissions, admission_results>>
      BY PublishMoves DEF Quiet, Drains, pathVars
    <3>2. TakeReleaseAck \/ TryRelease => UNCHANGED <<admissions, admission_results>>
      BY AckMoves, ReleaseMoves
    <3> QED BY <1>0, <1>5, <3>1, <3>2, SchedulerMoves
  <2>3. AdmissionPath' = AdmissionPath
    BY <1>0, <2>2 DEF AdmissionPath, Ids, InHand, environmentVars
  <2> QED BY <1>3, <2>1, <2>3 DEF OrderInv
<1> QED BY <1>4, <1>5

(* every step keeps it in order,                                           *)
LEMMA OrderStep ==
  ASSUME TypeInv, LifeInv, PathInv, OrderInv, [Next]_vars
  PROVE  OrderInv'
<1>1. CASE SchedulerThread
  <2>0. SchedulerNext /\ UNCHANGED environmentVars BY <1>1 DEF SchedulerThread
  <2>1. CASE TakeAdmissionResult BY <2>0, <2>1, QueueOnAnswer
  <2>2. CASE \E r \in Requests : Submit(r) BY <2>0, <2>2, QueueOnSubmit
  <2>3. CASE /\ ~TakeAdmissionResult /\ \A r \in Requests : ~Submit(r)
             /\ Drains /\ ~draining
    <3>1. RetireTerminal \/ UNCHANGED live BY <2>0, <2>3, ListMoves
    <3> QED BY <2>0, <2>3, <3>1, QueueOnDrain
  <2>4. CASE /\ ~TakeAdmissionResult /\ \A r \in Requests : ~Submit(r)
             /\ ~(Drains /\ ~draining)
    BY <1>1, <2>4, QueueOtherwise
  <2> QED BY <2>1, <2>2, <2>3, <2>4
<1>2. CASE EnvironmentThread
  <2>1. /\ AdmissionPath' = AdmissionPath
        /\ UNCHANGED <<request, live, pending_admissions>>
    BY <1>2, PathEnvironmentStep DEF EnvironmentThread, schedulerVars, lifecycleVars
  <2> QED BY <2>1 DEF OrderInv, Queue
<1>3. CASE UNCHANGED vars
  BY <1>3 DEF OrderInv, Queue, AdmissionPath, Ids, InHand, vars, handoffVars,
     schedulerVars, lifecycleVars, environmentVars
<1> QED BY <1>1, <1>2, <1>3 DEF Next, Terminated

(* as it is at the start.                                                  *)
LEMMA InitOrder == Init => OrderInv
<1> SUFFICES ASSUME Init PROVE OrderInv
  OBVIOUS
<1>1. /\ live = << >> /\ pending_admissions = << >> /\ admission_results = << >>
      /\ admissions = << >> /\ result = Nothing /\ pending_admission = Nothing
  BY DEF Init, HandoffInit, SchedulerInit, EnvironmentInit
<1>2. Queue = << >> BY <1>1, FilterEmpty DEF Queue
<1>3. AdmissionPath = << >>
  <2>1. Ids(admission_results) = << >>
    <3>1. DOMAIN admission_results = {} BY <1>1, SMT
    <3> QED BY <3>1, SMT DEF Ids
  <2>2. << >> \o << >> \o << >> = << >> BY EmptySeq, ConcatEmptySeq
  <2> QED BY <1>1, <2>1, <2>2, Zenon DEF AdmissionPath, Path, InHand
<1> QED BY <1>1, <1>2, <1>3, EmptySeq, ConcatEmptySeq DEF OrderInv

(* First come, first served: those that wait are in the order of their     *)
(* submission all along, on the scheduler's list, in the channel, in the   *)
(* environment's hand and in the channel back (scheduler.cpp:295-318,      *)
(* environment.cpp:282-350).                                               *)
THEOREM OrderInvariance == Spec => []OrderInv
<1>1. TypeInv /\ LifeInv /\ PathInv /\ OrderInv /\ [Next]_vars => OrderInv'
  BY OrderStep
<1> QED BY <1>1, InitOrder, TypesInvariance, LifeInvariance, PathInvariance, PTL DEF Spec
=============================================================================
