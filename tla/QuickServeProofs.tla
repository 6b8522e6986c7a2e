-------------------------- MODULE QuickServeProofs --------------------------
(***************************************************************************)
(* Proofs about the composed system of QuickServe.tla, for any requests,   *)
(* prompts, queue capacities and policies, whatever fails.                 *)
(***************************************************************************)
EXTENDS QuickServeInvariants

(* Where run_once is once it has read plan_done.                           *)
AfterSnapshot == {"results", "outputs", "completions", "acks", "fatals",
                  "releases", "retire", "decide"}

(* Where the environment's loop is while it holds a plan.                  *)
Executing == {"items", "output", "completion", "retire", "unwind"}

(* The plan that is out, in the slot or in execution, is the one after the *)
(* last retired; and what plan_done says stays true until the next plan is *)
(* published, since only the scheduler publishes.                          *)
EpochInv ==
  /\ published_epoch \in Nat /\ completed_epoch \in Nat
  /\ plan # NoPlan => env_pc \in Executing
  /\ env_pc \in Executing =>
       /\ plan.epoch = published_epoch /\ published_epoch = completed_epoch + 1
       /\ published = NoPlan
  /\ published # NoPlan =>
       published.epoch = published_epoch /\ published_epoch = completed_epoch + 1
  /\ published_epoch \in {completed_epoch, completed_epoch + 1}
  /\ run_pc \in AfterSnapshot /\ plan_done => completed_epoch >= published_epoch

epochVars == <<published, completed_epoch, plan, published_epoch>>
-----------------------------------------------------------------------------
(* The steps of the scheduler between the snapshot and the decision.       *)
LEMMA SchedulerKeeps ==
  ASSUME EpochInv, UNCHANGED <<epochVars, env_pc, plan_done>>,
         run_pc' \in AfterSnapshot => run_pc \in AfterSnapshot
  PROVE  EpochInv'
BY DEF EpochInv, epochVars

(* The scheduler keeps the epochs in step.                                 *)
LEMMA SchedulerStepKeeps ==
  ASSUME EpochInv, SchedulerThread
  PROVE  EpochInv'
<1>0. UNCHANGED <<plan, env_pc>>
  BY DEF SchedulerThread, environmentVars, workVars
<1> USE DEF AfterSnapshot
<1>1. ASSUME NEW r \in Requests, Submit(r) PROVE EpochInv'
  BY <1>0, <1>1, SchedulerKeeps DEF Submit, handoffVars, planVars, epochVars
<1>2. CASE RequestStop
  BY <1>0, <1>2, SchedulerKeeps DEF RequestStop, handoffVars, planVars, epochVars
<1>3. CASE StopEnvironment
  BY <1>0, <1>3, SchedulerKeeps DEF StopEnvironment, planVars, epochVars
<1>4. CASE BeginIteration
  BY <1>0, <1>4, SchedulerKeeps DEF BeginIteration, handoffVars, planVars, epochVars
<1>5. CASE FlushAdmission
  BY <1>0, <1>5, SchedulerKeeps DEF FlushAdmission, planVars, epochVars
<1>6. CASE FlushDone
  BY <1>0, <1>6, SchedulerKeeps DEF FlushDone, handoffVars, planVars, epochVars
<1>7. CASE SnapshotEpoch
  BY <1>0, <1>7 DEF SnapshotEpoch, EpochInv, handoffVars, planVars
<1>8. CASE TakeAdmissionResult
  BY <1>0, <1>8, SchedulerKeeps DEF TakeAdmissionResult, planVars, epochVars
<1>9. CASE TakeOutput
  BY <1>0, <1>9, SchedulerKeeps DEF TakeOutput, planVars, epochVars
<1>10. CASE TakeCompletion
  BY <1>0, <1>10, SchedulerKeeps DEF TakeCompletion, planVars, epochVars
<1>11. CASE TakeReleaseAck
  BY <1>0, <1>11, SchedulerKeeps DEF TakeReleaseAck, planVars, epochVars
<1>12. CASE TakeFatal
  BY <1>0, <1>12, SchedulerKeeps DEF TakeFatal, epochVars
<1>13. CASE DrainDone
  BY <1>0, <1>13, SchedulerKeeps DEF DrainDone, handoffVars, planVars, epochVars
<1>14. CASE TryRelease
  BY <1>0, <1>14, SchedulerKeeps DEF TryRelease, planVars, epochVars
<1>15. CASE ReleasesDone
  BY <1>0, <1>15, SchedulerKeeps DEF ReleasesDone, handoffVars, planVars, epochVars
<1>16. CASE RetireTerminal
  BY <1>0, <1>16, SchedulerKeeps DEF RetireTerminal, handoffVars, planVars, epochVars
<1>17. CASE ObserverFails
  BY <1>0, <1>17, SchedulerKeeps DEF ObserverFails, handoffVars, planVars, epochVars
<1>18. CASE ObserveBatch
  BY <1>0, <1>18, SchedulerKeeps DEF ObserveBatch, handoffVars, epochVars
<1>19. CASE FinishRun \/ KeepRunning \/ WaitForRelease
  BY <1>0, <1>19, SchedulerKeeps
  DEF FinishRun, KeepRunning, WaitForRelease, handoffVars, planVars, epochVars
<1>20. CASE RejectPlan \/ NoWork \/ BuildThrows
  BY <1>0, <1>20, SchedulerKeeps
  DEF RejectPlan, NoWork, BuildThrows, handoffVars, planVars, epochVars
<1>21. CASE PublishPlan
  <2>1. completed_epoch >= published_epoch
    BY <1>21 DEF PublishPlan, MaySchedule, EpochInv
  <2>2. published_epoch = completed_epoch BY <2>1, SMT DEF EpochInv
  <2>3. env_pc \notin Executing /\ plan = NoPlan BY <2>2, SMT DEF EpochInv
  <2>4. PICK w : published' = [epoch |-> published_epoch + 1, work |-> w]
    BY <1>21 DEF PublishPlan
  <2>5. /\ published_epoch' = published_epoch + 1 /\ run_pc' = "outside"
        /\ completed_epoch' = completed_epoch
    BY <1>21 DEF PublishPlan
  <2> QED BY <1>0, <2>2, <2>3, <2>4, <2>5, SMT DEF EpochInv
<1> QED
  BY <1>1, <1>2, <1>3, <1>4, <1>5, <1>6, <1>7, <1>8, <1>9, <1>10, <1>11, <1>12,
     <1>13, <1>14, <1>15, <1>16, <1>17, <1>18, <1>19, <1>20, <1>21
  DEF SchedulerThread, SchedulerNext, SchedulerStep

(* A step of the environment that neither takes nor retires a plan.        *)
LEMMA EnvironmentKeeps ==
  ASSUME EpochInv, UNCHANGED <<epochVars, run_pc, plan_done>>,
         env_pc' \in Executing <=> env_pc \in Executing
  PROVE  EpochInv'
BY DEF EpochInv, epochVars

(* So does the environment.                                                *)
LEMMA EnvironmentStepKeeps ==
  ASSUME EpochInv, EnvironmentThread
  PROVE  EpochInv'
<1>0. UNCHANGED <<run_pc, plan_done, published_epoch>>
  BY DEF EnvironmentThread, schedulerVars, planVars
<1> USE DEF Executing
<1>1. CASE BeginTurn \/ ReleasesTaken \/ AdmissionsTaken \/ SkipPlan \/ PlanExecuted
  BY <1>0, <1>1, EnvironmentKeeps
  DEF BeginTurn, ReleasesTaken, AdmissionsTaken, SkipPlan, PlanExecuted,
      handoffVars, workVars, epochVars
<1>2. CASE TakeRelease \/ AcknowledgeRelease
  BY <1>0, <1>2, EnvironmentKeeps
  DEF TakeRelease, AcknowledgeRelease, workVars, epochVars
<1>3. ASSUME NEW p, Resolve(p) PROVE env_pc' \notin Executing
  BY <1>3 DEF Resolve, Reject, ValidationThrows, Hold, SamplerFails, Accept,
              RestoreBreaks, AcceptThrows, Assign, Report
<1>4. CASE TakeAdmission \/ ResumeAdmission
  BY <1>0, <1>3, <1>4, EnvironmentKeeps
  DEF TakeAdmission, ResumeAdmission, workVars, epochVars
<1>5. CASE ReportAdmission
  BY <1>0, <1>5, EnvironmentKeeps DEF ReportAdmission, workVars, epochVars
<1>6. CASE ConsumePlan
  <2>1. /\ plan' = published /\ published # NoPlan /\ published' = NoPlan
        /\ env_pc' \in {"retire", "items"}
        /\ completed_epoch' = completed_epoch
    BY <1>6 DEF ConsumePlan
  <2> QED BY <1>0, <2>1 DEF EpochInv
<1>7. CASE AdvancePrefill \/ SampleToken \/ SamplingFails \/ RememberThrows
  BY <1>0, <1>7, EnvironmentKeeps
  DEF AdvancePrefill, SampleToken, SamplingFails, RememberThrows,
      executionUnchanged, epochVars
<1>8. CASE ReportOutput \/ ReportCompletion
  BY <1>0, <1>8, EnvironmentKeeps DEF ReportOutput, ReportCompletion, epochVars
<1>9. CASE RetirePlan
  <2>1. /\ env_pc \in Executing /\ completed_epoch' = plan.epoch
        /\ plan' = NoPlan /\ env_pc' \in {"catch", "top"}
        /\ published' = published
    BY <1>9 DEF RetirePlan
  <2>2. completed_epoch' = published_epoch /\ published = NoPlan
    BY <2>1 DEF EpochInv
  <2> QED BY <1>0, <2>1, <2>2, SMT DEF EpochInv
<1>10. CASE Catch
  BY <1>0, <1>10, EnvironmentKeeps DEF Catch, workVars, epochVars
<1> QED
  BY <1>1, <1>2, <1>4, <1>5, <1>6, <1>7, <1>8, <1>9, <1>10
  DEF EnvironmentThread, EnvironmentNext
-----------------------------------------------------------------------------
(* The epochs are in step all along.                                       *)
LEMMA EpochInvariance == Spec => []EpochInv
<1>1. Init => EpochInv
  BY SMT DEF Init, HandoffInit, SchedulerInit, EnvironmentInit, EpochInv,
         AfterSnapshot, Executing
<1>2. EpochInv /\ [Next]_vars => EpochInv'
  <2> SUFFICES ASSUME EpochInv, [Next]_vars PROVE EpochInv'
    OBVIOUS
  <2>1. CASE SchedulerThread BY <2>1, SchedulerStepKeeps
  <2>2. CASE EnvironmentThread BY <2>2, EnvironmentStepKeeps
  <2>3. CASE UNCHANGED vars
    BY <2>3 DEF vars, handoffVars, schedulerVars, environmentVars, workVars,
                planVars, EpochInv
  <2> QED BY <2>1, <2>2, <2>3 DEF Next, Terminated
<1> QED BY <1>1, <1>2, PTL DEF Spec

(* The scheduler publishes a plan only when the environment has retired    *)
(* the one before it (scheduler.cpp:133-136, 166-168; handoff.hpp:31-33).  *)
THEOREM OneEpochIsOutstanding == Spec => []OneEpochOutstanding
<1>1. EpochInv => OneEpochOutstanding
  BY SMT DEF EpochInv, OneEpochOutstanding, Outstanding
<1> QED BY <1>1, EpochInvariance, PTL
-----------------------------------------------------------------------------
(* The sequences of the model, as the stack of free ones and the records   *)
(* have them.                                                              *)
Unique ==
  \A q, r \in Requests :
    Held(q) /\ Held(r) /\ records[q].sequence = records[r].sequence => q = r

Apart == \A r \in Requests : Held(r) => records[r].sequence \notin ToSet(free_sequences)

Accounted ==
  env_fatal \/ \A n \in 0 .. MaxSequences - 1 :
                 n \in ToSet(free_sequences) \/ \E r \in Requests :
                   Held(r) /\ records[r].sequence = n

SequencesInv == Unique /\ Apart /\ IsInjective(free_sequences) /\ Accounted

(* What a failure does: the first one is reported, and every one is known. *)
LEMMA FailureMoves ==
  ASSUME EnvironmentNext
  PROVE  \/ UNCHANGED <<env_fatal, fatals>>
         \/ \E error : FailRun(error)
<1>1. CASE BeginTurn \/ ReleasesTaken \/ AdmissionsTaken \/ SkipPlan \/ PlanExecuted
  BY <1>1 DEF BeginTurn, ReleasesTaken, AdmissionsTaken, SkipPlan, PlanExecuted, handoffVars
<1>2. CASE TakeRelease \/ AcknowledgeRelease \/ ReportAdmission
  BY <1>2 DEF TakeRelease, AcknowledgeRelease, ReportAdmission, NoFailure
<1>3. ASSUME NEW p, Resolve(p)
      PROVE  UNCHANGED <<env_fatal, fatals>> \/ \E error : FailRun(error)
  BY <1>3 DEF Resolve, Reject, ValidationThrows, Hold, SamplerFails, Accept,
              RestoreBreaks, AcceptThrows, Assign, NoFailure
<1>4. CASE TakeAdmission \/ ResumeAdmission
  BY <1>3, <1>4 DEF TakeAdmission, ResumeAdmission
<1>5. CASE ConsumePlan BY <1>5 DEF ConsumePlan, NoFailure
<1>6. CASE AdvancePrefill \/ SampleToken \/ SamplingFails \/ RememberThrows
  BY <1>6 DEF AdvancePrefill, SampleToken, SamplingFails, RememberThrows, NoFailure
<1>7. CASE ReportOutput \/ ReportCompletion \/ RetirePlan \/ Catch
  BY <1>7 DEF ReportOutput, ReportCompletion, RetirePlan, Catch
<1> QED BY <1>1, <1>2, <1>4, <1>5, <1>6, <1>7 DEF EnvironmentNext

(* A request is given the sequence on top of the stack.                    *)
LEMMA ResolveSharesSequences ==
  ASSUME TypeInv, SequencesInv, env_pc = "admissions", env_fatal => env_fatal',
         NEW p \in PendingAdmissions, Resolve(p), ~Held(p.id)
  PROVE  SequencesInv'
<1>1. /\ free_sequences \in Seq(0 .. MaxSequences - 1) /\ p.id \in Requests
      /\ records \in [Requests -> Records \cup {Nothing}]
  BY DEF TypeInv, EnvironmentTypes, PendingAdmissions
<1>2. \/ UNCHANGED <<records, free_sequences>>
      \/ /\ free_sequences # << >> /\ free_sequences' = Front(free_sequences)
         /\ \/ records' = records /\ env_fatal'
            \/ \E new \in Records : /\ new.sequence = Last(free_sequences)
                                    /\ records' = [records EXCEPT ![p.id] = new]
  <2>1. ASSUME result' \in Results, free_sequences # << >>
        PROVE  LET new == [sequence |-> Last(free_sequences),
                           prefill_position |-> result'.cached_prefix_tokens,
                           decoded_tokens |-> 0]
               IN  new \in Records /\ new.sequence = Last(free_sequences)
    BY <2>1, AcceptedRecord
  <2> QED BY <2>1, ResolveMoves
<1>3. CASE UNCHANGED <<records, free_sequences>>
  BY <1>3 DEF SequencesInv, Unique, Apart, Accounted, Held
<1>4. CASE free_sequences # << >> /\ free_sequences' = Front(free_sequences)
  <2> DEFINE top == Last(free_sequences)
  <2>1. /\ ToSet(free_sequences) = ToSet(free_sequences') \cup {top}
        /\ IsInjective(free_sequences') /\ top \notin ToSet(free_sequences')
    BY <1>1, <1>4, TakeLast DEF SequencesInv
  <2> HIDE DEF top
  <2>2. CASE records' = records /\ env_fatal'
    BY <2>1, <2>2 DEF SequencesInv, Unique, Apart, Accounted, Held
  <2>3. ASSUME NEW new \in Records, new.sequence = top,
               records' = [records EXCEPT ![p.id] = new]
        PROVE  SequencesInv'
    <3>1. /\ \A q \in Requests : q # p.id => records'[q] = records[q]
          /\ records'[p.id] = new /\ new # Nothing
      BY <1>1, <2>3, NothingElse
    <3>2. Unique' BY <2>1, <2>3, <3>1 DEF SequencesInv, Unique, Apart, Held
    <3>3. Apart' BY <2>1, <2>3, <3>1 DEF SequencesInv, Apart, Held
    <3>4. Accounted'
      <4> SUFFICES ASSUME ~env_fatal', NEW n \in 0 .. MaxSequences - 1,
                          n \notin ToSet(free_sequences')
                   PROVE  \E r \in Requests : Held(r)' /\ records'[r].sequence = n
        BY DEF Accounted
      <4>1. CASE n = top BY <1>1, <2>3, <3>1, <4>1 DEF Held
      <4>2. CASE n # top
        <5>1. PICK r \in Requests : Held(r) /\ records[r].sequence = n
          BY <2>1, <4>2 DEF SequencesInv, Accounted
        <5> QED BY <3>1, <5>1 DEF Held
      <4> QED BY <4>1, <4>2
    <3> QED BY <2>1, <3>2, <3>3, <3>4 DEF SequencesInv
  <2> QED BY <1>2, <1>4, <2>2, <2>3 DEF top, SequencesInv, Unique, Apart, Accounted, Held
<1> QED BY <1>2, <1>3, <1>4

(* A release puts the sequence back, unless the model fails to clear it.   *)
LEMMA ReleaseReturnsSequence ==
  ASSUME TypeInv, PathInv, SequencesInv, env_fatal => env_fatal', TakeRelease
  PROVE  SequencesInv'
<1> DEFINE r == Head(releases)
           freed == records[r].sequence
<1>1. releases # << >> /\ releases \in Seq(Requests)
  BY DEF TakeRelease, TypeInv, ChannelTypes
<1>2. r \in ToSet(releases) /\ r \in Requests
  <2>1. r \in ToSet(releases) BY <1>1, TailSubset
  <2> QED BY <2>1, PathMembers
<1>3. Held(r) BY <1>2 DEF PathInv, ReleaseInv
<1>4. /\ free_sequences \in Seq(0 .. MaxSequences - 1)
      /\ records \in [Requests -> Records \cup {Nothing}]
  BY DEF TypeInv, EnvironmentTypes
<1>5. /\ records' = [records EXCEPT ![r] = Nothing]
      /\ \/ free_sequences' = Append(free_sequences, freed)
         \/ free_sequences' = free_sequences /\ env_fatal'
  BY <1>3 DEF TakeRelease, FailRun
<1> HIDE DEF r, freed
<1>6. /\ \A q \in Requests : q # r => records'[q] = records[q]
      /\ records'[r] = Nothing
  BY <1>2, <1>4, <1>5
<1>7. CASE free_sequences' = free_sequences /\ env_fatal'
  BY <1>6, <1>7 DEF SequencesInv, Unique, Apart, Accounted, Held
<1>8. CASE free_sequences' = Append(free_sequences, freed)
  <2>1. freed \notin ToSet(free_sequences)
    BY <1>2, <1>3 DEF SequencesInv, Apart, freed
  <2>2. /\ ToSet(free_sequences') = ToSet(free_sequences) \cup {freed}
        /\ IsInjective(free_sequences')
    BY <1>4, <1>8, <2>1, ToSetAppend DEF SequencesInv
  <2>3. Unique' BY <1>6 DEF SequencesInv, Unique, Held
  <2>4. Apart'
    BY <1>2, <1>3, <1>6, <2>2 DEF SequencesInv, Apart, Unique, Held, freed
  <2>5. Accounted'
    <3> SUFFICES ASSUME ~env_fatal', NEW n \in 0 .. MaxSequences - 1,
                        n \notin ToSet(free_sequences')
                 PROVE  \E q \in Requests : Held(q)' /\ records'[q].sequence = n
      BY DEF Accounted
    <3>1. PICK q \in Requests : Held(q) /\ records[q].sequence = n
      BY <2>2 DEF SequencesInv, Accounted
    <3>2. q # r BY <2>2, <3>1 DEF freed
    <3> QED BY <1>6, <3>1, <3>2 DEF Held
  <2> QED BY <2>2, <2>3, <2>4, <2>5 DEF SequencesInv
<1> QED BY <1>5, <1>7, <1>8

(* At the start every sequence is free.                                    *)
LEMMA InitSequences == Init => SequencesInv
<1> SUFFICES ASSUME Init PROVE SequencesInv
  OBVIOUS
<1>1. /\ MaxSequences \in Nat
      /\ free_sequences = [i \in 1 .. MaxSequences |-> MaxSequences - i]
      /\ \A r \in Requests : ~Held(r)
  BY EnvironmentAssumption DEF Init, EnvironmentInit, Held
<1>2. \A n \in 0 .. MaxSequences - 1 : /\ MaxSequences - n \in 1 .. MaxSequences
                                       /\ free_sequences[MaxSequences - n] = n
  BY <1>1, SMT
<1>3. \A n \in 0 .. MaxSequences - 1 : n \in ToSet(free_sequences)
  <2>1. DOMAIN free_sequences = 1 .. MaxSequences BY <1>1
  <2> QED BY <1>2, <2>1 DEF ToSet
<1>4. IsInjective(free_sequences) BY <1>1, SMT DEF IsInjective
<1> QED BY <1>1, <1>3, <1>4 DEF SequencesInv, Unique, Apart, Accounted

(* A sequence of the model is never given to two requests, never freed     *)
(* while a request has it, and never lost without a fatal error, so that   *)
(* no request can read another's context (environment.cpp:282-302,         *)
(* 371-406).                                                               *)
THEOREM SequencesAreExclusive == Spec => []SequencesExclusive
<1>1. Init => SequencesInv BY InitSequences
<1>2. TypeInv /\ PathInv /\ SequencesInv /\ [Next]_vars => SequencesInv'
  <2> SUFFICES ASSUME TypeInv, PathInv, SequencesInv, [Next]_vars PROVE SequencesInv'
    OBVIOUS
  <2>1. CASE UNCHANGED environmentVars
    BY <2>1 DEF environmentVars, SequencesInv, Unique, Apart, Accounted, Held
  <2>2. CASE EnvironmentThread
    <3>1. env_fatal => env_fatal'
      <4>1. UNCHANGED <<env_fatal, fatals>> \/ \E error : FailRun(error)
        BY <2>2, FailureMoves DEF EnvironmentThread
      <4> QED BY <4>1, Zenon DEF FailRun
    <3>2. CASE EnvironmentIdles \/ AcknowledgeRelease \/ ReportAdmission
      <4>1. /\ \A r \in Requests : SameRecord(records[r], records'[r])
            /\ free_sequences' = free_sequences
        BY <3>2 DEF EnvironmentIdles, SameRecord, AcknowledgeRelease, ReportAdmission
      <4> QED BY <3>1, <4>1
          DEF SequencesInv, Unique, Apart, Accounted, Held, SameRecord
    <3>3. CASE TakeRelease BY <3>1, <3>3, ReleaseReturnsSequence
    <3>4. CASE TakeAdmission
      <4> DEFINE r == Head(admissions)
                 p == [id |-> r, validated |-> FALSE]
      <4>1. /\ env_pc = "admissions" /\ admissions # << >> /\ Resolve(p)
            /\ admissions \in Seq(Requests)
        BY <3>4 DEF TakeAdmission, TypeInv, ChannelTypes
      <4>2. r \in ToSet(admissions) BY <4>1, TailSubset
      <4>3. r \in Requests /\ ~Held(r)
        BY <4>2, PathMembers DEF PathInv, AdmissionInv
      <4>4. p \in PendingAdmissions /\ p.id = r BY <4>3 DEF PendingAdmissions
      <4> HIDE DEF p, r
      <4> QED BY <3>1, <4>1, <4>3, <4>4, ResolveSharesSequences
    <3>5. CASE ResumeAdmission
      <4>1. /\ env_pc = "admissions" /\ pending_admission # Nothing
            /\ Resolve(pending_admission) /\ pending_admission \in PendingAdmissions
        BY <3>5 DEF ResumeAdmission, TypeInv, EnvironmentTypes
      <4>2. ~Held(pending_admission.id) BY <4>1 DEF PathInv, AdmissionInv
      <4> QED BY <3>1, <4>1, <4>2, ResolveSharesSequences
    <3> QED BY <2>2, <3>2, <3>3, <3>4, <3>5, EnvironmentMoves DEF EnvironmentThread
  <2> QED BY <2>1, <2>2 DEF Next, SchedulerThread, Terminated, vars
<1>3. TypeInv /\ SequencesInv => SequencesExclusive
  <2> SUFFICES ASSUME TypeInv, SequencesInv PROVE SequencesExclusive
    OBVIOUS
  <2>1. \A r \in Requests : Held(r) => records[r].sequence \in 0 .. MaxSequences - 1
    BY DEF TypeInv, EnvironmentTypes, Records, Held
  <2>2. ToSet(free_sequences) \subseteq 0 .. MaxSequences - 1
    <3>1. free_sequences \in Seq(0 .. MaxSequences - 1)
      BY DEF TypeInv, EnvironmentTypes
    <3>2. \A i \in DOMAIN free_sequences : free_sequences[i] \in 0 .. MaxSequences - 1
      BY <3>1, LenProperties
    <3> QED BY <3>2, Zenon DEF ToSet
  <2> QED BY <2>1, <2>2 DEF SequencesInv, Unique, Apart, Accounted, SequencesExclusive
<1> QED BY <1>1, <1>2, <1>3, TypesInvariance, PathInvariance, PTL DEF Spec
-----------------------------------------------------------------------------
(* What a step may do to a channel: nothing, take the oldest message, or   *)
(* add one if there is room.                                               *)
Exchange(old, new) ==
  \/ new = old
  \/ old # << >> /\ new = Tail(old)
  \/ HasRoom(old) /\ \E x : new = Append(old, x)

Exchanged ==
  /\ Exchange(admissions, admissions') /\ Exchange(releases, releases')
  /\ Exchange(admission_results, admission_results')
  /\ Exchange(completions, completions') /\ Exchange(outputs, outputs')
  /\ Exchange(release_acks, release_acks')

(* Every step of the scheduler takes or adds one message at most,          *)
LEMMA SchedulerExchanges ==
  ASSUME SchedulerNext
  PROVE  /\ Exchanged
         /\ fatals' = fatals \/ (fatals # << >> /\ fatals' = Tail(fatals))
<1> USE DEF Exchanged, Exchange
<1>1. ASSUME UNCHANGED handoffVars
      PROVE  Exchanged /\ fatals' = fatals
  BY <1>1 DEF handoffVars
<1>2. CASE \/ RequestStop \/ \E r \in Requests : Submit(r)
           \/ BeginIteration \/ FlushDone \/ SnapshotEpoch
           \/ DrainDone \/ ReleasesDone \/ RetireTerminal \/ ObserverFails
           \/ ObserveBatch \/ FinishRun \/ KeepRunning \/ RejectPlan
           \/ WaitForRelease \/ NoWork \/ BuildThrows
  <2>1. UNCHANGED handoffVars
    BY <1>2 DEF RequestStop, Submit, BeginIteration, FlushDone, SnapshotEpoch,
       DrainDone, ReleasesDone, RetireTerminal, ObserverFails, ObserveBatch, FinishRun,
       KeepRunning, RejectPlan, WaitForRelease, NoWork, BuildThrows
  <2> QED BY <1>1, <2>1
<1>3. CASE StopEnvironment BY <1>3 DEF StopEnvironment
<1>4. CASE FlushAdmission BY <1>4 DEF FlushAdmission
<1>5. CASE TakeAdmissionResult BY <1>5 DEF TakeAdmissionResult
<1>6. CASE TakeOutput BY <1>6 DEF TakeOutput
<1>7. CASE TakeCompletion BY <1>7 DEF TakeCompletion
<1>8. CASE TakeReleaseAck BY <1>8 DEF TakeReleaseAck
<1>9. CASE TakeFatal BY <1>9 DEF TakeFatal
<1>10. CASE TryRelease BY <1>10 DEF TryRelease
<1>11. CASE PublishPlan BY <1>11 DEF PublishPlan
<1> QED
  BY <1>2, <1>3, <1>4, <1>5, <1>6, <1>7, <1>8, <1>9, <1>10, <1>11
  DEF SchedulerNext, SchedulerStep

(* so does every step of the environment,                                  *)
LEMMA EnvironmentExchanges ==
  ASSUME EnvironmentNext
  PROVE  Exchanged
<1> USE DEF Exchanged, Exchange
<1>1. CASE BeginTurn \/ ReleasesTaken \/ AdmissionsTaken \/ SkipPlan \/ PlanExecuted
  BY <1>1 DEF BeginTurn, ReleasesTaken, AdmissionsTaken, SkipPlan, PlanExecuted, handoffVars
<1>2. CASE TakeRelease BY <1>2 DEF TakeRelease
<1>3. CASE AcknowledgeRelease BY <1>3 DEF AcknowledgeRelease
<1>4. CASE TakeAdmission BY <1>4 DEF TakeAdmission
<1>5. CASE ResumeAdmission BY <1>5 DEF ResumeAdmission
<1>6. CASE ReportAdmission BY <1>6 DEF ReportAdmission
<1>7. CASE ConsumePlan BY <1>7 DEF ConsumePlan
<1>8. CASE AdvancePrefill \/ SampleToken \/ SamplingFails \/ RememberThrows
  BY <1>8 DEF AdvancePrefill, SampleToken, SamplingFails, RememberThrows, executionUnchanged
<1>9. CASE ReportOutput BY <1>9 DEF ReportOutput
<1>10. CASE ReportCompletion BY <1>10 DEF ReportCompletion
<1>11. CASE RetirePlan \/ Catch BY <1>11 DEF RetirePlan, Catch
<1> QED
  BY <1>1, <1>2, <1>3, <1>4, <1>5, <1>6, <1>7, <1>8, <1>9, <1>10, <1>11
  DEF EnvironmentNext

(* and finds room for it first.                                            *)
LEMMA ExchangeFits ==
  ASSUME NEW S, NEW old \in Seq(S), NEW new, Exchange(old, new),
         Len(old) <= QueueCapacity
  PROVE  Len(new) <= QueueCapacity
<1>1. Len(old) \in Nat /\ QueueCapacity \in Nat
  BY HandoffAssumption, LenProperties
<1>2. ASSUME old # << >>, new = Tail(old) PROVE Len(new) <= QueueCapacity
  BY <1>1, <1>2, HeadTailProperties, SMT
<1>3. ASSUME HasRoom(old), NEW x, new = Append(old, x) PROVE Len(new) <= QueueCapacity
  BY <1>1, <1>3, SMT DEF HasRoom
<1> QED BY <1>2, <1>3 DEF Exchange

(* fail_run reports the first failure only, so the fatal channel never     *)
(* holds more than one message.                                            *)
FatalInv == Len(fatals) <= 1 /\ (~env_fatal => fatals = << >>)

BoundedInv == Bounded /\ FatalInv

(* Every step keeps the channels within their bounds.                      *)
LEMMA BoundedStep ==
  ASSUME TypeInv, TypeInv', BoundedInv, [Next]_vars
  PROVE  BoundedInv'
<1>1. /\ admissions \in Seq(Requests) /\ releases \in Seq(Requests)
      /\ admission_results \in Seq(Results) /\ completions \in Seq(Completions)
      /\ outputs \in Seq(Requests) /\ release_acks \in Seq(Requests)
      /\ fatals \in Seq(Errors \ {"None"}) /\ env_fatal \in BOOLEAN
  BY DEF TypeInv, ChannelTypes, EnvironmentTypes
<1>2. Exchanged
  <2>1. CASE SchedulerThread BY <2>1, SchedulerExchanges DEF SchedulerThread
  <2>2. CASE EnvironmentThread BY <2>2, EnvironmentExchanges DEF EnvironmentThread
  <2>3. CASE UNCHANGED vars BY <2>3 DEF vars, handoffVars, Exchanged, Exchange
  <2> QED BY <2>1, <2>2, <2>3 DEF Next, Terminated
<1>3. FatalInv'
  <2>1. CASE SchedulerThread
    <3>1. env_fatal' = env_fatal BY <2>1 DEF SchedulerThread, environmentVars
    <3>2. CASE fatals' = fatals BY <3>1, <3>2 DEF BoundedInv, FatalInv
    <3>3. CASE fatals # << >> /\ fatals' = Tail(fatals)
      <4>1. Len(fatals') = Len(fatals) - 1 /\ Len(fatals) \in Nat
        BY <1>1, <3>3, HeadTailProperties, LenProperties
      <4> QED BY <3>1, <3>3, <4>1, SMT DEF BoundedInv, FatalInv
    <3> QED BY <2>1, <3>2, <3>3, SchedulerExchanges DEF SchedulerThread
  <2>2. CASE EnvironmentThread
    <3>1. CASE UNCHANGED <<env_fatal, fatals>>
      BY <3>1 DEF BoundedInv, FatalInv
    <3>2. ASSUME NEW error, FailRun(error) PROVE FatalInv'
      <4>1. env_fatal' BY <3>2, Zenon DEF FailRun
      <4>2. CASE env_fatal
        <5>1. fatals' = fatals BY <3>2, <4>2, Zenon DEF FailRun
        <5> QED BY <4>1, <5>1 DEF BoundedInv, FatalInv
      <4>3. CASE ~env_fatal
        <5>1. fatals = << >> BY <4>3 DEF BoundedInv, FatalInv
        <5>2. fatals' = Append(<< >>, error) BY <3>2, <4>3, <5>1, Zenon DEF FailRun
        <5>3. Len(Append(<< >>, error)) = 1 BY SMT
        <5>4. Len(fatals') = 1 BY <5>2, <5>3, Zenon
        <5> QED BY <4>1, <5>4, SMT DEF FatalInv
      <4> QED BY <4>2, <4>3
    <3> QED BY <2>2, <3>1, <3>2, FailureMoves DEF EnvironmentThread
  <2>3. CASE UNCHANGED vars
    BY <2>3 DEF vars, handoffVars, environmentVars, BoundedInv, FatalInv
  <2> QED BY <2>1, <2>2, <2>3 DEF Next, Terminated
<1>4. Len(fatals') <= QueueCapacity
  <2>1. /\ Len(fatals') <= 1 /\ QueueCapacity \in Nat /\ QueueCapacity >= 2
        /\ Len(fatals) \in Nat
    BY <1>1, <1>3, HandoffAssumption, LenProperties DEF FatalInv
  <2>2. Len(fatals') \in Nat BY LenProperties DEF TypeInv, ChannelTypes
  <2> QED BY <2>1, <2>2, SMT
<1>5. /\ Len(admissions') <= QueueCapacity /\ Len(releases') <= QueueCapacity
      /\ Len(admission_results') <= QueueCapacity
      /\ Len(completions') <= QueueCapacity
      /\ Len(outputs') <= QueueCapacity /\ Len(release_acks') <= QueueCapacity
  BY <1>1, <1>2, ExchangeFits DEF Exchanged, BoundedInv, Bounded
<1> QED BY <1>3, <1>4, <1>5 DEF BoundedInv, Bounded

(* Every variable keeps its type, no channel outgrows its ring (fail_run   *)
(* finds room without waiting, since it reports one failure only,          *)
(* environment.cpp:250-257), and the workload counters never go below zero.*)
THEOREM TypeCorrectness == Spec => []TypeOK
<1>1. Init => BoundedInv
  <2>1. Len(<< >>) = 0 BY EmptySeq
  <2> QED BY <2>1, HandoffAssumption, SMT
      DEF Init, HandoffInit, BoundedInv, Bounded, FatalInv
<1>2. TypeInv /\ TypeInv' /\ BoundedInv /\ [Next]_vars => BoundedInv' BY BoundedStep
<1>3. TypeInv /\ LifeInv /\ CountsExact /\ BoundedInv => TypeOK
  <2> SUFFICES ASSUME TypeInv, LifeInv, CountsExact, BoundedInv PROVE TypeOK
    OBVIOUS
  <2>1. active \in Nat /\ queued \in Nat
    BY CountedAreLive DEF CountsExact, Waiting, Occupying
  <2>2. SchedulerTypeOK
    BY <2>1 DEF TypeInv, SchedulerTypes, SchedulerTypeOK, RequestStates
  <2>3. EnvironmentTypeOK
    BY DEF TypeInv, EnvironmentTypes, EnvironmentTypeOK, Held, Records
  <2> QED BY <2>2, <2>3 DEF TypeOK, BoundedInv
<1> QED
  BY <1>1, <1>2, <1>3, TypesInvariance, LifeInvariance, CountsAreExact, PTL DEF Spec
-----------------------------------------------------------------------------
(* What a step of the scheduler keeps of a request, unless it takes an     *)
(* answer of the environment.                                              *)
Scheduled == {"Prefill", "Decode"}

Ended == {"PendingRelease", "Terminal"}

Kept(r) ==
  LET old == request[r]
      new == request'[r]
  IN  /\ new.prompt_length = old.prompt_length /\ SameProgress(old, new)
      /\ new.admission = "EnvironmentOwned" => old.admission = "EnvironmentOwned"
      /\ new.stage \in Scheduled => old.stage \in Scheduled
      /\ old.start_recorded => new.start_recorded
      /\ old.stage \in Scheduled =>
           \/ new.stage = old.stage
           \/ draining' /\ new.stage = "PendingRelease" /\ new.terminal_error # "None"
      /\ new.stage \in Ended => old.stage \in Ended \/ new.terminal_error # "None"
      /\ TakeOutput \/ new.pieces = old.pieces

(* A drain keeps what the requests have got.                               *)
LEMMA DrainsKeep ==
  ASSUME TypeInv, LifeInv, NEW error \in Errors \ {"None"}, NEW ready,
         EnterDraining(error, ready)
  PROVE  \A r \in Requests : Kept(r)
<1>1. request \in [Requests -> RequestStates] BY DEF TypeInv, SchedulerTypes
<1>2. CASE draining
  BY <1>2 DEF EnterDraining, Kept, SameProgress
<1>3. CASE ~draining
  <2> SUFFICES ASSUME NEW r \in Requests PROVE Kept(r)
    OBVIOUS
  <2> DEFINE q == request[r]
             new == Drained(q, error)
  <2>1. draining' /\ request'[r] = IF Known(r) THEN new ELSE q
    BY <1>1, <1>3 DEF EnterDraining
  <2>2. q \in RequestStates /\ Coherent(q) BY <1>1 DEF LifeInv, CoherentInv
  <2>3. q.admission \in Ownerships /\ q.terminal_error \in Errors BY <2>2 DEF RequestStates
  <2>4. /\ Same(q, new) /\ SameProgress(q, new)
        /\ q.stage = "Terminal" => new = q
        /\ q.stage # "Terminal" =>
             /\ new.terminal_error = FirstError(q.terminal_error, error)
             /\ q.admission = "NotSent" => new.stage = "Terminal" /\ new.admission = "NotSent"
             /\ q.admission = "InFlight" => new.stage = q.stage /\ new.admission = "InFlight"
             /\ q.admission = "EnvironmentOwned" =>
                  new.stage = "PendingRelease" /\ new.admission = "EnvironmentOwned"
    BY <2>2, DrainedFields
  <2>5. FirstError(q.terminal_error, error) # "None" BY DEF FirstError
  <2> HIDE DEF new, q
  <2>6. q.stage \in Scheduled => q.admission = "EnvironmentOwned" /\ q.stage # "Terminal"
    BY <2>2 DEF Coherent, Scheduled
  <2>7. request'[r] = new => Kept(r)
    BY <2>1, <2>3, <2>4, <2>5, <2>6 DEF Kept, Same, Ownerships, Scheduled, Ended, q
  <2>8. request'[r] = q => Kept(r) BY DEF Kept, SameProgress, q
  <2> QED BY <2>1, <2>7, <2>8
<1> QED BY <1>2, <1>3

(* One field of one request is written, which is not about its progress.   *)
LEMMA FieldKept ==
  ASSUME TypeInv, NEW r \in Requests, NEW new,
         \/ TakeOutput /\ \E v \in Nat : new = [request[r] EXCEPT !.pieces = v]
         \/ new = [request[r] EXCEPT !.release_sent = TRUE]
         \/ new = [request[r] EXCEPT !.admission = "InFlight"]
         \/ new = [request[r] EXCEPT !.start_recorded = TRUE]
         \/ /\ request[r].stage = "PendingRelease"
            /\ new = ToTerminal(request[r], request[r].terminal_error),
         request' = [request EXCEPT ![r] = new]
  PROVE  \A x \in Requests : Kept(x)
<1> DEFINE q == request[r]
<1>1. request \in [Requests -> RequestStates] /\ q \in RequestStates
  BY DEF TypeInv, SchedulerTypes
<1>2. /\ new.prompt_length = q.prompt_length /\ SameProgress(q, new)
      /\ new.admission = "EnvironmentOwned" => q.admission = "EnvironmentOwned"
      /\ q.start_recorded => new.start_recorded
      /\ new.stage = q.stage \/ (q.stage = "PendingRelease" /\ new.stage = "Terminal")
      /\ TakeOutput \/ new.pieces = q.pieces
  <2>1. CASE TakeOutput /\ \E v \in Nat : new = [q EXCEPT !.pieces = v]
    BY <1>1, <2>1, SMT DEF RequestStates, SameProgress
  <2>2. CASE \/ new = [q EXCEPT !.release_sent = TRUE]
             \/ new = [q EXCEPT !.admission = "InFlight"]
             \/ new = [q EXCEPT !.start_recorded = TRUE]
    BY <1>1, <2>2, SMT DEF RequestStates, SameProgress
  <2>3. CASE q.stage = "PendingRelease" /\ new = ToTerminal(q, q.terminal_error)
    <3>1. q.terminal_error \in Errors BY <1>1 DEF RequestStates
    <3> QED BY <1>1, <2>3, <3>1, TerminalFields DEF Same
  <2> QED BY <2>1, <2>2, <2>3
<1>3. request'[r] = new /\ \A x \in Requests : x # r => request'[x] = request[x]
  BY <1>1
<1> HIDE DEF q
<1>4. Kept(r) BY <1>2, <1>3 DEF Kept, q, Scheduled, Ended
<1>5. \A x \in Requests : x # r => Kept(x) BY <1>3 DEF Kept, SameProgress
<1> QED BY <1>4, <1>5

(* Every handler keeps what it should, except the two that take answers.   *)
LEMMA KeptMoves ==
  ASSUME TypeInv, LifeInv, SchedulerNext
  PROVE  TakeCompletion \/ TakeAdmissionResult \/ \A r \in Requests : Kept(r)
<1>0. /\ request \in [Requests -> RequestStates]
      /\ "EnvironmentStopped" \in Errors \ {"None"} /\ "ProtocolViolation" \in Errors \ {"None"}
  BY DEF TypeInv, SchedulerTypes, Errors
<1>1. ASSUME UNCHANGED request PROVE \A r \in Requests : Kept(r)
  BY <1>1 DEF Kept, SameProgress
<1>2. CASE TakeOutput
  <2> DEFINE r == Head(outputs)
             q == request[r]
  <2>1. r \in Requests
    BY <1>2, HeadTailProperties DEF TakeOutput, TypeInv, ChannelTypes
  <2>2. q.pieces + 1 \in Nat
    <3>1. q.pieces \in Nat BY <1>0, <2>1 DEF RequestStates
    <3> QED BY <3>1, SMT
  <2>3. request' = [request EXCEPT ![r] = [q EXCEPT !.pieces = q.pieces + 1]]
        \/ request' = request
    BY <1>2 DEF TakeOutput
  <2> HIDE DEF r
  <2> QED BY <1>1, <1>2, <2>1, <2>2, <2>3, FieldKept
<1>3. ASSUME NEW r \in Requests, Submit(r) PROVE \A x \in Requests : Kept(x)
  <2>1. /\ request[r].stage = "Unsubmitted"
        /\ request' = [request EXCEPT ![r] = Fresh("PendingAdmission")]
    BY <1>3 DEF Submit
  <2>2. request[r] = Fresh("Unsubmitted") BY <2>1 DEF LifeInv, CoherentInv, Coherent
  <2>3. LET old == Fresh("Unsubmitted")
            new == Fresh("PendingAdmission")
        IN  /\ new.prompt_length = old.prompt_length /\ SameProgress(old, new)
            /\ new.admission = "NotSent" /\ ~old.start_recorded
            /\ new.stage = "PendingAdmission" /\ old.stage = "Unsubmitted"
            /\ new.pieces = old.pieces
    BY DEF Fresh, SameProgress
  <2>4. request'[r] = Fresh("PendingAdmission") BY <1>0, <2>1
  <2>5. Kept(r) BY <2>2, <2>3, <2>4 DEF Kept, Scheduled, Ended
  <2>6. \A x \in Requests : x # r => Kept(x) BY <1>0, <2>1 DEF Kept, SameProgress
  <2> QED BY <2>5, <2>6
<1>4. CASE FlushAdmission
  <2> DEFINE r == Head(pending_admissions)
  <2>1. r \in Requests BY <1>4, FlushMoves
  <2>2. request' = [request EXCEPT ![r] = [request[r] EXCEPT !.admission = "InFlight"]]
    BY <1>4 DEF FlushAdmission
  <2> HIDE DEF r
  <2> QED BY <2>1, <2>2, FieldKept
<1>5. CASE TryRelease
  <2> DEFINE r == Head(sweep)
  <2>1. r \in Requests BY <1>5, ReleaseMoves
  <2>2. request' = [request EXCEPT ![r] = [request[r] EXCEPT !.release_sent = TRUE]]
        \/ request' = request
    BY <1>5 DEF TryRelease
  <2> HIDE DEF r
  <2> QED BY <1>1, <2>1, <2>2, FieldKept
<1>6. CASE TakeReleaseAck
  <2> DEFINE r == Head(release_acks)
             q == request[r]
  <2>1. r \in Requests BY <1>6, AckMoves
  <2>2. \/ request' = request
        \/ /\ q.stage = "PendingRelease"
           /\ request' = [request EXCEPT ![r] = ToTerminal(q, q.terminal_error)]
    BY <1>6 DEF TakeReleaseAck
  <2> HIDE DEF r
  <2> QED BY <1>1, <2>1, <2>2, FieldKept
<1>7. CASE PublishPlan
  <2>1. \A r \in Requests :
          /\ request'[r].stage = request[r].stage
          /\ request'[r].admission = request[r].admission
          /\ SameProgress(request[r], request'[r])
          /\ request'[r].prompt_length = request[r].prompt_length
          /\ request[r].start_recorded => request'[r].start_recorded
          /\ request'[r].pieces = request[r].pieces
    BY <1>7, PublishMoves
  <2> QED BY <2>1 DEF Kept
<1>8. CASE BeginIteration
  BY <1>0, <1>1, <1>8, DrainsKeep DEF BeginIteration
<1>9. CASE TakeFatal
  <2>1. Head(fatals) \in Errors \ {"None"}
    BY <1>9, HeadTailProperties DEF TakeFatal, TypeInv, ChannelTypes
  <2> QED BY <1>9, <2>1, DrainsKeep DEF TakeFatal
<1>10. CASE ObserverFails \/ RejectPlan \/ NoWork \/ BuildThrows
  BY <1>0, <1>10, DrainsKeep DEF ObserverFails, RejectPlan, NoWork, BuildThrows
<1>11. CASE \/ RequestStop \/ StopEnvironment \/ FlushDone \/ SnapshotEpoch \/ DrainDone
            \/ ReleasesDone \/ RetireTerminal \/ ObserveBatch \/ FinishRun
            \/ KeepRunning \/ WaitForRelease
  BY <1>1, <1>11 DEF RequestStop, StopEnvironment, FlushDone, SnapshotEpoch, DrainDone,
     ReleasesDone, RetireTerminal, ObserveBatch, FinishRun, KeepRunning, WaitForRelease,
     lifecycleVars
<1> QED
  BY <1>2, <1>3, <1>4, <1>5, <1>6, <1>7, <1>8, <1>9, <1>10, <1>11
  DEF SchedulerNext, SchedulerStep

(* What a completion does to the request it is about: it is folded while   *)
(* the scheduler calls the request EnvironmentOwned, and dropped otherwise.*)
LEMMA CompletionMoves ==
  ASSUME TypeInv, LifeInv, TakeCompletion
  PROVE  LET c == Head(completions)
             r == c.id
         IN  /\ c \in Completions /\ r \in Requests /\ Touches(r)
             /\ c \in ToSet(completions) /\ completions' = Tail(completions)
             /\ request[r] \in RequestStates
             /\ request'[r] = IF request[r].admission = "EnvironmentOwned"
                              THEN Folded(request[r], c) ELSE request[r]
             /\ UNCHANGED <<published, draining, fatals, completed_epoch, outputs>>
<1> DEFINE c == Head(completions)
           r == c.id
           q == request[r]
<1>1. completions # << >> /\ completions \in Seq(Completions)
      /\ request \in [Requests -> RequestStates]
  BY DEF TakeCompletion, TypeInv, SchedulerTypes, ChannelTypes
<1>2. c \in Completions /\ c \in ToSet(completions)
  BY <1>1, HeadTailProperties, TailSubset
<1>3. r \in Requests BY <1>2 DEF Completions
<1>4. q \in RequestStates /\ Coherent(q) BY <1>1, <1>3 DEF LifeInv, CoherentInv
<1>5. q.admission = "EnvironmentOwned" => Known(r) /\ q.stage # "Terminal"
  <2>1. q.admission = "EnvironmentOwned" => Ongoing(q)
    <3>1. Fresh("Unsubmitted").admission = "NotSent" BY DEF Fresh
    <3> QED BY <1>4, <3>1 DEF Coherent, Ongoing
  <2> QED BY <1>3, <2>1 DEF Known, LifeInv, LiveInv, Ongoing
<1>6. /\ request' = IF q.admission = "EnvironmentOwned"
                    THEN [request EXCEPT ![r] = Folded(q, c)] ELSE request
      /\ completions' = Tail(completions)
      /\ UNCHANGED <<published, draining, fatals, completed_epoch, outputs>>
  BY <1>5 DEF TakeCompletion
<1> HIDE DEF c, r
<1>7. Touches(r) /\ request'[r] = IF q.admission = "EnvironmentOwned"
                                  THEN Folded(q, c) ELSE q
  BY <1>1, <1>3, <1>6 DEF Touches
<1> QED BY <1>2, <1>3, <1>4, <1>6, <1>7 DEF c, r
-----------------------------------------------------------------------------
(* The completions on their way.  They are about the items of the plan in  *)
(* execution that are done, one each; and when the scheduler has drained   *)
(* them after the plan was retired, none is left.                          *)
AfterCompletions == {"acks", "fatals", "releases", "retire", "decide"}
AtItems == {"items", "output", "completion"}

Late == ToSet(completions) \cup (IF completion = Nothing THEN {} ELSE {completion})

Planned ==
  {published.work[i].id : i \in DOMAIN published.work}
    \cup {plan.work[i].id : i \in DOMAIN plan.work}

LateInv ==
  /\ published # NoPlan => completions = << >>
  /\ run_pc \in AfterCompletions /\ plan_done => completions = << >>
  /\ IsInjective(Ids(completions))
  /\ env_pc \in AtItems =>
       \A c \in ToSet(completions) :
         \E k \in DOMAIN plan.work : k < item /\ plan.work[k].id = c.id
  /\ completion # Nothing => completion.id = Work.id
  /\ \A r \in Planned : request[r].start_recorded
  /\ \A c \in Late : request[c.id].start_recorded

(* The scheduler only takes completions, and goes on when none is left.    *)
LEMMA SchedulerDrainsCompletions ==
  ASSUME SchedulerNext
  PROVE  /\ TakeCompletion \/ UNCHANGED completions
         /\ PublishPlan \/ UNCHANGED published
         /\ run_pc' \in AfterCompletions /\ plan_done' =>
              completions = << >> \/ (run_pc \in AfterCompletions /\ plan_done)
<1> USE DEF AfterCompletions
<1>1. ASSUME NEW r \in Requests, Submit(r)
      PROVE  UNCHANGED <<completions, published>> /\ run_pc' = "outside"
  BY <1>1 DEF Submit, handoffVars
<1>2. CASE RequestStop \/ StopEnvironment \/ BeginIteration \/ FlushAdmission \/ FlushDone
  BY <1>2 DEF RequestStop, StopEnvironment, BeginIteration, FlushAdmission, FlushDone,
              handoffVars
<1>3. CASE SnapshotEpoch BY <1>3 DEF SnapshotEpoch, handoffVars
<1>4. CASE TakeAdmissionResult \/ TakeOutput \/ TakeReleaseAck \/ TakeFatal \/ TryRelease
  <2>1. UNCHANGED <<completions, published, run_pc, plan_done>>
    BY <1>4 DEF TakeAdmissionResult, TakeOutput, TakeReleaseAck, TakeFatal, TryRelease
  <2> QED BY <2>1
<1>5. CASE TakeCompletion BY <1>5 DEF TakeCompletion
<1>6. CASE DrainDone BY <1>6 DEF DrainDone, handoffVars
<1>7. CASE ReleasesDone BY <1>7 DEF ReleasesDone, handoffVars
<1>8. CASE RetireTerminal \/ ObserverFails \/ ObserveBatch
  BY <1>8 DEF RetireTerminal, ObserverFails, ObserveBatch, handoffVars
<1>9. CASE PublishPlan BY <1>9 DEF PublishPlan
<1>10. CASE \/ FinishRun \/ KeepRunning \/ RejectPlan \/ WaitForRelease \/ NoWork
            \/ BuildThrows
  BY <1>10 DEF FinishRun, KeepRunning, RejectPlan, WaitForRelease, NoWork, BuildThrows,
               handoffVars
<1> QED
  BY <1>1, <1>2, <1>3, <1>4, <1>5, <1>6, <1>7, <1>8, <1>9, <1>10
  DEF SchedulerNext, SchedulerStep

(* Nobody but the environment writes to its records.                       *)
LEMMA SchedulerLeavesRecords ==
  ASSUME SchedulerThread
  PROVE  UNCHANGED <<records, env_pc, env_fatal, plan, item, completion, result, emitted>>
BY DEF SchedulerThread, environmentVars, workVars

(* A request that was started stays so, whatever the scheduler does.       *)
LEMMA StartedStays ==
  ASSUME TypeInv, LifeInv, SchedulerNext
  PROVE  \A r \in Requests : request[r].start_recorded => request'[r].start_recorded
<1>1. CASE TakeCompletion
  <2> DEFINE c == Head(completions)
             q == request[c.id]
  <2>1. /\ c \in Completions /\ c.id \in Requests /\ Touches(c.id) /\ q \in RequestStates
        /\ request'[c.id] = IF q.admission = "EnvironmentOwned" THEN Folded(q, c) ELSE q
    BY <1>1, CompletionMoves
  <2>2. Same(q, Folded(q, c)) BY <2>1, FoldedFields
  <2> HIDE DEF c
  <2> QED BY <2>1, <2>2 DEF Touches, Same
<1>2. CASE TakeAdmissionResult
  <2> DEFINE answer == Head(admission_results)
             r == answer.id
  <2>1. /\ r \in Requests /\ Touches(r)
        /\ ~Awaiting(r) => request' = request
    BY <1>2, ResultMoves
  <2>2. Awaiting(r) => ~request[r].start_recorded BY <2>1, AwaitingState
  <2> HIDE DEF answer
  <2> QED BY <2>1, <2>2 DEF Touches
<1>3. CASE \A r \in Requests : Kept(r) BY <1>3 DEF Kept
<1> QED BY <1>1, <1>2, <1>3, KeptMoves

(* The requests a list of completions is about.                            *)
LEMMA IdsOfCompletions ==
  ASSUME NEW s \in Seq(Completions)
  PROVE  /\ Ids(s) \in Seq(Requests)
         /\ ToSet(Ids(s)) = {c.id : c \in ToSet(s)}
         /\ \A c \in Completions : Ids(Append(s, c)) = Append(Ids(s), c.id)
         /\ s # << >> => /\ Ids(s) # << >> /\ Head(Ids(s)) = Head(s).id
                         /\ Ids(Tail(s)) = Tail(Ids(s))
<1>1. \A c \in Completions : c.id \in Requests BY DEF Completions
<1> QED BY <1>1, IdsOfAny

(* Taking the first completion takes the only one about its request.       *)
LEMMA TakenCompletion ==
  ASSUME TypeInv, completions # << >>, IsInjective(Ids(completions))
  PROVE  /\ IsInjective(Ids(Tail(completions)))
         /\ ToSet(completions) = {Head(completions)} \cup ToSet(Tail(completions))
         /\ \A c \in ToSet(Tail(completions)) : c.id # Head(completions).id
<1>1. completions \in Seq(Completions) BY DEF TypeInv, ChannelTypes
<1> DEFINE s == Ids(completions)
<1>2. /\ s \in Seq(Requests) /\ s # << >> /\ Head(s) = Head(completions).id
      /\ Ids(Tail(completions)) = Tail(s)
  BY <1>1, IdsOfCompletions
<1> HIDE DEF s
<1>3. IsInjective(Tail(s)) /\ Head(s) \notin ToSet(Tail(s)) BY <1>2, TakeHead DEF s
<1>4. Tail(completions) \in Seq(Completions) BY <1>1, HeadTailProperties
<1>5. ToSet(Tail(s)) = {c.id : c \in ToSet(Tail(completions))}
  BY <1>2, <1>4, IdsOfCompletions
<1>6. ToSet(completions) = {Head(completions)} \cup ToSet(Tail(completions))
  BY <1>1, TailSubset
<1> QED BY <1>2, <1>3, <1>5, <1>6

(* What is planned is work for requests.                                   *)
LEMMA PlannedRequests ==
  ASSUME published \in Plans, plan \in Plans
  PROVE  /\ \A r \in Planned : r \in Requests
         /\ \A i \in DOMAIN published.work : published.work[i] \in WorkItems
         /\ \A i \in DOMAIN plan.work : plan.work[i] \in WorkItems
<1>1. published.work \in Seq(WorkItems) /\ plan.work \in Seq(WorkItems)
  BY DEF Plans
<1>2. /\ \A i \in DOMAIN published.work : published.work[i] \in WorkItems
      /\ \A i \in DOMAIN plan.work : plan.work[i] \in WorkItems
  BY <1>1, SeqElements
<1> QED BY <1>2 DEF Planned, WorkItems

(* What is left alone keeps the completions as they are.                   *)
LEMMA LateKept ==
  ASSUME LateInv, UNCHANGED <<completions, completion, published, plan, item>>,
         UNCHANGED <<run_pc, plan_done, request>>,
         env_pc' \in AtItems => env_pc \in AtItems
  PROVE  LateInv'
BY DEF LateInv, Late, Planned, Work

(* Every step of the scheduler keeps the completions to be drained.        *)
LEMMA LateSchedulerStep ==
  ASSUME TypeInv, LifeInv, EpochInv, LateInv, SchedulerThread
  PROVE  LateInv'
<1>0. /\ SchedulerNext
      /\ UNCHANGED <<records, env_pc, env_fatal, plan, item, completion, result, emitted>>
      /\ completions \in Seq(Completions) /\ published \in Plans /\ plan \in Plans
      /\ completion \in Completions \cup {Nothing}
  BY SchedulerLeavesRecords DEF SchedulerThread, TypeInv, ChannelTypes, EnvironmentTypes
<1>1. \A r \in Requests : request[r].start_recorded => request'[r].start_recorded
  BY <1>0, StartedStays
<1>2. \A c \in Late : c.id \in Requests
  <2>1. \A c \in ToSet(completions) : c \in Completions
    BY <1>0, SeqElements
  <2> QED BY <1>0, <2>1 DEF Late, Completions
<1>3. \A r \in Planned : r \in Requests
  BY <1>0, PlannedRequests
<1>4. CASE TakeCompletion
  <2>1. completions # << >> /\ completions' = Tail(completions) /\ UNCHANGED <<published, plan_done, run_pc>>
    BY <1>4 DEF TakeCompletion
  <2>2. /\ IsInjective(Ids(completions'))
        /\ ToSet(completions') \subseteq ToSet(completions)
    BY <2>1, TakenCompletion DEF LateInv
  <2>3. Planned' = Planned /\ Late' \subseteq Late BY <1>0, <2>1, <2>2 DEF Planned, Late
  <2>4. published = NoPlan /\ ~(run_pc \in AfterCompletions /\ plan_done)
    BY <2>1 DEF LateInv
  <2>5. \A r \in Planned' : request'[r].start_recorded BY <1>1, <1>3, <2>3 DEF LateInv
  <2>6. \A c \in Late' : request'[c.id].start_recorded BY <1>1, <1>2, <2>3 DEF LateInv
  <2> QED BY <1>0, <2>1, <2>2, <2>4, <2>5, <2>6 DEF LateInv, Work
<1>5. CASE PublishPlan
  <2>1. completions' = completions /\ run_pc' = "outside" BY <1>5 DEF PublishPlan
  <2>2. completions = << >>
    BY <1>5 DEF PublishPlan, MaySchedule, LateInv, AfterCompletions
  <2>3. PICK work \in Seq(WorkItems) :
          /\ published' = [epoch |-> published_epoch + 1, work |-> work]
          /\ \A i \in DOMAIN work : work[i].id \in Requests /\ request'[work[i].id].start_recorded
    <3>1. PICK work \in Seq(WorkItems) :
            /\ published' = [epoch |-> published_epoch + 1, work |-> work]
            /\ \A r \in Requests :
                 request'[r].start_recorded <=>
                   \/ request[r].start_recorded
                   \/ r \in {work[i].id : i \in DOMAIN work} \cap
                            {q \in Requests : ~request[q].start_recorded}
      BY <1>5, PublishMoves, Zenon
    <3>2. \A i \in DOMAIN work : work[i].id \in Requests
      <4>1. \A i \in DOMAIN work : work[i] \in WorkItems BY SeqElements
      <4> QED BY <4>1 DEF WorkItems
    <3> QED BY <3>1, <3>2
  <2>4. Late' = Late BY <1>0, <2>1 DEF Late
  <2>5. \A c \in Late' : request'[c.id].start_recorded BY <1>1, <1>2, <2>4 DEF LateInv
  <2>6. \A r \in Planned' : request'[r].start_recorded
    BY <1>0, <1>1, <1>3, <2>3 DEF Planned, LateInv
  <2>7. run_pc' \notin AfterCompletions BY <2>1 DEF AfterCompletions
  <2> QED BY <1>0, <2>1, <2>2, <2>5, <2>6, <2>7 DEF LateInv, Work
<1>6. CASE UNCHANGED <<completions, published>>
  <2>1. Late' = Late /\ Planned' = Planned BY <1>0, <1>6 DEF Late, Planned
  <2>2. run_pc' \in AfterCompletions /\ plan_done' => completions' = << >>
    BY <1>0, <1>6, SchedulerDrainsCompletions DEF LateInv
  <2>3. \A r \in Planned' : request'[r].start_recorded BY <1>1, <1>3, <2>1 DEF LateInv
  <2>4. \A c \in Late' : request'[c.id].start_recorded BY <1>1, <1>2, <2>1 DEF LateInv
  <2> QED BY <1>0, <1>6, <2>2, <2>3, <2>4 DEF LateInv, Work
<1> QED BY <1>0, <1>4, <1>5, <1>6, SchedulerDrainsCompletions

(* What the environment may do with its plan and its completions.          *)
PlanIdles ==
  /\ UNCHANGED <<completions, completion, published, plan, item>>
  /\ env_pc' \in AtItems => env_pc \in AtItems

(* The steps of the environment that touch its plan.                       *)
LEMMA PlanMoves ==
  ASSUME EnvironmentNext
  PROVE  \/ PlanIdles \/ ConsumePlan \/ AdvancePrefill \/ SampleToken
         \/ ReportCompletion \/ RetirePlan
<1> USE DEF PlanIdles, AtItems
<1>1. CASE BeginTurn \/ ReleasesTaken \/ AdmissionsTaken \/ SkipPlan \/ PlanExecuted
  BY <1>1 DEF BeginTurn, ReleasesTaken, AdmissionsTaken, SkipPlan, PlanExecuted,
              handoffVars, workVars
<1>2. CASE TakeRelease \/ AcknowledgeRelease \/ ReportAdmission \/ Catch
  BY <1>2 DEF TakeRelease, AcknowledgeRelease, ReportAdmission, Catch, workVars
<1>3. ASSUME NEW p, Resolve(p) PROVE env_pc' \notin AtItems
  BY <1>3 DEF Resolve, Reject, ValidationThrows, Hold, SamplerFails, Accept,
              RestoreBreaks, AcceptThrows, Assign, Report
<1>4. CASE TakeAdmission \/ ResumeAdmission
  BY <1>3, <1>4 DEF TakeAdmission, ResumeAdmission, workVars
<1>5. CASE SamplingFails \/ RememberThrows
  BY <1>5 DEF SamplingFails, RememberThrows, executionUnchanged
<1>6. CASE ReportOutput BY <1>6 DEF ReportOutput
<1> QED BY <1>1, <1>2, <1>4, <1>5, <1>6 DEF EnvironmentNext

(* A work item that is done has a completion of its own on the way.        *)
LEMMA ItemMoves ==
  ASSUME TypeInv, AdvancePrefill \/ SampleToken
  PROVE  /\ Work \in WorkItems /\ Work.id \in Requests /\ item \in DOMAIN plan.work
         /\ Executable(Work) /\ records[Work.id] \in Records
         /\ records \in [Requests -> Records \cup {Nothing}]
         /\ Len(Prompt[Work.id]) \in Nat
         /\ env_pc = "items" /\ item <= Len(plan.work) /\ completion = Nothing
         /\ completion' \in Completions /\ completion' # Nothing
         /\ completion'.id = Work.id
         /\ completion'.prefill_position =
              (IF Work.kind = "Prefill" THEN Work.end ELSE Len(Prompt[Work.id]))
         /\ UNCHANGED <<plan, item, completions, published, env_fatal, result,
                        admission_results>>
         /\ env_pc' \in {"completion", "output"}
         /\ records'[Work.id] \in Records
         /\ \A r \in Requests : r # Work.id => records'[r] = records[r]
         /\ records'[Work.id].decoded_tokens = completion'.decoded_tokens
         /\ records'[Work.id].prefill_position =
              (IF Work.kind = "Prefill" THEN Work.end ELSE records[Work.id].prefill_position)
         /\ \/ AdvancePrefill /\ Work.kind = "Prefill" /\ Work.end # Len(Prompt[Work.id])
               /\ records'[Work.id].decoded_tokens = records[Work.id].decoded_tokens
            \/ SampleToken /\ Samples
               /\ records'[Work.id].decoded_tokens = records[Work.id].decoded_tokens + 1
<1>1. /\ env_pc = "items" /\ item <= Len(plan.work)
      /\ UNCHANGED <<plan, item, completions, published, env_fatal, result, admission_results>>
      /\ env_pc' \in {"completion", "output"}
  BY DEF AdvancePrefill, SampleToken, NoFailure, executionUnchanged
<1>2. /\ Work \in WorkItems /\ Work.id \in Requests /\ Executable(Work)
      /\ plan.work \in Seq(WorkItems) /\ item \in Nat
      /\ records[Work.id] \in Records /\ Advanced \in Records
      /\ Len(Prompt[Work.id]) \in Nat
  BY <1>1, AdvancedType DEF TypeInv
<1>3. item \in DOMAIN plan.work
  <2>1. item >= 1 BY <1>1 DEF TypeInv, ExecutionInv
  <2> QED BY <1>1, <1>2, <2>1, LenProperties, SMT
<1>4. completion = Nothing /\ records \in [Requests -> Records \cup {Nothing}]
  BY <1>1 DEF TypeInv, EnvironmentTypes
<1>5. /\ Advanced.decoded_tokens = records[Work.id].decoded_tokens
      /\ Advanced.prefill_position =
           IF Work.kind = "Prefill" THEN Work.end ELSE records[Work.id].prefill_position
  BY <1>2, SMT DEF Advanced, Records
<1>6. ASSUME NEW decoded \in Nat, NEW eos \in BOOLEAN, Complete(decoded, eos)
      PROVE  /\ completion' \in Completions /\ completion' # Nothing
             /\ completion'.id = Work.id /\ completion'.decoded_tokens = decoded
             /\ completion'.prefill_position =
                  IF Work.kind = "Prefill" THEN Work.end ELSE Len(Prompt[Work.id])
  <2>1. completion' \in Completions /\ completion' # Nothing BY <1>2, <1>6, CompleteType
  <2> QED BY <1>6, <2>1 DEF Complete
<1> DEFINE new == records'[Work.id]
<1>7. CASE AdvancePrefill
  <2>1. /\ records' = [records EXCEPT ![Work.id] = Advanced] /\ ~Samples
        /\ Complete(Advanced.decoded_tokens, FALSE)
    BY <1>7 DEF AdvancePrefill
  <2>2. new = Advanced /\ \A r \in Requests : r # Work.id => records'[r] = records[r]
    BY <1>2, <1>4, <2>1
  <2>3. Advanced.decoded_tokens \in Nat BY <1>2 DEF Records
  <2>4. /\ completion' \in Completions /\ completion' # Nothing
        /\ completion'.id = Work.id /\ completion'.decoded_tokens = Advanced.decoded_tokens
        /\ completion'.prefill_position =
             IF Work.kind = "Prefill" THEN Work.end ELSE Len(Prompt[Work.id])
    BY <1>6, <2>1, <2>3
  <2>5. Work.kind = "Prefill" /\ Work.end # Len(Prompt[Work.id])
    BY <1>2, <2>1 DEF Samples, WorkItems
  <2> QED BY <1>1, <1>2, <1>3, <1>4, <1>5, <1>7, <2>2, <2>4, <2>5
<1>8. CASE SampleToken
  <2> DEFINE sampled == [Advanced EXCEPT !.decoded_tokens = @ + 1]
  <2>1. /\ records' = [records EXCEPT ![Work.id] = sampled] /\ Samples
        /\ \E eos \in EndOfSequence : Complete(sampled.decoded_tokens, eos)
    BY <1>8 DEF SampleToken
  <2>2. /\ sampled \in Records /\ sampled.decoded_tokens = Advanced.decoded_tokens + 1
        /\ sampled.decoded_tokens \in Nat
        /\ sampled.prefill_position = Advanced.prefill_position
    <3>1. Advanced.decoded_tokens + 1 \in Nat BY <1>2, SMT DEF Records
    <3>2. sampled \in Records BY <1>2, <3>1, Zenon DEF Records
    <3>3. /\ sampled.decoded_tokens = Advanced.decoded_tokens + 1
          /\ sampled.prefill_position = Advanced.prefill_position
      BY <1>2, SMT DEF Records
    <3> QED BY <3>1, <3>2, <3>3
  <2> HIDE DEF sampled
  <2>3. new = sampled /\ \A r \in Requests : r # Work.id => records'[r] = records[r]
    BY <1>2, <1>4, <2>1
  <2>4. /\ completion' \in Completions /\ completion' # Nothing
        /\ completion'.id = Work.id /\ completion'.decoded_tokens = sampled.decoded_tokens
        /\ completion'.prefill_position =
             IF Work.kind = "Prefill" THEN Work.end ELSE Len(Prompt[Work.id])
    BY <1>6, <2>1, <2>2, EnvironmentAssumption
  <2> QED BY <1>1, <1>2, <1>3, <1>4, <1>5, <1>8, <2>1, <2>2, <2>3, <2>4
<1> QED BY <1>7, <1>8

(* So does every step of the environment.                                  *)
LEMMA LateEnvironmentStep ==
  ASSUME TypeInv, EpochInv, LateInv, EnvironmentThread
  PROVE  LateInv'
<1>0. /\ EnvironmentNext /\ UNCHANGED <<run_pc, plan_done, request, published_epoch>>
      /\ completions \in Seq(Completions) /\ published \in Plans /\ plan \in Plans
      /\ completion \in Completions \cup {Nothing}
      /\ completion # Nothing <=> env_pc \in {"output", "completion"}
      /\ request \in [Requests -> RequestStates]
  BY DEF EnvironmentThread, schedulerVars, lifecycleVars, planVars, TypeInv,
         SchedulerTypes, ChannelTypes, EnvironmentTypes
<1>1. CASE PlanIdles BY <1>0, <1>1, LateKept DEF PlanIdles
<1>2. CASE ConsumePlan
  <2>1. /\ env_pc = "plan" /\ published # NoPlan /\ published' = NoPlan
        /\ plan' = published /\ item' = 1 /\ UNCHANGED <<completion, completions>>
    BY <1>2 DEF ConsumePlan
  <2>2. completions = << >> /\ completion = Nothing BY <1>0, <2>1 DEF LateInv
  <2>3. DOMAIN NoPlan.work = {} BY SMT DEF NoPlan
  <2>4. Late' = {} /\ ToSet(completions') = {}
    BY <2>1, <2>2, ToSetEmpty DEF Late
  <2>5. Planned' \subseteq Planned BY <2>1, <2>3 DEF Planned
  <2> QED BY <1>0, <2>1, <2>2, <2>4, <2>5 DEF LateInv
<1>3. CASE AdvancePrefill \/ SampleToken
  <2>1. /\ item \in DOMAIN plan.work /\ env_pc = "items"
        /\ completion = Nothing /\ completion' # Nothing
        /\ completion'.id = Work.id
        /\ UNCHANGED <<plan, item, completions, published>>
    BY <1>3, ItemMoves
  <2>2. Work.id \in Planned BY <2>1 DEF Work, Planned
  <2>3. Planned' = Planned /\ Late' = Late \cup {completion'} BY <2>1 DEF Planned, Late
  <2>4. env_pc \in AtItems BY <2>1 DEF AtItems
  <2> QED BY <1>0, <2>1, <2>2, <2>3, <2>4 DEF LateInv, Work
<1>4. CASE ReportCompletion
  <2>1. /\ env_pc = "completion" /\ completions' = Append(completions, completion)
        /\ completion' = Nothing /\ item' = item + 1 /\ env_pc' = "items"
        /\ UNCHANGED <<plan, published>>
    BY <1>4 DEF ReportCompletion
  <2>2. /\ item \in Nat /\ item >= 1 /\ item <= Len(plan.work) /\ plan.work \in Seq(WorkItems)
        /\ \A i, j \in DOMAIN plan.work : plan.work[i].id = plan.work[j].id => i = j
        /\ completion \in Completions /\ completion # Nothing
    BY <1>0, <2>1 DEF TypeInv, ExecutionInv, EnvironmentTypes, Plans
  <2>3. /\ item \in DOMAIN plan.work /\ completion.id = plan.work[item].id
        /\ \A k \in DOMAIN plan.work : k \in Int
    <3>1. DOMAIN plan.work = 1 .. Len(plan.work) /\ Len(plan.work) \in Nat BY <2>2, SeqElements
    <3> QED BY <2>2, <3>1, SMT DEF LateInv, Work
  <2>4. \A c \in ToSet(completions) :
          \E k \in DOMAIN plan.work : k < item /\ plan.work[k].id = c.id
    BY <2>1 DEF LateInv, AtItems
  <2>5. \A c \in ToSet(completions) : c.id # completion.id
    <3>1. \A k \in DOMAIN plan.work : k < item => k # item BY <2>2, <2>3, SMT
    <3> QED BY <2>2, <2>3, <2>4, <3>1
  <2>6. ToSet(completions') = ToSet(completions) \cup {completion}
    BY <1>0, <2>1, <2>2, ToSetAppend
  <2>7. IsInjective(Ids(completions'))
    <3> DEFINE ids == Ids(completions)
    <3>1. /\ ids \in Seq(Requests) /\ ToSet(ids) = {c.id : c \in ToSet(completions)}
          /\ Ids(completions') = Append(ids, completion.id) /\ completion.id \in Requests
      BY <1>0, <2>1, <2>2, IdsOfCompletions DEF Completions
    <3>2. IsInjective(ids) BY DEF LateInv
    <3> HIDE DEF ids
    <3>3. completion.id \notin ToSet(ids) BY <2>5, <3>1
    <3> QED BY <3>1, <3>2, <3>3, AddLast
  <2>8. \A c \in ToSet(completions') :
          \E k \in DOMAIN plan.work : k < item' /\ plan.work[k].id = c.id
    <3>1. \A k \in DOMAIN plan.work : k < item => k < item + 1 BY <2>2, <2>3, SMT
    <3>2. item < item + 1 BY <2>2, SMT
    <3> QED BY <2>1, <2>3, <2>4, <2>6, <3>1, <3>2
  <2>9. published = NoPlan /\ ~(run_pc \in AfterCompletions /\ plan_done)
    <3>1. AfterCompletions \subseteq AfterSnapshot BY DEF AfterCompletions, AfterSnapshot
    <3>2. published = NoPlan /\ published_epoch = completed_epoch + 1 /\ completed_epoch \in Nat
      BY <2>1 DEF EpochInv, Executing
    <3>3. ~(completed_epoch >= published_epoch) BY <3>2, SMT
    <3> QED BY <3>1, <3>2, <3>3 DEF EpochInv
  <2>10. Late' = Late BY <2>1, <2>2, <2>6 DEF Late
  <2>11. Planned' = Planned BY <2>1 DEF Planned
  <2> QED BY <1>0, <2>1, <2>7, <2>8, <2>9, <2>10, <2>11 DEF LateInv
<1>5. CASE RetirePlan
  <2>1. /\ plan' = NoPlan /\ env_pc' \notin AtItems /\ env_pc \notin {"output", "completion"}
        /\ UNCHANGED <<completion, completions, published>>
    BY <1>5 DEF RetirePlan, AtItems
  <2>2. completion' = Nothing BY <1>0, <2>1
  <2>3. DOMAIN NoPlan.work = {} BY SMT DEF NoPlan
  <2>4. Late' = Late /\ Planned' \subseteq Planned BY <2>1, <2>3 DEF Late, Planned
  <2> QED BY <1>0, <2>1, <2>2, <2>4 DEF LateInv
<1> QED BY <1>0, <1>1, <1>2, <1>3, <1>4, <1>5, PlanMoves

(* Nothing is on its way at the start.                                     *)
LEMMA InitLate == Init => LateInv
<1> SUFFICES ASSUME Init PROVE LateInv
  OBVIOUS
<1>1. /\ completions = << >> /\ completion = Nothing /\ published = NoPlan /\ plan = NoPlan
      /\ env_pc = "top"
  BY DEF Init, HandoffInit, EnvironmentInit
<1>2. DOMAIN NoPlan.work = {} /\ DOMAIN << >> = {} BY SMT DEF NoPlan
<1>3. Planned = {} /\ Late = {} BY <1>1, <1>2, ToSetEmpty DEF Planned, Late
<1>4. IsInjective(Ids(completions)) BY <1>1, <1>2, Zenon DEF IsInjective, Ids
<1> QED BY <1>1, <1>3, <1>4 DEF LateInv, AtItems

(* The completions are where they should be all along.                     *)
LEMMA LateInvariance == Spec => []LateInv
<1>1. TypeInv /\ LifeInv /\ EpochInv /\ LateInv /\ [Next]_vars => LateInv'
  <2> SUFFICES ASSUME TypeInv, LifeInv, EpochInv, LateInv, [Next]_vars PROVE LateInv'
    OBVIOUS
  <2>1. CASE SchedulerThread BY <2>1, LateSchedulerStep
  <2>2. CASE EnvironmentThread BY <2>2, LateEnvironmentStep
  <2>3. CASE UNCHANGED vars
    BY <2>3, LateKept DEF vars, handoffVars, schedulerVars, lifecycleVars,
                          environmentVars, workVars
  <2> QED BY <2>1, <2>2, <2>3 DEF Next, Terminated
<1> QED BY <1>1, InitLate, TypesInvariance, LifeInvariance, EpochInvariance, PTL DEF Spec
-----------------------------------------------------------------------------
(* A record that has generated a token has its whole prompt behind it.     *)
RecordInv ==
  \A r \in Requests :
    Held(r) /\ records[r].decoded_tokens # 0 =>
      records[r].prefill_position = Len(Prompt[r])

(* An admission that is being reported tells what its record starts from.  *)
Answers ==
  ToSet(admission_results) \cup (IF result = Nothing THEN {} ELSE {result})

Answered(answer) ==
  /\ records[answer.id].prefill_position = answer.cached_prefix_tokens
  /\ records[answer.id].decoded_tokens = 0
  /\ answer.prompt_tokens = Len(Prompt[answer.id])

AnswerInv == \A answer \in Answers : answer.error = "None" => Answered(answer)

RecordsInv == RecordInv /\ AnswerInv

(* The record of the item in execution, as the item leaves it.             *)
LEMMA ItemRecord ==
  ASSUME TypeInv, RecordInv, env_pc = "items", item <= Len(plan.work)
  PROVE  /\ Work.id \in Requests /\ Work.id \in Planned
         /\ Samples => Advanced.prefill_position = Len(Prompt[Work.id])
         /\ ~Samples => records[Work.id].decoded_tokens = 0
         /\ Work.kind = "Prefill" => records[Work.id].decoded_tokens = 0
         /\ Work.kind # "Prefill" => records[Work.id].prefill_position = Len(Prompt[Work.id])
<1>1. /\ Work \in WorkItems /\ Work.id \in Requests /\ Executable(Work)
      /\ plan.work \in Seq(WorkItems) /\ item \in Nat /\ records[Work.id] \in Records
      /\ Len(Prompt[Work.id]) \in Nat
  BY AdvancedType DEF TypeInv
<1>2. item \in DOMAIN plan.work
  <2>1. item >= 1 BY DEF TypeInv, ExecutionInv
  <2> QED BY <1>1, <2>1, LenProperties, SMT
<1>3. Work.id \in Planned BY <1>2 DEF Planned, Work
<1>4. records[Work.id].decoded_tokens # 0 =>
        records[Work.id].prefill_position = Len(Prompt[Work.id])
  BY <1>1 DEF RecordInv, Executable
<1>5. /\ Work.begin \in Nat /\ Work.end \in Nat /\ Work.kind \in {"Prefill", "Decode"}
      /\ Work.begin < Work.end
  BY <1>1 DEF WorkItems, Executable
<1>6. CASE Work.kind = "Prefill"
  <2>1. Work.begin = records[Work.id].prefill_position /\ Work.end <= Len(Prompt[Work.id])
    BY <1>1, <1>6 DEF Executable
  <2>2. records[Work.id].decoded_tokens = 0 BY <1>1, <1>4, <1>5, <2>1, SMT
  <2>3. Advanced.prefill_position = Work.end BY <1>1, <1>6, SMT DEF Advanced, Records
  <2> QED BY <1>1, <1>3, <1>6, <2>2, <2>3 DEF Samples
<1>7. CASE Work.kind # "Prefill"
  <2>1. records[Work.id].decoded_tokens # 0 /\ Samples
    BY <1>1, <1>5, <1>7 DEF Executable, Samples
  <2>2. Advanced = records[Work.id] BY <1>7 DEF Advanced
  <2> QED BY <1>1, <1>3, <1>4, <1>7, <2>1, <2>2
<1> QED BY <1>6, <1>7

(* An item that fails has moved its record all the same, which nobody is   *)
(* told; the run is failed, at once or by the outer catch.                 *)
Sound == ~env_fatal /\ env_pc \notin {"unwind", "catch"}

(* An item that fails breaks no other request.                             *)
LEMMA BrokenItem ==
  ASSUME TypeInv, RecordInv, SamplingFails \/ RememberThrows
  PROVE  /\ Work.id \in Requests /\ Work.id \in Planned
         /\ \A r \in Requests : r # Work.id => records'[r] = records[r]
         /\ records'[Work.id].prefill_position = Len(Prompt[Work.id])
         /\ UNCHANGED <<result, admission_results, completion, completions, published>>
         /\ ~Sound'
<1>1. /\ env_pc = "items" /\ item <= Len(plan.work) /\ Samples
      /\ UNCHANGED <<result, admission_results, completion, completions, published>>
  BY DEF SamplingFails, RememberThrows, executionUnchanged, Remembers
<1>2. /\ Work.id \in Requests /\ Work.id \in Planned
      /\ Advanced.prefill_position = Len(Prompt[Work.id]) /\ Advanced \in Records
      /\ records \in [Requests -> Records \cup {Nothing}]
  BY <1>1, ItemRecord, AdvancedType DEF TypeInv, EnvironmentTypes
<1>3. CASE SamplingFails
  <2>1. PICK drawn \in {0, 1} :
          records' = [records EXCEPT ![Work.id] =
                        [Advanced EXCEPT !.decoded_tokens = @ + drawn]]
    BY <1>3 DEF SamplingFails
  <2>2. [Advanced EXCEPT !.decoded_tokens = @ + drawn].prefill_position = Advanced.prefill_position
    BY <1>2, SMT DEF Records
  <2>3. env_fatal' BY <1>3, Zenon DEF SamplingFails, FailRun
  <2> QED BY <1>1, <1>2, <2>1, <2>2, <2>3 DEF Sound
<1>4. CASE RememberThrows
  BY <1>1, <1>2, <1>4 DEF RememberThrows, Sound
<1> QED BY <1>3, <1>4

(* A request in flight has not been started, so no plan and no completion  *)
(* is about it; nor is it scheduled or being released.                     *)
LEMMA InFlightUnstarted ==
  ASSUME TypeInv, LifeInv, LateInv, NEW r \in InFlight(request)
  PROVE  /\ r \in Requests /\ request[r].stage = "PendingAdmission"
         /\ r \notin Planned /\ \A c \in Late : c.id # r
<1>1. r \in Requests /\ request[r] \in RequestStates /\ request[r].admission = "InFlight"
  BY DEF InFlight, TypeInv, SchedulerTypes
<1>2. Coherent(request[r]) /\ request[r].stage \in Stages
  BY <1>1 DEF LifeInv, CoherentInv, RequestStates
<1>3. request[r].stage = "PendingAdmission"
  <2>1. Fresh("Unsubmitted").admission = "NotSent" BY DEF Fresh
  <2> QED BY <1>1, <1>2, <2>1 DEF Coherent, Stages
<1>4. ~request[r].start_recorded BY <1>2, <1>3 DEF Coherent
<1> QED BY <1>1, <1>3, <1>4 DEF LateInv

(* What the environment may do with its records and with its answers.      *)
LEMMA RecordMoves ==
  ASSUME EnvironmentNext
  PROVE  \/ UNCHANGED <<records, result, admission_results>>
         \/ AdvancePrefill \/ SampleToken \/ SamplingFails \/ RememberThrows
         \/ TakeRelease \/ TakeAdmission \/ ResumeAdmission \/ ReportAdmission
<1>1. CASE BeginTurn \/ ReleasesTaken \/ AdmissionsTaken \/ SkipPlan \/ PlanExecuted
  BY <1>1 DEF BeginTurn, ReleasesTaken, AdmissionsTaken, SkipPlan, PlanExecuted, handoffVars
<1>2. CASE \/ AcknowledgeRelease \/ ConsumePlan \/ ReportOutput \/ ReportCompletion
           \/ RetirePlan \/ Catch
  BY <1>2 DEF AcknowledgeRelease, ConsumePlan, ReportOutput, ReportCompletion,
              RetirePlan, Catch
<1> QED BY <1>1, <1>2 DEF EnvironmentNext

(* An admission is considered: whatever comes of it, it was not held, and  *)
(* if it is accepted its record is the one the answer tells of.            *)
LEMMA AdmissionMoves ==
  ASSUME TypeInv, PathInv, TakeAdmission \/ ResumeAdmission
  PROVE  /\ result = Nothing /\ UNCHANGED <<admission_results, completions, completion>>
         /\ \/ UNCHANGED <<records, result>>
            \/ \E r \in InFlight(request) :
                 /\ result' \in Results /\ result' # Nothing /\ result'.id = r /\ ~Held(r)
                 /\ \/ result'.error # "None" /\ UNCHANGED records
                    \/ /\ result'.error = "None"
                       /\ records'[r].prefill_position = result'.cached_prefix_tokens
                       /\ records'[r].decoded_tokens = 0
                       /\ result'.prompt_tokens = Len(Prompt[r])
                       /\ \A x \in Requests : x # r => records'[x] = records[x]
<1>1. PICK p \in PendingAdmissions :
        env_pc = "admissions" /\ Resolve(p) /\ p.id \in InFlight(request) /\ ~Held(p.id)
  <2>1. CASE TakeAdmission
    <3> DEFINE p == [id |-> Head(admissions), validated |-> FALSE]
    <3>1. /\ env_pc = "admissions" /\ admissions # << >> /\ Resolve(p)
          /\ admissions \in Seq(Requests)
      BY <2>1 DEF TakeAdmission, TypeInv, ChannelTypes
    <3>2. Head(admissions) \in ToSet(admissions) /\ Head(admissions) \in Requests
      BY <3>1, TailSubset, HeadTailProperties
    <3>3. p \in PendingAdmissions /\ p.id = Head(admissions)
      BY <3>2, Zenon DEF PendingAdmissions
    <3> HIDE DEF p
    <3>4. p.id \in InFlight(request) /\ ~Held(p.id)
      BY <3>2, <3>3, PathMembers DEF PathInv, AdmissionInv
    <3> QED BY <3>1, <3>3, <3>4
  <2>2. CASE ResumeAdmission
    <3>1. /\ env_pc = "admissions" /\ pending_admission # Nothing
          /\ Resolve(pending_admission)
          /\ pending_admission \in PendingAdmissions
      BY <2>2 DEF ResumeAdmission, TypeInv, EnvironmentTypes
    <3> QED BY <3>1, PathMembers DEF PathInv, AdmissionInv
  <2> QED BY <2>1, <2>2
<1>2. /\ result = Nothing /\ records \in [Requests -> Records \cup {Nothing}]
      /\ UNCHANGED <<admission_results, completions, completion>> /\ p.id \in Requests
  BY <1>1 DEF TypeInv, EnvironmentTypes, TakeAdmission, ResumeAdmission, PendingAdmissions,
              workVars
<1>3. CASE result' \in Results /\ result' # Nothing /\ result'.id = p.id
           /\ result'.error # "None" /\ UNCHANGED records
  BY <1>1, <1>2, <1>3
<1>4. CASE /\ result' \in Results /\ result' # Nothing /\ result'.id = p.id
           /\ result'.error = "None" /\ result'.prompt_tokens = Len(Prompt[p.id])
           /\ records' = [records EXCEPT ![p.id] =
                [sequence |-> Last(free_sequences),
                 prefill_position |-> result'.cached_prefix_tokens,
                 decoded_tokens |-> 0]]
  BY <1>1, <1>2, <1>4
<1>5. CASE UNCHANGED <<records, result>> BY <1>2, <1>5
<1> QED BY <1>1, <1>3, <1>4, <1>5, ResolveMoves

(* Every step of the environment keeps the records within their prompts.   *)
LEMMA RecordsEnvironmentStep ==
  ASSUME TypeInv, LifeInv, PathInv, LateInv, RecordsInv, EnvironmentThread
  PROVE  RecordsInv'
<1>0. /\ EnvironmentNext /\ records \in [Requests -> Records \cup {Nothing}]
      /\ admission_results \in Seq(Results) /\ result \in Results \cup {Nothing}
  BY DEF EnvironmentThread, TypeInv, ChannelTypes, EnvironmentTypes
<1>1. /\ \A a \in Answers : a \in Results /\ a.id \in Requests /\ a.id \in InFlight(request)
      /\ \A a \in Answers : a.error = "None" => Held(a.id)
  <2>1. \A a \in ToSet(admission_results) : a \in Results BY <1>0, SeqElements
  <2>2. \A a \in Answers : a \in Results /\ a.id \in InFlight(request)
    BY <1>0, <2>1, PathMembers DEF Answers
  <2> QED BY <2>2 DEF Answers, Results, PathInv, AdmissionInv
<1>2. CASE UNCHANGED <<records, result, admission_results>>
  BY <1>2 DEF RecordsInv, RecordInv, AnswerInv, Answers, Answered, Held
<1>3. ASSUME NEW r \in Planned, r \in Requests,
             \A x \in Requests : x # r => records'[x] = records[x],
             records'[r].decoded_tokens # 0 => records'[r].prefill_position = Len(Prompt[r]),
             UNCHANGED <<result, admission_results>>
      PROVE  RecordsInv'
  <2>1. RecordInv' BY <1>3 DEF RecordsInv, RecordInv, Held
  <2>2. \A a \in Answers : a.id # r BY <1>1, <1>3, InFlightUnstarted
  <2>3. \A a \in Answers : Answered(a)' <=> Answered(a)
    BY <1>1, <1>3, <2>2 DEF Answered
  <2>4. Answers' = Answers BY <1>3 DEF Answers
  <2> QED BY <2>1, <2>3, <2>4 DEF RecordsInv, AnswerInv
<1>4. CASE AdvancePrefill \/ SampleToken
  <2>1. /\ env_pc = "items" /\ item <= Len(plan.work)
        /\ UNCHANGED <<result, admission_results>>
        /\ \A r \in Requests : r # Work.id => records'[r] = records[r]
        /\ records'[Work.id].prefill_position =
              (IF Work.kind = "Prefill" THEN Work.end ELSE records[Work.id].prefill_position)
        /\ \/ Work.kind = "Prefill"
              /\ records'[Work.id].decoded_tokens = records[Work.id].decoded_tokens
           \/ Samples
        /\ Work \in WorkItems
    BY <1>4, ItemMoves
  <2>2. /\ Work.id \in Planned /\ Work.id \in Requests
        /\ Work.kind = "Prefill" => records[Work.id].decoded_tokens = 0
        /\ Work.kind # "Prefill" => records[Work.id].prefill_position = Len(Prompt[Work.id])
    BY <2>1, ItemRecord DEF RecordsInv
  <2>3. records'[Work.id].decoded_tokens # 0 =>
          records'[Work.id].prefill_position = Len(Prompt[Work.id])
    BY <2>1, <2>2 DEF Samples, WorkItems
  <2> QED BY <1>3, <2>1, <2>2, <2>3
<1>5. CASE SamplingFails \/ RememberThrows
  BY <1>3, <1>5, BrokenItem DEF RecordsInv
<1>6. CASE TakeRelease
  <2> DEFINE r == Head(releases)
  <2>1. /\ releases # << >> /\ releases \in Seq(Requests)
        /\ records' = [records EXCEPT ![r] = Nothing]
        /\ UNCHANGED <<result, admission_results>>
    BY <1>6 DEF TakeRelease, TypeInv, ChannelTypes
  <2>2. r \in ToSet(releases) BY <2>1, TailSubset
  <2>3. r \in Releasing(request) BY <2>2, PathMembers
  <2> HIDE DEF r
  <2>4. /\ r \in Requests /\ records'[r] = Nothing
        /\ \A x \in Requests : x # r => records'[x] = records[x]
    BY <1>0, <2>1, <2>3, PathMembers
  <2>5. RecordInv' BY <2>4 DEF RecordsInv, RecordInv, Held
  <2>6. \A a \in Answers : a.id # r BY <1>1, <2>3, PathMembers
  <2>7. Answers' = Answers BY <2>1 DEF Answers
  <2> QED BY <1>1, <2>4, <2>5, <2>6, <2>7 DEF RecordsInv, AnswerInv, Answered
<1>7. CASE TakeAdmission \/ ResumeAdmission
  <2>1. result = Nothing /\ UNCHANGED admission_results BY <1>7, AdmissionMoves
  <2>2. CASE UNCHANGED <<records, result>> BY <1>2, <2>1, <2>2
  <2>3. ASSUME NEW r \in InFlight(request),
               result' \in Results, result' # Nothing, result'.id = r, ~Held(r),
               \/ result'.error # "None" /\ UNCHANGED records
               \/ /\ result'.error = "None"
                  /\ records'[r].prefill_position = result'.cached_prefix_tokens
                  /\ records'[r].decoded_tokens = 0
                  /\ result'.prompt_tokens = Len(Prompt[r])
                  /\ \A x \in Requests : x # r => records'[x] = records[x]
        PROVE  RecordsInv'
    <3>1. /\ Answers' = Answers \cup {result'} /\ r \in Requests
          /\ \A a \in Answers : a.error = "None" => a.id # r
      BY <1>1, <2>1, <2>3 DEF Answers, InFlight
    <3>2. CASE result'.error # "None" /\ UNCHANGED records
      BY <3>1, <3>2 DEF RecordsInv, RecordInv, AnswerInv, Answered, Held
    <3>3. CASE /\ result'.error = "None"
               /\ records'[r].prefill_position = result'.cached_prefix_tokens
               /\ records'[r].decoded_tokens = 0
               /\ result'.prompt_tokens = Len(Prompt[r])
               /\ \A x \in Requests : x # r => records'[x] = records[x]
      <4>1. RecordInv' BY <3>1, <3>3 DEF RecordsInv, RecordInv, Held
      <4>2. \A a \in Answers : a.error = "None" => Answered(a)'
        BY <1>1, <3>1, <3>3 DEF RecordsInv, AnswerInv, Answered
      <4>3. \A a : a = result' => Answered(a)' BY <2>3, <3>3 DEF Answered
      <4>4. \A a \in Answers' : a.error = "None" => Answered(a)'
        BY <3>1, <4>2, <4>3, Zenon
      <4>5. AnswerInv' BY <4>4, Zenon DEF AnswerInv
      <4> QED BY <4>1, <4>5 DEF RecordsInv
    <3> QED BY <2>3, <3>2, <3>3
  <2> QED BY <1>7, <2>2, <2>3, AdmissionMoves
<1>8. CASE ReportAdmission
  <2>1. /\ admission_results' = Append(admission_results, result) /\ result' = Nothing
        /\ result # Nothing /\ UNCHANGED records
    BY <1>8 DEF ReportAdmission, TypeInv, EnvironmentTypes
  <2>2. Answers' = Answers BY <1>0, <2>1, ToSetAppend DEF Answers
  <2> QED BY <2>1, <2>2 DEF RecordsInv, RecordInv, AnswerInv, Answered, Held
<1> QED BY <1>0, <1>2, <1>4, <1>5, <1>6, <1>7, <1>8, RecordMoves

(* Only drain_admission_results takes from the channel of the answers.     *)
LEMMA SchedulerDrainsResults ==
  ASSUME SchedulerNext
  PROVE  TakeAdmissionResult \/ UNCHANGED admission_results
<1>1. CASE \/ RequestStop \/ BeginIteration \/ FlushDone \/ SnapshotEpoch
           \/ DrainDone \/ ReleasesDone \/ RetireTerminal \/ ObserverFails
           \/ ObserveBatch \/ FinishRun \/ KeepRunning \/ RejectPlan \/ WaitForRelease
           \/ NoWork \/ BuildThrows \/ \E r \in Requests : Submit(r)
  BY <1>1 DEF RequestStop, Submit, BeginIteration, FlushDone, SnapshotEpoch,
     DrainDone, ReleasesDone, RetireTerminal, ObserverFails, ObserveBatch, FinishRun,
     KeepRunning, RejectPlan, WaitForRelease, NoWork, BuildThrows, handoffVars
<1>2. CASE \/ StopEnvironment \/ FlushAdmission \/ TakeOutput \/ TakeCompletion
           \/ TakeReleaseAck \/ TakeFatal \/ TryRelease \/ PublishPlan
  BY <1>2 DEF StopEnvironment, FlushAdmission, TakeOutput, TakeCompletion,
     TakeReleaseAck, TakeFatal, TryRelease, PublishPlan
<1> QED BY <1>1, <1>2 DEF SchedulerNext, SchedulerStep

(* So does every step of the scheduler.                                    *)
LEMMA RecordsSchedulerStep ==
  ASSUME TypeInv, RecordsInv, SchedulerThread
  PROVE  RecordsInv'
<1>0. /\ SchedulerNext /\ UNCHANGED <<records, result>>
      /\ admission_results \in Seq(Results)
  BY SchedulerLeavesRecords DEF SchedulerThread, TypeInv, ChannelTypes
<1>1. ToSet(admission_results') \subseteq ToSet(admission_results)
  <2>1. CASE TakeAdmissionResult
    BY <1>0, <2>1, TailSubset DEF TakeAdmissionResult
  <2> QED BY <1>0, <2>1, SchedulerDrainsResults
<1>2. Answers' \subseteq Answers BY <1>0, <1>1 DEF Answers
<1> QED BY <1>0, <1>2 DEF RecordsInv, RecordInv, AnswerInv, Answered, Held

(* The records are within their prompts all along.                         *)
LEMMA RecordsInvariance == Spec => []RecordsInv
<1>1. Init => RecordsInv
  <2> SUFFICES ASSUME Init PROVE RecordsInv
    OBVIOUS
  <2>1. admission_results = << >> /\ result = Nothing /\ records = [r \in Requests |-> Nothing]
    BY DEF Init, HandoffInit, EnvironmentInit
  <2>2. Answers = {} BY <2>1, ToSetEmpty DEF Answers
  <2> QED BY <2>1, <2>2 DEF RecordsInv, RecordInv, AnswerInv, Held
<1>2. TypeInv /\ LifeInv /\ PathInv /\ LateInv /\ RecordsInv /\ [Next]_vars => RecordsInv'
  <2> SUFFICES ASSUME TypeInv, LifeInv, PathInv, LateInv, RecordsInv, [Next]_vars
               PROVE  RecordsInv'
    OBVIOUS
  <2>1. CASE SchedulerThread BY <2>1, RecordsSchedulerStep
  <2>2. CASE EnvironmentThread BY <2>2, RecordsEnvironmentStep
  <2>3. CASE UNCHANGED vars
    BY <2>3 DEF vars, handoffVars, environmentVars, RecordsInv, RecordInv, AnswerInv,
                Answers, Answered, Held
  <2> QED BY <2>1, <2>2, <2>3 DEF Next, Terminated
<1> QED
  BY <1>1, <1>2, TypesInvariance, LifeInvariance, PathInvariance, LateInvariance, PTL DEF Spec
-----------------------------------------------------------------------------
(* As long as nothing has gone wrong in the environment, the scheduler is  *)
(* behind its records by no more than the completions on their way.        *)
InStep(r) ==
  /\ request[r].prompt_length = Len(Prompt[r])
  /\ \A c \in Late : c.id = r =>
       /\ c.prefill_position = records[r].prefill_position
       /\ c.decoded_tokens = records[r].decoded_tokens
       /\ request[r].prefill_position <= c.prefill_position
       /\ request[r].decoded_count <= c.decoded_tokens
  /\ (\A c \in Late : c.id # r) =>
       /\ request[r].prefill_position = records[r].prefill_position
       /\ request[r].decoded_count = records[r].decoded_tokens

ProgressInv ==
  Sound => \A r \in Requests :
    Held(r) /\ request[r].admission = "EnvironmentOwned" => InStep(r)

(* A failure is not undone.                                                *)
LEMMA SoundBefore ==
  ASSUME TypeInv, Next, Sound'
  PROVE  Sound
<1>1. CASE SchedulerThread BY <1>1, SchedulerLeavesRecords DEF Sound
<1>2. CASE EnvironmentThread
  <2>1. env_fatal \in BOOLEAN /\ EnvironmentNext
    BY <1>2 DEF TypeInv, EnvironmentTypes, EnvironmentThread
  <2>2. ~env_fatal
    <3>1. CASE UNCHANGED <<env_fatal, fatals>> BY <3>1 DEF Sound
    <3>2. ASSUME NEW error, FailRun(error) PROVE env_fatal'
      BY <3>2, Zenon DEF FailRun
    <3> QED BY <2>1, <3>1, <3>2, FailureMoves DEF Sound
  <2>3. CASE env_pc = "unwind"
    <3>1. RetirePlan
      BY <2>1, <2>3 DEF EnvironmentNext, BeginTurn, TakeRelease, AcknowledgeRelease,
         ReleasesTaken, TakeAdmission, ResumeAdmission, ReportAdmission, AdmissionsTaken,
         SkipPlan, ConsumePlan, AdvancePrefill, SampleToken, SamplingFails, RememberThrows,
         ReportOutput, ReportCompletion, PlanExecuted, Catch
    <3> QED BY <2>3, <3>1 DEF RetirePlan, Sound
  <2>4. CASE env_pc = "catch"
    <3>1. Catch
      BY <2>1, <2>4 DEF EnvironmentNext, BeginTurn, TakeRelease, AcknowledgeRelease,
         ReleasesTaken, TakeAdmission, ResumeAdmission, ReportAdmission, AdmissionsTaken,
         SkipPlan, ConsumePlan, AdvancePrefill, SampleToken, SamplingFails, RememberThrows,
         ReportOutput, ReportCompletion, PlanExecuted, RetirePlan
    <3>2. env_fatal' BY <3>1, Zenon DEF Catch, FailRun
    <3> QED BY <3>2 DEF Sound
  <2> QED BY <2>2, <2>3, <2>4 DEF Sound
<1>3. CASE Terminated
  BY <1>3 DEF Terminated, vars, environmentVars, Sound
<1> QED BY <1>1, <1>2, <1>3 DEF Next

(* Each completion on its way is about a request of its own, and the item  *)
(* that is about to be executed has none yet.                              *)
LEMMA LateApart ==
  ASSUME TypeInv, LateInv
  PROVE  /\ \A c \in Late : c \in Completions /\ c.id \in Requests
         /\ completion # Nothing => \A c \in ToSet(completions) : c.id # completion.id
         /\ env_pc = "items" /\ item \in DOMAIN plan.work => \A c \in Late : c.id # Work.id
<1>1. /\ completions \in Seq(Completions) /\ completion \in Completions \cup {Nothing}
      /\ completion # Nothing <=> env_pc \in {"output", "completion"}
      /\ plan.work \in Seq(WorkItems) /\ item \in Nat
  BY DEF TypeInv, ChannelTypes, EnvironmentTypes, Plans
<1>2. \A c \in Late : c \in Completions /\ c.id \in Requests
  <2>1. \A c \in ToSet(completions) : c \in Completions BY <1>1, SeqElements
  <2>2. \A c \in Late : c \in Completions BY <1>1, <2>1 DEF Late
  <2> QED BY <2>2 DEF Completions
<1>3. ASSUME env_pc \in AtItems, item \in DOMAIN plan.work
      PROVE  \A c \in ToSet(completions) : c.id # Work.id
  <2>1. \A k \in DOMAIN plan.work : k < item => k # item
    <3>1. \A k \in DOMAIN plan.work : k \in Int BY <1>1, SeqElements, SMT
    <3> QED BY <1>1, <3>1, SMT
  <2>2. \A i, j \in DOMAIN plan.work : plan.work[i].id = plan.work[j].id => i = j
    BY <1>3 DEF TypeInv, ExecutionInv, AtItems
  <2>3. \A c \in ToSet(completions) :
          \E k \in DOMAIN plan.work : k < item /\ plan.work[k].id = c.id
    BY <1>3 DEF LateInv
  <2> QED BY <1>3, <2>1, <2>2, <2>3 DEF Work
<1>4. completion # Nothing => \A c \in ToSet(completions) : c.id # completion.id
  <2> SUFFICES ASSUME completion # Nothing
               PROVE  \A c \in ToSet(completions) : c.id # completion.id
    OBVIOUS
  <2>1. env_pc \in {"output", "completion"} BY <1>1
  <2>2. item >= 1 /\ item <= Len(plan.work) BY <2>1 DEF TypeInv, ExecutionInv
  <2>3. item \in DOMAIN plan.work BY <1>1, <2>2, SeqElements, SMT
  <2> QED BY <1>3, <2>1, <2>3 DEF LateInv, AtItems
<1>5. env_pc = "items" /\ item \in DOMAIN plan.work => \A c \in Late : c.id # Work.id
  <2> SUFFICES ASSUME env_pc = "items", item \in DOMAIN plan.work
               PROVE  \A c \in Late : c.id # Work.id
    OBVIOUS
  <2>1. completion = Nothing BY <1>1
  <2> QED BY <1>3, <2>1 DEF Late, AtItems
<1> QED BY <1>2, <1>4, <1>5

(* Reporting a completion leaves it on its way.                            *)
LEMMA LateMoves ==
  ASSUME TypeInv, EnvironmentNext
  PROVE  Late' = Late \/ AdvancePrefill \/ SampleToken
<1>1. CASE PlanIdles BY <1>1 DEF PlanIdles, Late
<1>2. CASE ConsumePlan \/ RetirePlan BY <1>2 DEF ConsumePlan, RetirePlan, Late
<1>3. CASE ReportCompletion
  <2>1. /\ completions' = Append(completions, completion) /\ completion' = Nothing
        /\ completion # Nothing /\ completion \in Completions
        /\ completions \in Seq(Completions)
    BY <1>3 DEF ReportCompletion, TypeInv, EnvironmentTypes, ChannelTypes
  <2>2. ToSet(completions') = ToSet(completions) \cup {completion} BY <2>1, ToSetAppend
  <2> QED BY <2>1, <2>2 DEF Late
<1> QED BY <1>1, <1>2, <1>3, PlanMoves

(* The environment keeps the progress of the two sides in step.            *)
LEMMA ProgressEnvironmentStep ==
  ASSUME TypeInv, LifeInv, PathInv, LateInv, RecordsInv, ProgressInv, EnvironmentThread
  PROVE  ProgressInv'
<1> SUFFICES ASSUME Sound', NEW r \in Requests,
                    Held(r)', request'[r].admission = "EnvironmentOwned"
             PROVE  InStep(r)'
  BY DEF ProgressInv
<1>0. /\ EnvironmentNext /\ UNCHANGED request /\ Sound
      /\ records \in [Requests -> Records \cup {Nothing}]
      /\ request[r] \in RequestStates
  BY SoundBefore DEF EnvironmentThread, schedulerVars, lifecycleVars, TypeInv,
     SchedulerTypes, EnvironmentTypes, Next
<1>1. ASSUME Late' = Late, records'[r] = records[r] PROVE InStep(r)'
  <2>1. Held(r) BY <1>1 DEF Held
  <2> QED BY <1>0, <1>1, <2>1 DEF ProgressInv, InStep
<1>2. CASE AdvancePrefill \/ SampleToken
  <2>1. /\ Work \in WorkItems /\ item \in DOMAIN plan.work /\ Executable(Work)
        /\ env_pc = "items" /\ item <= Len(plan.work) /\ completion = Nothing
        /\ completion' # Nothing /\ completion'.id = Work.id
        /\ completion'.prefill_position =
             (IF Work.kind = "Prefill" THEN Work.end ELSE Len(Prompt[Work.id]))
        /\ UNCHANGED completions
        /\ \A x \in Requests : x # Work.id => records'[x] = records[x]
        /\ records'[Work.id].decoded_tokens = completion'.decoded_tokens
        /\ records'[Work.id].prefill_position =
             (IF Work.kind = "Prefill" THEN Work.end ELSE records[Work.id].prefill_position)
        /\ records[Work.id] \in Records
        /\ \/ records'[Work.id].decoded_tokens = records[Work.id].decoded_tokens
           \/ records'[Work.id].decoded_tokens = records[Work.id].decoded_tokens + 1
    BY <1>2, ItemMoves
  <2>2. Late' = Late \cup {completion'} BY <2>1 DEF Late
  <2>3. \A c \in Late : c.id # Work.id BY <2>1, LateApart
  <2>4. CASE r # Work.id
    <3>1. Held(r) /\ records'[r] = records[r] BY <2>1, <2>4 DEF Held
    <3>2. InStep(r) BY <1>0, <3>1 DEF ProgressInv
    <3> QED BY <1>0, <2>1, <2>2, <2>4, <3>1, <3>2 DEF InStep
  <2>5. CASE r = Work.id
    <3>1. Held(r) BY <2>1, <2>5 DEF Executable
    <3>2. InStep(r) BY <1>0, <3>1 DEF ProgressInv
    <3>3. /\ request[r].prompt_length = Len(Prompt[r])
          /\ request[r].prefill_position = records[r].prefill_position
          /\ request[r].decoded_count = records[r].decoded_tokens
      BY <2>3, <2>5, <3>2 DEF InStep
    <3>4. /\ Work.kind = "Prefill" => Work.begin = records[r].prefill_position
          /\ Work.begin < Work.end /\ Work.begin \in Nat /\ Work.end \in Nat
          /\ records[r].prefill_position \in Nat /\ records[r].decoded_tokens \in Nat
      BY <2>1, <2>5 DEF Executable, WorkItems, Records
    <3>5. Work.kind # "Prefill" => records[r].prefill_position = Len(Prompt[r])
      BY <2>1, <2>5, ItemRecord DEF RecordsInv
    <3>6. /\ completion'.prefill_position = records'[r].prefill_position
          /\ completion'.decoded_tokens = records'[r].decoded_tokens
          /\ records[r].prefill_position <= completion'.prefill_position
          /\ records[r].decoded_tokens <= completion'.decoded_tokens
      <4>1. CASE Work.kind = "Prefill" BY <2>1, <2>5, <3>4, <4>1, SMT
      <4>2. CASE Work.kind # "Prefill" BY <2>1, <2>5, <3>4, <3>5, <4>2, SMT
      <4> QED BY <4>1, <4>2
    <3>7. \A c \in Late' : c.id = r => c = completion' BY <2>2, <2>3, <2>5
    <3>8. \E c \in Late' : c.id = r BY <2>1, <2>2, <2>5
    <3> QED BY <1>0, <3>3, <3>6, <3>7, <3>8 DEF InStep
  <2> QED BY <2>4, <2>5
<1>3. CASE SamplingFails \/ RememberThrows
  BY <1>3, BrokenItem DEF RecordsInv
<1>4. CASE UNCHANGED records
  BY <1>0, <1>1, <1>2, <1>4, LateMoves
<1>5. CASE TakeRelease
  <2>1. records' = [records EXCEPT ![Head(releases)] = Nothing] BY <1>5 DEF TakeRelease
  <2>2. records'[r] = records[r] BY <1>0, <2>1 DEF Held
  <2> QED BY <1>0, <1>1, <1>2, <2>2, LateMoves
<1>6. CASE TakeAdmission \/ ResumeAdmission
  <2>1. \A x \in InFlight(request) : x # r BY <1>0 DEF InFlight
  <2>2. records'[r] = records[r] BY <1>6, <2>1, AdmissionMoves
  <2> QED BY <1>0, <1>1, <1>2, <2>2, LateMoves
<1>7. CASE ReportAdmission
  BY <1>4, <1>7 DEF ReportAdmission
<1> QED BY <1>0, <1>2, <1>3, <1>4, <1>5, <1>6, <1>7, RecordMoves

(* So does the scheduler.                                                  *)
LEMMA ProgressSchedulerStep ==
  ASSUME TypeInv, LifeInv, PathInv, LateInv, RecordsInv, ProgressInv, SchedulerThread
  PROVE  ProgressInv'
<1>0. /\ SchedulerNext
      /\ UNCHANGED <<records, env_pc, env_fatal, completion>>
      /\ request \in [Requests -> RequestStates]
      /\ completions \in Seq(Completions)
      /\ records \in [Requests -> Records \cup {Nothing}]
  BY SchedulerLeavesRecords DEF SchedulerThread, TypeInv, SchedulerTypes, ChannelTypes,
     EnvironmentTypes
<1> SUFFICES ASSUME Sound', NEW r \in Requests,
                    Held(r)', request'[r].admission = "EnvironmentOwned"
             PROVE  InStep(r)'
  BY DEF ProgressInv
<1>1. Sound /\ Held(r) BY <1>0 DEF Sound, Held
<1>2. ASSUME \A c \in Late : c.id = r => c \in Late', \A c \in Late' : c.id = r => c \in Late,
             request[r].admission = "EnvironmentOwned",
             request'[r].prompt_length = request[r].prompt_length,
             SameProgress(request[r], request'[r])
      PROVE  InStep(r)'
  <2>1. InStep(r) BY <1>1, <1>2 DEF ProgressInv
  <2> QED BY <1>0, <1>2, <2>1 DEF InStep, SameProgress
<1>3. CASE TakeCompletion
  <2> DEFINE c == Head(completions)
             q == request[c.id]
  <2>1. /\ c \in Completions /\ c.id \in Requests /\ Touches(c.id)
        /\ c \in ToSet(completions) /\ completions' = Tail(completions)
        /\ q \in RequestStates
        /\ request'[c.id] = IF q.admission = "EnvironmentOwned" THEN Folded(q, c) ELSE q
    BY <1>3, CompletionMoves
  <2>2. /\ ToSet(completions) = {c} \cup ToSet(completions')
        /\ \A d \in ToSet(completions') : d.id # c.id
    <3>1. completions # << >> BY <1>3 DEF TakeCompletion
    <3> QED BY <2>1, <3>1, TakenCompletion DEF LateInv
  <2>3. completion # Nothing => completion.id # c.id BY <2>1, LateApart
  <2>4. Folded(q, c).admission = q.admission /\ Same(q, Folded(q, c))
        /\ Folded(q, c).prefill_position = (IF q.prefill_position >= c.prefill_position
                                            THEN q.prefill_position ELSE c.prefill_position)
        /\ Folded(q, c).decoded_count = (IF q.decoded_count >= c.decoded_tokens
                                         THEN q.decoded_count ELSE c.decoded_tokens)
    BY <2>1, FoldedFields
  <2> HIDE DEF c
  <2>5. /\ Late = Late' \cup {c} /\ \A d \in Late' : d.id # c.id
    BY <1>0, <2>2, <2>3 DEF Late
  <2>6. CASE r # c.id
    <3>1. request'[r] = request[r] BY <2>1, <2>6 DEF Touches
    <3> QED BY <1>2, <2>5, <2>6, <3>1 DEF SameProgress
  <2>7. CASE r = c.id
    <3>1. q.admission = "EnvironmentOwned" BY <2>1, <2>4, <2>7
    <3>2. InStep(r) BY <1>1, <2>7, <3>1 DEF ProgressInv
    <3>3. /\ q.prompt_length = Len(Prompt[r])
          /\ c.prefill_position = records[r].prefill_position
          /\ c.decoded_tokens = records[r].decoded_tokens
          /\ q.prefill_position <= c.prefill_position
          /\ q.decoded_count <= c.decoded_tokens
      BY <2>5, <2>7, <3>2 DEF InStep
    <3>4. /\ q.prefill_position \in Nat /\ c.prefill_position \in Nat
          /\ q.decoded_count \in Nat /\ c.decoded_tokens \in Nat
      BY <2>1 DEF RequestStates, Completions
    <3>5. /\ Folded(q, c).prefill_position = c.prefill_position
          /\ Folded(q, c).decoded_count = c.decoded_tokens
      BY <2>4, <3>3, <3>4, SMT
    <3>6. request'[r] = Folded(q, c) BY <2>1, <2>7, <3>1
    <3> QED BY <1>0, <2>4, <2>5, <2>7, <3>3, <3>5, <3>6 DEF InStep, Same
  <2> QED BY <2>6, <2>7
<1>4. CASE TakeAdmissionResult
  <2> DEFINE answer == Head(admission_results)
             x == answer.id
  <2>1. /\ answer \in Results /\ x \in Requests /\ Touches(x)
        /\ ~Awaiting(x) => request' = request
        /\ Awaiting(x) /\ answer.error # "None" => request'[x].admission = "NotSent"
        /\ Awaiting(x) /\ answer.error = "None" =>
             /\ request'[x].prompt_length = answer.prompt_tokens
             /\ request'[x].prefill_position = answer.cached_prefix_tokens
             /\ request'[x].decoded_count = 0
    BY <1>4, ResultMoves
  <2>2. answer \in Answers /\ Late' = Late
    <3>1. admission_results # << >> /\ UNCHANGED completions /\ admission_results \in Seq(Results)
      BY <1>4 DEF TakeAdmissionResult, TypeInv, ChannelTypes
    <3>2. answer \in ToSet(admission_results) BY <3>1, TailSubset
    <3> QED BY <1>0, <3>1, <3>2 DEF Answers, Late
  <2> HIDE DEF answer
  <2>3. CASE r # x \/ ~Awaiting(x)
    <3>1. request'[r] = request[r] BY <2>1, <2>3 DEF Touches
    <3> QED BY <1>2, <2>2, <3>1 DEF SameProgress
  <2>4. CASE r = x /\ Awaiting(x)
    <3>1. answer.error = "None" BY <2>1, <2>4
    <3>2. Answered(answer) BY <2>2, <3>1 DEF RecordsInv, AnswerInv
    <3>3. r \in InFlight(request) BY <2>4 DEF Awaiting, InFlight
    <3>4. \A c \in Late' : c.id # r BY <2>2, <3>3, InFlightUnstarted
    <3> QED BY <1>0, <2>1, <2>4, <3>1, <3>2, <3>4 DEF InStep, Answered
  <2> QED BY <2>3, <2>4
<1>5. CASE (\A x \in Requests : Kept(x)) /\ ~TakeCompletion
  <2>1. Late' = Late BY <1>0, <1>5, SchedulerDrainsCompletions DEF Late
  <2> QED BY <1>2, <1>5, <2>1 DEF Kept
<1> QED BY <1>0, <1>3, <1>4, <1>5, KeptMoves

(* The two sides are in step all along.                                    *)
LEMMA ProgressInvariance == Spec => []ProgressInv
<1>1. Init => ProgressInv
  BY DEF Init, EnvironmentInit, ProgressInv, Held
<1>2. /\ TypeInv /\ LifeInv /\ PathInv /\ LateInv /\ RecordsInv /\ ProgressInv /\ [Next]_vars
      => ProgressInv'
  <2> SUFFICES ASSUME TypeInv, LifeInv, PathInv, LateInv, RecordsInv, ProgressInv,
                      [Next]_vars
               PROVE  ProgressInv'
    OBVIOUS
  <2>1. CASE SchedulerThread BY <2>1, ProgressSchedulerStep
  <2>2. CASE EnvironmentThread BY <2>2, ProgressEnvironmentStep
  <2>3. CASE UNCHANGED vars
    BY <2>3 DEF vars, handoffVars, schedulerVars, lifecycleVars, environmentVars, workVars,
                ProgressInv, Sound, InStep, Late, Held
  <2> QED BY <2>1, <2>2, <2>3 DEF Next, Terminated
<1> QED
  BY <1>1, <1>2, TypesInvariance, LifeInvariance, PathInvariance, LateInvariance,
     RecordsInvariance, PTL DEF Spec
-----------------------------------------------------------------------------
(* The plan in the slot: not empty, within the budget, each request once,  *)
(* and, while nothing is wrong, work for requests that are still scheduled,*)
(* which the environment finds as the scheduler described them.            *)
FitsInv ==
  published # NoPlan =>
    /\ published.work # << >>
    /\ \A i, j \in DOMAIN published.work :
         published.work[i].id = published.work[j].id => i = j
    /\ Cost(published.work) <= TokenBudget
    /\ ~draining /\ Sound =>
         \A i \in DOMAIN published.work :
           /\ request[published.work[i].id].stage \in Scheduled
           /\ Executable(published.work[i])

(* A drain never ends.                                                     *)
LEMMA DrainingStays ==
  ASSUME SchedulerNext, draining
  PROVE  draining'
<1>1. \A error, ready : EnterDraining(error, ready) => draining'
  BY Zenon DEF EnterDraining
<1>2. CASE BeginIteration
  <2>1. scheduler_stop => EnterDraining("EnvironmentStopped", terminal_ready)
    BY <1>2 DEF BeginIteration
  <2>2. ~scheduler_stop => draining' = draining BY <1>2 DEF BeginIteration
  <2>3. CASE scheduler_stop BY <1>1, <2>1, <2>3
  <2>4. CASE ~scheduler_stop BY <2>2, <2>4, Zenon
  <2> QED BY <2>3, <2>4
<1>3. CASE TakeFatal \/ ObserverFails \/ RejectPlan \/ NoWork \/ BuildThrows
  BY <1>1, <1>3 DEF TakeFatal, ObserverFails, RejectPlan, NoWork, BuildThrows
<1>4. CASE \/ RequestStop \/ FlushDone \/ SnapshotEpoch \/ StopEnvironment
           \/ DrainDone \/ ReleasesDone \/ ObserveBatch \/ FinishRun \/ KeepRunning
           \/ WaitForRelease
  BY <1>4 DEF RequestStop, FlushDone, SnapshotEpoch, StopEnvironment, DrainDone,
     ReleasesDone, ObserveBatch, FinishRun, KeepRunning, WaitForRelease, lifecycleVars
<1>5. CASE \/ \E r \in Requests : Submit(r)
           \/ FlushAdmission \/ TakeAdmissionResult \/ TakeOutput \/ TakeCompletion
           \/ TakeReleaseAck \/ TryRelease \/ RetireTerminal \/ PublishPlan
  BY <1>5 DEF Submit, FlushAdmission, TakeAdmissionResult, TakeOutput, TakeCompletion,
     TakeReleaseAck, TryRelease, RetireTerminal, PublishPlan
<1> QED BY <1>2, <1>3, <1>4, <1>5 DEF SchedulerNext, SchedulerStep

(* A scheduled request is in the environment's hands.                      *)
LEMMA ScheduledIsHeld ==
  ASSUME TypeInv, LifeInv, PathInv, NEW r \in Requests, request[r].stage \in Scheduled
  PROVE  request[r].admission = "EnvironmentOwned" /\ ~request[r].release_sent /\ Held(r)
<1>1. Coherent(request[r]) BY DEF LifeInv, CoherentInv
<1>2. request[r].admission = "EnvironmentOwned" /\ ~request[r].release_sent
  BY <1>1 DEF Coherent, Scheduled
<1> QED BY <1>2 DEF PathInv, HeldInv

(* When the scheduler publishes, the environment has done with its plan    *)
(* and no completion is on its way.                                        *)
LEMMA PublishedAtRest ==
  ASSUME TypeInv, EpochInv, LateInv, PublishPlan
  PROVE  Late = {} /\ env_pc \notin Executing
<1>1. run_pc = "decide" /\ plan_done BY DEF PublishPlan, MaySchedule
<1>2. completions = << >> BY <1>1 DEF LateInv, AfterCompletions
<1>3. completed_epoch >= published_epoch BY <1>1 DEF EpochInv, AfterSnapshot
<1>4. env_pc \notin Executing BY <1>3, SMT DEF EpochInv
<1>5. completion = Nothing BY <1>4 DEF TypeInv, EnvironmentTypes, Executing
<1> QED BY <1>2, <1>4, <1>5, ToSetEmpty DEF Late

(* What the scheduler publishes fits: it has drained every completion of   *)
(* the plan before, so its positions are those of the records.             *)
LEMMA PublishedFits ==
  ASSUME TypeInv, LifeInv, PathInv, EpochInv, LateInv, ProgressInv,
         SchedulerThread, PublishPlan
  PROVE  FitsInv'
<1>0. UNCHANGED <<records, env_pc, env_fatal>>
  BY SchedulerLeavesRecords
<1>1. PICK work \in Seq(WorkItems) :
        /\ work # << >> /\ ValidPlan(work)
        /\ published' = [epoch |-> published_epoch + 1, work |-> work]
        /\ \A r \in Requests : request'[r].stage = request[r].stage
  BY PublishMoves, Zenon
<1>2. published'.work = work BY <1>1
<1>3. /\ \A i, j \in DOMAIN work : work[i].id = work[j].id => i = j
      /\ Cost(work) <= TokenBudget
      /\ \A i \in DOMAIN work : ValidWork(work[i])
  BY <1>1 DEF ValidPlan
<1>4. Late = {} BY PublishedAtRest
<1>5. ASSUME Sound, NEW i \in DOMAIN work
      PROVE  request[work[i].id].stage \in Scheduled /\ Executable(work[i])
  <2> DEFINE w == work[i]
             q == request[w.id]
  <2>1. w \in WorkItems BY <1>1, SeqElements
  <2>2. w.id \in Requests /\ w.begin \in Nat /\ w.end \in Nat BY <2>1 DEF WorkItems
  <2>3. /\ w.begin < w.end
        /\ \/ /\ w.kind = "Prefill" /\ q.stage = "Prefill"
              /\ w.begin = q.prefill_position /\ w.end <= q.prompt_length
           \/ /\ w.kind = "Decode" /\ q.stage = "Decode" /\ q.decoded_count >= 1
              /\ w.end = q.prompt_length + q.decoded_count /\ w.begin = w.end - 1
    BY <1>3 DEF ValidWork
  <2> HIDE DEF w
  <2>4. q.stage \in Scheduled BY <2>3 DEF Scheduled
  <2>5. Held(w.id) /\ q.admission = "EnvironmentOwned" BY <2>2, <2>4, ScheduledIsHeld
  <2>6. InStep(w.id) BY <1>5, <2>2, <2>5 DEF ProgressInv
  <2>7. /\ q.prompt_length = Len(Prompt[w.id])
        /\ q.prefill_position = records[w.id].prefill_position
        /\ q.decoded_count = records[w.id].decoded_tokens
    BY <1>4, <2>6 DEF InStep
  <2>8. Len(Prompt[w.id]) \in Nat /\ records[w.id].decoded_tokens \in Nat
    <3>1. q \in RequestStates BY <2>2 DEF TypeInv, SchedulerTypes
    <3> QED BY <2>7, <3>1 DEF RequestStates
  <2>9. Executable(w)
    <3>1. CASE w.kind = "Prefill"
      BY <2>3, <2>5, <2>7, <3>1 DEF Executable
    <3>2. CASE w.kind = "Decode"
      <4>1. records[w.id].decoded_tokens # 0 BY <2>3, <2>7, <2>8, <3>2, SMT
      <4>2. w.begin = Len(Prompt[w.id]) + records[w.id].decoded_tokens - 1 /\ w.end = w.begin + 1
        <5>1. w.end = Len(Prompt[w.id]) + records[w.id].decoded_tokens /\ w.begin = w.end - 1
          BY <2>3, <2>7, <3>2
        <5> HIDE DEF q
        <5> QED BY <2>2, <2>8, <5>1, SMT
      <4> QED BY <2>3, <2>5, <3>2, <4>1, <4>2 DEF Executable
    <3> QED BY <2>3, <3>1, <3>2
  <2> QED BY <2>4, <2>9 DEF w
<1>6. ASSUME Sound', NEW i \in DOMAIN work
      PROVE  request'[work[i].id].stage \in Scheduled /\ Executable(work[i])'
  <2>1. work[i] \in WorkItems BY <1>1, SeqElements
  <2>2. work[i].id \in Requests BY <2>1 DEF WorkItems
  <2> QED BY <1>0, <1>1, <1>5, <1>6, <2>2 DEF Sound, Executable, Held
<1> QED BY <1>1, <1>2, <1>3, <1>6 DEF FitsInv

(* The plan the scheduler publishes fits, and goes on doing so.            *)
LEMMA FitsSchedulerStep ==
  ASSUME TypeInv, LifeInv, PathInv, EpochInv, LateInv, ProgressInv, FitsInv,
         SchedulerThread
  PROVE  FitsInv'
<1>0. /\ SchedulerNext /\ UNCHANGED <<records, env_pc, env_fatal>>
      /\ draining \in BOOLEAN /\ published \in Plans /\ plan \in Plans
      /\ request \in [Requests -> RequestStates]
  BY SchedulerLeavesRecords DEF SchedulerThread, TypeInv, SchedulerTypes, ChannelTypes,
     EnvironmentTypes
<1>1. CASE PublishPlan BY <1>1, PublishedFits
<1>2. CASE UNCHANGED published /\ published = NoPlan BY <1>2 DEF FitsInv
<1>3. CASE UNCHANGED published /\ published # NoPlan
  <2>1. ASSUME ~draining', Sound', NEW i \in DOMAIN published.work
        PROVE  /\ request'[published.work[i].id].stage \in Scheduled
               /\ Executable(published.work[i])'
    <3> DEFINE r == published.work[i].id
    <3>1. ~draining /\ Sound BY <1>0, <2>1, DrainingStays DEF Sound
    <3>2. request[r].stage \in Scheduled /\ Executable(published.work[i])
      BY <1>3, <2>1, <3>1 DEF FitsInv
    <3>3. r \in Requests
      <4>1. published.work[i] \in WorkItems BY <1>0, <2>1, PlannedRequests
      <4> QED BY <4>1 DEF WorkItems
    <3>4. Executable(published.work[i])'
      BY <1>0, <1>3, <3>2 DEF Executable, Held
    <3> HIDE DEF r
    <3>5. request'[r].stage \in Scheduled
      <4>1. CASE TakeCompletion
        BY <1>3, <4>1 DEF TakeCompletion, LateInv
      <4>2. CASE TakeAdmissionResult
        <5> DEFINE x == Head(admission_results).id
        <5>1. /\ x \in Requests /\ Touches(x)
              /\ ~Awaiting(x) => request' = request
          BY <4>2, ResultMoves
        <5> HIDE DEF x
        <5>2. ASSUME Awaiting(x) PROVE x # r
          <6>1. request[x].stage = "PendingAdmission" BY <5>1, <5>2, AwaitingState
          <6> QED BY <3>2, <6>1 DEF Scheduled
        <5> QED BY <3>2, <3>3, <5>1, <5>2 DEF Touches
      <4>3. CASE \A x \in Requests : Kept(x)
        <5>1. Kept(r) BY <3>3, <4>3
        <5> QED BY <2>1, <3>2, <5>1 DEF Kept
      <4> QED BY <1>0, <4>1, <4>2, <4>3, KeptMoves
    <3> QED BY <3>4, <3>5 DEF r
  <2> QED BY <1>3, <2>1 DEF FitsInv
<1> QED BY <1>0, <1>1, <1>2, <1>3, SchedulerDrainsCompletions

(* No step of the environment makes a plan unfit.                          *)
LEMMA FitsEnvironmentStep ==
  ASSUME TypeInv, LifeInv, PathInv, EpochInv, RecordsInv, FitsInv, EnvironmentThread
  PROVE  FitsInv'
<1> SUFFICES ASSUME published' # NoPlan PROVE FitsInv'
  BY DEF FitsInv
<1>0. /\ EnvironmentNext /\ UNCHANGED <<request, draining>>
      /\ published \in Plans /\ plan \in Plans
      /\ records \in [Requests -> Records \cup {Nothing}]
      /\ request \in [Requests -> RequestStates]
  BY DEF EnvironmentThread, schedulerVars, lifecycleVars, TypeInv,
         SchedulerTypes, ChannelTypes, EnvironmentTypes
<1>1. published' = published
  <2>1. ConsumePlan => published' = NoPlan BY DEF ConsumePlan
  <2>2. AdvancePrefill \/ SampleToken \/ ReportCompletion \/ RetirePlan =>
          published' = published
    BY DEF AdvancePrefill, SampleToken, ReportCompletion, RetirePlan, executionUnchanged
  <2> QED BY <1>0, <2>1, <2>2, PlanMoves DEF PlanIdles
<1>2. env_pc \notin Executing BY <1>1 DEF EpochInv
<1>3. ASSUME ~draining', Sound', NEW i \in DOMAIN published.work
      PROVE  /\ request'[published.work[i].id].stage \in Scheduled
             /\ Executable(published.work[i])'
  <2> DEFINE r == published.work[i].id
  <2>1. ~draining /\ Sound BY <1>0, <1>3, SoundBefore DEF EnvironmentThread, Next
  <2>2. request[r].stage \in Scheduled /\ Executable(published.work[i])
    BY <1>1, <1>3, <2>1 DEF FitsInv
  <2>3. r \in Requests
    <3>1. published.work[i] \in WorkItems BY <1>0, <1>3, PlannedRequests
    <3> QED BY <3>1 DEF WorkItems
  <2>4. records'[r] = records[r]
    <3>1. CASE UNCHANGED records BY <3>1
    <3>2. CASE AdvancePrefill \/ SampleToken \/ SamplingFails \/ RememberThrows
      BY <1>2, <3>2 DEF AdvancePrefill, SampleToken, SamplingFails, RememberThrows, Executing
    <3>3. CASE TakeRelease
      <4>1. /\ records' = [records EXCEPT ![Head(releases)] = Nothing]
            /\ releases # << >> /\ releases \in Seq(Requests)
        BY <3>3 DEF TakeRelease, TypeInv, ChannelTypes
      <4>2. Head(releases) \in Releasing(request)
        <5>1. Head(releases) \in ToSet(releases) BY <4>1, TailSubset
        <5> QED BY <5>1, PathMembers
      <4>3. r \notin Releasing(request) BY <2>2, <2>3, ScheduledIsHeld DEF Releasing
      <4> QED BY <1>0, <2>3, <4>1, <4>2, <4>3
    <3>4. CASE TakeAdmission \/ ResumeAdmission
      <4>1. r \notin InFlight(request) BY <2>2, <2>3, ScheduledIsHeld DEF InFlight
      <4>2. \A x \in InFlight(request) : x # r BY <4>1
      <4> QED BY <2>3, <3>4, <4>2, AdmissionMoves
    <3>5. CASE ReportAdmission BY <3>5 DEF ReportAdmission
    <3> QED BY <1>0, <3>1, <3>2, <3>3, <3>4, <3>5, RecordMoves
  <2> QED BY <1>0, <1>1, <2>2, <2>4 DEF Executable, Held
<1> QED BY <1>0, <1>1, <1>3 DEF FitsInv

(* A published plan fits all along.                                        *)
LEMMA FitsInvariance == Spec => []FitsInv
<1>1. Init => FitsInv
  BY DEF Init, HandoffInit, FitsInv
<1>2. /\ TypeInv /\ LifeInv /\ PathInv /\ EpochInv /\ LateInv /\ RecordsInv /\ ProgressInv
      /\ FitsInv /\ [Next]_vars
      => FitsInv'
  <2> SUFFICES ASSUME TypeInv, LifeInv, PathInv, EpochInv, LateInv, RecordsInv, ProgressInv,
                      FitsInv, [Next]_vars
               PROVE  FitsInv'
    OBVIOUS
  <2>1. CASE SchedulerThread BY <2>1, FitsSchedulerStep
  <2>2. CASE EnvironmentThread BY <2>2, FitsEnvironmentStep
  <2>3. CASE UNCHANGED vars
    BY <2>3 DEF vars, handoffVars, schedulerVars, lifecycleVars, environmentVars,
                FitsInv, Sound, Executable, Held
  <2> QED BY <2>1, <2>2, <2>3 DEF Next, Terminated
<1> QED
  BY <1>1, <1>2, TypesInvariance, LifeInvariance, PathInvariance, EpochInvariance,
     LateInvariance, RecordsInvariance, ProgressInvariance, PTL DEF Spec

(* Where the environment's loop never is when no prefix fails to be saved. *)
LEMMA NeverUnwinds ==
  ASSUME "remember" \notin Faults
  PROVE  Spec => [](env_pc \notin {"unwind", "catch"})
<1> DEFINE Inv == env_pc \notin {"unwind", "catch"}
<1>1. Init => Inv BY DEF Init, EnvironmentInit
<1>2. Inv /\ [Next]_vars => Inv'
  <2> SUFFICES ASSUME Inv, [Next]_vars PROVE Inv'
    OBVIOUS
  <2>1. CASE SchedulerThread BY <2>1, SchedulerLeavesRecords
  <2>2. CASE EnvironmentThread
    <3>1. ASSUME NEW p, Resolve(p) PROVE env_pc' \in {"result", "plan", "top"}
      BY <3>1 DEF Resolve, Reject, ValidationThrows, Hold, SamplerFails, Accept,
                  RestoreBreaks, AcceptThrows, Assign, Report
    <3>2. CASE TakeAdmission \/ ResumeAdmission
      BY <3>1, <3>2 DEF TakeAdmission, ResumeAdmission
    <3>3. CASE ~(TakeAdmission \/ ResumeAdmission)
      BY <2>2, <3>3 DEF EnvironmentThread, EnvironmentNext, BeginTurn, TakeRelease,
         AcknowledgeRelease, ReleasesTaken, ReportAdmission, AdmissionsTaken, SkipPlan,
         ConsumePlan, AdvancePrefill, SampleToken, SamplingFails, RememberThrows,
         ReportOutput, ReportCompletion, PlanExecuted, RetirePlan, Catch
    <3> QED BY <3>2, <3>3
  <2>3. CASE UNCHANGED vars BY <2>3 DEF vars, environmentVars
  <2> QED BY <2>1, <2>2, <2>3 DEF Next, Terminated
<1> QED BY <1>1, <1>2, PTL DEF Spec

(* A plan the scheduler publishes is one the environment accepts, under    *)
(* any policy and whatever fails (scheduler.cpp:133-136), except that an   *)
(* allocation may throw while a prefix is saved (environment.cpp:486) and  *)
(* the plan be retired before the failure is known.  The driver refuses a  *)
(* token budget above the capacity of a batch (benchmark_main.cpp:180-181).*)
THEOREM PlansAlwaysFit ==
  ASSUME TokenBudget <= BatchCapacity, "remember" \notin Faults
  PROVE  Spec => []PlanFitsEnvironment
<1>1. \A work : Cost(work) = BatchTokens(work)
  BY DEF Cost, BatchTokens
<1>2. TypeInv /\ FitsInv /\ env_pc \notin {"unwind", "catch"} => PlanFitsEnvironment
  <2> SUFFICES ASSUME TypeInv, FitsInv, env_pc \notin {"unwind", "catch"},
                      published # NoPlan, ~draining, ~env_fatal
               PROVE  Acceptable(published.work)
    BY DEF PlanFitsEnvironment
  <2>1. /\ published.work # << >>
        /\ \A i, j \in DOMAIN published.work :
             published.work[i].id = published.work[j].id => i = j
        /\ Cost(published.work) <= TokenBudget
        /\ \A i \in DOMAIN published.work : Executable(published.work[i])
    BY DEF FitsInv, Sound
  <2>2. Cost(published.work) \in Int
    <3> DEFINE work == published.work
    <3>1. work \in Seq(WorkItems) BY DEF TypeInv, ChannelTypes, Plans
    <3>2. /\ Len(work) \in Nat
          /\ \A i \in 1 .. Len(work) : work[i] \in WorkItems
      BY <3>1, SeqElements
    <3> HIDE DEF work
    <3>3. \A i \in 1 .. Len(work) : work[i].begin \in Nat /\ work[i].end \in Nat
      BY <3>2 DEF WorkItems
    <3> QED BY <3>2, <3>3, TallyType DEF Cost, work
  <2>3. BatchTokens(published.work) <= BatchCapacity
    <3>1. TokenBudget \in Int /\ BatchCapacity \in Int
      BY SchedulerAssumption, EnvironmentAssumption, SMT
    <3>2. BatchTokens(published.work) = Cost(published.work) BY <1>1
    <3> QED BY <2>1, <2>2, <3>1, <3>2, SMT
  <2> QED BY <2>1, <2>3 DEF Acceptable
<1> QED BY <1>2, TypesInvariance, FitsInvariance, NeverUnwinds, PTL
-----------------------------------------------------------------------------
(* Answers in full.  While work for a request is still to be executed, or  *)
(* a completion of it is on its way, the request stays scheduled, unless   *)
(* it was given an error, and is short of its limit; so its last           *)
(* completion is folded before it ends, and none takes it past its limit.  *)
Remaining ==
  {published.work[i].id : i \in DOMAIN published.work}
    \cup (IF env_pc \in AtItems
          THEN {plan.work[i].id : i \in {j \in DOMAIN plan.work : j >= item}} ELSE {})

Open(r) ==
  /\ request[r].stage \in Scheduled \/ request[r].terminal_error # "None"
  /\ request[r].decoded_count < MaxOutput[r]

Ahead(c) ==
  /\ request[c.id].prefill_position <= c.prefill_position
  /\ c.prefill_position <= Len(Prompt[c.id])
  /\ c.decoded_tokens <= request[c.id].decoded_count + 1
  /\ c.decoded_tokens # 0 => c.prefill_position = Len(Prompt[c.id])
  /\ c.eos => c.decoded_tokens # 0

Full(r) ==
  LET q == request[r]
  IN  /\ MaxOutput[r] > 0 => q.prefill_position = Len(Prompt[r])
      /\ \/ q.decoded_count = MaxOutput[r]
         \/ r \in Natural /\ q.decoded_count \in 1 .. MaxOutput[r]

Served(r) ==
  /\ request[r].stage \in Scheduled => request[r].decoded_count < MaxOutput[r]
  /\ request[r].stage \in Ended /\ request[r].terminal_error = "None" => Full(r)

DrainInv == draining <=> drain_error # "None"

ServedInv ==
  /\ env_pc \in AtItems => ~env_fatal
  /\ DrainInv
  /\ \A r \in Remaining : Open(r)
  /\ \A c \in Late : Open(c.id) /\ Ahead(c)
  /\ \A r \in Requests : Served(r)

(* What a request keeps of all this when the scheduler takes no answer.    *)
LEMMA ServedKept ==
  ASSUME NEW r \in Requests, Kept(r), NeverBack(request[r], request'[r])
  PROVE  /\ Open(r) => Open(r)'
         /\ Served(r) => Served(r)'
<1>1. Open(r) => Open(r)' BY DEF Open, Kept, NeverBack, SameProgress
<1>2. ASSUME Served(r) PROVE Served(r)'
  <2>1. request'[r].stage \in Scheduled =>
          request[r].stage \in Scheduled /\ request'[r].decoded_count = request[r].decoded_count
    BY DEF Kept, SameProgress
  <2>2. request'[r].stage \in Ended /\ request'[r].terminal_error = "None" =>
          /\ request[r].stage \in Ended /\ request[r].terminal_error = "None"
          /\ SameProgress(request[r], request'[r])
    BY DEF Kept, NeverBack
  <2>3. request'[r].stage \in Ended /\ request'[r].terminal_error = "None" => Full(r)'
    BY <1>2, <2>2 DEF Served, Full, SameProgress
  <2> QED BY <1>2, <2>1, <2>3 DEF Served
<1> QED BY <1>1, <1>2

(* enter_draining sets its flag and its error together.                    *)
LEMMA DrainErrorStays ==
  ASSUME TypeInv, DrainInv, SchedulerNext
  PROVE  DrainInv'
<1>1. ASSUME NEW error \in Errors \ {"None"}, NEW ready, EnterDraining(error, ready)
      PROVE  DrainInv'
  BY <1>1 DEF EnterDraining, DrainInv
<1>2. ASSUME UNCHANGED <<draining, drain_error>> PROVE DrainInv'
  BY <1>2, Zenon DEF DrainInv
<1>3. "EnvironmentStopped" \in Errors \ {"None"} /\ "ProtocolViolation" \in Errors \ {"None"}
  BY DEF Errors
<1>4. CASE BeginIteration BY <1>1, <1>2, <1>3, <1>4 DEF BeginIteration
<1>5. CASE TakeFatal
  <2>1. Head(fatals) \in Errors \ {"None"}
    BY <1>5, HeadTailProperties DEF TakeFatal, TypeInv, ChannelTypes
  <2> QED BY <1>1, <1>5, <2>1 DEF TakeFatal
<1>6. CASE ObserverFails \/ RejectPlan \/ NoWork \/ BuildThrows
  BY <1>1, <1>3, <1>6 DEF ObserverFails, RejectPlan, NoWork, BuildThrows
<1>7. CASE \/ RequestStop \/ FlushDone \/ SnapshotEpoch \/ StopEnvironment
           \/ DrainDone \/ ReleasesDone \/ ObserveBatch \/ FinishRun \/ KeepRunning
           \/ WaitForRelease
  BY <1>2, <1>7 DEF RequestStop, FlushDone, SnapshotEpoch, StopEnvironment, DrainDone,
     ReleasesDone, ObserveBatch, FinishRun, KeepRunning, WaitForRelease, lifecycleVars
<1>8. CASE \/ \E r \in Requests : Submit(r)
           \/ FlushAdmission \/ TakeAdmissionResult \/ TakeOutput \/ TakeCompletion
           \/ TakeReleaseAck \/ TryRelease \/ RetireTerminal \/ PublishPlan
  BY <1>2, <1>8 DEF Submit, FlushAdmission, TakeAdmissionResult, TakeOutput, TakeCompletion,
     TakeReleaseAck, TryRelease, RetireTerminal, PublishPlan
<1> QED BY <1>4, <1>5, <1>6, <1>7, <1>8 DEF SchedulerNext, SchedulerStep

(* The completion being taken is of the last work its request has in hand. *)
LEMMA TakenIsLast ==
  ASSUME TypeInv, LateInv, completions # << >>
  PROVE  /\ Head(completions).id \notin Remaining
         /\ \A d \in ToSet(Tail(completions)) : d.id # Head(completions).id
         /\ completion # Nothing => completion.id # Head(completions).id
<1> DEFINE c == Head(completions)
<1>1. /\ completions \in Seq(Completions) /\ c \in ToSet(completions)
      /\ item \in Nat /\ plan.work \in Seq(WorkItems)
  BY TailSubset DEF TypeInv, ChannelTypes, EnvironmentTypes, Plans
<1>2. published = NoPlan BY DEF LateInv
<1>3. DOMAIN NoPlan.work = {} BY SMT DEF NoPlan
<1> HIDE DEF c
<1>4. ASSUME env_pc \in AtItems, NEW i \in DOMAIN plan.work, i >= item
      PROVE  plan.work[i].id # c.id
  <2>1. PICK k \in DOMAIN plan.work : k < item /\ plan.work[k].id = c.id
    BY <1>1, <1>4 DEF LateInv
  <2>2. k # i
    <3>1. k \in Int /\ i \in Int BY <1>1, <1>4, <2>1, SeqElements, SMT
    <3> QED BY <1>1, <1>4, <2>1, <3>1, SMT
  <2>3. \A j, l \in DOMAIN plan.work : plan.work[j].id = plan.work[l].id => j = l
    BY <1>4 DEF TypeInv, ExecutionInv, AtItems
  <2> QED BY <1>4, <2>1, <2>2, <2>3
<1>5. c.id \notin Remaining BY <1>2, <1>3, <1>4 DEF Remaining
<1>6. \A d \in ToSet(Tail(completions)) : d.id # c.id
  BY TakenCompletion DEF LateInv, c
<1>7. completion # Nothing => completion.id # c.id BY <1>1, LateApart
<1> QED BY <1>5, <1>6, <1>7 DEF c

(* A completion ends its request when it makes the answer full, and only   *)
(* then.                                                                   *)
LEMMA CompletionServes ==
  ASSUME TypeInv, LifeInv, LateInv, ServedInv, TakeCompletion
  PROVE  \A r \in Requests : Served(r)'
<1>0. PICK c, r : c = Head(completions) /\ r = c.id
  OBVIOUS
<1> DEFINE q == request[r]
           new == Folded(q, c)
<1>1. /\ c \in Completions /\ r \in Requests /\ Touches(r)
      /\ c \in ToSet(completions) /\ q \in RequestStates
      /\ request'[r] = IF q.admission = "EnvironmentOwned" THEN new ELSE q
  BY <1>0, CompletionMoves
<1>2. \A x \in Requests : request'[x] = request[x] => Served(x)'
  BY DEF ServedInv, Served, Full
<1>3. ASSUME q.admission = "EnvironmentOwned" PROVE Served(r)'
  <2>1. /\ new.terminal_error = q.terminal_error
        /\ new.prefill_position = (IF q.prefill_position >= c.prefill_position
                                   THEN q.prefill_position ELSE c.prefill_position)
        /\ new.decoded_count = (IF q.decoded_count >= c.decoded_tokens
                                THEN q.decoded_count ELSE c.decoded_tokens)
        /\ q.stage = "PendingRelease" => new.stage = "PendingRelease"
        /\ q.stage # "PendingRelease" =>
             new.stage = IF HasEnded(new, c) THEN "PendingRelease" ELSE StageOf(new)
    BY <1>1, FoldedFields
  <2>2. /\ q.prefill_position \in Nat /\ c.prefill_position \in Nat
        /\ q.decoded_count \in Nat /\ c.decoded_tokens \in Nat
        /\ MaxOutput[r] \in Nat /\ q.stage \in Stages
    BY <1>1, HandoffAssumption DEF RequestStates, Completions
  <2>3. q.stage \in Scheduled \cup {"PendingRelease"}
    <3>1. Fresh("Unsubmitted").admission = "NotSent" BY DEF Fresh
    <3>2. Coherent(q) BY <1>1 DEF LifeInv, CoherentInv
    <3> QED BY <1>3, <2>2, <3>1, <3>2 DEF Coherent, Stages, Scheduled
  <2>4. c \in Late BY <1>1 DEF Late
  <2>5. /\ Served(r) /\ Open(r) /\ Ahead(c) BY <1>0, <1>1, <2>4 DEF ServedInv
  <2>6. request'[r] = new BY <1>1, <1>3
  <2>7. HasEnded(new, c) <=> (c.eos /\ r \in Natural) \/ new.decoded_count >= MaxOutput[r]
    BY <1>0 DEF HasEnded
  <2>8. StageOf(new) \in Scheduled BY DEF StageOf, Scheduled
  <2> HIDE DEF new, q
  <2>9. CASE q.stage = "PendingRelease"
    <3>1. q.terminal_error # "None" BY <2>5, <2>9 DEF Open, Scheduled, q
    <3> QED BY <2>1, <2>6, <2>9, <3>1 DEF Served, Scheduled
  <2>10. CASE q.stage \in Scheduled
    <3>1. /\ q.decoded_count < MaxOutput[r]
          /\ q.prefill_position <= c.prefill_position
          /\ c.decoded_tokens <= q.decoded_count + 1
          /\ c.decoded_tokens # 0 => c.prefill_position = Len(Prompt[r])
          /\ c.eos => c.decoded_tokens # 0
      BY <1>0, <2>5, <2>10 DEF Served, Ahead, q
    <3>2. /\ new.prefill_position = c.prefill_position
          /\ new.decoded_count <= MaxOutput[r]
          /\ new.decoded_count >= c.decoded_tokens /\ new.decoded_count \in Nat
      BY <2>1, <2>2, <3>1, SMT
    <3>3. CASE ~HasEnded(new, c)
      <4>1. new.decoded_count < MaxOutput[r] BY <2>2, <2>7, <3>2, <3>3, SMT
      <4>2. new.stage \in Scheduled BY <2>1, <2>8, <2>10, <3>3 DEF Scheduled
      <4> QED BY <2>6, <4>1, <4>2 DEF Served, Scheduled, Ended
    <3>4. CASE HasEnded(new, c)
      <4>1. new.stage = "PendingRelease" BY <2>1, <2>10, <3>4 DEF Scheduled
      <4>2. c.decoded_tokens # 0
        <5>1. CASE c.eos BY <3>1, <5>1
        <5>2. CASE new.decoded_count >= MaxOutput[r]
          BY <2>1, <2>2, <3>1, <5>2, SMT
        <5> QED BY <2>7, <3>4, <5>1, <5>2
      <4>3. new.prefill_position = Len(Prompt[r]) BY <3>1, <3>2, <4>2
      <4>4. \/ new.decoded_count = MaxOutput[r]
            \/ r \in Natural /\ new.decoded_count \in 1 .. MaxOutput[r]
        <5>1. CASE new.decoded_count >= MaxOutput[r] BY <2>2, <3>2, <5>1, SMT
        <5>2. CASE r \in Natural
          <6>1. new.decoded_count \in 1 .. MaxOutput[r] BY <2>2, <3>2, <4>2, SMT
          <6> QED BY <5>2, <6>1
        <5> QED BY <2>7, <3>4, <5>1, <5>2
      <4> QED BY <2>6, <4>1, <4>3, <4>4 DEF Served, Full, Scheduled
    <3> QED BY <3>3, <3>4
  <2> QED BY <2>3, <2>9, <2>10
<1>4. Served(r)' BY <1>1, <1>2, <1>3
<1>5. \A x \in Requests : x # r => request'[x] = request[x] BY <1>1 DEF Touches
<1> QED BY <1>2, <1>4, <1>5

(* What is still to be done for a request is so after a step that leaves   *)
(* alone the requests it is to be done for, or keeps what they have got.   *)
LEMMA ServedStays ==
  ASSUME TypeInv, LateInv, ServedInv, Monotone,
         Late' \subseteq Late, Remaining' \subseteq Remaining,
         \A r \in Remaining' : request'[r] = request[r] \/ Kept(r),
         \A c \in Late' : request'[c.id] = request[c.id] \/ Kept(c.id)
  PROVE  /\ \A r \in Remaining' : Open(r)'
         /\ \A c \in Late' : Open(c.id)' /\ Ahead(c)'
<1>1. published \in Plans /\ plan \in Plans
  BY DEF TypeInv, ChannelTypes, EnvironmentTypes
<1>2. \A r \in Remaining : r \in Requests
  <2>1. Remaining \subseteq Planned BY DEF Remaining, Planned
  <2> QED BY <1>1, <2>1, PlannedRequests
<1>3. \A c \in Late : c.id \in Requests BY LateApart
<1>4. ASSUME NEW r \in Requests, request'[r] = request[r] \/ Kept(r)
      PROVE  /\ Open(r) => Open(r)'
             /\ SameProgress(request[r], request'[r])
  <2>1. CASE request'[r] = request[r] BY <2>1 DEF Open, SameProgress
  <2>2. CASE Kept(r)
    <3>1. NeverBack(request[r], request'[r]) BY DEF Monotone
    <3> QED BY <2>2, <3>1, ServedKept DEF Kept
  <2> QED BY <1>4, <2>1, <2>2
<1>5. \A r \in Remaining' : Open(r)' BY <1>2, <1>4 DEF ServedInv
<1>6. ASSUME NEW c \in Late' PROVE Open(c.id)' /\ Ahead(c)'
  <2>1. /\ c.id \in Requests /\ Open(c.id) /\ Ahead(c)
    BY <1>3, <1>6 DEF ServedInv
  <2>2. Open(c.id)' /\ SameProgress(request[c.id], request'[c.id])
    BY <1>4, <1>6, <2>1
  <2> QED BY <2>1, <2>2 DEF Ahead, SameProgress
<1> QED BY <1>5, <1>6

(* An answer the scheduler takes starts its request from where the record  *)
(* starts, or ends it with an error or with nothing to do.                 *)
LEMMA ResultServes ==
  ASSUME TypeInv, LifeInv, ServedInv, TakeAdmissionResult
  PROVE  \A r \in Requests : Served(r)'
<1>0. PICK answer, r : answer = Head(admission_results) /\ r = answer.id
  OBVIOUS
<1> DEFINE q == request[r]
           new == request'[r]
<1>1. /\ answer \in Results /\ r \in Requests /\ Touches(r)
      /\ ~Awaiting(r) => request' = request
      /\ Awaiting(r) /\ answer.error # "None" =>
           /\ new.stage = "Terminal" /\ new.terminal_error = FirstError(q.terminal_error, answer.error)
      /\ Awaiting(r) /\ answer.error = "None" =>
           /\ new.decoded_count = 0 /\ new.stage \in {"Prefill", "PendingRelease"}
           /\ new.stage = "PendingRelease" <=> draining \/ MaxOutput[r] = 0
           /\ new.stage = "PendingRelease" =>
                new.terminal_error = FirstError(q.terminal_error, drain_error)
  BY <1>0, ResultMoves
<1>2. \A x \in Requests : request'[x] = request[x] => Served(x)'
  BY DEF ServedInv, Served, Full
<1>3. ASSUME Awaiting(r) PROVE Served(r)'
  <2>1. CASE answer.error # "None"
    <3>1. FirstError(q.terminal_error, answer.error) # "None" BY <2>1 DEF FirstError
    <3> QED BY <1>1, <1>3, <2>1, <3>1 DEF Served, Scheduled
  <2>2. CASE answer.error = "None" /\ new.stage = "Prefill"
    <3>1. MaxOutput[r] \in Nat /\ MaxOutput[r] # 0 /\ new.decoded_count = 0
      BY <1>1, <1>3, <2>2, HandoffAssumption
    <3>2. 0 < MaxOutput[r] BY <3>1, SMT
    <3> HIDE DEF new
    <3>3. new.decoded_count < MaxOutput[r] BY <3>1, <3>2
    <3> QED BY <2>2, <3>3 DEF Served, Ended, new
  <2>3. CASE answer.error = "None" /\ new.stage = "PendingRelease"
    <3>1. new.decoded_count = 0 /\ (draining \/ MaxOutput[r] = 0)
          /\ new.terminal_error = FirstError(q.terminal_error, drain_error)
      BY <1>1, <1>3, <2>3
    <3>2. CASE draining
      <4>1. drain_error # "None" BY <3>2 DEF ServedInv, DrainInv
      <4>2. new.terminal_error # "None" BY <3>1, <4>1 DEF FirstError
      <4> QED BY <2>3, <4>2 DEF Served, Scheduled
    <3>3. CASE MaxOutput[r] = 0
      BY <2>3, <3>1, <3>3, SMT DEF Served, Full, Scheduled
    <3> QED BY <3>1, <3>2, <3>3
  <2> QED BY <1>1, <1>3, <2>1, <2>2, <2>3
<1>4. \A x \in Requests : x # r => request'[x] = request[x] BY <1>1 DEF Touches
<1> QED BY <1>1, <1>2, <1>3, <1>4

(* Every step of the scheduler keeps the answers on their way to full.     *)
LEMMA ServedSchedulerStep ==
  ASSUME TypeInv, LifeInv, PathInv, EpochInv, LateInv, ServedInv, SchedulerThread
  PROVE  ServedInv'
<1>0. /\ SchedulerNext
      /\ UNCHANGED <<records, env_pc, env_fatal, plan, item, completion>>
      /\ request \in [Requests -> RequestStates]
      /\ completions \in Seq(Completions) /\ plan \in Plans /\ published \in Plans
  BY SchedulerLeavesRecords DEF SchedulerThread, TypeInv, SchedulerTypes, ChannelTypes,
     EnvironmentTypes
<1>1. Monotone BY LifeNext DEF Next
<1>2. DrainInv' /\ (env_pc' \in AtItems => ~env_fatal')
  BY <1>0, DrainErrorStays DEF ServedInv
<1>3. ASSUME \A r \in Requests : Kept(r) PROVE \A r \in Requests : Served(r)'
  BY <1>1, <1>3, ServedKept DEF Monotone, ServedInv
<1>4. ASSUME UNCHANGED published, Late' \subseteq Late, \A r \in Requests : Served(r)',
             \A r \in Remaining : request'[r] = request[r] \/ Kept(r),
             \A c \in Late' : request'[c.id] = request[c.id] \/ Kept(c.id)
      PROVE  ServedInv'
  <2>1. Remaining' = Remaining BY <1>0, <1>4 DEF Remaining
  <2>2. /\ \A r \in Remaining' : Open(r)'
        /\ \A c \in Late' : Open(c.id)' /\ Ahead(c)'
    BY <1>1, <1>4, <2>1, ServedStays
  <2> QED BY <1>2, <1>4, <2>2 DEF ServedInv
<1>5. (\A c \in Late : c.id \in Requests) /\ \A r \in Remaining : r \in Requests \cap Planned
  <2>1. Remaining \subseteq Planned BY DEF Remaining, Planned
  <2> QED BY <1>0, <2>1, LateApart, PlannedRequests
<1>6. CASE TakeCompletion
  <2>1. /\ UNCHANGED published /\ completions # << >> /\ completions' = Tail(completions)
        /\ Touches(Head(completions).id)
    BY <1>6, CompletionMoves DEF TakeCompletion
  <2>2. PICK r : r = Head(completions).id OBVIOUS
  <2>3. /\ r \notin Remaining
        /\ \A d \in ToSet(completions') : d.id # r /\ d \in ToSet(completions)
        /\ completion # Nothing => completion.id # r
    BY <1>0, <2>1, <2>2, TakenIsLast, TailSubset
  <2>4. Late' \subseteq Late /\ \A d \in Late' : d.id # r BY <1>0, <2>3 DEF Late
  <2>5. \A x \in Requests : x # r => request'[x] = request[x]
    BY <2>1, <2>2 DEF Touches
  <2> QED BY <1>4, <1>5, <1>6, <2>1, <2>3, <2>4, <2>5, CompletionServes
<1>7. CASE TakeAdmissionResult
  <2>1. PICK r : /\ r \in Requests /\ Touches(r)
                 /\ ~Awaiting(r) => request' = request
    BY <1>7, ResultMoves
  <2>2. Awaiting(r) => r \notin Planned /\ \A c \in Late : c.id # r
    <3>1. Awaiting(r) => r \in InFlight(request) BY <2>1 DEF Awaiting, InFlight
    <3> QED BY <3>1, InFlightUnstarted
  <2>3. UNCHANGED published /\ Late' = Late
    BY <1>0, <1>7 DEF TakeAdmissionResult, Late
  <2>4. \A x \in Requests : x # r => request'[x] = request[x] BY <2>1 DEF Touches
  <2> QED BY <1>4, <1>5, <1>7, <2>1, <2>2, <2>3, <2>4, ResultServes
<1>8. CASE PublishPlan
  <2>1. PICK work \in Seq(WorkItems) :
          /\ ValidPlan(work)
          /\ published' = [epoch |-> published_epoch + 1, work |-> work]
          /\ \A r \in Requests : /\ request'[r].stage = request[r].stage
                                 /\ SameProgress(request[r], request'[r])
    BY <1>8, PublishMoves, Zenon
  <2>2. published'.work = work BY <2>1
  <2>3. Late = {} /\ env_pc \notin AtItems
    BY <1>8, PublishedAtRest DEF Executing, AtItems
  <2>4. Late' = {} BY <1>0, <1>8, <2>3 DEF Late, PublishPlan
  <2>5. \A i \in DOMAIN work : Open(work[i].id)'
    <3> SUFFICES ASSUME NEW i \in DOMAIN work PROVE Open(work[i].id)'
      OBVIOUS
    <3>1. work[i].id \in Requests
      <4>1. work[i] \in WorkItems BY <2>1, SeqElements
      <4> QED BY <4>1 DEF WorkItems
    <3>2. request[work[i].id].stage \in Scheduled
      BY <2>1 DEF ValidPlan, ValidWork, Scheduled
    <3>3. request[work[i].id].decoded_count < MaxOutput[work[i].id]
      BY <3>1, <3>2 DEF ServedInv, Served
    <3> QED BY <2>1, <3>1, <3>2, <3>3 DEF Open, SameProgress
  <2>6. \A r \in Remaining' : Open(r)'
    BY <1>0, <2>2, <2>3, <2>5 DEF Remaining
  <2>7. \A r \in Requests : Kept(r)
    BY <1>0, <1>8, KeptMoves DEF PublishPlan, TakeCompletion, TakeAdmissionResult
  <2> QED BY <1>2, <1>3, <2>4, <2>6, <2>7 DEF ServedInv
<1>9. CASE (\A r \in Requests : Kept(r)) /\ ~TakeCompletion /\ ~PublishPlan
  <2>1. UNCHANGED published /\ Late' = Late
    BY <1>0, <1>9, SchedulerDrainsCompletions DEF Late
  <2> QED BY <1>3, <1>4, <1>5, <1>9, <2>1
<1> QED BY <1>0, <1>6, <1>7, <1>8, <1>9, KeptMoves

(* The steps that leave the environment at the items of a plan; nothing    *)
(* has failed by then, for a failure ends the execution.                   *)
LEMMA ExecutionSteps ==
  ASSUME EnvironmentNext, env_pc' \in AtItems
  PROVE  ConsumePlan \/ AdvancePrefill \/ SampleToken \/ ReportOutput \/ ReportCompletion
<1> USE DEF AtItems
<1>1. ASSUME NEW p, Resolve(p) PROVE env_pc' \in {"result", "plan", "top"}
  BY <1>1 DEF Resolve, Reject, ValidationThrows, Hold, SamplerFails, Accept,
              RestoreBreaks, AcceptThrows, Assign, Report
<1>2. CASE TakeAdmission \/ ResumeAdmission
  BY <1>1, <1>2 DEF TakeAdmission, ResumeAdmission
<1>3. CASE \/ BeginTurn \/ TakeRelease \/ AcknowledgeRelease \/ ReleasesTaken
           \/ ReportAdmission \/ AdmissionsTaken \/ SkipPlan \/ SamplingFails
           \/ RememberThrows \/ PlanExecuted \/ RetirePlan \/ Catch
  BY <1>3 DEF BeginTurn, TakeRelease, AcknowledgeRelease, ReleasesTaken, ReportAdmission,
     AdmissionsTaken, SkipPlan, SamplingFails, RememberThrows, PlanExecuted, RetirePlan, Catch
<1> QED BY <1>2, <1>3 DEF EnvironmentNext

(* Items are executed only while nothing has failed.                       *)
LEMMA ExecutionIsSound ==
  ASSUME env_pc \in AtItems => ~env_fatal, EnvironmentNext
  PROVE  env_pc' \in AtItems => ~env_fatal'
<1> SUFFICES ASSUME env_pc' \in AtItems PROVE ~env_fatal'
  OBVIOUS
<1>1. CASE ConsumePlan BY <1>1 DEF ConsumePlan, NoFailure, AtItems
<1>2. CASE AdvancePrefill \/ SampleToken \/ ReportOutput \/ ReportCompletion
  BY <1>2 DEF AdvancePrefill, SampleToken, ReportOutput, ReportCompletion, NoFailure, AtItems
<1> QED BY <1>1, <1>2, ExecutionSteps

(* The item in execution is for a request that is where its record is, so  *)
(* its completion is the next thing the request is to learn.               *)
LEMMA NewCompletionAhead ==
  ASSUME TypeInv, LifeInv, PathInv, LateInv, RecordsInv, ProgressInv, ServedInv,
         AdvancePrefill \/ SampleToken, UNCHANGED request
  PROVE  \A c : c = completion' => Ahead(c)' /\ Open(c.id)'
<1>1. /\ Work \in WorkItems /\ item \in DOMAIN plan.work /\ Executable(Work)
      /\ env_pc = "items" /\ item <= Len(plan.work) /\ Work.id \in Requests
      /\ completion' \in Completions /\ completion'.id = Work.id
      /\ completion'.prefill_position =
           (IF Work.kind = "Prefill" THEN Work.end ELSE Len(Prompt[Work.id]))
      /\ records'[Work.id].decoded_tokens = completion'.decoded_tokens
      /\ records[Work.id] \in Records /\ Len(Prompt[Work.id]) \in Nat
      /\ \/ AdvancePrefill /\ Work.kind = "Prefill" /\ Work.end # Len(Prompt[Work.id])
            /\ records'[Work.id].decoded_tokens = records[Work.id].decoded_tokens
         \/ SampleToken /\ Samples
            /\ records'[Work.id].decoded_tokens = records[Work.id].decoded_tokens + 1
  BY ItemMoves
<1> SUFFICES ASSUME NEW c, c = completion'
             PROVE  Ahead(c)' /\ Open(c.id)'
  OBVIOUS
<1>2. PICK r : r = Work.id /\ c = completion'
  OBVIOUS
<1> DEFINE q == request[r]
           old == records[r]
<1>3. Open(r)
  <2>1. item >= item /\ env_pc \in AtItems
    BY <1>1, SMT DEF AtItems, TypeInv, EnvironmentTypes
  <2>2. r \in Remaining BY <1>1, <1>2, <2>1 DEF Remaining, Work
  <2> QED BY <2>2 DEF ServedInv
<1>4. InStep(r)
  <2>1. Held(r) BY <1>1, <1>2 DEF Executable
  <2>2. r \in Planned BY <1>1, <1>2 DEF Planned, Work
  <2>3. r \notin InFlight(request) BY <2>2, InFlightUnstarted
  <2>4. q.admission = "EnvironmentOwned"
    BY <1>1, <1>2, <2>1, <2>3 DEF PathInv, HeldInv, InFlight
  <2>5. Sound BY <1>1 DEF Sound, ServedInv, AtItems
  <2> QED BY <1>1, <1>2, <2>1, <2>4, <2>5 DEF ProgressInv
<1>5. /\ q.prefill_position = old.prefill_position /\ q.decoded_count = old.decoded_tokens
  BY <1>1, <1>2, <1>4, LateApart DEF InStep
<1>6. /\ Work.kind = "Prefill" =>
           Work.begin = old.prefill_position /\ Work.end <= Len(Prompt[r])
      /\ Work.begin < Work.end /\ Work.begin \in Nat /\ Work.end \in Nat
      /\ old.prefill_position \in Nat /\ old.decoded_tokens \in Nat
      /\ c.decoded_tokens \in Nat
  BY <1>1, <1>2 DEF Executable, WorkItems, Records, Completions
<1>7. /\ Work.kind # "Prefill" => old.prefill_position = Len(Prompt[r])
      /\ ~Samples => old.decoded_tokens = 0
  BY <1>1, <1>2, ItemRecord DEF RecordsInv
<1>8. AdvancePrefill => ~c.eos
  BY <1>2, SMT DEF AdvancePrefill, Complete
<1>9. /\ c.prefill_position = (IF Work.kind = "Prefill" THEN Work.end ELSE Len(Prompt[r]))
      /\ Len(Prompt[r]) \in Nat /\ c.id = r
      /\ \/ AdvancePrefill /\ ~Samples /\ c.decoded_tokens = old.decoded_tokens
         \/ SampleToken /\ Samples /\ c.decoded_tokens = old.decoded_tokens + 1
  BY <1>1, <1>2 DEF Samples
<1>10. /\ q.prefill_position <= c.prefill_position
       /\ c.prefill_position <= Len(Prompt[r])
       /\ c.decoded_tokens <= q.decoded_count + 1
  <2> HIDE DEF q, old
  <2> QED BY <1>5, <1>6, <1>7, <1>9, SMT
<1>11. c.decoded_tokens # 0 => c.prefill_position = Len(Prompt[r])
  BY <1>1, <1>2, <1>7, <1>9 DEF Samples, WorkItems
<1>12. c.eos => c.decoded_tokens # 0
  <2> HIDE DEF old
  <2>1. c.decoded_tokens = old.decoded_tokens + 1 => c.decoded_tokens # 0
    BY <1>6, SMT
  <2> QED BY <1>8, <1>9, <2>1
<1>13. Ahead(c)' BY <1>9, <1>10, <1>11, <1>12 DEF Ahead
<1>14. Open(r)' BY <1>3 DEF Open
<1> QED BY <1>2, <1>9, <1>13, <1>14

(* So does every step of the environment.                                  *)
LEMMA ServedEnvironmentStep ==
  ASSUME TypeInv, LifeInv, PathInv, LateInv, RecordsInv, ProgressInv, ServedInv,
         EnvironmentThread
  PROVE  ServedInv'
<1>0. /\ EnvironmentNext /\ UNCHANGED <<request, draining, drain_error>>
      /\ item \in Nat /\ published \in Plans /\ plan \in Plans
  BY DEF EnvironmentThread, schedulerVars, lifecycleVars, TypeInv, EnvironmentTypes,
         ChannelTypes
<1>1. env_pc' \in AtItems => ~env_fatal' BY <1>0, ExecutionIsSound DEF ServedInv
<1>2. /\ DrainInv' /\ \A r \in Requests : Served(r)'
      /\ \A r : Open(r)' <=> Open(r)
      /\ \A c : Ahead(c)' <=> Ahead(c)
  BY <1>0 DEF ServedInv, DrainInv, Served, Full, Open, Ahead
<1>3. ASSUME Remaining' \subseteq Remaining,
             \A c \in Late' : c \in Late \/ (Ahead(c)' /\ Open(c.id)')
      PROVE  ServedInv'
  BY <1>1, <1>2, <1>3 DEF ServedInv
<1>4. CASE PlanIdles
  BY <1>3, <1>4 DEF PlanIdles, Remaining, Late
<1>5. CASE ConsumePlan
  <2>1. /\ published' = NoPlan /\ plan' = published
        /\ UNCHANGED <<completion, completions>>
    BY <1>5 DEF ConsumePlan
  <2>2. DOMAIN NoPlan.work = {} BY SMT DEF NoPlan
  <2> QED BY <1>3, <2>1, <2>2 DEF Remaining, Late
<1>6. CASE AdvancePrefill \/ SampleToken
  <2>1. /\ UNCHANGED <<plan, item, completions, published>>
        /\ env_pc = "items" /\ completion = Nothing
    BY <1>6, ItemMoves
  <2>2. Remaining' \subseteq Remaining BY <2>1 DEF Remaining, AtItems
  <2>3. \A c \in Late' : c \in Late \/ c = completion' BY <2>1 DEF Late
  <2> QED BY <1>0, <1>3, <1>6, <2>2, <2>3, NewCompletionAhead
<1>7. CASE ReportCompletion
  <2>1. /\ env_pc \in AtItems /\ env_pc # "items" /\ item' = item + 1
        /\ UNCHANGED <<plan, published>>
    BY <1>7 DEF ReportCompletion, AtItems
  <2>2. \A j \in DOMAIN plan.work : j >= item + 1 => j >= item
    <3>1. plan.work \in Seq(WorkItems) BY <1>0 DEF Plans
    <3>2. \A j \in DOMAIN plan.work : j \in Int BY <3>1, SeqElements, SMT
    <3> QED BY <1>0, <3>2, SMT
  <2>3. Remaining' \subseteq Remaining BY <2>1, <2>2 DEF Remaining
  <2>4. Late' = Late
    BY <1>0, <2>1, LateMoves DEF AdvancePrefill, SampleToken
  <2> QED BY <1>3, <2>3, <2>4
<1>8. CASE RetirePlan
  <2>1. /\ UNCHANGED <<completion, completions, published>> /\ env_pc' \notin AtItems
    BY <1>8 DEF RetirePlan, AtItems
  <2> QED BY <1>3, <2>1 DEF Remaining, Late
<1> QED BY <1>0, <1>4, <1>5, <1>6, <1>7, <1>8, PlanMoves

(* Nothing is on its way at the start.                                     *)
LEMMA InitServed == Init => ServedInv
<1> SUFFICES ASSUME Init PROVE ServedInv
  OBVIOUS
<1>1. /\ completions = << >> /\ completion = Nothing /\ published = NoPlan
      /\ env_pc = "top" /\ draining = FALSE /\ drain_error = "None"
      /\ request = [r \in Requests |-> Fresh("Unsubmitted")]
  BY DEF Init, HandoffInit, SchedulerInit, EnvironmentInit
<1>2. DOMAIN NoPlan.work = {} BY SMT DEF NoPlan
<1>3. Late = {} /\ Remaining = {}
  BY <1>1, <1>2, ToSetEmpty DEF Late, Remaining, AtItems
<1>4. \A r \in Requests : Served(r)
  <2>1. Fresh("Unsubmitted").stage = "Unsubmitted" BY DEF Fresh
  <2> QED BY <1>1, <2>1 DEF Served, Scheduled, Ended
<1>5. DrainInv BY <1>1, Zenon DEF DrainInv
<1> QED BY <1>1, <1>3, <1>4, <1>5 DEF ServedInv, AtItems

(* The answers are on their way to full all along.                         *)
LEMMA ServedInvariance == Spec => []ServedInv
<1>1. /\ TypeInv /\ LifeInv /\ PathInv /\ EpochInv /\ LateInv /\ RecordsInv /\ ProgressInv
      /\ ServedInv /\ [Next]_vars
      => ServedInv'
  <2> SUFFICES ASSUME TypeInv, LifeInv, PathInv, EpochInv, LateInv, RecordsInv, ProgressInv,
                      ServedInv, [Next]_vars
               PROVE  ServedInv'
    OBVIOUS
  <2>1. CASE SchedulerThread BY <2>1, ServedSchedulerStep
  <2>2. CASE EnvironmentThread BY <2>2, ServedEnvironmentStep
  <2>3. CASE UNCHANGED vars
    BY <2>3 DEF vars, handoffVars, schedulerVars, lifecycleVars, environmentVars, workVars,
                ServedInv, DrainInv, Remaining, Late, Open, Ahead, Served, Full
  <2> QED BY <2>1, <2>2, <2>3 DEF Next, Terminated
<1> QED
  BY <1>1, InitServed, TypesInvariance, LifeInvariance, PathInvariance, EpochInvariance,
     LateInvariance, RecordsInvariance, ProgressInvariance, PTL DEF Spec
-----------------------------------------------------------------------------
(* The pieces of text on their way.  They are of the items that are done,  *)
(* one each; the scheduler has drained them when it publishes the next     *)
(* plan; and a request whose release has been sent, as the scheduler knows *)
(* when it takes the acknowledgement, has none left.                       *)
AfterOutputs == {"completions"} \cup AfterCompletions

Serving == Scheduled \cup {"PendingRelease"}

Delivered(r) ==
  request[r].terminal_error = "None" =>
    /\ emitted[r] = request[r].pieces + (IF r \in ToSet(outputs) THEN 1 ELSE 0)
    /\ r \in ToSet(outputs) => request[r].stage \in Serving
    /\ r \in ToSet(outputs) /\ run_pc \in {"completions", "acks"} => ~request[r].release_sent

OutputsInv ==
  /\ published # NoPlan => outputs = << >>
  /\ run_pc \in AfterOutputs /\ plan_done => outputs = << >>
  /\ IsInjective(outputs)
  /\ env_pc \in AtItems =>
       \A r \in ToSet(outputs) :
         \E k \in DOMAIN plan.work :
           /\ plan.work[k].id = r
           /\ k < item \/ (k = item /\ env_pc = "completion")
  /\ \A r \in Requests : Delivered(r)

(* The scheduler only takes outputs, and goes on when none is left.        *)
LEMMA SchedulerDrainsOutputs ==
  ASSUME SchedulerNext
  PROVE  /\ TakeOutput \/ UNCHANGED outputs
         /\ run_pc' \in AfterOutputs /\ plan_done' =>
              outputs = << >> \/ (run_pc \in AfterOutputs /\ plan_done)
         /\ run_pc' \in {"completions", "acks"} =>
              outputs = << >> \/ run_pc \in {"completions", "acks"}
<1> USE DEF AfterOutputs, AfterCompletions
<1>1. ASSUME NEW r \in Requests, Submit(r) PROVE UNCHANGED outputs /\ run_pc' = "outside"
  BY <1>1 DEF Submit, handoffVars
<1>2. CASE RequestStop \/ StopEnvironment \/ BeginIteration \/ FlushAdmission \/ FlushDone
  BY <1>2 DEF RequestStop, StopEnvironment, BeginIteration, FlushAdmission, FlushDone,
              handoffVars
<1>3. CASE SnapshotEpoch BY <1>3 DEF SnapshotEpoch, handoffVars
<1>4. CASE TakeAdmissionResult \/ TakeCompletion \/ TakeReleaseAck \/ TakeFatal \/ TryRelease
  <2>1. UNCHANGED <<outputs, run_pc, plan_done>>
    BY <1>4 DEF TakeAdmissionResult, TakeCompletion, TakeReleaseAck, TakeFatal, TryRelease
  <2> QED BY <2>1
<1>5. CASE TakeOutput BY <1>5 DEF TakeOutput
<1>6. CASE DrainDone BY <1>6 DEF DrainDone, handoffVars
<1>7. CASE ReleasesDone BY <1>7 DEF ReleasesDone, handoffVars
<1>8. CASE RetireTerminal \/ ObserverFails \/ ObserveBatch
  BY <1>8 DEF RetireTerminal, ObserverFails, ObserveBatch, handoffVars
<1>9. CASE PublishPlan BY <1>9 DEF PublishPlan
<1>10. CASE \/ FinishRun \/ KeepRunning \/ RejectPlan \/ WaitForRelease \/ NoWork
            \/ BuildThrows
  BY <1>10 DEF FinishRun, KeepRunning, RejectPlan, WaitForRelease, NoWork, BuildThrows,
               handoffVars
<1> QED
  BY <1>1, <1>2, <1>3, <1>4, <1>5, <1>6, <1>7, <1>8, <1>9, <1>10
  DEF SchedulerNext, SchedulerStep

(* A request that is being served is so until its release is acknowledged; *)
(* and that its release was sent is noted by the sweep over the releases.  *)
LEMMA ServingStays ==
  ASSUME TypeInv, LifeInv, SchedulerThread, NEW r \in Requests,
         request[r].stage \in Serving
  PROVE  /\ request'[r].stage \in Serving \/ (TakeReleaseAck /\ request[r].release_sent)
         /\ request'[r].release_sent => request[r].release_sent \/ sweep # << >>
<1> USE DEF Serving, Scheduled
<1>0. SchedulerNext BY DEF SchedulerThread
<1> DEFINE q == request[r]
           new == request'[r]
<1>1. /\ q \in RequestStates /\ q.admission = "EnvironmentOwned"
      /\ q.stage \notin {"Unsubmitted", "PendingAdmission"}
  BY DEF TypeInv, SchedulerTypes, LifeInv, CoherentInv, Coherent
<1>2. ASSUME new.admission = "EnvironmentOwned" PROVE new.stage \in Serving
  <2>1. Coherent(new) BY <1>0, LifeStep DEF LifeInv, CoherentInv
  <2>2. new.stage \in Stages
    BY SchedulerStepTypes DEF TypeInv, SchedulerTypes, RequestStates
  <2>3. Fresh("Unsubmitted").admission = "NotSent" BY DEF Fresh
  <2> QED BY <1>2, <2>1, <2>2, <2>3 DEF Coherent, Stages
<1>3. ASSUME NEW x \in Requests, Touches(x), x # r PROVE new = q
  BY <1>3 DEF Touches
<1> HIDE DEF q, new
<1>4. CASE Quiet BY <1>1, <1>2, <1>4 DEF Quiet, Stays, q, new
<1>5. CASE Drains BY <1>1, <1>2, <1>5, DrainsMove DEF Drains, q, new
<1>6. ASSUME NEW x \in Requests, Submit(x) PROVE new = q
  BY <1>1, <1>3, <1>6, SubmitMoves DEF q
<1>7. CASE FlushAdmission
  <2>1. PICK x \in Requests : Touches(x) /\ request[x].stage = "PendingAdmission"
    BY <1>7, FlushMoves
  <2>2. new = q BY <1>1, <1>3, <2>1 DEF q
  <2> QED BY <1>1, <1>2, <2>2 DEF q, new
<1>8. CASE TakeAdmissionResult
  <2>1. PICK x \in Requests : Touches(x) /\ (~Awaiting(x) => request' = request)
    BY <1>8, ResultMoves
  <2>2. CASE ~Awaiting(x) BY <1>1, <1>2, <2>1, <2>2 DEF q, new
  <2>3. CASE Awaiting(x)
    <3>1. x # r BY <1>1, <2>3, AwaitingState DEF q
    <3>2. new = q BY <1>3, <2>1, <3>1
    <3> QED BY <1>1, <1>2, <3>2 DEF q, new
  <2> QED BY <2>2, <2>3
<1>9. CASE TakeReleaseAck
  <2>1. PICK x \in Requests :
          /\ Touches(x)
          /\ ~request[x].release_sent => request' = request
    BY <1>9, AckMoves
  <2>2. CASE x # r \/ ~q.release_sent
    <3>1. new = q BY <1>3, <2>1, <2>2 DEF q, new
    <3> QED BY <1>1, <1>2, <3>1 DEF q, new
  <2>3. CASE q.release_sent BY <1>9, <2>3 DEF q
  <2> QED BY <2>2, <2>3
<1>10. CASE TryRelease
  <2>1. PICK x \in Requests :
          /\ Touches(x)
          /\ request' = request \/ request'[x].admission = "EnvironmentOwned"
    BY <1>10, ReleaseMoves
  <2>2. new.admission = "EnvironmentOwned" BY <1>1, <1>3, <2>1 DEF q, new
  <2>3. sweep # << >> BY <1>10 DEF TryRelease
  <2> QED BY <1>2, <2>2, <2>3 DEF new
<1>11. CASE PublishPlan
  <2>1. new.admission = q.admission /\ new.release_sent = q.release_sent
    BY <1>11, PublishMoves DEF q, new
  <2> QED BY <1>1, <1>2, <2>1 DEF q, new
<1>12. new = q =>
         /\ request'[r].stage \in Serving
         /\ request'[r].release_sent => request[r].release_sent
  BY DEF q, new
<1> QED
  BY <1>0, <1>4, <1>5, <1>6, <1>7, <1>8, <1>9, <1>10, <1>11, <1>12, SchedulerMoves
(* Only drain_outputs appends text.                                        *)
LEMMA PiecesKept ==
  ASSUME TypeInv, LifeInv, SchedulerNext, ~TakeOutput
  PROVE  \A r \in Requests : request'[r].pieces = request[r].pieces
<1>1. CASE TakeCompletion
  <2>1. PICK c, x : c = Head(completions) /\ x = c.id
    OBVIOUS
  <2>2. /\ c \in Completions /\ x \in Requests /\ Touches(x)
        /\ request[x] \in RequestStates
        /\ request'[x] = IF request[x].admission = "EnvironmentOwned"
                         THEN Folded(request[x], c) ELSE request[x]
    BY <1>1, <2>1, CompletionMoves
  <2>3. Same(request[x], Folded(request[x], c)) BY <2>2, FoldedFields
  <2> QED BY <2>2, <2>3 DEF Touches, Same
<1>2. CASE TakeAdmissionResult
  <2>1. PICK answer, x : answer = Head(admission_results) /\ x = answer.id
    OBVIOUS
  <2>2. /\ Touches(x)
        /\ ~Awaiting(x) => request' = request
        /\ Awaiting(x) => request'[x].pieces = request[x].pieces
    BY <1>2, <2>1, ResultMoves
  <2> QED BY <2>2 DEF Touches
<1>3. CASE \A r \in Requests : Kept(r) BY <1>3 DEF Kept
<1> QED BY <1>1, <1>2, <1>3, KeptMoves

(* Every step of the scheduler keeps track of the text.                    *)
LEMMA OutputsSchedulerStep ==
  ASSUME TypeInv, LifeInv, OutputsInv, SchedulerThread
  PROVE  OutputsInv'
<1>0. /\ SchedulerNext
      /\ UNCHANGED <<env_pc, plan, item, emitted>>
      /\ request \in [Requests -> RequestStates]
      /\ outputs \in Seq(Requests)
      /\ emitted \in [Requests -> Nat]
  BY SchedulerLeavesRecords DEF SchedulerThread, TypeInv, SchedulerTypes, ChannelTypes,
     EnvironmentTypes
<1>1. \A r \in Requests : NeverBack(request[r], request'[r])
  BY LifeNext DEF Next, Monotone
<1>2. CASE ~TakeOutput
  <2>1. outputs' = outputs BY <1>0, <1>2, SchedulerDrainsOutputs
  <2>2. run_pc' \in AfterOutputs /\ plan_done' => outputs' = << >>
    BY <1>0, <2>1, SchedulerDrainsOutputs DEF OutputsInv
  <2>3. published' # NoPlan => outputs' = << >>
    <3>1. CASE PublishPlan
      <4>1. run_pc \in AfterOutputs /\ plan_done
        BY <3>1 DEF PublishPlan, MaySchedule, AfterOutputs, AfterCompletions
      <4> QED BY <2>1, <4>1 DEF OutputsInv
    <3>2. CASE UNCHANGED published BY <2>1, <3>2 DEF OutputsInv
    <3> QED BY <1>0, <3>1, <3>2, SchedulerDrainsCompletions
  <2>4. ASSUME NEW r \in Requests, request'[r].terminal_error = "None"
        PROVE  /\ emitted[r] = request'[r].pieces + (IF r \in ToSet(outputs) THEN 1 ELSE 0)
               /\ r \in ToSet(outputs) => request'[r].stage \in Serving
               /\ r \in ToSet(outputs) /\ run_pc' \in {"completions", "acks"} =>
                    ~request'[r].release_sent
    <3>1. request[r].terminal_error = "None" BY <1>1, <2>4 DEF NeverBack
    <3>2. /\ emitted[r] = request[r].pieces + (IF r \in ToSet(outputs) THEN 1 ELSE 0)
          /\ r \in ToSet(outputs) => request[r].stage \in Serving
          /\ r \in ToSet(outputs) /\ run_pc \in {"completions", "acks"} =>
               ~request[r].release_sent
      BY <3>1 DEF OutputsInv, Delivered
    <3>3. request'[r].pieces = request[r].pieces BY <1>0, <1>2, PiecesKept
    <3>4. ASSUME r \in ToSet(outputs) PROVE request'[r].stage \in Serving
      <4>1. TakeReleaseAck => run_pc = "acks" BY DEF TakeReleaseAck
      <4> QED BY <3>2, <3>4, <4>1, ServingStays
    <3>5. ASSUME r \in ToSet(outputs), run_pc' \in {"completions", "acks"}
          PROVE  ~request'[r].release_sent
      <4>1. outputs # << >> BY <3>5, ToSetEmpty
      <4>2. run_pc \in {"completions", "acks"}
        BY <1>0, <3>5, <4>1, SchedulerDrainsOutputs
      <4>3. sweep = << >> BY <4>2 DEF LifeInv, SweepInv
      <4> QED BY <3>2, <3>5, <4>2, <4>3, ServingStays
    <3> QED BY <3>2, <3>3, <3>4, <3>5
  <2>5. \A r \in Requests : Delivered(r)' BY <1>0, <2>1, <2>4 DEF Delivered
  <2> QED BY <1>0, <2>1, <2>2, <2>3, <2>5 DEF OutputsInv
<1>3. CASE TakeOutput
  <2>1. /\ outputs # << >> /\ outputs' = Tail(outputs)
        /\ UNCHANGED <<published, run_pc, plan_done, live>>
    BY <1>3 DEF TakeOutput
  <2>2. PICK x : x = Head(outputs)
    OBVIOUS
  <2>3. /\ x \in ToSet(outputs) /\ x \in Requests
        /\ ToSet(outputs) = {x} \cup ToSet(outputs')
        /\ IsInjective(outputs') /\ x \notin ToSet(outputs')
    BY <1>0, <2>1, <2>2, TakeHead, TailSubset, HeadTailProperties DEF OutputsInv
  <2>4. request' = (IF Known(x) /\ request[x].stage # "Terminal"
                    THEN [request EXCEPT ![x] = [request[x] EXCEPT !.pieces = @ + 1]]
                    ELSE request)
    BY <1>3, <2>2 DEF TakeOutput
  <2>5. ASSUME NEW r \in Requests, r # x PROVE Delivered(r)'
    <3>1. request'[r] = request[r] BY <1>0, <2>4, <2>5
    <3>2. r \in ToSet(outputs') <=> r \in ToSet(outputs) BY <2>3, <2>5
    <3>3. Delivered(r) BY DEF OutputsInv
    <3> QED BY <1>0, <2>1, <3>1, <3>2, <3>3 DEF Delivered
  <2>6. Delivered(x)'
    <3> SUFFICES ASSUME request'[x].terminal_error = "None"
                 PROVE  emitted[x] = request'[x].pieces
      <4>1. request'[x].pieces \in Nat
        BY <2>3, SchedulerStepTypes DEF TypeInv, SchedulerTypes, RequestStates
      <4>2. request'[x].pieces + 0 = request'[x].pieces BY <4>1, SMT
      <4> QED BY <1>0, <2>3, <4>2 DEF Delivered
    <3>1. request[x].terminal_error = "None" BY <1>1, <2>3 DEF NeverBack
    <3>2. emitted[x] = request[x].pieces + 1 /\ request[x].stage \in Serving
      BY <2>3, <3>1 DEF OutputsInv, Delivered
    <3>3. Known(x) /\ request[x].stage # "Terminal"
      BY <2>3, <3>2 DEF Serving, Scheduled, Known, LifeInv, LiveInv, Ongoing
    <3>4. request'[x] = [request[x] EXCEPT !.pieces = @ + 1]
      BY <1>0, <2>3, <2>4, <3>3
    <3>5. request[x] \in RequestStates BY <1>0, <2>3
    <3>6. [request[x] EXCEPT !.pieces = @ + 1].pieces = request[x].pieces + 1
      BY <3>5, SMT DEF RequestStates
    <3> QED BY <3>2, <3>4, <3>6
  <2>7. \A r \in ToSet(outputs') : r \in ToSet(outputs) BY <2>3
  <2>8. published = NoPlan /\ ~(run_pc \in AfterOutputs /\ plan_done)
    BY <2>1 DEF OutputsInv
  <2> QED BY <1>0, <2>1, <2>3, <2>5, <2>6, <2>7, <2>8 DEF OutputsInv
<1> QED BY <1>2, <1>3

(* Only an item that samples a token reports text.                         *)
LEMMA OutputMoves ==
  ASSUME EnvironmentNext
  PROVE  ReportOutput \/ UNCHANGED <<outputs, emitted>>
<1>1. CASE BeginTurn \/ ReleasesTaken \/ AdmissionsTaken \/ SkipPlan \/ PlanExecuted
  BY <1>1 DEF BeginTurn, ReleasesTaken, AdmissionsTaken, SkipPlan, PlanExecuted,
              handoffVars, workVars
<1>2. CASE \/ TakeRelease \/ AcknowledgeRelease \/ TakeAdmission \/ ResumeAdmission
           \/ ReportAdmission \/ Catch
  BY <1>2 DEF TakeRelease, AcknowledgeRelease, TakeAdmission, ResumeAdmission,
              ReportAdmission, Catch, workVars
<1>3. CASE ConsumePlan \/ ReportCompletion \/ RetirePlan
  BY <1>3 DEF ConsumePlan, ReportCompletion, RetirePlan
<1>4. CASE AdvancePrefill \/ SampleToken \/ SamplingFails \/ RememberThrows
  BY <1>4 DEF AdvancePrefill, SampleToken, SamplingFails, RememberThrows, executionUnchanged
<1> QED BY <1>1, <1>2, <1>3, <1>4 DEF EnvironmentNext

(* So does every step of the environment.                                  *)
LEMMA OutputsEnvironmentStep ==
  ASSUME TypeInv, LifeInv, EpochInv, LateInv, ServedInv, OutputsInv, EnvironmentThread
  PROVE  OutputsInv'
<1>0. /\ EnvironmentNext /\ UNCHANGED <<request, run_pc, plan_done, published_epoch>>
      /\ request \in [Requests -> RequestStates]
      /\ outputs \in Seq(Requests) /\ item \in Nat /\ plan.work \in Seq(WorkItems)
      /\ emitted \in [Requests -> Nat]
  BY DEF EnvironmentThread, schedulerVars, lifecycleVars, planVars, TypeInv, SchedulerTypes,
         ChannelTypes, EnvironmentTypes, Plans
<1>1. published' # NoPlan => published # NoPlan
  <2>1. ConsumePlan => published' = NoPlan BY DEF ConsumePlan
  <2>2. AdvancePrefill \/ SampleToken \/ ReportCompletion \/ RetirePlan =>
          published' = published
    BY DEF AdvancePrefill, SampleToken, ReportCompletion, RetirePlan, executionUnchanged
  <2> QED BY <1>0, <2>1, <2>2, PlanMoves DEF PlanIdles
<1>2. \A k \in DOMAIN plan.work : k \in Int BY <1>0, SeqElements, SMT
<1>3. CASE UNCHANGED <<outputs, emitted>>
  <2>1. \A r \in Requests : Delivered(r)' BY <1>0, <1>3 DEF OutputsInv, Delivered
  <2>2. ASSUME env_pc' \in AtItems, NEW r \in ToSet(outputs')
        PROVE  \E k \in DOMAIN plan'.work :
                 /\ plan'.work[k].id = r
                 /\ k < item' \/ (k = item' /\ env_pc' = "completion")
    <3>1. CASE ConsumePlan
      <4>1. outputs = << >> BY <3>1 DEF ConsumePlan, OutputsInv
      <4> QED BY <1>3, <2>2, <4>1, ToSetEmpty
    <3>2. CASE AdvancePrefill \/ SampleToken
      <4>1. UNCHANGED <<plan, item>> /\ env_pc = "items" BY <3>2, ItemMoves
      <4> QED BY <1>3, <2>2, <4>1 DEF OutputsInv, AtItems
    <3>3. CASE ReportOutput
      BY <1>0, <1>3, <3>3, AppendProperties DEF ReportOutput
    <3>4. CASE ReportCompletion
      <4>1. env_pc \in AtItems /\ item' = item + 1 /\ UNCHANGED plan
        BY <3>4 DEF ReportCompletion, AtItems
      <4>2. PICK k \in DOMAIN plan.work : plan.work[k].id = r /\ (k < item \/ k = item)
        BY <1>3, <2>2, <4>1 DEF OutputsInv
      <4>3. k < item + 1 BY <1>0, <1>2, <4>2, SMT
      <4> QED BY <4>1, <4>2, <4>3
    <3> QED BY <1>0, <2>2, <3>1, <3>2, <3>3, <3>4, ExecutionSteps
  <2> QED BY <1>0, <1>1, <1>3, <2>1, <2>2 DEF OutputsInv
<1>4. CASE ReportOutput
  <2>1. PICK x : x = Work.id
    OBVIOUS
  <2>2. /\ env_pc = "output" /\ outputs' = Append(outputs, x)
        /\ emitted' = [emitted EXCEPT ![x] = @ + 1]
        /\ env_pc' = "completion" /\ UNCHANGED <<plan, item>>
    BY <1>4, <2>1 DEF ReportOutput
  <2>3. /\ item \in DOMAIN plan.work /\ plan.work[item].id = x
        /\ \A i, j \in DOMAIN plan.work : plan.work[i].id = plan.work[j].id => i = j
        /\ completion \in Late /\ completion.id = x /\ x \in Requests
    <3>1. /\ item >= 1 /\ item <= Len(plan.work) /\ completion # Nothing
          /\ completion \in Completions
          /\ \A i, j \in DOMAIN plan.work : plan.work[i].id = plan.work[j].id => i = j
      BY <2>2 DEF TypeInv, ExecutionInv, EnvironmentTypes
    <3>2. item \in DOMAIN plan.work BY <1>0, <3>1, SeqElements, SMT
    <3>3. completion \in Late /\ completion.id = x BY <2>1, <3>1 DEF Late, LateInv
    <3> QED BY <2>1, <3>1, <3>2, <3>3 DEF Work, Completions
  <2>4. x \notin ToSet(outputs)
    <3>1. \A k \in DOMAIN plan.work : k < item => k # item BY <1>0, <1>2, SMT
    <3> QED BY <2>2, <2>3, <3>1 DEF OutputsInv, AtItems
  <2>5. IsInjective(outputs') /\ ToSet(outputs') = ToSet(outputs) \cup {x}
    BY <1>0, <2>2, <2>3, <2>4, AddLast, ToSetAppend DEF OutputsInv
  <2>6. published = NoPlan /\ ~(run_pc \in AfterOutputs /\ plan_done)
    <3>1. AfterOutputs \subseteq AfterSnapshot
      BY DEF AfterOutputs, AfterCompletions, AfterSnapshot
    <3>2. published = NoPlan /\ published_epoch = completed_epoch + 1 /\ completed_epoch \in Nat
      BY <2>2 DEF EpochInv, Executing
    <3>3. ~(completed_epoch >= published_epoch) BY <3>2, SMT
    <3> QED BY <3>1, <3>2, <3>3 DEF EpochInv
  <2>7. \A r \in ToSet(outputs') :
          \E k \in DOMAIN plan.work : plan.work[k].id = r /\ (k < item \/ k = item)
    BY <2>2, <2>3, <2>5 DEF OutputsInv, AtItems
  <2>8. ASSUME NEW r \in Requests, r # x PROVE Delivered(r)'
    <3>1. emitted'[r] = emitted[r] BY <1>0, <2>2, <2>8
    <3>2. Delivered(r) BY DEF OutputsInv
    <3> QED BY <1>0, <2>5, <2>8, <3>1, <3>2 DEF Delivered
  <2>9. Delivered(x)'
    <3> SUFFICES ASSUME request[x].terminal_error = "None"
                 PROVE  /\ emitted'[x] = request[x].pieces + 1
                        /\ request[x].stage \in Serving /\ ~request[x].release_sent
      BY <1>0, <2>5 DEF Delivered
    <3>1. request[x].stage \in Scheduled BY <2>3 DEF ServedInv, Open
    <3>2. ~request[x].release_sent
      BY <2>3, <3>1 DEF LifeInv, CoherentInv, Coherent, Scheduled
    <3>3. emitted[x] = request[x].pieces + 0
      BY <2>3, <2>4 DEF OutputsInv, Delivered
    <3>4. emitted'[x] = emitted[x] + 1 BY <1>0, <2>2, <2>3
    <3>5. request[x].pieces \in Nat BY <1>0, <2>3 DEF RequestStates
    <3>6. request[x].pieces + 0 = request[x].pieces BY <3>5, SMT
    <3> QED BY <3>1, <3>2, <3>3, <3>4, <3>6 DEF Serving
  <2> QED BY <1>0, <1>1, <2>2, <2>5, <2>6, <2>7, <2>8, <2>9 DEF OutputsInv
<1> QED BY <1>0, <1>3, <1>4, OutputMoves

(* No text is on its way at the start.                                     *)
LEMMA InitOutputs == Init => OutputsInv
<1> SUFFICES ASSUME Init PROVE OutputsInv
  OBVIOUS
<1>1. /\ outputs = << >> /\ published = NoPlan /\ env_pc = "top"
      /\ emitted = [r \in Requests |-> 0]
      /\ request = [r \in Requests |-> Fresh("Unsubmitted")]
  BY DEF Init, HandoffInit, SchedulerInit, EnvironmentInit
<1>2. IsInjective(outputs) /\ ToSet(outputs) = {}
  BY <1>1, ToSetEmpty, SMT DEF IsInjective
<1>3. ASSUME NEW r \in Requests PROVE Delivered(r)
  <2>1. Fresh("Unsubmitted").pieces = 0 BY DEF Fresh
  <2>2. request[r].pieces = 0 /\ emitted[r] = 0 BY <1>1, <2>1
  <2> QED BY <1>2, <2>2, SMT DEF Delivered
<1> QED BY <1>1, <1>2, <1>3 DEF OutputsInv, AtItems

(* The text is accounted for all along.                                    *)
LEMMA OutputsInvariance == Spec => []OutputsInv
<1>1. /\ TypeInv /\ LifeInv /\ EpochInv /\ LateInv /\ ServedInv /\ OutputsInv /\ [Next]_vars
      => OutputsInv'
  <2> SUFFICES ASSUME TypeInv, LifeInv, EpochInv, LateInv, ServedInv, OutputsInv, [Next]_vars
               PROVE  OutputsInv'
    OBVIOUS
  <2>1. CASE SchedulerThread BY <2>1, OutputsSchedulerStep
  <2>2. CASE EnvironmentThread BY <2>2, OutputsEnvironmentStep
  <2>3. CASE UNCHANGED vars
    BY <2>3 DEF vars, handoffVars, schedulerVars, lifecycleVars, environmentVars, workVars,
                OutputsInv, Delivered
  <2> QED BY <2>1, <2>2, <2>3 DEF Next, Terminated
<1> QED
  BY <1>1, InitOutputs, TypesInvariance, LifeInvariance, EpochInvariance, LateInvariance,
     ServedInvariance, PTL DEF Spec

(* A request that ends well was answered in full, whatever the order in    *)
(* which the two threads ran: process_environment_messages drains the text *)
(* of a batch before its completions and its acknowledgements, and folds a *)
(* limit or an end of generation only when the answer says so.             *)
THEOREM SuccessIsAlwaysComplete == Spec => []SuccessIsComplete
<1>1. TypeInv /\ ServedInv /\ OutputsInv => SuccessIsComplete
  <2> SUFFICES ASSUME TypeInv, ServedInv, OutputsInv, NEW r \in Requests,
                      request[r].stage = "Terminal", request[r].terminal_error = "None"
               PROVE  /\ request[r].pieces = emitted[r]
                      /\ Full(r)
    BY DEF SuccessIsComplete, Full
  <2>1. Full(r) BY DEF ServedInv, Served, Ended
  <2>2. Delivered(r) /\ r \notin ToSet(outputs)
    BY DEF OutputsInv, Delivered, Serving, Scheduled
  <2>3. request[r].pieces \in Nat BY DEF TypeInv, SchedulerTypes, RequestStates
  <2>4. request[r].pieces + 0 = request[r].pieces BY <2>3, SMT
  <2> QED BY <2>1, <2>2, <2>4 DEF Delivered
<1> QED BY <1>1, TypesInvariance, ServedInvariance, OutputsInvariance, PTL
-----------------------------------------------------------------------------
(* The two threads and the caller.  Nothing is sent in a drain, and what   *)
(* was sent before it has the error it will end with.                      *)
ArrivalInv ==
  /\ run_pc = "flush" => ~draining
  /\ draining => \A r \in InFlight(request) : request[r].terminal_error # "None"

(* What a drain does to the requests, as their callers see it.             *)
LEMMA DrainsOnce ==
  ASSUME TypeInv, LifeInv, DrainInv', Drains, ~draining
  PROVE  \E error \in Errors \ {"None"} :
           /\ draining' /\ pending_admissions' = << >>
           /\ \A r \in Requests :
                /\ SameProgress(request[r], request'[r])
                /\ ~Ongoing(request[r]) => request'[r] = request[r]
                /\ Ongoing(request[r]) =>
                     request'[r].terminal_error = FirstError(request[r].terminal_error, error)
                /\ r \in Unsent => request'[r].stage = "Terminal"
                /\ request[r].admission = "InFlight" => request'[r].stage = request[r].stage
                /\ Ongoing(request[r]) /\ request[r].admission = "EnvironmentOwned" =>
                     request'[r].stage = "PendingRelease"
<1>1. PICK error \in Errors, ready \in Seq(Requests) : EnterDraining(error, ready)
  BY DEF Drains
<1>2. /\ draining' /\ drain_error' = error /\ pending_admissions' = << >>
      /\ request' = [r \in Requests |-> IF Known(r) THEN Drained(request[r], error)
                                        ELSE request[r]]
  BY <1>1 DEF EnterDraining
<1>3. error \in Errors \ {"None"} BY <1>2 DEF DrainInv
<1>4. ASSUME NEW r \in Requests
      PROVE  /\ SameProgress(request[r], request'[r])
             /\ ~Ongoing(request[r]) => request'[r] = request[r]
             /\ Ongoing(request[r]) =>
                  request'[r].terminal_error = FirstError(request[r].terminal_error, error)
             /\ r \in Unsent => request'[r].stage = "Terminal"
             /\ request[r].admission = "InFlight" => request'[r].stage = request[r].stage
             /\ Ongoing(request[r]) /\ request[r].admission = "EnvironmentOwned" =>
                  request'[r].stage = "PendingRelease"
  <2> DEFINE q == request[r]
             new == Drained(q, error)
  <2>1. q \in RequestStates /\ Coherent(q)
    BY DEF TypeInv, SchedulerTypes, LifeInv, CoherentInv
  <2>2. /\ Ongoing(q) => Known(r)
        /\ Known(r) => q.stage # "Unsubmitted"
    BY DEF Known, LifeInv, LiveInv
  <2>3. request'[r] = IF Known(r) THEN new ELSE q BY <1>2
  <2>4. /\ SameProgress(q, new)
        /\ q.stage = "Terminal" => new = q
        /\ q.stage # "Terminal" =>
             /\ new.terminal_error = FirstError(q.terminal_error, error)
             /\ q.admission = "NotSent" => new.stage = "Terminal"
             /\ q.admission = "InFlight" => new.stage = q.stage
             /\ q.admission = "EnvironmentOwned" => new.stage = "PendingRelease"
    BY <2>1, DrainedFields
  <2>5. r \in Unsent => Ongoing(q) /\ q.admission = "NotSent" BY DEF Unsent, Ongoing
  <2>6. q.admission = "InFlight" => Ongoing(q)
    <3>1. Fresh("Unsubmitted").admission = "NotSent" BY DEF Fresh
    <3> QED BY <2>1, <3>1 DEF Coherent, Ongoing
  <2>7. SameProgress(q, q) BY DEF SameProgress
  <2> HIDE DEF q, new
  <2> QED BY <2>2, <2>3, <2>4, <2>5, <2>6, <2>7 DEF Ongoing, q
<1> QED BY <1>2, <1>3, <1>4

(* Every step of the scheduler keeps it so.                                *)
LEMMA ArrivalStep ==
  ASSUME TypeInv, LifeInv, ServedInv, ArrivalInv, SchedulerNext, DrainInv'
  PROVE  ArrivalInv'
<1>1. Monotone BY LifeStep
<1>2. Drains \/ UNCHANGED draining
  <2>1. CASE \E r \in Requests : Submit(r) BY <2>1 DEF Submit
  <2>2. CASE \A r \in Requests : ~Submit(r) BY <2>2, ListMoves
  <2> QED BY <2>1, <2>2
<1>3. run_pc' = "flush" => ~draining'
  <2>1. CASE BeginIteration BY <2>1 DEF BeginIteration
  <2>2. CASE FlushAdmission \/ RequestStop BY <2>2 DEF ArrivalInv, FlushAdmission, RequestStop, lifecycleVars
  <2>3. CASE TryRelease BY <2>3 DEF ArrivalInv, TryRelease
  <2>4. CASE ~(BeginIteration \/ FlushAdmission \/ RequestStop \/ TryRelease)
    <3>1. run_pc' # "flush"
      BY <2>4 DEF SchedulerNext, SchedulerStep, Submit, StopEnvironment, FlushDone, SnapshotEpoch,
         TakeAdmissionResult, TakeOutput, TakeCompletion, TakeReleaseAck, TakeFatal, DrainDone,
         ReleasesDone, RetireTerminal, ObserverFails, ObserveBatch, FinishRun, KeepRunning,
         WaitForRelease, PublishPlan, RejectPlan, NoWork, BuildThrows
    <3> QED BY <3>1
  <2> QED BY <2>1, <2>2, <2>3, <2>4
<1>4. ASSUME draining', NEW r \in Requests, request'[r].admission = "InFlight"
      PROVE  request'[r].terminal_error # "None"
  <2>1. ASSUME draining, request[r].admission = "InFlight"
        PROVE  request'[r].terminal_error # "None"
    BY <1>1, <2>1 DEF ArrivalInv, InFlight, Monotone, NeverBack
  <2>2. CASE Drains /\ ~draining
    <3>1. request[r].admission = "InFlight" BY <1>4, <2>2, DrainsMove DEF Drains
    <3>2. Ongoing(request[r])
      <4>1. Fresh("Unsubmitted").admission = "NotSent" BY DEF Fresh
      <4> QED BY <3>1, <4>1 DEF LifeInv, CoherentInv, Coherent, Ongoing
    <3>3. PICK error \in Errors \ {"None"} :
            request'[r].terminal_error = FirstError(request[r].terminal_error, error)
      BY <2>2, <3>2, DrainsOnce
    <3> QED BY <3>3 DEF FirstError
  <2>3. CASE ~(Drains /\ ~draining)
    <3>0. draining
      BY <1>2, <1>4, <2>3
    <3>1. request[r].admission = "InFlight" => request'[r].terminal_error # "None"
      BY <2>1, <3>0
    <3>2. CASE Drains
      <4>1. request'[r].admission = request[r].admission BY <3>2, DrainsMove DEF Drains
      <4> QED BY <1>4, <3>1, <4>1
    <3>3. CASE Quiet \/ PublishPlan
      <4>1. request'[r].admission = request[r].admission
        BY <3>3, PublishMoves DEF Quiet, Stays
      <4> QED BY <1>4, <3>1, <4>1
    <3>4. CASE \E x \in Requests : Submit(x)
      <4>1. PICK x \in Requests : Touches(x) /\ request'[x].admission = "NotSent"
        BY <3>4, SubmitMoves
      <4> QED BY <1>4, <3>1, <4>1 DEF Touches
    <3>5. CASE FlushAdmission BY <3>0, <3>5 DEF FlushAdmission, ArrivalInv
    <3>6. CASE TakeAdmissionResult
      <4>1. PICK x \in Requests :
              /\ Touches(x)
              /\ request' = request \/ request'[x].admission \in {"NotSent", "EnvironmentOwned"}
        BY <3>6, ResultMoves
      <4> QED BY <1>4, <3>1, <4>1 DEF Touches
    <3>7. CASE TakeReleaseAck
      <4>1. PICK x \in Requests :
              Touches(x) /\ (request' = request \/ request'[x].admission = "NotSent")
        BY <3>7, AckMoves
      <4> QED BY <1>4, <3>1, <4>1 DEF Touches
    <3>8. CASE TryRelease
      <4>1. PICK x \in Requests :
              Touches(x) /\ (request' = request \/ request'[x].admission = "EnvironmentOwned")
        BY <3>8, ReleaseMoves
      <4> QED BY <1>4, <3>1, <4>1 DEF Touches
    <3> QED BY <3>2, <3>3, <3>4, <3>5, <3>6, <3>7, <3>8, SchedulerMoves
  <2> QED BY <2>2, <2>3
<1> QED BY <1>3, <1>4 DEF ArrivalInv, InFlight

(* What waits in a drain has its error, all along.                         *)
LEMMA ArrivalInvariance == Spec => []ArrivalInv
<1>1. Init => ArrivalInv BY DEF Init, SchedulerInit, ArrivalInv
<1>2. /\ TypeInv /\ LifeInv /\ ServedInv /\ ServedInv' /\ ArrivalInv /\ [Next]_vars
      => ArrivalInv'
  <2> SUFFICES ASSUME TypeInv, LifeInv, ServedInv, ServedInv', ArrivalInv, [Next]_vars
               PROVE  ArrivalInv'
    OBVIOUS
  <2>1. CASE SchedulerThread BY <2>1, ArrivalStep DEF SchedulerThread, ServedInv
  <2>2. CASE UNCHANGED schedulerVars
    BY <2>2 DEF schedulerVars, lifecycleVars, ArrivalInv, InFlight
  <2> QED BY <2>1, <2>2 DEF Next, Terminated, EnvironmentThread, vars
<1> QED BY <1>1, <1>2, TypesInvariance, LifeInvariance, ServedInvariance, PTL DEF Spec
-----------------------------------------------------------------------------
(* The states of the server the callers see, and the steps that map to its *)
(* steps.                                                                  *)
PhasesSeen == [r \in Requests |-> PhaseOf(request[r].stage)]

TokensSeen == [r \in Requests |-> request[r].decoded_count]

VerdictsSeen == [r \in Requests |-> request[r].terminal_error]


(* The phase of each stage.                                                *)
LEMMA PhasesOf ==
  /\ PhaseOf("Unsubmitted") = "new" /\ PhaseOf("PendingAdmission") = "waiting"
  /\ PhaseOf("Prefill") = "serving" /\ PhaseOf("Decode") = "serving"
  /\ PhaseOf("PendingRelease") = "serving" /\ PhaseOf("Terminal") = "ended"
BY DEF PhaseOf

(* A step that changes none of this is a stutter.                          *)
LEMMA SeenStutters ==
  ASSUME Queue' = Queue, UNCHANGED draining,
         \A r \in Requests : /\ PhaseOf(request'[r].stage) = PhaseOf(request[r].stage)
                             /\ request'[r].decoded_count = request[r].decoded_count
                             /\ request'[r].terminal_error = request[r].terminal_error
  PROVE  UNCHANGED Lifecycle!vars
<1>1. /\ PhasesSeen' = PhasesSeen /\ TokensSeen' = TokensSeen
      /\ VerdictsSeen' = VerdictsSeen
  BY DEF PhasesSeen, TokensSeen, VerdictsSeen
<1> QED BY <1>1 DEF Lifecycle!vars, Queue, Arrivals, PhasesSeen, TokensSeen, VerdictsSeen

(* The system starts as the server does.                                   *)
LEMMA SeenInit == Init => Lifecycle!Init
<1> SUFFICES ASSUME Init PROVE Lifecycle!Init
  OBVIOUS
<1>1. live = << >> /\ draining = FALSE /\ request = [r \in Requests |-> Fresh("Unsubmitted")]
  BY DEF Init, SchedulerInit
<1>2. Queue = << >> BY <1>1, FilterEmpty DEF Queue
<1>3. /\ Fresh("Unsubmitted").stage = "Unsubmitted" /\ Fresh("Unsubmitted").decoded_count = 0
      /\ Fresh("Unsubmitted").terminal_error = "None"
  BY DEF Fresh
<1>4. /\ PhasesSeen = [r \in Requests |-> "new"]
      /\ TokensSeen = [r \in Requests |-> 0]
      /\ VerdictsSeen = [r \in Requests |-> "None"]
  BY <1>1, <1>3, PhasesOf DEF PhasesSeen, TokensSeen, VerdictsSeen
<1> QED
  BY <1>1, <1>2, <1>4 DEF Lifecycle!Init, Queue, Arrivals, PhasesSeen, TokensSeen, VerdictsSeen

(* A submission is a submission.                                           *)
LEMMA SeenSubmit ==
  ASSUME TypeInv, LifeInv, PathInv, OrderInv, NEW r \in Requests, Submit(r),
         UNCHANGED environmentVars
  PROVE  Lifecycle!Submit(r)
<1>1. Queue' = Append(Queue, r) BY QueueOnSubmit
<1>2. /\ request[r].stage = "Unsubmitted" /\ UNCHANGED draining
      /\ request' = [request EXCEPT ![r] = Fresh("PendingAdmission")]
      /\ request \in [Requests -> RequestStates]
  BY DEF Submit, TypeInv, SchedulerTypes
<1>3. request[r] = Fresh("Unsubmitted") BY <1>2 DEF LifeInv, CoherentInv, Coherent
<1>4. LET old == Fresh("Unsubmitted")
          new == Fresh("PendingAdmission")
      IN  /\ new.stage = "PendingAdmission" /\ new.decoded_count = old.decoded_count
          /\ new.terminal_error = old.terminal_error
  BY DEF Fresh
<1>5. PhasesSeen[r] = "new" BY <1>2, PhasesOf DEF PhasesSeen
<1>6. PhasesSeen' = [PhasesSeen EXCEPT ![r] = "waiting"]
  BY <1>2, <1>4, PhasesOf DEF PhasesSeen
<1>7. TokensSeen' = TokensSeen /\ VerdictsSeen' = VerdictsSeen
  BY <1>2, <1>3, <1>4 DEF TokensSeen, VerdictsSeen
<1> QED
  BY <1>1, <1>2, <1>5, <1>6, <1>7
  DEF Lifecycle!Submit, Queue, Arrivals, PhasesSeen, TokensSeen, VerdictsSeen
(* An answer of the environment is about the request that waited longest.  *)
LEMMA SeenAnswer ==
  ASSUME TypeInv, LifeInv, PathInv, OrderInv, DrainInv, ArrivalInv,
         TakeAdmissionResult, UNCHANGED environmentVars
  PROVE  Lifecycle!Serve \/ Lifecycle!Refuse
<1>1. PICK answer, r : answer = Head(admission_results) /\ r = answer.id
  OBVIOUS
<1>2. /\ Queue # << >> /\ Head(Queue) = r /\ Queue' = Tail(Queue)
  BY <1>1, QueueOnAnswer
<1>3. r \in Requests /\ Awaiting(r) BY <1>1, AnswerLeavesPath
<1>4. /\ Touches(r) /\ answer \in Results
      /\ answer.error # "None" =>
           /\ request'[r].stage = "Terminal"
           /\ request'[r].terminal_error = FirstError(request[r].terminal_error, answer.error)
           /\ SameProgress(request[r], request'[r])
      /\ answer.error = "None" =>
           /\ request'[r].stage \in {"Prefill", "PendingRelease"}
           /\ request'[r].decoded_count = 0
           /\ request'[r].stage = "Prefill" =>
                request'[r].terminal_error = request[r].terminal_error
           /\ request'[r].stage = "PendingRelease" =>
                request'[r].terminal_error = FirstError(request[r].terminal_error, drain_error)
  BY <1>1, <1>3, ResultMoves
<1>5. UNCHANGED draining BY DEF TakeAdmissionResult
<1>6. /\ request[r].stage = "PendingAdmission" /\ request[r].decoded_count = 0
      /\ request[r].admission = "InFlight"
  <2>1. request[r].admission = "InFlight" BY <1>3 DEF Awaiting
  <2>2. Coherent(request[r]) /\ request[r].stage \in Stages
    BY <1>3 DEF LifeInv, CoherentInv, TypeInv, SchedulerTypes, RequestStates
  <2>3. Fresh("Unsubmitted").admission = "NotSent" BY DEF Fresh
  <2>4. request[r].stage = "PendingAdmission"
    BY <2>1, <2>2, <2>3 DEF Coherent, Stages
  <2> QED BY <2>1, <2>2, <2>4 DEF Coherent
<1>7. \A x \in Requests : x # r => request'[x] = request[x] BY <1>4 DEF Touches
<1>8. CASE answer.error # "None"
  <2>1. PhasesSeen' = [PhasesSeen EXCEPT ![r] = "ended"]
    BY <1>3, <1>4, <1>7, <1>8, PhasesOf DEF PhasesSeen
  <2>2. TokensSeen' = TokensSeen
    BY <1>3, <1>4, <1>7, <1>8 DEF TokensSeen, SameProgress
  <2>3. VerdictsSeen' = [VerdictsSeen EXCEPT ![r] = Lifecycle!First(@, answer.error)]
    BY <1>3, <1>4, <1>7, <1>8 DEF VerdictsSeen, FirstError, Lifecycle!First
  <2>4. answer.error \in Errors \ {"None"} BY <1>4, <1>8 DEF Results
  <2>5. Lifecycle!Refuse
    BY <1>2, <1>5, <2>1, <2>2, <2>3, <2>4
    DEF Lifecycle!Refuse, Queue, Arrivals, PhasesSeen, TokensSeen, VerdictsSeen
  <2> QED BY <2>5
<1>9. CASE answer.error = "None"
  <2>1. PhasesSeen' = [PhasesSeen EXCEPT ![r] = "serving"]
    BY <1>3, <1>4, <1>7, <1>9, PhasesOf DEF PhasesSeen
  <2>2. TokensSeen' = TokensSeen
    BY <1>3, <1>4, <1>6, <1>7, <1>9 DEF TokensSeen
  <2>3. draining => VerdictsSeen[r] # "None"
    BY <1>3, <1>6 DEF ArrivalInv, InFlight, VerdictsSeen
  <2>4. request'[r].terminal_error = request[r].terminal_error
    <3>1. CASE draining
      <4>1. request[r].terminal_error # "None" BY <2>3, <3>1, <1>3 DEF VerdictsSeen
      <4> QED BY <1>4, <1>9, <4>1 DEF FirstError
    <3>2. CASE ~draining
      <4>1. drain_error = "None" BY <3>2 DEF DrainInv
      <4> QED BY <1>4, <1>9, <4>1 DEF FirstError
    <3> QED BY <3>1, <3>2
  <2>5. VerdictsSeen' = VerdictsSeen BY <1>7, <2>4 DEF VerdictsSeen
  <2>6. Lifecycle!Serve
    BY <1>2, <1>5, <2>1, <2>2, <2>3, <2>5
    DEF Lifecycle!Serve, Queue, Arrivals, PhasesSeen, TokensSeen, VerdictsSeen
  <2> QED BY <2>6
<1> QED BY <1>8, <1>9

(* A completion is one more token at most, and never one too many.         *)
LEMMA SeenCompletion ==
  ASSUME TypeInv, LifeInv, PathInv, OrderInv, LateInv, ServedInv, SchedulerThread,
         TakeCompletion
  PROVE  (\E r \in Requests : Lifecycle!Generate(r)) \/ UNCHANGED Lifecycle!vars
<1>0. PICK c, r : c = Head(completions) /\ r = c.id
  OBVIOUS
<1> DEFINE q == request[r]
           new == request'[r]
<1>1. /\ c \in Completions /\ r \in Requests /\ Touches(r) /\ c \in ToSet(completions)
      /\ q \in RequestStates /\ UNCHANGED draining
      /\ request'[r] = IF q.admission = "EnvironmentOwned" THEN Folded(q, c) ELSE q
  BY <1>0, CompletionMoves
<1>2. Queue' = Queue
  <2>1. /\ ~TakeAdmissionResult /\ \A x \in Requests : ~Submit(x)
        /\ ~(Drains /\ ~draining)
    <3>1. run_pc = "completions" BY DEF TakeCompletion
    <3>2. ~TakeAdmissionResult BY <3>1 DEF TakeAdmissionResult
    <3> QED BY <1>1, <3>1, <3>2 DEF Submit, Drains, EnterDraining
  <2> QED BY <2>1, QueueOtherwise
<1>3. \A x \in Requests : x # r => request'[x] = request[x] BY <1>1 DEF Touches
<1>4. CASE q.admission # "EnvironmentOwned"
  <2>1. \A x \in Requests : request'[x] = request[x] BY <1>1, <1>3, <1>4
  <2> QED BY <1>1, <1>2, <2>1, SeenStutters
<1>5. CASE q.admission = "EnvironmentOwned"
  <2>1. /\ new.terminal_error = q.terminal_error
        /\ new.decoded_count = (IF q.decoded_count >= c.decoded_tokens
                                THEN q.decoded_count ELSE c.decoded_tokens)
        /\ new.stage \in {"Prefill", "Decode", "PendingRelease"} \/ new.stage = q.stage
    BY <1>1, <1>5, FoldedFields
  <2>2. q.stage \in {"Prefill", "Decode", "PendingRelease"}
    <3>1. Fresh("Unsubmitted").admission = "NotSent" BY DEF Fresh
    <3>2. Coherent(q) /\ q.stage \in Stages
      BY <1>1 DEF LifeInv, CoherentInv, RequestStates
    <3> QED BY <1>5, <3>1, <3>2 DEF Coherent, Stages
  <2>3. PhaseOf(q.stage) = "serving" /\ PhaseOf(new.stage) = "serving"
    BY <2>1, <2>2, PhasesOf
  <2>4. /\ c.decoded_tokens <= q.decoded_count + 1 /\ q.decoded_count < MaxOutput[r]
        /\ c.decoded_tokens \in Nat /\ q.decoded_count \in Nat
    <3>1. c \in Late BY <1>1 DEF Late
    <3>2. Open(r) /\ Ahead(c) BY <1>0, <3>1 DEF ServedInv
    <3> QED BY <1>0, <1>1, <3>2 DEF Open, Ahead, Completions, RequestStates
  <2>5. new.decoded_count = q.decoded_count \/ new.decoded_count = q.decoded_count + 1
    BY <2>1, <2>4, SMT
  <2>6. CASE new.decoded_count = q.decoded_count
    <3>1. \A x \in Requests : /\ PhaseOf(request'[x].stage) = PhaseOf(request[x].stage)
                              /\ request'[x].decoded_count = request[x].decoded_count
                              /\ request'[x].terminal_error = request[x].terminal_error
      BY <1>3, <2>1, <2>3, <2>6
    <3> QED BY <1>1, <1>2, <3>1, SeenStutters
  <2>7. CASE new.decoded_count = q.decoded_count + 1
    <3>1. PhasesSeen' = PhasesSeen BY <1>3, <2>3 DEF PhasesSeen
    <3>2. VerdictsSeen' = VerdictsSeen BY <1>3, <2>1 DEF VerdictsSeen
    <3>3. TokensSeen' = [TokensSeen EXCEPT ![r] = @ + 1]
      BY <1>1, <1>3, <2>7 DEF TokensSeen
    <3>4. PhasesSeen[r] = "serving" /\ TokensSeen[r] < MaxOutput[r]
      BY <1>1, <2>3, <2>4 DEF PhasesSeen, TokensSeen
    <3>5. Lifecycle!Generate(r)
      BY <1>1, <1>2, <3>1, <3>2, <3>3, <3>4
      DEF Lifecycle!Generate, Queue, Arrivals, PhasesSeen, TokensSeen, VerdictsSeen
    <3> QED BY <1>1, <3>5
  <2> QED BY <2>5, <2>6, <2>7
<1> QED BY <1>4, <1>5

(* A request ends when its release is acknowledged, with its error or with *)
(* its answer in full.                                                     *)
LEMMA SeenAck ==
  ASSUME TypeInv, LifeInv, PathInv, OrderInv, ServedInv, SchedulerThread, TakeReleaseAck
  PROVE  (\E r \in Requests : Lifecycle!End(r)) \/ UNCHANGED Lifecycle!vars
<1> DEFINE waits(r) == Known(r) /\ request[r].stage = "PendingRelease" /\ request[r].release_sent
<1>0. PICK r : r = Head(release_acks)
  OBVIOUS
<1>1. /\ r \in Requests /\ Touches(r)
      /\ ~waits(r) => request' = request
      /\ waits(r) => /\ request'[r].stage = "Terminal"
                     /\ request'[r].terminal_error = request[r].terminal_error
  BY <1>0, AckMoves
<1>2. UNCHANGED draining /\ ~TakeCompletion /\ ~TakeAdmissionResult
  BY DEF TakeReleaseAck, TakeCompletion, TakeAdmissionResult
<1>3. Queue' = Queue
  <2>1. /\ ~TakeAdmissionResult /\ \A x \in Requests : ~Submit(x)
        /\ ~(Drains /\ ~draining)
    BY <1>2 DEF TakeReleaseAck, Submit, Drains, EnterDraining
  <2> QED BY <2>1, QueueOtherwise
<1>4. \A x \in Requests : x # r => request'[x] = request[x] BY <1>1 DEF Touches
<1>5. CASE ~waits(r) BY <1>1, <1>2, <1>3, <1>5, SeenStutters
<1>6. CASE waits(r)
  <2>1. request'[r].decoded_count = request[r].decoded_count
    <3>1. Kept(r) BY <1>1, <1>2, KeptMoves DEF SchedulerThread
    <3> QED BY <3>1 DEF Kept, SameProgress
  <2>2. PhasesSeen' = [PhasesSeen EXCEPT ![r] = "ended"]
    BY <1>1, <1>4, <1>6, PhasesOf DEF PhasesSeen
  <2>3. TokensSeen' = TokensSeen BY <1>4, <2>1 DEF TokensSeen
  <2>4. VerdictsSeen' = VerdictsSeen BY <1>1, <1>4, <1>6 DEF VerdictsSeen
  <2>5. PhasesSeen[r] = "serving" BY <1>1, <1>6, PhasesOf DEF PhasesSeen
  <2>6. VerdictsSeen[r] # "None" \/ Full(r)
    BY <1>1, <1>6 DEF ServedInv, Served, Ended, VerdictsSeen
  <2>7. Full(r) => \/ TokensSeen[r] = MaxOutput[r]
                   \/ r \in Natural /\ TokensSeen[r] > 0
    <3>1. ASSUME request[r].decoded_count \in 1 .. MaxOutput[r]
          PROVE  request[r].decoded_count > 0
      <4>1. MaxOutput[r] \in Nat BY <1>1, HandoffAssumption
      <4> QED BY <3>1, <4>1, SMT
    <3> QED BY <1>1, <3>1 DEF Full, TokensSeen
  <2>8. Lifecycle!End(r)
    BY <1>2, <1>3, <2>2, <2>3, <2>4, <2>5, <2>6, <2>7
    DEF Lifecycle!End, Lifecycle!Answered, Queue, Arrivals, PhasesSeen, TokensSeen, VerdictsSeen
  <2> QED BY <1>1, <2>8
<1> QED BY <1>5, <1>6

(* A drain gives those still served or waiting its error, and ends those   *)
(* who have not been sent.                                                 *)
LEMMA SeenDrain ==
  ASSUME TypeInv, LifeInv, PathInv, OrderInv, DrainInv', Drains, ~draining,
         RetireTerminal \/ UNCHANGED live, UNCHANGED environmentVars
  PROVE  Lifecycle!Drain
<1>1. PICK error \in Errors \ {"None"} :
        /\ draining' /\ pending_admissions' = << >>
        /\ \A r \in Requests :
             /\ SameProgress(request[r], request'[r])
             /\ ~Ongoing(request[r]) => request'[r] = request[r]
             /\ Ongoing(request[r]) =>
                  request'[r].terminal_error = FirstError(request[r].terminal_error, error)
             /\ r \in Unsent => request'[r].stage = "Terminal"
             /\ request[r].admission = "InFlight" => request'[r].stage = request[r].stage
             /\ Ongoing(request[r]) /\ request[r].admission = "EnvironmentOwned" =>
                  request'[r].stage = "PendingRelease"
  BY DrainsOnce
<1>2. draining' = TRUE BY DEF Drains, EnterDraining
<1>3. PICK s, t : s = AdmissionPath /\ t = pending_admissions
  OBVIOUS
<1>4. s \in Seq(Requests) /\ t \in Seq(Requests) /\ Queue = s \o t /\ ToSet(t) = Unsent
  BY <1>3, PathSets DEF OrderInv, TypeInv, SchedulerTypes, LifeInv, PendingInv
<1>5. PICK kept : kept = Len(s)
  OBVIOUS
<1>6. /\ kept \in 0 .. Len(Queue) /\ SubSeq(Queue, 1, kept) = s
      /\ {Queue[i] : i \in kept + 1 .. Len(Queue)} = Unsent
  <2>1. Split(s \o t, Len(s), s, t) BY <1>4, PiecesOfConcat
  <2>2. Split(Queue, kept, s, t) BY <1>4, <1>5, <2>1, Zenon
  <2> QED BY <1>4, <2>2 DEF Split
<1>7. Queue' = SubSeq(Queue, 1, kept) BY <1>3, <1>6, QueueOnDrain
<1>8. ASSUME NEW r \in Requests
      PROVE  /\ PhaseOf(request'[r].stage) =
                  IF r \in Unsent THEN "ended" ELSE PhaseOf(request[r].stage)
             /\ PhaseOf(request[r].stage) \in {"waiting", "serving"} <=> Ongoing(request[r])
  <2> DEFINE q == request[r]
  <2>1. Coherent(q) /\ q.stage \in Stages /\ q.admission \in Ownerships
    BY DEF LifeInv, CoherentInv, TypeInv, SchedulerTypes, RequestStates
  <2>2. PhaseOf(q.stage) \in {"waiting", "serving"} <=> Ongoing(q)
    BY <2>1, PhasesOf DEF Stages, Ongoing
  <2>3. CASE ~Ongoing(q)
    <3>1. r \notin Unsent BY <2>3 DEF Unsent, Ongoing
    <3>2. request'[r] = request[r] BY <1>1, <2>3
    <3> QED BY <2>2, <3>1, <3>2
  <2>4. CASE Ongoing(q) /\ q.stage = "PendingAdmission"
    <3>1. q.admission = "NotSent" <=> r \in Unsent BY <2>4 DEF Unsent
    <3>2. CASE r \in Unsent BY <1>1, <2>2, <3>2, PhasesOf
    <3>3. CASE r \notin Unsent
      <4>1. q.admission = "InFlight" BY <2>1, <2>4, <3>1, <3>3 DEF Coherent
      <4>2. request'[r].stage = request[r].stage BY <1>1, <4>1
      <4> QED BY <2>2, <3>3, <4>2
    <3> QED BY <3>2, <3>3
  <2>5. CASE Ongoing(q) /\ q.stage # "PendingAdmission"
    <3>1. q.stage \in {"Prefill", "Decode", "PendingRelease"} /\ q.admission = "EnvironmentOwned"
      BY <2>1, <2>5 DEF Ongoing, Stages, Coherent
    <3>2. r \notin Unsent BY <2>5 DEF Unsent
    <3>3. request'[r].stage = "PendingRelease" BY <1>1, <2>5, <3>1
    <3> QED BY <2>2, <3>1, <3>2, <3>3, PhasesOf
  <2> QED BY <2>3, <2>4, <2>5
<1>9. PhasesSeen' = [r \in Requests |-> IF r \in {Queue[i] : i \in kept + 1 .. Len(Queue)}
                                        THEN "ended" ELSE PhasesSeen[r]]
  <2> DEFINE flushed == {Queue[i] : i \in kept + 1 .. Len(Queue)}
  <2>1. flushed = Unsent BY <1>6
  <2> HIDE DEF flushed
  <2>2. PhasesSeen' = [r \in Requests |-> IF r \in flushed THEN "ended" ELSE PhasesSeen[r]]
    BY <1>8, <2>1 DEF PhasesSeen
  <2> QED BY <2>2 DEF flushed
<1>10. VerdictsSeen' = [r \in Requests |-> IF PhasesSeen[r] \in {"waiting", "serving"}
                                           THEN Lifecycle!First(VerdictsSeen[r], error)
                                           ELSE VerdictsSeen[r]]
  BY <1>1, <1>8 DEF VerdictsSeen, PhasesSeen, FirstError, Lifecycle!First
<1>11. TokensSeen' = TokensSeen BY <1>1 DEF TokensSeen, SameProgress
<1> QED
  BY <1>1, <1>2, <1>6, <1>7, <1>9, <1>10, <1>11, Zenon
  DEF Lifecycle!Drain, Queue, Arrivals, PhasesSeen, TokensSeen, VerdictsSeen
(* Every other step is out of the callers' sight.                          *)
SameView(r) ==
  /\ request'[r].stage = request[r].stage
  /\ request'[r].decoded_count = request[r].decoded_count
  /\ request'[r].terminal_error = request[r].terminal_error

(* A field the callers do not see is written.                              *)
LEMMA FieldUnseen ==
  ASSUME TypeInv, NEW r \in Requests, NEW new,
         \/ \E v : new = [request[r] EXCEPT !.pieces = v]
         \/ new = [request[r] EXCEPT !.release_sent = TRUE]
         \/ new = [request[r] EXCEPT !.admission = "InFlight"],
         request' = [request EXCEPT ![r] = new]
  PROVE  \A x \in Requests : SameView(x)
<1> DEFINE q == request[r]
<1>1. request \in [Requests -> RequestStates] /\ q \in RequestStates
  BY DEF TypeInv, SchedulerTypes
<1>2. /\ new.stage = q.stage /\ new.decoded_count = q.decoded_count
      /\ new.terminal_error = q.terminal_error
  BY <1>1, SMT DEF RequestStates
<1>3. request'[r] = new /\ \A x \in Requests : x # r => request'[x] = request[x]
  BY <1>1
<1> QED BY <1>2, <1>3 DEF SameView

(* The steps that take no answer, and drain nothing, change no more.       *)
LEMMA UnseenMoves ==
  ASSUME TypeInv, LifeInv, SchedulerNext,
         ~TakeAdmissionResult, ~TakeCompletion, ~TakeReleaseAck,
         \A r \in Requests : ~Submit(r), ~(Drains /\ ~draining)
  PROVE  \A r \in Requests : SameView(r)
<1>1. ASSUME UNCHANGED request PROVE \A r \in Requests : SameView(r)
  BY <1>1 DEF SameView
<1>2. ASSUME Drains PROVE UNCHANGED request
  <2>1. draining BY <1>2
  <2> QED BY <1>2, <2>1 DEF Drains, EnterDraining
<1>3. CASE TakeOutput
  <2> DEFINE r == Head(outputs)
             q == request[r]
  <2>1. r \in Requests
    BY <1>3, HeadTailProperties DEF TakeOutput, TypeInv, ChannelTypes
  <2>2. request' = [request EXCEPT ![r] = [q EXCEPT !.pieces = q.pieces + 1]]
        \/ request' = request
    BY <1>3 DEF TakeOutput
  <2> HIDE DEF r
  <2> QED BY <1>1, <2>1, <2>2, FieldUnseen
<1>4. CASE FlushAdmission
  <2> DEFINE r == Head(pending_admissions)
  <2>1. r \in Requests BY <1>4, FlushMoves
  <2>2. request' = [request EXCEPT ![r] = [request[r] EXCEPT !.admission = "InFlight"]]
    BY <1>4 DEF FlushAdmission
  <2> HIDE DEF r
  <2> QED BY <2>1, <2>2, FieldUnseen
<1>5. CASE TryRelease
  <2> DEFINE r == Head(sweep)
  <2>1. r \in Requests BY <1>5, ReleaseMoves
  <2>2. request' = [request EXCEPT ![r] = [request[r] EXCEPT !.release_sent = TRUE]]
        \/ request' = request
    BY <1>5 DEF TryRelease
  <2> HIDE DEF r
  <2> QED BY <1>1, <2>1, <2>2, FieldUnseen
<1>6. CASE PublishPlan
  <2>1. \A r \in Requests : /\ request'[r].stage = request[r].stage
                            /\ SameProgress(request[r], request'[r])
                            /\ request'[r].terminal_error = request[r].terminal_error
    BY <1>6, PublishMoves
  <2> QED BY <2>1 DEF SameView, SameProgress
<1>7. CASE \/ RequestStop \/ StopEnvironment \/ FlushDone \/ SnapshotEpoch \/ DrainDone
           \/ ReleasesDone \/ RetireTerminal \/ ObserveBatch \/ FinishRun
           \/ KeepRunning \/ WaitForRelease
  BY <1>1, <1>7 DEF RequestStop, StopEnvironment, FlushDone, SnapshotEpoch, DrainDone,
     ReleasesDone, RetireTerminal, ObserveBatch, FinishRun, KeepRunning, WaitForRelease,
     lifecycleVars
<1>8. CASE BeginIteration \/ TakeFatal \/ ObserverFails \/ RejectPlan \/ NoWork \/ BuildThrows
  <2>1. TakeFatal \/ ObserverFails \/ RejectPlan \/ NoWork \/ BuildThrows
          => \E error, ready : EnterDraining(error, ready)
    BY DEF TakeFatal, ObserverFails, RejectPlan, NoWork, BuildThrows
  <2>2. BeginIteration => \/ UNCHANGED request
                          \/ \E error, ready : EnterDraining(error, ready)
    BY DEF BeginIteration
  <2>3. draining => \A error, ready : EnterDraining(error, ready) => UNCHANGED request
    BY DEF EnterDraining
  <2>4. Drains \/ UNCHANGED draining BY ListMoves
  <2>5. draining \in BOOLEAN BY DEF TypeInv, SchedulerTypes
  <2>6. \A error, ready : EnterDraining(error, ready) => draining' = TRUE
    BY DEF EnterDraining
  <2>7. ASSUME NEW error, NEW ready, EnterDraining(error, ready) PROVE UNCHANGED request
    <3>1. CASE Drains BY <1>2, <3>1
    <3>2. CASE UNCHANGED draining
      <4>1. draining BY <2>5, <2>6, <2>7, <3>2
      <4> QED BY <2>3, <2>7, <4>1
    <3> QED BY <2>4, <3>1, <3>2
  <2> QED BY <1>1, <1>8, <2>1, <2>2, <2>7
<1> QED BY <1>3, <1>4, <1>5, <1>6, <1>7, <1>8 DEF SchedulerNext, SchedulerStep

(* So they are stutters.                                                   *)
LEMMA SeenElsewhere ==
  ASSUME TypeInv, LifeInv, PathInv, OrderInv, SchedulerThread,
         ~TakeAdmissionResult, ~TakeCompletion, ~TakeReleaseAck,
         \A r \in Requests : ~Submit(r), ~(Drains /\ ~draining)
  PROVE  UNCHANGED Lifecycle!vars
<1>0. SchedulerNext BY DEF SchedulerThread
<1>1. Queue' = Queue BY QueueOtherwise
<1>2. UNCHANGED draining
  <2>1. ASSUME Drains PROVE UNCHANGED draining
    <3>1. draining BY <2>1
    <3>2. draining \in BOOLEAN BY DEF TypeInv, SchedulerTypes
    <3> QED BY <2>1, <3>1, <3>2 DEF Drains, EnterDraining
  <2> QED BY <1>0, <2>1, ListMoves
<1>3. \A r \in Requests : SameView(r) BY <1>0, UnseenMoves
<1> QED BY <1>1, <1>2, <1>3, SeenStutters DEF SameView

(* Every step of the system is a step of the server or a stutter.          *)
LEMMA SeenStep ==
  ASSUME TypeInv, LifeInv, PathInv, OrderInv, LateInv, ServedInv, ServedInv', ArrivalInv,
         [Next]_vars
  PROVE  [Lifecycle!Next]_(Lifecycle!vars)
<1>1. CASE SchedulerThread
  <2>0. SchedulerNext /\ UNCHANGED environmentVars BY <1>1 DEF SchedulerThread
  <2>1. CASE \E r \in Requests : Submit(r)
    BY <2>0, <2>1, SeenSubmit DEF Lifecycle!Next
  <2>2. CASE TakeAdmissionResult
    BY <2>0, <2>2, SeenAnswer DEF ServedInv, Lifecycle!Next
  <2>3. CASE TakeCompletion BY <1>1, <2>3, SeenCompletion DEF Lifecycle!Next
  <2>4. CASE TakeReleaseAck BY <1>1, <2>4, SeenAck DEF Lifecycle!Next
  <2>5. CASE Drains /\ ~draining /\ \A r \in Requests : ~Submit(r)
    <3>1. RetireTerminal \/ UNCHANGED live BY <2>0, <2>5, ListMoves
    <3> QED BY <2>0, <2>5, <3>1, SeenDrain DEF ServedInv, Lifecycle!Next
  <2>6. CASE /\ ~TakeAdmissionResult /\ ~TakeCompletion /\ ~TakeReleaseAck
             /\ \A r \in Requests : ~Submit(r)
             /\ ~(Drains /\ ~draining)
    BY <1>1, <2>6, SeenElsewhere
  <2> QED BY <2>1, <2>2, <2>3, <2>4, <2>5, <2>6
<1>2. CASE UNCHANGED schedulerVars
  <2>1. UNCHANGED <<request, live, draining>> BY <1>2 DEF schedulerVars, lifecycleVars
  <2>2. Queue' = Queue BY <2>1 DEF Queue
  <2> QED BY <2>1, <2>2, SeenStutters
<1> QED BY <1>1, <1>2 DEF Next, EnvironmentThread, Terminated, vars

(* The scheduler, the environment, their channels and their caller, faults *)
(* and drains included, are the server of RequestLifecycle.tla to whoever  *)
(* submits a request (scheduler.hpp:107-126): those that wait are taken up *)
(* in the order they came, each ends once, none gets a token too many, and *)
(* what ends without an error was answered in full.                        *)
THEOREM LifecycleIsImplemented == Spec => ImplementsLifecycle
<1>1. /\ TypeInv /\ LifeInv /\ PathInv /\ OrderInv /\ LateInv /\ ServedInv /\ ServedInv'
      /\ ArrivalInv /\ [Next]_vars
      => [Lifecycle!Next]_(Lifecycle!vars)
  BY SeenStep
<1> QED
  BY <1>1, SeenInit, TypesInvariance, LifeInvariance, PathInvariance, OrderInvariance,
     LateInvariance, ServedInvariance, ArrivalInvariance, PTL
  DEF Spec, ImplementsLifecycle, Lifecycle!Spec
-----------------------------------------------------------------------------
(* The work of the last plan, as the scheduler learns of it.  Until it has *)
(* seen all of it, what it has not seen is still to be done, or on its way *)
(* as a completion, or given up with a fatal that it will find before it   *)
(* looks at the plan's outcome.                                            *)
Tells(c, w) ==
  /\ c.id = w.id
  /\ \/ w.kind = "Prefill" /\ c.prefill_position >= w.end
     \/ w.kind = "Decode" /\ request[w.id].prompt_length + c.decoded_tokens > w.end

ToDo(i) == i > item \/ (i = item /\ env_pc = "items")

Expected(w) ==
  \/ \E i \in DOMAIN published.work : published.work[i] = w
  \/ env_pc \in AtItems /\ \E i \in DOMAIN plan.work : ToDo(i) /\ plan.work[i] = w
  \/ \E c \in Late : Tells(c, w)

GivenUp == fatals # << >> /\ ~(run_pc \in {"releases", "retire", "decide"} /\ plan_done)

Begun(work) ==
  work \in Seq(WorkItems) /\ \A i \in DOMAIN work : request[work[i].id].start_recorded

FoldInv ==
  /\ Begun(published_work) /\ Begun(outcome.work)
  /\ published_success =>
       \A i \in DOMAIN published_work :
         IsFolded(published_work[i]) \/ Expected(published_work[i]) \/ GivenUp
  /\ SuccessfulBatchesAreFolded

(* What was folded stays so, and the prompt of a request that was started  *)
(* is as long as it was.                                                   *)
LEMMA FoldedStays ==
  ASSUME TypeInv, LifeInv, SchedulerThread, NEW r \in Requests, request[r].start_recorded
  PROVE  /\ request'[r].start_recorded
         /\ request'[r].prompt_length = request[r].prompt_length
         /\ \A w \in WorkItems : w.id = r /\ IsFolded(w) => IsFolded(w)'
<1>0. SchedulerNext BY DEF SchedulerThread
<1>1. request'[r].start_recorded BY <1>0, StartedStays
<1>2. request'[r].prompt_length = request[r].prompt_length
  <2>1. CASE TakeCompletion
    <3> DEFINE c == Head(completions)
               q == request[c.id]
    <3>1. /\ c \in Completions /\ c.id \in Requests /\ Touches(c.id) /\ q \in RequestStates
          /\ request'[c.id] = IF q.admission = "EnvironmentOwned" THEN Folded(q, c) ELSE q
      BY <2>1, CompletionMoves
    <3>2. Same(q, Folded(q, c)) BY <3>1, FoldedFields
    <3> HIDE DEF c
    <3> QED BY <3>1, <3>2 DEF Touches, Same
  <2>2. CASE TakeAdmissionResult
    <3>1. PICK x : /\ x \in Requests /\ Touches(x)
                   /\ ~Awaiting(x) => request' = request
      BY <2>2, ResultMoves
    <3>2. Awaiting(x) => x # r BY <3>1, AwaitingState
    <3> QED BY <3>1, <3>2 DEF Touches
  <2>3. CASE \A x \in Requests : Kept(x) BY <2>3 DEF Kept
  <2> QED BY <1>0, <2>1, <2>2, <2>3, KeptMoves
<1>3. NeverBack(request[r], request'[r])
  <2>1. Monotone BY <1>0, LifeStep
  <2> QED BY <2>1 DEF Monotone
<1>4. /\ request[r].prefill_position \in Nat /\ request'[r].prefill_position \in Nat
      /\ request[r].decoded_count \in Nat /\ request'[r].decoded_count \in Nat
      /\ request[r].prompt_length \in Nat
  <2>1. SchedulerTypes' BY SchedulerStepTypes DEF TypeInv
  <2> QED BY <2>1 DEF TypeInv, SchedulerTypes, RequestStates
<1>5. ASSUME NEW w \in WorkItems, w.id = r, IsFolded(w) PROVE IsFolded(w)'
  <2>1. w.end \in Nat BY DEF WorkItems
  <2>2. CASE request[r].terminal_error # "None"
    BY <1>3, <1>5, <2>2 DEF NeverBack, IsFolded
  <2>3. CASE w.kind = "Prefill" /\ request[r].prefill_position >= w.end
    <3>1. request'[r].prefill_position >= w.end
      BY <1>3, <1>4, <2>1, <2>3, SMT DEF NeverBack
    <3> QED BY <1>5, <2>3, <3>1 DEF IsFolded
  <2>4. CASE w.kind = "Decode" /\ request[r].prompt_length + request[r].decoded_count > w.end
    <3>1. request'[r].prompt_length + request'[r].decoded_count > w.end
      BY <1>2, <1>3, <1>4, <2>1, <2>4, SMT DEF NeverBack
    <3> QED BY <1>5, <2>4, <3>1 DEF IsFolded
  <2> QED BY <1>5, <2>2, <2>3, <2>4 DEF IsFolded
<1> QED BY <1>1, <1>2, <1>5
(* The scheduler looks at the outcome of a plan only once it has taken the *)
(* fatals, and writes down what it published in few places.                *)
LEMMA OutcomeMoves ==
  ASSUME SchedulerNext
  PROVE  /\ PublishPlan \/ published_work' = published_work
         /\ PublishPlan \/ TakeFatal \/ published_success' = published_success
         /\ ObserveBatch \/ outcome' = outcome
         /\ TakeFatal \/ (GivenUp => GivenUp')
<1> USE DEF GivenUp
<1>1. ASSUME NEW r \in Requests, Submit(r)
      PROVE  UNCHANGED <<published_work, published_success, outcome, fatals>>
             /\ run_pc' = "outside"
  BY <1>1 DEF Submit, planVars, handoffVars
<1>2. CASE \/ RequestStop \/ StopEnvironment \/ BeginIteration \/ FlushAdmission \/ FlushDone
           \/ SnapshotEpoch
  BY <1>2 DEF RequestStop, StopEnvironment, BeginIteration, FlushAdmission, FlushDone,
              SnapshotEpoch, planVars, handoffVars
<1>3. CASE \/ TakeAdmissionResult \/ TakeOutput \/ TakeCompletion \/ TakeReleaseAck
           \/ TryRelease
  <2>1. UNCHANGED <<published_work, published_success, outcome, fatals, run_pc, plan_done>>
    BY <1>3 DEF TakeAdmissionResult, TakeOutput, TakeCompletion, TakeReleaseAck, TryRelease,
                planVars
  <2> QED BY <2>1
<1>4. CASE TakeFatal BY <1>4 DEF TakeFatal
<1>5. CASE DrainDone \/ ReleasesDone
  BY <1>5 DEF DrainDone, ReleasesDone, planVars, handoffVars
<1>6. CASE RetireTerminal \/ ObserverFails
  BY <1>6 DEF RetireTerminal, ObserverFails, planVars, handoffVars
<1>7. CASE ObserveBatch BY <1>7 DEF ObserveBatch, handoffVars
<1>8. CASE PublishPlan BY <1>8 DEF PublishPlan
<1>9. CASE \/ FinishRun \/ KeepRunning \/ RejectPlan \/ WaitForRelease \/ NoWork
           \/ BuildThrows
  BY <1>9 DEF FinishRun, KeepRunning, RejectPlan, WaitForRelease, NoWork, BuildThrows,
              planVars, handoffVars
<1> QED
  BY <1>1, <1>2, <1>3, <1>4, <1>5, <1>6, <1>7, <1>8, <1>9
  DEF SchedulerNext, SchedulerStep

(* What the scheduler expects it goes on expecting, until the completion   *)
(* is folded or it publishes the next plan.                                *)
LEMMA ExpectedStays ==
  ASSUME TypeInv, LifeInv, LateInv, ServedInv, SchedulerThread, ~PublishPlan,
         NEW w \in WorkItems, request[w.id].start_recorded, Expected(w)
  PROVE  Expected(w)' \/ IsFolded(w)'
<1>0. /\ SchedulerNext /\ UNCHANGED <<env_pc, plan, item, completion>>
      /\ w.id \in Requests /\ UNCHANGED published
  <2>1. SchedulerNext BY DEF SchedulerThread
  <2> QED BY <2>1, SchedulerLeavesRecords, SchedulerDrainsCompletions DEF WorkItems
<1>1. request'[w.id].prompt_length = request[w.id].prompt_length
  BY <1>0, FoldedStays
<1>2. CASE \E i \in DOMAIN published.work : published.work[i] = w
  BY <1>0, <1>2 DEF Expected
<1>3. CASE env_pc \in AtItems /\ \E i \in DOMAIN plan.work : ToDo(i) /\ plan.work[i] = w
  BY <1>0, <1>3 DEF Expected, ToDo
<1>4. ASSUME NEW c \in Late, Tells(c, w) PROVE Expected(w)' \/ IsFolded(w)'
  <2>1. Tells(c, w)' BY <1>1, <1>4 DEF Tells
  <2>2. CASE c \in Late' BY <2>1, <2>2 DEF Expected
  <2>3. CASE c \notin Late'
    <3>1. /\ TakeCompletion /\ c \in ToSet(completions) /\ c \notin ToSet(completions')
      BY <1>0, <1>4, <2>3, SchedulerDrainsCompletions DEF Late
    <3>2. completions # << >> /\ completions' = Tail(completions)
          /\ completions \in Seq(Completions)
      BY <3>1 DEF TakeCompletion, TypeInv, ChannelTypes
    <3>3. c = Head(completions) BY <3>1, <3>2, TailSubset
    <3> DEFINE q == request[c.id]
    <3>4. /\ c \in Completions /\ q \in RequestStates
          /\ request'[c.id] = IF q.admission = "EnvironmentOwned" THEN Folded(q, c) ELSE q
      BY <3>1, <3>3, CompletionMoves
    <3>5. c.id = w.id BY <1>4 DEF Tells
    <3>6. CASE q.admission = "EnvironmentOwned"
      <4>1. /\ request'[c.id].prefill_position >= c.prefill_position
            /\ request'[c.id].decoded_count >= c.decoded_tokens
            /\ request'[c.id].decoded_count \in Nat
        <5>1. /\ q.prefill_position \in Nat /\ q.decoded_count \in Nat
              /\ c.prefill_position \in Nat /\ c.decoded_tokens \in Nat
          BY <3>4 DEF RequestStates, Completions
        <5>2. /\ Folded(q, c).prefill_position = (IF q.prefill_position >= c.prefill_position
                                                  THEN q.prefill_position ELSE c.prefill_position)
              /\ Folded(q, c).decoded_count = (IF q.decoded_count >= c.decoded_tokens
                                               THEN q.decoded_count ELSE c.decoded_tokens)
          BY <3>4, FoldedFields
        <5> HIDE DEF q
        <5> QED BY <3>4, <3>6, <5>1, <5>2, SMT
      <4>2. /\ c.prefill_position \in Nat /\ c.decoded_tokens \in Nat /\ w.end \in Nat
            /\ request[w.id].prompt_length \in Nat /\ request'[c.id].prefill_position \in Int
        <5>1. SchedulerTypes' BY SchedulerStepTypes DEF TypeInv
        <5>2. request'[w.id] \in RequestStates BY <1>0, <5>1 DEF SchedulerTypes
        <5>3. c.prefill_position \in Nat /\ c.decoded_tokens \in Nat /\ w.end \in Nat
          BY <3>4 DEF Completions, WorkItems
        <5>4. request[w.id].prompt_length \in Nat /\ request'[c.id].prefill_position \in Nat
          BY <3>4, <3>5, <5>2 DEF RequestStates
        <5> QED BY <5>3, <5>4, SMT
      <4>3. w.kind = "Prefill" /\ c.prefill_position >= w.end => IsFolded(w)'
        <5>1. c.prefill_position >= w.end => request'[w.id].prefill_position >= w.end
          BY <3>5, <4>1, <4>2, SMT
        <5> QED BY <5>1 DEF IsFolded
      <4>4. w.kind = "Decode" /\ request[w.id].prompt_length + c.decoded_tokens > w.end
            => IsFolded(w)'
        <5>1. request[w.id].prompt_length + c.decoded_tokens > w.end =>
                request'[w.id].prompt_length + request'[w.id].decoded_count > w.end
          BY <1>1, <3>5, <4>1, <4>2, SMT
        <5> QED BY <5>1 DEF IsFolded
      <4> QED BY <1>4, <4>3, <4>4 DEF Tells
    <3>7. CASE q.admission # "EnvironmentOwned"
      <4>1. Coherent(q) BY <3>5, <1>0 DEF LifeInv, CoherentInv
      <4>2. Open(c.id) BY <1>4 DEF ServedInv
      <4>3. q.terminal_error # "None"
        BY <3>7, <4>1, <4>2 DEF Open, Coherent, Scheduled
      <4> QED BY <3>4, <3>5, <3>7, <4>3 DEF IsFolded
    <3> QED BY <3>6, <3>7
  <2> QED BY <2>2, <2>3
<1> QED BY <1>2, <1>3, <1>4 DEF Expected
(* When the scheduler looks at the outcome of a plan it expects nothing    *)
(* more of it.                                                             *)
LEMMA NothingExpected ==
  ASSUME TypeInv, EpochInv, LateInv, run_pc = "retire", plan_done
  PROVE  ~GivenUp /\ \A w : ~Expected(w)
<1>1. completions = << >> BY DEF LateInv, AfterCompletions
<1>2. completed_epoch >= published_epoch BY DEF EpochInv, AfterSnapshot
<1>3. env_pc \notin Executing /\ published = NoPlan BY <1>2, SMT DEF EpochInv
<1>4. completion = Nothing BY <1>3 DEF TypeInv, EnvironmentTypes, Executing
<1>5. Late = {} BY <1>1, <1>4, ToSetEmpty DEF Late
<1>6. DOMAIN published.work = {} BY <1>3, SMT DEF NoPlan
<1> QED BY <1>3, <1>5, <1>6 DEF Expected, GivenUp, Executing, AtItems

(* The work of a plan that was begun stays begun, and folded where it was. *)
LEMMA BegunStays ==
  ASSUME TypeInv, LifeInv, SchedulerThread, NEW work, Begun(work)
  PROVE  /\ Begun(work)'
         /\ \A i \in DOMAIN work : /\ work[i] \in WorkItems /\ work[i].id \in Requests
                                   /\ request[work[i].id].start_recorded
                                   /\ IsFolded(work[i]) => IsFolded(work[i])'
<1>1. work \in Seq(WorkItems) /\ \A i \in DOMAIN work : request[work[i].id].start_recorded
  BY DEF Begun
<1>2. \A i \in DOMAIN work : work[i] \in WorkItems BY <1>1, SeqElements
<1>3. \A i \in DOMAIN work : work[i].id \in Requests BY <1>2 DEF WorkItems
<1>4. \A i \in DOMAIN work : /\ request'[work[i].id].start_recorded
                             /\ IsFolded(work[i]) => IsFolded(work[i])'
  BY <1>1, <1>2, <1>3, FoldedStays
<1> QED BY <1>1, <1>2, <1>3, <1>4 DEF Begun

(* Every step of the scheduler keeps count of the work it published.       *)
LEMMA FoldSchedulerStep ==
  ASSUME TypeInv, LifeInv, EpochInv, LateInv, ServedInv, FoldInv, SchedulerThread
  PROVE  FoldInv'
<1>0. SchedulerNext /\ UNCHANGED <<env_pc, plan, item, completion>>
  <2>1. SchedulerNext BY DEF SchedulerThread
  <2> QED BY <2>1, SchedulerLeavesRecords
<1>1. CASE PublishPlan
  <2>1. PICK work \in Seq(WorkItems) :
          /\ published' = [epoch |-> published_epoch + 1, work |-> work]
          /\ published_work' = work
          /\ \A i \in DOMAIN work : request'[work[i].id].start_recorded
    <3>1. PICK work \in Seq(WorkItems) :
            /\ published' = [epoch |-> published_epoch + 1, work |-> work]
            /\ published_work' = work
            /\ \A r \in Requests :
                 request'[r].start_recorded <=>
                   \/ request[r].start_recorded
                   \/ r \in {work[i].id : i \in DOMAIN work} \cap
                            {q \in Requests : ~request[q].start_recorded}
      BY <1>1, PublishMoves, Zenon
    <3>2. \A i \in DOMAIN work : work[i].id \in Requests
      <4>1. \A i \in DOMAIN work : work[i] \in WorkItems BY SeqElements
      <4> QED BY <4>1 DEF WorkItems
    <3> QED BY <3>1, <3>2
  <2>2. Begun(published_work)' BY <2>1 DEF Begun
  <2>3. \A i \in DOMAIN published_work' : Expected(published_work[i])'
    <3>1. published'.work = published_work' BY <2>1
    <3> QED BY <3>1 DEF Expected
  <2>4. outcome' = outcome BY <1>1 DEF PublishPlan
  <2>5. /\ Begun(outcome.work)'
        /\ \A i \in DOMAIN outcome.work :
             IsFolded(outcome.work[i]) => IsFolded(outcome.work[i])'
    <3>1. PICK items : items = outcome.work OBVIOUS
    <3>2. Begun(items) BY <3>1 DEF FoldInv
    <3>3. Begun(items)' /\ \A i \in DOMAIN items : IsFolded(items[i]) => IsFolded(items[i])'
      BY <3>2, BegunStays
    <3>4. outcome'.work = items BY <2>4, <3>1
    <3> QED BY <3>1, <3>3, <3>4 DEF Begun, IsFolded
  <2>6. SuccessfulBatchesAreFolded'
    BY <2>4, <2>5 DEF FoldInv, SuccessfulBatchesAreFolded, IsFolded
  <2> QED BY <2>2, <2>3, <2>5, <2>6 DEF FoldInv
<1>2. CASE ~PublishPlan
  <2>1. PICK work, done : work = published_work /\ done = outcome
    OBVIOUS
  <2>2. /\ Begun(work)'
        /\ \A i \in DOMAIN work : /\ work[i] \in WorkItems /\ work[i].id \in Requests
                                  /\ request[work[i].id].start_recorded
                                  /\ IsFolded(work[i]) => IsFolded(work[i])'
    <3>1. Begun(work) BY <2>1 DEF FoldInv
    <3> QED BY <3>1, BegunStays
  <2>3. /\ Begun(done.work)'
        /\ \A i \in DOMAIN done.work : IsFolded(done.work[i]) => IsFolded(done.work[i])'
    <3>1. Begun(done.work) BY <2>1 DEF FoldInv
    <3>2. PICK items : items = done.work OBVIOUS
    <3>3. Begun(items)' /\ \A i \in DOMAIN items : IsFolded(items[i]) => IsFolded(items[i])'
      BY <3>1, <3>2, BegunStays
    <3> QED BY <3>2, <3>3 DEF Begun, IsFolded
  <2>4. published_work' = work BY <1>0, <1>2, <2>1, OutcomeMoves
  <2>5. Begun(published_work)' BY <2>2, <2>4 DEF Begun
  <2>6. published_success' =>
          \A i \in DOMAIN work : IsFolded(work[i])' \/ Expected(work[i])' \/ GivenUp'
    <3> SUFFICES ASSUME published_success', NEW i \in DOMAIN work
                 PROVE  IsFolded(work[i])' \/ Expected(work[i])' \/ GivenUp'
      OBVIOUS
    <3>1. ~TakeFatal BY Zenon DEF TakeFatal
    <3>2. published_success BY <1>0, <1>2, <3>1, OutcomeMoves
    <3>3. IsFolded(work[i]) \/ Expected(work[i]) \/ GivenUp BY <2>1, <3>2 DEF FoldInv
    <3>4. PICK w : w = work[i] OBVIOUS
    <3>5. Expected(w) => Expected(w)' \/ IsFolded(w)'
      BY <1>2, <2>2, <3>4, ExpectedStays
    <3>6. IsFolded(w) => IsFolded(w)' BY <2>2, <3>4
    <3>7. GivenUp => GivenUp' BY <1>0, <3>1, OutcomeMoves
    <3>8. IsFolded(w)' \/ Expected(w)' \/ GivenUp' BY <3>3, <3>4, <3>5, <3>6, <3>7
    <3> QED BY <3>4, <3>8
  <2>7. CASE outcome' = outcome
    <3>1. outcome' = done BY <2>1, <2>7
    <3>2. Begun(outcome.work)' BY <2>3, <3>1 DEF Begun
    <3>3. SuccessfulBatchesAreFolded'
      BY <2>1, <2>3, <3>1 DEF FoldInv, SuccessfulBatchesAreFolded, IsFolded
    <3> QED BY <2>4, <2>5, <2>6, <3>2, <3>3 DEF FoldInv
  <2>8. CASE outcome' # outcome
    <3>1. ObserveBatch BY <1>0, <2>8, OutcomeMoves
    <3>2. /\ run_pc = "retire" /\ plan_done /\ request' = request
          /\ outcome' = [epoch |-> published_epoch, work |-> published_work,
                         success |-> published_success]
      BY <2>8, <3>1 DEF ObserveBatch, Unobserved, lifecycleVars
    <3>3. outcome'.work = work /\ (outcome'.success => published_success)
      BY <2>1, <3>2, Zenon
    <3>4. Begun(outcome.work)' BY <2>2, <3>3 DEF Begun
    <3>5. published_success => \A i \in DOMAIN work : IsFolded(work[i])
      BY <2>1, <3>2, NothingExpected DEF FoldInv
    <3>6. SuccessfulBatchesAreFolded'
      BY <2>2, <3>3, <3>5 DEF SuccessfulBatchesAreFolded, IsFolded
    <3> QED BY <2>4, <2>5, <2>6, <3>4, <3>6 DEF FoldInv
  <2> QED BY <2>7, <2>8
<1> QED BY <1>1, <1>2
(* The completion of an item tells all of its work.                        *)
LEMMA NewCompletionTells ==
  ASSUME TypeInv, LifeInv, PathInv, LateInv, ProgressInv, ServedInv,
         AdvancePrefill \/ SampleToken, UNCHANGED request
  PROVE  Tells(completion, Work)'
<1>1. /\ Work \in WorkItems /\ item \in DOMAIN plan.work /\ Executable(Work)
      /\ env_pc = "items" /\ item <= Len(plan.work) /\ Work.id \in Requests
      /\ completion' \in Completions /\ completion'.id = Work.id
      /\ completion'.prefill_position =
           (IF Work.kind = "Prefill" THEN Work.end ELSE Len(Prompt[Work.id]))
      /\ records'[Work.id].decoded_tokens = completion'.decoded_tokens
      /\ records[Work.id] \in Records /\ Len(Prompt[Work.id]) \in Nat
      /\ UNCHANGED <<plan, item>>
      /\ \/ AdvancePrefill /\ Work.kind = "Prefill" /\ Work.end # Len(Prompt[Work.id])
            /\ records'[Work.id].decoded_tokens = records[Work.id].decoded_tokens
         \/ SampleToken /\ Samples
            /\ records'[Work.id].decoded_tokens = records[Work.id].decoded_tokens + 1
  BY ItemMoves
<1>2. PICK w, r, c : w = Work /\ r = w.id /\ c = completion'
  OBVIOUS
<1>3. Work' = w BY <1>1, <1>2 DEF Work
<1>4. InStep(r)
  <2>1. Held(r) BY <1>1, <1>2 DEF Executable
  <2>2. r \in Planned BY <1>1, <1>2 DEF Planned, Work
  <2>3. r \notin InFlight(request) BY <1>1, <1>2, <2>2, InFlightUnstarted
  <2>4. request[r].admission = "EnvironmentOwned"
    BY <1>1, <1>2, <2>1, <2>3 DEF PathInv, HeldInv, InFlight
  <2>5. Sound BY <1>1 DEF Sound, ServedInv, AtItems
  <2> QED BY <1>1, <1>2, <2>1, <2>4, <2>5 DEF ProgressInv
<1>5. request'[r].prompt_length = Len(Prompt[r]) BY <1>4 DEF InStep
<1>6. w.kind = "Prefill" => c.prefill_position >= w.end
  <2>1. w.end \in Nat BY <1>1, <1>2 DEF WorkItems
  <2>2. w.kind = "Prefill" => c.prefill_position = w.end BY <1>1, <1>2
  <2> QED BY <2>1, <2>2, SMT
<1>7. w.kind = "Decode" => request'[r].prompt_length + c.decoded_tokens > w.end
  <2> SUFFICES ASSUME w.kind = "Decode"
               PROVE  request'[r].prompt_length + c.decoded_tokens > w.end
    OBVIOUS
  <2>1. c.decoded_tokens = records[r].decoded_tokens + 1 BY <1>1, <1>2
  <2>2. /\ w.begin = Len(Prompt[r]) + records[r].decoded_tokens - 1
        /\ w.end = w.begin + 1
    BY <1>1, <1>2 DEF Executable
  <2>3. records[r].decoded_tokens \in Nat /\ Len(Prompt[r]) \in Nat
    BY <1>1, <1>2 DEF Records
  <2> QED BY <1>5, <2>1, <2>2, <2>3, SMT
<1>8. w.kind \in {"Prefill", "Decode"} BY <1>1, <1>2 DEF WorkItems
<1> QED BY <1>1, <1>2, <1>3, <1>6, <1>7, <1>8 DEF Tells

(* A failure in the middle of a plan is known before the plan's outcome.   *)
LEMMA FailureGivesUp ==
  ASSUME TypeInv, EpochInv, ~env_fatal, NEW error, FailRun(error),
         published # NoPlan \/ env_pc \in Executing, UNCHANGED <<run_pc, plan_done>>
  PROVE  GivenUp'
<1>1. ~(run_pc \in AfterSnapshot /\ plan_done)
  <2>1. published_epoch = completed_epoch + 1 /\ completed_epoch \in Nat
    BY DEF EpochInv
  <2>2. ~(completed_epoch >= published_epoch) BY <2>1, SMT
  <2> QED BY <2>2 DEF EpochInv
<1>2. fatals' # << >>
  <2>1. fatals' = Append(fatals, error) /\ fatals \in Seq(Errors \ {"None"})
    BY DEF FailRun, TypeInv, ChannelTypes
  <2> QED BY <2>1, EmptySeq, SMT
<1> QED BY <1>1, <1>2 DEF GivenUp, AfterSnapshot
(* The environment does what it has to do, or fails.                       *)
LEMMA ExpectedDone ==
  ASSUME TypeInv, LifeInv, PathInv, EpochInv, LateInv, ProgressInv, ServedInv,
         EnvironmentThread, "remember" \notin Faults, NEW w \in WorkItems, Expected(w)
  PROVE  Expected(w)' \/ GivenUp'
<1>0. /\ EnvironmentNext /\ UNCHANGED <<request, run_pc, plan_done>>
      /\ item \in Nat /\ published \in Plans /\ plan \in Plans
      /\ plan.work \in Seq(WorkItems)
      /\ \A i \in DOMAIN plan.work : i \in Int /\ i <= Len(plan.work)
  <2>1. /\ EnvironmentNext /\ UNCHANGED <<request, run_pc, plan_done>>
        /\ item \in Nat /\ published \in Plans /\ plan \in Plans
    BY DEF EnvironmentThread, schedulerVars, lifecycleVars, TypeInv, EnvironmentTypes,
           ChannelTypes
  <2>2. plan.work \in Seq(WorkItems) BY <2>1 DEF Plans
  <2>3. Len(plan.work) \in Nat /\ DOMAIN plan.work = 1 .. Len(plan.work)
    BY <2>2, LenProperties
  <2> QED BY <2>1, <2>2, <2>3, SMT
<1>1. \A c : Tells(c, w)' <=> Tells(c, w) BY <1>0 DEF Tells
<1>2. Late \subseteq Late'
  <2>1. CASE AdvancePrefill \/ SampleToken
    <3>1. completion = Nothing /\ UNCHANGED completions BY <2>1, ItemMoves
    <3> QED BY <3>1 DEF Late
  <2> QED BY <1>0, <2>1, LateMoves
<1>3. CASE \E c \in Late : Tells(c, w) BY <1>1, <1>2, <1>3 DEF Expected
<1>4. ASSUME NEW i \in DOMAIN published.work, published.work[i] = w
      PROVE  Expected(w)' \/ GivenUp'
  <2>1. CASE UNCHANGED published BY <1>4, <2>1 DEF Expected
  <2>2. CASE ConsumePlan
    <3>1. /\ published # NoPlan /\ ~env_fatal /\ plan' = published /\ item' = 1
          /\ env_pc' = "items" \/ \E error : FailRun(error)
      BY <2>2 DEF ConsumePlan
    <3>2. CASE env_pc' = "items"
      <4>1. i \in Nat /\ i >= 1
        <5>1. published.work \in Seq(WorkItems) BY <1>0 DEF Plans
        <5> QED BY <1>4, <5>1, LenProperties, SMT
      <4>2. i > 1 \/ i = 1 BY <4>1, SMT
      <4> QED BY <1>4, <3>1, <3>2, <4>2 DEF Expected, ToDo, AtItems
    <3> QED BY <1>0, <3>1, <3>2, FailureGivesUp
  <2> QED BY <1>0, <2>1, <2>2, PlanMoves DEF PlanIdles, AdvancePrefill, SampleToken,
          executionUnchanged, ReportCompletion, RetirePlan
<1>5. ASSUME env_pc \in AtItems, NEW i \in DOMAIN plan.work, ToDo(i), plan.work[i] = w
      PROVE  Expected(w)' \/ GivenUp'
  <2>1. ~env_fatal /\ env_pc \in Executing BY <1>5 DEF ServedInv, AtItems, Executing
  <2>2. CASE AdvancePrefill \/ SampleToken
    <3>1. /\ UNCHANGED <<plan, item>> /\ env_pc' \in {"completion", "output"}
          /\ completion' # Nothing
      BY <2>2, ItemMoves
    <3>2. CASE i > item BY <1>5, <3>1, <3>2 DEF Expected, ToDo, AtItems
    <3>3. CASE i = item
      <4>1. Work' = w BY <1>5, <3>1, <3>3 DEF Work
      <4>2. Tells(completion, Work)' BY <1>0, <2>2, NewCompletionTells
      <4>3. PICK c : c = completion' OBVIOUS
      <4>4. c \in Late' BY <3>1, <4>3 DEF Late
      <4>5. Tells(c, w)' BY <4>1, <4>2, <4>3 DEF Tells
      <4> QED BY <4>4, <4>5 DEF Expected
    <3> QED BY <1>5, <3>2, <3>3 DEF ToDo
  <2>3. CASE ReportOutput
    <3>1. UNCHANGED <<plan, item>> /\ env_pc = "output" /\ env_pc' = "completion"
      BY <2>3 DEF ReportOutput
    <3> QED BY <1>5, <3>1 DEF Expected, ToDo, AtItems
  <2>4. CASE ReportCompletion
    <3>1. /\ plan' = plan /\ item' = item + 1
          /\ env_pc = "completion" /\ env_pc' = "items"
      BY <2>4 DEF ReportCompletion
    <3>2. i > item BY <1>5, <3>1 DEF ToDo
    <3>3. i > item + 1 \/ i = item + 1 BY <1>0, <3>2, SMT
    <3> QED BY <1>5, <3>1, <3>3 DEF Expected, ToDo, AtItems
  <2>5. CASE PlanExecuted
    <3>1. item > Len(plan.work) BY <2>5 DEF PlanExecuted
    <3>2. i >= item BY <1>0, <1>5, SMT DEF ToDo
    <3>3. Len(plan.work) \in Nat BY <1>0, LenProperties
    <3> QED BY <1>0, <3>1, <3>2, <3>3, SMT
  <2>6. CASE SamplingFails
    <3>1. FailRun("SamplingFailed") BY <2>6 DEF SamplingFails
    <3> QED BY <1>0, <2>1, <3>1, FailureGivesUp
  <2>7. ~RememberThrows BY DEF RememberThrows
  <2>8. ASSUME BeginTurn \/ TakeRelease \/ AcknowledgeRelease \/ ReleasesTaken
               \/ TakeAdmission \/ ResumeAdmission \/ ReportAdmission \/ AdmissionsTaken
               \/ SkipPlan \/ ConsumePlan \/ RetirePlan \/ Catch
        PROVE FALSE
    BY <1>5, <2>8 DEF AtItems, BeginTurn, TakeRelease, AcknowledgeRelease, ReleasesTaken,
       TakeAdmission, ResumeAdmission, ReportAdmission, AdmissionsTaken, SkipPlan,
       ConsumePlan, RetirePlan, Catch
  <2> QED BY <1>0, <2>2, <2>3, <2>4, <2>5, <2>6, <2>7, <2>8 DEF EnvironmentNext
<1> QED BY <1>3, <1>4, <1>5 DEF Expected

(* Every step of the environment keeps count of the work in hand.          *)
LEMMA FoldEnvironmentStep ==
  ASSUME TypeInv, LifeInv, PathInv, EpochInv, LateInv, ProgressInv, ServedInv, FoldInv,
         EnvironmentThread, "remember" \notin Faults
  PROVE  FoldInv'
<1>0. /\ UNCHANGED <<request, run_pc, plan_done, published_work, published_success, outcome>>
      /\ EnvironmentNext
  BY DEF EnvironmentThread, schedulerVars, lifecycleVars, planVars
<1>1. GivenUp => GivenUp'
  <2>1. CASE UNCHANGED fatals BY <1>0, <2>1 DEF GivenUp
  <2>2. ASSUME NEW error, FailRun(error), fatals # << >> PROVE fatals' # << >>
    <3>1. fatals \in Seq(Errors \ {"None"}) BY DEF TypeInv, ChannelTypes
    <3> QED BY <2>2, <3>1, EmptySeq, SMT DEF FailRun
  <2> QED BY <1>0, <2>1, <2>2, FailureMoves DEF GivenUp
<1>2. Begun(published_work)' /\ Begun(outcome.work)' /\ SuccessfulBatchesAreFolded'
  BY <1>0 DEF FoldInv, Begun, SuccessfulBatchesAreFolded, IsFolded
<1>3. PICK work : work = published_work OBVIOUS
<1>4. \A i \in DOMAIN work : work[i] \in WorkItems
  <2>1. work \in Seq(WorkItems) BY <1>3 DEF FoldInv, Begun
  <2> QED BY <2>1, SeqElements
<1>5. published_success =>
        \A i \in DOMAIN work : IsFolded(work[i])' \/ Expected(work[i])' \/ GivenUp'
  <2> SUFFICES ASSUME published_success, NEW i \in DOMAIN work
               PROVE  IsFolded(work[i])' \/ Expected(work[i])' \/ GivenUp'
    OBVIOUS
  <2>1. PICK w \in WorkItems : w = work[i] BY <1>4
  <2>2. IsFolded(w) \/ Expected(w) \/ GivenUp BY <1>3, <2>1 DEF FoldInv
  <2>3. IsFolded(w) => IsFolded(w)' BY <1>0 DEF IsFolded
  <2>4. Expected(w) => Expected(w)' \/ GivenUp' BY ExpectedDone
  <2>5. IsFolded(w)' \/ Expected(w)' \/ GivenUp' BY <1>1, <2>2, <2>3, <2>4
  <2> QED BY <2>1, <2>5
<1>6. published_work' = work /\ published_success' = published_success
  BY <1>0, <1>3
<1> QED BY <1>2, <1>5, <1>6 DEF FoldInv

(* A batch that is reported as successful has been seen in full: the       *)
(* scheduler takes every completion of a plan, and every fatal, before it  *)
(* calls the plan's observer (scheduler.cpp:133-158, handoff.hpp:33-34),   *)
(* as long as no exception makes the environment retire a plan before it   *)
(* reports that it failed (environment.cpp:418, 522).                      *)
THEOREM SuccessfulBatchesAreAlwaysFolded ==
  ASSUME "remember" \notin Faults
  PROVE  Spec => []SuccessfulBatchesAreFolded
<1>1. Init => FoldInv
  <2> SUFFICES ASSUME Init PROVE FoldInv
    OBVIOUS
  <2>1. published_work = << >> /\ outcome.work = << >>
    BY DEF Init, SchedulerInit, NoOutcome
  <2>2. DOMAIN << >> = {} /\ << >> \in Seq(WorkItems) BY EmptySeq, SMT
  <2> QED BY <2>1, <2>2 DEF FoldInv, Begun, SuccessfulBatchesAreFolded
<1>2. /\ TypeInv /\ LifeInv /\ PathInv /\ EpochInv /\ LateInv /\ ProgressInv /\ ServedInv
      /\ FoldInv /\ [Next]_vars
      => FoldInv'
  <2> SUFFICES ASSUME TypeInv, LifeInv, PathInv, EpochInv, LateInv, ProgressInv, ServedInv,
                      FoldInv, [Next]_vars
               PROVE  FoldInv'
    OBVIOUS
  <2>1. CASE SchedulerThread BY <2>1, FoldSchedulerStep
  <2>2. CASE EnvironmentThread BY <2>2, FoldEnvironmentStep
  <2>3. CASE UNCHANGED vars
    BY <2>3 DEF vars, handoffVars, schedulerVars, lifecycleVars, planVars, environmentVars,
       workVars, FoldInv, Begun, Expected, ToDo, Late, Tells, GivenUp, IsFolded,
       SuccessfulBatchesAreFolded
  <2> QED BY <2>1, <2>2, <2>3 DEF Next, Terminated
<1>3. FoldInv => SuccessfulBatchesAreFolded BY DEF FoldInv
<1> QED
  BY <1>1, <1>2, <1>3, TypesInvariance, LifeInvariance, PathInvariance, EpochInvariance,
     LateInvariance, ProgressInvariance, ServedInvariance, PTL DEF Spec
-----------------------------------------------------------------------------
(* The shipped policies.  The scheduler is modelled for any policy whose   *)
(* plans are sound; these are.                                             *)
CountableInv == \A r \in Requests : Countable(request[r])

LEMMA RequestsCountable == ASSUME SchedulerTypes PROVE CountableInv
BY Zenon DEF SchedulerTypes, RequestStates, CountableInv, Countable

LEMMA SoundForm ==
  ASSUME NEW s \in SetToAllKPermutations(Workable), NEW c \in [Workable -> 1 .. TokenBudget],
         NEW p, p = [i \in 1 .. Len(s) |-> WorkFor(s[i], request[s[i]], c[s[i]])],
         Cost(p) <= TokenBudget, p = << >> => ReleasePending \/ Workable = {}
  PROVE  p \in SoundPlans
BY DEF SoundPlans, Batch

(* The beginning of a list of requests with work, a chunk for each.        *)
LEMMA BeginningIsSound ==
  ASSUME NEW order \in Seq(Requests), IsInjective(order), ToSet(order) \subseteq Workable,
         NEW m \in 0 .. Len(order), NEW left \in [1 .. m -> 1 .. TokenBudget],
         NEW p, p = [i \in 1 .. m |-> WorkFor(order[i], request[order[i]], left[i])],
         Cost(p) <= TokenBudget,
         m = 0 => ReleasePending \/ Workable = {}
  PROVE  p \in SoundPlans
<1> DEFINE s == SubSeq(order, 1, m)
           place(r) == CHOOSE i \in 1 .. m : order[i] = r
           chunk == [r \in Workable |-> IF r \in ToSet(s) THEN left[place(r)] ELSE 1]
<1>1. /\ s \in Seq(Requests) /\ Len(s) = m /\ DOMAIN s = 1 .. m
      /\ \A i \in 1 .. m : i \in DOMAIN order /\ s[i] = order[i]
      /\ ToSet(s) = {order[i] : i \in 1 .. m}
      /\ ToSet(s) \subseteq ToSet(order) /\ IsInjective(s)
  BY FirstOnes
<1> HIDE DEF s
<1>2. s \in SetToAllKPermutations(Workable) BY <1>1, ChosenInOrder
<1>3. \A i \in 1 .. m : /\ order[i] \in ToSet(s) /\ order[i] \in Workable
                        /\ place(order[i]) = i
  <2>1. \A i \in 1 .. m : order[i] \in ToSet(s) /\ order[i] \in Workable BY <1>1
  <2>2. \A i, j \in 1 .. m : order[i] = order[j] => i = j BY <1>1 DEF IsInjective
  <2> QED BY <2>1, <2>2
<1>4. chunk \in [Workable -> 1 .. TokenBudget]
  <2>1. 1 \in 1 .. TokenBudget BY SchedulerAssumption, SMT
  <2>2. \A r \in ToSet(s) : place(r) \in 1 .. m BY <1>1, <1>3
  <2>3. \A r \in ToSet(s) : left[place(r)] \in 1 .. TokenBudget BY <2>2
  <2> HIDE DEF place
  <2> QED BY <2>1, <2>3
<1>5. \A i \in 1 .. m : chunk[order[i]] = left[i]
  <2> HIDE DEF place
  <2> QED BY <1>3
<1> HIDE DEF chunk, place
<1>6. p = [i \in 1 .. Len(s) |-> WorkFor(s[i], request[s[i]], chunk[s[i]])]
  <2>1. \A i \in 1 .. m : WorkFor(order[i], request[order[i]], left[i])
                            = WorkFor(s[i], request[s[i]], chunk[s[i]])
    BY <1>1, <1>5
  <2>2. [i \in 1 .. m |-> WorkFor(order[i], request[order[i]], left[i])]
          = [i \in 1 .. m |-> WorkFor(s[i], request[s[i]], chunk[s[i]])]
    BY <2>1, Zenon
  <2> QED BY <1>1, <2>2
<1>7. p = << >> => ReleasePending \/ Workable = {}
  <2> SUFFICES ASSUME p = << >> PROVE m = 0
    OBVIOUS
  <2>1. DOMAIN p = 1 .. m /\ DOMAIN << >> = {} BY SMT
  <2> QED BY <2>1, SMT
<1> QED BY <1>2, <1>4, <1>6, <1>7, SoundForm

(* What Filled makes of an order of live requests.                         *)
LEMMA FilledIsSound ==
  ASSUME SchedulerTypes,
         NEW order \in Seq(Requests), IsInjective(order), ToSet(order) \subseteq ToSet(live),
         ReleasePending \/ Workable \subseteq ToSet(order)
  PROVE  Filled(order, request, TokenBudget) \in SoundPlans
<1>1. PICK w : w = Working(order, request) OBVIOUS
<1>2. PICK p : p = Filled(order, request, TokenBudget) OBVIOUS
<1>3. TokenBudget \in Nat /\ TokenBudget > 0 BY SchedulerAssumption, SMT
<1>4. \A r \in ToSet(order) : HasWork(request[r]) => Countable(request[r])
  BY RequestsCountable, SeqElements DEF CountableInv
<1>5. PICK m \in 0 .. Len(w) :
        /\ w # << >> => m > 0
        /\ Cost(p) <= TokenBudget
        /\ \E left \in [1 .. m -> 1 .. TokenBudget] :
             p = [i \in 1 .. m |-> WorkFor(w[i], request[w[i]], left[i])]
  BY <1>1, <1>2, <1>3, <1>4, FilledPrefix, SMTT(60)
<1>6. /\ w \in Seq(Requests) /\ IsInjective(w)
      /\ ToSet(w) = {r \in ToSet(order) : HasWork(request[r])}
  <2>1. PICK S : S = {r \in ToSet(order) : HasWork(request[r])} OBVIOUS
  <2>2. /\ Filter(order, S) \in Seq(Requests) /\ IsInjective(Filter(order, S))
        /\ ToSet(Filter(order, S)) = ToSet(order) \cap S
    BY FilterProperties
  <2>3. w = Filter(order, S) BY <1>1, <2>1 DEF Working
  <2> QED BY <2>1, <2>2, <2>3
<1>7. ToSet(w) \subseteq Workable BY <1>6 DEF Workable
<1>8. m = 0 => ReleasePending \/ Workable = {}
  <2> SUFFICES ASSUME m = 0, ~ReleasePending PROVE Workable = {}
    OBVIOUS
  <2>1. w = << >> BY <1>5, SMT
  <2>2. ToSet(w) = {} BY <2>1, ToSetEmpty
  <2> QED BY <1>6, <2>2 DEF Workable
<1> QED BY <1>2, <1>5, <1>6, <1>7, <1>8, BeginningIsSound

(* Requests behind one that waits for its release are left out.            *)
LEMMA BeforeReleaseHolds ==
  ASSUME SchedulerTypes, LiveInv, NEW before, before = BeforeRelease(live, request)
  PROVE  /\ before \in Seq(Requests) /\ IsInjective(before)
         /\ ToSet(before) \subseteq ToSet(live)
         /\ ReleasePending \/ before = live
<1>1. live \in Seq(Requests) /\ IsInjective(live) BY DEF SchedulerTypes, LiveInv
<1>2. PICK k \in 0 .. Len(live) :
        /\ before = SubSeq(live, 1, k)
        /\ k < Len(live) => request[live[k + 1]].stage = "PendingRelease"
        /\ k = Len(live) => before = live
  BY <1>1, BeforeReleaseIsFirst
<1>3. /\ before \in Seq(Requests) /\ IsInjective(before)
      /\ ToSet(before) \subseteq ToSet(live)
  BY <1>1, <1>2, FirstOnes
<1>4. PICK n \in Nat : n = Len(live) BY <1>1, LenProperties
<1>5. CASE k < n
  <2>1. k + 1 \in 1 .. n BY <1>4, <1>5, SMT
  <2>2. k + 1 \in DOMAIN live BY <1>1, <1>4, <2>1, LenProperties
  <2>3. live[k + 1] \in ToSet(live) BY <2>2 DEF ToSet
  <2>4. ReleasePending BY <1>2, <1>4, <1>5, <2>3 DEF ReleasePending
  <2> QED BY <1>3, <2>4
<1>6. CASE ~(k < n)
  <2>1. k \in 0 .. n BY <1>2, <1>4
  <2>2. k = n BY <1>4, <1>6, <2>1, SMT
  <2> QED BY <1>2, <1>3, <1>4, <2>2
<1> QED BY <1>5, <1>6
(* continuous_batched_fifo.cpp serves the requests in their order;         *)
LEMMA ContinuousFifoIsSound ==
  ASSUME SchedulerTypes, LiveInv
  PROVE  ContinuousFifoPlan(live, request, TokenBudget) \in SoundPlans
<1>1. PICK before : before = BeforeRelease(live, request) OBVIOUS
<1>2. /\ before \in Seq(Requests) /\ IsInjective(before)
      /\ ToSet(before) \subseteq ToSet(live)
      /\ ReleasePending \/ before = live
  BY <1>1, BeforeReleaseHolds
<1>3. ReleasePending \/ Workable \subseteq ToSet(before) BY <1>2 DEF Workable
<1> QED BY <1>1, <1>2, <1>3, FilledIsSound DEF ContinuousFifoPlan

(* cache_aware_continuous_fifo.cpp lets some exchange their places.        *)
LEMMA LocalityKeeps ==
  ASSUME SchedulerTypes, NEW order \in Seq(Requests), IsInjective(order), NEW window \in Nat,
         NEW new, new = LocalityOrder(order, request, window)
  PROVE  new \in Seq(Requests) /\ IsInjective(new) /\ ToSet(new) = ToSet(order)
<1>1. \A r \in ToSet(order) : request[r].cached_prefix_tokens \in Nat
  BY SeqElements DEF SchedulerTypes, RequestStates
<1> QED BY <1>1, LocalityPlaces

LEMMA CacheAwareIsSound ==
  ASSUME SchedulerTypes, LiveInv, NEW windows \in SUBSET Nat
  PROVE  CacheAwarePlans(live, request, TokenBudget, windows) \subseteq SoundPlans
<1>1. PICK before : before = BeforeRelease(live, request) OBVIOUS
<1>2. /\ before \in Seq(Requests) /\ IsInjective(before)
      /\ ToSet(before) \subseteq ToSet(live)
      /\ ReleasePending \/ before = live
  BY <1>1, BeforeReleaseHolds
<1>3. PICK S : S = {r \in ToSet(before) : Runnable(request[r])} OBVIOUS
<1>4. PICK runnable : runnable = Filter(before, S) OBVIOUS
<1>5. /\ runnable \in Seq(Requests) /\ IsInjective(runnable)
      /\ ToSet(runnable) = ToSet(before) \cap S
  BY <1>2, <1>4, FilterProperties
<1>6. ReleasePending \/ Workable \subseteq ToSet(runnable)
  <2>1. \A r \in Workable : Runnable(request[r]) BY DEF Workable, HasWork, Runnable
  <2>2. Workable \subseteq ToSet(live) BY DEF Workable
  <2> QED BY <1>2, <1>3, <1>5, <2>1, <2>2
<1>7. ASSUME NEW window \in windows
      PROVE  Filled(LocalityOrder(runnable, request, window), request, TokenBudget)
               \in SoundPlans
  <2>1. PICK order : order = LocalityOrder(runnable, request, window) OBVIOUS
  <2>2. window \in Nat OBVIOUS
  <2>3. order \in Seq(Requests) /\ IsInjective(order) /\ ToSet(order) = ToSet(runnable)
    BY <1>5, <2>1, <2>2, LocalityKeeps
  <2>4. /\ ToSet(order) \subseteq ToSet(live)
        /\ ReleasePending \/ Workable \subseteq ToSet(order)
    BY <1>2, <1>5, <1>6, <2>3
  <2> QED BY <2>1, <2>3, <2>4, FilledIsSound
<1> QED BY <1>1, <1>3, <1>4, <1>7 DEF CacheAwarePlans
(* A batch of nothing, and of one request.                                 *)
LEMMA EmptyIsSound ==
  ASSUME ReleasePending \/ Workable = {} PROVE << >> \in SoundPlans
<1>1. PICK order \in Seq(Requests) : order = << >> BY EmptySeq
<1>2. PICK left : left = [i \in 1 .. 0 |-> TokenBudget] OBVIOUS
<1>3. PICK p : p = [i \in 1 .. 0 |-> WorkFor(order[i], request[order[i]], left[i])]
  OBVIOUS
<1>4. 0 \in 0 .. Len(order) /\ 1 .. 0 = {} BY <1>1, SMT
<1>5. p = << >>
  <2>1. p \in [1 .. 0 -> {}] BY <1>3, <1>4
  <2> QED BY <2>1, SMT
<1>6. left \in [1 .. 0 -> 1 .. TokenBudget] BY <1>2, <1>4
<1>7. Cost(p) <= TokenBudget
  <2> DEFINE t == CHOOSE g : IsTally(g, p, 0)
  <2>1. 0 \in Nat /\ 0 \in 0 .. 0 /\ Len(p) = 0 BY <1>5, SMT
  <2>2. IsTally(t, p, 0) BY <2>1, TallyExists
  <2>3. Cost(p) = t[0] BY <2>1 DEF Cost, Tally, IsTally
  <2> HIDE DEF t
  <2>4. t[0] = 0 BY <2>1, <2>2, Zenon DEF IsTally
  <2> QED BY <2>3, <2>4, SchedulerAssumption, SMT
<1>8. IsInjective(order) /\ ToSet(order) \subseteq Workable BY <1>1, ToSetEmpty
<1>9. p \in SoundPlans BY <1>3, <1>4, <1>6, <1>7, <1>8, BeginningIsSound
<1> QED BY <1>5, <1>9

LEMMA SingleIsSound ==
  ASSUME SchedulerTypes, NEW r \in Requests, r \in Workable
  PROVE  <<WorkFor(r, request[r], TokenBudget)>> \in SoundPlans
<1> DEFINE w == WorkFor(r, request[r], TokenBudget)
           order == <<r>>
           left == [i \in 1 .. 1 |-> TokenBudget]
<1>1. TokenBudget \in Nat /\ TokenBudget > 0 BY SchedulerAssumption, SMT
<1>2. HasWork(request[r]) /\ Countable(request[r])
  BY RequestsCountable DEF CountableInv, Workable
<1>3. /\ w.begin \in Nat /\ w.end \in Nat
      /\ w.end - w.begin = Least(Demand(request[r]), TokenBudget)
      /\ Demand(request[r]) \in Nat
  BY <1>1, <1>2, WorkCost
<1> HIDE DEF w
<1>4. Cost(<<w>>) <= TokenBudget
  <2>1. Cost(<<w>>) = Least(Demand(request[r]), TokenBudget) BY <1>3, SingleCost
  <2> QED BY <1>1, <1>3, <2>1, SMT DEF Least
<1>5. /\ order \in Seq(Requests) /\ Len(order) = 1 /\ IsInjective(order)
      /\ ToSet(order) = {r} /\ order[1] = r
  <2>1. order \in Seq(Requests) /\ Len(order) = 1 /\ order[1] = r /\ DOMAIN order = 1 .. 1
    BY SMT
  <2>2. 1 .. 1 = {1} BY SMT
  <2> QED BY <2>1, <2>2 DEF IsInjective, ToSet
<1>6. left \in [1 .. 1 -> 1 .. TokenBudget] /\ 1 .. 1 = {1} /\ 1 \in 0 .. 1 /\ 1 # 0
  <2>1. TokenBudget \in 1 .. TokenBudget BY <1>1, SMT
  <2>2. 1 .. 1 = {1} /\ 1 \in 0 .. 1 /\ 1 # 0 BY SMT
  <2> QED BY <2>1, <2>2
<1>7. <<w>> = [i \in 1 .. 1 |-> WorkFor(order[i], request[order[i]], left[i])]
  <2> DEFINE f == [i \in 1 .. 1 |-> WorkFor(order[i], request[order[i]], left[i])]
  <2>1. f[1] = w BY <1>5, <1>6 DEF w
  <2>2. DOMAIN f = 1 .. 1 /\ f = [i \in 1 .. 1 |-> f[i]] OBVIOUS
  <2> HIDE DEF f
  <2>3. <<w>> = f BY <2>1, <2>2, SMT
  <2> QED BY <2>3 DEF f
<1> HIDE DEF order, left
<1>8. ToSet(order) \subseteq Workable BY <1>5
<1> QED BY <1>4, <1>5, <1>6, <1>7, <1>8, BeginningIsSound DEF w

(* fifo.cpp serves one request, and nothing if that one has no work: which *)
(* is what the policy may do only if every request to schedule has some.   *)
LEMMA FifoIsSound ==
  ASSUME SchedulerTypes, LiveInv,
         \A r \in ToSet(live) : Runnable(request[r]) => r \in Workable
  PROVE  FifoPlan(live, request, TokenBudget) \in SoundPlans
<1> DEFINE Underway == {r \in ToSet(live) : Runnable(request[r]) /\ HasProgress(request[r])}
           Accepted == {r \in ToSet(live) :
                          request[r].stage \notin {"PendingAdmission", "Terminal"}}
           list == Filter(live, Underway) \o Filter(live, Accepted)
           Blocked == \E r \in ToSet(live) :
                        request[r].stage = "PendingRelease" /\ HasProgress(request[r])
           selected == Head(list)
           chosen == FifoPlan(live, request, TokenBudget)
<1>1. chosen = IF list = << >> \/ Blocked \/ ~HasWork(request[selected]) THEN << >>
             ELSE <<WorkFor(selected, request[selected], TokenBudget)>>
  BY Zenon DEF FifoPlan
<1>2. /\ live \in Seq(Requests) /\ ToSet(live) \subseteq Requests
      /\ request \in [Requests -> RequestStates]
  BY SeqElements DEF SchedulerTypes
<1>3. /\ list \in Seq(Requests)
      /\ ToSet(list) = (ToSet(live) \cap Underway) \cup (ToSet(live) \cap Accepted)
  <2> HIDE DEF Underway, Accepted
  <2> QED BY <1>2, FilterProperties, ToSetConcat
<1>4. Workable \subseteq ToSet(list)
  <2>1. \A r \in Workable : r \in ToSet(live) /\ request[r].stage \in {"Prefill", "Decode"}
    BY DEF Workable, HasWork
  <2> QED BY <1>3, <2>1
<1>5. list # << >> => selected \in ToSet(list)
  <2> HIDE DEF list
  <2> SUFFICES ASSUME list # << >> PROVE selected \in ToSet(list)
    OBVIOUS
  <2>1. Len(list) \in Nat /\ Len(list) > 0 /\ DOMAIN list = 1 .. Len(list)
    BY <1>3, LenProperties, EmptySeq, SMT
  <2>2. 1 \in DOMAIN list /\ Head(list) = list[1] BY <1>3, <2>1, SMT
  <2> QED BY <2>2 DEF ToSet
<1>6. selected \in ToSet(list) =>
        /\ selected \in ToSet(live) /\ selected \in Requests
        /\ request[selected].stage \in {"Prefill", "Decode", "PendingRelease"}
  <2>1. \A r \in ToSet(list) :
          /\ r \in ToSet(live)
          /\ request[r].stage \in {"Prefill", "Decode", "PendingRelease"}
    <3>1. \A r \in ToSet(live) : r \in Requests /\ request[r].stage # "Unsubmitted"
      BY <1>2 DEF LiveInv
    <3>2. \A r \in Requests : request[r].stage \in Stages
      BY <1>2 DEF RequestStates
    <3> QED BY <1>3, <3>1, <3>2 DEF Stages, Runnable
  <2> HIDE DEF list
  <2> QED BY <1>2, <2>1
<1> HIDE DEF list, selected, chosen
<1>7. Blocked => ReleasePending BY DEF ReleasePending
<1>8. CASE list = << >>
  <2>1. Workable = {} BY <1>4, <1>8, ToSetEmpty
  <2> QED BY <1>1, <1>8, <2>1, EmptyIsSound DEF chosen
<1>9. CASE list # << >> /\ (Blocked \/ ~HasWork(request[selected]))
  <2>1. ReleasePending
    <3>1. CASE Blocked BY <1>7, <3>1
    <3>2. CASE ~HasWork(request[selected])
      BY <1>5, <1>6, <1>9, <3>2 DEF Runnable, Workable, ReleasePending
    <3> QED BY <1>9, <3>1, <3>2
  <2> QED BY <1>1, <1>9, <2>1, EmptyIsSound DEF chosen
<1>10. CASE list # << >> /\ ~Blocked /\ HasWork(request[selected])
  <2>1. chosen = <<WorkFor(selected, request[selected], TokenBudget)>> BY <1>1, <1>10
  <2>2. selected \in Workable /\ selected \in Requests
    BY <1>5, <1>6, <1>10 DEF Workable
  <2> QED BY <2>1, <2>2, SingleIsSound DEF chosen
<1> QED BY <1>8, <1>9, <1>10 DEF chosen

(* What the shipped policies of the FIFO family build is what a policy may *)
(* build (scheduler.cpp:227-229): the abstract policy of the model covers  *)
(* them.  fifo.cpp does so only while every request that may be scheduled  *)
(* has work: after an exact hit of the cache one has none, and the request *)
(* it picks may be that one.                                               *)
THEOREM ShippedPoliciesAlwaysConform ==
  Spec => [](SchedulableHasWork => ShippedPoliciesConform)
<1>1. TypeInv /\ LifeInv => (SchedulableHasWork => ShippedPoliciesConform)
  <2> SUFFICES ASSUME TypeInv, LifeInv, SchedulableHasWork, run_pc = "decide", MaySchedule
               PROVE  {FifoPlan(live, request, TokenBudget),
                       ContinuousFifoPlan(live, request, TokenBudget)}
                        \cup CacheAwarePlans(live, request, TokenBudget, 1 .. Len(live))
                      \subseteq SoundPlans
    BY DEF ShippedPoliciesConform
  <2>1. SchedulerTypes /\ LiveInv BY DEF TypeInv, LifeInv
  <2>2. \A r \in ToSet(live) : Runnable(request[r]) => r \in Workable
    BY DEF SchedulableHasWork, Runnable
  <2>3. 1 .. Len(live) \in SUBSET Nat BY SMT
  <2>4. FifoPlan(live, request, TokenBudget) \in SoundPlans BY <2>1, <2>2, FifoIsSound
  <2>5. ContinuousFifoPlan(live, request, TokenBudget) \in SoundPlans
    BY <2>1, ContinuousFifoIsSound
  <2>6. CacheAwarePlans(live, request, TokenBudget, 1 .. Len(live)) \subseteq SoundPlans
    BY <2>1, <2>3, CacheAwareIsSound
  <2> QED BY <2>4, <2>5, <2>6
<1> QED BY <1>1, TypesInvariance, LifeInvariance, PTL

(* The policies that batch conform whatever the cache holds, since they    *)
(* pass over a request without work.                                       *)
THEOREM BatchingPoliciesConform ==
  Spec => [](/\ ContinuousFifoPlan(live, request, TokenBudget) \in SoundPlans
             /\ CacheAwarePlans(live, request, TokenBudget, Nat) \subseteq SoundPlans)
<1>1. TypeInv /\ LifeInv =>
        /\ ContinuousFifoPlan(live, request, TokenBudget) \in SoundPlans
        /\ CacheAwarePlans(live, request, TokenBudget, Nat) \subseteq SoundPlans
  <2> SUFFICES ASSUME TypeInv, LifeInv
               PROVE  /\ ContinuousFifoPlan(live, request, TokenBudget) \in SoundPlans
                      /\ CacheAwarePlans(live, request, TokenBudget, Nat) \subseteq SoundPlans
    OBVIOUS
  <2>1. SchedulerTypes /\ LiveInv BY DEF TypeInv, LifeInv
  <2>2. Nat \in SUBSET Nat OBVIOUS
  <2> QED BY <2>1, <2>2, ContinuousFifoIsSound, CacheAwareIsSound
<1> QED BY <1>1, TypesInvariance, LifeInvariance, PTL
=============================================================================
