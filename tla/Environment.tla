----------------------------- MODULE Environment -----------------------------
(***************************************************************************)
(* The environment thread, src/src/runtime/environment.cpp: releases,      *)
(* admissions, then at most one plan per turn of its loop.  The model      *)
(* (llama.cpp) is external: an operation of it that may fail does so in    *)
(* the runs whose Faults name it.                                          *)
(***************************************************************************)
EXTENDS Handoff, PrefixCache, SequenceLoops

CONSTANTS
  Prompt,         \* the tokens of each request's prompt
  Conversation,   \* Admission::conversation_id
  Synthetic,      \* the requests with synthetic_prompt_tokens, never cached
  ContextSize,    \* config_.context_size
  BatchCapacity,  \* config_.batch_capacity
  MaxSequences,   \* config_.max_sequences
  CacheCapacity,  \* what resolve_prefix_cache_capacity returns
  EndOfSequence   \* what llama_vocab_is_eog may answer for a sampled token

Tokens == UNION {ToSet(Prompt[r]) : r \in Requests}

ASSUME EnvironmentAssumption ==
  /\ Prompt \in [Requests -> Seq(Tokens)]
  /\ Synthetic \subseteq Requests
  /\ {ContextSize, BatchCapacity, MaxSequences, CacheCapacity} \subseteq Nat \ {0}
  /\ EndOfSequence \subseteq BOOLEAN

VARIABLES
  env_pc,             \* where the loop is
  records,            \* the map `requests`: NoRecord for an absent key
  free_sequences,     \* the stack of free sequence ids
  env_fatal,          \* fatal
  pending_admission,  \* the admission held outside the channel, or NoAdmission
  result,             \* the AdmissionResult being reported
  ack,                \* the release being acknowledged
  plan,               \* the plan being executed, or NoPlan
  item,               \* the index of the work item being executed
  completion,         \* the Completion being reported
  cache, cache_clock, \* prefix_cache, cache_clock
  emitted             \* history: the output pieces reported per request

workVars == <<plan, item, completion, emitted>>
cacheVars == <<cache, cache_clock>>
environmentVars == <<env_pc, records, free_sequences, env_fatal,
                     pending_admission, result, ack, workVars, cacheVars>>

Nothing == [held |-> FALSE]  \* an empty optional, an absent map entry

Held(r) == records[r] # Nothing

EnvironmentInit ==
  /\ env_pc = "top"
  /\ records = [r \in Requests |-> Nothing]
  /\ free_sequences = [i \in 1 .. MaxSequences |-> MaxSequences - i]
  /\ env_fatal = FALSE
  /\ pending_admission = Nothing /\ result = Nothing /\ ack = Nothing
  /\ plan = NoPlan /\ item = 0 /\ completion = Nothing
  /\ emitted = [r \in Requests |-> 0]
  /\ cache = << >> /\ cache_clock = 0

(* fail_run: the first failure sets the flag and reports it.               *)
FailRun(error) ==
  /\ env_fatal' = TRUE
  /\ fatals' = IF env_fatal THEN fatals ELSE Append(fatals, error)

NoFailure == UNCHANGED <<env_fatal, fatals>>
-----------------------------------------------------------------------------
(* The head of the loop.                                                   *)
BeginTurn ==
  /\ env_pc = "top"
  /\ env_pc' = IF stop_requested THEN "exited" ELSE "releases"
  /\ UNCHANGED <<handoffVars, records, free_sequences, env_fatal,
                 pending_admission, result, ack, workVars, cacheVars>>
-----------------------------------------------------------------------------
(* The releases: each frees its sequence and is then acknowledged.         *)
TakeRelease ==
  /\ env_pc = "releases" /\ releases # << >>
  /\ LET r == Head(releases)
     IN  /\ ack' = r
         /\ records' = [records EXCEPT ![r] = Nothing]
         /\ \/ /\ free_sequences' = IF Held(r)
                    THEN Append(free_sequences, records[r].sequence)
                    ELSE free_sequences
               /\ NoFailure
            \/ /\ Held(r) /\ "seq_rm" \in Faults
               /\ FailRun("DecodeFailed") /\ UNCHANGED free_sequences
  /\ releases' = Tail(releases)
  /\ env_pc' = "ack"
  /\ UNCHANGED <<pending_admission, result, workVars, cacheVars, admissions,
                 admission_results, completions, outputs, release_acks,
                 published, completed_epoch, stop_requested>>

AcknowledgeRelease ==
  /\ env_pc = "ack" /\ HasRoom(release_acks)
  /\ release_acks' = Append(release_acks, ack)
  /\ ack' = Nothing
  /\ env_pc' = "releases"
  /\ UNCHANGED <<records, free_sequences, env_fatal, pending_admission, result,
                 workVars, cacheVars, admissions, releases, admission_results,
                 completions, outputs, fatals, published, completed_epoch,
                 stop_requested>>

ReleasesTaken ==
  /\ env_pc = "releases" /\ releases = << >>
  /\ env_pc' = "admissions"
  /\ UNCHANGED <<handoffVars, records, free_sequences, env_fatal,
                 pending_admission, result, ack, workVars, cacheVars>>
-----------------------------------------------------------------------------
(* The admissions.  p is the PendingAdmission under consideration: new, or *)
(* validated in an earlier turn and held since for want of a sequence.     *)

(* The error of an admission, as validation finds it.                      *)
Verdict(p) ==
  LET tokens == Len(Prompt[p.id])
  IN  IF env_fatal THEN "EnvironmentStopped"
      ELSE IF p.validated THEN "None"
      ELSE IF Held(p.id) THEN "ProtocolViolation"
      ELSE IF tokens = 0 THEN "TokenizationFailed"
      ELSE IF tokens + MaxOutput[p.id] > ContextSize THEN "ContextCapacityExceeded"
      ELSE "None"

Report(id, prompt_tokens, cached, error) ==
  /\ result' = [id |-> id, prompt_tokens |-> prompt_tokens,
                cached_prefix_tokens |-> cached, error |-> error]
  /\ pending_admission' = Nothing
  /\ env_pc' = "result"

Reject(p) ==
  /\ Verdict(p) # "None"
  /\ Report(p.id, 0, 0, Verdict(p))
  /\ NoFailure
  /\ UNCHANGED <<records, free_sequences, cacheVars>>

ValidationThrows(p) ==
  /\ "validate" \in Faults /\ ~env_fatal /\ ~p.validated
  /\ FailRun("EnvironmentStopped")
  /\ Report(p.id, 0, 0, "EnvironmentStopped")
  /\ UNCHANGED <<records, free_sequences, cacheVars>>

(* A valid admission waits when every sequence is taken.                   *)
Hold_SkipsPlan(p) ==
  /\ Verdict(p) = "None" /\ free_sequences = << >>
  /\ pending_admission' = [p EXCEPT !.validated = TRUE]
  /\ env_pc' = "top"
  /\ NoFailure
  /\ UNCHANGED <<records, free_sequences, result, cacheVars>>

Hold(p) ==
  /\ Verdict(p) = "None" /\ free_sequences = << >>
  /\ pending_admission' = [p EXCEPT !.validated = TRUE]
  /\ env_pc' = "plan"
  /\ NoFailure
  /\ UNCHANGED <<records, free_sequences, result, cacheVars>>

SamplerFails_LeaksSequence(p) ==
  /\ "sampler" \in Faults
  /\ Verdict(p) = "None" /\ free_sequences # << >>
  /\ free_sequences' = Front(free_sequences)
  /\ Report(p.id, 0, 0, "SamplingFailed")
  /\ NoFailure
  /\ UNCHANGED <<records, cacheVars>>

SamplerFails(p) ==
  /\ "sampler" \in Faults
  /\ Verdict(p) = "None" /\ free_sequences # << >>
  /\ Report(p.id, 0, 0, "SamplingFailed")
  /\ NoFailure
  /\ UNCHANGED <<records, free_sequences, cacheVars>>

Assign(p, position) ==
  /\ records' = [records EXCEPT ![p.id] =
       [sequence |-> Last(free_sequences), prefill_position |-> position,
        decoded_tokens |-> 0]]
  /\ free_sequences' = Front(free_sequences)
  /\ Report(p.id, Len(Prompt[p.id]), position, "None")
  /\ NoFailure

Match(p) ==
  IF p.id \in Synthetic THEN 0 ELSE FindLongestFullPrefix(cache, Prompt[p.id])

(* A new record starts at the end of the longest saved prefix, if the      *)
(* model takes the saved state back, and at 0 otherwise.                   *)
Accept(p) ==
  /\ Verdict(p) = "None" /\ free_sequences # << >>
  /\ \/ /\ Match(p) # 0
        /\ Assign(p, Len(cache[Match(p)].tokens))
        /\ cache' = [cache EXCEPT ![Match(p)].last_used = cache_clock + 1]
        /\ cache_clock' = cache_clock + 1
     \/ /\ Match(p) = 0 \/ "restore" \in Faults
        /\ Assign(p, 0)
        /\ UNCHANGED cacheVars

(* The restore failed half-way and the sequence cannot be cleared either.  *)
RestoreBreaks(p) ==
  /\ {"restore", "seq_rm"} \subseteq Faults
  /\ Verdict(p) = "None" /\ free_sequences # << >> /\ Match(p) # 0
  /\ FailRun("DecodeFailed")
  /\ Report(p.id, Len(Prompt[p.id]), 0, "DecodeFailed")
  /\ UNCHANGED <<records, free_sequences, cacheVars>>

(* An allocation throws after the sequence was taken: the outer catch      *)
(* fails the run, the admission stays held, the sequence is gone.          *)
AcceptThrows(p) ==
  /\ "accept" \in Faults
  /\ Verdict(p) = "None" /\ free_sequences # << >>
  /\ free_sequences' = Front(free_sequences)
  /\ pending_admission' = [p EXCEPT !.validated = TRUE]
  /\ FailRun("EnvironmentStopped")
  /\ env_pc' = "top"
  /\ UNCHANGED <<records, result, cacheVars>>

Resolve(p) ==
  \/ Reject(p) \/ ValidationThrows(p) \/ Hold(p) \/ SamplerFails(p)
  \/ Accept(p) \/ RestoreBreaks(p) \/ AcceptThrows(p)

TakeAdmission_Overtakes ==
  /\ env_pc = "admissions" /\ admissions # << >>
  /\ Resolve([id |-> Head(admissions), validated |-> FALSE])
  /\ admissions' = Tail(admissions)
  /\ UNCHANGED <<ack, workVars, releases, admission_results, completions,
                 outputs, release_acks, published, completed_epoch,
                 stop_requested>>

TakeAdmission ==
  /\ env_pc = "admissions" /\ pending_admission = Nothing
  /\ admissions # << >>
  /\ Resolve([id |-> Head(admissions), validated |-> FALSE])
  /\ admissions' = Tail(admissions)
  /\ UNCHANGED <<ack, workVars, releases, admission_results, completions,
                 outputs, release_acks, published, completed_epoch,
                 stop_requested>>

ResumeAdmission ==
  /\ env_pc = "admissions" /\ pending_admission # Nothing
  /\ Resolve(pending_admission)
  /\ UNCHANGED <<ack, workVars, admissions, releases, admission_results,
                 completions, outputs, release_acks, published,
                 completed_epoch, stop_requested>>

ReportAdmission ==
  /\ env_pc = "result" /\ HasRoom(admission_results)
  /\ admission_results' = Append(admission_results, result)
  /\ result' = Nothing
  /\ env_pc' = "admissions"
  /\ UNCHANGED <<records, free_sequences, env_fatal, pending_admission, ack,
                 workVars, cacheVars, admissions, releases, completions,
                 outputs, release_acks, fatals, published, completed_epoch,
                 stop_requested>>

AdmissionsTaken ==
  /\ env_pc = "admissions" /\ pending_admission = Nothing
  /\ admissions = << >>
  /\ env_pc' = "plan"
  /\ UNCHANGED <<handoffVars, records, free_sequences, env_fatal,
                 pending_admission, result, ack, workVars, cacheVars>>
-----------------------------------------------------------------------------
(* The plan.                                                               *)

BatchTokens(work) == Tally(work)

(* The checks a plan passes before it is decoded.                          *)
Executable(w) ==
  /\ Held(w.id) /\ w.begin < w.end
  /\ \/ /\ w.kind = "Prefill"
        /\ w.begin = records[w.id].prefill_position
        /\ w.end <= Len(Prompt[w.id])
     \/ /\ w.kind = "Decode"
        /\ records[w.id].decoded_tokens # 0
        /\ w.begin = Len(Prompt[w.id]) + records[w.id].decoded_tokens - 1
        /\ w.end = w.begin + 1

Acceptable(work) ==
  /\ work # << >>
  /\ \A i \in DOMAIN work : Executable(work[i])
  /\ \A i, j \in DOMAIN work : work[i].id = work[j].id => i = j
  /\ BatchTokens(work) <= BatchCapacity

SkipPlan ==
  /\ env_pc = "plan"
  /\ env_fatal \/ published = NoPlan
  /\ env_pc' = "top"
  /\ UNCHANGED <<handoffVars, records, free_sequences, env_fatal,
                 pending_admission, result, ack, workVars, cacheVars>>

(* consume_plan, the checks and llama_decode.                              *)
ConsumePlan ==
  /\ env_pc = "plan" /\ ~env_fatal /\ published # NoPlan
  /\ published' = NoPlan
  /\ plan' = published /\ item' = 1
  /\ \/ /\ ~Acceptable(published.work)
        /\ FailRun("ProtocolViolation") /\ env_pc' = "retire"
     \/ /\ Acceptable(published.work) /\ "decode" \in Faults
        /\ FailRun("DecodeFailed") /\ env_pc' = "retire"
     \/ /\ Acceptable(published.work)
        /\ NoFailure /\ env_pc' = "items"
  /\ UNCHANGED <<records, free_sequences, pending_admission, result, ack,
                 completion, emitted, cacheVars, admissions, releases,
                 admission_results, completions, outputs, release_acks,
                 completed_epoch, stop_requested>>

Work == plan.work[item]

(* The record after a work item, before anything is sampled.               *)
Advanced ==
  IF Work.kind = "Prefill"
  THEN [records[Work.id] EXCEPT !.prefill_position = Work.end]
  ELSE records[Work.id]

(* Only the last position of a prompt, or a decode, asks for a token.      *)
Samples == Work.kind = "Decode" \/ Work.end = Len(Prompt[Work.id])

Complete(decoded, eos) ==
  completion' = [id |-> Work.id, decoded_tokens |-> decoded, eos |-> eos,
                 prefill_position |-> IF Work.kind = "Prefill" THEN Work.end
                                      ELSE Len(Prompt[Work.id])]

(* remember_prefix, when a prefill reaches the end of a cacheable prompt.  *)
Remembers == Work.kind = "Prefill" /\ Samples /\ Work.id \notin Synthetic

Remember ==
  \/ /\ Remembers
     /\ cache' = Retain(cache, [tokens |-> Prompt[Work.id],
                                last_used |-> cache_clock + 1,
                                conversation |-> Conversation[Work.id]],
                        CacheCapacity)
     /\ cache_clock' = cache_clock + 1
  \/ /\ ~Remembers \/ "save" \in Faults
     /\ UNCHANGED cacheVars

executionUnchanged ==
  <<free_sequences, pending_admission, result, ack, plan, item, emitted,
    admissions, releases, admission_results, completions, outputs,
    release_acks, published, completed_epoch, stop_requested>>

AdvancePrefill ==
  /\ env_pc = "items" /\ item <= Len(plan.work) /\ ~Samples
  /\ records' = [records EXCEPT ![Work.id] = Advanced]
  /\ Complete(Advanced.decoded_tokens, FALSE)
  /\ env_pc' = "completion"
  /\ NoFailure
  /\ UNCHANGED <<cacheVars, executionUnchanged>>

SampleToken ==
  /\ env_pc = "items" /\ item <= Len(plan.work) /\ Samples
  /\ Remember
  /\ LET sampled == [Advanced EXCEPT !.decoded_tokens = @ + 1]
     IN  /\ records' = [records EXCEPT ![Work.id] = sampled]
         /\ \E eos \in EndOfSequence :
              /\ Complete(sampled.decoded_tokens, eos)
              /\ env_pc' = IF eos THEN "completion" ELSE "output"
  /\ NoFailure
  /\ UNCHANGED executionUnchanged

(* No token, or one without a text: the run fails and the rest of the plan *)
(* is not executed.                                                        *)
SamplingFails ==
  /\ env_pc = "items" /\ item <= Len(plan.work) /\ Samples
  /\ "sample" \in Faults
  /\ Remember
  /\ \E drawn \in {0, 1} :
       records' = [records EXCEPT ![Work.id] =
                     [Advanced EXCEPT !.decoded_tokens = @ + drawn]]
  /\ FailRun("SamplingFailed")
  /\ env_pc' = "retire"
  /\ UNCHANGED <<completion, executionUnchanged>>

(* An allocation throws while the prefix is saved: the plan is retired as  *)
(* the stack unwinds, and only then does the outer catch fail the run.     *)
RememberThrows ==
  /\ env_pc = "items" /\ item <= Len(plan.work) /\ Remembers
  /\ "remember" \in Faults
  /\ records' = [records EXCEPT ![Work.id] = Advanced]
  /\ env_pc' = "unwind"
  /\ NoFailure
  /\ UNCHANGED <<completion, cacheVars, executionUnchanged>>

ReportOutput ==
  /\ env_pc = "output" /\ HasRoom(outputs)
  /\ outputs' = Append(outputs, Work.id)
  /\ emitted' = [emitted EXCEPT ![Work.id] = @ + 1]
  /\ env_pc' = "completion"
  /\ UNCHANGED <<records, free_sequences, env_fatal, pending_admission, result,
                 ack, plan, item, completion, cacheVars, admissions, releases,
                 admission_results, completions, release_acks, fatals,
                 published, completed_epoch, stop_requested>>

ReportCompletion ==
  /\ env_pc = "completion" /\ HasRoom(completions)
  /\ completions' = Append(completions, completion)
  /\ completion' = Nothing
  /\ item' = item + 1
  /\ env_pc' = "items"
  /\ UNCHANGED <<records, free_sequences, env_fatal, pending_admission, result,
                 ack, plan, emitted, cacheVars, admissions, releases,
                 admission_results, outputs, release_acks, fatals, published,
                 completed_epoch, stop_requested>>

PlanExecuted ==
  /\ env_pc = "items" /\ item > Len(plan.work)
  /\ env_pc' = "retire"
  /\ UNCHANGED <<handoffVars, records, free_sequences, env_fatal,
                 pending_admission, result, ack, workVars, cacheVars>>

(* The PlanGuard: retire_plan, the epoch's commit point.                   *)
RetirePlan ==
  /\ env_pc \in {"retire", "unwind"}
  /\ completed_epoch' = plan.epoch
  /\ plan' = NoPlan /\ item' = 0
  /\ env_pc' = IF env_pc = "unwind" THEN "catch" ELSE "top"
  /\ UNCHANGED <<records, free_sequences, env_fatal, pending_admission, result,
                 ack, completion, emitted, cacheVars, admissions, releases,
                 admission_results, completions, outputs, release_acks, fatals,
                 published, stop_requested>>

Catch ==
  /\ env_pc = "catch"
  /\ FailRun("EnvironmentStopped")
  /\ env_pc' = "top"
  /\ UNCHANGED <<records, free_sequences, pending_admission, result, ack,
                 workVars, cacheVars, admissions, releases, admission_results,
                 completions, outputs, release_acks, published,
                 completed_epoch, stop_requested>>
-----------------------------------------------------------------------------
EnvironmentNext ==
  \/ BeginTurn
  \/ TakeRelease \/ AcknowledgeRelease \/ ReleasesTaken
  \/ TakeAdmission \/ ResumeAdmission \/ ReportAdmission \/ AdmissionsTaken
  \/ SkipPlan \/ ConsumePlan
  \/ AdvancePrefill \/ SampleToken \/ SamplingFails \/ RememberThrows
  \/ ReportOutput \/ ReportCompletion \/ PlanExecuted \/ RetirePlan \/ Catch

EnvironmentTypeOK ==
  /\ env_pc \in {"top", "releases", "ack", "admissions", "result", "plan",
                 "items", "output", "completion", "retire", "unwind", "catch",
                 "exited"}
  /\ \A r \in Requests :
       Held(r) => records[r] \in [sequence : 0 .. MaxSequences - 1,
                                  prefill_position : Nat, decoded_tokens : Nat]
  /\ free_sequences \in Seq(0 .. MaxSequences - 1)
  /\ env_fatal \in BOOLEAN
  /\ emitted \in [Requests -> Nat]
  /\ cache_clock \in Nat
=============================================================================
