----------------------------- MODULE PolicyLoop -----------------------------
(***************************************************************************)
(* A policy at work for as long as requests arrive.  QuickServe.tla shows  *)
(* that a policy is asked for a plan only when the last one is executed    *)
(* and folded in full; so here a plan is built, executed and folded in one *)
(* step, a request ends after its last token, and between two plans        *)
(* requests are admitted, in the order they came, and ended ones leave.    *)
(* Requests are anonymous: a policy sees them by their place in the list.  *)
(* One at a time may be watched, to see whether it is ever left waiting.   *)
(***************************************************************************)
EXTENDS FifoPolicies, HeuristicAIMD, ProxQP

CONSTANTS
  Policies,        \* the policies under examination
  FairPolicies,    \* those that are to leave no request waiting for ever
  LocalityWindow,  \* locality_window_ of the cache-aware policy
  Shapes,          \* the prompts and outputs of the requests that arrive
  Slots            \* how many requests are live at a time: a bound

ASSUME LoopAssumption ==
  /\ Policies \subseteq {"fifo", "continuous", "cache_aware", "aimd", "proxqp"}
  /\ LocalityWindow \in Nat \ {0} /\ Slots \in Nat \ {0}
  /\ \A s \in Shapes : {s.prompt, s.output} \subseteq Nat \ {0}

VARIABLES
  policy,         \* the policy of this run
  requests,       \* policy_requests(), in submission order
  decode_window,  \* window_capacity(decode_window_)
  consecutive,    \* consecutive_decode_batches_
  drained         \* an empty plan has ended the run

vars == <<policy, requests, decode_window, consecutive, drained>>

List == [i \in DOMAIN requests |-> i]

Init ==
  /\ policy \in Policies
  /\ requests = << >>
  /\ decode_window = Max({Least(PrefillWindow, MaxWindow), MinWindow})
  /\ consecutive = 0 /\ drained = FALSE
-----------------------------------------------------------------------------
Arrive ==
  /\ ~drained /\ Len(requests) < Slots
  /\ \E shape \in Shapes, watched \in BOOLEAN :
       /\ watched => \A i \in DOMAIN requests : ~requests[i].watched
       /\ requests' = Append(requests,
            [stage |-> "PendingAdmission", prompt_length |-> shape.prompt,
             output |-> shape.output, prefill_position |-> 0, decoded_count |-> 0,
             cached_prefix_tokens |-> 0, bypasses |-> 0, waited |-> 0,
             watched |-> watched])
  /\ UNCHANGED <<policy, decode_window, consecutive, drained>>

(* The oldest request not admitted yet, perhaps with a part of its prompt  *)
(* in the prefix cache.  (A prompt cached in full is the business of the   *)
(* run exact_hit.)                                                         *)
Admit ==
  \E i \in DOMAIN requests :
    /\ requests[i].stage = "PendingAdmission"
    /\ \A j \in 1 .. i - 1 : requests[j].stage # "PendingAdmission"
    /\ \E cached \in 0 .. requests[i].prompt_length - 1 :
         requests' = [requests EXCEPT ![i].stage = "Prefill",
                                      ![i].prefill_position = cached,
                                      ![i].cached_prefix_tokens = cached]
    /\ UNCHANGED <<policy, decode_window, consecutive, drained>>

Releasing == \E i \in DOMAIN requests : requests[i].stage = "PendingRelease"

Leave(i) ==
  /\ i \in DOMAIN requests /\ requests[i].stage = "PendingRelease"
  /\ requests' = RemoveAt(requests, i)
  /\ UNCHANGED <<policy, decode_window, consecutive, drained>>
-----------------------------------------------------------------------------
(* The batches the policy may select now.                                  *)
Selections ==
  CASE policy = "fifo" -> {FifoPlan(List, requests, TokenBudget)}
    [] policy = "continuous" -> {ContinuousFifoPlan(List, requests, TokenBudget)}
    [] policy = "cache_aware" ->
         CacheAwarePlans(List, requests, TokenBudget, {LocalityWindow})
    [] policy = "aimd" ->
         AIMDSelections(List, requests, decode_window, consecutive)
    [] policy = "proxqp" -> ProxQPPlans(List, requests)

(* The plan made of a selection: AIMD drops one that does not fit.         *)
PlanOf(batch) ==
  IF policy = "aimd" /\ ~Fits(List, requests, batch) THEN << >> ELSE batch

(* A request after the work item w: the first token comes with the end of  *)
(* the prompt, one more with every decode.                                 *)
After(q, w) ==
  LET decoded == q.decoded_count
                 + (IF w.kind = "Decode" \/ w.end = q.prompt_length THEN 1 ELSE 0)
  IN  [q EXCEPT !.prefill_position = IF w.kind = "Prefill" THEN w.end ELSE @,
                !.decoded_count = decoded,
                !.stage = CASE decoded >= q.output -> "PendingRelease"
                            [] decoded \in 1 .. q.output - 1 -> "Decode"
                            [] decoded = 0 -> "Prefill"]

Executed(i, plan) ==
  LET items == {n \in DOMAIN plan : plan[n].id = i}
  IN  IF items = {} THEN requests[i]
      ELSE After(requests[i], plan[CHOOSE n \in items : TRUE])

(* The iteration of run_once that schedules: a plan is built, executed and *)
(* folded.  An empty one drains the run unless a release is pending.       *)
Schedule ==
  /\ \E i \in DOMAIN requests : Runnable(requests[i])
  /\ \E batch \in Selections : \E plan \in {PlanOf(batch)} :
       LET selected == {batch[i].id : i \in DOMAIN batch}
           decodes == plan # << >> /\ plan[1].kind = "Decode"
           counted(i) == IF policy = "aimd"
                         THEN [Executed(i, plan) EXCEPT
                                 !.bypasses = Bypassed(i, requests[i], selected).bypasses,
                                 !.waited = Waited(i, requests[i], plan)]
                         ELSE Executed(i, plan)
       IN  /\ drained' = (plan = << >> /\ ~Releasing)
           /\ requests' = IF drained' THEN << >> ELSE [i \in DOMAIN requests |-> counted(i)]
           /\ consecutive' = IF policy # "aimd" \/ plan = << >> THEN consecutive
                             ELSE IF decodes THEN Least(consecutive + 1, MaxDecodeBatches)
                             ELSE 0
           /\ decode_window' \in IF policy = "aimd" /\ decodes
                                 THEN UpdatedWindows(decode_window) ELSE {decode_window}
  /\ UNCHANGED policy

Drained == drained /\ UNCHANGED vars
-----------------------------------------------------------------------------
Next == Arrive \/ Admit \/ Schedule \/ (\E i \in DOMAIN requests : Leave(i)) \/ Drained

(* The request whose release is acknowledged next: the channels are FIFO.  *)
LeaveFirst ==
  \E i \in DOMAIN requests :
    Leave(i) /\ \A j \in 1 .. i - 1 : requests[j].stage # "PendingRelease"

(* The scheduler keeps running and the environment keeps answering it.     *)
Spec ==
  /\ Init /\ [][Next]_vars
  /\ WF_vars(Admit) /\ WF_vars(Schedule) /\ WF_vars(LeaveFirst)
-----------------------------------------------------------------------------
TypeOK ==
  /\ policy \in Policies
  /\ requests \in Seq([stage : {"PendingAdmission", "Prefill", "Decode", "PendingRelease"},
                       prompt_length : Nat, output : Nat, prefill_position : Nat,
                       decoded_count : Nat, cached_prefix_tokens : Nat,
                       bypasses : Nat, waited : Nat, watched : BOOLEAN])
  /\ Len(requests) <= Slots
  /\ decode_window \in MinWindow .. MaxWindow
  /\ consecutive \in 0 .. MaxDecodeBatches
  /\ drained \in BOOLEAN

(* A starved prefill beats all decodes and the prefills starved less       *)
(* (test_heuristic_aimd.cpp, test_starved_prefill_eventually_beats_decode).*)
(* So a prefill that has been passed over StarvationThreshold times is     *)
(* passed over at most once more for each of those starved with it, which  *)
(* are neither itself nor a request that was served when they became so.   *)
(* This takes memory for one more token while a release is pending: then   *)
(* build_plan may reset and count without returning a plan.                *)
BoundedBypass ==
  policy = "aimd" =>
    \A i \in DOMAIN requests :
      requests[i].stage = "Prefill" =>
        requests[i].bypasses < StarvationThreshold + Slots - 1

(* As long as a request can be scheduled and no release is pending, a      *)
(* policy finds a plan (scheduler.cpp:227-229), unless the hardware has no *)
(* memory for even one more token.                                         *)
EmptyOnlyWhenNothingFits ==
  (\E i \in DOMAIN requests : Runnable(requests[i])) =>
    \A batch \in Selections :
      PlanOf(batch) = << >> =>
        \/ Releasing
        \/ policy \in {"aimd", "proxqp"}
           /\ ResidentTokens(List, requests) >= MemoryTokens

(* The continuous policies never serve a prompt while an older one goes    *)
(* without, except that the cache-aware policy exchanges the places of the *)
(* first few; and neither serves anything behind a request that waits for  *)
(* its release.                                                            *)
OvertakesOnlyInWindow ==
  policy \in {"continuous", "cache_aware"} /\ requests # << >> =>
    \A batch \in Selections : \A i, j \in DOMAIN requests :
      LET served(k) == \E n \in DOMAIN batch : batch[n].id = k
          ahead == {k \in 1 .. j : requests[k].stage = "Prefill"}
      IN  i < j /\ served(j) =>
            /\ requests[i].stage # "PendingRelease"
            /\ HasWork(requests[i]) /\ ~served(i) =>
                 policy = "cache_aware" /\ Cardinality(ahead) <= LocalityWindow

Waiting ==
  policy \in FairPolicies /\
    \E i \in DOMAIN requests : requests[i].watched /\ Runnable(requests[i])

(* FIFO takes a cached prefix for progress (fifo.cpp:15), so that a later  *)
(* request that has one goes before the watched request without progress.  *)
Overtaken ==
  policy = "fifo" /\
    \E i, j \in DOMAIN requests :
      /\ i < j /\ requests[i].watched
      /\ Runnable(requests[i]) /\ ~HasProgress(requests[i])
      /\ Runnable(requests[j]) /\ requests[j].cached_prefix_tokens > 0

(* No admitted request waits for ever, however many arrive after it, with  *)
(* one exception: FIFO leaves it waiting if it is overtaken by requests    *)
(* with cached prefixes again and again.                                   *)
StarvationFree == (Waiting ~> ~Waiting) \/ []<>Overtaken
=============================================================================
