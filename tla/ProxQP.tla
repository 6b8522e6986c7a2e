------------------------------- MODULE ProxQP -------------------------------
(***************************************************************************)
(* src/src/policies/proxqp_scheduler.cpp.  The solver and the clocks are   *)
(* external: the first chooses how much of each kind to do, the second the *)
(* urgency of decodes, so which batch of those that fit is built is open.  *)
(***************************************************************************)
EXTENDS BatchResources

CONSTANT MaxChunk  \* config_.max_prefill_chunk

ASSUME ProxQPAssumption == MaxChunk \in Nat \ {0}

(* candidates(): prefills in the order of their arrival, and decodes.      *)
PrefillCandidates(list, states) ==
  Filter(list, {r \in ToSet(list) : states[r].stage = "Prefill" /\ HasWork(states[r])})

DecodeCandidates(list, states) ==
  {r \in ToSet(list) : states[r].stage = "Decode" /\ HasWork(states[r])}

(* The projection of the solution: the first few prefills with whole       *)
(* chunks, and the most urgent decodes.                                    *)
Projections(list, states) ==
  LET prefills == PrefillCandidates(list, states)
      decodes == SetToAllKPermutations(DecodeCandidates(list, states))
      chunk == Least(MaxChunk, TokenBudget)
      batches == {Items(SubSeq(prefills, 1, n) \o d, states, chunk) :
                    n \in 0 .. Len(prefills), d \in decodes}
  IN  {work \in batches : work # << >> /\ Fits(list, states, work)}

(* urgent_fallback: one request, its chunk cut until it fits.              *)
UrgentFallbacks(list, states) ==
  LET fitting(r) == {n \in 1 .. Least(MaxChunk, TokenBudget) :
                       Fits(list, states, <<WorkFor(r, states[r], n)>>)}
      candidates == {r \in ToSet(list) : HasWork(states[r]) /\ fitting(r) # {}}
  IN  {<<WorkFor(r, states[r], Max(fitting(r)))>> : r \in candidates}

(* The fallback serves when the projection is empty, the solver fails, no  *)
(* tier of the profile covers the requests, or there are too many of them. *)
ProxQPPlans(list, states) ==
  LET plans == Projections(list, states) \cup UrgentFallbacks(list, states)
  IN  IF plans = {} THEN {<< >>} ELSE plans
=============================================================================
