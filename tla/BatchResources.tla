--------------------------- MODULE BatchResources ---------------------------
(***************************************************************************)
(* src/src/policies/batch_utilities.cpp: whether a batch fits the model    *)
(* and the hardware.  Memory is counted in tokens of KV cache: what the    *)
(* model's weights leave of total_memory_bytes, over the bytes per token.  *)
(***************************************************************************)
EXTENDS PolicyWork

CONSTANTS
  TokenBudget,    \* token_budget_
  BatchCapacity,  \* model.batch_capacity
  MaxSequences,   \* model.max_sequences
  MemoryTokens    \* the tokens that fit the memory left by the weights

ASSUME ResourcesAssumption ==
  {TokenBudget, BatchCapacity, MaxSequences, MemoryTokens} \subseteq Nat \ {0}

(* The requests that wait for their release are not counted.               *)
Resident(q) ==
  IF q.stage \notin {"Prefill", "Decode"} THEN 0
  ELSE q.prefill_position + (IF q.decoded_count > 0 THEN q.decoded_count - 1 ELSE 0)

ResidentTokens(list, states) ==
  LET sum[i \in 0 .. Len(list)] ==
        IF i = 0 THEN 0 ELSE sum[i - 1] + Resident(states[list[i]])
  IN  sum[Len(list)]

(* The tokens that a batch may process now.                                *)
Spare(list, states) ==
  Max({0, Min({TokenBudget, BatchCapacity,
               MemoryTokens - ResidentTokens(list, states)})})

(* evaluate_batch_resources(...).valid                                     *)
Fits(list, states, work) ==
  /\ Cost(work) <= Spare(list, states)
  /\ Len(work) <= MaxSequences
=============================================================================
