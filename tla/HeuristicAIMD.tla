---------------------------- MODULE HeuristicAIMD ----------------------------
(***************************************************************************)
(* src/src/policies/heuristic_aimd.cpp: batches of decodes alone, within a *)
(* window that grows and shrinks with their measured time, interrupted by  *)
(* batches of prefills when one has been passed over too often or decodes  *)
(* have run long enough.  The state of a request carries its bypasses_.    *)
(*                                                                         *)
(* Clocks are external.  The urgency of a prefill is its time since it     *)
(* arrived, so sorting prefills by it keeps the order of the list.  The    *)
(* urgency of a decode is its time since its last token, up to a limit:    *)
(* waited counts the batches executed since that token.                    *)
(***************************************************************************)
EXTENDS BatchResources

CONSTANTS
  MaxPrefillChunk,       \* config_.max_prefill_chunk
  PrefillWindow,         \* window_capacity(prefill_window_), which is fixed
  MinWindow, MaxWindow,  \* the capacities of minimum_ and maximum_window
  WindowStep,            \* additive_step
  StarvationThreshold,   \* starvation_threshold
  MaxDecodeBatches       \* max_consecutive_decode_batches

ASSUME AIMDAssumption ==
  /\ {MaxPrefillChunk, PrefillWindow, MinWindow, WindowStep,
      StarvationThreshold, MaxDecodeBatches} \subseteq Nat \ {0}
  /\ MaxWindow \in Nat /\ MaxWindow >= MinWindow

(* update_window(...): what one decode batch may make of the window, in    *)
(* the integers that window_capacity makes of it.                          *)
UpdatedWindows_Unclamped(window) ==
  {window, window + WindowStep}
    \cup (4 * window) \div 5 .. (4 * window + 3) \div 5

UpdatedWindows(window) ==
  {window, Least(window + WindowStep, MaxWindow)}
    \cup {Max({n, MinWindow}) : n \in (4 * window) \div 5 .. (4 * window + 3) \div 5}

Candidates(list, states, stage) ==
  Filter(list, {r \in ToSet(list) : states[r].stage = stage /\ HasWork(states[r])})

Starved(q) == q.bypasses >= StarvationThreshold

(* The starved prefills, longest first; then those that have begun.        *)
PrefillFirst_StartedOnly(a, b) == a.prefill_position # 0 /\ b.prefill_position = 0

PrefillFirst(a, b) ==
  \/ Starved(a) /\ (~Starved(b) \/ a.bypasses > b.bypasses)
  \/ /\ Starved(a) = Starved(b) /\ (Starved(a) => a.bypasses = b.bypasses)
     /\ a.prefill_position # 0 /\ b.prefill_position = 0

PrefillOrder(list, states) ==
  StableSort(Candidates(list, states, "Prefill"),
             LAMBDA r, s : PrefillFirst(states[r], states[s]))

(* decode_mode: there is something to decode and no prefill is forced.     *)
DecodeMode(list, states, consecutive) ==
  LET prefills == Candidates(list, states, "Prefill")
  IN  /\ Candidates(list, states, "Decode") # << >>
      /\ \/ prefills = << >>
         \/ /\ consecutive < MaxDecodeBatches
            /\ \A i \in DOMAIN prefills : ~Starved(states[prefills[i]])

(* As many decodes as fit in the window, the most urgent first.  A decode  *)
(* that had its last token earlier goes before another unless both have    *)
(* reached the limit; then the one passed over more often goes first.  Of  *)
(* two with a token of the same batch either may have had it first.        *)
DecodeBatches(list, states, window) ==
  LET decodes == ToSet(Candidates(list, states, "Decode"))
      size == Min({Cardinality(decodes), window, MaxSequences, Spare(list, states)})
      most(chosen) == \A r \in chosen, s \in decodes \ chosen :
                        \/ states[r].waited >= states[s].waited
                        \/ states[r].bypasses >= states[s].bypasses
  IN  {Items(Filter(list, chosen), states, 1) :
         chosen \in {c \in SUBSET decodes : Cardinality(c) = size /\ most(c)}}

(* The prefills, each with the largest chunk that still fits: window is    *)
(* what is left for each in turn.                                          *)
PrefillBatch_WholeChunks(order, states, spare) ==
  LET chunk == Least(MaxPrefillChunk, Least(TokenBudget, PrefillWindow))
  IN  Items(SubSeq(order, 1, 1), states, chunk)

PrefillBatch(order, states, spare) ==
  LET chunk(r) == Least(MaxPrefillChunk,
                        states[r].prompt_length - states[r].prefill_position)
      left[i \in 1 .. Len(order) + 1] ==
        IF i = 1 THEN Least(PrefillWindow, spare)
        ELSE left[i - 1] - Least(chunk(order[i - 1]), left[i - 1])
      served == {i \in 1 .. Least(Len(order), MaxSequences) : left[i] > 0}
  IN  [i \in served |-> WorkFor(order[i], states[order[i]],
                                Least(MaxPrefillChunk, left[i]))]

(* The candidate of the highest utility, when none fits.  A starved one    *)
(* outweighs all others; otherwise urgencies decide, which are external.   *)
Fallbacks(list, states, stage) ==
  LET candidates == ToSet(Candidates(list, states, stage))
      starved == {r \in candidates : Starved(states[r])}
  IN  {<<WorkFor(r, states[r], 1)>> : r \in IF starved = {} THEN candidates ELSE starved}

(* What build_plan may select; it returns nothing if that does not fit.    *)
AIMDSelections(list, states, window, consecutive) ==
  LET decoding == DecodeMode(list, states, consecutive)
      batches == IF decoding THEN DecodeBatches(list, states, window)
                 ELSE {PrefillBatch(order, states, Spare(list, states)) :
                         order \in {PrefillOrder(list, states)}}
      fallbacks == Fallbacks(list, states, IF decoding THEN "Decode" ELSE "Prefill")
  IN  IF << >> \in batches /\ fallbacks # {} THEN fallbacks ELSE batches

(* The bypasses of a candidate after a batch for the selected ids.         *)
Bypassed_NeverCounts(id, q, selected) == q

Bypassed(id, q, selected) ==
  [q EXCEPT !.bypasses = IF ~HasWork(q) \/ id \in selected THEN 0 ELSE @ + 1]

(* The batches since the last token of a decode, after a plan of that id   *)
(* or of others; a plan that was dropped takes no time.                    *)
Waited(id, q, plan) ==
  IF plan = << >> THEN q.waited
  ELSE IF q.stage # "Decode" \/ \E n \in DOMAIN plan : plan[n].id = id THEN 0
  ELSE q.waited + 1
=============================================================================
