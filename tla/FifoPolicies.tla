---------------------------- MODULE FifoPolicies ----------------------------
(***************************************************************************)
(* The policies of the FIFO family, src/src/policies: the plan each builds *)
(* from the live requests and the token budget.                            *)
(***************************************************************************)
EXTENDS PolicyWork

Runnable(q) == q.stage \in {"Prefill", "Decode"}

(* fifo.cpp: one request at a time, the first that has made progress or,   *)
(* if none has, the first that was admitted.                               *)
HasProgress(q) == q.prefill_position > 0 \/ q.decoded_count > 0

FifoPlan(list, states, budget) ==
  LET active == Filter(list,
        {r \in ToSet(list) : Runnable(states[r]) /\ HasProgress(states[r])})
      admitted == Filter(list,
        {r \in ToSet(list) : states[r].stage \notin {"PendingAdmission", "Terminal"}})
      selected == Head(active \o admitted)
  IN  IF \/ active \o admitted = << >>
         \/ \E r \in ToSet(list) :
              states[r].stage = "PendingRelease" /\ HasProgress(states[r])
         \/ ~HasWork(states[selected])
      THEN << >>
      ELSE <<WorkFor(selected, states[selected], budget)>>
-----------------------------------------------------------------------------
(* The requests ahead of the first that waits for its release: none behind *)
(* it is served until it is gone.                                          *)
BeforeRelease(list, states) ==
  LET barrier == SelectInSeq(list, LAMBDA r : states[r].stage = "PendingRelease")
  IN  IF barrier = 0 THEN list ELSE SubSeq(list, 1, barrier - 1)

(* The batch: each request in turn gets what the budget has left.          *)
Filled_FullBudgetEach(order, states, budget) ==
  Items(Filter(order, {r \in ToSet(order) : HasWork(states[r])}), states, budget)

Filled(order, states, budget) ==
  LET worked == Filter(order, {r \in ToSet(order) : HasWork(states[r])})
      left[i \in 1 .. Len(worked)] ==
        IF i = 1 THEN budget ELSE left[i - 1] - Demand(states[worked[i - 1]])
  IN  [i \in {j \in DOMAIN worked : left[j] > 0} |->
         WorkFor(worked[i], states[worked[i]], left[i])]

(* continuous_batched_fifo.cpp *)
ContinuousFifoPlan(list, states, budget) ==
  Filled(BeforeRelease(list, states), states, budget)

(* cache_aware_continuous_fifo.cpp: the first window prefills exchange     *)
(* their places, the one with the longest cached prefix first.             *)
Reordered(order, states, exchanging) ==
  LET ranked == StableSort(exchanging, LAMBDA r, s :
        states[r].cached_prefix_tokens > states[s].cached_prefix_tokens)
      place(r) == CHOOSE i \in DOMAIN exchanging : exchanging[i] = r
  IN  [i \in DOMAIN order |-> IF order[i] \in ToSet(exchanging)
                              THEN ranked[place(order[i])] ELSE order[i]]

Prefills(order, states) ==
  Filter(order, {r \in ToSet(order) : states[r].stage = "Prefill"})

LocalityOrder_Unbounded(order, states, window) ==
  Reordered(order, states, Prefills(order, states))

LocalityOrder(order, states, window) ==
  LET prefills == Prefills(order, states)
  IN  Reordered(order, states, SubSeq(prefills, 1, Least(window, Len(prefills))))

CacheAwarePlans(list, states, budget, windows) ==
  LET before == BeforeRelease(list, states)
      runnable == Filter(before, {r \in ToSet(before) : Runnable(states[r])})
      orders == {LocalityOrder(order, states, window) :
                   order \in {runnable}, window \in windows}
  IN  {Filled(order, states, budget) : order \in orders}
=============================================================================
