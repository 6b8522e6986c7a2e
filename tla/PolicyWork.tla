----------------------------- MODULE PolicyWork -----------------------------
(***************************************************************************)
(* What every policy builds plans from.  A policy is given policy_requests *)
(* as a list of ids and the state of each, and returns work items in the   *)
(* order of the batch.                                                     *)
(***************************************************************************)
EXTENDS Integers, SequencesExt, SequenceLoops

Least(m, n) == IF m < n THEN m ELSE n

(* A request with something left to process: the rest of its prompt, or    *)
(* the position of the token it generated last.                            *)
HasWork(q) ==
  \/ q.stage = "Prefill" /\ q.prefill_position < q.prompt_length
  \/ q.stage = "Decode" /\ q.decoded_count > 0

(* The work item for such a request: at most chunk tokens of its prompt.   *)
WorkFor(id, q, chunk) ==
  LET position == q.prompt_length + q.decoded_count - 1
  IN  IF q.stage = "Prefill"
      THEN [id |-> id, kind |-> "Prefill", begin |-> q.prefill_position,
            end |-> Least(q.prompt_length, q.prefill_position + chunk)]
      ELSE [id |-> id, kind |-> "Decode", begin |-> position, end |-> position + 1]

(* The tokens of that item, if all of them may be processed.               *)
Demand(q) == IF q.stage = "Prefill" THEN q.prompt_length - q.prefill_position ELSE 1

Items(order, states, chunk) ==
  [i \in DOMAIN order |-> WorkFor(order[i], states[order[i]], chunk)]

(* The tokens of a plan, which a policy and validate_plan count.           *)
Cost(work) == Tally(work)

(* The list in the order of First, a set of pairs of its places.           *)
Sorted(s, First) ==
  LET rank(i) == 1 + Cardinality({j \in DOMAIN s : <<j, i>> \in First})
  IN  [k \in DOMAIN s |-> s[CHOOSE i \in DOMAIN s : rank(i) = k]]

(* std::stable_sort: elements neither of which goes first keep their order.*)
StableSort(s, Before(_, _)) ==
  Sorted(s, {p \in (DOMAIN s) \X (DOMAIN s) :
               \/ Before(s[p[1]], s[p[2]])
               \/ p[1] < p[2] /\ ~Before(s[p[2]], s[p[1]])})
=============================================================================
