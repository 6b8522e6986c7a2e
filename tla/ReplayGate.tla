----------------------------- MODULE ReplayGate -----------------------------
(***************************************************************************)
(* src/src/benchmark/replay.cpp: which records of the trace are replayed,  *)
(* and when each is due.                                                   *)
(***************************************************************************)
EXTENDS Integers, Sequences, FiniteSets

CONSTANTS
  Trace,           \* the records: [conversation, turn, offset], by offset
  NoConversation,  \* the conversation_id of a record without one
  MaxRequests,     \* limits.max_requests
  MaxDuration,     \* limits.trace_duration_ns
  Second,          \* the clock's ticks in a second: 10^9 in the code
  TargetQps        \* target_qps, an integer here

Conversations == {Trace[i].conversation : i \in DOMAIN Trace} \ {NoConversation}

(* select_prefix *)
SelectedCount ==
  Cardinality({n \in DOMAIN Trace :
    n <= MaxRequests /\ \A i \in 1 .. n : Trace[i].offset <= MaxDuration})

Selected == 1 .. SelectedCount
FinalOffset == Trace[SelectedCount].offset

(* The traces that select_prefix accepts, sorted by offset as the trace    *)
(* format demands, whose conversations have every turn, in order: a turn   *)
(* that comes before its predecessor, or without one, is never due.        *)
ASSUME TraceAssumption ==
  /\ Trace \in Seq([conversation : Conversations \cup {NoConversation},
                    turn : Nat, offset : Nat])
  /\ SelectedCount > 0 /\ (SelectedCount >= 2 => FinalOffset > 0)
  /\ Second \in Nat \ {0} /\ TargetQps \in Nat \ {0}
  /\ \A i, j \in DOMAIN Trace : i < j => Trace[i].offset <= Trace[j].offset
  /\ \A i \in DOMAIN Trace :
       Trace[i].conversation # NoConversation =>
         Trace[i].turn = Cardinality({j \in 1 .. i - 1 :
                           Trace[j].conversation = Trace[i].conversation})

(* round_ties_even of n / d *)
RoundTiesEven(n, d) ==
  LET floor == n \div d
      twice == 2 * (n % d)
  IN  IF twice > d \/ (twice = d /\ floor % 2 = 1) THEN floor + 1 ELSE floor

(* scale_deadline_ns: when record i is due by the trace's own timing.      *)
Nominal(i) ==
  IF SelectedCount = 1 THEN 0
  ELSE RoundTiesEven(Trace[i].offset * (SelectedCount - 1) * Second,
                     FinalOffset * TargetQps)

(* CausalReplayGate::deadline_ns, as the set of the one deadline, if any.  *)
(* A turn keeps the trace's distance from the end of the turn before it.   *)
CausalDeadline_AnyTurn(i, completed, finished_at) ==
  LET previous == completed[Trace[i].conversation]
  IN  IF Trace[i].conversation = NoConversation \/ Trace[i].turn = 0
      THEN {Nominal(i)}
      ELSE {finished_at[j] + Nominal(i) - Nominal(j) : j \in previous}

CausalDeadline(i, completed, finished_at) ==
  IF Trace[i].conversation = NoConversation \/ Trace[i].turn = 0
  THEN {Nominal(i)}
  ELSE {finished_at[j] + Nominal(i) - Nominal(j) :
          j \in {k \in completed[Trace[i].conversation] :
                   Trace[k].turn + 1 = Trace[i].turn}}

(* CausalReplayGate::complete: the last record of its conversation.        *)
Completed(completed, i) ==
  [c \in Conversations |-> IF c = Trace[i].conversation THEN {i} ELSE completed[c]]
=============================================================================
