-------------------------- MODULE RequestLifecycle --------------------------
(***************************************************************************)
(* What the runtime promises the caller of Scheduler::submit, whatever the *)
(* threads and channels between them do: requests are taken up in the      *)
(* order they came, each ends once, and one that ends without an error has *)
(* been answered in full.  A drain gives every request that has not ended  *)
(* its cause, and ends at once those that nobody has taken up yet.         *)
(***************************************************************************)
EXTENDS Integers, Sequences

CONSTANTS
  Requests,
  MaxOutput,  \* the tokens each request asks for
  Natural,    \* those that may end with fewer
  Errors      \* what a request may end with, besides "None"

VARIABLES
  waiting,   \* the requests that are neither served nor refused yet
  phase,     \* new, waiting, serving or ended
  tokens,    \* how many tokens of its answer each request has
  verdict,   \* the error each request will end with, or has ended with
  draining

vars == <<waiting, phase, tokens, verdict, draining>>

First(old, new) == IF old = "None" THEN new ELSE old

Init ==
  /\ waiting = << >> /\ draining = FALSE
  /\ phase = [r \in Requests |-> "new"]
  /\ tokens = [r \in Requests |-> 0]
  /\ verdict = [r \in Requests |-> "None"]

Submit(r) ==
  /\ phase[r] = "new"
  /\ phase' = [phase EXCEPT ![r] = "waiting"]
  /\ waiting' = Append(waiting, r)
  /\ UNCHANGED <<tokens, verdict, draining>>

(* The request that has waited longest is taken up.                        *)
Serve ==
  /\ waiting # << >>
  /\ draining => verdict[Head(waiting)] # "None"
  /\ phase' = [phase EXCEPT ![Head(waiting)] = "serving"]
  /\ waiting' = Tail(waiting)
  /\ UNCHANGED <<tokens, verdict, draining>>

Refuse ==
  /\ waiting # << >>
  /\ phase' = [phase EXCEPT ![Head(waiting)] = "ended"]
  /\ waiting' = Tail(waiting)
  /\ \E error \in Errors :
       verdict' = [verdict EXCEPT ![Head(waiting)] = First(@, error)]
  /\ UNCHANGED <<tokens, draining>>

Generate(r) ==
  /\ phase[r] = "serving" /\ tokens[r] < MaxOutput[r]
  /\ tokens' = [tokens EXCEPT ![r] = @ + 1]
  /\ UNCHANGED <<waiting, phase, verdict, draining>>

Answered(r) == tokens[r] = MaxOutput[r] \/ (r \in Natural /\ tokens[r] > 0)

End(r) ==
  /\ phase[r] = "serving"
  /\ verdict[r] # "None" \/ Answered(r)
  /\ phase' = [phase EXCEPT ![r] = "ended"]
  /\ UNCHANGED <<waiting, tokens, verdict, draining>>

(* The first kept of those waiting are about to be served or refused.      *)
Drain ==
  /\ ~draining /\ draining' = TRUE
  /\ \E error \in Errors, kept \in 0 .. Len(waiting) :
       LET flushed == {waiting[i] : i \in kept + 1 .. Len(waiting)}
       IN  /\ waiting' = SubSeq(waiting, 1, kept)
           /\ phase' = [r \in Requests |-> IF r \in flushed THEN "ended" ELSE phase[r]]
           /\ verdict' = [r \in Requests |-> IF phase[r] \in {"waiting", "serving"}
                                             THEN First(verdict[r], error) ELSE verdict[r]]
  /\ UNCHANGED tokens

Next ==
  \/ Serve \/ Refuse \/ Drain
  \/ \E r \in Requests : Submit(r) \/ Generate(r) \/ End(r)

Spec == Init /\ [][Next]_vars
=============================================================================
