---------------------------- MODULE MCQuickServe ----------------------------
(* Small instances of the composed system.                                 *)
EXTENDS QuickServe

CONSTANTS r1, r2, r3, r4, a, b, c1, c2, c3

TwoRequests == {r1, r2}
ThreeRequests == {r1, r2, r3}
FourRequests == {r1, r2, r3, r4}

(* A prompt of two tokens with one token of output, and the reverse.       *)
MixedPrompt == [r \in Requests |-> IF r = r1 THEN <<a, a>> ELSE <<a>>]
MixedOutput == [r \in Requests |-> IF r = r1 THEN 1 ELSE 2]

(* The shortest request there is.                                          *)
ShortPrompt == [r \in Requests |-> <<a>>]

(* One that asks for no output at all, and one whose prompt is too long.   *)
PressurePrompt == [r \in Requests |-> IF r = r3 THEN <<a, a>> ELSE <<a>>]
PressureOutput == [r \in Requests |-> IF r = r2 THEN 0 ELSE 1]

(* Two conversations, a third that starts with the tokens of the first,    *)
(* and a second turn of the first.                                         *)
TurnPrompt == [r \in Requests |-> CASE r = r1 -> <<a>>
                                    [] r = r2 -> <<b>>
                                    [] r = r3 -> <<a, b>>
                                    [] r = r4 -> <<a, a>>]
TurnConversation == [r \in Requests |-> CASE r \in {r1, r4} -> c1
                                          [] r = r2 -> c2
                                          [] r = r3 -> c3]

OneOutput == [r \in Requests |-> 1]
NoConversations == [r \in Requests |-> NoConversation]

NoRoguePlans == {}

(* What a broken policy might return for r1: nothing, work that starts too *)
(* late, the same request twice, or more than the token budget.            *)
Prefill(begin, end) ==
  [id |-> r1, kind |-> "Prefill", begin |-> begin, end |-> end]
BadPlans == {<< >>, <<Prefill(1, 2)>>, <<Prefill(0, 1), Prefill(0, 1)>>,
             <<Prefill(0, 3)>>}
=============================================================================
