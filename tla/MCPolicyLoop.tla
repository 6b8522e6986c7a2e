---------------------------- MODULE MCPolicyLoop ----------------------------
(* Small instances of the policies' loop.                                  *)
EXTENDS PolicyLoop

(* A long prompt with a short answer, and the reverse.                     *)
MCShapes == {[prompt |-> 2, output |-> 1], [prompt |-> 1, output |-> 2]}
=============================================================================
