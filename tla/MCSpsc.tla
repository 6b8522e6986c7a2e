------------------------------- MODULE MCSpsc -------------------------------
(* Small instances of the ring: Modulus wraps after a few pushes.          *)
EXTENDS Spsc

CONSTANTS v1, v2

MCValues == {v1, v2}
=============================================================================
