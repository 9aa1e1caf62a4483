----------------------------- MODULE MCInFlight -----------------------------
(* A small instance of InFlight.                                           *)
EXTENDS InFlight

CONSTANTS m1, m2, r1, r2
=============================================================================
