---------------------------- MODULE MCReconcile -----------------------------
(* Model values and bounds for Reconcile.                                  *)
EXTENDS Reconcile

CONSTANTS a, b, s      \* two real Message-IDs and one synthesized key

MCKeys2 == {a, s}
MCKeys3 == {a, b, s}
MCReal1 == {a}
MCReal2 == {a, b}
MCUIDs2 == 1 .. 2
MCUIDs3 == 1 .. 3
=============================================================================
