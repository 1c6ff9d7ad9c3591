--------------------------- MODULE MCCopyPipeline ---------------------------
(* Three or four candidates, one of them labelled.                         *)
EXTENDS CopyPipeline

CONSTANTS a, b, c, d

MCKeys3 == {a, b, c}
MCKeys4 == {a, b, c, d}
MCUIDs4 == 1 .. 4
MCWindow3 == {[uid |-> 1, key |-> a], [uid |-> 2, key |-> b], [uid |-> 3, key |-> c]}
MCWindow4 == MCWindow3 \cup {[uid |-> 4, key |-> d]}
MCLabelled == {a}
=============================================================================
