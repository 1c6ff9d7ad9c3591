----------------------------- MODULE MCSession ------------------------------
(* Session with small amounts of work in a phase.                          *)
EXTENDS Session

(* Every phase has something to do; scans go on for any number of windows. *)
MCSomeWork == [p \in Working |-> 1]

(* Nothing to do but what is on the queue.                                 *)
MCLongQueue == [p \in Working |-> IF p = "propagate" THEN 8 ELSE 0]
=============================================================================
