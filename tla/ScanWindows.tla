---------------------------- MODULE ScanWindows -----------------------------
(***************************************************************************)
(* The window arithmetic of scanWindows (internal/reconcile/reconcile.go), *)
(* with the wrap-around of Go's uint32: Modulus stands for 2^32.  A window *)
(* is handed to the callback, which commits stop as the high-water mark.   *)
(***************************************************************************)
EXTENDS Integers

CONSTANTS
    Modulus,     \* 2^32, scaled down
    UIDBatch,    \* Options.UIDBatch, a Go int
    MayWrap      \* do scans whose last window passes the top of uint32 count?

ASSUME ScanAssumption ==
    /\ Modulus \in Nat \ {0}
    /\ UIDBatch \in Nat \ {0}
    /\ MayWrap \in BOOLEAN

VARIABLES
    first, uidNext, \* the arguments
    start,          \* the loop variable
    mark,           \* stop of the last window handed to the callback
    seen,           \* UIDs fetched
    again,          \* UIDs fetched in two windows
    running

vars == <<first, uidNext, start, mark, seen, again, running>>

Uint32 == 0 .. Modulus - 1

(* uint32(r.opts.UIDBatch)                                                 *)
batch == UIDBatch % Modulus

(* Mutant of Stop: one UID too many, shared with the next window.          *)
StopOverlaps == LET top == (start + batch) % Modulus
                IN  IF top < uidNext - 1 THEN top ELSE uidNext - 1

(* stop := min(start+batch-1, uidNext-1)                                   *)
Stop == LET top == (start + batch - 1) % Modulus
        IN  IF top < uidNext - 1 THEN top ELSE uidNext - 1

(* The UIDs of an IMAP range: 0 is written "*", and either end may be the  *)
(* lower one.                                                              *)
UIDRange(from, to) ==
    IF to = 0 THEN {u \in Uint32 : from <= u /\ u < uidNext}
    ELSE {u \in Uint32 : (from <= u /\ u <= to) \/ (to <= u /\ u <= from)}

(* The type of every variable: machine words and sets of them.             *)
TypeOK ==
    /\ first \in Uint32 /\ uidNext \in Uint32
    /\ start \in Uint32 /\ mark \in Uint32
    /\ seen \subseteq Uint32 /\ again \subseteq Uint32
    /\ running \in BOOLEAN

(* UIDs start at 1; lastUID+1 is at most uidNext when a mark is current.   *)
Init ==
    /\ uidNext \in 1 .. Modulus - 1
    /\ first \in 1 .. uidNext
    /\ MayWrap \/ uidNext + UIDBatch <= Modulus
    /\ start = first
    /\ mark = first - 1
    /\ seen = {} /\ again = {}
    /\ running = TRUE

(* start += batch.  Mutant: advanced by the body as well as by the loop.   *)
NextStartTwice == start + batch + batch
NextStart == (start + batch) % Modulus

ScanWindow ==
    /\ running
    /\ start < uidNext
    /\ LET uids == UIDRange(start, Stop)
       IN  /\ seen' = seen \cup uids
           /\ again' = again \cup (seen \cap uids)
    /\ mark' = Stop
    /\ start' = NextStart
    /\ UNCHANGED <<first, uidNext, running>>

ScanDone ==
    /\ running
    /\ start >= uidNext
    /\ running' = FALSE
    /\ UNCHANGED <<first, uidNext, start, mark, seen, again>>

Stopped == ~running /\ UNCHANGED vars

Next == ScanWindow \/ ScanDone \/ Stopped

Spec == Init /\ [][Next]_vars

-----------------------------------------------------------------------------
(* A committed mark tells exactly what was fetched: all UIDs from first up *)
(* to it, each in one window, none above it; and a finished scan has       *)
(* fetched all of [first, uidNext-1] (reconcile.go:223-224).               *)
ScannedUpToMark ==
    /\ seen = first .. mark
    /\ again = {}
    /\ ~running => mark = uidNext - 1
=============================================================================
