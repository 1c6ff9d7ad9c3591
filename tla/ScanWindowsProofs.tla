------------------------- MODULE ScanWindowsProofs --------------------------
(***************************************************************************)
(* For every word size, batch size and mailbox whose last window does not  *)
(* pass the top of the word, the scan fetches every UID exactly once and   *)
(* its marks tell the truth.                                               *)
(***************************************************************************)
EXTENDS ScanWindows, TLAPS

(* The next window starts right after the mark until the mark is complete. *)
ScanInv ==
    /\ uidNext \in 1 .. Modulus - 1
    /\ first \in 1 .. uidNext
    /\ uidNext + UIDBatch <= Modulus
    /\ start \in first .. Modulus - 1
    /\ mark \in first - 1 .. uidNext - 1
    /\ start < uidNext => start = mark + 1
    /\ start >= uidNext => mark = uidNext - 1
    /\ running \in BOOLEAN
    /\ ~running => start >= uidNext
    /\ seen = first .. mark
    /\ again = {}

(* Within the word the remainder changes nothing.                          *)
LEMMA ModSmall ==
    ASSUME NEW m \in Nat \ {0}, NEW n \in 0 .. m - 1
    PROVE  n % m = n
  OBVIOUS

(* A window does not wrap: it is [start, Stop], of at most UIDBatch UIDs.  *)
LEMMA WindowFacts ==
    ASSUME ScanInv, start < uidNext
    PROVE  /\ Stop \in start .. uidNext - 1
           /\ Stop <= start + UIDBatch - 1
           /\ start + UIDBatch >= uidNext => Stop = uidNext - 1
           /\ start + UIDBatch < uidNext => Stop = start + UIDBatch - 1
           /\ UIDRange(start, Stop) = start .. Stop
           /\ NextStart = start + UIDBatch
<1> USE ScanAssumption
<1>1. batch = UIDBatch
  BY ModSmall DEF ScanInv, batch
<1>2. (start + batch) % Modulus = start + UIDBatch
  <2>1. start + UIDBatch \in 0 .. Modulus - 1
    BY DEF ScanInv
  <2>2. QED
    BY <1>1, <2>1, ModSmall
<1>3. (start + batch - 1) % Modulus = start + UIDBatch - 1
  BY <1>1, ModSmall DEF ScanInv
<1>4. /\ Stop \in start .. uidNext - 1
      /\ Stop <= start + UIDBatch - 1
      /\ start + UIDBatch < uidNext => Stop = start + UIDBatch - 1
      /\ start + UIDBatch >= uidNext => Stop = uidNext - 1
  BY <1>3 DEF Stop, ScanInv
<1>5. UIDRange(start, Stop) = start .. Stop
  <2>1. Stop # 0 /\ start \in Nat /\ Stop \in Nat /\ start <= Stop /\ Stop < Modulus
    BY <1>4 DEF ScanInv
  <2>2. UIDRange(start, Stop) =
            {u \in Uint32 : (start <= u /\ u <= Stop) \/ (Stop <= u /\ u <= start)}
    BY <2>1 DEF UIDRange
  <2> HIDE DEF Stop
  <2>3. QED
    BY <2>1, <2>2 DEF Uint32
<1>6. QED
  BY <1>2, <1>4, <1>5 DEF NextStart

(* One window appends [start, Stop] to what was seen.                      *)
LEMMA WindowInv ==
    ASSUME ScanInv, ScanWindow
    PROVE  ScanInv'
<1> USE ScanAssumption
<1>1. /\ Stop \in start .. uidNext - 1
      /\ start + UIDBatch < uidNext => Stop = start + UIDBatch - 1
      /\ start + UIDBatch >= uidNext => Stop = uidNext - 1
      /\ UIDRange(start, Stop) = start .. Stop
      /\ NextStart = start + UIDBatch
  BY WindowFacts DEF ScanWindow
<1>2. start = mark + 1
  BY DEF ScanInv, ScanWindow
<1>3. seen' = first .. Stop /\ again' = {}
  BY <1>1, <1>2 DEF ScanInv, ScanWindow
<1>4. mark' = Stop /\ start' = start + UIDBatch /\ running /\ UNCHANGED <<first, uidNext, running>>
  BY <1>1 DEF ScanWindow
<1>5. start < uidNext
  BY DEF ScanWindow
<1>6. QED
  BY <1>1, <1>3, <1>4, <1>5 DEF ScanInv

(* The end of the scan and stuttering change none of this.                 *)
LEMMA DoneInv ==
    ASSUME ScanInv, ScanDone \/ Stopped \/ UNCHANGED vars
    PROVE  ScanInv'
<1>1. CASE ScanDone
  BY <1>1 DEF ScanInv, ScanDone
<1>2. CASE Stopped \/ UNCHANGED vars
  BY <1>2 DEF ScanInv, Stopped, vars
<1>3. QED
  BY <1>1, <1>2

(* Where it starts, provided the last window cannot wrap.                  *)
LEMMA InitInv ==
    ASSUME MayWrap = FALSE, Init
    PROVE  ScanInv
  BY ScanAssumption DEF Init, ScanInv

(* While the last window stays below the top of uint32, marks are exact    *)
(* and a finished scan has fetched [first, uidNext-1] once.                *)
THEOREM ScanCorrect ==
    ASSUME MayWrap = FALSE
    PROVE  Spec => []ScannedUpToMark
<1>1. Init => ScanInv
  BY InitInv, MayWrap = FALSE
<1>2. ScanInv /\ [Next]_vars => ScanInv'
  BY WindowInv, DoneInv DEF Next
<1>3. ScanInv => ScannedUpToMark
  BY DEF ScanInv, ScannedUpToMark
<1>4. QED
  BY <1>1, <1>2, <1>3, PTL DEF Spec
=============================================================================
