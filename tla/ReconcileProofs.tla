-------------------------- MODULE ReconcileProofs ---------------------------
(***************************************************************************)
(* Proofs about Reconcile, for every set of keys, window size, ring and    *)
(* flush limit, seed mode and guard setting, and every pattern of faults.  *)
(*                                                                         *)
(* The inductive invariant has four parts, proved one after the other:     *)
(* PhaseInv ties the pipeline's state to the program counter, StoreInv     *)
(* keeps the store behind the destination, MarkInv keeps the high-water    *)
(* mark behind the mirrored mail, DupInv keeps APPENDs away from messages  *)
(* the destination already holds.                                          *)
(***************************************************************************)
EXTENDS Reconcile, WellFoundedInduction, TLAPS

(* Outside the copy phase nothing is in flight, outside a window there are *)
(* no candidates; a pipeline that returned nil has settled everything.     *)
PhaseInv ==
    /\ pc # "copy" => flight = {} /\ records = {}
    /\ pc \notin {"guard", "copy"} => pend = {} /\ outcome = "ok"
    /\ pc = "guard" => outcome = "running"
    /\ outcome = "ok" => pend = {} /\ flight = {} /\ records = {}
    /\ pc # "seed" => unseeded = {}

(* Whatever the store, its disk image or the record buffer knows of, or    *)
(* seeding is about to tell them, is at the destination.                   *)
StoreInv ==
    copied \cup disk.copied \cup records \cup landed \cup unseeded \subseteq Present

(* A mark of the current numbering covers only mirrored mail.              *)
GoodMark(validity, mark, keys) ==
    /\ validity <= srcValidity
    /\ validity = srcValidity =>
          /\ mark < srcUidNext
          /\ \A u \in Mailbox : u <= mark => src[u] \in keys \cup missed

Scanning == {"window", "guard", "copy", "commit"}
InWindow == {"guard", "copy", "commit"}

(* Both the store and its disk image carry good marks; the scan continues  *)
(* where the mark ends and loses no message of the window it is in.        *)
MarkInv ==
    /\ \A u \in Mailbox : u < srcUidNext
    /\ GoodMark(uidValidity, lastUID, copied)
    /\ GoodMark(disk.uidValidity, disk.lastUID, disk.copied)
    /\ pc \in Scanning \cup {"reset", "adopt"} => uidNext <= srcUidNext
    /\ pc = "adopt" => lastUID = 0
    /\ pc \in Scanning => uidValidity = srcValidity
    /\ pc \in Scanning => (start < uidNext => start = lastUID + 1)
    /\ pc \in InWindow => start < uidNext /\ stop = WindowStop
    /\ pc \in InWindow /\ outcome \in {"running", "ok"} =>
          \A u \in Mailbox : start <= u /\ u <= stop =>
              src[u] \in copied \cup records \cup flight \cup KeysOf(pend) \cup missed

(* Candidates are distinct and not in flight; a protected key that is      *)
(* going to be stored is not at the destination yet; with a seed in every  *)
(* session the store knows the whole destination while one is up.          *)
DupInv ==
    /\ \A c, d \in pend : c.key = d.key => c = d
    /\ KeysOf(pend) \cap flight = {}
    /\ pc = "guard" => KeysOf(pend) \cap copied = {}
    /\ \A k \in Protected : dest[k] <= 1
    /\ \A k \in Protected :
          pc = "copy" /\ k \in KeysOf(pend) \cup (flight \ landed) => dest[k] = 0
    /\ \A k \in Protected : k \in limbo => dest[k] = 0
    /\ ~LateAppends /\ pc # "down" => limbo = {}
    /\ ~LateAppends /\ SeedMode = "always" =>
          /\ pc = "seed" => Present \subseteq copied \cup unseeded
          /\ pc \notin {"down", "seed"} => Present \subseteq copied \cup records \cup landed
-----------------------------------------------------------------------------
(* The window's last UID is a UID whenever there is a window.              *)
LEMMA WindowStopType ==
    ASSUME TypeOK, start < uidNext
    PROVE  WindowStop \in 0 .. MaxUID /\ (start > 0 => start <= WindowStop)
  BY ReconcileAssumption DEF TypeOK, WindowStop

(* Every step of the copy phase keeps the pipeline's variables well typed. *)
LEMMA CopyType ==
    ASSUME CopyTypeOK, CopyStep
    PROVE  CopyTypeOK'
<1> USE CopyAssumption DEF CopyTypeOK, Outcomes
<1>1. CASE \E c \in pend : Send(c) \/ SendFails(c) \/ Skip(c)
  BY <1>1 DEF Send, SendFails, Skip, MaySend, Candidates
<1>2. CASE \E k \in flight : Land(k)
  BY <1>2 DEF Land, AddCopy
<1>3. CASE \E k \in flight : Confirm(k) \/ Refuse(k)
  BY <1>3 DEF Confirm, Answered, Refuse
<1>4. CASE StreamFails \/ AppendSideFails \/ FlushRecords \/ ReturnOk \/ ReturnError
  BY <1>4 DEF StreamFails, AppendSideFails, FlushRecords, ReturnOk, ReturnError
<1>5. QED
  BY <1>1, <1>2, <1>3, <1>4 DEF CopyStep

(* The copy phase of a pass is made of the steps of WindowCopy.            *)
LEMMA CopyPhaseSteps ==
    ASSUME SkipGone \/ CopyProgress \/ CopyFault
    PROVE  /\ CopyStep
           /\ pc = "copy"
           /\ UNCHANGED <<mailVars, metaVars, disk, limbo, pc, unseeded, scanVars>>
  BY DEF SkipGone, CopyProgress, CopyFault, CopyStep

(* The types hold initially.                                               *)
LEMMA InitType == Init => TypeOK
  BY CopyAssumption, ReconcileAssumption
  DEF Init, TypeOK, CopyTypeOK, Outcomes, Phases, StoreType, EmptyStore, Candidates

(* A renumbered mailbox is well formed and ends below its UIDNEXT.         *)
LEMMA RenumberFacts ==
    ASSUME TypeOK, Renumber
    PROVE  /\ pc \in Unselected
           /\ srcValidity' = srcValidity + 1
           /\ srcValidity' \in 1 .. MaxValidity
           /\ src' \in [UIDs -> Keys \cup {NoMail}]
           /\ srcUidNext' \in 1 .. MaxUID + 1
           /\ \A u \in UIDs : src'[u] # NoMail => u < srcUidNext'
           /\ UNCHANGED <<copyVars, metaVars, disk, limbo, pc, unseeded, scanVars, missed>>
<1> USE ReconcileAssumption
<1>1. PICK n \in 0 .. MaxUID : \E f \in Bijection(1 .. n, Mailbox) :
          /\ src' = [u \in UIDs |-> IF u <= n THEN src[f[u]] ELSE NoMail]
          /\ srcUidNext' = n + 1
  BY DEF Renumber
<1>2. PICK f \in [1 .. n -> Mailbox] :
          src' = [u \in UIDs |-> IF u <= n THEN src[f[u]] ELSE NoMail]
  BY <1>1 DEF Bijection, Injection
<1>3. \A u \in UIDs : u <= n => f[u] \in Mailbox
  BY <1>2
<1>4. \A u \in Mailbox : src[u] \in Keys
  BY DEF TypeOK, Mailbox
<1>5. src' \in [UIDs -> Keys \cup {NoMail}]
  BY <1>2, <1>3, <1>4
<1>6. \A u \in UIDs : src'[u] # NoMail => u < srcUidNext'
  BY <1>1, <1>2
<1>7. srcUidNext' \in 1 .. MaxUID + 1
  BY <1>1
<1>8. srcValidity' = srcValidity + 1 /\ srcValidity' \in 1 .. MaxValidity
  <2>1. srcValidity' = srcValidity + 1 /\ srcValidity < MaxValidity
    BY DEF Renumber
  <2>2. QED
    BY <2>1 DEF TypeOK
<1>9. QED
  BY <1>5, <1>6, <1>7, <1>8 DEF Renumber

(* Every step keeps the types.                                             *)
LEMMA NextType ==
    ASSUME TypeOK, [Next]_vars
    PROVE  TypeOK'
<1> USE CopyAssumption, ReconcileAssumption
<1>1. CASE Connect
  BY <1>1 DEF Connect, TypeOK, CopyTypeOK, copyVars, mailVars, metaVars, scanVars, Phases, Present
<1>2. CASE SeedWindow
  BY <1>2 DEF SeedWindow, TypeOK, CopyTypeOK, mailVars, metaVars, scanVars
<1>3. CASE SeedDone
  BY <1>3 DEF SeedDone, TypeOK, CopyTypeOK, copyVars, mailVars, metaVars, scanVars, Phases
<1>4. CASE Wake
  BY <1>4 DEF Wake, TypeOK, CopyTypeOK, copyVars, mailVars, metaVars, scanVars, Phases
<1>5. CASE SelectFolder
  BY <1>5 DEF SelectFolder, TypeOK, CopyTypeOK, copyVars, mailVars, metaVars, Phases
<1>6. CASE ResetMark
  BY <1>6 DEF ResetMark, TypeOK, CopyTypeOK, copyVars, mailVars, scanVars, Phases
<1>7. CASE AdoptValidity
  BY <1>7 DEF AdoptValidity, TypeOK, CopyTypeOK, copyVars, mailVars, Phases
<1>8. CASE OpenWindow
  <2>1. stop' \in 0 .. MaxUID
    BY <1>8, WindowStopType DEF OpenWindow
  <2>2. pend' \subseteq Candidates
    BY <1>8 DEF OpenWindow, Classify, Candidates, Mailbox
  <2>3. QED
    BY <1>8, <2>1, <2>2 DEF OpenWindow, TypeOK, CopyTypeOK, Outcomes, mailVars, metaVars, Phases
<1>9. CASE Guard
  BY <1>9 DEF Guard, Found, TypeOK, CopyTypeOK, Outcomes, mailVars, metaVars, scanVars, Phases
<1>10. CASE SkipGone \/ CopyProgress \/ CopyFault
  <2>1. CopyTypeOK'
    BY <1>10, CopyPhaseSteps, CopyType DEF TypeOK
  <2>2. missed' \subseteq Keys
    BY <1>10 DEF SkipGone, CopyProgress, CopyFault, TypeOK, CopyTypeOK, Candidates
  <2>3. QED
    BY <1>10, <2>1, <2>2, CopyPhaseSteps DEF TypeOK, mailVars, metaVars, scanVars
<1>11. CASE CopyReturned
  BY <1>11 DEF CopyReturned, TypeOK, CopyTypeOK, Outcomes, mailVars, metaVars, scanVars, Phases
<1>12. CASE CopyAborted \/ Crash
  BY <1>12 DEF CopyAborted, Crash, EndSession, TypeOK, CopyTypeOK, Outcomes, mailVars, metaVars, Phases
<1>13. CASE CommitWindow
  BY <1>13 DEF CommitWindow, NextStart, TypeOK, CopyTypeOK, copyVars, mailVars, Phases
<1>14. CASE PassDone
  BY <1>14 DEF PassDone, TypeOK, CopyTypeOK, copyVars, mailVars, metaVars, Phases
<1>15. CASE PowerLoss
  BY <1>15 DEF PowerLoss, EndSession, TypeOK, CopyTypeOK, Outcomes, mailVars, Phases, StoreType
<1>16. CASE LoseState
  BY <1>16 DEF LoseState, EmptyStore, TypeOK, CopyTypeOK, mailVars, scanVars, StoreType
<1>17. CASE Checkpoint
  BY <1>17 DEF Checkpoint, Store, TypeOK, CopyTypeOK, copyVars, mailVars, metaVars, scanVars, StoreType
<1>18. CASE LimboLand
  BY <1>18 DEF LimboLand, AddCopy, TypeOK, CopyTypeOK, mailVars, metaVars, scanVars
<1>19. CASE LimboDrop
  BY <1>19 DEF LimboDrop, TypeOK, CopyTypeOK, copyVars, mailVars, metaVars, scanVars
<1>20. CASE Deliver
  BY <1>20 DEF Deliver, TypeOK, CopyTypeOK, copyVars, metaVars, scanVars
<1>21. CASE Expunge
  BY <1>21 DEF Expunge, Mailbox, TypeOK, CopyTypeOK, copyVars, metaVars, scanVars
<1>22. CASE Renumber
  BY <1>22, RenumberFacts DEF TypeOK, CopyTypeOK, copyVars, metaVars, scanVars
<1>23. CASE UNCHANGED vars
  BY <1>23 DEF vars, TypeOK, CopyTypeOK, copyVars, mailVars, metaVars, scanVars
<1>24. QED
  BY <1>1, <1>2, <1>3, <1>4, <1>5, <1>6, <1>7, <1>8, <1>9, <1>10, <1>11, <1>12,
     <1>13, <1>14, <1>15, <1>16, <1>17, <1>18, <1>19, <1>20, <1>21, <1>22, <1>23
  DEF Next, Program, Fault, Environment

(* Every variable keeps its type, the high-water mark stays among the      *)
(* source's UIDs, and the store's disk image is always a well-formed store.*)
THEOREM TypeCorrect == Spec => []TypeOK
<1>1. Init => TypeOK
  BY InitType
<1>2. TypeOK /\ [Next]_vars => TypeOK'
  BY NextType
<1>3. QED
  BY <1>1, <1>2, PTL DEF Spec

-----------------------------------------------------------------------------
(* The phase invariant holds initially.                                    *)
LEMMA InitPhase == Init => PhaseInv
  BY DEF Init, PhaseInv

(* The steps of a window's copy keep the phase invariant.                  *)
LEMMA CopyPhaseInv ==
    ASSUME TypeOK, PhaseInv, SkipGone \/ CopyProgress \/ CopyFault
    PROVE  PhaseInv'
<1> USE CopyPhaseSteps DEF PhaseInv
<1>1. CASE \E c \in pend : Send(c) \/ SendFails(c) \/ Skip(c)
  BY <1>1 DEF Send, SendFails, Skip, MaySend, Appending
<1>2. CASE \E k \in flight : Land(k) \/ Confirm(k) \/ Refuse(k)
  BY <1>2 DEF Land, Confirm, Refuse, Appending
<1>3. CASE StreamFails \/ AppendSideFails \/ FlushRecords \/ ReturnOk \/ ReturnError
  BY <1>3 DEF StreamFails, AppendSideFails, FlushRecords, ReturnOk, ReturnError, Appending
<1>4. QED
  BY <1>1, <1>2, <1>3 DEF CopyStep

(* Every step keeps the phase invariant.                                   *)
LEMMA NextPhase ==
    ASSUME TypeOK, PhaseInv, [Next]_vars
    PROVE  PhaseInv'
<1> USE DEF PhaseInv
<1>1. CASE Connect \/ SeedWindow \/ SeedDone \/ Wake
  BY <1>1 DEF Connect, SeedWindow, SeedDone, Wake, copyVars
<1>2. CASE SelectFolder \/ ResetMark \/ AdoptValidity \/ CommitWindow \/ PassDone
  BY <1>2 DEF SelectFolder, ResetMark, AdoptValidity, CommitWindow, PassDone, copyVars
<1>3. CASE OpenWindow
  BY <1>3 DEF OpenWindow
<1>4. CASE Guard
  BY <1>4 DEF Guard
<1>5. CASE SkipGone \/ CopyProgress \/ CopyFault
  BY <1>5, CopyPhaseInv
<1>6. CASE CopyReturned
  BY <1>6 DEF CopyReturned, CopyOk
<1>7. CASE CopyAborted \/ Crash \/ PowerLoss
  BY <1>7 DEF CopyAborted, Crash, PowerLoss, EndSession
<1>8. CASE LoseState \/ Checkpoint \/ LimboLand \/ LimboDrop
  BY <1>8 DEF LoseState, Checkpoint, LimboLand, LimboDrop, copyVars
<1>9. CASE Deliver \/ Expunge \/ Renumber
  BY <1>9 DEF Deliver, Expunge, Renumber, copyVars
<1>10. CASE UNCHANGED vars
  BY <1>10 DEF vars, copyVars
<1>11. QED
  BY <1>1, <1>2, <1>3, <1>4, <1>5, <1>6, <1>7, <1>8, <1>9, <1>10
  DEF Next, Program, Fault, Environment

(* The phase invariant holds throughout.                                   *)
LEMMA PhaseCorrect == Spec => []PhaseInv
<1>1. TypeOK /\ PhaseInv /\ [Next]_vars => PhaseInv'
  BY NextPhase
<1>2. QED
  BY <1>1, InitPhase, TypeCorrect, PTL DEF Spec

-----------------------------------------------------------------------------
(* Storing a message never removes another one.                            *)
LEMMA AddCopyPresent ==
    ASSUME TypeOK, NEW k \in Keys, AddCopy(k)
    PROVE  Present' = Present \cup {k}
  BY CopyAssumption DEF TypeOK, CopyTypeOK, AddCopy, Present

(* The steps of a window's copy keep what is known of the store.           *)
LEMMA CopyStore ==
    ASSUME TypeOK, StoreInv, SkipGone \/ CopyProgress \/ CopyFault
    PROVE  StoreInv'
<1> USE CopyPhaseSteps DEF StoreInv
<1>1. CASE \E c \in pend : Send(c) \/ SendFails(c) \/ Skip(c)
  BY <1>1 DEF Send, SendFails, Skip, Present
<1>2. CASE \E k \in flight : Land(k)
  <2>1. PICK k \in flight : Land(k)
    BY <1>2
  <2>2. Present' = Present \cup {k}
    BY <2>1, AddCopyPresent DEF Land, TypeOK, CopyTypeOK
  <2>3. QED
    BY <2>1, <2>2 DEF Land
<1>3. CASE \E k \in flight : Confirm(k) \/ Refuse(k)
  BY <1>3 DEF Confirm, Answered, Refuse, Present
<1>4. CASE StreamFails \/ AppendSideFails \/ FlushRecords \/ ReturnOk \/ ReturnError
  BY <1>4 DEF StreamFails, AppendSideFails, FlushRecords, ReturnOk, ReturnError, Present
<1>5. QED
  BY <1>1, <1>2, <1>3, <1>4 DEF CopyStep

(* Every step keeps what is known of the store.                            *)
LEMMA NextStore ==
    ASSUME TypeOK, PhaseInv, StoreInv, [Next]_vars
    PROVE  StoreInv'
<1> USE DEF StoreInv
<1>1. CASE Connect \/ SeedWindow \/ SeedDone \/ Wake
  BY <1>1 DEF Connect, SeedWindow, SeedDone, Wake, copyVars, Present
<1>2. CASE SelectFolder \/ ResetMark \/ AdoptValidity \/ CommitWindow \/ PassDone
  BY <1>2 DEF SelectFolder, ResetMark, AdoptValidity, CommitWindow, PassDone, copyVars, Present
<1>3. CASE OpenWindow \/ Guard \/ CopyReturned
  BY <1>3 DEF OpenWindow, Guard, Found, CopyReturned, Present
<1>4. CASE SkipGone \/ CopyProgress \/ CopyFault
  BY <1>4, CopyStore
<1>5. CASE CopyAborted \/ Crash \/ PowerLoss
  BY <1>5 DEF CopyAborted, Crash, PowerLoss, EndSession, Present
<1>6. CASE LoseState
  BY <1>6 DEF LoseState, EmptyStore, Present
<1>7. CASE Checkpoint
  BY <1>7 DEF Checkpoint, Store, copyVars, Present
<1>8. CASE LimboLand
  <2>1. PICK k \in limbo : AddCopy(k)
    BY <1>8 DEF LimboLand
  <2>2. Present' = Present \cup {k}
    BY <2>1, AddCopyPresent DEF TypeOK
  <2>3. QED
    BY <1>8, <2>2 DEF LimboLand
<1>9. CASE LimboDrop \/ Deliver \/ Expunge \/ Renumber
  BY <1>9 DEF LimboDrop, Deliver, Expunge, Renumber, copyVars, Present
<1>10. CASE UNCHANGED vars
  BY <1>10 DEF vars, copyVars, Present
<1>11. QED
  BY <1>1, <1>2, <1>3, <1>4, <1>5, <1>6, <1>7, <1>8, <1>9, <1>10
  DEF Next, Program, Fault, Environment

(* The store and its disk image never know of a message the destination    *)
(* does not hold, whatever fails.                                          *)
THEOREM NeverAheadCorrect == Spec => []NeverAhead
<1>1. Init => StoreInv
  BY DEF Init, StoreInv, EmptyStore
<1>2. TypeOK /\ PhaseInv /\ StoreInv /\ [Next]_vars => StoreInv'
  BY NextStore
<1>3. StoreInv => NeverAhead
  BY DEF StoreInv, NeverAhead
<1>4. QED
  BY <1>1, <1>2, <1>3, TypeCorrect, PhaseCorrect, PTL DEF Spec

-----------------------------------------------------------------------------
(* The steps of a window's copy keep the mark sound.                       *)
LEMMA CopyMark ==
    ASSUME TypeOK, PhaseInv, MarkInv, SkipGone \/ CopyProgress \/ CopyFault
    PROVE  MarkInv'
<1>1. missed \subseteq missed'
  BY DEF SkipGone, CopyProgress, CopyFault
<1>2. copied \subseteq copied'
  BY CopyPhaseSteps DEF CopyStep, Send, SendFails, Skip, Land, Confirm, Refuse, StreamFails,
     AppendSideFails, FlushRecords, ReturnOk, ReturnError
<1>3. UNCHANGED <<src, srcValidity, srcUidNext, uidValidity, lastUID, disk, pc, uidNext, start, stop>>
  BY CopyPhaseSteps DEF mailVars, metaVars, scanVars
<1>4. outcome' \in {"running", "ok"} =>
          /\ outcome \in {"running", "ok"}
          /\ copied \cup records \cup flight \cup KeysOf(pend) \cup missed
                \subseteq (copied \cup records \cup flight \cup KeysOf(pend) \cup missed)'
  <2> SUFFICES ASSUME outcome' \in {"running", "ok"}
               PROVE  /\ outcome \in {"running", "ok"}
                      /\ copied \cup records \cup flight \cup KeysOf(pend) \cup missed
                            \subseteq (copied \cup records \cup flight \cup KeysOf(pend) \cup missed)'
    OBVIOUS
  <2>1. CASE SkipGone
    BY <1>1, <2>1 DEF SkipGone, Skip, KeysOf
  <2>2. CASE \E c \in pend : Send(c)
    BY <1>1, <2>2 DEF Send, KeysOf
  <2>3. CASE \E k \in flight : Land(k) \/ Confirm(k)
    BY <1>1, <2>3 DEF Land, Confirm, KeysOf
  <2>4. CASE FlushRecords \/ ReturnOk
    BY <1>1, <2>4 DEF FlushRecords, ReturnOk, KeysOf
  <2>5. CASE \/ ReturnError \/ StreamFails \/ AppendSideFails
             \/ (\E k \in flight : Refuse(k))
             \/ (\E c \in pend : SendFails(c))
    BY <2>5 DEF ReturnError, StreamFails, AppendSideFails, Refuse, SendFails
  <2>6. QED
    BY <2>1, <2>2, <2>3, <2>4, <2>5 DEF CopyProgress, CopyFault
<1>5. QED
  BY <1>1, <1>2, <1>3, <1>4 DEF MarkInv, GoodMark, Mailbox, WindowStop

(* Every nonempty set of naturals has a least element.                     *)
LEMMA LeastNat ==
    ASSUME NEW S \in SUBSET Nat, NEW v \in S
    PROVE  \E w \in S : \A u \in S : w <= u
<1> DEFINE R == OpToRel(<, Nat)
<1>1. \E w \in S : \A u \in S : ~(<<u, w>> \in R)
  BY NatLessThanWellFounded, WFMin
<1>2. \A u, w \in S : u < w => <<u, w>> \in R
  BY DEF OpToRel
<1> HIDE DEF R
<1>3. PICK w \in S : \A u \in S : ~(<<u, w>> \in R)
  BY <1>1
<1>4. \A u \in S : ~(u < w)
  BY <1>2, <1>3
<1>5. \A u \in S : ~(u < w) => w <= u
  OBVIOUS
<1>6. QED
  BY <1>4, <1>5

(* The classification of a window forgets none of its messages.            *)
LEMMA ClassifyCovers ==
    ASSUME TypeOK, NEW uids \in SUBSET UIDs, NEW v \in uids, src[v] # NoMail
    PROVE  src[v] \in copied \cup KeysOf(Classify(uids))
<1> USE ReconcileAssumption
<1>1. CASE src[v] \in copied
  BY <1>1
<1>2. CASE src[v] \notin copied
  <2> DEFINE S == {u \in uids : src[u] = src[v]}
  <2>1. S \subseteq Nat /\ v \in S
    <3>1. UIDs \subseteq Nat
      OBVIOUS
    <3>2. QED
      BY <3>1
  <2>2. PICK w \in S : \A u \in S : w <= u
    BY <2>1, LeastNat
  <2>3. src[v] \in Keys
    BY DEF TypeOK
  <2>4. [uid |-> w, key |-> src[v]] \in Classify(uids)
    BY <1>2, <2>2, <2>3 DEF Classify
  <2>5. QED
    BY <2>4 DEF KeysOf
<1>3. QED
  BY <1>1, <1>2

(* Every step keeps the mark sound.                                        *)
LEMMA NextMark ==
    ASSUME TypeOK, PhaseInv, MarkInv, [Next]_vars
    PROVE  MarkInv'
<1> USE ReconcileAssumption
<1>1. CASE Connect \/ SeedWindow \/ SeedDone \/ Wake
  BY <1>1 DEF Connect, SeedWindow, SeedDone, Wake, copyVars, mailVars, metaVars, scanVars,
     MarkInv, GoodMark, Mailbox, Scanning, InWindow
<1>2. CASE SelectFolder
  BY <1>2 DEF SelectFolder, copyVars, mailVars, metaVars,
     MarkInv, GoodMark, Mailbox, Scanning, InWindow, TypeOK
<1>3. CASE ResetMark
  BY <1>3 DEF ResetMark, copyVars, mailVars, scanVars,
     MarkInv, GoodMark, Mailbox, Scanning, InWindow, TypeOK
<1>4. CASE AdoptValidity
  BY <1>4 DEF AdoptValidity, copyVars, mailVars,
     MarkInv, GoodMark, Mailbox, Scanning, InWindow, TypeOK
<1>5. CASE OpenWindow
  <2> DEFINE uids == {u \in Mailbox : start <= u /\ u <= WindowStop}
  <2>1. \A u \in uids : src[u] \in copied \cup KeysOf(Classify(uids))
    BY ClassifyCovers DEF Mailbox
  <2>2. /\ pend' = Classify(uids) /\ stop' = WindowStop /\ start < uidNext
        /\ pc = "window" /\ pc' \in InWindow
        /\ UNCHANGED <<flight, records, copied, src, srcValidity, srcUidNext, uidValidity,
                       lastUID, disk, uidNext, start, missed>>
    BY <1>5 DEF OpenWindow, mailVars, metaVars, InWindow
  <2>3. WindowStop' = WindowStop
    BY <2>2 DEF WindowStop
  <2>4. KeysOf(pend') = KeysOf(Classify(uids))
    BY <2>2
  <2> HIDE DEF uids
  <2>5. \A u \in Mailbox' : start' <= u /\ u <= stop' =>
            src'[u] \in (copied \cup records \cup flight \cup KeysOf(pend) \cup missed)'
    BY <2>1, <2>2, <2>4 DEF uids, Mailbox, KeysOf
  <2>6. QED
    BY <2>2, <2>3, <2>5 DEF MarkInv, GoodMark, Mailbox, Scanning, InWindow
<1>6. CASE Guard
  <2>1. KeysOf(pend) \subseteq (copied \cup KeysOf(pend))'
    BY <1>6 DEF Guard, KeysOf
  <2>2. /\ pc = "guard" /\ pc' \in InWindow /\ copied \subseteq copied'
        /\ outcome = "running"
        /\ UNCHANGED <<flight, records, src, srcValidity, srcUidNext, uidValidity,
                       lastUID, disk, uidNext, start, stop, missed>>
    BY <1>6 DEF Guard, mailVars, metaVars, scanVars, InWindow, PhaseInv
  <2>3. QED
    BY <2>1, <2>2 DEF MarkInv, GoodMark, Mailbox, Scanning, InWindow, WindowStop
<1>7. CASE SkipGone \/ CopyProgress \/ CopyFault
  BY <1>7, CopyMark
<1>8. CASE CopyReturned
  BY <1>8 DEF CopyReturned, CopyOk, mailVars, metaVars, scanVars,
     MarkInv, GoodMark, Mailbox, Scanning, InWindow, WindowStop, KeysOf
<1>9. CASE CommitWindow
  <2>1. /\ pc = "commit" /\ pc' = "window" /\ lastUID' = stop /\ start' = start + UIDBatch
        /\ UNCHANGED <<copied, src, srcValidity, srcUidNext, uidValidity, disk, uidNext, missed>>
    BY <1>9 DEF CommitWindow, NextStart, copyVars, mailVars
  <2>2. pend = {} /\ flight = {} /\ records = {} /\ outcome = "ok"
    BY <2>1 DEF PhaseInv
  <2>3. start < uidNext /\ stop = WindowStop /\ start = lastUID + 1 /\ uidNext <= srcUidNext
    BY <2>1 DEF MarkInv, Scanning, InWindow
  <2>4. stop < srcUidNext
    BY <2>3 DEF WindowStop, TypeOK
  <2>5. \A u \in Mailbox : u <= stop => src[u] \in copied \cup missed
    <3>1. \A u \in Mailbox : start <= u /\ u <= stop => src[u] \in copied \cup missed
      BY <2>1, <2>2 DEF MarkInv, InWindow, KeysOf
    <3>2. \A u \in Mailbox : u <= lastUID => src[u] \in copied \cup missed
      BY <2>1 DEF MarkInv, GoodMark, Scanning
    <3>3. \A u \in Mailbox : u <= lastUID \/ start <= u
      BY <2>3 DEF Mailbox, TypeOK
    <3>4. QED
      BY <3>1, <3>2, <3>3
  <2>6. start' < uidNext' => start' = lastUID' + 1
    BY <2>1, <2>3 DEF WindowStop, TypeOK
  <2>7. QED
    BY <2>1, <2>3, <2>4, <2>5, <2>6 DEF MarkInv, GoodMark, Mailbox, Scanning, InWindow
<1>10. CASE PassDone
  BY <1>10 DEF PassDone, copyVars, mailVars, metaVars,
     MarkInv, GoodMark, Mailbox, Scanning, InWindow
<1>11. CASE CopyAborted \/ Crash \/ PowerLoss
  BY <1>11 DEF CopyAborted, Crash, PowerLoss, EndSession, mailVars, metaVars,
     MarkInv, GoodMark, Mailbox, Scanning, InWindow
<1>12. CASE LoseState
  BY <1>12 DEF LoseState, EmptyStore, mailVars, scanVars,
     MarkInv, GoodMark, Mailbox, Scanning, InWindow, TypeOK
<1>13. CASE Checkpoint
  BY <1>13 DEF Checkpoint, Store, copyVars, mailVars, metaVars, scanVars,
     MarkInv, GoodMark, Mailbox, WindowStop, KeysOf
<1>14. CASE LimboLand \/ LimboDrop
  BY <1>14 DEF LimboLand, LimboDrop, copyVars, mailVars, metaVars, scanVars,
     MarkInv, GoodMark, Mailbox, WindowStop, KeysOf
<1>15. CASE Deliver
  <2>1. PICK k \in Keys : src' = [src EXCEPT ![srcUidNext] = k]
    BY <1>15 DEF Deliver
  <2>2. /\ srcUidNext' = srcUidNext + 1
        /\ srcUidNext \in UIDs
        /\ UNCHANGED <<copied, records, flight, pend, outcome, srcValidity, uidValidity, lastUID,
                       disk, pc, uidNext, start, stop, missed>>
    BY <1>15 DEF Deliver, copyVars, metaVars, scanVars, TypeOK
  <2>3. ASSUME NEW u \in Mailbox'
        PROVE  u = srcUidNext \/ (u \in Mailbox /\ src'[u] = src[u])
    BY <2>1, <2>2 DEF TypeOK, Mailbox
  <2>4. Mailbox' \subseteq UIDs /\ UIDs \subseteq Nat
    BY DEF Mailbox
  <2>5. /\ (\A u \in Mailbox : u < srcUidNext)'
        /\ GoodMark(uidValidity, lastUID, copied)'
        /\ GoodMark(disk.uidValidity, disk.lastUID, disk.copied)'
    <3>1. (\A u \in Mailbox : u < srcUidNext)'
      BY <2>2, <2>3, <2>4 DEF MarkInv, TypeOK
    <3>2. GoodMark(uidValidity, lastUID, copied)'
      BY <2>2, <2>3, <2>4 DEF MarkInv, GoodMark, TypeOK
    <3>3. GoodMark(disk.uidValidity, disk.lastUID, disk.copied)'
      BY <2>2, <2>3, <2>4 DEF MarkInv, GoodMark, TypeOK, StoreType
    <3>4. QED
      BY <3>1, <3>2, <3>3
  <2>6. pc \in InWindow => stop < srcUidNext
    BY DEF MarkInv, InWindow, Scanning, WindowStop, TypeOK
  <2>7. ASSUME pc \in InWindow, outcome \in {"running", "ok"},
               NEW u \in Mailbox', start <= u, u <= stop
        PROVE  src'[u] \in copied \cup records \cup flight \cup KeysOf(pend) \cup missed
    <3>1. u # srcUidNext
      BY <2>4, <2>6, <2>7 DEF TypeOK
    <3>2. u \in Mailbox /\ src'[u] = src[u]
      BY <2>3, <3>1
    <3>3. QED
      BY <3>2, <2>7 DEF MarkInv
  <2>8. uidNext <= srcUidNext => uidNext' <= srcUidNext'
    BY <2>2 DEF TypeOK
  <2>9. WindowStop' = WindowStop /\ KeysOf(pend)' = KeysOf(pend)
    BY <2>2 DEF WindowStop, KeysOf
  <2>10. QED
    BY <2>2, <2>5, <2>7, <2>8, <2>9 DEF MarkInv
<1>16. CASE Expunge
  BY <1>16 DEF Expunge, copyVars, mailVars, metaVars, scanVars,
     MarkInv, GoodMark, Mailbox, Scanning, InWindow, WindowStop, KeysOf, TypeOK
<1>17. CASE Renumber
  <2>1. /\ pc \in Unselected /\ pc' = pc
        /\ srcValidity' = srcValidity + 1
        /\ UNCHANGED <<uidValidity, lastUID, disk>>
    BY <1>17, RenumberFacts DEF metaVars
  <2>2. (\A u \in Mailbox : u < srcUidNext)'
    BY <1>17, RenumberFacts DEF Mailbox
  <2>3. GoodMark(uidValidity, lastUID, copied)'
    BY <2>1 DEF MarkInv, GoodMark, TypeOK
  <2>4. GoodMark(disk.uidValidity, disk.lastUID, disk.copied)'
    BY <2>1 DEF MarkInv, GoodMark, TypeOK, StoreType
  <2>5. QED
    BY <2>1, <2>2, <2>3, <2>4 DEF MarkInv, Unselected, Scanning, InWindow
<1>18. CASE UNCHANGED vars
  BY <1>18 DEF vars, copyVars, mailVars, metaVars, scanVars,
     MarkInv, GoodMark, Mailbox, WindowStop, KeysOf
<1>19. QED
  BY <1>1, <1>2, <1>3, <1>4, <1>5, <1>6, <1>7, <1>8, <1>9, <1>10, <1>11, <1>12,
     <1>13, <1>14, <1>15, <1>16, <1>17, <1>18
  DEF Next, Program, Fault, Environment

(* No crash, power loss or renumbering leaves the high-water mark beyond   *)
(* mail of the present numbering that was not mirrored.                    *)
THEOREM MarkCorrect == Spec => []MirroredBelowMark
<1>1. Init => MarkInv
  BY ReconcileAssumption
  DEF Init, MarkInv, GoodMark, EmptyStore, Mailbox, Scanning, InWindow
<1>2. TypeOK /\ PhaseInv /\ MarkInv /\ [Next]_vars => MarkInv'
  BY NextMark
<1>3. MarkInv => MirroredBelowMark
  BY DEF MarkInv, GoodMark, MirroredBelowMark
<1>4. QED
  BY <1>1, <1>2, <1>3, TypeCorrect, PhaseCorrect, PTL DEF Spec

-----------------------------------------------------------------------------
(* The keys protected by a layer are keys.                                 *)
LEMMA ProtectedKeys == Protected \subseteq Keys
  BY ReconcileAssumption DEF Protected

(* The steps of a window's copy keep the bound on copies.                  *)
LEMMA CopyDup ==
    ASSUME TypeOK, PhaseInv, DupInv, SkipGone \/ CopyProgress \/ CopyFault
    PROVE  DupInv'
<1> USE ProtectedKeys
<1>1. pc = "copy" /\ UNCHANGED <<pc, limbo, unseeded>>
  BY CopyPhaseSteps
<1>2. CASE \E c \in pend : Send(c) \/ SendFails(c)
  <2>1. PICK c \in pend : Send(c) \/ SendFails(c)
    BY <1>2
  <2>2. /\ pend' = pend \ {c}
        /\ flight' \subseteq flight \cup {c.key}
        /\ UNCHANGED <<landed, records, copied, dest>>
    BY <2>1 DEF Send, SendFails
  <2>3. c.key \in KeysOf(pend) /\ c.key \notin KeysOf(pend')
    BY <2>2 DEF DupInv, KeysOf
  <2>4. KeysOf(pend') \subseteq KeysOf(pend)
    BY <2>2 DEF KeysOf
  <2>5. Present' = Present
    BY <2>2 DEF Present
  <2>6. KeysOf(pend)' = KeysOf(pend')
    BY DEF KeysOf
  <2>7. QED
    BY <1>1, <2>2, <2>3, <2>4, <2>5, <2>6 DEF DupInv
<1>3. CASE \E c \in pend : Skip(c)
  <2>1. /\ pend' \subseteq pend
        /\ UNCHANGED <<flight, landed, records, copied, dest>>
    BY <1>3 DEF Skip
  <2>2. KeysOf(pend)' \subseteq KeysOf(pend) /\ Present' = Present
    BY <2>1 DEF KeysOf, Present
  <2>3. QED
    BY <1>1, <2>1, <2>2 DEF DupInv
<1>4. CASE \E k \in flight : Land(k)
  <2>1. PICK k \in flight : Land(k)
    BY <1>4
  <2>2. /\ k \in Keys /\ k \in flight \ landed
        /\ landed' = landed \cup {k}
        /\ UNCHANGED <<pend, flight, records, copied>>
    BY <2>1 DEF Land, TypeOK, CopyTypeOK
  <2>3. Present' = Present \cup {k}
    BY <2>1, <2>2, AddCopyPresent DEF Land
  <2>4. /\ \A j \in Keys \ {k} : dest'[j] = dest[j]
        /\ dest[k] = 0 => dest'[k] <= 1
    BY <2>1, <2>2, CopyAssumption DEF Land, AddCopy, TypeOK, CopyTypeOK
  <2>5. k \notin KeysOf(pend) /\ KeysOf(pend)' = KeysOf(pend)
    BY <2>2 DEF DupInv, KeysOf
  <2>6. \A j \in Protected : dest'[j] <= 1
    BY <1>1, <2>2, <2>4 DEF DupInv
  <2>7. \A j \in Protected : j \in KeysOf(pend) \cup (flight \ landed') => dest'[j] = 0
    BY <1>1, <2>2, <2>4, <2>5 DEF DupInv
  <2>8. \A j \in Protected : j \in limbo => dest'[j] = 0
    BY <1>1 DEF DupInv, Protected
  <2>9. QED
    BY <1>1, <2>2, <2>3, <2>5, <2>6, <2>7, <2>8 DEF DupInv
<1>5. CASE \E k \in flight : Confirm(k)
  <2>1. PICK k \in flight : Confirm(k)
    BY <1>5
  <2>2. /\ flight' = flight \ {k} /\ landed' = landed \ {k}
        /\ records' = records \cup {k}
        /\ k \in landed
        /\ UNCHANGED <<pend, copied, dest>>
    BY <2>1 DEF Confirm, Answered
  <2>3. Present' = Present /\ KeysOf(pend)' = KeysOf(pend)
    BY <2>2 DEF Present, KeysOf
  <2>4. QED
    BY <1>1, <2>2, <2>3 DEF DupInv
<1>6. CASE \E k \in flight : Refuse(k)
  <2>1. flight' \subseteq flight /\ UNCHANGED <<pend, landed, records, copied, dest>>
    BY <1>6 DEF Refuse
  <2>2. Present' = Present /\ KeysOf(pend)' = KeysOf(pend)
    BY <2>1 DEF Present, KeysOf
  <2>3. QED
    BY <1>1, <2>1, <2>2 DEF DupInv
<1>7. CASE StreamFails \/ AppendSideFails \/ FlushRecords \/ ReturnOk \/ ReturnError
  <2>1. /\ copied \cup records \subseteq (copied \cup records)'
        /\ UNCHANGED <<pend, flight, landed, dest>>
    BY <1>7 DEF StreamFails, AppendSideFails, FlushRecords, ReturnOk, ReturnError
  <2>2. Present' = Present /\ KeysOf(pend)' = KeysOf(pend)
    BY <2>1 DEF Present, KeysOf
  <2>3. QED
    BY <1>1, <2>1, <2>2 DEF DupInv
<1>8. QED
  BY <1>2, <1>3, <1>4, <1>5, <1>6, <1>7, CopyPhaseSteps DEF CopyStep

(* Ending a session leaves behind only APPENDs of absent protected keys.   *)
LEMMA EndSessionDup ==
    ASSUME TypeOK, PhaseInv, DupInv, EndSession, dest' = dest
    PROVE  DupInv'
<1>1. \A k \in Protected : k \in limbo' => dest'[k] = 0
  BY DEF EndSession, DupInv, PhaseInv
<1>2. pend' = {} /\ flight' = {} /\ pc' = "down"
  BY DEF EndSession
<1>3. QED
  BY <1>1, <1>2 DEF DupInv, KeysOf

(* Every step keeps the bound on copies.                                   *)
LEMMA NextDup ==
    ASSUME TypeOK, PhaseInv, DupInv, [Next]_vars
    PROVE  DupInv'
<1> USE ReconcileAssumption, ProtectedKeys
<1>1. CASE Connect
  BY <1>1 DEF Connect, copyVars, DupInv, KeysOf, Present
<1>2. CASE SeedWindow \/ SeedDone
  BY <1>2 DEF SeedWindow, SeedDone, Seeded, copyVars, DupInv, PhaseInv, KeysOf, Present
<1>3. CASE Wake \/ SelectFolder \/ ResetMark \/ AdoptValidity \/ CommitWindow \/ PassDone
  BY <1>3 DEF Wake, SelectFolder, ResetMark, AdoptValidity, CommitWindow, PassDone, copyVars,
     DupInv, KeysOf, Present
<1>4. CASE OpenWindow
  <2> DEFINE uids == {u \in Mailbox : start <= u /\ u <= WindowStop}
  <2>1. /\ pend' = Classify(uids)
        /\ pc = "window" /\ pc' \in {"commit", "guard", "copy"}
        /\ pc' = "copy" => ~DestGuard
        /\ UNCHANGED <<flight, landed, records, copied, dest, limbo, unseeded>>
    BY <1>4 DEF OpenWindow
  <2>2. flight = {} /\ records = {} /\ landed = {}
    BY <2>1 DEF PhaseInv, TypeOK, CopyTypeOK
  <2>3. \A c, d \in pend' : c.key = d.key => c = d
    BY <2>1 DEF Classify, Mailbox
  <2>4. KeysOf(pend') \subseteq Keys \ copied
    BY <2>1 DEF Classify, KeysOf
  <2>5. KeysOf(pend)' = KeysOf(pend') /\ Present' = Present
    BY <2>1 DEF KeysOf, Present
  <2>6. \A k \in Protected : pc' = "copy" /\ k \in KeysOf(pend') => dest[k] = 0
    BY <2>1, <2>2, <2>4 DEF Protected, DupInv, Present, TypeOK, CopyTypeOK
  <2>7. QED
    BY <2>1, <2>2, <2>3, <2>4, <2>5, <2>6 DEF DupInv
<1>5. CASE Guard
  <2>1. /\ pend' = {c \in pend : c.key \notin Found}
        /\ copied' = copied \cup Found
        /\ pc = "guard" /\ pc' \in {"commit", "copy"}
        /\ UNCHANGED <<flight, landed, records, dest, limbo, unseeded>>
    BY <1>5 DEF Guard
  <2>2. flight = {} /\ records = {} /\ landed = {}
    BY <2>1 DEF PhaseInv, TypeOK, CopyTypeOK
  <2>3. /\ KeysOf(pend)' \subseteq KeysOf(pend) \ Found
        /\ Present' = Present
    BY <2>1 DEF KeysOf, Present
  <2>4. \A k \in Protected : k \in KeysOf(pend)' => dest[k] = 0
    BY <2>1, <2>2, <2>3 DEF Protected, DupInv, Found, Present, TypeOK, CopyTypeOK
  <2>5. QED
    BY <2>1, <2>2, <2>3, <2>4 DEF DupInv
<1>6. CASE SkipGone \/ CopyProgress \/ CopyFault
  BY <1>6, CopyDup
<1>7. CASE CopyReturned
  BY <1>7 DEF CopyReturned, CopyOk, DupInv, KeysOf, Present
<1>8. CASE CopyAborted \/ Crash \/ PowerLoss
  BY <1>8, EndSessionDup DEF CopyAborted, Crash, PowerLoss
<1>9. CASE LoseState
  BY <1>9 DEF LoseState, DupInv, KeysOf, Present
<1>10. CASE Checkpoint \/ Deliver \/ Expunge
  BY <1>10 DEF Checkpoint, Deliver, Expunge, copyVars, DupInv, KeysOf, Present
<1>11. CASE Renumber
  BY <1>11, RenumberFacts DEF copyVars, DupInv, KeysOf, Present
<1>12. CASE LimboLand
  <2>1. PICK k \in limbo : limbo' = limbo \ {k} /\ AddCopy(k)
    BY <1>12 DEF LimboLand
  <2>2. UNCHANGED <<pend, flight, landed, records, copied, pc, unseeded>>
    BY <1>12 DEF LimboLand
  <2>3. /\ k \in Keys
        /\ \A j \in Keys \ {k} : dest'[j] = dest[j]
        /\ dest[k] = 0 => dest'[k] <= 1
    BY <2>1, CopyAssumption DEF AddCopy, TypeOK, CopyTypeOK
  <2>4. CASE LateAppends
    BY <2>2, <2>4 DEF DupInv, Protected, KeysOf
  <2>5. CASE ~LateAppends
    <3>1. pc = "down" /\ pend = {} /\ flight = {}
      BY <2>1, <2>5 DEF DupInv, PhaseInv
    <3>2. \A j \in Protected : dest'[j] <= 1 /\ (j \in limbo' => dest'[j] = 0)
      BY <2>1, <2>3 DEF DupInv
    <3>3. QED
      BY <2>2, <3>1, <3>2 DEF DupInv, KeysOf
  <2>6. QED
    BY <2>4, <2>5
<1>13. CASE LimboDrop
  BY <1>13 DEF LimboDrop, copyVars, DupInv, KeysOf, Present
<1>14. CASE UNCHANGED vars
  BY <1>14 DEF vars, copyVars, DupInv, KeysOf, Present
<1>15. QED
  BY <1>1, <1>2, <1>3, <1>4, <1>5, <1>6, <1>7, <1>8, <1>9, <1>10, <1>11, <1>12, <1>13, <1>14
  DEF Next, Program, Fault, Environment

(* The mirror never stores a second copy of a message that the guard or a  *)
(* seed in every session protects, whatever fails and whatever the sizes   *)
(* of windows, ring and record batch.                                      *)
THEOREM NoDuplicatesCorrect == Spec => []NoDuplicates
<1>1. Init => DupInv
  BY ProtectedKeys DEF Init, DupInv, KeysOf
<1>2. TypeOK /\ PhaseInv /\ DupInv /\ [Next]_vars => DupInv'
  BY NextDup
<1>3. DupInv => NoDuplicates
  BY DEF DupInv, NoDuplicates
<1>4. QED
  BY <1>1, <1>2, <1>3, TypeCorrect, PhaseCorrect, PTL DEF Spec
=============================================================================
