-------------------------- MODULE MembershipProofs --------------------------
(***************************************************************************)
(* For any folders, keys, configurations and sizes: the table of members   *)
(* agrees with each folder up to its recorded mark, over interrupted scans *)
(* and rebuilds, failures and renumbered folders.                          *)
(***************************************************************************)
EXTENDS Membership, FiniteSetTheorems, SequenceTheorems, TLAPS

Scans ==
    [folder : Watched, validity : 0 .. MaxValidity, next : 0 .. MaxUID + 1, start : Nat,
     stop : 0 .. MaxUID, rebuild : BOOLEAN, stored : SUBSET Keys, seen : SUBSET Keys]

Phases == {"down", "idle", "membership", "removals", "windows", "commit", "rebuilt",
           "backfill", "placing", "mirror", "propagate"}

(* A folder is selected.                                                   *)
Scanning == phase \in {"removals", "windows", "commit", "rebuilt"}

(* The types of what TypeOK leaves out.                                    *)
PassTypeInv ==
    /\ phase \in Phases
    /\ scan \in Scans
    /\ cand \subseteq allMail /\ unsaved \subseteq allMail

(* UIDs are given out once, and a folder holds a key once.                 *)
MailInv ==
    \A f \in Watched :
        /\ \A u \in UIDs : u > top[f] => mail[f][u] = NoMail
        /\ \A u, v \in UIDs : mail[f][u] = mail[f][v] /\ mail[f][u] # NoMail => u = v

(* The mail at the UIDs in S has its rows.                                 *)
Covers(f, S) == \A u \in S : mail[f][u] # NoMail => members[f][mail[f][u]] = u

(* The rows of the keys in K name them, or mail that is gone.              *)
Truthful(f, K) ==
    \A k \in K : /\ members[f][k] \in 1 .. top[f]
                 /\ mail[f][members[f][k]] \in {k, NoMail}

(* A folder with a current mark is covered up to it.                       *)
Tracks(f) ==
    /\ folders[f].validity <= validity[f]
    /\ folders[f].validity = validity[f] =>
          /\ folders[f].last <= top[f]
          /\ Covers(f, 1 .. folders[f].last)
          /\ Truthful(f, MemberKeys(f))

TrackInv == \A f \in Watched : Tracks(f)

(* The selected folder is not renumbered, and new mail is above the scan.  *)
SelectedInv ==
    Scanning =>
        /\ scan.validity = validity[scan.folder]
        /\ scan.next \in 1 .. top[scan.folder] + 1
        /\ scan.start >= 1
        /\ scan.rebuild = (folders[scan.folder].validity # validity[scan.folder])
        /\ phase \in {"removals", "commit"} => ~scan.rebuild

(* A scan from the mark goes on right after it, and what a window has      *)
(* recorded is covered before the mark passes it.                          *)
OnwardInv ==
    Scanning /\ ~scan.rebuild =>
        /\ phase # "rebuilt"
        /\ scan.start < scan.next => scan.start = folders[scan.folder].last + 1
        /\ phase = "commit" =>
              /\ scan.start < scan.next /\ scan.stop = WindowStop
              /\ Covers(scan.folder, scan.start .. scan.stop)

(* A rebuild replaces the rows it found window by window.                  *)
Behind == {u \in UIDs : u < scan.start /\ u < scan.next}

RebuildInv ==
    Scanning /\ scan.rebuild =>
        /\ Covers(scan.folder, Behind)
        /\ \A u \in Behind : mail[scan.folder][u] \in scan.seen \cup {NoMail}
        /\ scan.seen \subseteq MemberKeys(scan.folder)
        /\ Truthful(scan.folder, scan.seen)
        /\ MemberKeys(scan.folder) \subseteq scan.stored \cup scan.seen
        /\ phase = "rebuilt" =>
              scan.start >= scan.next /\ MemberKeys(scan.folder) \subseteq scan.seen

MembershipInv ==
    /\ TypeOK /\ PassTypeInv
    /\ MailInv /\ TrackInv
    /\ SelectedInv /\ OnwardInv /\ RebuildInv

-----------------------------------------------------------------------------
(* Finite sets and the rows made from them.                                *)

(* Sets of keys and sets of UIDs are finite.                               *)
LEMMA Finite ==
    ASSUME NEW S, S \subseteq Keys \/ S \subseteq UIDs
    PROVE  IsFiniteSet(S) /\ Cardinality(S) \in Nat
<1>1. MaxUID \in Nat /\ IsFiniteSet(Keys)
  BY MembershipAssumption
<1>2. IsFiniteSet(UIDs)
  BY <1>1, FS_Interval DEF UIDs
<1>3. IsFiniteSet(S)
  BY <1>1, <1>2, FS_Subset
<1>4. QED
  BY <1>3, FS_CardinalityType

(* An order of a finite set lists each of its elements once.               *)
LEMMA OrdersFacts ==
    ASSUME NEW S, IsFiniteSet(S), Cardinality(S) \in Nat, NEW o \in Orders(S)
    PROVE  /\ o \in [1 .. Cardinality(S) -> S] /\ DOMAIN o = 1 .. Cardinality(S)
           /\ \A x \in S : \E j \in 1 .. Cardinality(S) : o[j] = x
           /\ \A j, k \in 1 .. Cardinality(S) : o[j] = o[k] => j = k
<1> DEFINE n == Cardinality(S)
<1>1. o \in [1 .. n -> S] /\ \A x \in S : \E j \in DOMAIN o : o[j] = x
  BY DEF Orders
<1>2. o \in Surjection(1 .. n, S)
  BY <1>1 DEF Surjection
<1>3. IsFiniteSet(1 .. n) /\ Cardinality(1 .. n) = n
  BY FS_Interval
<1> HIDE DEF n
<1>4. o \in Injection(1 .. n, S)
  <2>1. Cardinality(S) = Cardinality(1 .. n)
    BY <1>3 DEF n
  <2>2. QED
    BY <1>2, <1>3, <2>1, FS_Surjection
<1>5. \A j, k \in 1 .. n : o[j] = o[k] => j = k
  BY <1>1, <1>4 DEF Injection, IsInjective
<1>6. QED
  BY <1>1, <1>5 DEF n

(* No folder holds more mail than it has UIDs.                             *)
LEMMA PresentFacts ==
    ASSUME TypeOK, NEW f \in Watched
    PROVE  /\ Present(f) \subseteq Keys /\ IsFiniteSet(Present(f))
           /\ Cardinality(Present(f)) \in 0 .. MaxUID
<1> DEFINE P == {u \in UIDs : mail[f][u] # NoMail}
           g == [u \in P |-> mail[f][u]]
<1>1. mail[f] \in [UIDs -> Keys \cup {NoMail}] /\ MaxUID \in Nat
  BY MembershipAssumption DEF TypeOK
<1>2. Present(f) \subseteq Keys
  BY <1>1 DEF Present
<1>3. g \in Surjection(P, Present(f))
  <2>1. g \in [P -> Present(f)]
    BY <1>1 DEF Present
  <2>2. \A k \in Present(f) : \E u \in P : g[u] = k
    BY <1>1 DEF Present
  <2>3. QED
    BY <2>1, <2>2 DEF Surjection
<1>4. IsFiniteSet(UIDs) /\ Cardinality(UIDs) = MaxUID
  BY <1>1, FS_Interval DEF UIDs
<1>5. P \in SUBSET UIDs
  OBVIOUS
<1> HIDE DEF P, g
<1>6. IsFiniteSet(P) /\ Cardinality(P) <= MaxUID
  BY <1>4, <1>5, FS_Subset
<1>7. Cardinality(Present(f)) <= Cardinality(P)
  BY <1>3, <1>6, FS_Surjection
<1>8. IsFiniteSet(Present(f)) /\ Cardinality(Present(f)) \in Nat
  BY <1>2, Finite
<1>9. Cardinality(P) \in Nat
  BY <1>6, FS_CardinalityType
<1>10. QED
  BY <1>1, <1>2, <1>6, <1>7, <1>8, <1>9

(* Operations of recorded real keys, appended to the queue.                *)
LEMMA OpsTyped ==
    ASSUME NEW q \in Seq(PendingOp), NEW n \in Nat, NEW order, DOMAIN order = 1 .. n,
           NEW kind, NEW f \in Watched, NEW op \in {"add", "remove"},
           \A j \in 1 .. n : order[j] \in RealKeys /\ kind \in {pendingMove, pendingKeyword}
    PROVE  /\ q \o PendingOps(kind, f, op, order) \in Seq(PendingOp)
           /\ Len(q \o PendingOps(kind, f, op, order)) >= Len(q)
<1> DEFINE s == PendingOps(kind, f, op, order)
<1>1. s = [j \in 1 .. n |-> [kind |-> kind, key |-> order[j], folder |-> f, op |-> op]]
  BY DEF PendingOps
<1>2. \A j \in 1 .. n : [kind |-> kind, key |-> order[j], folder |-> f, op |-> op] \in PendingOp
  BY DEF PendingOp
<1> HIDE DEF PendingOp
<1>3. s \in Seq(PendingOp) /\ Len(s) = n
  BY <1>1, <1>2
<1> HIDE DEF s
<1>4. q \o s \in Seq(PendingOp) /\ Len(q \o s) = Len(q) + Len(s)
  BY <1>3, ConcatProperties
<1>5. Len(q) \in Nat
  OBVIOUS
<1>6. QED
  BY <1>3, <1>4, <1>5 DEF s

(* What a change of the folder queues.                                     *)
LEMMA KindFacts ==
    ASSUME NEW c, NEW f \in Watched, WatchedKind(c, f) # none
    PROVE  WatchedKind(c, f) \in {pendingMove, pendingKeyword}
  BY DEF WatchedKind

-----------------------------------------------------------------------------
(* Which steps write which variables.                                      *)

(* The steps that change the source.                                       *)
LEMMA SourceWriters ==
    ASSUME Next
    PROVE  \/ UNCHANGED srcVars
           \/ \E k \in Keys : Arrive(k)
           \/ \E f \in Watched, k \in Keys : Enter(f, k) \/ Leave(f, k)
           \/ \E f \in Watched : Renumber(f) \/ CreateLabel(f)
<1>1. CASE Program
  BY <1>1 DEF Program, StartPass, SelectNamedFolder, Removals, recordAdditions, CommitWindow,
     FolderDone, RebuildRemovals, AdoptFolder, MembershipDone, BackfillScan, BackfillTag,
     BackfillMove, BackfillNext, BackfillDone, Guard, AppendCopy, RecordCopies, MirrorDone,
     LoadPage, applyPending, PageDone
<1>2. CASE Failure
  BY <1>2 DEF Failure, Crash, ApplyFails, Reconfigure
<1>3. CASE SourceStep
  BY <1>3 DEF SourceStep
<1>4. QED
  BY <1>1, <1>2, <1>3 DEF Next

(* The steps that change rows or marks.                                    *)
LEMMA TableWriters ==
    ASSUME Next
    PROVE  \/ UNCHANGED <<members, folders>>
           \/ Removals \/ recordAdditions \/ CommitWindow \/ RebuildRemovals \/ AdoptFolder
<1>1. CASE Program
  BY <1>1 DEF Program, StartPass, SelectNamedFolder,
     FolderDone, MembershipDone, BackfillScan, BackfillTag,
     BackfillMove, BackfillNext, BackfillDone, Guard, AppendCopy, RecordCopies, MirrorDone,
     LoadPage, applyPending, PageDone, storeVars
<1>2. CASE Failure
  BY <1>2 DEF Failure, Crash, ApplyFails, Reconfigure, storeVars
<1>3. CASE SourceStep
  BY <1>3 DEF SourceStep, Arrive, Enter, Leave, Renumber, CreateLabel, storeVars
<1>4. QED
  BY <1>1, <1>2, <1>3 DEF Next

(* The steps that change the queue or the place in it.                     *)
LEMMA QueueWriters ==
    ASSUME Next
    PROVE  \/ UNCHANGED <<pending, page, done>>
           \/ Removals \/ recordAdditions \/ RebuildRemovals
           \/ LoadPage \/ applyPending \/ PageDone \/ Crash \/ ApplyFails
<1>1. CASE Program
  BY <1>1 DEF Program, StartPass, SelectNamedFolder, CommitWindow,
     FolderDone, AdoptFolder, MembershipDone, BackfillScan, BackfillTag,
     BackfillMove, BackfillNext, BackfillDone, Guard, AppendCopy, RecordCopies, MirrorDone,
     storeVars, queueVars
<1>2. CASE Failure
  BY <1>2 DEF Failure, Reconfigure, storeVars, passVars, queueVars
<1>3. CASE SourceStep
  BY <1>3 DEF SourceStep, Arrive, Enter, Leave, Renumber, CreateLabel, storeVars, passVars,
     queueVars
<1>4. QED
  BY <1>1, <1>2, <1>3 DEF Next

(* The steps that change what is copied or to be copied.                   *)
LEMMA CopyWriters ==
    ASSUME Next
    PROVE  \/ UNCHANGED <<allMail, copied, cand, unsaved>>
           \/ MembershipDone \/ (\E k \in Keys : Guard(k) \/ AppendCopy(k)) \/ RecordCopies
           \/ Crash \/ ApplyFails \/ (\E k \in Keys : Arrive(k))
<1>1. CASE Program
  BY <1>1 DEF Program, StartPass, SelectNamedFolder, Removals, recordAdditions, CommitWindow,
     FolderDone, RebuildRemovals, AdoptFolder, BackfillScan, BackfillTag,
     BackfillMove, BackfillNext, BackfillDone, MirrorDone,
     LoadPage, applyPending, PageDone, srcVars, storeVars, copyVars
<1>2. CASE Failure
  BY <1>2 DEF Failure, Reconfigure, srcVars, storeVars, passVars, copyVars
<1>3. CASE SourceStep
  BY <1>3 DEF SourceStep, Enter, Leave, Renumber, CreateLabel, storeVars, passVars,
     copyVars
<1>4. QED
  BY <1>1, <1>2, <1>3 DEF Next

(* The steps that change the destination or the configuration.             *)
LEMMA DestWriters ==
    ASSUME Next
    PROVE  \/ UNCHANGED <<fingerprint, place, keywords, cfg>>
           \/ (\E k \in Keys : BackfillTag(k) \/ BackfillMove(k) \/ AppendCopy(k))
           \/ BackfillDone \/ applyPending \/ Reconfigure
<1>1. CASE Program
  BY <1>1 DEF Program, StartPass, SelectNamedFolder, Removals, recordAdditions, CommitWindow,
     FolderDone, RebuildRemovals, AdoptFolder, MembershipDone, BackfillScan,
     BackfillNext, Guard, RecordCopies, MirrorDone,
     LoadPage, PageDone, storeVars, destVars
<1>2. CASE Failure
  BY <1>2 DEF Failure, Crash, ApplyFails, storeVars, destVars
<1>3. CASE SourceStep
  BY <1>3 DEF SourceStep, Arrive, Enter, Leave, Renumber, CreateLabel, storeVars, destVars
<1>4. QED
  BY <1>1, <1>2, <1>3 DEF Next

(* The steps that change the phase or the scan.                            *)
LEMMA PassWriters ==
    ASSUME Next
    PROVE  \/ UNCHANGED <<phase, scan, todo>>
           \/ StartPass \/ (\E f \in Watched : SelectNamedFolder(f))
           \/ Removals \/ recordAdditions \/ CommitWindow \/ FolderDone
           \/ RebuildRemovals \/ AdoptFolder \/ MembershipDone
           \/ BackfillScan \/ BackfillNext \/ BackfillDone \/ MirrorDone \/ LoadPage
           \/ Crash \/ ApplyFails
<1>1. CASE Program
  BY <1>1 DEF Program, BackfillTag, BackfillMove, Guard, AppendCopy, RecordCopies,
     applyPending, PageDone, scanVars
<1>2. CASE Failure
  BY <1>2 DEF Failure, Reconfigure, passVars, scanVars
<1>3. CASE SourceStep
  BY <1>3 DEF SourceStep, Arrive, Enter, Leave, Renumber, CreateLabel, passVars, scanVars
<1>4. QED
  BY <1>1, <1>2, <1>3 DEF Next

-----------------------------------------------------------------------------
(* Types, one part of the state at a time.                                 *)

SourceType ==
    /\ mail \in [Watched -> [UIDs -> Keys \cup {NoMail}]]
    /\ top \in [Watched -> 0 .. MaxUID]
    /\ validity \in [Watched -> 1 .. MaxValidity]
    /\ listed \subseteq Labels

TableType ==
    /\ members \in [Watched -> [Keys -> 0 .. MaxUID]]
    /\ folders \in [Watched -> [validity : 0 .. MaxValidity, last : 0 .. MaxUID]]

QueueType ==
    /\ pending \in Seq(PendingOp)
    /\ page \in 0 .. Len(pending) /\ done \in 0 .. page

CopyType ==
    /\ allMail \subseteq Keys /\ copied \subseteq allMail
    /\ cand \subseteq allMail /\ unsaved \subseteq allMail

DestType ==
    /\ fingerprint \in [archive : BOOLEAN, sent : BOOLEAN, labels : BOOLEAN] \cup {NoPrint}
    /\ place \in [Keys -> SUBSET {DestFolder, SentFolder, ArchiveFolder}]
    /\ keywords \in [Keys -> SUBSET {KeywordOf[f] : f \in Watched}]
    /\ cfg \in Configs

PassType == phase \in Phases /\ scan \in Scans /\ todo \subseteq Watched

(* The parts make up the whole.                                            *)
LEMMA TypeParts ==
    /\ TypeOK /\ PassTypeInv <=>
          SourceType /\ TableType /\ QueueType /\ CopyType /\ DestType /\ PassType
    /\ TypeOK' /\ PassTypeInv' <=>
          SourceType' /\ TableType' /\ QueueType' /\ CopyType' /\ DestType' /\ PassType'
  BY Zenon DEF TypeOK, PassTypeInv, SourceType, TableType, QueueType, CopyType, DestType, PassType

(* Where the selected folder is, and what the next window ends with.       *)
LEMMA ScanFacts ==
    ASSUME PassType
    PROVE  /\ scan.folder \in Watched /\ scan.validity \in 0 .. MaxValidity
           /\ scan.next \in 0 .. MaxUID + 1 /\ scan.start \in Nat /\ scan.stop \in 0 .. MaxUID
           /\ scan.rebuild \in BOOLEAN /\ scan.stored \subseteq Keys /\ scan.seen \subseteq Keys
           /\ MaxUID \in Nat /\ UIDBatch \in Nat \ {0}
           /\ scan.start < scan.next => WindowStop \in scan.start .. scan.next - 1
<1>1. /\ scan.folder \in Watched /\ scan.validity \in 0 .. MaxValidity
      /\ scan.next \in 0 .. MaxUID + 1 /\ scan.start \in Nat /\ scan.stop \in 0 .. MaxUID
      /\ scan.rebuild \in BOOLEAN /\ scan.stored \subseteq Keys /\ scan.seen \subseteq Keys
  BY DEF PassType, Scans
<1>2. MaxUID \in Nat /\ UIDBatch \in Nat \ {0}
  BY MembershipAssumption
<1>3. scan.start < scan.next => WindowStop \in scan.start .. scan.next - 1
  BY <1>1, <1>2 DEF WindowStop
<1>4. QED
  BY <1>1, <1>2, <1>3

(* The source keeps its types.                                             *)
LEMMA SourceTypeStep ==
    ASSUME TypeOK, PassTypeInv, Next
    PROVE  SourceType'
<1>0. SourceType /\ CopyType /\ MaxUID \in Nat /\ MaxValidity \in Nat
  BY TypeParts, MembershipAssumption
<1>1. CASE UNCHANGED srcVars
  BY <1>0, <1>1 DEF SourceType, srcVars
<1>2. CASE \E k \in Keys : Arrive(k)
  BY <1>0, <1>2 DEF SourceType, Arrive
<1>3. ASSUME NEW f \in Watched, NEW k \in Keys, Enter(f, k)
      PROVE  SourceType'
  <2>1. top[f] + 1 \in UIDs /\ top[f] + 1 \in 0 .. MaxUID
    <3>1. Room[f] \in 0 .. MaxUID /\ top[f] \in 0 .. MaxUID /\ top[f] < Room[f]
      BY <1>0, <1>3, MembershipAssumption DEF SourceType, Enter
    <3>2. QED
      BY <1>0, <3>1 DEF UIDs
  <2>2. mail' \in [Watched -> [UIDs -> Keys \cup {NoMail}]]
    BY <1>0, <1>3, <2>1 DEF SourceType, Enter
  <2>3. top' \in [Watched -> 0 .. MaxUID]
    BY <1>0, <1>3, <2>1 DEF SourceType, Enter
  <2>4. QED
    BY <1>0, <1>3, <2>2, <2>3 DEF SourceType, Enter
<1>4. ASSUME NEW f \in Watched, NEW k \in Keys, Leave(f, k)
      PROVE  SourceType'
  BY <1>0, <1>4 DEF SourceType, Leave
<1>5. ASSUME NEW f \in Watched, Renumber(f)
      PROVE  SourceType'
  <2>1. /\ Present(f) \subseteq Keys /\ IsFiniteSet(Present(f))
        /\ Cardinality(Present(f)) \in 0 .. MaxUID
    BY PresentFacts
  <2>2. PICK o \in Orders(Present(f)) :
            /\ mail' = [mail EXCEPT ![f] =
                  [u \in UIDs |-> IF u \in DOMAIN o THEN o[u] ELSE NoMail]]
            /\ top' = [top EXCEPT ![f] = Cardinality(Present(f))]
    BY <1>5 DEF Renumber
  <2>3. o \in [1 .. Cardinality(Present(f)) -> Present(f)]
    BY DEF Orders
  <2>4. [u \in UIDs |-> IF u \in DOMAIN o THEN o[u] ELSE NoMail] \in [UIDs -> Keys \cup {NoMail}]
    BY <2>1, <2>3
  <2>5. mail' \in [Watched -> [UIDs -> Keys \cup {NoMail}]] /\ top' \in [Watched -> 0 .. MaxUID]
    BY <1>0, <2>1, <2>2, <2>4 DEF SourceType
  <2>6. validity' \in [Watched -> 1 .. MaxValidity]
    <3>1. validity[f] + 1 \in 1 .. MaxValidity
      <4>1. Resets[f] \in 0 .. MaxValidity - 1 /\ validity[f] \in 1 .. MaxValidity
        BY <1>0, MembershipAssumption DEF SourceType
      <4>2. QED
        BY <1>0, <1>5, <4>1 DEF Renumber
    <3>2. QED
      BY <1>0, <1>5, <3>1 DEF SourceType, Renumber
  <2>7. QED
    BY <1>0, <1>5, <2>5, <2>6 DEF SourceType, Renumber
<1>6. CASE \E f \in Watched : CreateLabel(f)
  BY <1>0, <1>6 DEF SourceType, CreateLabel
<1>7. QED
  BY <1>1, <1>2, <1>3, <1>4, <1>5, <1>6, SourceWriters

(* A removal takes the rows of the keys that are gone, and no others.      *)
LEMMA RemovedRows ==
    ASSUME TableType, PassType, NEW gone, recordRemovals(gone)
    PROVE  /\ members' \in [Watched -> [Keys -> 0 .. MaxUID]]
           /\ \A g \in Watched \ {scan.folder} : members'[g] = members[g]
           /\ \A k \in Keys :
                 members'[scan.folder][k] = IF k \in gone THEN 0 ELSE members[scan.folder][k]
<1> DEFINE f == scan.folder
           rows == [k \in Keys |-> IF k \in gone THEN 0 ELSE members[f][k]]
<1>1. f \in Watched /\ MaxUID \in Nat
  BY ScanFacts
<1>2. members' = [members EXCEPT ![f] = rows]
  BY DEF recordRemovals
<1>3. members \in [Watched -> [Keys -> 0 .. MaxUID]]
  BY DEF TableType
<1>4. rows \in [Keys -> 0 .. MaxUID]
  BY <1>1, <1>3
<1>5. \A k \in Keys : rows[k] = IF k \in gone THEN 0 ELSE members[f][k]
  OBVIOUS
<1> HIDE DEF f, rows
<1>6. members'[f] = rows
  BY <1>1, <1>2, <1>3
<1>7. QED
  BY <1>1, <1>2, <1>3, <1>4, <1>5, <1>6 DEF f

(* A window gives each message it shows its row, and changes no other.     *)
LEMMA AddedRows ==
    ASSUME SourceType, TableType, PassType, MailInv, SelectedInv, recordAdditions
    PROVE  /\ members' \in [Watched -> [Keys -> 0 .. MaxUID]]
           /\ \A g \in Watched \ {scan.folder} : members'[g] = members[g]
           /\ \A u \in scan.start .. WindowStop : mail[scan.folder][u] # NoMail =>
                 members'[scan.folder][mail[scan.folder][u]] = u
           /\ \A k \in Keys :
                 (\A u \in scan.start .. WindowStop : mail[scan.folder][u] # k) =>
                     members'[scan.folder][k] = members[scan.folder][k]
           /\ scan.start .. WindowStop \subseteq UIDs
<1> DEFINE f == scan.folder
           metas == {u \in scan.start .. WindowStop : mail[f][u] # NoMail}
           key == [u \in metas |-> mail[f][u]]
           Row(k) == CHOOSE u \in metas : key[u] = k /\ \A v \in metas : key[v] = k => v <= u
           rows == [k \in Keys |-> IF \E u \in metas : key[u] = k THEN Row(k) ELSE members[f][k]]
<1>1. /\ f \in Watched /\ MaxUID \in Nat /\ scan.start \in Nat /\ scan.next \in 0 .. MaxUID + 1
      /\ WindowStop \in scan.start .. scan.next - 1
  BY ScanFacts DEF recordAdditions
<1>2. scan.start >= 1
  BY DEF SelectedInv, Scanning, recordAdditions
<1>3. scan.start .. WindowStop \subseteq UIDs
  BY <1>1, <1>2 DEF UIDs
<1>4. members' = [members EXCEPT ![f] = rows]
  BY DEF recordAdditions
<1>5. members \in [Watched -> [Keys -> 0 .. MaxUID]]
  BY DEF TableType
<1>6. mail[f] \in [UIDs -> Keys \cup {NoMail}]
  BY <1>1 DEF SourceType
<1>7. ASSUME NEW u \in metas
      PROVE  Row(mail[f][u]) = u
  <2>1. \A v \in metas : key[v] = mail[f][u] => v = u
    BY <1>1, <1>3, <1>7 DEF MailInv
  <2>2. key[u] = mail[f][u] /\ u \in Int
    BY <1>1, <1>7
  <2> HIDE DEF metas, key
  <2>3. key[u] = mail[f][u] /\ \A v \in metas : key[v] = mail[f][u] => v <= u
    BY <2>1, <2>2
  <2>4. QED
    BY <1>7, <2>1, <2>3
<1>8. \A u \in metas : rows[mail[f][u]] = u
  <2>1. SUFFICES ASSUME NEW u \in metas
                 PROVE  rows[mail[f][u]] = u
    OBVIOUS
  <2>2. mail[f][u] \in Keys /\ key[u] = mail[f][u]
    BY <1>3, <1>6
  <2>3. rows[mail[f][u]] = Row(mail[f][u])
    BY <2>2
  <2>4. QED
    BY <1>7, <2>3
<1>9. \A k \in Keys : (\A u \in metas : mail[f][u] # k) => rows[k] = members[f][k]
  OBVIOUS
<1>10. rows \in [Keys -> 0 .. MaxUID]
  <2>1. SUFFICES ASSUME NEW k \in Keys
                 PROVE  rows[k] \in 0 .. MaxUID
    OBVIOUS
  <2>2. metas \subseteq 0 .. MaxUID
    BY <1>1, <1>3 DEF UIDs
  <2> HIDE DEF f, metas, rows
  <2>3. CASE \A u \in metas : mail[f][u] # k
    BY <1>1, <1>5, <1>9, <2>3
  <2>4. ASSUME NEW u \in metas, mail[f][u] = k
        PROVE  rows[k] \in 0 .. MaxUID
    BY <1>8, <2>2, <2>4
  <2>5. QED
    BY <2>3, <2>4
<1>11. /\ \A u \in scan.start .. WindowStop : mail[f][u] # NoMail => rows[mail[f][u]] = u
       /\ \A k \in Keys : (\A u \in scan.start .. WindowStop : mail[f][u] # k) =>
             rows[k] = members[f][k]
  BY <1>8, <1>9
<1> HIDE DEF f, rows
<1>12. members'[f] = rows
  BY <1>1, <1>4, <1>5
<1>13. QED
  BY <1>1, <1>3, <1>4, <1>5, <1>10, <1>11, <1>12 DEF f

(* Rows and marks keep their types.                                        *)
LEMMA TableTypeStep ==
    ASSUME TypeOK, PassTypeInv, MailInv, SelectedInv, Next
    PROVE  TableType'
<1>0. SourceType /\ TableType /\ PassType
  BY TypeParts
<1>1. /\ scan.folder \in Watched /\ scan.validity \in 0 .. MaxValidity
      /\ scan.next \in 0 .. MaxUID + 1 /\ scan.stop \in 0 .. MaxUID
      /\ MaxUID \in Nat
  BY <1>0, ScanFacts
<1>2. CASE UNCHANGED <<members, folders>>
  BY <1>0, <1>2 DEF TableType
<1>3. CASE Removals
  BY <1>0, <1>3, RemovedRows DEF TableType, Removals
<1>4. CASE recordAdditions
  BY <1>0, <1>4, AddedRows DEF TableType, recordAdditions
<1>5. CASE CommitWindow
  BY <1>0, <1>1, <1>5 DEF TableType, CommitWindow
<1>6. CASE RebuildRemovals
  BY <1>0, <1>6, RemovedRows DEF TableType, RebuildRemovals
<1>7. CASE AdoptFolder
  <2>1. AdoptedMark \in 0 .. MaxUID
    BY <1>1, <1>7 DEF AdoptedMark, AdoptFolder, SelectedInv, Scanning
  <2>2. QED
    BY <1>0, <1>1, <1>7, <2>1 DEF TableType, AdoptFolder
<1>8. QED
  BY <1>2, <1>3, <1>4, <1>5, <1>6, <1>7, TableWriters

(* What a removal queues.                                                  *)
LEMMA RemovedOps ==
    ASSUME QueueType, PassType, NEW gone, recordRemovals(gone)
    PROVE  pending' \in Seq(PendingOp) /\ Len(pending') >= Len(pending)
<1> DEFINE f == scan.folder
           kind == WatchedKind(cfg, f)
           gated == {k \in gone : kind # none /\ gatePending(k)}
           n == Cardinality(gated)
<1>1. PICK o \in Orders(gated) : pending' = pending \o PendingOps(kind, f, "remove", o)
  BY DEF recordRemovals
<1>2. f \in Watched
  BY ScanFacts
<1>3. gated \subseteq RealKeys /\ RealKeys \subseteq Keys
  BY MembershipAssumption DEF gatePending
<1>4. IsFiniteSet(gated) /\ n \in Nat
  BY <1>3, Finite
<1>5. gated # {} => kind \in {pendingMove, pendingKeyword}
  BY <1>2, KindFacts
<1>6. pending \in Seq(PendingOp)
  BY DEF QueueType
<1> HIDE DEF f, kind, gated, n
<1>7. o \in [1 .. n -> gated] /\ DOMAIN o = 1 .. n
  BY <1>4, OrdersFacts DEF n
<1>8. \A j \in 1 .. n : o[j] \in RealKeys /\ kind \in {pendingMove, pendingKeyword}
  BY <1>3, <1>5, <1>7
<1>9. QED
  BY <1>1, <1>2, <1>4, <1>6, <1>7, <1>8, OpsTyped

(* What a window queues.                                                   *)
LEMMA AddedOps ==
    ASSUME QueueType, PassType, SelectedInv, recordAdditions
    PROVE  pending' \in Seq(PendingOp) /\ Len(pending') >= Len(pending)
<1> DEFINE f == scan.folder
           kind == WatchedKind(cfg, f)
           metas == {u \in scan.start .. WindowStop : mail[f][u] # NoMail}
           key == [u \in metas |-> mail[f][u]]
           gated == {u \in metas : kind # none /\ ~Suppressed(key[u]) /\ gatePending(key[u])}
           n == Cardinality(gated)
<1>1. PICK o \in Ascending(gated) :
         pending' = pending \o PendingOps(kind, f, "add", [i \in DOMAIN o |-> key[o[i]]])
  BY DEF recordAdditions
<1>2. o \in Orders(gated)
  BY DEF Ascending
<1>3. f \in Watched
  BY ScanFacts
<1>4. gated \subseteq UIDs
  <2>1. /\ scan.start \in Nat /\ scan.next \in 0 .. MaxUID + 1
        /\ MaxUID \in Nat /\ WindowStop \in scan.start .. scan.next - 1
    BY ScanFacts DEF recordAdditions
  <2>2. scan.start >= 1
    BY DEF SelectedInv, Scanning, recordAdditions
  <2>3. scan.start .. WindowStop \subseteq UIDs
    BY <2>1, <2>2 DEF UIDs
  <2>4. QED
    BY <2>3
<1>5. IsFiniteSet(gated) /\ n \in Nat
  BY <1>4, Finite
<1>6. \A u \in gated : key[u] \in RealKeys /\ kind \in {pendingMove, pendingKeyword}
  BY <1>3, KindFacts DEF gatePending
<1>7. pending \in Seq(PendingOp)
  BY DEF QueueType
<1> HIDE DEF f, kind, gated, n, key
<1>8. o \in [1 .. n -> gated] /\ DOMAIN o = 1 .. n
  BY <1>2, <1>5, OrdersFacts DEF n
<1> DEFINE order == [i \in DOMAIN o |-> key[o[i]]]
<1>9. /\ DOMAIN order = 1 .. n
      /\ \A j \in 1 .. n : order[j] \in RealKeys /\ kind \in {pendingMove, pendingKeyword}
  BY <1>6, <1>8
<1>10. pending' = pending \o PendingOps(kind, f, "add", order)
  BY <1>1
<1> HIDE DEF order
<1>11. QED
  BY <1>3, <1>5, <1>7, <1>9, <1>10, OpsTyped

(* The queue keeps its type, and a page stays within it.                   *)
LEMMA QueueTypeStep ==
    ASSUME TypeOK, PassTypeInv, SelectedInv, Next
    PROVE  QueueType'
<1>0. QueueType /\ PassType
  BY TypeParts
<1>1. /\ pending \in Seq(PendingOp) /\ Len(pending) \in Nat
      /\ page \in 0 .. Len(pending) /\ done \in 0 .. page
      /\ PageSize \in Nat
  BY <1>0, MembershipAssumption DEF QueueType
<1>2. ASSUME pending' \in Seq(PendingOp), Len(pending') >= Len(pending), UNCHANGED <<page, done>>
      PROVE  QueueType'
  BY <1>1, <1>2 DEF QueueType
<1>3. CASE UNCHANGED <<pending, page, done>>
  BY <1>1, <1>3 DEF QueueType
<1>4. CASE Removals
  BY <1>0, <1>2, <1>4, RemovedOps DEF Removals, queueVars
<1>5. CASE recordAdditions
  <2>1. UNCHANGED <<page, done>>
    BY <1>5 DEF recordAdditions, queueVars
  <2>2. QED
    BY <1>0, <1>2, <1>5, <2>1, AddedOps
<1>6. CASE RebuildRemovals
  BY <1>0, <1>2, <1>6, RemovedOps DEF RebuildRemovals, queueVars
<1>7. CASE LoadPage
  BY <1>1, <1>7 DEF LoadPage, storeVars, PageLength, QueueType
<1>8. CASE applyPending
  <2>1. UNCHANGED <<pending, page>> /\ done' = done + 1 /\ done < page
    BY <1>8 DEF applyPending, storeVars
  <2>2. QED
    BY <1>1, <2>1 DEF QueueType
<1>9. ASSUME NEW n \in 0 .. Len(pending), DeletePendingBatch(n), page' = 0, done' = 0
      PROVE  QueueType'
  <2>1. pending' \in Seq(PendingOp)
    <3>1. n + 1 \in 1 .. Len(pending) + 1 /\ \A m \in n + 1 .. Len(pending) : m \in 1 .. Len(pending)
      BY <1>1, <1>9
    <3>2. SubSeq(pending, n + 1, Len(pending)) \in Seq(PendingOp)
      BY <1>1, <3>1, SubSeqProperties
    <3>3. QED
      BY <1>9, <3>2 DEF DeletePendingBatch
  <2>2. Len(pending') \in Nat
    BY <2>1
  <2>3. QED
    BY <1>9, <2>1, <2>2 DEF QueueType
<1>10. CASE PageDone
  <2>1. done \in 0 .. Len(pending)
    BY <1>1
  <2>2. QED
    BY <1>9, <1>10, <2>1 DEF PageDone
<1>11. CASE Crash
  BY <1>1, <1>11 DEF Crash, Abort, storeVars, QueueType
<1>12. CASE ApplyFails
  <2>1. Completed \in 0 .. Len(pending)
    BY <1>1 DEF Completed
  <2>2. QED
    BY <1>9, <1>12, <2>1 DEF ApplyFails, Abort
<1>13. QED
  BY <1>3, <1>4, <1>5, <1>6, <1>7, <1>8, <1>10, <1>11, <1>12, QueueWriters

(* Only mail that arrived is copied or to be copied.                       *)
LEMMA CopyTypeStep ==
    ASSUME TypeOK, PassTypeInv, Next
    PROVE  CopyType'
<1>0. CopyType
  BY TypeParts
<1>1. CASE UNCHANGED <<allMail, copied, cand, unsaved>>
  BY <1>0, <1>1 DEF CopyType
<1>2. CASE MembershipDone
  BY <1>0, <1>2 DEF CopyType, MembershipDone, srcVars, storeVars
<1>3. CASE \E k \in Keys : Guard(k)
  BY <1>0, <1>3 DEF CopyType, Guard, srcVars
<1>4. CASE \E k \in Keys : AppendCopy(k)
  BY <1>0, <1>4 DEF CopyType, AppendCopy, srcVars, storeVars
<1>5. CASE RecordCopies
  BY <1>0, <1>5 DEF CopyType, RecordCopies, srcVars
<1>6. CASE Crash \/ ApplyFails
  BY <1>0, <1>6 DEF CopyType, Crash, ApplyFails, Abort, srcVars, storeVars
<1>7. CASE \E k \in Keys : Arrive(k)
  BY <1>0, <1>7 DEF CopyType, Arrive, storeVars, passVars, copyVars
<1>8. QED
  BY <1>1, <1>2, <1>3, <1>4, <1>5, <1>6, <1>7, CopyWriters

(* Where copies go and what they are tagged with.                          *)
LEMMA TargetFacts ==
    ASSUME NEW k, NEW c
    PROVE  /\ destFolderFor(c, k) \in {DestFolder, SentFolder, ArchiveFolder}
           /\ labelKeywords(c, k) \subseteq {KeywordOf[f] : f \in Watched}
  BY DEF destFolderFor, labelKeywords, labelsFor

(* The destination and the configuration keep their types.                 *)
LEMMA DestTypeStep ==
    ASSUME TypeOK, PassTypeInv, Next
    PROVE  DestType'
<1> DEFINE F == {DestFolder, SentFolder, ArchiveFolder}
           W == {KeywordOf[f] : f \in Watched}
<1>0. QueueType /\ DestType
  BY TypeParts
<1>1. /\ place \in [Keys -> SUBSET F] /\ keywords \in [Keys -> SUBSET W] /\ cfg \in Configs
      /\ fingerprint \in [archive : BOOLEAN, sent : BOOLEAN, labels : BOOLEAN] \cup {NoPrint}
  BY <1>0 DEF DestType
<1>2. /\ \A k : destFolderFor(cfg, k) \in F
      /\ \A k : labelKeywords(cfg, k) \subseteq W
  BY TargetFacts
<1>3. ASSUME place' \in [Keys -> SUBSET F], keywords' \in [Keys -> SUBSET W],
             UNCHANGED <<fingerprint, cfg>>
      PROVE  DestType'
  BY <1>1, <1>3 DEF DestType
<1> HIDE DEF F, W
<1>4. CASE UNCHANGED <<fingerprint, place, keywords, cfg>>
  BY <1>1, <1>3, <1>4
<1>5. ASSUME NEW k \in Keys, BackfillTag(k)
      PROVE  DestType'
  <2>1. missingKeywords(k) \subseteq W
    BY <1>2 DEF missingKeywords
  <2>2. keywords' \in [Keys -> SUBSET W]
    BY <1>1, <1>5, <2>1 DEF BackfillTag
  <2>3. QED
    BY <1>1, <1>3, <1>5, <2>2 DEF BackfillTag, storeVars
<1>6. ASSUME NEW k \in Keys, BackfillMove(k)
      PROVE  DestType'
  <2>1. place' \in [Keys -> SUBSET F]
    BY <1>1, <1>2, <1>6 DEF BackfillMove
  <2>2. QED
    BY <1>1, <1>3, <1>6, <2>1 DEF BackfillMove, storeVars
<1>7. ASSUME NEW k \in Keys, AppendCopy(k)
      PROVE  DestType'
  <2>1. place' \in [Keys -> SUBSET F]
    BY <1>1, <1>2, <1>7 DEF AppendCopy
  <2>2. keywords' \in [Keys -> SUBSET W]
    BY <1>1, <1>2, <1>7 DEF AppendCopy
  <2>3. QED
    BY <1>3, <1>7, <2>1, <2>2 DEF AppendCopy, storeVars
<1>8. CASE BackfillDone
  <2>1. cfg \in Config
    BY <1>1, MembershipAssumption
  <2>2. backfillFingerprint(cfg) \in [archive : BOOLEAN, sent : BOOLEAN, labels : BOOLEAN]
    BY <2>1 DEF backfillFingerprint, Config
  <2>3. QED
    BY <1>0, <1>8, <2>2 DEF DestType, BackfillDone, destVars
<1>9. CASE applyPending
  <2> DEFINE op == pending[done + 1]
  <2>1. op.key \in Keys /\ op.folder \in Watched
    <3>1. done + 1 \in 1 .. Len(pending) /\ pending \in Seq(PendingOp)
      BY <1>0, <1>9 DEF QueueType, applyPending
    <3>2. op \in PendingOp
      BY <3>1
    <3>3. QED
      BY <3>2, MembershipAssumption DEF PendingOp
  <2> HIDE DEF op
  <2>2. Moved(op.key) \in [Keys -> SUBSET F]
    <3>1. destFolderFor(cfg, op.key) \in F
      BY <1>2, <2>1
    <3>2. QED
      BY <1>1, <3>1 DEF Moved
  <2>3. Retagged(op) \in [Keys -> SUBSET W]
    <3>1. KeywordOf[op.folder] \in W
      BY <2>1 DEF W
    <3>2. QED
      BY <1>1, <3>1 DEF Retagged
  <2>4. /\ \/ (place' = Moved(op.key) \/ UNCHANGED place) /\ UNCHANGED keywords
           \/ keywords' = Retagged(op) /\ UNCHANGED place
        /\ UNCHANGED <<fingerprint, cfg>>
    BY <1>9 DEF applyPending, op, storeVars
  <2>5. place' \in [Keys -> SUBSET F]
    BY <1>1, <2>2, <2>4
  <2>6. keywords' \in [Keys -> SUBSET W]
    BY <1>1, <2>3, <2>4
  <2>7. QED
    BY <1>3, <2>4, <2>5, <2>6
<1>10. CASE Reconfigure
  BY <1>0, <1>10 DEF DestType, Reconfigure, storeVars, destVars
<1>11. QED
  BY <1>4, <1>5, <1>6, <1>7, <1>8, <1>9, <1>10, DestWriters

(* The empty scan is a scan.                                               *)
LEMMA NoScanTyped == NoScan \in Scans
<1>1. SourceInbox \in Watched /\ MaxValidity \in Nat /\ MaxUID \in Nat
  BY MembershipAssumption DEF Watched
<1>2. QED
  BY <1>1 DEF NoScan, Scans

(* The phase and the scan keep their types.                                *)
LEMMA PassTypeStep ==
    ASSUME TypeOK, PassTypeInv, SelectedInv, Next
    PROVE  PassType'
<1>0. SourceType /\ TableType /\ PassType /\ NoScan \in Scans
  BY TypeParts, NoScanTyped
<1>1. phase \in Phases /\ scan \in Scans /\ todo \subseteq Watched
  BY <1>0 DEF PassType
<1>2. CASE UNCHANGED <<phase, scan, todo>>
  BY <1>1, <1>2 DEF PassType
<1>3. CASE StartPass
  BY <1>0, <1>1, <1>3 DEF PassType, StartPass, WatchedFolders, Watched, Phases
<1>4. ASSUME NEW f \in Watched, SelectNamedFolder(f)
      PROVE  PassType'
  <2>1. /\ validity[f] \in 0 .. MaxValidity /\ top[f] \in 0 .. MaxUID /\ MaxUID \in Nat
        /\ folders[f].last \in 0 .. MaxUID
    BY <1>0, MembershipAssumption DEF SourceType, TableType
  <2>2. FirstUID(f) \in Nat /\ top[f] + 1 \in 0 .. MaxUID + 1 /\ 0 \in 0 .. MaxUID
    BY <2>1 DEF FirstUID
  <2>3. MemberKeys(f) \subseteq Keys
    BY DEF MemberKeys
  <2>4. PICK same \in BOOLEAN :
            scan' = [folder |-> f, validity |-> validity[f], next |-> top[f] + 1,
                     start |-> FirstUID(f), stop |-> 0,
                     rebuild |-> ~same, stored |-> MemberKeys(f), seen |-> {}]
    BY <1>4, Zenon DEF SelectNamedFolder
  <2>5. scan' \in Scans
    BY <2>1, <2>2, <2>3, <2>4 DEF Scans
  <2>6. phase' \in Phases /\ UNCHANGED todo
    BY <1>4 DEF SelectNamedFolder, Phases
  <2>7. QED
    BY <1>1, <2>5, <2>6 DEF PassType
<1>5. CASE Removals \/ RebuildRemovals
  BY <1>1, <1>5 DEF Removals, RebuildRemovals, scanVars, PassType, Phases
<1>6. CASE recordAdditions
  <2> DEFINE seen == scan.seen \cup {mail[scan.folder][u] :
                         u \in {u \in scan.start .. WindowStop : mail[scan.folder][u] # NoMail}}
             start == IF scan.rebuild THEN scan.start + UIDBatch ELSE scan.start
  <2>1. WindowStop \in 0 .. MaxUID /\ start \in Nat
    <3>1. /\ scan.start \in Nat /\ scan.next \in 0 .. MaxUID + 1 /\ MaxUID \in Nat
          /\ UIDBatch \in Nat /\ WindowStop \in scan.start .. scan.next - 1
      BY <1>0, <1>6, ScanFacts DEF recordAdditions
    <3>2. QED
      BY <3>1
  <2>2. seen \subseteq Keys
    <3>1. /\ scan.start \in Nat /\ scan.next \in 0 .. MaxUID + 1 /\ scan.seen \subseteq Keys
          /\ MaxUID \in Nat /\ WindowStop \in scan.start .. scan.next - 1
          /\ scan.folder \in Watched
      BY <1>0, <1>6, ScanFacts DEF recordAdditions
    <3>2. scan.start >= 1
      BY <1>6 DEF SelectedInv, Scanning, recordAdditions
    <3>3. scan.start .. WindowStop \subseteq UIDs
      BY <3>1, <3>2 DEF UIDs
    <3>4. mail[scan.folder] \in [UIDs -> Keys \cup {NoMail}]
      BY <1>0, <3>1 DEF SourceType
    <3>5. QED
      BY <3>1, <3>3, <3>4
  <2>3. scan' = [scan EXCEPT !.seen = seen, !.stop = WindowStop, !.start = start]
    BY <1>6 DEF recordAdditions
  <2> HIDE DEF seen, start
  <2>4. scan' \in Scans
    BY <1>1, <2>1, <2>2, <2>3 DEF Scans
  <2>5. phase' \in Phases /\ UNCHANGED todo
    BY <1>6 DEF recordAdditions, Phases
  <2>6. QED
    BY <1>1, <2>4, <2>5 DEF PassType
<1>7. CASE CommitWindow
  <2>1. scan.start + UIDBatch \in Nat
    BY <1>0, ScanFacts
  <2>2. scan' = [scan EXCEPT !.start = scan.start + UIDBatch]
    BY <1>7 DEF CommitWindow
  <2>3. scan' \in Scans
    BY <1>1, <2>1, <2>2 DEF Scans
  <2>4. QED
    BY <1>1, <1>7, <2>3 DEF CommitWindow, PassType, Phases
<1>8. CASE FolderDone \/ AdoptFolder
  BY <1>0, <1>1, <1>8 DEF FolderDone, AdoptFolder, PassType, Phases
<1>9. CASE MembershipDone \/ BackfillScan \/ BackfillNext \/ BackfillDone \/ MirrorDone \/ LoadPage
  <2>1. phase' \in Phases
    BY <1>9 DEF MembershipDone, BackfillScan, BackfillNext, BackfillDone, MirrorDone, LoadPage,
       Phases
  <2>2. UNCHANGED <<scan, todo>>
    BY <1>9 DEF MembershipDone, BackfillScan, BackfillNext, BackfillDone, MirrorDone, LoadPage,
       scanVars
  <2>3. QED
    BY <1>1, <2>1, <2>2 DEF PassType
<1>10. CASE Crash \/ ApplyFails
  BY <1>0, <1>10 DEF Crash, ApplyFails, Abort, PassType, Phases
<1>11. QED
  BY <1>2, <1>3, <1>4, <1>5, <1>6, <1>7, <1>8, <1>9, <1>10, PassWriters

(* Every step keeps every type.                                            *)
LEMMA TypeStep ==
    ASSUME TypeOK, PassTypeInv, MailInv, SelectedInv, Next
    PROVE  TypeOK' /\ PassTypeInv'
  BY TypeParts, SourceTypeStep, TableTypeStep, QueueTypeStep, CopyTypeStep, DestTypeStep,
     PassTypeStep

-----------------------------------------------------------------------------
(* The table and the folders, one step at a time.                          *)

ScanInv == SelectedInv /\ OnwardInv /\ RebuildInv

(* What is said of a folder depends on that folder and its rows alone.     *)
LEMMA FolderKept ==
    ASSUME NEW f \in Watched, mail'[f] = mail[f], top'[f] = top[f], members'[f] = members[f]
    PROVE  /\ \A S : Covers(f, S) => Covers(f, S)'
           /\ \A K : Truthful(f, K) => Truthful(f, K)'
           /\ MemberKeys(f)' = MemberKeys(f)
           /\ validity'[f] = validity[f] /\ folders'[f] = folders[f] /\ Tracks(f) => Tracks(f)'
<1>1. \A S : Covers(f, S) => Covers(f, S)'
  BY Zenon DEF Covers
<1>2. \A K : Truthful(f, K) => Truthful(f, K)'
  BY Zenon DEF Truthful
<1>3. MemberKeys(f)' = MemberKeys(f)
  BY Zenon DEF MemberKeys, MemberHas
<1>4. validity'[f] = validity[f] /\ folders'[f] = folders[f] /\ Tracks(f) => Tracks(f)'
  BY <1>1, <1>2, <1>3 DEF Tracks
<1>5. QED
  BY <1>1, <1>2, <1>3, <1>4

(* Steps that touch neither keep everything; the scan may end.             *)
LEMMA StillStep ==
    ASSUME MailInv, TrackInv, ScanInv, UNCHANGED <<mail, top, validity, members, folders>>,
           UNCHANGED <<phase, scan>> \/ ~Scanning'
    PROVE  MailInv' /\ TrackInv' /\ ScanInv'
<1>1. MailInv'
  BY DEF MailInv
<1>2. TrackInv'
  BY FolderKept DEF TrackInv
<1>3. CASE ~Scanning'
  BY <1>1, <1>2, <1>3 DEF ScanInv, SelectedInv, OnwardInv, RebuildInv
<1>4. CASE UNCHANGED <<phase, scan>>
  <2>1. SelectedInv'
    BY <1>4 DEF ScanInv, SelectedInv, Scanning
  <2>2. OnwardInv'
    BY <1>4 DEF ScanInv, OnwardInv, Scanning, Covers, WindowStop
  <2>3. RebuildInv'
    BY <1>4 DEF ScanInv, RebuildInv, Scanning, Covers, Truthful, MemberKeys, MemberHas, Behind
  <2>4. QED
    BY <1>1, <1>2, <2>1, <2>2, <2>3 DEF ScanInv
<1>5. QED
  BY <1>3, <1>4

(* A scan starts at the mark, or at the first UID for a rebuild.           *)
LEMMA SelectStep ==
    ASSUME MembershipInv, NEW f \in Watched, SelectNamedFolder(f)
    PROVE  MailInv' /\ TrackInv' /\ ScanInv'
<1>0. SourceType /\ TableType /\ MailInv /\ TrackInv
  BY TypeParts DEF MembershipInv
<1>1. UNCHANGED <<mail, top, validity, members, folders>>
  BY DEF SelectNamedFolder, srcVars, storeVars
<1>2. MailInv' /\ TrackInv'
  BY <1>0, <1>1, FolderKept DEF MailInv, TrackInv
<1>3. /\ folders[f].last \in Nat /\ top[f] \in Nat
      /\ folders[f].validity \in Int /\ validity[f] \in Int /\ MaxUID \in Nat
  BY <1>0, MembershipAssumption DEF SourceType, TableType
<1> DEFINE same == folders[f].validity = validity[f]
<1>4. /\ scan' = [folder |-> f, validity |-> validity[f], next |-> top[f] + 1,
                  start |-> FirstUID(f), stop |-> 0,
                  rebuild |-> ~same, stored |-> MemberKeys(f), seen |-> {}]
      /\ phase' = IF same THEN "removals" ELSE "windows"
  BY DEF SelectNamedFolder
<1>5. /\ scan'.folder = f /\ scan'.validity = validity[f] /\ scan'.next = top[f] + 1
      /\ scan'.start = FirstUID(f) /\ scan'.rebuild = ~same
      /\ scan'.stored = MemberKeys(f) /\ scan'.seen = {}
  BY <1>4
<1>6. FirstUID(f) = IF same THEN folders[f].last + 1 ELSE 1
  BY DEF FirstUID
<1>7. SelectedInv'
  <2>1. scan'.rebuild = (folders'[scan'.folder].validity # validity'[scan'.folder])
    BY <1>1, <1>5, Zenon
  <2>2. phase' \in {"removals", "commit"} => ~scan'.rebuild
    BY <1>4, <1>5, Zenon
  <2>3. /\ scan'.validity = validity'[scan'.folder]
        /\ scan'.next \in 1 .. top'[scan'.folder] + 1
        /\ scan'.start >= 1
    BY <1>1, <1>3, <1>5, <1>6
  <2>4. QED
    BY <2>1, <2>2, <2>3 DEF SelectedInv
<1>8. OnwardInv'
  BY <1>1, <1>4, <1>5, <1>6 DEF OnwardInv
<1>9. RebuildInv'
  <2>1. SUFFICES ASSUME scan'.rebuild
                 PROVE  /\ Covers(f, Behind)'
                        /\ \A u \in Behind' : mail'[f][u] \in {NoMail}
                        /\ Truthful(f, {})'
                        /\ MemberKeys(f)' \subseteq MemberKeys(f)
                        /\ phase' # "rebuilt"
    BY <1>5 DEF RebuildInv
  <2>2. ~same
    BY <1>5, <2>1, Zenon
  <2>3. Behind' = {}
    <3>1. scan'.start = 1
      BY <1>5, <1>6, <2>2
    <3>2. QED
      BY <1>3, <3>1 DEF Behind, UIDs
  <2>4. QED
    BY <1>1, <1>4, <2>3, FolderKept DEF Covers, Truthful
<1>10. QED
  BY <1>2, <1>7, <1>8, <1>9 DEF ScanInv

(* Only the rows and the mark of the folder f change.                      *)
LEMMA OthersKept ==
    ASSUME MailInv, TrackInv, NEW f \in Watched, UNCHANGED <<mail, top, validity>>,
           \A g \in Watched \ {f} : members'[g] = members[g] /\ folders'[g] = folders[g],
           Tracks(f)'
    PROVE  MailInv' /\ TrackInv'
<1>1. MailInv'
  BY DEF MailInv
<1>2. ASSUME NEW g \in Watched
      PROVE  Tracks(g)'
  <2>1. CASE g = f
    BY <2>1
  <2>2. CASE g # f
    BY <2>2, FolderKept DEF TrackInv
  <2>3. QED
    BY <2>1, <2>2
<1>3. QED
  BY <1>1, <1>2 DEF TrackInv

(* The diff takes only rows whose UID is empty.                            *)
LEMMA RemovalsStep ==
    ASSUME MembershipInv, Removals
    PROVE  MailInv' /\ TrackInv' /\ ScanInv'
<1>0. /\ SourceType /\ TableType /\ PassType /\ MailInv /\ TrackInv
      /\ SelectedInv /\ OnwardInv /\ RebuildInv
  BY TypeParts DEF MembershipInv
<1>1. PICK f \in Watched : f = scan.folder
  BY <1>0, ScanFacts
<1>2. /\ UNCHANGED <<mail, top, validity, folders, scan>>
      /\ phase = "removals" /\ phase' = "windows" /\ recordRemovals(Gone)
  BY DEF Removals, srcVars, scanVars
<1>3. ~scan.rebuild /\ Scanning /\ folders[f].validity = validity[f]
  <2>1. Scanning /\ ~scan.rebuild
    BY <1>0, <1>2 DEF SelectedInv, Scanning
  <2>2. scan.rebuild = (folders[f].validity # validity[f])
    BY <1>0, <1>1, <2>1, Zenon DEF SelectedInv
  <2>3. QED
    BY <2>1, <2>2
<1>4. /\ members' \in [Watched -> [Keys -> 0 .. MaxUID]]
      /\ \A g \in Watched \ {f} : members'[g] = members[g]
      /\ \A k \in Keys : members'[f][k] = IF k \in Gone THEN 0 ELSE members[f][k]
  BY <1>0, <1>1, <1>2, RemovedRows
<1>5. /\ folders[f].last \in Nat /\ folders[f].last <= top[f] /\ top[f] \in 0 .. MaxUID
      /\ MaxUID \in Nat /\ folders[f].validity <= validity[f]
      /\ Covers(f, 1 .. folders[f].last) /\ Truthful(f, MemberKeys(f))
  BY <1>0, <1>3, MembershipAssumption DEF SourceType, TableType, TrackInv, Tracks
<1>6. Covers(f, 1 .. folders[f].last)'
  <2>1. SUFFICES ASSUME NEW u \in 1 .. folders[f].last, mail[f][u] # NoMail
                 PROVE  members'[f][mail[f][u]] = u
    BY <1>2 DEF Covers
  <2>2. members[f][mail[f][u]] = u
    BY <1>5, <2>1 DEF Covers
  <2>3. mail[f][u] \in Keys
    BY <1>0, <1>5, <2>1 DEF SourceType, UIDs
  <2>4. mail[f][u] \notin Gone
    BY <1>1, <2>1, <2>2 DEF Gone
  <2>5. QED
    BY <1>4, <2>2, <2>3, <2>4
<1>7. Truthful(f, MemberKeys(f))'
  <2>1. MemberKeys(f)' \subseteq MemberKeys(f) \ Gone
    BY <1>4 DEF MemberKeys, MemberHas
  <2>2. \A k \in MemberKeys(f)' : members'[f][k] = members[f][k]
    BY <1>4, <2>1 DEF MemberKeys
  <2>3. QED
    BY <1>2, <1>5, <2>1, <2>2 DEF Truthful
<1>8. Tracks(f)'
  BY <1>2, <1>5, <1>6, <1>7 DEF Tracks
<1>9. MailInv' /\ TrackInv'
  BY <1>0, <1>2, <1>4, <1>8, OthersKept
<1>10. SelectedInv'
  BY <1>0, <1>2, <1>3 DEF SelectedInv
<1>11. OnwardInv'
  BY <1>0, <1>2, <1>3 DEF OnwardInv
<1>12. RebuildInv'
  BY <1>2, <1>3 DEF RebuildInv
<1>13. QED
  BY <1>9, <1>10, <1>11, <1>12 DEF ScanInv

(* After a window: mail that had its row keeps it, mail of the window has  *)
(* it, and a row that was changed names mail that is there.                *)
LEMMA WindowRows ==
    ASSUME MembershipInv, recordAdditions, NEW f \in Watched, f = scan.folder
    PROVE  /\ \A u \in UIDs : mail[f][u] # NoMail /\ members[f][mail[f][u]] = u =>
                 members'[f][mail[f][u]] = u
           /\ \A u \in scan.start .. WindowStop : mail[f][u] # NoMail =>
                 members'[f][mail[f][u]] = u
           /\ \A k \in Keys : \/ members'[f][k] = members[f][k]
                              \/ \E u \in scan.start .. WindowStop :
                                    mail[f][u] = k /\ members'[f][k] = u
           /\ scan.start .. WindowStop \subseteq 1 .. top[f]
           /\ scan.start .. WindowStop \subseteq UIDs
<1>0. SourceType /\ TableType /\ PassType /\ MailInv /\ SelectedInv
  BY TypeParts DEF MembershipInv
<1> DEFINE W == scan.start .. WindowStop
<1>1. /\ \A u \in W : mail[f][u] # NoMail => members'[f][mail[f][u]] = u
      /\ \A k \in Keys : (\A u \in W : mail[f][u] # k) => members'[f][k] = members[f][k]
      /\ W \subseteq UIDs
  BY <1>0, AddedRows
<1>2. Scanning
  BY DEF recordAdditions, Scanning
<1>3. mail[f] \in [UIDs -> Keys \cup {NoMail}] /\ NoMail \notin Keys
  BY <1>0, MembershipAssumption DEF SourceType
<1>4. W \subseteq 1 .. top[f]
  <2>1. /\ scan.start \in Nat /\ scan.next \in 0 .. MaxUID + 1 /\ MaxUID \in Nat
        /\ WindowStop \in scan.start .. scan.next - 1
    BY <1>0, ScanFacts DEF recordAdditions
  <2>2. scan.next <= top[f] + 1 /\ scan.start >= 1
    <3>1. scan.next \in 1 .. top[f] + 1 /\ scan.start >= 1
      BY <1>0, <1>2 DEF SelectedInv
    <3>2. top[f] \in Nat
      BY <1>0 DEF SourceType
    <3>3. QED
      BY <3>1, <3>2
  <2>3. top[f] \in Nat
    BY <1>0 DEF SourceType
  <2>4. QED
    BY <2>1, <2>2, <2>3
<1> HIDE DEF W
<1>5. ASSUME NEW u \in UIDs, mail[f][u] # NoMail, members[f][mail[f][u]] = u
      PROVE  members'[f][mail[f][u]] = u
  <2>1. CASE \E v \in W : mail[f][v] = mail[f][u]
    BY <1>0, <1>1, <1>5, <2>1 DEF MailInv
  <2>2. CASE \A v \in W : mail[f][v] # mail[f][u]
    BY <1>1, <1>3, <1>5, <2>2
  <2>3. QED
    BY <2>1, <2>2
<1>6. ASSUME NEW k \in Keys, members'[f][k] # members[f][k]
      PROVE  \E u \in W : mail[f][u] = k /\ members'[f][k] = u
  <2>1. PICK u \in W : mail[f][u] = k
    BY <1>1, <1>6
  <2>2. QED
    BY <1>1, <1>3, <2>1
<1>7. QED
  BY <1>1, <1>4, <1>5, <1>6 DEF W

(* A window gives mail its rows before the mark passes it.                 *)
LEMMA AdditionsStep ==
    ASSUME MembershipInv, recordAdditions
    PROVE  MailInv' /\ TrackInv' /\ ScanInv'
<1>0. /\ SourceType /\ TableType /\ PassType /\ MailInv /\ TrackInv
      /\ SelectedInv /\ OnwardInv /\ RebuildInv
  BY TypeParts DEF MembershipInv
<1>1. PICK f \in Watched : f = scan.folder
  BY <1>0, ScanFacts
<1> DEFINE W == scan.start .. WindowStop
<1>1a. PICK shown : shown = {mail[f][u] : u \in {v \in W : mail[f][v] # NoMail}}
  OBVIOUS
<1>2. /\ UNCHANGED <<mail, top, validity, folders>>
      /\ phase = "windows" /\ phase' = IF scan.rebuild THEN "windows" ELSE "commit"
  BY DEF recordAdditions, srcVars
<1>3. Scanning
  BY <1>2 DEF Scanning
<1>4. scan' = [scan EXCEPT !.seen = scan.seen \cup shown, !.stop = WindowStop,
                           !.start = IF scan.rebuild THEN scan.start + UIDBatch ELSE scan.start]
  <2>1. shown = {[v \in {w \in W : mail[f][w] # NoMail} |-> mail[f][v]][u] :
                    u \in {x \in W : mail[f][x] # NoMail}}
    BY <1>1a
  <2>2. QED
    BY <1>1, <2>1 DEF recordAdditions
<1>5. /\ scan'.folder = f /\ scan'.validity = scan.validity /\ scan'.next = scan.next
      /\ scan'.rebuild = scan.rebuild /\ scan'.stored = scan.stored
      /\ scan'.seen = scan.seen \cup shown /\ scan'.stop = WindowStop
      /\ scan'.start = IF scan.rebuild THEN scan.start + UIDBatch ELSE scan.start
  BY <1>0, <1>1, <1>4 DEF PassType, Scans
<1>6. /\ \A u \in UIDs : mail[f][u] # NoMail /\ members[f][mail[f][u]] = u =>
            members'[f][mail[f][u]] = u
      /\ \A u \in W : mail[f][u] # NoMail => members'[f][mail[f][u]] = u
      /\ \A k \in Keys : \/ members'[f][k] = members[f][k]
                         \/ \E u \in W : mail[f][u] = k /\ members'[f][k] = u
      /\ W \subseteq 1 .. top[f] /\ W \subseteq UIDs
  BY <1>1, WindowRows
<1>7. \A g \in Watched \ {f} : members'[g] = members[g]
  BY <1>0, <1>1, AddedRows
<1>8. /\ scan.start \in Nat \ {0} /\ scan.next \in 1 .. top[f] + 1 /\ scan.start < scan.next
      /\ UIDBatch \in Nat \ {0} /\ MaxUID \in Nat /\ top[f] \in 0 .. MaxUID
      /\ folders[f].last \in 0 .. MaxUID
      /\ scan.rebuild \in BOOLEAN /\ scan.rebuild = (folders[f].validity # validity[f])
  <2>1. scan.start >= 1 /\ scan.next \in 1 .. top[f] + 1
    BY <1>0, <1>1, <1>3 DEF SelectedInv
  <2>2. scan.start \in Nat /\ UIDBatch \in Nat \ {0} /\ MaxUID \in Nat
    BY <1>0, ScanFacts
  <2>3. top[f] \in 0 .. MaxUID /\ folders[f].last \in 0 .. MaxUID
    BY <1>0 DEF SourceType, TableType
  <2>4. scan.start < scan.next
    BY DEF recordAdditions
  <2>5. scan.rebuild \in BOOLEAN /\ scan.rebuild = (folders[f].validity # validity[f])
    BY <1>0, <1>1, <1>3, ScanFacts, Zenon DEF SelectedInv
  <2>6. QED
    BY <2>1, <2>2, <2>3, <2>4, <2>5
<1> HIDE DEF W
<1>9. ASSUME NEW K, K \subseteq Keys, Truthful(f, K)
      PROVE  Truthful(f, K \cup shown)'
  <2>1. SUFFICES ASSUME NEW k \in K \cup shown
                 PROVE  members'[f][k] \in 1 .. top[f] /\ mail[f][members'[f][k]] \in {k, NoMail}
    BY <1>2 DEF Truthful
  <2>2. CASE k \in shown
    <3>1. PICK u \in W : mail[f][u] = k /\ mail[f][u] # NoMail
      BY <1>1a, <2>2
    <3>2. members'[f][k] = u
      BY <1>6, <3>1
    <3>3. QED
      BY <1>6, <3>1, <3>2
  <2>3. CASE k \in K
    <3>1. k \in Keys /\ members[f][k] \in 1 .. top[f] /\ mail[f][members[f][k]] \in {k, NoMail}
      BY <1>9, <2>3 DEF Truthful
    <3>2. QED
      BY <1>6, <3>1
  <2>4. QED
    BY <2>1, <2>2, <2>3
<1>10. MemberKeys(f)' \subseteq MemberKeys(f) \cup shown
  <2>1. SUFFICES ASSUME NEW k \in Keys, members'[f][k] # 0, members[f][k] = 0
                 PROVE  k \in shown
    BY DEF MemberKeys, MemberHas
  <2>2. PICK u \in W : mail[f][u] = k
    BY <1>6, <2>1
  <2>3. k # NoMail
    BY MembershipAssumption
  <2>4. QED
    BY <1>1a, <2>2, <2>3
<1>11. Tracks(f)'
  <2>1. Tracks(f)
    BY <1>0 DEF TrackInv
  <2>2. CASE folders[f].validity # validity[f]
    BY <1>2, <2>1, <2>2 DEF Tracks
  <2>3. CASE folders[f].validity = validity[f]
    <3>1. /\ Covers(f, 1 .. folders[f].last) /\ Truthful(f, MemberKeys(f))
          /\ folders[f].last <= top[f] /\ folders[f].validity <= validity[f]
      BY <2>1, <2>3 DEF Tracks
    <3>2. Covers(f, 1 .. folders[f].last)'
      <4>1. 1 .. folders[f].last \subseteq UIDs
        BY <1>8 DEF UIDs
      <4>2. QED
        BY <1>2, <1>6, <3>1, <4>1 DEF Covers
    <3>3. Truthful(f, MemberKeys(f))'
      <4>1. MemberKeys(f) \subseteq Keys
        BY DEF MemberKeys
      <4>2. PICK K : K = MemberKeys(f)
        OBVIOUS
      <4>3. Truthful(f, K \cup shown)'
        BY <1>9, <3>1, <4>1, <4>2
      <4>4. QED
        BY <1>10, <4>2, <4>3 DEF Truthful
    <3>4. QED
      BY <1>2, <3>1, <3>2, <3>3 DEF Tracks
  <2>4. QED
    BY <2>2, <2>3
<1>12. MailInv' /\ TrackInv'
  BY <1>0, <1>2, <1>7, <1>11, OthersKept
<1>13. SelectedInv'
  <2>1. /\ scan.validity = validity[f]
        /\ phase' \in {"removals", "commit"} => ~scan.rebuild
    BY <1>0, <1>1, <1>2, <1>3 DEF SelectedInv
  <2>2. scan'.start >= 1
    BY <1>5, <1>8
  <2>3. QED
    BY <1>2, <1>5, <1>8, <2>1, <2>2 DEF SelectedInv
<1>14. OnwardInv'
  <2>1. SUFFICES ASSUME ~scan.rebuild
                 PROVE  /\ scan.start = folders[f].last + 1
                        /\ WindowStop = WindowStop'
                        /\ Covers(f, scan.start .. scan.stop)'
    <3>1. ~scan'.rebuild => ~scan.rebuild /\ phase' = "commit"
      BY <1>2, <1>5
    <3>2. QED
      BY <1>2, <1>5, <1>8, <3>1 DEF OnwardInv
  <2>2. scan.start = folders[f].last + 1
    BY <1>0, <1>1, <1>3, <1>8, <2>1 DEF OnwardInv
  <2>3. WindowStop = WindowStop'
    BY <1>5, <2>1 DEF WindowStop
  <2>4. Covers(f, scan.start .. scan.stop)'
    <3>1. scan'.start .. scan'.stop = W
      BY <1>5, <2>1 DEF W
    <3>2. QED
      BY <1>2, <1>6, <3>1 DEF Covers
  <2>5. QED
    BY <2>2, <2>3, <2>4
<1>15. RebuildInv'
  <2>1. SUFFICES ASSUME scan.rebuild
                 PROVE  /\ Covers(f, Behind)'
                        /\ \A u \in Behind' : mail[f][u] \in scan.seen \cup shown \cup {NoMail}
                        /\ scan.seen \cup shown \subseteq MemberKeys(f)'
                        /\ Truthful(f, scan.seen)'
                        /\ MemberKeys(f)' \subseteq scan.stored \cup scan.seen \cup shown
    BY <1>2, <1>5 DEF RebuildInv
  <2>2. /\ Covers(f, Behind)
        /\ \A u \in Behind : mail[f][u] \in scan.seen \cup {NoMail}
        /\ scan.seen \subseteq MemberKeys(f)
        /\ Truthful(f, scan.seen)
        /\ MemberKeys(f) \subseteq scan.stored \cup scan.seen
    BY <1>0, <1>1, <1>3, <2>1 DEF RebuildInv
  <2>3. Behind' \subseteq Behind \cup W /\ Behind' \subseteq UIDs
    BY <1>5, <1>8, <2>1 DEF Behind, W, WindowStop, UIDs
  <2>4. \A u \in Behind' : mail[f][u] # NoMail => members'[f][mail[f][u]] = u
    BY <1>6, <2>2, <2>3 DEF Covers
  <2>5. \A u \in Behind' : mail[f][u] \in scan.seen \cup shown \cup {NoMail}
    BY <1>1a, <2>2, <2>3
  <2>6. scan.seen \cup shown \subseteq MemberKeys(f)'
    <3>1. SUFFICES ASSUME NEW k \in scan.seen \cup shown
                   PROVE  k \in Keys /\ members'[f][k] # 0
      BY DEF MemberKeys, MemberHas
    <3>2. 0 \notin W
      BY <1>8 DEF W
    <3>3. CASE k \in shown
      <4>1. PICK u \in W : mail[f][u] = k /\ k # NoMail
        BY <1>1a, <3>3
      <4>2. k \in Keys
        BY <1>0, <1>6, <4>1 DEF SourceType
      <4>3. QED
        BY <1>6, <3>2, <4>1, <4>2
    <3>4. CASE k \in scan.seen
      <4>1. k \in Keys /\ members[f][k] # 0
        BY <2>2, <3>4 DEF MemberKeys, MemberHas
      <4>2. QED
        BY <1>6, <3>2, <4>1
    <3>5. QED
      BY <3>1, <3>3, <3>4
  <2>7. Truthful(f, scan.seen)'
    <3>1. PICK K : K = scan.seen
      OBVIOUS
    <3>2. K \subseteq Keys /\ Truthful(f, K)
      BY <1>0, <2>2, <3>1, ScanFacts
    <3>3. Truthful(f, K \cup shown)'
      BY <1>9, <3>2
    <3>4. QED
      BY <1>5, <3>1, <3>3 DEF Truthful
  <2>8. QED
    BY <1>2, <1>10, <2>2, <2>4, <2>5, <2>6, <2>7 DEF Covers
<1>16. QED
  BY <1>12, <1>13, <1>14, <1>15 DEF ScanInv

(* The mark moves over the window that was just recorded.                  *)
LEMMA CommitStep ==
    ASSUME MembershipInv, CommitWindow
    PROVE  MailInv' /\ TrackInv' /\ ScanInv'
<1>0. /\ SourceType /\ TableType /\ PassType /\ MailInv /\ TrackInv
      /\ SelectedInv /\ OnwardInv /\ RebuildInv
  BY TypeParts DEF MembershipInv
<1>1. PICK f \in Watched : f = scan.folder
  BY <1>0, ScanFacts
<1>2. /\ UNCHANGED <<mail, top, validity, members>>
      /\ phase = "commit" /\ phase' = "windows"
      /\ folders' = [folders EXCEPT ![f] = [validity |-> scan.validity, last |-> scan.stop]]
      /\ scan' = [scan EXCEPT !.start = scan.start + UIDBatch]
  BY <1>1 DEF CommitWindow, srcVars
<1>3. /\ scan'.folder = f /\ scan'.validity = scan.validity /\ scan'.next = scan.next
      /\ scan'.rebuild = scan.rebuild /\ scan'.start = scan.start + UIDBatch
  BY <1>0, <1>1, <1>2 DEF PassType, Scans
<1>4. Scanning /\ ~scan.rebuild /\ folders[f].validity = validity[f]
  <2>1. Scanning /\ ~scan.rebuild
    BY <1>0, <1>2 DEF SelectedInv, Scanning
  <2>2. scan.rebuild = (folders[f].validity # validity[f])
    BY <1>0, <1>1, <2>1, Zenon DEF SelectedInv
  <2>3. QED
    BY <2>1, <2>2
<1>5. /\ scan.start < scan.next /\ scan.start = folders[f].last + 1
      /\ scan.stop = WindowStop /\ Covers(f, scan.start .. scan.stop)
      /\ scan.validity = validity[f] /\ scan.next \in 1 .. top[f] + 1 /\ scan.start >= 1
  BY <1>0, <1>1, <1>2, <1>4 DEF OnwardInv, SelectedInv
<1>6. /\ scan.start \in Nat /\ UIDBatch \in Nat \ {0} /\ MaxUID \in Nat
      /\ scan.stop \in scan.start .. scan.next - 1
      /\ top[f] \in 0 .. MaxUID /\ folders[f].last \in 0 .. MaxUID /\ validity[f] \in Nat
  BY <1>0, <1>5, ScanFacts DEF SourceType, TableType
<1>7. /\ folders'[f].validity = validity[f] /\ folders'[f].last = scan.stop
      /\ \A g \in Watched \ {f} : folders'[g] = folders[g]
  BY <1>0, <1>2, <1>5 DEF TableType
<1>8. Tracks(f)'
  <2>1. Covers(f, 1 .. folders[f].last) /\ Truthful(f, MemberKeys(f))
    BY <1>0, <1>4 DEF TrackInv, Tracks
  <2>2. 1 .. scan.stop = (1 .. folders[f].last) \cup (scan.start .. scan.stop)
    BY <1>5, <1>6
  <2>3. Covers(f, 1 .. folders[f].last)'
    BY <1>2, <1>5, <1>7, <2>1, <2>2 DEF Covers
  <2>4. Truthful(f, MemberKeys(f))'
    BY <1>2, <2>1 DEF Truthful, MemberKeys, MemberHas
  <2>5. scan.stop <= top[f] /\ validity[f] <= validity[f]
    BY <1>5, <1>6
  <2>6. QED
    BY <1>2, <1>7, <2>3, <2>4, <2>5 DEF Tracks
<1>9. MailInv' /\ TrackInv'
  BY <1>0, <1>2, <1>7, <1>8, OthersKept
<1>10. SelectedInv'
  <2>1. scan'.start >= 1
    BY <1>3, <1>5, <1>6
  <2>2. scan'.rebuild = (folders'[f].validity # validity'[f])
    <3>1. scan'.rebuild = FALSE /\ folders'[f].validity = validity'[f]
      BY <1>0, <1>2, <1>3, <1>4, <1>7, ScanFacts
    <3>2. QED
      BY <3>1, Zenon
  <2>3. QED
    BY <1>2, <1>3, <1>5, <2>1, <2>2 DEF SelectedInv
<1>11. OnwardInv'
  <2>1. scan.start + UIDBatch < scan.next => scan.start + UIDBatch = scan.stop + 1
    <3>1. scan.stop = WindowStop
      BY <1>5
    <3>2. scan.start + UIDBatch < scan.next => scan.stop = scan.start + UIDBatch - 1
      BY <3>1 DEF WindowStop
    <3>3. QED
      BY <1>6, <3>2
  <2>2. QED
    BY <1>2, <1>3, <1>7, <2>1 DEF OnwardInv
<1>12. RebuildInv'
  BY <1>3, <1>4 DEF RebuildInv
<1>13. QED
  BY <1>9, <1>10, <1>11, <1>12 DEF ScanInv

(* A rebuild takes only rows that no window has confirmed.                 *)
LEMMA RebuildRemovalsStep ==
    ASSUME MembershipInv, RebuildRemovals
    PROVE  MailInv' /\ TrackInv' /\ ScanInv'
<1>0. /\ SourceType /\ TableType /\ PassType /\ MailInv /\ TrackInv
      /\ SelectedInv /\ OnwardInv /\ RebuildInv
  BY TypeParts DEF MembershipInv
<1>1. PICK f \in Watched : f = scan.folder
  BY <1>0, ScanFacts
<1>2. /\ UNCHANGED <<mail, top, validity, folders, scan>>
      /\ phase = "windows" /\ phase' = "rebuilt"
      /\ scan.rebuild /\ scan.start >= scan.next
      /\ recordRemovals(scan.stored \ scan.seen)
  BY DEF RebuildRemovals, srcVars, scanVars
<1>3. Scanning
  BY <1>2 DEF Scanning
<1>4. /\ \A g \in Watched \ {f} : members'[g] = members[g]
      /\ \A k \in Keys : members'[f][k] = IF k \in scan.stored \ scan.seen THEN 0
                                          ELSE members[f][k]
  BY <1>0, <1>1, <1>2, RemovedRows
<1>5. folders[f].validity # validity[f] /\ Tracks(f)
  <2>1. scan.rebuild = (folders[f].validity # validity[f])
    BY <1>0, <1>1, <1>3, Zenon DEF SelectedInv
  <2>2. QED
    BY <1>0, <1>2, <2>1 DEF TrackInv
<1>6. Tracks(f)'
  BY <1>2, <1>5 DEF Tracks
<1>7. MailInv' /\ TrackInv'
  BY <1>0, <1>2, <1>4, <1>6, OthersKept
<1>8. /\ Covers(f, Behind)
      /\ \A u \in Behind : mail[f][u] \in scan.seen \cup {NoMail}
      /\ scan.seen \subseteq MemberKeys(f)
      /\ Truthful(f, scan.seen)
      /\ MemberKeys(f) \subseteq scan.stored \cup scan.seen
      /\ scan.seen \subseteq Keys
  BY <1>0, <1>1, <1>2, <1>3, ScanFacts DEF RebuildInv
<1>9. \A k \in scan.seen : members'[f][k] = members[f][k]
  BY <1>4, <1>8
<1>10. Behind' = Behind
  BY <1>2 DEF Behind
<1>11. RebuildInv'
  <2>1. Covers(f, Behind)'
    <3>1. SUFFICES ASSUME NEW u \in Behind, mail[f][u] # NoMail
                   PROVE  members'[f][mail[f][u]] = u
      BY <1>2, <1>10 DEF Covers
    <3>2. members[f][mail[f][u]] = u /\ mail[f][u] \in scan.seen
      BY <1>8, <3>1 DEF Covers
    <3>3. QED
      BY <1>9, <3>2
  <2>2. Truthful(f, scan.seen)'
    BY <1>2, <1>8, <1>9 DEF Truthful
  <2>3. MemberKeys(f)' = scan.seen
    <3>1. scan.seen \subseteq MemberKeys(f)'
      BY <1>8, <1>9 DEF MemberKeys, MemberHas
    <3>2. MemberKeys(f)' \subseteq MemberKeys(f) \ (scan.stored \ scan.seen)
      BY <1>4 DEF MemberKeys, MemberHas
    <3>3. QED
      BY <1>8, <3>1, <3>2
  <2>4. QED
    BY <1>1, <1>2, <1>8, <1>10, <2>1, <2>2, <2>3 DEF RebuildInv
<1>12. SelectedInv'
  BY <1>0, <1>2, <1>3 DEF SelectedInv
<1>13. OnwardInv'
  BY <1>2 DEF OnwardInv
<1>14. QED
  BY <1>7, <1>11, <1>12, <1>13 DEF ScanInv

(* The new numbering is adopted once every row belongs to it.              *)
LEMMA AdoptStep ==
    ASSUME MembershipInv, AdoptFolder
    PROVE  MailInv' /\ TrackInv' /\ ScanInv'
<1>0. /\ SourceType /\ TableType /\ PassType /\ MailInv /\ TrackInv
      /\ SelectedInv /\ OnwardInv /\ RebuildInv
  BY TypeParts DEF MembershipInv
<1>1. PICK f \in Watched : f = scan.folder
  BY <1>0, ScanFacts
<1>2. /\ UNCHANGED <<mail, top, validity, members>>
      /\ phase = "rebuilt" /\ phase' = "membership"
      /\ folders' = [folders EXCEPT ![f] = [validity |-> scan.validity, last |-> scan.next - 1]]
  BY <1>1 DEF AdoptFolder, srcVars, AdoptedMark
<1>3. Scanning /\ scan.rebuild
  BY <1>0, <1>2, ScanFacts DEF Scanning, OnwardInv
<1>4. /\ scan.validity = validity[f] /\ scan.next \in 1 .. top[f] + 1
      /\ scan.start >= scan.next /\ scan.start \in Nat
      /\ Covers(f, Behind) /\ Truthful(f, scan.seen) /\ MemberKeys(f) \subseteq scan.seen
  BY <1>0, <1>1, <1>2, <1>3, ScanFacts DEF SelectedInv, RebuildInv
<1>5. top[f] \in 0 .. MaxUID /\ MaxUID \in Nat /\ validity[f] \in Nat
  BY <1>0, ScanFacts DEF SourceType
<1>6. /\ folders'[f].validity = validity[f] /\ folders'[f].last = scan.next - 1
      /\ \A g \in Watched \ {f} : folders'[g] = folders[g]
  BY <1>0, <1>2, <1>4 DEF TableType
<1>7. Tracks(f)'
  <2>1. 1 .. scan.next - 1 = Behind
    BY <1>4, <1>5 DEF Behind, UIDs
  <2>2. Covers(f, 1 .. folders[f].last)'
    BY <1>2, <1>4, <1>6, <2>1 DEF Covers
  <2>3. Truthful(f, MemberKeys(f))'
    BY <1>2, <1>4 DEF Truthful, MemberKeys, MemberHas
  <2>4. scan.next - 1 <= top[f] /\ validity[f] <= validity[f]
    BY <1>4, <1>5
  <2>5. QED
    BY <1>2, <1>6, <2>2, <2>3, <2>4 DEF Tracks
<1>8. MailInv' /\ TrackInv'
  BY <1>0, <1>2, <1>6, <1>7, OthersKept
<1>9. ~Scanning'
  BY <1>2 DEF Scanning
<1>10. QED
  BY <1>8, <1>9 DEF ScanInv, SelectedInv, OnwardInv, RebuildInv

(* Mail enters above every mark and every scan.                            *)
LEMMA EnterStep ==
    ASSUME MembershipInv, NEW f \in Watched, NEW k \in Keys, Enter(f, k)
    PROVE  MailInv' /\ TrackInv' /\ ScanInv'
<1>0. /\ SourceType /\ TableType /\ PassType /\ MailInv /\ TrackInv
      /\ SelectedInv /\ OnwardInv /\ RebuildInv
  BY TypeParts DEF MembershipInv
<1>1. /\ UNCHANGED <<validity, members, folders, phase, scan>>
      /\ k \notin Present(f) /\ top[f] < Room[f]
      /\ top' = [top EXCEPT ![f] = top[f] + 1]
      /\ mail' = [mail EXCEPT ![f] = [mail[f] EXCEPT ![top[f] + 1] = k]]
  BY DEF Enter, storeVars, passVars, scanVars
<1>2. /\ \A g \in Watched : top[g] \in 0 .. MaxUID /\ mail[g] \in [UIDs -> Keys \cup {NoMail}]
      /\ MaxUID \in Nat /\ Room[f] \in 0 .. MaxUID
  BY <1>0, MembershipAssumption DEF SourceType
<1>3. /\ \A g \in Watched : top'[g] >= top[g] /\ top'[g] \in Nat
      /\ \A g \in Watched, u \in UIDs : u <= top[g] => mail'[g][u] = mail[g][u]
  BY <1>0, <1>1, <1>2 DEF SourceType
<1>4. MailInv'
  <2>1. SUFFICES ASSUME NEW g \in Watched
                 PROVE  /\ \A u \in UIDs : u > top'[g] => mail'[g][u] = NoMail
                        /\ \A u, v \in UIDs : mail'[g][u] = mail'[g][v] /\ mail'[g][u] # NoMail
                              => u = v
    BY DEF MailInv
  <2>2. CASE g # f
    <3>1. mail'[g] = mail[g] /\ top'[g] = top[g]
      BY <1>0, <1>1, <2>2 DEF SourceType
    <3>2. QED
      BY <1>0, <3>1 DEF MailInv
  <2>3. CASE g = f
    <3>1. /\ top'[f] = top[f] + 1
          /\ \A u \in UIDs : mail'[f][u] = IF u = top[f] + 1 THEN k ELSE mail[f][u]
      BY <1>0, <1>1, <1>2 DEF SourceType
    <3>2. \A u \in UIDs : mail[f][u] # k
      BY <1>1, MembershipAssumption DEF Present
    <3>3. \A u \in UIDs : u \in Int
      BY DEF UIDs
    <3>4. \A u \in UIDs : u > top[f] => mail[f][u] = NoMail
      BY <1>0 DEF MailInv
    <3>5. \A u \in UIDs : u > top'[f] => mail'[f][u] = NoMail
      BY <1>2, <3>1, <3>3, <3>4
    <3>6. \A u, v \in UIDs : mail'[f][u] = mail'[f][v] /\ mail'[f][u] # NoMail => u = v
      BY <1>0, <3>1, <3>2 DEF MailInv
    <3>7. QED
      BY <2>3, <3>5, <3>6
  <2>4. QED
    BY <2>2, <2>3
<1>5. ASSUME NEW g \in Watched, NEW S, S \subseteq 1 .. top[g], Covers(g, S)
      PROVE  Covers(g, S)'
  <2>1. \A u \in S : u \in UIDs /\ u <= top[g]
    BY <1>2, <1>5 DEF UIDs
  <2>2. QED
    BY <1>1, <1>3, <1>5, <2>1 DEF Covers
<1>6. ASSUME NEW g \in Watched, NEW K, Truthful(g, K)
      PROVE  Truthful(g, K)'
  <2>1. SUFFICES ASSUME NEW j \in K
                 PROVE  members[g][j] \in 1 .. top'[g] /\ mail'[g][members[g][j]] \in {j, NoMail}
    BY <1>1 DEF Truthful
  <2>2. members[g][j] \in 1 .. top[g] /\ mail[g][members[g][j]] \in {j, NoMail}
    BY <1>6 DEF Truthful
  <2>3. members[g][j] \in UIDs /\ members[g][j] \in 1 .. top'[g]
    BY <1>2, <1>3, <2>2 DEF UIDs
  <2>4. mail'[g][members[g][j]] = mail[g][members[g][j]]
    BY <1>2, <1>3, <2>2, <2>3
  <2>5. QED
    BY <2>2, <2>3, <2>4
<1>7. \A g \in Watched : MemberKeys(g)' = MemberKeys(g)
  BY <1>1 DEF MemberKeys, MemberHas
<1>8. TrackInv'
  <2>1. SUFFICES ASSUME NEW g \in Watched
                 PROVE  Tracks(g)'
    BY DEF TrackInv
  <2>2. Tracks(g) /\ folders[g].last \in 0 .. MaxUID
    BY <1>0 DEF TrackInv, TableType
  <2>3. CASE folders[g].validity # validity[g]
    BY <1>1, <2>2, <2>3 DEF Tracks
  <2>4. CASE folders[g].validity = validity[g]
    <3>1. /\ folders[g].validity <= validity[g] /\ folders[g].last <= top[g]
          /\ Covers(g, 1 .. folders[g].last) /\ Truthful(g, MemberKeys(g))
      BY <2>2, <2>4 DEF Tracks
    <3>2. PICK S, K : S = 1 .. folders[g].last /\ K = MemberKeys(g)
      OBVIOUS
    <3>3. S \subseteq 1 .. top[g] /\ folders[g].last <= top'[g]
      BY <1>2, <1>3, <2>2, <3>1, <3>2
    <3>4. Covers(g, S)' /\ Truthful(g, K)'
      BY <1>5, <1>6, <3>1, <3>2, <3>3
    <3>5. S = 1 .. folders'[g].last /\ K = MemberKeys(g)'
      BY <1>1, <1>7, <3>2
    <3>6. Covers(g, 1 .. folders[g].last)' /\ Truthful(g, MemberKeys(g))'
      BY <3>4, <3>5, Zenon DEF Covers, Truthful
    <3>7. QED
      BY <1>1, <3>1, <3>3, <3>6 DEF Tracks
  <2>5. QED
    BY <2>3, <2>4
<1>9. PICK s \in Watched : s = scan.folder
  BY <1>0, ScanFacts
<1>10. ASSUME Scanning
       PROVE  /\ scan.next \in 1 .. top[s] + 1 /\ scan.next \in 1 .. top'[s] + 1
              /\ Behind \subseteq 1 .. top[s]
              /\ scan.start >= 1 /\ scan.start \in Nat
  <2>1. scan.next \in 1 .. top[s] + 1 /\ scan.start >= 1 /\ scan.start \in Nat
    BY <1>0, <1>9, <1>10, ScanFacts DEF SelectedInv
  <2>2. QED
    BY <1>2, <1>3, <2>1 DEF Behind, UIDs
<1>11. SelectedInv'
  BY <1>0, <1>1, <1>9, <1>10 DEF SelectedInv, Scanning
<1>12. OnwardInv'
  <2>1. SUFFICES ASSUME Scanning, ~scan.rebuild, phase = "commit"
                 PROVE  Covers(s, scan.start .. scan.stop)'
    BY <1>0, <1>1, <1>9 DEF OnwardInv, Scanning, WindowStop
  <2>2. /\ Covers(s, scan.start .. scan.stop) /\ scan.stop = WindowStop
        /\ scan.start < scan.next
    BY <1>0, <1>9, <2>1 DEF OnwardInv
  <2>3. scan.stop \in scan.start .. scan.next - 1
    BY <1>0, <2>2, ScanFacts
  <2>4. PICK S : S = scan.start .. scan.stop
    OBVIOUS
  <2>5. S \subseteq 1 .. top[s]
    BY <1>2, <1>10, <2>1, <2>3, <2>4
  <2>6. Covers(s, S)'
    BY <1>5, <2>2, <2>4, <2>5
  <2>7. QED
    BY <1>1, <2>4, <2>6 DEF Covers
<1>13. RebuildInv'
  <2>1. SUFFICES ASSUME Scanning, scan.rebuild
                 PROVE  /\ Covers(s, Behind)' /\ Truthful(s, scan.seen)'
                        /\ \A u \in Behind : mail'[s][u] \in scan.seen \cup {NoMail}
    BY <1>0, <1>1, <1>7, <1>9 DEF RebuildInv, Scanning, Behind
  <2>2. /\ Covers(s, Behind) /\ Truthful(s, scan.seen)
        /\ \A u \in Behind : mail[s][u] \in scan.seen \cup {NoMail}
    BY <1>0, <1>9, <2>1 DEF RebuildInv
  <2>3. PICK B, K : B = Behind /\ K = scan.seen
    OBVIOUS
  <2>4. B = Behind' /\ K = scan'.seen
    BY <1>1, <2>3 DEF Behind
  <2>5. Covers(s, B)' /\ Truthful(s, K)'
    BY <1>5, <1>6, <1>10, <2>1, <2>2, <2>3
  <2>6. Covers(s, Behind)' /\ Truthful(s, scan.seen)'
    BY <2>4, <2>5, Zenon DEF Covers, Truthful
  <2>7. \A u \in Behind : u \in UIDs /\ u <= top[s]
    BY <1>2, <1>10, <2>1 DEF Behind
  <2>8. QED
    BY <1>3, <2>2, <2>6, <2>7
<1>14. QED
  BY <1>4, <1>8, <1>11, <1>12, <1>13 DEF ScanInv

(* A message that leaves is seen by the next diff, which finds its UID     *)
(* empty.                                                                  *)
LEMMA LeaveStep ==
    ASSUME MembershipInv, NEW f \in Watched, NEW k \in Keys, Leave(f, k)
    PROVE  MailInv' /\ TrackInv' /\ ScanInv'
<1>0. /\ SourceType /\ TableType /\ PassType /\ MailInv /\ TrackInv
      /\ SelectedInv /\ OnwardInv /\ RebuildInv
  BY TypeParts DEF MembershipInv
<1>1. /\ UNCHANGED <<top, validity, members, folders, phase, scan>>
      /\ mail' = [mail EXCEPT ![f] = [u \in UIDs |-> IF mail[f][u] = k THEN NoMail ELSE mail[f][u]]]
  BY DEF Leave, storeVars, passVars, scanVars
<1>2. /\ \A g \in Watched : top[g] \in 0 .. MaxUID /\ folders[g].last \in 0 .. MaxUID
      /\ MaxUID \in Nat
  BY <1>0, MembershipAssumption DEF SourceType, TableType
<1>3. \A g \in Watched, u \in UIDs : mail'[g][u] \in {mail[g][u], NoMail}
  BY <1>0, <1>1 DEF SourceType
<1>4. MailInv'
  BY <1>0, <1>1, <1>3 DEF MailInv
<1>5. ASSUME NEW g \in Watched, NEW S, S \subseteq UIDs, Covers(g, S)
      PROVE  Covers(g, S)'
  BY <1>1, <1>3, <1>5 DEF Covers
<1>6. ASSUME NEW g \in Watched, NEW K, Truthful(g, K)
      PROVE  Truthful(g, K)'
  <2>1. SUFFICES ASSUME NEW j \in K
                 PROVE  members[g][j] \in 1 .. top[g] /\ mail'[g][members[g][j]] \in {j, NoMail}
    BY <1>1 DEF Truthful
  <2>2. members[g][j] \in 1 .. top[g] /\ mail[g][members[g][j]] \in {j, NoMail}
    BY <1>6 DEF Truthful
  <2>3. members[g][j] \in UIDs
    BY <1>2, <2>2 DEF UIDs
  <2>4. QED
    BY <1>3, <2>2, <2>3
<1>7. \A g \in Watched : MemberKeys(g)' = MemberKeys(g)
  BY <1>1 DEF MemberKeys, MemberHas
<1>8. TrackInv'
  <2>1. SUFFICES ASSUME NEW g \in Watched
                 PROVE  Tracks(g)'
    BY DEF TrackInv
  <2>2. Tracks(g)
    BY <1>0 DEF TrackInv
  <2>3. PICK S, K : S = 1 .. folders[g].last /\ K = MemberKeys(g)
    OBVIOUS
  <2>4. S = 1 .. folders'[g].last /\ K = MemberKeys(g)' /\ S \subseteq UIDs
    BY <1>1, <1>2, <1>7, <2>3 DEF UIDs
  <2>5. (Covers(g, S) => Covers(g, S)') /\ (Truthful(g, K) => Truthful(g, K)')
    BY <1>5, <1>6, <2>4
  <2>6. /\ Covers(g, 1 .. folders[g].last) => Covers(g, 1 .. folders[g].last)'
        /\ Truthful(g, MemberKeys(g)) => Truthful(g, MemberKeys(g))'
    BY <2>3, <2>4, <2>5, Zenon DEF Covers, Truthful
  <2>7. QED
    BY <1>1, <2>2, <2>6 DEF Tracks
<1>9. PICK s \in Watched : s = scan.folder
  BY <1>0, ScanFacts
<1>10. SelectedInv'
  BY <1>0, <1>1 DEF SelectedInv, Scanning
<1>11. OnwardInv'
  <2>1. SUFFICES ASSUME Scanning, ~scan.rebuild, phase = "commit"
                 PROVE  Covers(s, scan.start .. scan.stop)'
    BY <1>0, <1>1, <1>9 DEF OnwardInv, Scanning, WindowStop
  <2>2. Covers(s, scan.start .. scan.stop) /\ scan.start >= 1
    BY <1>0, <1>9, <2>1 DEF OnwardInv, SelectedInv
  <2>3. PICK S : S = scan.start .. scan.stop
    OBVIOUS
  <2>4. S \subseteq UIDs
    BY <1>0, <2>2, <2>3, ScanFacts DEF UIDs
  <2>5. Covers(s, S)'
    BY <1>5, <2>2, <2>3, <2>4
  <2>6. QED
    BY <1>1, <2>3, <2>5 DEF Covers
<1>12. RebuildInv'
  <2>1. SUFFICES ASSUME Scanning, scan.rebuild
                 PROVE  /\ Covers(s, Behind)' /\ Truthful(s, scan.seen)'
                        /\ \A u \in Behind : mail'[s][u] \in scan.seen \cup {NoMail}
    BY <1>0, <1>1, <1>7, <1>9 DEF RebuildInv, Scanning, Behind
  <2>2. /\ Covers(s, Behind) /\ Truthful(s, scan.seen)
        /\ \A u \in Behind : mail[s][u] \in scan.seen \cup {NoMail}
    BY <1>0, <1>9, <2>1 DEF RebuildInv
  <2>3. PICK B, K : B = Behind /\ K = scan.seen
    OBVIOUS
  <2>4. B = Behind' /\ K = scan'.seen /\ B \subseteq UIDs
    BY <1>1, <2>3 DEF Behind
  <2>5. Covers(s, B)' /\ Truthful(s, K)'
    BY <1>5, <1>6, <2>2, <2>3, <2>4
  <2>6. Covers(s, Behind)' /\ Truthful(s, scan.seen)'
    BY <2>4, <2>5, Zenon DEF Covers, Truthful
  <2>7. QED
    BY <1>3, <2>2, <2>3, <2>4, <2>6
<1>13. QED
  BY <1>4, <1>8, <1>10, <1>11, <1>12 DEF ScanInv

(* A renumbered folder has no current mark any more.                       *)
LEMMA RenumberStep ==
    ASSUME MembershipInv, NEW f \in Watched, Renumber(f)
    PROVE  MailInv' /\ TrackInv' /\ ScanInv'
<1>0. /\ SourceType /\ TableType /\ PassType /\ MailInv /\ TrackInv
      /\ SelectedInv /\ OnwardInv /\ RebuildInv /\ TypeOK
  BY TypeParts DEF MembershipInv
<1>1. /\ UNCHANGED <<members, folders, phase, scan>>
      /\ validity' = [validity EXCEPT ![f] = validity[f] + 1]
      /\ Scanning => f # scan.folder
  BY DEF Renumber, storeVars, passVars, scanVars, Scanning
<1> DEFINE P == Present(f)
<1>2. PICK o \in Orders(P) :
         /\ mail' = [mail EXCEPT ![f] = [u \in UIDs |-> IF u \in DOMAIN o THEN o[u] ELSE NoMail]]
         /\ top' = [top EXCEPT ![f] = Cardinality(P)]
  BY DEF Renumber
<1>3. P \subseteq Keys /\ IsFiniteSet(P) /\ Cardinality(P) \in 0 .. MaxUID /\ MaxUID \in Nat
  BY <1>0, PresentFacts, MembershipAssumption
<1> HIDE DEF P
<1>4. /\ DOMAIN o = 1 .. Cardinality(P)
      /\ \A i, j \in 1 .. Cardinality(P) : o[i] = o[j] => i = j
  BY <1>3, OrdersFacts
<1>5. /\ top'[f] = Cardinality(P)
      /\ \A u \in UIDs : mail'[f][u] = IF u \in 1 .. Cardinality(P) THEN o[u] ELSE NoMail
      /\ validity'[f] = validity[f] + 1
      /\ \A g \in Watched \ {f} : mail'[g] = mail[g] /\ top'[g] = top[g] /\ validity'[g] = validity[g]
  BY <1>0, <1>1, <1>2, <1>4 DEF SourceType
<1>6. MailInv'
  <2>1. \A u \in UIDs : u > top'[f] => mail'[f][u] = NoMail
    BY <1>3, <1>5
  <2>2. \A u, v \in UIDs : mail'[f][u] = mail'[f][v] /\ mail'[f][u] # NoMail => u = v
    BY <1>4, <1>5
  <2>3. QED
    BY <1>0, <1>5, <2>1, <2>2 DEF MailInv
<1>7. TrackInv'
  <2>1. Tracks(f)'
    <3>1. folders[f].validity <= validity[f] /\ folders[f].validity \in Int /\ validity[f] \in Int
      BY <1>0 DEF TrackInv, Tracks, SourceType, TableType
    <3>2. folders'[f].validity <= validity'[f] /\ folders'[f].validity # validity'[f]
      BY <1>1, <1>5, <3>1
    <3>3. QED
      BY <3>2 DEF Tracks
  <2>2. ASSUME NEW g \in Watched, g # f
        PROVE  Tracks(g)'
    BY <1>0, <1>1, <1>5, <2>2, FolderKept DEF TrackInv
  <2>3. QED
    BY <2>1, <2>2 DEF TrackInv
<1>8. ScanInv'
  <2>1. CASE ~Scanning
    BY <1>1, <2>1 DEF ScanInv, SelectedInv, OnwardInv, RebuildInv, Scanning
  <2>2. CASE Scanning
    <3>1. PICK s \in Watched : s = scan.folder /\ s # f
      BY <1>0, <1>1, <2>2, ScanFacts
    <3>2. /\ mail'[s] = mail[s] /\ top'[s] = top[s] /\ validity'[s] = validity[s]
          /\ UNCHANGED <<members, folders, phase, scan>>
      BY <1>1, <1>5, <3>1
    <3>3. SelectedInv'
      BY <1>0, <3>1, <3>2 DEF SelectedInv, Scanning
    <3>4. OnwardInv'
      BY <1>0, <3>1, <3>2 DEF OnwardInv, Scanning, Covers, WindowStop
    <3>5. RebuildInv'
      BY <1>0, <3>1, <3>2 DEF RebuildInv, Scanning, Covers, Truthful, MemberKeys, MemberHas, Behind
    <3>6. QED
      BY <3>3, <3>4, <3>5 DEF ScanInv
  <2>3. QED
    BY <2>1, <2>2
<1>9. QED
  BY <1>6, <1>7, <1>8

-----------------------------------------------------------------------------
(* The invariant holds initially and every step keeps it.                  *)

(* The invariant holds for an empty database.                              *)
LEMMA MembershipInit ==
    ASSUME Init
    PROVE  MembershipInv
<1>1. /\ MaxUID \in Nat /\ MaxValidity \in Nat \ {0} /\ NoScan \in Scans
  BY MembershipAssumption, NoScanTyped
<1>2. TypeOK
  BY <1>1 DEF Init, TypeOK
<1>3. PassTypeInv
  BY <1>1 DEF Init, PassTypeInv, Phases
<1>4. MailInv
  BY DEF Init, MailInv
<1>5. TrackInv
  BY DEF Init, TrackInv, Tracks
<1>6. ~Scanning
  BY DEF Init, Scanning
<1>7. QED
  BY <1>2, <1>3, <1>4, <1>5, <1>6 DEF MembershipInv, SelectedInv, OnwardInv, RebuildInv

(* Every step keeps the invariant.                                         *)
LEMMA MembershipNext ==
    ASSUME MembershipInv, [Next]_vars
    PROVE  MembershipInv'
<1>0. TypeOK /\ PassTypeInv /\ MailInv /\ TrackInv /\ ScanInv /\ SelectedInv
  BY DEF MembershipInv, ScanInv
<1>1. CASE UNCHANGED vars
  <2>1. TypeOK' /\ PassTypeInv'
    BY <1>0, <1>1 DEF vars, srcVars, storeVars, destVars, passVars, scanVars, copyVars, queueVars,
       TypeOK, PassTypeInv
  <2>2. UNCHANGED <<mail, top, validity, members, folders, phase, scan>>
    BY <1>1 DEF vars, srcVars, storeVars, passVars, scanVars
  <2>3. QED
    BY <1>0, <2>1, <2>2, StillStep DEF MembershipInv, ScanInv
<1>2. CASE Next
  <2>1. TypeOK' /\ PassTypeInv'
    BY <1>0, <1>2, TypeStep
  <2>2. ASSUME UNCHANGED <<mail, top, validity, members, folders>>,
               UNCHANGED <<phase, scan>> \/ ~Scanning'
        PROVE  MailInv' /\ TrackInv' /\ ScanInv'
    BY <1>0, <2>2, StillStep
  <2>3. ASSUME Program
        PROVE  MailInv' /\ TrackInv' /\ ScanInv'
    <3>1. ASSUME NEW f \in Watched, SelectNamedFolder(f)
          PROVE  MailInv' /\ TrackInv' /\ ScanInv'
      BY <3>1, SelectStep
    <3>2. CASE Removals
      BY <3>2, RemovalsStep
    <3>3. CASE recordAdditions
      BY <3>3, AdditionsStep
    <3>4. CASE CommitWindow
      BY <3>4, CommitStep
    <3>5. CASE RebuildRemovals
      BY <3>5, RebuildRemovalsStep
    <3>6. CASE AdoptFolder
      BY <3>6, AdoptStep
    <3>7. CASE StartPass \/ FolderDone \/ MembershipDone \/ BackfillScan \/ BackfillNext
               \/ BackfillDone \/ MirrorDone \/ LoadPage
      <4>1. UNCHANGED <<mail, top, validity, members, folders>>
        BY <3>7 DEF StartPass, FolderDone, MembershipDone, BackfillScan, BackfillNext,
           BackfillDone, MirrorDone, LoadPage, srcVars, storeVars
      <4>2. ~Scanning'
        BY <3>7 DEF StartPass, FolderDone, MembershipDone, BackfillScan, BackfillNext,
           BackfillDone, MirrorDone, LoadPage, Scanning
      <4>3. QED
        BY <2>2, <4>1, <4>2
    <3>8. CASE (\E k \in Keys : BackfillTag(k) \/ BackfillMove(k) \/ Guard(k) \/ AppendCopy(k))
               \/ RecordCopies \/ applyPending \/ PageDone
      <4>1. UNCHANGED <<mail, top, validity, members, folders>> /\ UNCHANGED <<phase, scan>>
        BY <3>8 DEF BackfillTag, BackfillMove, Guard, AppendCopy, RecordCopies, applyPending,
           PageDone, srcVars, storeVars, scanVars
      <4>2. QED
        BY <2>2, <4>1
    <3>9. QED
      BY <2>3, <3>1, <3>2, <3>3, <3>4, <3>5, <3>6, <3>7, <3>8 DEF Program
  <2>4. ASSUME Failure
        PROVE  MailInv' /\ TrackInv' /\ ScanInv'
    <3>1. UNCHANGED <<mail, top, validity, members, folders>>
      BY <2>4 DEF Failure, Crash, ApplyFails, Reconfigure, srcVars, storeVars
    <3>2. CASE Crash \/ ApplyFails
      <4>1. ~Scanning'
        BY <3>2 DEF Crash, ApplyFails, Abort, Scanning
      <4>2. QED
        BY <2>2, <3>1, <4>1
    <3>3. CASE Reconfigure
      <4>1. UNCHANGED <<phase, scan>>
        BY <3>3 DEF Reconfigure, passVars, scanVars
      <4>2. QED
        BY <2>2, <3>1, <4>1
    <3>4. QED
      BY <2>4, <3>2, <3>3 DEF Failure
  <2>5. ASSUME SourceStep
        PROVE  MailInv' /\ TrackInv' /\ ScanInv'
    <3>1. ASSUME NEW k \in Keys, Arrive(k)
          PROVE  MailInv' /\ TrackInv' /\ ScanInv'
      <4>1. UNCHANGED <<mail, top, validity, members, folders>> /\ UNCHANGED <<phase, scan>>
        BY <3>1 DEF Arrive, storeVars, passVars, scanVars
      <4>2. QED
        BY <2>2, <4>1
    <3>2. ASSUME NEW f \in Watched, CreateLabel(f)
          PROVE  MailInv' /\ TrackInv' /\ ScanInv'
      <4>1. UNCHANGED <<mail, top, validity, members, folders>> /\ UNCHANGED <<phase, scan>>
        BY <3>2 DEF CreateLabel, storeVars, passVars, scanVars
      <4>2. QED
        BY <2>2, <4>1
    <3>3. ASSUME NEW f \in Watched, NEW k \in Keys, Enter(f, k) \/ Leave(f, k)
          PROVE  MailInv' /\ TrackInv' /\ ScanInv'
      BY <3>3, EnterStep, LeaveStep
    <3>4. ASSUME NEW f \in Watched, Renumber(f)
          PROVE  MailInv' /\ TrackInv' /\ ScanInv'
      BY <3>4, RenumberStep
    <3>5. QED
      BY <2>5, <3>1, <3>2, <3>3, <3>4 DEF SourceStep
  <2>6. QED
    BY <1>2, <2>1, <2>3, <2>4, <2>5 DEF Next, MembershipInv, ScanInv
<1>3. QED
  BY <1>1, <1>2

(* The inductive invariant of the membership passes: it holds throughout,  *)
(* whatever the source does and whichever step fails.                      *)
THEOREM MembershipInvariant == Spec => []MembershipInv
<1>1. Init => MembershipInv
  BY MembershipInit
<1>2. MembershipInv /\ [Next]_vars => MembershipInv'
  BY MembershipNext
<1>3. QED
  BY <1>1, <1>2, PTL DEF Spec

(* Every variable of the membership passes keeps its type: in particular   *)
(* queued operations name real keys, and a page never exceeds the queue.   *)
THEOREM MembershipTypeCorrect == Spec => []TypeOK
<1>1. MembershipInv => TypeOK
  BY DEF MembershipInv
<1>2. QED
  BY <1>1, MembershipInvariant, PTL

(* Below the recorded mark of a folder no message is without a row, and no *)
(* row names another message, over interrupted scans, rebuilds and         *)
(* renumbered folders (membership.go, diff, window scan and rebuild).      *)
THEOREM MembersTrackedCorrect == Spec => []MembersTracked
<1>1. MembershipInv => MembersTracked
  <2>1. SUFFICES ASSUME MembershipInv, NEW f \in Watched, folders[f].validity = validity[f]
                 PROVE  /\ \A u \in 1 .. folders[f].last :
                              mail[f][u] # NoMail => MemberHas(f, mail[f][u])
                        /\ \A k \in MemberKeys(f) : mail[f][members[f][k]] \in {k, NoMail}
    BY DEF MembersTracked
  <2>2. Covers(f, 1 .. folders[f].last) /\ Truthful(f, MemberKeys(f))
    BY <2>1 DEF MembershipInv, TrackInv, Tracks
  <2>3. folders[f].last \in Nat
    BY <2>1 DEF MembershipInv, TypeOK
  <2>4. QED
    BY <2>2, <2>3 DEF Covers, Truthful, MemberHas
<1>2. QED
  BY <1>1, MembershipInvariant, PTL
=============================================================================
