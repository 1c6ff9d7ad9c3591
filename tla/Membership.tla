----------------------------- MODULE Membership -----------------------------
(***************************************************************************)
(* Routing and labels (internal/reconcile/membership.go, labels.go): each  *)
(* pass scans the watched source folders, records membership changes and   *)
(* the destination operations they call for in one transaction, corrects   *)
(* old mail after a configuration change (backfill), copies new mail to    *)
(* the folder and with the keywords its membership gives it, and drains    *)
(* the queue (propagate).  The process may fail between any two steps and  *)
(* come back with another configuration.                                   *)
(*                                                                         *)
(* The copy of a window (Reconcile, CopyPipeline) is here one AppendCopy  *)
(* and one RecordCopies; the guard is on; keywords are never rejected; nobody  *)
(* but the mirror moves or tags the copies.                                *)
(***************************************************************************)
EXTENDS Integers, Sequences, FiniteSets

CONSTANTS
    Keys, RealKeys,              \* dedup keys; those IsRealMessageID accepts
    Labels,                      \* source folders isLabelFolder accepts
    SourceInbox, SentSrcFolder,  \* the source folders that drive placement
    DestFolder, SentFolder, ArchiveFolder,
    KeywordOf,                   \* labelKeyword: watched folder -> keyword
    Longer,                      \* <<l, k>>: the Message-ID of l contains that of k
    NoMail, NoPrint,             \* an unused UID; no fingerprint stored
    Configs,                     \* configurations a restart may bring
    UIDBatch,                    \* Options.UIDBatch
    PageSize,                    \* limit of PendingOps, 200 in propagate
    MaxUID, MaxValidity,         \* bounds: UIDs and UIDVALIDITY per folder
    MaxPending,                  \* bound: no crash with a longer queue
    Room, Resets                 \* bounds per folder: UIDs used, UIDVALIDITY changes

Watched == Labels \cup {SourceInbox, SentSrcFolder}
UIDs == 1 .. MaxUID
Config == [archive : BOOLEAN, sent : BOOLEAN, labels : BOOLEAN, propagate : BOOLEAN]

ASSUME MembershipAssumption ==
    /\ IsFiniteSet(Keys)
    /\ RealKeys \subseteq Keys
    /\ NoMail \notin Keys
    /\ {SourceInbox, SentSrcFolder} \cap Labels = {} /\ SourceInbox # SentSrcFolder
    /\ Cardinality({DestFolder, SentFolder, ArchiveFolder}) = 3
    /\ DOMAIN KeywordOf = Watched
    /\ Longer \subseteq RealKeys \X RealKeys
    /\ Configs \subseteq {c \in Config : c.propagate => c.labels}
    /\ NoPrint \notin [archive : BOOLEAN, sent : BOOLEAN, labels : BOOLEAN]
    /\ {UIDBatch, PageSize, MaxValidity} \subseteq Nat \ {0}
    /\ {MaxUID, MaxPending} \subseteq Nat
    /\ Room \in [Watched -> 0 .. MaxUID]
    /\ Resets \in [Watched -> 0 .. MaxValidity - 1]

VARIABLES
    mail, top, validity, \* per watched folder: UID -> key, last UID, UIDVALIDITY
    listed,              \* label folders that exist
    allMail,             \* keys in the mirrored source folder
    members,             \* table members: folder -> key -> UID (0: no row)
    folders,             \* table folders: scan state of each watched folder
    pending,             \* table pending, oldest first
    copied,              \* table copied
    fingerprint,         \* meta backfill_fingerprint
    place, keywords,     \* destination: key -> folders holding it, its keywords
    cfg,                 \* the running configuration
    phase,               \* where the pass is
    todo, scan,          \* syncMembership: folders left; the folder being scanned
    back, bf,            \* maybeBackfill: buckets left; work in the current one
    cand, unsaved,       \* keys to mirror; keys stored but not recorded
    page, done,          \* propagate: size of the page, operations applied
    missed               \* history: keys with a change that was never queued

srcVars == <<mail, top, validity, listed, allMail>>
storeVars == <<members, folders, pending, copied, fingerprint>>
destVars == <<place, keywords>>
scanVars == <<todo, scan>>
backVars == <<back, bf>>
copyVars == <<cand, unsaved>>
queueVars == <<page, done>>
passVars == <<phase, scanVars, backVars, copyVars, queueVars>>
vars == <<srcVars, storeVars, destVars, cfg, passVars, missed>>

Present(f) == {mail[f][u] : u \in UIDs} \ {NoMail}

-----------------------------------------------------------------------------
(* Lookups in the store and the configuration.                             *)

pendingMove == "move"
pendingKeyword == "keyword"
none == ""

MemberHas(f, k) == members[f][k] # 0
MemberKeys(f) == {k \in Keys : MemberHas(f, k)}

Routing(c) == c.archive \/ c.sent

isRoutingFolder(c, f) == f = SourceInbox \/ (c.sent /\ f = SentSrcFolder)

(* The folders syncMembership watches.  The sent folder is no label even   *)
(* when sent routing is off: it has a special-use attribute.               *)
WatchedFolders(c) ==
    (IF c.labels THEN Labels \cap listed ELSE {})
        \cup (IF Routing(c) THEN {SourceInbox} ELSE {})
        \cup (IF c.sent THEN {SentSrcFolder} ELSE {})

WatchedKind(c, f) ==
    IF f \in Labels THEN IF c.propagate THEN pendingKeyword ELSE none ELSE pendingMove

destFolderFor(c, k) ==
    CASE Routing(c) /\ MemberHas(SourceInbox, k) -> DestFolder
      [] ~(Routing(c) /\ MemberHas(SourceInbox, k)) /\ c.sent /\ MemberHas(SentSrcFolder, k)
            -> SentFolder
      [] OTHER -> IF c.archive THEN ArchiveFolder ELSE DestFolder

(* Mutant of destBucketFolders: the archive is forgotten.                  *)
BucketsButArchive(c) ==
    <<DestFolder>> \o (IF c.sent THEN <<SentFolder>> ELSE <<>>)

destBucketFolders(c) ==
    <<DestFolder>> \o (IF c.sent THEN <<SentFolder>> ELSE <<>>)
                   \o (IF c.archive THEN <<ArchiveFolder>> ELSE <<>>)

Buckets(c) == {DestFolder} \cup (IF c.sent THEN {SentFolder} ELSE {})
                           \cup (IF c.archive THEN {ArchiveFolder} ELSE {})

labelsFor(c, k) == {f \in Watched : MemberHas(f, k) /\ ~isRoutingFolder(c, f)}

labelKeywords(c, k) == {KeywordOf[f] : f \in labelsFor(c, k)}

backfillFingerprint(c) == [archive |-> c.archive, sent |-> c.sent, labels |-> c.labels]

Current == fingerprint = backfillFingerprint(cfg)

(* A pending operation needs a recorded copy with a real Message-ID.       *)
gatePending(k) == k \in RealKeys /\ k \in copied

-----------------------------------------------------------------------------
NoScan == [folder |-> SourceInbox, validity |-> 0, next |-> 0, start |-> 0, stop |-> 0,
           rebuild |-> FALSE, stored |-> {}, seen |-> {}]
NoWork == [folder |-> DestFolder, tag |-> {}, move |-> {}]

Init ==
    /\ mail = [f \in Watched |-> [u \in UIDs |-> NoMail]]
    /\ top = [f \in Watched |-> 0]
    /\ validity = [f \in Watched |-> 1]
    /\ listed \in SUBSET Labels
    /\ allMail = {}
    /\ members = [f \in Watched |-> [k \in Keys |-> 0]]
    /\ folders = [f \in Watched |-> [validity |-> 0, last |-> 0]]
    /\ pending = <<>>
    /\ copied = {}
    /\ fingerprint = NoPrint
    /\ place = [k \in Keys |-> {}]
    /\ keywords = [k \in Keys |-> {}]
    /\ cfg \in Configs
    /\ phase = "down" /\ todo = {} /\ scan = NoScan
    /\ back = <<>> /\ bf = NoWork
    /\ cand = {} /\ unsaved = {}
    /\ page = 0 /\ done = 0
    /\ missed = {}

-----------------------------------------------------------------------------
(* syncMembership                                                          *)

StartPass ==
    /\ phase \in {"down", "idle"}
    /\ phase' = "membership"
    /\ todo' = WatchedFolders(cfg)
    /\ UNCHANGED <<srcVars, storeVars, destVars, cfg, scan, backVars, copyVars, queueVars, missed>>

(* Labels in the order of LIST, then the inbox, then the sent folder.      *)
NextFolder(f) ==
    /\ f \in todo
    /\ f \in Labels \/ todo \cap Labels = {}
    /\ f = SentSrcFolder => SourceInbox \notin todo

(* Where the scan starts.  Mutant: a rebuild keeps the old mark.           *)
FirstUIDKept(f) == folders[f].last + 1
FirstUID(f) == IF folders[f].validity = validity[f] THEN folders[f].last + 1 ELSE 1

(* SELECT; a folder with another UIDVALIDITY than recorded is rebuilt.     *)
SelectNamedFolder(f) ==
    /\ phase = "membership"
    /\ NextFolder(f)
    /\ LET same == folders[f].validity = validity[f] IN
       /\ scan' = [folder |-> f, validity |-> validity[f], next |-> top[f] + 1,
                   start |-> FirstUID(f), stop |-> 0,
                   rebuild |-> ~same, stored |-> MemberKeys(f), seen |-> {}]
       /\ phase' = IF same THEN "removals" ELSE "windows"
    /\ UNCHANGED <<srcVars, storeVars, destVars, cfg, todo, backVars, copyVars, queueVars, missed>>

(* The rows of S in some order, and in ascending order.                    *)
Orders(S) == {o \in [1 .. Cardinality(S) -> S] : \A x \in S : \E i \in DOMAIN o : o[i] = x}
Ascending(S) == {o \in Orders(S) : \A i, j \in DOMAIN o : i < j => o[i] < o[j]}

PendingOps(kind, f, op, order) ==
    [i \in DOMAIN order |-> [kind |-> kind, key |-> order[i], folder |-> f, op |-> op]]

(* MemberChangeBatch for removals: rows and operations in one transaction. *)
recordRemovals(gone) ==
    LET f == scan.folder
        kind == WatchedKind(cfg, f)
        gated == {k \in gone : kind # none /\ gatePending(k)}
    IN /\ members' = [members EXCEPT ![f] = [k \in Keys |-> IF k \in gone THEN 0 ELSE @[k]]]
       /\ \E o \in Orders(gated) : pending' = pending \o PendingOps(kind, f, "remove", o)

(* Stored UIDs the folder no longer has.  Mutant: none is looked for.      *)
GoneNever == {}
Gone == {k \in MemberKeys(scan.folder) : mail[scan.folder][members[scan.folder][k]] = NoMail}

Removals ==
    /\ phase = "removals"
    /\ recordRemovals(Gone)
    /\ phase' = "windows"
    /\ UNCHANGED <<srcVars, folders, copied, fingerprint, destVars, cfg,
                   scanVars, backVars, copyVars, queueVars, missed>>

(* What a rebuild does not report: activation, or a mere change of UID.    *)
(* Mutant: a rebuild reports nothing at all.                               *)
SuppressedAll(k) == scan.rebuild
Suppressed(k) == scan.rebuild /\ (scan.stored = {} \/ k \in scan.stored)

WindowStop == IF scan.start + UIDBatch < scan.next THEN scan.start + UIDBatch - 1 ELSE scan.next - 1

(* Has a backfill already taken this folder into account?                  *)
Covered(f) ==
    /\ fingerprint # NoPrint
    /\ IF f \in Labels THEN fingerprint.labels
       ELSE fingerprint.sent \/ (f = SourceInbox /\ fingerprint.archive)

(* A first scan reports no change; a backfill that is still to come makes  *)
(* up for it unless an older operation of the key is queued.               *)
Unreported(k) ==
    /\ scan.rebuild /\ scan.stored = {}
    /\ \/ Covered(scan.folder)
       \/ \E i \in DOMAIN pending : pending[i].key = k /\ pending[i].folder = scan.folder

(* One window: FETCH, then MemberChangeBatch.                              *)
recordAdditions ==
    /\ phase = "windows"
    /\ scan.start < scan.next
    /\ LET f == scan.folder
           kind == WatchedKind(cfg, f)
           metas == {u \in scan.start .. WindowStop : mail[f][u] # NoMail}
           key == [u \in metas |-> mail[f][u]]
           gated == {u \in metas : kind # none /\ ~Suppressed(key[u]) /\ gatePending(key[u])}
       IN /\ members' = [members EXCEPT ![f] = [k \in Keys |->
                 IF \E u \in metas : key[u] = k
                 THEN CHOOSE u \in metas : key[u] = k /\ \A v \in metas : key[v] = k => v <= u
                 ELSE @[k]]]
          /\ \E o \in Ascending(gated) :
                pending' = pending \o PendingOps(kind, f, "add", [i \in DOMAIN o |-> key[o[i]]])
          /\ scan' = [scan EXCEPT !.seen = @ \cup {key[u] : u \in metas},
                                  !.stop = WindowStop,
                                  !.start = IF scan.rebuild THEN @ + UIDBatch ELSE @]
          /\ missed' = missed \cup {k \in copied : Unreported(k) /\ \E u \in metas : key[u] = k}
    /\ phase' = IF scan.rebuild THEN "windows" ELSE "commit"
    /\ UNCHANGED <<srcVars, folders, copied, fingerprint, destVars, cfg, todo,
                   backVars, copyVars, queueVars>>

(* SetFolderState after a window.                                          *)
CommitWindow ==
    /\ phase = "commit"
    /\ folders' = [folders EXCEPT ![scan.folder] = [validity |-> scan.validity, last |-> scan.stop]]
    /\ scan' = [scan EXCEPT !.start = @ + UIDBatch]
    /\ phase' = "windows"
    /\ UNCHANGED <<srcVars, members, pending, copied, fingerprint, destVars, cfg, todo,
                   backVars, copyVars, queueVars, missed>>

FolderDone ==
    /\ phase = "windows" /\ ~scan.rebuild /\ scan.start >= scan.next
    /\ todo' = todo \ {scan.folder} /\ scan' = NoScan
    /\ phase' = "membership"
    /\ UNCHANGED <<srcVars, storeVars, destVars, cfg, backVars, copyVars, queueVars, missed>>

(* rebuildWatchedFolder: keys no window has shown are gone ...             *)
RebuildRemovals ==
    /\ phase = "windows" /\ scan.rebuild /\ scan.start >= scan.next
    /\ recordRemovals(scan.stored \ scan.seen)
    /\ phase' = "rebuilt"
    /\ UNCHANGED <<srcVars, folders, copied, fingerprint, destVars, cfg,
                   scanVars, backVars, copyVars, queueVars, missed>>

(* max(uidNext, 1) - 1.  Mutant: the mark is uidNext itself.               *)
AdoptedMarkPast == scan.next
AdoptedMark == scan.next - 1

(* ... and only then is the new numbering adopted.                         *)
AdoptFolder ==
    /\ phase = "rebuilt"
    /\ folders' = [folders EXCEPT ![scan.folder] =
                       [validity |-> scan.validity, last |-> AdoptedMark]]
    /\ todo' = todo \ {scan.folder} /\ scan' = NoScan
    /\ phase' = "membership"
    /\ UNCHANGED <<srcVars, members, pending, copied, fingerprint, destVars, cfg,
                   backVars, copyVars, queueVars, missed>>

-----------------------------------------------------------------------------
(* SELECT of the source folder and maybeBackfill                           *)

MembershipDone ==
    /\ phase = "membership" /\ todo = {}
    /\ cand' = allMail \ copied
    /\ IF Current
       THEN phase' = "mirror" /\ back' = <<>>
       ELSE /\ phase' = "backfill"
            /\ back' = IF Routing(cfg) \/ cfg.labels THEN destBucketFolders(cfg) ELSE <<>>
    /\ UNCHANGED <<srcVars, storeVars, destVars, cfg, scanVars, bf, unsaved, queueVars, missed>>

missingKeywords(k) == labelKeywords(cfg, k) \ keywords[k]

(* backfillDestFolder: scan the folder, ...                                *)
BackfillScan ==
    /\ phase = "backfill" /\ back # <<>>
    /\ LET here == {k \in Keys : Head(back) \in place[k]} IN
       bf' = [folder |-> Head(back),
              tag |-> {k \in here : cfg.labels /\ missingKeywords(k) # {}},
              move |-> {k \in here : Routing(cfg) /\ destFolderFor(cfg, k) # Head(back)}]
    /\ phase' = "placing"
    /\ UNCHANGED <<srcVars, storeVars, destVars, cfg, scanVars, back, copyVars, queueVars, missed>>

(* ... tag what is there, ...                                              *)
BackfillTag(k) ==
    /\ phase = "placing" /\ k \in bf.tag
    /\ keywords' = [keywords EXCEPT ![k] = @ \cup missingKeywords(k)]
    /\ bf' = [bf EXCEPT !.tag = @ \ {k}]
    /\ UNCHANGED <<srcVars, storeVars, place, cfg, phase, scanVars, back, copyVars, queueVars, missed>>

(* ... and only then move away what belongs elsewhere.                     *)
BackfillMove(k) ==
    /\ phase = "placing" /\ bf.tag = {} /\ k \in bf.move
    /\ place' = [place EXCEPT ![k] = (@ \ {bf.folder}) \cup {destFolderFor(cfg, k)}]
    /\ bf' = [bf EXCEPT !.move = @ \ {k}]
    /\ UNCHANGED <<srcVars, storeVars, keywords, cfg, phase, scanVars, back, copyVars, queueVars, missed>>

BackfillNext ==
    /\ phase = "placing" /\ bf.tag = {} /\ bf.move = {}
    /\ back' = Tail(back) /\ bf' = NoWork
    /\ phase' = "backfill"
    /\ UNCHANGED <<srcVars, storeVars, destVars, cfg, scanVars, copyVars, queueVars, missed>>

BackfillDone ==
    /\ phase = "backfill" /\ back = <<>>
    /\ fingerprint' = backfillFingerprint(cfg)
    /\ phase' = "mirror"
    /\ UNCHANGED <<srcVars, members, folders, pending, copied, destVars, cfg,
                   scanVars, backVars, copyVars, queueVars, missed>>

-----------------------------------------------------------------------------
(* The mirror windows: guard, append, record                               *)

Findable(k) == k \in RealKeys /\ place[k] \cap Buckets(cfg) # {}

Guard(k) ==
    /\ phase = "mirror" /\ k \in cand /\ Findable(k)
    /\ copied' = copied \cup {k}
    /\ missed' = missed \cup {k}
    /\ cand' = cand \ {k}
    /\ UNCHANGED <<srcVars, members, folders, pending, fingerprint, destVars, cfg, phase,
                   scanVars, backVars, unsaved, queueVars>>

AppendCopy(k) ==
    /\ phase = "mirror" /\ k \in cand /\ ~Findable(k)
    /\ place' = [place EXCEPT ![k] = @ \cup {destFolderFor(cfg, k)}]
    /\ keywords' = [keywords EXCEPT ![k] =
                        @ \cup (IF cfg.labels THEN labelKeywords(cfg, k) ELSE {})]
    /\ cand' = cand \ {k}
    /\ unsaved' = unsaved \cup {k}
    /\ UNCHANGED <<srcVars, storeVars, cfg, phase, scanVars, backVars, queueVars, missed>>

RecordCopies ==
    /\ phase = "mirror" /\ unsaved # {}
    /\ copied' = copied \cup unsaved
    /\ unsaved' = {}
    /\ UNCHANGED <<srcVars, members, folders, pending, fingerprint, destVars, cfg, phase,
                   scanVars, backVars, cand, queueVars, missed>>

MirrorDone ==
    /\ phase = "mirror" /\ cand = {} /\ unsaved = {}
    /\ phase' = IF Routing(cfg) \/ cfg.propagate THEN "propagate" ELSE "idle"
    /\ UNCHANGED <<srcVars, storeVars, destVars, cfg, scanVars, backVars, copyVars, queueVars, missed>>

-----------------------------------------------------------------------------
(* propagate                                                               *)

(* Rows that PendingOps returns.  Mutant: every page counts as full.       *)
PageLengthFull == PageSize
PageLength == IF Len(pending) < PageSize THEN Len(pending) ELSE PageSize

LoadPage ==
    /\ phase = "propagate" /\ page = 0
    /\ page' = PageLength
    /\ phase' = IF pending = <<>> THEN "idle" ELSE "propagate"
    /\ UNCHANGED <<srcVars, storeVars, destVars, cfg, scanVars, backVars, copyVars, done, missed>>

(* searchMessageID: the SEARCH matches substrings, and no header is read   *)
(* to tell a longer Message-ID from the one asked for.                     *)
Hits(f, k) == {l \in Keys : f \in place[l] /\ (l = k \/ <<l, k>> \in Longer)}

(* The first bucket among S that answers a search for k with a hit.        *)
FirstWith(k, S) ==
    LET bucket == destBucketFolders(cfg)
        hit == {i \in DOMAIN bucket : bucket[i] \in S /\ Hits(bucket[i], k) # {}}
    IN {bucket[i] : i \in {i \in hit : \A j \in hit : i <= j}}

(* MoveMessageID from the first bucket, other than desired, with a hit.    *)
Moved(k) ==
    LET desired == destFolderFor(cfg, k)
        from == FirstWith(k, Buckets(cfg) \ {desired})
    IN [l \in Keys |-> IF \E f \in from : l \in Hits(f, k)
                       THEN (place[l] \ from) \cup {desired} ELSE place[l]]

(* StoreKeywordByMessageID in the first bucket with a hit.                 *)
Retagged(op) ==
    LET kw == KeywordOf[op.folder]
        from == FirstWith(op.key, Buckets(cfg))
    IN [l \in Keys |-> IF ~cfg.propagate \/ \A f \in from : l \notin Hits(f, op.key)
                       THEN keywords[l]
                       ELSE IF op.op = "add" THEN keywords[l] \cup {kw} ELSE keywords[l] \ {kw}]

applyPending ==
    /\ phase = "propagate" /\ done < page
    /\ LET op == pending[done + 1] IN
       IF op.kind = pendingMove
       THEN place' = (IF Routing(cfg) THEN Moved(op.key) ELSE place) /\ UNCHANGED keywords
       ELSE keywords' = Retagged(op) /\ UNCHANGED place
    /\ done' = done + 1
    /\ UNCHANGED <<srcVars, storeVars, cfg, phase, scanVars, backVars, copyVars, page, missed>>

DeletePendingBatch(n) == pending' = SubSeq(pending, n + 1, Len(pending))

PageDone ==
    /\ phase = "propagate" /\ page > 0 /\ done = page
    /\ DeletePendingBatch(done)
    /\ page' = 0 /\ done' = 0
    /\ UNCHANGED <<srcVars, members, folders, copied, fingerprint, destVars, cfg, phase,
                   scanVars, backVars, copyVars, missed>>

-----------------------------------------------------------------------------
(* Failures: any call may fail and end the session, or the process dies.   *)

Abort ==
    /\ phase' = "down" /\ todo' = {} /\ scan' = NoScan
    /\ back' = <<>> /\ bf' = NoWork
    /\ cand' = {} /\ unsaved' = {}
    /\ page' = 0 /\ done' = 0

Crash ==
    /\ phase # "down" /\ Len(pending) <= MaxPending
    /\ Abort
    /\ UNCHANGED <<srcVars, storeVars, destVars, cfg, missed>>

(* The operations to delete after a failure.  Mutant: the whole page.      *)
CompletedPage == page
Completed == done

(* An operation of the page fails: what was applied before is deleted.     *)
ApplyFails ==
    /\ phase = "propagate" /\ done < page
    /\ DeletePendingBatch(Completed)
    /\ Abort
    /\ UNCHANGED <<srcVars, members, folders, copied, fingerprint, destVars, cfg, missed>>

(* A restart with another configuration, once the backfill of this one is  *)
(* complete: the fingerprint cannot tell a trial given up half-way.        *)
Reconfigure ==
    /\ phase = "down" /\ Current
    /\ cfg' \in Configs \ {cfg}
    /\ UNCHANGED <<srcVars, storeVars, destVars, passVars, missed>>

-----------------------------------------------------------------------------
(* The source                                                              *)

Arrive(k) ==
    /\ k \notin allMail
    /\ allMail' = allMail \cup {k}
    /\ UNCHANGED <<mail, top, validity, listed, storeVars, destVars, cfg, passVars, missed>>

(* A folder holds a key at most once.                                      *)
Enter(f, k) ==
    /\ k \in allMail \ Present(f) /\ top[f] < Room[f]
    /\ f \in Labels => f \in listed
    /\ top' = [top EXCEPT ![f] = @ + 1]
    /\ mail' = [mail EXCEPT ![f][top[f] + 1] = k]
    /\ UNCHANGED <<validity, listed, allMail, storeVars, destVars, cfg, passVars, missed>>

Leave(f, k) ==
    /\ k \in Present(f)
    /\ mail' = [mail EXCEPT ![f] = [u \in UIDs |-> IF @[u] = k THEN NoMail ELSE @[u]]]
    /\ UNCHANGED <<top, validity, listed, allMail, storeVars, destVars, cfg, passVars, missed>>

(* A new UIDVALIDITY, never of the selected folder.                        *)
Renumber(f) ==
    /\ validity[f] <= Resets[f]
    /\ phase \in {"removals", "windows", "commit", "rebuilt"} => f # scan.folder
    /\ validity' = [validity EXCEPT ![f] = @ + 1]
    /\ \E o \in Orders(Present(f)) :
          /\ mail' = [mail EXCEPT ![f] =
                 [u \in UIDs |-> IF u \in DOMAIN o THEN o[u] ELSE NoMail]]
          /\ top' = [top EXCEPT ![f] = Cardinality(Present(f))]
    /\ UNCHANGED <<listed, allMail, storeVars, destVars, cfg, passVars, missed>>

CreateLabel(f) ==
    /\ f \in Labels \ listed
    /\ listed' = listed \cup {f}
    /\ UNCHANGED <<mail, top, validity, allMail, storeVars, destVars, cfg, passVars, missed>>

-----------------------------------------------------------------------------
Program ==
    \/ StartPass \/ (\E f \in Watched : SelectNamedFolder(f))
    \/ Removals \/ recordAdditions \/ CommitWindow \/ FolderDone
    \/ RebuildRemovals \/ AdoptFolder \/ MembershipDone
    \/ BackfillScan \/ (\E k \in Keys : BackfillTag(k) \/ BackfillMove(k))
    \/ BackfillNext \/ BackfillDone
    \/ (\E k \in Keys : Guard(k) \/ AppendCopy(k)) \/ RecordCopies \/ MirrorDone
    \/ LoadPage \/ applyPending \/ PageDone

Failure == Crash \/ ApplyFails \/ Reconfigure

SourceStep ==
    \/ \E k \in Keys : Arrive(k)
    \/ \E f \in Watched, k \in Keys : Enter(f, k) \/ Leave(f, k)
    \/ \E f \in Watched : Renumber(f) \/ CreateLabel(f)

Next == Program \/ Failure \/ SourceStep

Spec == Init /\ [][Next]_vars

(* The supervisor restarts the session and poll_interval wakes it, so the  *)
(* program always takes its next step.  Nothing is assumed of the source.  *)
LiveSpec == Spec /\ WF_vars(Program)

-----------------------------------------------------------------------------
PendingOp == [kind : {pendingMove, pendingKeyword}, key : RealKeys, folder : Watched,
              op : {"add", "remove"}]

(* Every variable of the membership passes has its type in every reachable *)
(* state.                                                                  *)
TypeOK ==
    /\ mail \in [Watched -> [UIDs -> Keys \cup {NoMail}]]
    /\ top \in [Watched -> 0 .. MaxUID]
    /\ validity \in [Watched -> 1 .. MaxValidity]
    /\ listed \subseteq Labels /\ allMail \subseteq Keys
    /\ members \in [Watched -> [Keys -> 0 .. MaxUID]]
    /\ folders \in [Watched -> [validity : 0 .. MaxValidity, last : 0 .. MaxUID]]
    /\ pending \in Seq(PendingOp)
    /\ copied \subseteq allMail
    /\ fingerprint \in [archive : BOOLEAN, sent : BOOLEAN, labels : BOOLEAN] \cup {NoPrint}
    /\ place \in [Keys -> SUBSET {DestFolder, SentFolder, ArchiveFolder}]
    /\ keywords \in [Keys -> SUBSET {KeywordOf[f] : f \in Watched}]
    /\ cfg \in Configs
    /\ todo \subseteq Watched
    /\ page \in 0 .. Len(pending) /\ done \in 0 .. page

(* Below the recorded mark of a folder the table and the folder agree: no  *)
(* message there is without a row, and a row names its own message or a    *)
(* UID that is gone, which the next diff will see (membership.go:58-109).  *)
MembersTracked ==
    \A f \in Watched : folders[f].validity = validity[f] =>
        /\ \A u \in 1 .. folders[f].last : mail[f][u] # NoMail => MemberHas(f, mail[f][u])
        /\ \A k \in MemberKeys(f) : mail[f][members[f][k]] \in {k, NoMail}

Placed(k) == place[k] \cap Buckets(cfg) \subseteq {destFolderFor(cfg, k)}

MoveQueued(k) == \E i \in DOMAIN pending : pending[i].key = k /\ pending[i].kind = pendingMove

(* A copy recorded when it was made is in the folder the recorded          *)
(* membership asks for, or a move is queued: no delta is lost, whatever    *)
(* step fails and whatever configuration was active in between             *)
(* (membership.go:263-265).  Left out are copies the guard found later,    *)
(* and changes of a first scan that no backfill follows.                   *)
PlacedOrOwed ==
    Current /\ Routing(cfg) =>
        \A k \in (copied \cap RealKeys) \ missed : Placed(k) \/ MoveQueued(k)

KeywordOps(k, f) ==
    {i \in DOMAIN pending : /\ pending[i].kind = pendingKeyword
                            /\ pending[i].key = k /\ pending[i].folder = f}

Tagged(k, f) ==
    MemberHas(f, k) /\ place[k] \cap Buckets(cfg) # {} =>
        IF KeywordOps(k, f) = {} THEN KeywordOf[f] \in keywords[k]
        ELSE \E i \in KeywordOps(k, f) :
                pending[i].op = "add" /\ \A j \in KeywordOps(k, f) : j <= i

(* A copy recorded when it was made has the keyword of each of its labels, *)
(* unless operations on that label are queued; then the last one adds it,  *)
(* so that replaying the queue in order, from its start or from any        *)
(* completed prefix, ends with the keyword set (membership.go:263-293).    *)
TaggedOrOwed ==
    Current /\ cfg.propagate =>
        \A k \in (copied \cap RealKeys) \ missed, f \in Labels : Tagged(k, f)

(* The same for every copy: with labels.propagate, adding a label later    *)
(* updates the copy too (README.md:125-126).                               *)
LabelsFollow ==
    Current /\ cfg.propagate =>
        \A k \in copied \cap RealKeys, f \in Labels : Tagged(k, f)

(* Once the source is left alone and nothing fails, every mirrored message *)
(* ends up where the source has it, with the keywords of its labels        *)
(* (README.md:112-126, "Later changes follow").                            *)
EventuallyFollows ==
    <>[][~(Failure \/ SourceStep)]_vars =>
        <>[](\A k \in (allMail \cap RealKeys) \ missed :
                /\ Routing(cfg) =>
                      /\ Placed(k)
                      /\ MemberHas(SourceInbox, k) <=> k \in Present(SourceInbox)
                      /\ cfg.sent => (MemberHas(SentSrcFolder, k) <=> k \in Present(SentSrcFolder))
                /\ cfg.propagate /\ place[k] \cap Buckets(cfg) # {} =>
                      \A f \in Labels : k \in Present(f) => KeywordOf[f] \in keywords[k])
=============================================================================
