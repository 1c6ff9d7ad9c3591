----------------------------- MODULE Reconcile ------------------------------
(***************************************************************************)
(* One mirror: the sessions of internal/mirror/mirror.go, each of which    *)
(* seeds the dedup set and then runs the reconcile passes of               *)
(* internal/reconcile/reconcile.go against a source mailbox, a destination *)
(* and the persistent store, any of which may fail at any moment.          *)
(*                                                                         *)
(* Modelled: a mirror without label sync or routing, hence one destination *)
(* folder.  A message is its dedup key (key.go); keys in RealKeys are real *)
(* Message-IDs, the others synthesized.  Destination mail is never removed *)
(* by anyone: the mirror has no such operation and users are left out.     *)
(***************************************************************************)
EXTENDS WindowCopy, Functions

CONSTANTS
    RealKeys,      \* keys for which IsRealMessageID holds
    NoMail,        \* an unused or expunged source UID
    SeedMode,      \* config seed: "always", "empty" or "never"
    UIDBatch,      \* Options.UIDBatch, the window size
    MaxUID,        \* bound: highest source UID
    MaxValidity,   \* bound: UIDVALIDITY values of the source
    Imported,      \* keys the destination may hold before the first start
    Poison,        \* keys whose APPEND the destination always rejects
    LateAppends,   \* may a server run an APPEND of a dead connection late?
    Faults         \* environment faults explored: "power", "lose"

ASSUME ReconcileAssumption ==
    /\ RealKeys \subseteq Keys
    /\ NoMail \notin Keys
    /\ SeedMode \in {"always", "empty", "never"}
    /\ UIDBatch \in Nat \ {0}
    /\ MaxUID \in Nat
    /\ UIDs = 1 .. MaxUID
    /\ MaxValidity \in Nat \ {0}
    /\ Imported \subseteq Keys
    /\ Poison \subseteq Keys
    /\ LateAppends \in BOOLEAN

VARIABLES
    src, srcValidity, srcUidNext, \* the source mailbox: UID -> key, ...
    uidValidity, lastUID,         \* the store's meta table (0 = never seen)
    disk,      \* what of the store survives a power loss (synchronous=NORMAL)
    limbo,     \* APPENDs of dead connections the server may still execute
    pc,        \* where the session is
    unseeded,  \* destination keys seeding has still to read
    uidNext, start, stop, \* locals of Run and scanWindows
    missed     \* history: keys whose body the stream left out

mailVars == <<src, srcValidity, srcUidNext>>
metaVars == <<uidValidity, lastUID>>
scanVars == <<uidNext, start, stop>>
vars == <<copyVars, mailVars, metaVars, disk, limbo, pc, unseeded, scanVars, missed>>

Phases == {"down", "seed", "select", "reset", "adopt", "window", "guard",
           "copy", "commit", "idle"}

(* Phases in which Run has no mailbox data of this SELECT in hand.         *)
Unselected == {"down", "seed", "select", "idle"}

Mailbox == {u \in UIDs : src[u] # NoMail}
Present == {k \in Keys : dest[k] > 0}

StoreType == [copied : SUBSET Keys, uidValidity : 0 .. MaxValidity,
              lastUID : 0 .. MaxUID]
Store == [copied |-> copied, uidValidity |-> uidValidity, lastUID |-> lastUID]
EmptyStore == [copied |-> {}, uidValidity |-> 0, lastUID |-> 0]

(* The type of every variable.                                             *)
TypeOK ==
    /\ CopyTypeOK
    /\ src \in [UIDs -> Keys \cup {NoMail}]
    /\ srcValidity \in 1 .. MaxValidity
    /\ srcUidNext \in 1 .. MaxUID + 1
    /\ uidValidity \in 0 .. MaxValidity
    /\ lastUID \in 0 .. MaxUID
    /\ disk \in StoreType
    /\ limbo \subseteq Keys
    /\ pc \in Phases
    /\ unseeded \subseteq Keys
    /\ uidNext \in 0 .. MaxUID + 1 /\ start \in Nat /\ stop \in 0 .. MaxUID
    /\ missed \subseteq Keys

Init ==
    /\ pend = {} /\ flight = {} /\ landed = {} /\ records = {}
    /\ outcome = "ok"
    /\ copied = {} /\ uidValidity = 0 /\ lastUID = 0
    /\ disk = EmptyStore
    /\ dest \in [Keys -> 0 .. 1] /\ Present \subseteq Imported
    /\ src = [u \in UIDs |-> NoMail]
    /\ srcValidity = 1 /\ srcUidNext = 1
    /\ limbo = {}
    /\ pc = "down"
    /\ unseeded = {}
    /\ uidNext = 0 /\ start = 0 /\ stop = 0
    /\ missed = {}

-----------------------------------------------------------------------------
(* The session (mirror.go).                                                *)

(* Both endpoints are dialled; maybeSeed decides whether to seed.  Unless  *)
(* LateAppends, the servers have finished with older connections by then.  *)
Connect ==
    /\ pc = "down"
    /\ LateAppends \/ limbo = {}
    /\ \/ /\ SeedMode = "always" \/ (SeedMode = "empty" /\ copied = {})
          /\ pc' = "seed"
          /\ unseeded' = Present
       \/ /\ SeedMode = "never" \/ (SeedMode = "empty" /\ copied # {})
          /\ pc' = "select"
          /\ unseeded' = unseeded
    /\ UNCHANGED <<copyVars, mailVars, metaVars, disk, limbo, scanVars, missed>>

(* SeedBatch stores the keys of one destination UID window.                *)
SeedWindow ==
    /\ pc = "seed"
    /\ \E batch \in SUBSET unseeded :
          /\ batch # {}
          /\ Cardinality(batch) <= UIDBatch
          /\ copied' = copied \cup batch
          /\ unseeded' = unseeded \ batch
    /\ UNCHANGED <<pend, flight, landed, records, dest, outcome, mailVars,
                   metaVars, disk, limbo, pc, scanVars, missed>>

(* Every window was read.  Mutant: seeding may stop after any window.      *)
SeededPartly == TRUE
Seeded == unseeded = {}

SeedDone ==
    /\ pc = "seed"
    /\ Seeded
    /\ pc' = "select"
    /\ unseeded' = {}
    /\ UNCHANGED <<copyVars, mailVars, metaVars, disk, limbo, scanVars, missed>>

(* A new-mail push or the poll timer ends IDLE and starts another pass.    *)
Wake ==
    /\ pc = "idle"
    /\ pc' = "select"
    /\ UNCHANGED <<copyVars, mailVars, metaVars, disk, limbo, unseeded, scanVars, missed>>

(* The session ends: connections, pipeline and locals are gone; APPENDs    *)
(* already written are in the servers' hands.                              *)
EndSession ==
    /\ pc' = "down"
    /\ limbo' = limbo \cup (flight \ landed)
    /\ pend' = {} /\ flight' = {} /\ landed' = {} /\ records' = {}
    /\ outcome' = "ok"
    /\ unseeded' = {}
    /\ uidNext' = 0 /\ start' = 0 /\ stop' = 0

-----------------------------------------------------------------------------
(* One pass (reconcile.go, Run).                                           *)

SelectFolder ==
    /\ pc = "select"
    /\ uidNext' = srcUidNext
    /\ \/ /\ uidValidity # srcValidity
          /\ pc' = "reset"
          /\ start' = 0
       \/ /\ uidValidity = srcValidity
          /\ pc' = "window"
          /\ start' = lastUID + 1
    /\ UNCHANGED <<copyVars, mailVars, metaVars, disk, limbo, unseeded, stop, missed>>

(* Mutant of ResetMark: only the local mark is reset.                      *)
ResetMarkLocally ==
    /\ pc = "reset"
    /\ pc' = "adopt"
    /\ UNCHANGED <<copyVars, mailVars, metaVars, disk, limbo, unseeded, scanVars, missed>>

(* SetLastUID(0), a transaction of its own, before the new UIDVALIDITY.    *)
ResetMark ==
    /\ pc = "reset"
    /\ lastUID' = 0
    /\ pc' = "adopt"
    /\ UNCHANGED <<copyVars, mailVars, uidValidity, disk, limbo, unseeded, scanVars, missed>>

AdoptValidity ==
    /\ pc = "adopt"
    /\ uidValidity' = srcValidity
    /\ pc' = "window"
    /\ start' = 1
    /\ UNCHANGED <<copyVars, mailVars, lastUID, disk, limbo, unseeded, uidNext, stop, missed>>

(* Mutant of Classify: a key seen twice in the window is copied twice.     *)
ClassifyAll(uids) ==
    {c \in [uid : uids, key : Keys \ copied] : src[c.uid] = c.key}

(* The first message of each unrecorded key among the UIDs of a window.    *)
Classify(uids) ==
    {c \in [uid : uids, key : Keys \ copied] :
        /\ src[c.uid] = c.key
        /\ \A u \in uids : src[u] = c.key => c.uid <= u}

(* min(start+batch-1, uidNext-1).  Mutants: without the second argument;   *)
(* the last UID is taken for uidNext.                                      *)
WindowStopUncapped == start + UIDBatch - 1
WindowStopShort == IF start + UIDBatch - 1 < uidNext - 2
                   THEN start + UIDBatch - 1 ELSE uidNext - 2
WindowStop == IF start + UIDBatch - 1 < uidNext - 1
              THEN start + UIDBatch - 1 ELSE uidNext - 1

(* FetchMetaRange and the classification of one window.                    *)
OpenWindow ==
    /\ pc = "window"
    /\ start < uidNext
    /\ stop' = WindowStop
    /\ pend' = Classify({u \in Mailbox : start <= u /\ u <= WindowStop})
    /\ outcome' = IF pend' = {} THEN "ok" ELSE "running"
    /\ pc' = IF pend' = {} THEN "commit" ELSE IF DestGuard THEN "guard" ELSE "copy"
    /\ UNCHANGED <<flight, landed, records, copied, dest, mailVars, metaVars,
                   disk, limbo, unseeded, uidNext, start, missed>>

(* The SEARCHes' answer.                                                   *)
Found == KeysOf(pend) \cap RealKeys \cap Present

(* guard: candidates the destination already holds are recorded, not       *)
(* copied; only real Message-IDs can be searched for.                      *)
Guard ==
    /\ pc = "guard"
    /\ copied' = copied \cup Found
    /\ pend' = {c \in pend : c.key \notin Found}
    /\ outcome' = IF pend' = {} THEN "ok" ELSE "running"
    /\ pc' = IF pend' = {} THEN "commit" ELSE "copy"
    /\ UNCHANGED <<flight, landed, records, dest, mailVars, metaVars, disk,
                   limbo, unseeded, scanVars, missed>>

(* The copy phase: the steps of WindowCopy.  A body is left out only if    *)
(* its message was expunged after the metadata was read (one fetched       *)
(* before that is still appended); the destination never stores a          *)
(* poisonous message.                                                      *)
SkipGone ==
    /\ pc = "copy"
    /\ outcome = "running"
    /\ \E c \in pend : /\ src[c.uid] = NoMail
                       /\ Skip(c)
                       /\ missed' = missed \cup {c.key}
    /\ UNCHANGED <<mailVars, metaVars, disk, limbo, pc, unseeded, scanVars>>

CopyProgress ==
    /\ pc = "copy"
    /\ \/ \E c \in pend : Send(c)
       \/ \E k \in flight : \/ k \notin Poison /\ Land(k)
                            \/ Confirm(k)
                            \/ k \in Poison /\ Refuse(k)
       \/ FlushRecords
       \/ ReturnOk
       \/ ReturnError
    /\ UNCHANGED <<mailVars, metaVars, disk, limbo, pc, unseeded, scanVars, missed>>

CopyFault ==
    /\ pc = "copy"
    /\ \/ \E c \in pend : SendFails(c)
       \/ \E k \in flight : k \notin Poison /\ Refuse(k)
       \/ StreamFails
       \/ AppendSideFails
    /\ UNCHANGED <<mailVars, metaVars, disk, limbo, pc, unseeded, scanVars, missed>>

(* The pipeline returned nil.  Mutant: its error is ignored.               *)
CopyOkOrNot == outcome \in {"ok", "error"}
CopyOk == outcome = "ok"

CopyReturned ==
    /\ pc = "copy"
    /\ CopyOk
    /\ pc' = "commit"
    /\ outcome' = "ok"
    /\ UNCHANGED <<pend, flight, landed, records, copied, dest, mailVars, metaVars, disk, limbo, unseeded, scanVars, missed>>

(* Run returns the pipeline's error and runSession closes everything.      *)
CopyAborted ==
    /\ pc = "copy"
    /\ outcome = "error"
    /\ EndSession
    /\ UNCHANGED <<copied, dest, mailVars, metaVars, disk, missed>>

(* start += batch                                                          *)
NextStart == start + UIDBatch

(* SetLastUID(stop): the window is committed.                              *)
CommitWindow ==
    /\ pc = "commit"
    /\ lastUID' = stop
    /\ start' = NextStart
    /\ stop' = 0
    /\ pc' = "window"
    /\ UNCHANGED <<copyVars, mailVars, uidValidity, disk, limbo, unseeded, uidNext, missed>>

PassDone ==
    /\ pc = "window"
    /\ start >= uidNext
    /\ pc' = "idle"
    /\ uidNext' = 0 /\ start' = 0
    /\ UNCHANGED <<copyVars, mailVars, metaVars, disk, limbo, unseeded, stop, missed>>

-----------------------------------------------------------------------------
(* Failures.                                                               *)

(* Any call returns an error, or the process dies, at any point (that at   *)
(* outcome "error" it cannot be told from CopyAborted).                    *)
Crash ==
    /\ pc # "down"
    /\ outcome # "error"
    /\ EndSession
    /\ UNCHANGED <<copied, dest, mailVars, metaVars, disk, missed>>

(* WAL with synchronous=NORMAL: commits become durable in order, later.    *)
Checkpoint ==
    /\ "power" \in Faults
    /\ disk # Store
    /\ disk' = Store
    /\ UNCHANGED <<copyVars, mailVars, metaVars, limbo, pc, unseeded, scanVars, missed>>

(* The machine stops: the newest commits are lost.                         *)
PowerLoss ==
    /\ "power" \in Faults
    /\ EndSession
    /\ copied' = disk.copied
    /\ uidValidity' = disk.uidValidity
    /\ lastUID' = disk.lastUID
    /\ UNCHANGED <<dest, mailVars, disk, missed>>

(* The state file is deleted between two runs of the program.              *)
LoseState ==
    /\ "lose" \in Faults
    /\ pc = "down"
    /\ copied' = {} /\ uidValidity' = 0 /\ lastUID' = 0
    /\ disk' = EmptyStore
    /\ UNCHANGED <<pend, flight, landed, records, dest, outcome, mailVars,
                   limbo, pc, unseeded, scanVars, missed>>

(* The destination server gets to an APPEND of a dead connection ...       *)
LimboLand ==
    /\ \E k \in limbo \ Poison : limbo' = limbo \ {k} /\ AddCopy(k)
    /\ UNCHANGED <<pend, flight, landed, records, copied, outcome, mailVars,
                   metaVars, disk, pc, unseeded, scanVars, missed>>

(* ... or discards it.                                                     *)
LimboDrop ==
    /\ \E k \in limbo : limbo' = limbo \ {k}
    /\ UNCHANGED <<copyVars, mailVars, metaVars, disk, pc, unseeded, scanVars, missed>>

-----------------------------------------------------------------------------
(* The source mailbox.                                                     *)

Deliver ==
    /\ srcUidNext <= MaxUID
    /\ \E k \in Keys : src' = [src EXCEPT ![srcUidNext] = k]
    /\ srcUidNext' = srcUidNext + 1
    /\ UNCHANGED <<copyVars, srcValidity, metaVars, disk, limbo, pc, unseeded, scanVars, missed>>

Expunge ==
    /\ \E u \in Mailbox : src' = [src EXCEPT ![u] = NoMail]
    /\ UNCHANGED <<copyVars, srcValidity, srcUidNext, metaVars, disk, limbo, pc,
                   unseeded, scanVars, missed>>

(* The server renumbers the mailbox, in any order, under a new UIDVALIDITY;*)
(* a session that has it open for a scan would be disconnected first.      *)
Renumber ==
    /\ pc \in Unselected
    /\ srcValidity < MaxValidity
    /\ srcValidity' = srcValidity + 1
    /\ \E n \in 0 .. MaxUID : \E f \in Bijection(1 .. n, Mailbox) :
          /\ src' = [u \in UIDs |-> IF u <= n THEN src[f[u]] ELSE NoMail]
          /\ srcUidNext' = n + 1
    /\ UNCHANGED <<copyVars, metaVars, disk, limbo, pc, unseeded, scanVars, missed>>

-----------------------------------------------------------------------------
Program ==
    \/ Connect \/ SeedWindow \/ SeedDone \/ Wake
    \/ SelectFolder \/ ResetMark \/ AdoptValidity
    \/ OpenWindow \/ Guard \/ SkipGone \/ CopyProgress
    \/ CopyReturned \/ CopyAborted \/ CommitWindow \/ PassDone

Fault == Crash \/ PowerLoss \/ LoseState \/ CopyFault

Environment == Checkpoint \/ LimboLand \/ LimboDrop \/ Deliver \/ Expunge \/ Renumber

Next == Program \/ Fault \/ Environment

Spec == Init /\ [][Next]_vars

(* The program keeps going once it is started, servers answer and get rid  *)
(* of dead connections.  Nothing is assumed of users, faults or the disk.  *)
Fairness ==
    /\ WF_vars(Program)
    /\ WF_vars(LimboLand \/ LimboDrop)

LiveSpec == Spec /\ Fairness

-----------------------------------------------------------------------------
(* Properties.                                                             *)

(* The keys some layer protects without help from the store: all of them   *)
(* if every session seeds, real Message-IDs if the guard is on, none if an *)
(* APPEND can take effect after the session that sent it has been replaced.*)
Protected == IF LateAppends THEN {}
             ELSE IF SeedMode = "always" THEN Keys
             ELSE IF DestGuard THEN RealKeys ELSE {}

(* No crash, power loss, lost state file or renumbering makes the mirror   *)
(* store a second copy of a protected message (reconcile.go:4-7).          *)
NoDuplicates == \A k \in Protected : dest[k] <= 1

(* A dedup key is recorded only after a confirmed APPEND: the store, and   *)
(* what a power loss leaves of it, stay behind the destination and never   *)
(* ahead of it (reconcile.go:4-7 and 357).                                 *)
NeverAhead == copied \cup disk.copied \subseteq Present

(* Every message at or below a committed high-water mark of the mailbox's  *)
(* present numbering has been mirrored, unless the body stream left out a  *)
(* message of its key: no crash between windows, between the two writes of *)
(* a UIDVALIDITY reset, or power loss moves the mark past unmirrored mail. *)
MirroredBelowMark ==
    uidValidity = srcValidity =>
        \A u \in Mailbox : u <= lastUID => src[u] \in copied \cup missed

(* What reconcile.go:4-7 and README.md:279-285 say of every message.       *)
NeverDuplicates == \A k \in Keys : dest[k] <= 1

(* What client.go:387 ("next reconcile retries") says: no message is left  *)
(* behind by the mark.                                                     *)
NothingLeftBehind ==
    uidValidity = srcValidity =>
        \A u \in Mailbox : u <= lastUID => src[u] \in copied

(* Once faults stop, every message of the source that stays there and that *)
(* the destination accepts is mirrored: at worst it is copied late         *)
(* (README.md:276-278), unless the stream left out a message of its key.   *)
EventuallyMirrored ==
    <>[][~Fault]_vars =>
        \A u \in UIDs, k \in Keys \ Poison :
            src[u] = k ~> (k \in copied \cup missed \/ src[u] # k)

=============================================================================
