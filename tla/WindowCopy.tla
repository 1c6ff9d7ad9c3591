----------------------------- MODULE WindowCopy -----------------------------
(***************************************************************************)
(* What copying one window promises (internal/reconcile/reconcile.go,      *)
(* copyPipeline), without its goroutines: candidates of one window are     *)
(* appended to the destination, at most ringLimit unconfirmed at a time,   *)
(* confirmed ones are buffered as records, and the records reach the store *)
(* in one transaction of at most flushLimit keys.                          *)
(*                                                                         *)
(* CopyPipeline shows that the two-goroutine pipeline implements this      *)
(* specification; Reconcile uses its actions as the copy phase of a pass.  *)
(* Messages are abstracted to their dedup keys.                            *)
(***************************************************************************)
EXTENDS Integers, FiniteSets

CONSTANTS
    Keys,            \* dedup keys of the messages considered
    UIDs,            \* source UIDs of the messages considered
    DestGuard,       \* Options.DestGuard
    AppendRing,      \* appendRing: unconfirmed APPENDs with the guard on
    RecordFlushSize, \* recordFlushSize: records per transaction, guard on
    MaxCopies        \* bound: copies of one key the model counts (saturating)

ASSUME CopyAssumption ==
    /\ DestGuard \in BOOLEAN
    /\ AppendRing \in Nat \ {0}
    /\ RecordFlushSize \in Nat \ {0}
    /\ MaxCopies \in Nat \ {0, 1}

VARIABLES
    pend,     \* candidates whose body has not been handed to an APPEND
    flight,   \* keys of issued, unsettled APPENDs (the ring)
    landed,   \* those of flight the server has already stored
    records,  \* keys confirmed, not yet in the store
    copied,   \* the store's table of recorded keys
    dest,     \* copies of each key the destination holds
    outcome   \* how far the copy got

copyVars == <<pend, flight, landed, records, copied, dest, outcome>>

Candidates == [uid : UIDs, key : Keys]

KeysOf(cands) == {c.key : c \in cands}

(* Without the guard: one APPEND in flight, recorded immediately.          *)
ringLimit == IF DestGuard THEN AppendRing ELSE 1
flushLimit == IF DestGuard THEN RecordFlushSize ELSE 1

(* "running"; "stopped": the body stream failed or a shutdown was asked    *)
(* for, the append side goes on; "failed": the append side failed; "ok"    *)
(* and "error": copyPipeline has returned.                                 *)
Outcomes == {"running", "stopped", "failed", "ok", "error"}

CopyTypeOK ==
    /\ pend \subseteq Candidates
    /\ flight \subseteq Keys
    /\ landed \subseteq flight
    /\ records \subseteq Keys
    /\ copied \subseteq Keys
    /\ dest \in [Keys -> 0 .. MaxCopies]
    /\ outcome \in Outcomes

(* A window starts with one candidate per key, none of them recorded.      *)
CopyInit ==
    /\ pend \in SUBSET Candidates
    /\ pend # {}
    /\ \A c, d \in pend : c.key = d.key => c = d
    /\ flight = {}
    /\ landed = {}
    /\ records = {}
    /\ copied \in SUBSET (Keys \ KeysOf(pend))
    /\ dest \in [Keys -> 0 .. 1]
    /\ outcome = "running"

-----------------------------------------------------------------------------
Appending == outcome \in {"running", "stopped"}

MaySend(c) ==
    /\ Appending
    /\ c \in pend
    /\ Cardinality(flight) < ringLimit
    /\ Cardinality(records) < flushLimit

(* The body of candidate c arrived and its APPEND is issued.               *)
Send(c) ==
    /\ MaySend(c)
    /\ pend' = pend \ {c}
    /\ flight' = flight \cup {c.key}
    /\ UNCHANGED <<landed, records, copied, dest, outcome>>

(* The labels could not be read, or writing the APPEND failed: then the    *)
(* server may hold the whole command.                                      *)
SendFails(c) ==
    /\ MaySend(c)
    /\ pend' = pend \ {c}
    /\ flight' \in {flight, flight \cup {c.key}}
    /\ outcome' = "failed"
    /\ UNCHANGED <<landed, records, copied, dest>>

(* The stream has no body for c: the message vanished.                     *)
Skip(c) ==
    /\ outcome \notin {"ok", "error"}
    /\ c \in pend
    /\ pend' = pend \ {c}
    /\ UNCHANGED <<flight, landed, records, copied, dest, outcome>>

(* The stream fails, or shutdown is requested: no more bodies need come,   *)
(* but those already buffered may still be appended and all is settled.    *)
StreamFails ==
    /\ outcome = "running"
    /\ outcome' = "stopped"
    /\ UNCHANGED <<pend, flight, landed, records, copied, dest>>

(* The server stores an APPEND, whether or not anyone still waits for it.  *)
AddCopy(k) ==
    dest' = [dest EXCEPT ![k] = IF @ < MaxCopies THEN @ + 1 ELSE @]

Land(k) ==
    /\ k \in flight \ landed
    /\ landed' = landed \cup {k}
    /\ AddCopy(k)
    /\ UNCHANGED <<pend, flight, records, copied, outcome>>

(* APPENDs whose tagged OK Wait can return.  Mutant: issuing is enough.    *)
AnsweredOnSend == flight
Answered == landed

(* settleOldest: the tagged OK arrives and the record is buffered.         *)
Confirm(k) ==
    /\ Appending
    /\ k \in Answered
    /\ Cardinality(records) < flushLimit
    /\ flight' = flight \ {k}
    /\ landed' = landed \ {k}
    /\ records' = records \cup {k}
    /\ UNCHANGED <<pend, copied, dest, outcome>>

(* settleOldest: a tagged NO/BAD, the message is definitely not stored.    *)
(* A rejection answered by the retry without keywords is no step here.     *)
Refuse(k) ==
    /\ Appending
    /\ k \in flight \ landed
    /\ flight' = flight \ {k}
    /\ outcome' = "failed"
    /\ UNCHANGED <<pend, landed, records, copied, dest>>

(* settleOldest: the connection breaks, stored or not is unknown; or       *)
(* RecordKeys fails and the transaction is rolled back.                    *)
AppendSideFails ==
    /\ Appending
    /\ flight \cup records # {}
    /\ outcome' = "failed"
    /\ UNCHANGED <<pend, flight, landed, records, copied, dest>>

(* RecordKeys commits every buffered record in one transaction: when       *)
(* flushLimit is reached, at the end, and after any failure.               *)
FlushRecords ==
    /\ records # {}
    /\ \/ Cardinality(records) >= flushLimit
       \/ Appending /\ flight = {}
       \/ outcome = "failed"
    /\ copied' = copied \cup records
    /\ records' = {}
    /\ UNCHANGED <<pend, flight, landed, dest, outcome>>

(* copyPipeline returns nil only when every candidate was settled.         *)
ReturnOk ==
    /\ outcome = "running"
    /\ pend = {} /\ flight = {} /\ records = {}
    /\ outcome' = "ok"
    /\ UNCHANGED <<pend, flight, landed, records, copied, dest>>

(* It returns an error after a stop, with everything settled, or after a   *)
(* failure, with the last flush done or failed as well.                    *)
ReturnError ==
    /\ \/ outcome = "stopped" /\ flight = {} /\ records = {}
       \/ outcome = "failed"
    /\ outcome' = "error"
    /\ UNCHANGED <<pend, flight, landed, records, copied, dest>>

CopyStep ==
    \/ \E c \in pend : Send(c) \/ SendFails(c) \/ Skip(c)
    \/ \E k \in flight : Land(k) \/ Confirm(k) \/ Refuse(k)
    \/ StreamFails \/ AppendSideFails \/ FlushRecords
    \/ ReturnOk \/ ReturnError

CopySpec == CopyInit /\ [][CopyStep]_copyVars
=============================================================================
