---------------------------- MODULE CopyPipeline ----------------------------
(***************************************************************************)
(* copyPipeline of internal/reconcile/reconcile.go as it runs: a producer  *)
(* goroutine that reads bodies off the source's FETCH stream, a bounded    *)
(* channel, a consumer goroutine that keeps a ring of unconfirmed APPENDs  *)
(* and buffers dedup records, and the destination server answering in its  *)
(* own time.  Implements WindowCopy.                                       *)
(***************************************************************************)
EXTENDS Integers, Sequences, FiniteSets, Functions

CONSTANTS
    Keys, UIDs, AppendRing, RecordFlushSize, MaxCopies,
    Window,         \* the candidates of this window: [uid, key] records
    SyncLabels,     \* Options.SyncLabels
    Labelled,       \* keys whose APPEND carries label keywords
    PipelineDepth   \* pipelineDepth, the channel's capacity

ASSUME PipelineAssumption ==
    /\ AppendRing \in Nat \ {0}
    /\ RecordFlushSize \in Nat \ {0}
    /\ MaxCopies \in Nat \ {0, 1}
    /\ Window \subseteq [uid : UIDs, key : Keys]
    /\ Window # {}      \* mirrorWindow returns before it calls copyPipeline
    /\ \A c, d \in Window : c.key = d.key => c = d
    /\ SyncLabels \in BOOLEAN
    /\ Labelled \subseteq (IF SyncLabels THEN Keys ELSE {})
    /\ PipelineDepth \in Nat \ {0}

VARIABLES
    unread,    \* candidates whose body the stream has not delivered
    vanished,  \* candidates the stream delivered no body for
    hand,      \* producer: the body waiting in the select, or {}
    ch, closed,\* the channel and whether it is closed
    prodErr,   \* producer: FetchFullStream returned an error
    cancelled, \* ctx.Done()
    consErr,   \* consumer failed (and closed the channel named failed)
    consumer,  \* what the consumer does next
    ring,      \* issued APPENDs in order: [key, hadKeywords]
    status,    \* key -> what became of its latest APPEND at the server
    records, copied, dest,
    result,    \* what copyPipeline returned
    destGuard  \* Options.DestGuard, the same throughout

prodVars == <<unread, vanished, hand, closed, prodErr>>
consVars == <<consErr, consumer, ring, records, copied>>
vars == <<prodVars, ch, cancelled, consVars, status, dest, result, destGuard>>

(* Without the guard one APPEND at a time, recorded immediately.  Mutants: *)
(* the guard being off is forgotten.                                       *)
ringAlways == AppendRing
ringLimit == IF destGuard THEN AppendRing ELSE 1
flushAlways == RecordFlushSize

flushLimit == IF destGuard THEN RecordFlushSize ELSE 1

Statuses == {"none", "sent", "stored", "refused"}

(* The type of every variable; channel and ring stay within their limits.  *)
TypeOK ==
    /\ unread \subseteq Window
    /\ vanished \subseteq Window
    /\ hand \subseteq Window /\ Cardinality(hand) <= 1
    /\ ch \in Seq(Window) /\ Len(ch) <= PipelineDepth
    /\ {closed, prodErr, cancelled, consErr} \subseteq BOOLEAN
    /\ consumer \in {"receive", "settle", "flush", "last", "done"}
    /\ ring \in Seq([key : Keys, hadKeywords : BOOLEAN]) /\ Len(ring) <= ringLimit
    /\ status \in [Keys -> Statuses]
    /\ records \subseteq Keys
    /\ copied \subseteq Keys
    /\ dest \in [Keys -> 0 .. MaxCopies]
    /\ result \in {"none", "ok", "error"}
    /\ destGuard \in BOOLEAN

Init ==
    /\ unread = Window
    /\ vanished = {} /\ hand = {}
    /\ ch = <<>>
    /\ closed = FALSE /\ prodErr = FALSE /\ cancelled = FALSE /\ consErr = FALSE
    /\ consumer = "receive"
    /\ ring = <<>>
    /\ status = [k \in Keys |-> "none"]
    /\ records = {} /\ copied = {}
    /\ dest = [k \in Keys |-> 0]
    /\ result = "none"
    /\ destGuard \in BOOLEAN

-----------------------------------------------------------------------------
(* The producer: FetchFullStream and its callback.                         *)

Streaming == ~closed /\ hand = {}

ReadBody ==
    /\ Streaming
    /\ \E c \in unread : hand' = {c} /\ unread' = unread \ {c}
    /\ UNCHANGED <<vanished, closed, prodErr, ch, cancelled, consVars, status, dest, result>>

(* The server has nothing, or an empty body, for an expunged message.      *)
Vanish ==
    /\ Streaming
    /\ \E c \in unread : vanished' = vanished \cup {c} /\ unread' = unread \ {c}
    /\ UNCHANGED <<hand, closed, prodErr, ch, cancelled, consVars, status, dest, result>>

(* The channel's capacity.  Mutant: unbounded.                             *)
RoomAlways == TRUE
Room == Len(ch) < PipelineDepth

(* The three cases of the select; several may be ready.                    *)
Push ==
    /\ hand # {} /\ ~closed
    /\ Room
    /\ \E c \in hand : ch' = Append(ch, c)
    /\ hand' = {}
    /\ UNCHANGED <<unread, vanished, closed, prodErr, cancelled, consVars, status, dest, result>>

(* close(ch), whatever FetchFullStream returned.  Mutant: only after nil.  *)
closeAfterNil == closed' = ~prodErr'
closeCh == closed' = TRUE

GiveUp ==
    /\ hand # {} /\ ~closed
    /\ consErr \/ cancelled
    /\ prodErr' = TRUE
    /\ closeCh
    /\ UNCHANGED <<unread, vanished, hand, ch, cancelled, consVars, status, dest, result>>

(* The stream breaks, or ends; either way the channel is closed.           *)
StreamBreaks ==
    /\ Streaming
    /\ prodErr' = TRUE
    /\ closeCh
    /\ UNCHANGED <<unread, vanished, hand, ch, cancelled, consVars, status, dest, result>>

StreamEnds ==
    /\ Streaming
    /\ unread = {}
    /\ prodErr' = prodErr
    /\ closeCh
    /\ UNCHANGED <<unread, vanished, hand, ch, cancelled, consVars, status, dest, result>>

Cancel ==
    /\ ~cancelled
    /\ result = "none"
    /\ cancelled' = TRUE
    /\ UNCHANGED <<prodVars, ch, consVars, status, dest, result>>

-----------------------------------------------------------------------------
(* The consumer.                                                           *)

(* After a failure received items are dropped so the producer never blocks.*)
Drain ==
    /\ consumer = "receive"
    /\ ch # <<>>
    /\ consErr
    /\ ch' = Tail(ch)
    /\ UNCHANGED <<prodVars, cancelled, consVars, status, dest, result>>

BeginAppend ==
    /\ consumer = "receive"
    /\ ch # <<>>
    /\ ~consErr
    /\ ch' = Tail(ch)
    /\ LET k == Head(ch).key IN
          /\ status' = [status EXCEPT ![k] = "sent"]
          /\ ring' = Append(ring, [key |-> k, hadKeywords |-> k \in Labelled])
    /\ consumer' = IF Len(ring') >= ringLimit THEN "settle" ELSE "receive"
    /\ UNCHANGED <<prodVars, cancelled, consErr, records, copied, dest, result>>

(* labelsFor fails (nothing sent), or the write fails (perhaps all sent).  *)
BeginAppendFails ==
    /\ consumer = "receive"
    /\ ch # <<>>
    /\ ~consErr
    /\ ch' = Tail(ch)
    /\ \/ status' = [status EXCEPT ![Head(ch).key] = "sent"]
       \/ SyncLabels /\ status' = status
    /\ consErr' = TRUE
    /\ UNCHANGED <<prodVars, cancelled, consumer, ring, records, copied, dest, result>>

Oldest == Head(ring).key

Settling == consumer = "settle"

(* Is the batch full?                                                      *)
FlushDue(recs) == Cardinality(recs) >= flushLimit

(* isServerReject.  Mutant: so is an answer lost with the connection.      *)
isServerRejectOrLost(k) == status[k] \in {"refused", "stored"}
isServerReject(k) == status[k] = "refused"

(* Wait returns nil.                                                       *)
SettleConfirmed ==
    /\ Settling
    /\ status[Oldest] = "stored"
    /\ ring' = Tail(ring)
    /\ status' = [status EXCEPT ![Oldest] = "none"]
    /\ records' = records \cup {Oldest}
    /\ consumer' = IF FlushDue(records') THEN "flush" ELSE "receive"
    /\ UNCHANGED <<prodVars, ch, cancelled, consErr, copied, dest, result>>

(* A tagged NO/BAD on an APPEND with keywords: AppendTo without them.      *)
RetryBare ==
    /\ Settling
    /\ isServerReject(Oldest)
    /\ Head(ring).hadKeywords
    /\ status' = [status EXCEPT ![Oldest] = "sent"]
    /\ ring' = [ring EXCEPT ![1].hadKeywords = FALSE]
    /\ UNCHANGED <<prodVars, ch, cancelled, consErr, consumer, records, copied, dest, result>>

SettleRefused ==
    /\ Settling
    /\ isServerReject(Oldest)
    /\ ~Head(ring).hadKeywords
    /\ ring' = Tail(ring)
    /\ status' = [status EXCEPT ![Oldest] = "none"]
    /\ consErr' = TRUE
    /\ consumer' = "receive"
    /\ UNCHANGED <<prodVars, ch, cancelled, records, copied, dest, result>>

(* The connection breaks while waiting, with the answer or before it.      *)
SettleBroken ==
    /\ Settling
    /\ ring' = Tail(ring)
    /\ consErr' = TRUE
    /\ consumer' = "receive"
    /\ UNCHANGED <<prodVars, ch, cancelled, records, copied, status, dest, result>>

(* Must more of the ring be settled?  Mutant: it is not waited for.        *)
RingLeftBehind == FALSE
RingLeft == ~consErr /\ ring # <<>>

(* The range loop ends: settle the rest of the ring, then flush.           *)
RangeEnds ==
    /\ consumer = "receive"
    /\ closed /\ ch = <<>>
    /\ consumer' = IF RingLeft THEN "settle" ELSE "last"
    /\ UNCHANGED <<prodVars, ch, cancelled, consErr, ring, records, copied, status, dest, result>>

AfterFlush == IF consumer = "last" THEN "done" ELSE "receive"

FlushRecords ==
    /\ consumer \in {"flush", "last"}
    /\ copied' = copied \cup records
    /\ records' = {}
    /\ consumer' = AfterFlush
    /\ UNCHANGED <<prodVars, ch, cancelled, consErr, ring, status, dest, result>>

(* The transaction fails; its records stay in the buffer.                  *)
FlushFails ==
    /\ consumer \in {"flush", "last"}
    /\ records # {}
    /\ consErr' = TRUE
    /\ consumer' = AfterFlush
    /\ UNCHANGED <<prodVars, ch, cancelled, ring, records, copied, status, dest, result>>

(* <-done, then consErr, prodErr and ctx.Err() in this order.              *)
Return ==
    /\ closed
    /\ consumer = "done"
    /\ result = "none"
    /\ result' = IF consErr \/ prodErr \/ cancelled THEN "error" ELSE "ok"
    /\ UNCHANGED <<prodVars, ch, cancelled, consVars, status, dest>>

-----------------------------------------------------------------------------
(* The destination server, which outlives the pipeline's interest in it.   *)

ServerStores ==
    /\ \E k \in Keys :
          /\ status[k] = "sent"
          /\ status' = [status EXCEPT ![k] = "stored"]
          /\ dest' = [dest EXCEPT ![k] = IF @ < MaxCopies THEN @ + 1 ELSE @]
    /\ UNCHANGED <<prodVars, ch, cancelled, consVars, result>>

ServerRefuses ==
    /\ \E k \in Keys :
          /\ status[k] = "sent"
          /\ status' = [status EXCEPT ![k] = "refused"]
    /\ UNCHANGED <<prodVars, ch, cancelled, consVars, dest, result>>

-----------------------------------------------------------------------------
Producer == ReadBody \/ Push \/ GiveUp \/ StreamEnds

Settle == SettleConfirmed \/ RetryBare \/ SettleRefused

Consumer == Drain \/ BeginAppend \/ Settle \/ RangeEnds \/ FlushRecords

Fault == \/ Vanish \/ StreamBreaks \/ Cancel
         \/ BeginAppendFails \/ SettleBroken \/ FlushFails

Server == ServerStores \/ ServerRefuses

Finished == result # "none" /\ UNCHANGED vars

(* The configuration does not change while a window is copied.             *)
Configured(A) == A /\ UNCHANGED destGuard

Next == \/ Configured(Producer \/ Consumer \/ Fault \/ Return \/ Server)
        \/ Finished

Spec == Init /\ [][Next]_vars

(* Goroutines are scheduled; a server answers every command it was given.  *)
(* No fault is ever obliged to happen.                                     *)
Fairness ==
    /\ WF_vars(Configured(Producer))
    /\ WF_vars(Configured(Consumer))
    /\ WF_vars(Configured(Return))
    /\ WF_vars(Configured(Server))

LiveSpec == Spec /\ Fairness

-----------------------------------------------------------------------------
(* Properties.                                                             *)

Unsettled == {k \in Keys : status[k] # "none"}

(* The refinement mapping: what is left, in flight, stored, and how far.   *)
Left == unread \cup hand \cup Range(ch)
Landed == {k \in Keys : status[k] = "stored"}
Outcome == IF result # "none" THEN result
           ELSE IF consErr THEN "failed"
           ELSE IF prodErr \/ cancelled THEN "stopped" ELSE "running"

Guarded == INSTANCE WindowCopy WITH
    DestGuard <- TRUE,
    pend <- Left, flight <- Unsettled, landed <- Landed, outcome <- Outcome

Unguarded == INSTANCE WindowCopy WITH
    DestGuard <- FALSE,
    pend <- Left, flight <- Unsettled, landed <- Landed, outcome <- Outcome

(* The pipeline does only what the abstract copy of a window may do, with  *)
(* the guard on and with the guard off.                                    *)
ImplementsWindowCopy ==
    /\ IF destGuard THEN Guarded!CopyInit ELSE Unguarded!CopyInit
    /\ [][IF destGuard THEN [Guarded!CopyStep]_(Guarded!copyVars)
          ELSE [Unguarded!CopyStep]_(Unguarded!copyVars)]_vars

(* Neither the retry without keywords nor a broken connection makes the    *)
(* server store a message twice (reconcile.go:406-408, 498-499).           *)
StoredAtMostOnce == \A k \in Keys : dest[k] <= 1

(* The crash window: messages the server may hold and the store does not   *)
(* know of number at most one ring and one unflushed batch, and with the   *)
(* guard off one in all (reconcile.go:347-348, 366-367).                   *)
CrashWindow ==
    Cardinality(Unsettled \cup records)
        <= IF destGuard THEN AppendRing + RecordFlushSize - 1 ELSE 1

(* If copyPipeline returns nil, the caller may move the high-water mark:   *)
(* every candidate is in the store, or the stream had no body for it.      *)
OkMeansRecorded ==
    result = "ok" => \A c \in Window : c.key \in copied \/ c \in vanished

(* Whatever fails on either side, and whenever, neither goroutine waits    *)
(* for the other for ever: copyPipeline returns (reconcile.go:439).        *)
Returns == <>(result # "none")
=============================================================================
