---------------------------- MODULE GuardSearch -----------------------------
(***************************************************************************)
(* The destination guard of a pass, window by window: guard (internal/     *)
(* reconcile/reconcile.go) asks every bucket folder for every candidate    *)
(* Message-ID through SearchMessageIDsIn (internal/imapx/client.go), which *)
(* searches in chunks, fetches the headers of the hits, and answers a BAD  *)
(* of the server with smaller chunks for the rest of the session.  The     *)
(* windows are those of ScanWindows; message u of the source has a         *)
(* Message-ID of its own, or none if u is in Synth.                        *)
(***************************************************************************)
EXTENDS ScanWindows, Sequences, FiniteSets, FiniteSetsExt, Functions

CONSTANTS
    Buckets,      \* destBucketFolders(): a sequence of folders
    GuardChunk,   \* defaultGuardChunk
    Synth,        \* messages without Message-ID: their keys are not searchable
    Longer        \* <<h, x>>: the Message-ID of h contains that of x

ASSUME GuardAssumption ==
    /\ Buckets \in Seq(STRING) \ {<<>>} /\ "none" \notin Range(Buckets)
    /\ GuardChunk \in Nat \ {0}
    /\ Synth \subseteq Nat
    /\ Longer \subseteq Nat \X Nat

VARIABLES
    at,         \* where mirrorWindow is: see Places
    folder, i,  \* guard: index of the bucket, and of the next id to ask for
    chunk,      \* Client.guardChunk
    selected,   \* Client.selected on the destination connection
    open,       \* the folder the server has selected there
    found,      \* guard: ids some bucket has
    copied,     \* the store: messages whose key is recorded
    unrecorded, \* appended in this session, not recorded yet
    held,       \* destination: bucket -> messages it holds
    twice,      \* history: searchable messages appended while a bucket had them
    depthLimit  \* destination: nesting of OR it accepts

guardVars == <<at, folder, i, chunk, selected, open, found>>
destVars == <<copied, unrecorded, held, twice, depthLimit>>
allVars == <<vars, guardVars, destVars>>

Places == {"fetch", "select", "search", "record", "copy"}

Held == UNION {held[b] : b \in Range(Buckets)}

(* The window's metadata less the recorded keys, and the ids to ask for:   *)
(* a slice in ascending order, here a set in which each id has its index.  *)
pending == UIDRange(start, Stop) \ copied
ids == pending \ Synth
Index(u) == Cardinality({v \in ids : v <= u})

(* Nesting depth of the balanced tree of orMessageIDCriteria over n ids.   *)
OrDepth[n \in 1 .. GuardChunk] ==
    IF n = 1 THEN 0 ELSE 1 + OrDepth[n - n \div 2]

(* end := min(i+cl.guardChunk, len(ids)), as the last index of the span.   *)
SpanEnd == LET top == i + chunk - 1
           IN  IF top < Cardinality(ids) THEN top ELSE Cardinality(ids)
Span == {u \in ids : Index(u) \in i .. SpanEnd}

(* UID SEARCH HEADER matches substrings: it may hit more than was asked.   *)
Hits == {h \in held[open] : \E x \in Span : h = x \/ <<h, x>> \in Longer}

(* The headers fetched for the hits name the Message-IDs really there.     *)
(* Mutant: a hit is taken for the ids that were asked for.                 *)
FoundSpan == IF Hits = {} THEN {} ELSE Span
FoundHits == Hits \ Synth

(* The type of every variable, besides those of ScanWindows.               *)
GuardTypeOK ==
    /\ TypeOK
    /\ at \in Places
    /\ folder \in 1 .. Len(Buckets)
    /\ i \in 1 .. UIDBatch + 1
    /\ chunk \in 1 .. GuardChunk
    /\ selected \in Range(Buckets) \cup {"none"}
    /\ open \in Range(Buckets)
    /\ found \cup copied \cup unrecorded \cup twice \subseteq Uint32
    /\ held \in [Range(Buckets) -> SUBSET Uint32]
    /\ depthLimit \in Nat

(* Some messages are already there, each in one bucket, unrecorded: copied *)
(* by a session that crashed, or imported by other means.                  *)
GuardInit ==
    /\ Init
    /\ at = "fetch" /\ folder = 1 /\ i = 1 /\ found = {}
    /\ chunk = GuardChunk
    /\ open \in Range(Buckets) /\ selected = open
    /\ copied = {} /\ unrecorded = {} /\ twice = {}
    /\ \E where \in [first .. uidNext - 1 -> Range(Buckets) \cup {"none"}] :
          held = [b \in Range(Buckets) |-> {u \in DOMAIN where : where[u] = b}]
    /\ depthLimit \in 0 .. OrDepth[GuardChunk]

-----------------------------------------------------------------------------
(* FETCH of the window's metadata and classification.                      *)
OpenWindow ==
    /\ at = "fetch"
    /\ running /\ start < uidNext
    /\ at' = IF ids = {} THEN "copy" ELSE "select"
    /\ folder' = 1 /\ found' = {} /\ i' = 1
    /\ UNCHANGED <<vars, chunk, selected, open, destVars>>

(* SelectNamedFolder.  Mutant: without the note of what is selected.       *)
SelectUnnoted(b) == open' = b /\ UNCHANGED selected
Select(b) == open' = b /\ selected' = b

(* ensureSelected: a SELECT, unless the cache names the bucket.            *)
EnsureSelected ==
    /\ at = "select"
    /\ IF selected = Buckets[folder]
       THEN UNCHANGED <<selected, open>>
       ELSE Select(Buckets[folder])
    /\ i' = 1
    /\ at' = "search"
    /\ UNCHANGED <<vars, folder, chunk, found, destVars>>

TooDeep == OrDepth[SpanEnd - i + 1] > depthLimit

(* Where the search goes on after a BAD.  Mutant: behind the refused span. *)
SkipSpan == IF SpanEnd < Cardinality(ids) THEN SpanEnd + 1 ELSE i
SameSpan == i

(* Mutant: the chunk keeps its size.                                       *)
ChunkKept == chunk
ChunkHalved == chunk \div 2

(* BAD: the same span again with half the chunk.                           *)
SearchRefused ==
    /\ at = "search"
    /\ TooDeep /\ chunk > 1
    /\ chunk' = ChunkHalved
    /\ i' = SameSpan
    /\ UNCHANGED <<vars, at, folder, selected, open, found, destVars>>

(* One chunk answered, its hits identified; then the next chunk, the next  *)
(* bucket or the end of the guard.                                         *)
SearchAnswered ==
    /\ at = "search"
    /\ ~TooDeep
    /\ found' = found \cup FoundHits
    /\ IF SpanEnd < Cardinality(ids)
       THEN i' = SpanEnd + 1 /\ UNCHANGED <<at, folder>>
       ELSE /\ i' = 1
            /\ IF folder < Len(Buckets)
               THEN folder' = folder + 1 /\ at' = "select"
               ELSE at' = "record" /\ UNCHANGED folder
    /\ UNCHANGED <<vars, chunk, selected, open, destVars>>

(* Candidates that were found are recorded, not copied.                    *)
RecordFound ==
    /\ at = "record"
    /\ copied' = copied \cup (pending \cap found)
    /\ at' = "copy"
    /\ UNCHANGED <<vars, folder, i, chunk, selected, open, found, unrecorded, held, twice,
                   depthLimit>>

(* copyPipeline, one APPEND at a time, to the bucket the message is routed *)
(* to ...                                                                  *)
AppendNext ==
    /\ at = "copy"
    /\ pending \ unrecorded # {}
    /\ LET u == Min(pending \ unrecorded)
       IN  /\ \E b \in Range(Buckets) : held' = [held EXCEPT ![b] = @ \cup {u}]
           /\ unrecorded' = unrecorded \cup {u}
           /\ twice' = IF u \in Held \ Synth THEN twice \cup {u} ELSE twice
    /\ UNCHANGED <<vars, guardVars, copied, depthLimit>>

(* ... and its records, in batches.                                        *)
RecordCopies ==
    /\ at = "copy"
    /\ unrecorded # {}
    /\ copied' = copied \cup unrecorded
    /\ unrecorded' = {}
    /\ UNCHANGED <<vars, guardVars, held, twice, depthLimit>>

(* SetLastUID(stop), and on to the next window.                            *)
CommitWindow ==
    /\ at = "copy"
    /\ pending = {}
    /\ ScanWindow
    /\ at' = "fetch"
    /\ folder' = 1 /\ i' = 1 /\ found' = {}
    /\ UNCHANGED <<chunk, selected, open, destVars>>

PassDone ==
    /\ at = "fetch"
    /\ ScanDone
    /\ UNCHANGED <<guardVars, destVars>>

-----------------------------------------------------------------------------
(* Any command fails otherwise: the session ends, and the next one dials   *)
(* with a full chunk, has selected the destination folder, or another one  *)
(* if it seeded, and scans on from the mark.                               *)
SessionFails ==
    /\ running
    /\ at' = "fetch" /\ folder' = 1 /\ i' = 1 /\ found' = {}
    /\ chunk' = GuardChunk
    /\ \E b \in Range(Buckets) : Select(b)
    /\ start' = mark + 1
    /\ unrecorded' = {}
    /\ UNCHANGED <<first, uidNext, mark, seen, again, running, copied, held, twice, depthLimit>>

(* A copy is moved to another bucket: by a user, or by MoveMessageID or    *)
(* MoveUIDs of an earlier pass, which select the bucket and keep or clear  *)
(* the cache; not while the guard is asking one bucket after the other.    *)
MoveCopy ==
    /\ at = "fetch" /\ running
    /\ \E b, c \in Range(Buckets) : \E u \in held[b] :
          /\ held' = [held EXCEPT ![b] = @ \ {u}, ![c] = @ \cup {u}]
          /\ \/ UNCHANGED <<selected, open>>
             \/ open' = b /\ selected' \in {b, "none"}
    /\ UNCHANGED <<vars, at, folder, i, chunk, found, copied, unrecorded, twice, depthLimit>>

Program == \/ OpenWindow \/ EnsureSelected \/ SearchRefused \/ SearchAnswered
           \/ RecordFound \/ AppendNext \/ RecordCopies \/ CommitWindow \/ PassDone

Idle == ~running /\ UNCHANGED allVars

GuardNext == Program \/ SessionFails \/ MoveCopy \/ Idle

GuardSpec == GuardInit /\ [][GuardNext]_allVars

(* The pass goes on as long as servers answer.                             *)
GuardLiveSpec == GuardSpec /\ WF_allVars(Program)

-----------------------------------------------------------------------------
(* However the ids fall into chunks, windows and sessions, whatever        *)
(* nesting the server accepts and whichever folder the cache names, no     *)
(* Message-ID that some bucket holds is appended again                     *)
(* (reconcile.go:298-300, client.go:138-146, 280-284).                     *)
GuardMissesNone == twice = {}

(* The guard invents nothing: what it records, and what the mark passes,   *)
(* is at the destination, though SEARCH answers with longer ids as well.   *)
GuardInventsNone ==
    /\ copied \subseteq Held
    /\ first .. mark \subseteq copied

(* Once sessions stop failing the pass ends: BAD answers shrink the chunk  *)
(* to what the server accepts and never cost a session.                    *)
PassEnds == <>[][~SessionFails]_allVars => <>~running
=============================================================================
