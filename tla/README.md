# Verification of umleitung

TLA+ models of the mail mirror in `src/`: modules that follow the Go code, TLC
configurations that check them on small instances, and TLAPS proofs for every
value of the constants. `PROJECT.json` is the index: components, runs, the map
from definitions to source lines, mutants, findings, hazards and theorems.

    cd tla
    tlc -workers 2 -config MCReconcile_default.cfg MCReconcile
    tlapm ReconcileProofs.tla

## 1. Inventory of the system

A mirror copies every message of one source IMAP folder to a destination IMAP
account, once, and never deletes there. Optionally it puts each copy in the
destination folder that matches the message's place at the source (inbox, sent,
archive) and gives it keywords for its labels, now or later.

| Component | State | Operations | What makes it correct |
|---|---|---|---|
| Reconcile pass, `reconcile.go` | the mark `lastUID`, `uidValidity`; locals of a pass | `SeedFromDest`, `Run`, `scanWindows`, `mirrorWindow`, `guard` | no duplicate; the mark never passes unmirrored mail; everything is mirrored in the end |
| Copy pipeline, `reconcile.go` `copyPipeline` | channel, ring of APPENDs, record buffer, two goroutines | read a body, append, settle, retry without keywords, flush, return | records only confirmed mail; stores a message once; returns nil only if all is recorded; always returns |
| Membership, routing, labels, `membership.go`, `labels.go` | tables `members`, `folders`, `pending`, the backfill fingerprint | folder scan, rebuild, backfill, copy-time placement, `propagate` | every recorded change is applied or queued; in the end the copy follows the source |
| Dedup keys, `key.go` | none | `DedupKey`, `IsRealMessageID` | a message has the same key at the source and when seeded |
| State store, `store.go` | SQLite tables `copied`, `meta`, `members`, `folders`, `pending` | one transaction per batch | what is committed was true, also of what a power loss leaves |
| Schema migration, `migrate.go` | `user_version` and the tables | one transaction per step | version and tables always agree; recorded labels survive; never downgrades |
| Session supervisor, `mirror.go` | connections, backoff, heartbeat | connect, `maybeSeed`, `runReconcile`, IDLE, reconnect | comes back after every failure; loses no wake-up; the heartbeat tells progress from a hang |
| IMAP client, `client.go` | connection, selected folder, guard chunk size, `notify` | FETCH, streamed FETCH, APPEND, SEARCH in chunks, MOVE, STORE | asks the right folder for every id; reports only what the server said |
| Process, `main.go` | mirrors, health endpoint | start, stop, health | one mirror's failure is seen; a second instance does not start |
| File lock, `lock.go` | a lock file | acquire, release | one instance per lock file |
| Configuration, `config.go` | none | parse, default, validate | two mirrors never share a state file; what it rejects never runs |

How they meet: `main` starts one supervisor per mirror. A supervisor session
owns two connections and the store and calls, in one goroutine, seeding and
then passes. A pass runs `syncMembership`, `SELECT`, `maybeBackfill`, the
windows and `propagate`. Only `copyPipeline` adds goroutines: it starts a
consumer and joins it before it returns. Nothing is shared between mirrors
except the process. The parties that act by themselves are the two IMAP
servers, the users of the source account, the file system and the machine.

What is hard to test is what those parties do *between* two steps: a crash
after an APPEND and before its record; a broken connection that hides whether a
message was stored; a power loss that undoes the last commits; a renumbered
mailbox; mail that arrives, leaves or changes folder between two commands of a
pass; a failure or a shutdown on one side of the pipeline while the other side
waits; a restart with another configuration while operations of the old one are
queued; a second instance, or a crash in the middle of a migration; a server that
hangs without closing. The list `hazards` in `PROJECT.json` has each of them with its line.

## 2. The modules

| Module | Models | Built on |
|---|---|---|
| `WindowCopy` | what copying one window promises, without goroutines | – |
| `CopyPipeline` | `copyPipeline` as it runs; implements `WindowCopy` | `INSTANCE WindowCopy` |
| `Reconcile` | sessions and passes of one mirror with one destination folder | `EXTENDS WindowCopy` |
| `ScanWindows` | the uint32 arithmetic of `scanWindows` | – |
| `GuardSearch` | the guard of each window with the chunked SEARCH | `EXTENDS ScanWindows` |
| `Membership` | routing, labels, backfill, propagation | – |
| `Session` | the supervisor in time: connections, IDLE, backoff, heartbeat, health | – |
| `Config` | defaults and validation, as operators | – |
| `Process` | instances, lock, schema migration, one goroutine per mirror | `EXTENDS Config` |
| `ReconcileProofs`, `CopyPipelineProofs`, `ScanWindowsProofs`, `SessionProofs`, `ProcessProofs`, `MembershipProofs` | theorems | the module they are named after |
| `GuardSearchProofs` | theorems about `GuardSearch` | and `EXTENDS ScanWindowsProofs` |
| `RoutingProofs` | placement and labels in `Membership` | `EXTENDS MembershipProofs` |
| `MC*` | model values and bounds | the module they are named after |

### WindowCopy and CopyPipeline

`CopyPipeline` has one variable per local or goroutine state of `copyPipeline`:
`hand` is the body the producer holds in its `select`, `ch`/`closed` the channel,
`ring` the `inflight` slice, `records` the buffer, `consErr` stands for `setErr`
together with closing `failed`, `cancelled` for `ctx.Done()`, `consumer` for the
place of the consumer in its loop (receive; settle because the ring is full or
the range ended; flush; last flush). `status` is the destination's side of each
APPEND. `Push`, `GiveUp` and their guards are the cases of the producer's
`select`: several may be enabled, as in Go. `RetryBare` is the retry without
keywords after a definite rejection; `SettleBroken` an answer that never comes.

`WindowCopy` is the abstraction: candidates, APPENDs in flight, stored ones,
buffered records, the store, an outcome. The refinement mapping takes candidates
to `unread \cup hand \cup Range(ch)` and flight to the keys whose APPEND the
server has not been told to forget. `destGuard` is chosen once, at the start, so
one run compares both settings with the instance of `WindowCopy` that has it. A message is its dedup key; bodies, flags
and dates are not modelled, keywords are the fact that an APPEND has some.

### Reconcile

`pc` is the point between two effects on the outside: `Connect` (dial and
`maybeSeed`'s decision), `SeedWindow`/`SeedDone`, `SelectFolder`, `ResetMark` and
`AdoptValidity` (two transactions, in this order), `OpenWindow` (FETCH of the
metadata and classification), `Guard`, the steps of `WindowCopy`, `CommitWindow`,
`PassDone`, `Wake`. `Crash` may come at every point and also stands for any call
that returns an error, since `Run`, the supervisor and the process all answer an
error by giving up the session. `EndSession` leaves APPENDs already written in
`limbo`, in the server's hands. `disk` is what a power loss leaves of the store:
SQLite in WAL mode with `synchronous=NORMAL` loses the newest commits, in order.
`LoseState` deletes the state file. The source delivers, expunges and renumbers.

Assumptions, beyond those in the module: nobody but the mirror removes
destination mail; a seeded message yields the key it had at the source, that is,
the destination keeps INTERNALDATE and size, from which synthesized keys are made;
UIDVALIDITY does not change while a scan has the folder open; a body read before
its message was expunged may still be appended. `LateAppends = FALSE` says that a
server is done with the commands of a dead connection before the next session
starts to search.

### Membership

`phase` is the point of a pass, from `syncMembership` to `propagate`. For each
watched folder: `SelectNamedFolder`, then `Removals` (the diff of stored and
present UIDs), `recordAdditions` per window, `CommitWindow`, or for another
UIDVALIDITY the rebuild: windows, `RebuildRemovals`, `AdoptFolder`. Members and
the operations a change calls for are one transaction (`recordRemovals`,
`recordAdditions`), the folder's mark is another. Then `MembershipDone`,
`BackfillScan/Tag/Move/Next/Done`, `Guard`/`AppendCopy`/`RecordCopies`,
`LoadPage`/`applyPending`/`PageDone`; `ApplyFails` deletes the completed prefix.
`cfg` is the running configuration and `Reconfigure` a restart with another one.

Simplifications: the copying of a window is one APPEND at a time (its detail is
in the other modules); the guard is on; keywords are never rejected; a move is
atomic, as with the MOVE extension; a folder holds a key at most once; the sent
folder has its special-use attribute, so it is never a label; committed
transactions survive; a configuration is replaced only after its backfill is
complete. `missed` is a history variable: keys whose change the code knowingly
queues nothing for (section 6).

`Moved` and `Retagged` act, as the code does, on every hit of a SEARCH in the first
bucket that has one. `Longer` says which Message-IDs contain which: `{}` in the runs,
since a header value keeps its angle brackets and only an irregular one, such as a
value without them, can be part of another (section 6).

### ScanWindows

The loop with `start + batch` and `start + batch - 1` taken modulo `Modulus`,
which stands for 2^32, and IMAP's reading of a range whose ends are swapped or
zero. `MayWrap = FALSE` keeps `uidNext + UIDBatch` within the word.

### GuardSearch

The windows of `ScanWindows` (its actions are steps of this module), and inside
each: `OpenWindow` (metadata less recorded keys), then for every bucket
`EnsureSelected` and the loop of `SearchMessageIDsIn`, then `RecordFound`,
`AppendNext`/`RecordCopies` and `CommitWindow`. `ids` is the set of ids to ask for
and `Index(u)` the place of one in UID order. `i`, `chunk` and `selected` are
the loop index over these places, `Client.guardChunk` and `Client.selected`; `open` is
the folder the server has selected on that connection, which is the one a SEARCH reads.
`EnsureSelected` trusts the cache; `MoveCopy` stands for a user and for the moves of
`propagate` and `backfill`, which select a bucket and keep or clear the cache. `chunk`,
`selected` and `open` outlive a window and are set anew by a new session. The server
accepts `depthLimit`
levels of OR, unknown to the program, and answers BAD above it; `OrDepth` is the
depth of the balanced tree of `orMessageIDCriteria`. SEARCH matches substrings
(`Longer`), which is why the code fetches the headers of the hits. Message u has
an id of its own: two messages with one key are in `Reconcile`.

Assumptions: a copy is not moved between buckets while one guard asks them one by
one; a server that answers BAD does so for nesting, not for a single id.

### Session

`phase` is the point of `Run` and `runSession`: the commands in the order of a
session, IDLE, `closing`, `backoff`. A phase in `Working` issues any number of commands
up to `Work[phase]` in a row (`left`): the folders to resolve and create, the SELECT and
SEARCH of each watched folder, the guard's chunks, the queue. The heartbeat `Beat`
happens exactly where the code stores it: at the head of `Run`, before a backoff, at a
wake-up, after a pass, and in `progress`, which ends each window of a scan (`Window`) and
each confirmed copy (`Copy`) and is called nowhere else. A folder with nothing new, the
guard, the STORE and MOVE of a backfill and all of `propagate` go without.

`notify` is the one-slot channel, `push` an
EXISTS the server has sent and the handler has not seen, `selected` the folder of
the source connection: passes select label folders on it, and a server announces
mail only for the selected folder. Time is counted in ticks. `beat` is the age of
the heartbeat, up to one above `Staleness`; `Tick` is not enabled while a local
step or a due timer is waiting, and an answered command takes at most one tick: longer
answers are more work. `wedged` is the set of servers that have stopped answering
(`Wedge`, `Recover`); a session notices only when it waits for one of them (`Blocked`).
`hung` is a history variable: since the last heartbeat a command has taken more than a tick.

`SessionAssumption` asks only for positive intervals and some bound on the work.
`CommandsPerBeat` adds up the longest chain of commands without a heartbeat and `Silence`
is the time it takes, or the longest backoff. `HealthyIfAnswered` is about the settings
in which `Silence` fits into three polls. Nothing in the code ensures that: with a
`poll_interval` below 100 s the backoff alone is longer, and the work has no limit
(`long_queue`, section 5).

### Config and Process

`Config` has `resolve` and `resolveEndpoint` as operators: `Resolved(raw)` is the
configuration, `Accepted(raw)` whether there are no errors. Absent settings have
the zero value, as in Go, so an explicit zero becomes a default too. A path is
the sequence of its elements and `Clean` drops ".". Decoding is one Boolean.

`Process` runs several processes on one configuration file: `Load`,
`AcquireLock`, one goroutine per mirror (`ReadVersion`, one `MigrateStep` per
transaction, `Opened`), and then what two writers would spoil: check, append,
record, and the scan of a label folder. A mirror that cannot open its state
`Fails`: it sets `failed` and cancels the others; `Exit` waits for all of them.
`Signal`, `Crash` and `Restart` come at any time. `LocalStep` is what needs no server,
`Waiting` a mirror in the middle of a command. A database is its version, its
tables and the rows the migration touches; `InitialDbs` are the files a start can
meet, from no file to one of a newer program. `FileOf` says which file a path
names: absolute paths without symbolic links. The scan of labels is cut to what
decides whether a row without UID survives; `Membership` has the rest.

## 3. The runs

| Run | Question | Bounds | States |
|---|---|---|---|
| `default` | guard on, seed if empty: `NoDuplicates`, `NeverAhead`, `MirroredBelowMark` | two real keys, one of them refused for ever, and a synthesized one; 3 UIDs, windows of 2, 2 UIDVALIDITY values, ring and batch of 2, lost state | 2.0 M |
| `seed_live` | guard off, seeding in each session: `NoDuplicates`, `MirroredBelowMark`, `EventuallyMirrored` | a real and a synthesized key, 2 UIDs, power loss and lost state | 0.16 M |
| `pipeline` | `StoredAtMostOnce`, `CrashWindow`, `OkMeansRecorded`, `ImplementsWindowCopy`, `Returns`, guard on and off | 4 candidates, channel of 1, ring 2, batch 2, one message with keywords | 0.14 M |
| `guard` | `ScannedUpToMark`, `GuardMissesNone`, `GuardInventsNone`, `PassEnds` | every `first`, `uidNext` below 7, windows of 4, chunk 4, two buckets, every placement of mail already there, every nesting limit, one message without id, cache and server's selection apart | 0.17 M |
| `process` | `OneWriter`, `NoDoubleAppend`, `SchemaMatchesTables`, `SchemaOnlyRises`, `LabelsSurvive`, `FailureSeen` | two processes, two mirrors or one, files of 5 kinds, each setting at its interesting values, both routings together | 0.10 M |
| `supervisor` | `NoLostWakeup`, `HealthyIfAnswered`, `WedgeReported`, `MailGetsMirrored`, `ClosesAndStops` | one message, poll 5, other timers 1 tick, a command in every phase of a session | 0.13 M |
| `labels` | `MembersTracked`, `PlacedOrOwed`, `TaggedOrOwed`, `EventuallyFollows` | one message, inbox and label, 2 UIDs in the label, two configurations | 0.5 M |
| `renumbered` | the three invariants over a rebuild | two messages, label and sent folder, label renumbered, everything on | 1.2 M |
| `synthesized`, `vanished`, `new_label`, `long_queue` | findings, section 5 | smallest instances that show them | |

Why the bounds suffice. Two UIDVALIDITY values make a mark of an old numbering
meet a new one; three UIDs in windows of two give a full and a cut window and a
crash between them; two UIDs with one key give the duplicate inside a window;
a real and a synthesized key separate what the guard can search for from what it
cannot. With three keys a power loss at every point exceeds the time of a run, so
`default` has none; `seed_live` has it and the proofs cover every fault. In the pipeline four candidates exceed channel, ring and batch together,
so every limit is hit. In `Membership` windows of one UID put a failure
between any two messages, pages of two operations make a page with a completed
prefix, `Room` and `Resets` bound what each folder sees (the inbox one entry,
the label two, so that a message leaves and comes back under another UID), and
`MaxPending` only stops failures while a longer queue is waiting. The
rebuild that must report a change needs two messages, one recorded before: that
is `renumbered`. Symmetry is used there only, over the two messages, and the
run has no temporal property. `MaxCopies = 2` saturates a count that is compared with 1.
In `guard` a window of four ids starts with a tree of depth two, so that a server
which accepts one level or none makes the chunk shrink once or twice, with found
and missing ids on both sides of the split, and a second window meets the smaller
chunk. In `process` a second process meets the first at every step of its start
and exit. In `supervisor` three polls (15 ticks) are little
more than `Silence` (13), so one beat less shows; scans go on for any number of windows,
and one message, arriving before, during or after any pass, is enough since tokens in the
channel also come from label folders; the proofs have any number of messages and any work.

Fairness. `WF(Program)` in `Reconcile` and `Membership`: the supervisor loops
for ever with a backoff of at most five minutes, and the timer of the IDLE loop
starts a pass when no push does (`supervisor` checks both: `NoLostWakeup`,
`HealthyIfAnswered`, `MailGetsMirrored`). That a step once begun also ends rests on the
servers: the code sets no deadline on a command, so a connection must either
answer or break (a server that stays silent on a live connection stops the
mirror, and only the ageing heartbeat shows it). Which step comes next is left
open, and nothing is assumed of users, faults or the disk.
`EventuallyMirrored` and `EventuallyFollows` speak only of behaviours in which
faults (for the second, source changes too) come to an end. `WF(LimboLand \/
LimboDrop)`: a server gets rid of a dead connection's commands. In `CopyPipeline`
the two goroutines are scheduled and, for the same reason, the server answers
each command it was given; a connection that breaks instead is the fault
`SettleBroken`. In `GuardSearch` the program goes on as in `Reconcile`. In `Process`
goroutines are scheduled for what they do without a server (`RunStep`, `LocalStep`), and
an APPEND need not end; `FailureSeen` has `ServersAnswer` as its hypothesis, because
`wg.Wait()` waits for a mirror that is waiting. Faults, signals and restarts are free.
`Session` assumes nothing of the servers either: the goroutine runs (`WF(Program)`), a
scan ends, because it runs to a UIDNEXT read before it began (`SF(LastWindow)`), and time
passes however often servers stop and recover (`SF(Tick)`). Its liveness properties say
themselves whether servers answer. No fault is ever obliged to happen.

Deadlock checking is on in every run; a finished pipeline, a
finished pass and a stopped mirror stutter explicitly.

Each property has a mutant: a definition changed as a plausible bug would change
it (a dropped cap, a second numbering's mark kept, the whole page deleted instead
of its prefix, a channel left open), under which the run reports the property.

## 4. The proofs

Every invariant, every action property and the refinement that a passing run
checks is also a theorem, for every value of the constants. Each proof has one
inductive invariant, one lemma per action or per group of actions that leave the
same things alone, and lemmas on sequences, finite sets and the model's operators
underneath. All eight modules take minutes, `RoutingProofs` the longest (about five).

### ReconcileProofs

For every set of keys, every size and bound, all seed modes, guard on or off, any
`Poison`, `LateAppends` and `Faults`:

- `TypeCorrect`: `TypeOK` is inductive.
- `NeverAheadCorrect`: store and disk image name only mail the destination has.
- `MarkCorrect`: `MirroredBelowMark`.
- `NoDuplicatesCorrect`: at most one copy of every protected key.

None of the last three is inductive as it stands. `PhaseInv` says which pipeline
variables are empty in which phase; without it a window could start with
leftovers. `StoreInv` adds to `NeverAhead` what is about to be recorded: the
record buffer, stored APPENDs and the keys seeding has read; destination mail
never goes away, so each of these stays true. `MarkInv` states the mark's meaning
twice, for the store and for the disk image, because a power loss turns the
second into the first; it says that between `ResetMark` and `AdoptValidity` the mark
is 0, that a scan works on the mailbox's present numbering, that `start` is one
above the mark, and that every message of the open window is recorded, buffered,
in flight, still to be sent or was left out by the stream. That a window with a
repeated key keeps a candidate for it rests on `LeastNat`, the least UID of a
nonempty set. `DupInv` says that a key is pending once and never also in flight,
that a protected key that is pending, in flight and not stored, or in limbo has
no copy yet, that limbo is empty while a session is up, and, if every session
seeds, that all destination mail is recorded or about to be.

### CopyPipelineProofs

`PipelineTypeCorrect`, `StoredAtMostOnceCorrect`, `CrashWindowCorrect`,
`OkMeansRecordedCorrect`, and `PipelineRefines`: the goroutines with channel, ring
and buffer implement `WindowCopy`, on which `Reconcile` is built.

`StoredAtMostOnce` needs to know that a message is on its way in one place only.
`ApartInv`: stream, hand and channel hold different candidates; `FreshInv`: nothing
was issued for a candidate still on its way; `ServerInv` ties the server's side of
an APPEND to the copies it stored. `RingInv` says that until the append side fails
the ring has each unsettled APPEND once, so a settle takes the right one and the
retry without keywords follows a definite rejection only. `CrashWindow` comes from `BoundInv`,
the sizes of ring and buffer at each point of the consumer's loop, which `PhaseInv`
names. `OkMeansRecorded` comes from `AccountedInv`, until the append side fails
every candidate is on its way, in flight, buffered, recorded or was left out by the stream, and `EndInv`, what the flags say when
a goroutine has ended. The refinement uses all of it: most steps of the channel
are stutters of `WindowCopy`, an issue, an answer, a flush and a return are its actions.

### ScanWindowsProofs and GuardSearchProofs

`ScanCorrect`: `ScannedUpToMark` for every word and batch size.
`GuardTypeCorrect`, `GuardMissesNoneCorrect`, `GuardInventsNoneCorrect`, and
`GuardScanCorrect`, `ScannedUpToMark` also over sessions that start again from the
mark. All assume `MayWrap = FALSE`: no window reaches the top of the word.

`GuardMissesNone` speaks of appended mail; the invariant is about the search before it.
`AskedInv`: every id at a place before `i` that this bucket holds, and every id an
earlier bucket holds, is in `found`, and what is left to append is in no bucket or has
no id. A chunk that shrinks keeps `i`, so nothing is skipped. `CacheInv`: a cache that is
not cleared names the folder the server has selected. `PlaceInv` says that the
bucket searched is the one selected and that ids are left to ask for, `HeldInv` that
found, appended and recorded mail and all the mark has passed is at the destination.

### MembershipProofs

`MembershipTypeCorrect` and `MembersTrackedCorrect`, for all folders, keys,
configurations and sizes. `TrackInv` is the property with what it rests on: a stored
numbering is never ahead of the folder's, and if it is the present one the mark is below
UIDNEXT, every message up to it has the row with its UID, and a row names its message or
a UID that is gone. `SelectedInv`, `OnwardInv` and `RebuildInv` say what a pass in
the middle of a folder knows: the numbering it selected is the present one, a scan goes on right after the
mark and a window's messages have rows before the mark passes them, and a rebuild, which
has rows of the old numbering beside new ones, keeps apart which are which
(`seen` and `stored`) until it has removed the old. `MailInv` describes the source:
UIDs are given out once, and a folder holds a key once.

### RoutingProofs

`PlacedOrOwedCorrect`, for Message-IDs of which none contains another (`IdsApart`; section 6
says what happens otherwise). By itself the property is lost in the
middle of three things the code does in several transactions, and the invariant
`PlacementInv` bridges each. `RouteInv`: a copy is in one bucket, and placed or
owed. `AppliedInv`: the moves of the completed part of a page are done, so that
deleting it loses nothing; a failure before the deletion replays them. `UnsavedInv`:
a copy appended and not yet recorded was put where the membership of that moment
asked for. `BackfillInv`: in the folders a backfill has done every copy belongs
there, so that the fingerprint is stored only when all do. `StoredInv`: the rows a
rebuild found are still there when it computes what is gone.

`TaggedOrOwedCorrect` has the same shape for keywords (`TagInv`, `AppliedTagInv`,
`UnsavedTagInv`, `BackfillTagInv`) and a queue in which order matters: `QueueInv`
says that the last queued operation on a label a message has is an addition.
`OwnedInv`: operations are queued for recorded copies only; `WatchInv`: labels are
scanned only while they are switched on. The theorem has two hypotheses beyond `IdsApart`, each true of most
configurations and each needed (section 6): `LabelKeywordsDiffer`, no two labels have one keyword,
and `PropagateFixed`, `labels.propagate` is the same in all configurations with labels.

### SessionProofs

`SessionTypeCorrect`, `NoLostWakeupCorrect`, `HealthyIfAnsweredCorrect`. `WakeInv`
extends the wake-up property from IDLE back to the SELECT of the source folder: mail
the pass has not seen has a push on its way or a token in `notify` ever since.
`BusyInv` bounds the age of the heartbeat by the commands that can have been answered
since the last one when the phase began (`Base`) and those of the phase itself, `RestInv`
by the timers while the session waits, closes or backs off; `DueInv` says that only a
command that was sent has taken a tick, `ConnsInv` which connections are open in which
phase. From them the heartbeat is never older than `Silence` unless a command hung, for
all intervals and all amounts of work.

### ProcessProofs

`ProcessTypeCorrect`, `OneWriterCorrect`, `NoDoubleAppendCorrect`,
`SchemaMatchesTablesCorrect`, and the action
properties `SchemaOnlyRisesCorrect` and `LabelsSurviveCorrect`, for any number of
processes and mirrors. `LockInv`: a running process owns the lock and has an accepted
configuration, whose state files differ; from it comes one writer per file.
`FreshInv`: the version and the answer of the check a mirror has read
and not yet used are still true, which only the lock makes so. `DbInv`: version, tables and rows agree
in every file, in the middle of a chain of migrations too.

### Assumptions

The proofs use the modules' named assumptions. `ReconcileAssumption`, `CopyAssumption`,
`PipelineAssumption`: sizes are positive (constants of the code, and `resolve` for
`uid_batch`), real keys are keys, a window is not empty
(`mirrorWindow` returns before) and has a key once (it drops repetitions);
`MaxCopies` of at least 2 is where the model stops counting. `GuardAssumption`: there
is a bucket, and none is called like the empty cache. `MembershipAssumption`: finitely
many messages, three different destination folders (validated for those in use), propagation only with labels (validated).
`ProcessAssumption`: every state path names a file. `SessionAssumption`: intervals are
positive, which `resolve` ensures (a negative one is rejected, zero becomes the default).

### Only model-checked

All liveness: `EventuallyMirrored`, `EventuallyFollows`, `Returns`, `PassEnds`,
`FailureSeen`, `WedgeReported`, `MailGetsMirrored`, `ClosesAndStops`. Properties under fairness are
out of the prover's reach.

## 5. Findings

1. `synthesized`: with the default settings a message without Message-ID is
   copied twice. One message is copied and recorded; one without Message-ID is stored and
   the process dies before the record. At the next start something is recorded, so nothing
   is seeded, and the guard cannot search for a synthesized key: it is stored again.
   `README.md:316-317` promises otherwise.
2. `vanished`: two messages of one key in a window, the first is expunged before
   its body is read. The second was dropped as a repetition, the window counts as
   complete and the mark passes both. `client.go:387` says the next pass retries.
3. `new_label`: a label created after activation. Its first scan reports nothing
   and no backfill follows, since the fingerprint has not changed: copies made
   before never get its keyword (`README.md:125-126`).
4. `long_queue`: a mirror drains a queue of operations for longer than three polls, every
   command answered at once. `propagate` calls `progress` nowhere, so the heartbeat gets
   stale while it works; `reconcile.go:95-96` says it is called "in every long-running phase".

## 6. Known limits of the program, found with the models

These follow from the code's design and are excluded by named parameters or
history variables instead of being hidden.

- Guard off and seeding only if empty: every crash after an APPEND duplicates
  (`Protected` is empty; ADR 0002 says so).
- Seeding records window by window and is decided by whether the table is empty
  (`mirror.go:217`). Interrupted after its first window it is never resumed: the guard
  makes up for it where there is a Message-ID, and a message without one that the
  destination has and seeding had not reached is copied again. TLC finds it in the
  configuration `synthesized` with `Imported` set to all keys; `mirror.go:162-163` says
  "correctness never depends on local state".
- An APPEND that takes effect after the next session has searched is a second
  copy (`LateAppends`).
- A message the destination refuses for good stops its window in every pass, and
  all mail above it waits (`Poison`).
- Near UID 2^32 a window's end wraps and the loop does not cover the rest; all runs and
  proofs exclude it (`MayWrap = FALSE`).
- `uint32(UIDBatch)` truncates: a multiple of 2^32 would make windows of size zero.
- A `poll_interval` below 100 s is accepted, and three of them are shorter than the
  five-minute backoff: such a mirror is reported unhealthy while it backs off.
- A change of membership that is recorded while the copy is stored but not
  recorded queues nothing; the guard later records the copy where it is
  (`missed` in `Guard`; ADR 0011 speaks of "never losing a delta").
- A watched folder without recorded members is renumbered, or is first scanned
  after the backfill that would have covered it: its changes are suppressed
  (`Unreported`).
- An activation scan that is interrupted after a removal was queued and then
  repeated leaves that removal in the queue behind a suppressed addition
  (`Unreported`, second disjunct).
- A configuration tried and given up before its backfill was complete leaves
  copies where the trial put them: the fingerprint of the old configuration
  still matches (`Reconfigure` requires `Current`). A folder dropped from the configuration
  is no longer searched by the guard either.
- A mirror whose sessions all fail bumps the heartbeat at each attempt
  (`mirror.go:45` and `:51`) and stays healthy for ever; `README.md:216-218` says
  unhealthy "when a mirror has stopped making progress". Only a hang is reported
  (`WedgeReported`), and while one server hangs a shutdown waits for it: commands
  have no deadline.
- The file lock excludes instances with the same `lock_path` only. Two with
  other lock files or state volumes search and then append without excluding each
  other; ADR 0005 calls that "still duplicate-free", which holds only if their steps
  do not interleave.
- `state_path` is compared after `filepath.Clean`: a relative path or a symbolic
  link can still name one file twice. Bucket folders are compared by spelling,
  though INBOX is one folder in any case.
- A copy that is moved from a bucket the guard has not asked to one it has asked
  already is not found and is copied again; IMAP has no snapshot over folders.
- Two labels with the same keyword (`labels.go:48-49`, "documented and harmless"): with
  propagation, removing one of them takes the keyword off although the other stays
  (`LabelKeywordsDiffer` in `RoutingProofs`).
- `labels.propagate` is not part of the backfill's fingerprint. Switched off and later
  on again with labels on, it brings no backfill: changes of labels made in between are
  recorded, but never applied (`PropagateFixed` in `RoutingProofs`; TLC finds it
  too when a configuration without propagation is added to the run `labels`).
- `isRoutingFolder` knows the sent folder only while sent routing is on
  (`membership.go:208`). Switched off with labels on, its recorded rows count as a label
  and copies get a keyword for it; `docs/adr/0013-sent-routing.md:32-33` calls sent
  membership "placement, not labels". The runs keep the sent folder empty in the
  configurations that would show it.
- `MoveMessageID` and `StoreKeywordByMessageID` act on every hit of a substring SEARCH
  (`client.go:477`, `:506`) and do not read the headers of the hits as the guard does. If
  the Message-ID of b contains that of a, a move queued for a takes the copy of b along,
  and nothing is queued to bring it back: `PlacedOrOwed` fails as soon as `Longer`
  relates two messages (`IdsApart` in `RoutingProofs`).
- Without the MOVE extension a move is a COPY and an EXPUNGE; a failure between
  them leaves two copies.

## 7. Not modelled

Label names and their conversion to keywords, the choice of label folders from
LIST, and the hashing of synthesized keys: pure functions of strings, abstract
here (`KeywordOf`, `Labels`, `RealKeys`). The COPY and EXPUNGE a server without
MOVE needs. YAML decoding, the `-healthcheck` probe and the HTTP server, TLS and
dialling below LOGIN, logging and the Docker files: I/O or presentation.

## 8. Plan

Order: what decides whether mail is lost or duplicated first. Done: `WindowCopy`,
`Reconcile`, `CopyPipeline`, `ScanWindows`, `Membership`, `GuardSearch`, `Config`,
`Process`, `Session`, and the proofs of all their invariants, action properties and
the refinement. Left:

1. Shorter proofs of `MembershipProofs` and `RoutingProofs`: their frame lemmas
   repeat, per part of the invariant, which variables an action leaves alone.
2. Theorems the invariants already imply and no run states, such as what a pass that
   ends without error leaves behind.
