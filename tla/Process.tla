------------------------------ MODULE Process -------------------------------
(***************************************************************************)
(* Instances of the program from start to exit: cmd/umleiter/main.go       *)
(* (run), internal/lock/lock.go, and for each mirror internal/state/       *)
(* store.go (Open) and migrate.go.  Several processes may be started with  *)
(* the same configuration file.  What a mirror then does is reduced to     *)
(* what two writers would spoil: it looks for a message at the             *)
(* destination, appends it, records it, and it scans its label folders;    *)
(* the other modules have the detail.  Each mirror has a destination of    *)
(* its own, and the source keeps the message and its labels.               *)
(***************************************************************************)
EXTENDS Config, FiniteSets

CONSTANTS
    Procs,        \* processes
    NoProc,       \* nobody
    RawConfigs,   \* configuration files considered
    Files,        \* state files, named by their cleaned path
    Labels,       \* labels of the message
    RealUID,      \* its UID in each label folder
    MaxCopies     \* bound: copies of a message that are counted (saturating)

SchemaVersion == 2

(* The file behind a state_path: absolute paths without symbolic links.    *)
FileOf(path) == SelectSeq(path, LAMBDA e : e # ".")

ASSUME ProcessAssumption ==
    /\ NoProc \notin Procs
    /\ RealUID \in Nat \ {0}
    /\ MaxCopies \in Nat \ {0, 1}
    /\ \A c \in RawConfigs :
          /\ Len(c.mirrors) \in Nat /\ DOMAIN c.mirrors = 1 .. Len(c.mirrors)
          /\ \A j \in DOMAIN c.mirrors : FileOf(StatePath(c, c.mirrors[j])) \in Files

VARIABLES
    raw,        \* the configuration file
    proc, code, \* process -> where it is in run, and its exit code
    owner,      \* who holds the lock file
    failed,     \* run: failed
    cancelled,  \* run: ctx.Done()
    mir,        \* process -> mirror -> [at, v]: its goroutine; v is migrate's
    db,         \* state file -> contents
    dest        \* mirror -> copies of the message at its destination

procVars == <<proc, code, owner, failed, cancelled>>
vars == <<raw, procVars, mir, db, dest>>

cfg == Resolved(raw)
Mirrors == DOMAIN raw.mirrors

File(m) == FileOf(cfg.mirrors[m].statePath)

Off == [at |-> "off", v |-> 0]
Places == {"off", "start", "migrate", "up", "append", "record", "ended"}

-----------------------------------------------------------------------------
(* The state database.                                                     *)

TablesV1 == {"copied", "meta", "labels", "folders"}
TablesV2 == {"copied", "meta", "members", "folders", "pending"}

Members(uid) == {[label |-> l, uid |-> uid] : l \in Labels}

Db(version, tables, labels, members, folders, copied) ==
    [version |-> version, tables |-> tables, labels |-> labels,
     members |-> members, folders |-> folders, copied |-> copied]

FreshDb == Db(0, {}, {}, {}, {}, FALSE)

(* A new file; one from before there were versions; version 1; the present *)
(* one; one that a newer program has written.                              *)
InitialDbs ==
    {FreshDb,
     Db(0, TablesV1, Labels, {}, Labels, TRUE),
     Db(1, TablesV1, Labels, {}, Labels, TRUE),
     Db(2, TablesV2, {}, Members(RealUID), Labels, TRUE),
     Db(3, {"unknown"}, {}, {}, {}, TRUE)}

(* v0 -> v1: CREATE TABLE IF NOT EXISTS.                                   *)
CreateV1(d) == [d EXCEPT !.tables = @ \cup TablesV1]

(* v1 -> v2: CREATE TABLE, so the tables must not be there yet; labels     *)
(* become members without UIDs, and every folder counts as never scanned.  *)
(* Mutant: the folders keep their scan state.                              *)
ToMembers(d) ==
    [d EXCEPT !.tables = (@ \cup TablesV2) \ {"labels"},
              !.members = {[label |-> l, uid |-> 0] : l \in d.labels},
              !.labels = {}]
MembersKeepFolders(d) == ToMembers(d)
CreateV2(d) == [ToMembers(d) EXCEPT !.folders = {}]

StepFails(d, v) ==
    v = 1 /\ ("labels" \notin d.tables \/ {"members", "pending"} \cap d.tables # {})

(* user_version is set in the same transaction.  Mutant: it is not.        *)
NotBumped(d, v) == d.version
Bumped(d, v) == v + 1

Migrated(d, v) ==
    [(IF v = 0 THEN CreateV1(d) ELSE CreateV2(d)) EXCEPT !.version = Bumped(d, v)]

(* Downgrade protection.  Mutant: none.                                    *)
NeverTooNew(version) == FALSE
TooNew(version) == version > SchemaVersion

-----------------------------------------------------------------------------
Codes == {-1, 0, 1, 2, 137}      \* -1: none yet; 137: killed

(* The type of every variable; mirrors run only in a running process.      *)
TypeOK ==
    /\ raw \in RawConfigs
    /\ proc \in [Procs -> {"down", "loaded", "running", "exited"}]
    /\ code \in [Procs -> Codes]
    /\ owner \in Procs \cup {NoProc}
    /\ failed \in [Procs -> BOOLEAN] /\ cancelled \in [Procs -> BOOLEAN]
    /\ mir \in [Procs -> [Mirrors -> [at : Places, v : 0 .. SchemaVersion]]]
    /\ \A p \in Procs : proc[p] # "running" => mir[p] = [m \in Mirrors |-> Off]
    /\ DOMAIN db = Files
    /\ \A f \in Files : db[f].version \in 0 .. SchemaVersion + 1
    /\ dest \in [Mirrors -> 0 .. MaxCopies]

Init ==
    /\ raw \in RawConfigs
    /\ proc = [p \in Procs |-> "down"]
    /\ code = [p \in Procs |-> -1]
    /\ owner = NoProc
    /\ failed = [p \in Procs |-> FALSE]
    /\ cancelled = [p \in Procs |-> FALSE]
    /\ mir = [p \in Procs |-> [m \in Mirrors |-> Off]]
    /\ \E before \in [Mirrors -> InitialDbs] :
          /\ Accepted(raw) \/ \A m \in Mirrors : before[m] = FreshDb
          /\ \A m, n \in Mirrors : File(m) = File(n) => before[m] = before[n]
          /\ db = [f \in Files |-> IF \E m \in Mirrors : File(m) = f
                                   THEN before[CHOOSE m \in Mirrors : File(m) = f]
                                   ELSE FreshDb]
          /\ dest = [m \in Mirrors |-> IF before[m].copied THEN 1 ELSE 0]

-----------------------------------------------------------------------------
(* run, up to the start of the mirrors.                                    *)

Exits(p, c) ==
    /\ proc' = [proc EXCEPT ![p] = "exited"]
    /\ code' = [code EXCEPT ![p] = c]

(* config.LoadFile.                                                        *)
Load(p) ==
    /\ proc[p] = "down"
    /\ IF Accepted(raw) THEN proc' = [proc EXCEPT ![p] = "loaded"] /\ UNCHANGED code
       ELSE Exits(p, 2)
    /\ UNCHANGED <<raw, owner, failed, cancelled, mir, db, dest>>

(* lock.Acquire does not wait.  Mutant: it does not exclude anybody.       *)
LockIgnored == TRUE
LockFree == owner = NoProc

AcquireLock(p) ==
    /\ proc[p] = "loaded"
    /\ IF LockFree
       THEN /\ owner' = p
            /\ proc' = [proc EXCEPT ![p] = "running"]
            /\ mir' = [mir EXCEPT ![p] = [m \in Mirrors |-> [at |-> "start", v |-> 0]]]
            /\ UNCHANGED code
       ELSE Exits(p, 1) /\ UNCHANGED <<owner, mir>>
    /\ UNCHANGED <<raw, failed, cancelled, db, dest>>

-----------------------------------------------------------------------------
(* One mirror's goroutine.                                                 *)

Goes(p, m, at, v) == mir' = [mir EXCEPT ![p][m] = [at |-> at, v |-> v]]

(* What a mirror that cannot run does to the others.  Mutant: nothing.     *)
StopNobody(p) == cancelled
Stop(p) == [cancelled EXCEPT ![p] = TRUE]

(* mirror.Run returned an error.                                           *)
Fails(p, m) ==
    /\ Goes(p, m, "ended", 0)
    /\ failed' = [failed EXCEPT ![p] = TRUE]
    /\ cancelled' = Stop(p)
    /\ UNCHANGED <<raw, proc, code, owner, db, dest>>

(* state.Open reads user_version.                                          *)
ReadVersion(p, m) ==
    /\ mir[p][m].at = "start"
    /\ LET version == db[File(m)].version
       IN  IF TooNew(version) THEN Fails(p, m)
           ELSE /\ Goes(p, m, "migrate", version)
                /\ UNCHANGED <<raw, procVars, db, dest>>

(* The loop of migrate.  Mutant: one step too many.                        *)
OneStepMore(v) == v <= SchemaVersion
StepLeft(v) == v < SchemaVersion

(* migrateStep, one transaction, of the version that was read.             *)
MigrateStep(p, m) ==
    /\ mir[p][m].at = "migrate"
    /\ StepLeft(mir[p][m].v)
    /\ IF StepFails(db[File(m)], mir[p][m].v) THEN Fails(p, m)
       ELSE /\ db' = [db EXCEPT ![File(m)] = Migrated(@, mir[p][m].v)]
            /\ Goes(p, m, "migrate", mir[p][m].v + 1)
            /\ UNCHANGED <<raw, procVars, dest>>

Opened(p, m) ==
    /\ mir[p][m].at = "migrate"
    /\ ~StepLeft(mir[p][m].v)
    /\ Goes(p, m, "up", 0)
    /\ UNCHANGED <<raw, procVars, db, dest>>

(* An I/O error while the database is opened; the transaction rolls back.  *)
OpenFails(p, m) ==
    /\ mir[p][m].at \in {"start", "migrate"}
    /\ Fails(p, m)

Working(p, m) == mir[p][m].at = "up" /\ ~cancelled[p]

(* A folder with scan state is searched for members that left it: rows     *)
(* whose UID is not there.  One without is rebuilt by Message-ID.          *)
Scanned(d, l) ==
    LET others == {r \in d.members : r.label # l}
    IN  IF l \in d.folders
        THEN [d EXCEPT !.members = others \cup {r \in d.members : r.uid = RealUID}]
        ELSE [d EXCEPT !.members = others \cup {[label |-> l, uid |-> RealUID]},
                       !.folders = @ \cup {l}]

ScanLabel(p, m) ==
    /\ Working(p, m)
    /\ \E l \in Labels : db' = [db EXCEPT ![File(m)] = Scanned(@, l)]
    /\ UNCHANGED <<raw, procVars, mir, dest>>

(* The dedup set and the guard: a message that is there is only recorded.  *)
Check(p, m) ==
    /\ Working(p, m)
    /\ ~db[File(m)].copied
    /\ Goes(p, m, IF dest[m] > 0 THEN "record" ELSE "append", 0)
    /\ UNCHANGED <<raw, procVars, db, dest>>

AppendMail(p, m) ==
    /\ mir[p][m].at = "append"
    /\ dest' = [dest EXCEPT ![m] = IF @ < MaxCopies THEN @ + 1 ELSE @]
    /\ Goes(p, m, "record", 0)
    /\ UNCHANGED <<raw, procVars, db>>

Record(p, m) ==
    /\ mir[p][m].at = "record"
    /\ db' = [db EXCEPT ![File(m)].copied = TRUE]
    /\ Goes(p, m, "up", 0)
    /\ UNCHANGED <<raw, procVars, dest>>

(* Run returns nil once ctx is done, between two messages.                 *)
MirrorStops(p, m) ==
    /\ mir[p][m].at = "up"
    /\ cancelled[p]
    /\ Goes(p, m, "ended", 0)
    /\ UNCHANGED <<raw, procVars, db, dest>>

-----------------------------------------------------------------------------
(* SIGINT or SIGTERM.                                                      *)
Signal(p) ==
    /\ proc[p] = "running"
    /\ cancelled' = Stop(p)
    /\ UNCHANGED <<raw, proc, code, owner, failed, mir, db, dest>>

Gone(p) ==
    /\ owner' = IF owner = p THEN NoProc ELSE owner
    /\ mir' = [mir EXCEPT ![p] = [m \in Mirrors |-> Off]]
    /\ failed' = [failed EXCEPT ![p] = FALSE]
    /\ cancelled' = [cancelled EXCEPT ![p] = FALSE]
    /\ UNCHANGED <<raw, db, dest>>

(* wg.Wait() has returned: the lock is released last.                      *)
Exit(p) ==
    /\ proc[p] = "running"
    /\ \A m \in Mirrors : mir[p][m].at = "ended"
    /\ Exits(p, IF failed[p] THEN 1 ELSE 0)
    /\ Gone(p)

(* The process is killed; the kernel drops its lock.                       *)
Crash(p) ==
    /\ proc[p] \in {"loaded", "running"}
    /\ Exits(p, 137)
    /\ Gone(p)

(* Somebody, or the container runtime, starts it again.                    *)
Restart(p) ==
    /\ proc[p] = "exited"
    /\ proc' = [proc EXCEPT ![p] = "down"]
    /\ code' = [code EXCEPT ![p] = -1]
    /\ UNCHANGED <<raw, owner, failed, cancelled, mir, db, dest>>

LocalStep(p, m) ==
    \/ ReadVersion(p, m) \/ MigrateStep(p, m) \/ Opened(p, m)
    \/ ScanLabel(p, m) \/ Check(p, m) \/ Record(p, m) \/ MirrorStops(p, m)

MirrorStep(p, m) == LocalStep(p, m) \/ AppendMail(p, m)

RunStep(p) == Load(p) \/ AcquireLock(p) \/ Exit(p)

Step(p) == RunStep(p) \/ \E m \in Mirrors : MirrorStep(p, m)

Next == \E p \in Procs : \/ Step(p) \/ Signal(p) \/ Crash(p) \/ Restart(p)
                         \/ \E m \in Mirrors : OpenFails(p, m)

Spec == Init /\ [][Next]_vars

(* Goroutines are scheduled; nothing is assumed of the servers.            *)
LiveSpec ==
    Spec /\ \A p \in Procs : WF_vars(RunStep(p) \/ \E m \in Mirrors : LocalStep(p, m))

-----------------------------------------------------------------------------
IsOpen(p, m) == mir[p][m].at \in {"migrate", "up", "append", "record"}

(* No state file is open in two mirrors, of one process or of two, at any  *)
(* moment of a start, a shutdown or a crash (store.go:26-27, lock.go:1-2,  *)
(* config.go:280-285).                                                     *)
OneWriter ==
    \A p, q \in Procs, m, n \in Mirrors :
        IsOpen(p, m) /\ IsOpen(q, n) /\ File(m) = File(n) => p = q /\ m = n

(* "Two instances would double-append" (main.go:49): they do not get to.   *)
NoDoubleAppend == \A m \in Mirrors : dest[m] <= 1

(* The version of a database and its tables always agree, so the next      *)
(* start can go on with the migration: no failed or interrupted start, and *)
(* no second process, leaves one half migrated (migrate.go:11-12).         *)
SchemaMatchesTables ==
    \A f \in Files :
        /\ db[f].version = 0 => db[f].tables \in {{}, TablesV1}
        /\ db[f].version = 1 => db[f].tables = TablesV1
        /\ db[f].version = 2 => db[f].tables = TablesV2

(* A version never falls, and a database of a newer program is not touched *)
(* at all (migrate.go:80-82).                                              *)
SchemaOnlyRises ==
    [][\A f \in Files :
          /\ db'[f].version >= db[f].version
          /\ db[f].version > SchemaVersion => db'[f] = db[f]]_vars

(* A recorded label that the message still has is never forgotten: rows    *)
(* migrated without a UID survive until a rebuild gives them one, and the  *)
(* UID-based removal never sees them (migrate.go:20-25).                   *)
Recorded(d) == d.labels \cup {r.label : r \in d.members}
LabelsSurvive ==
    [][\A f \in Files : Recorded(db[f]) \subseteq Recorded(db'[f])]_vars

(* Servers answer: no process waits for ever for one that does not.        *)
Waiting(p) == \E m \in Mirrors : mir[p][m].at = "append"
ServersAnswer == \A p \in Procs : []<>~Waiting(p)

(* A mirror that cannot run takes the instance down with a non-zero exit   *)
(* code: the other mirrors are stopped, and stop (main.go:94-99), if no    *)
(* command of theirs hangs: wg.Wait() has no timeout.                      *)
FailureSeen ==
    ServersAnswer => \A p \in Procs : failed[p] ~> proc[p] = "exited" /\ code[p] # 0
=============================================================================
