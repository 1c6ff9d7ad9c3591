--------------------------- MODULE ProcessProofs ----------------------------
(***************************************************************************)
(* For any number of processes and any configuration files: one writer per *)
(* state file, no double append, and migrations that every interruption    *)
(* leaves in a state the next start can go on from.                        *)
(***************************************************************************)
EXTENDS Process, SequenceTheorems, TLAPS

(* A database as the program reads and writes it.                          *)
Tables == TablesV1 \cup TablesV2 \cup {"unknown"}

Databases ==
    [version : 0 .. SchemaVersion + 1,
     tables  : SUBSET Tables,
     labels  : SUBSET Labels,
     members : SUBSET [label : Labels, uid : {0, RealUID}],
     folders : SUBSET Labels,
     copied  : BOOLEAN]

DbTypeInv == db \in [Files -> Databases]

(* A process runs only with the lock and an accepted configuration.        *)
LockInv ==
    \A p \in Procs : /\ proc[p] = "running" => owner = p
                     /\ proc[p] \in {"loaded", "running"} => Accepted(raw)

(* What a mirror remembers of its database and its destination is true.    *)
FreshInv ==
    \A p \in Procs, m \in Mirrors :
        /\ mir[p][m].at = "migrate" => db[File(m)].version = mir[p][m].v
        /\ mir[p][m].at \in {"up", "append", "record"} => db[File(m)].version = SchemaVersion
        /\ mir[p][m].at = "append" => dest[m] = 0

(* Rows of a folder with scan state have their UID; before there were      *)
(* members there are no rows.                                              *)
RowsOk(d) ==
    /\ d.version < SchemaVersion => d.members = {}
    /\ d.version = SchemaVersion =>
          \A r \in d.members : r.label \in d.folders => r.uid = RealUID

TablesOk(d) ==
    /\ d.version = 0 => d.tables \in {{}, TablesV1}
    /\ d.version = 1 => d.tables = TablesV1
    /\ d.version = 2 => d.tables = TablesV2

DbInv == \A f \in Files : RowsOk(db[f]) /\ TablesOk(db[f])

ProcessInv ==
    /\ TypeOK /\ DbTypeInv
    /\ LockInv /\ FreshInv /\ DbInv /\ NoDoubleAppend

-----------------------------------------------------------------------------
(* What an accepted configuration promises.                                *)

(* Cleaning a path names the file behind it.                               *)
LEMMA CleanNamesFile ==
    ASSUME NEW path
    PROVE  Clean(path) = FileOf(path)
  BY DEF Clean, FileOf

(* Defaults do not change the path of the state file.                      *)
LEMMA ResolvedPath ==
    ASSUME NEW c, NEW rm
    PROVE  ResolvedMirror(c, rm).statePath = StatePath(c, rm)
  BY DEF ResolvedMirror

(* The mirrors of an accepted configuration and their files.               *)
LEMMA MirrorsFacts ==
    ASSUME raw \in RawConfigs
    PROVE  /\ Len(raw.mirrors) \in Nat
           /\ Mirrors = 1 .. Len(raw.mirrors)
           /\ \A m \in Mirrors : File(m) = FileOf(StatePath(raw, raw.mirrors[m]))
           /\ \A m \in Mirrors : File(m) \in Files
           /\ \A m \in Mirrors : cfg.mirrors[m] = ResolvedMirror(raw, raw.mirrors[m])
<1>1. Len(raw.mirrors) \in Nat /\ Mirrors = 1 .. Len(raw.mirrors)
  BY ProcessAssumption DEF Mirrors
<1>2. \A m \in Mirrors : cfg.mirrors[m] = ResolvedMirror(raw, raw.mirrors[m])
  <2>1. cfg.mirrors = [j \in DOMAIN raw.mirrors |-> ResolvedMirror(raw, raw.mirrors[j])]
    BY DEF cfg, Resolved
  <2>2. QED
    BY <2>1 DEF Mirrors
<1>3. \A m \in Mirrors : cfg.mirrors[m].statePath = StatePath(raw, raw.mirrors[m])
  BY <1>2, ResolvedPath
<1>4. \A m \in Mirrors : FileOf(StatePath(raw, raw.mirrors[m])) \in Files
  BY ProcessAssumption DEF Mirrors
<1>5. QED
  BY <1>1, <1>2, <1>3, <1>4 DEF File

(* Two mirrors of an accepted configuration have two state files.          *)
LEMMA FilesDiffer ==
    ASSUME raw \in RawConfigs, Accepted(raw), NEW m \in Mirrors, NEW n \in Mirrors,
           File(m) = File(n)
    PROVE  m = n
<1>1. ASSUME NEW j \in Mirrors, NEW k \in Mirrors, k < j
      PROVE  File(k) # File(j)
  <2>1. j \in DOMAIN raw.mirrors /\ k \in 1 .. j - 1 /\ j \in Nat /\ k \in Nat
    BY <1>1, MirrorsFacts DEF Mirrors
  <2>2. Clean(StatePath(raw, raw.mirrors[k])) # Clean(ResolvedMirror(raw, raw.mirrors[j]).statePath)
    BY <2>1 DEF Accepted
  <2>3. ResolvedMirror(raw, raw.mirrors[j]).statePath = StatePath(raw, raw.mirrors[j])
    BY ResolvedPath
  <2>4. QED
    BY <1>1, <2>2, <2>3, CleanNamesFile, MirrorsFacts
<1>2. m \in Nat /\ n \in Nat
  BY MirrorsFacts
<1>3. QED
  BY <1>1, <1>2
-----------------------------------------------------------------------------
(* What the program does to one database.                                  *)

(* A migration step keeps a database sound, raises its version and keeps   *)
(* every recorded label.                                                   *)
LEMMA MigratedFacts ==
    ASSUME NEW d \in Databases, NEW v \in 0 .. SchemaVersion, v < SchemaVersion,
           d.version = v, RowsOk(d), TablesOk(d), ~StepFails(d, v)
    PROVE  /\ Migrated(d, v) \in Databases
           /\ Migrated(d, v).version = v + 1
           /\ RowsOk(Migrated(d, v)) /\ TablesOk(Migrated(d, v))
           /\ Recorded(d) \subseteq Recorded(Migrated(d, v))
<1>1. CASE v = 0
  <2>1. Migrated(d, v) = [d EXCEPT !.tables = d.tables \cup TablesV1, !.version = 1]
    BY <1>1 DEF Migrated, CreateV1, Bumped, Databases
  <2>2. d.tables \cup TablesV1 = TablesV1
    BY <1>1 DEF TablesOk
  <2>3. d.members = {} /\ TablesV1 \subseteq Tables
    BY <1>1 DEF RowsOk, Tables, SchemaVersion
  <2> DEFINE e == [d EXCEPT !.tables = TablesV1, !.version = 1]
  <2>4. /\ e \in Databases /\ e.version = 1 /\ e.tables = TablesV1
        /\ e.members = d.members /\ e.labels = d.labels
    <3>1. 1 \in 0 .. SchemaVersion + 1 /\ TablesV1 \in SUBSET Tables
      BY <2>3 DEF SchemaVersion
    <3> HIDE DEF TablesV1, Tables, SchemaVersion
    <3>2. QED
      BY <3>1 DEF Databases
  <2> HIDE DEF e
  <2>5. RowsOk(e) /\ TablesOk(e) /\ Recorded(d) \subseteq Recorded(e)
    BY <2>3, <2>4 DEF RowsOk, TablesOk, Recorded, SchemaVersion
  <2>6. Migrated(d, v) = e
    BY <2>1, <2>2 DEF e
  <2>7. QED
    BY <1>1, <2>4, <2>5, <2>6
<1>2. CASE v = 1
  <2> DEFINE rows == {[label |-> l, uid |-> 0] : l \in d.labels}
             e == [d EXCEPT !.tables = TablesV2, !.members = rows, !.labels = {},
                            !.folders = {}, !.version = 2]
  <2>1. (d.tables \cup TablesV2) \ {"labels"} = TablesV2
    BY <1>2 DEF TablesOk, TablesV1, TablesV2
  <2>2. Migrated(d, v) = e
    <3>1. ToMembers(d) = [d EXCEPT !.tables = TablesV2, !.members = rows, !.labels = {}]
      BY <2>1 DEF ToMembers
    <3>2. Migrated(d, v) = [[ToMembers(d) EXCEPT !.folders = {}] EXCEPT !.version = 2]
      BY <1>2 DEF Migrated, CreateV2, Bumped
    <3> HIDE DEF rows
    <3>3. QED
      BY <3>1, <3>2 DEF Databases
  <2>3. rows \subseteq [label : Labels, uid : {0, RealUID}]
    BY DEF Databases
  <2>4. TablesV2 \subseteq Tables
    BY DEF Tables
  <2>5. /\ e \in Databases /\ e.version = 2 /\ e.tables = TablesV2
        /\ e.members = rows /\ e.labels = {} /\ e.folders = {}
    <3>1. 2 \in 0 .. SchemaVersion + 1 /\ TablesV2 \in SUBSET Tables
      BY <2>4 DEF SchemaVersion
    <3> HIDE DEF rows
    <3>2. QED
      BY <2>3, <3>1 DEF Databases
  <2>6. d.members = {}
    BY <1>2 DEF RowsOk, SchemaVersion
  <2>7. Recorded(d) = d.labels
    BY <2>6 DEF Recorded
  <2>8. \A l \in d.labels : [label |-> l, uid |-> 0] \in rows /\ [label |-> l, uid |-> 0].label = l
    OBVIOUS
  <2> HIDE DEF e, rows
  <2>9. RowsOk(e) /\ TablesOk(e) /\ Recorded(d) \subseteq Recorded(e)
    <3>1. RowsOk(e) /\ TablesOk(e)
      BY <2>5 DEF RowsOk, TablesOk, SchemaVersion
    <3>2. Recorded(e) = {r.label : r \in rows}
      BY <2>5 DEF Recorded
    <3>3. QED
      BY <2>7, <2>8, <3>1, <3>2
  <2>10. QED
    BY <1>2, <2>2, <2>5, <2>9
<1>3. QED
  BY <1>1, <1>2 DEF SchemaVersion

(* A scan of a label folder keeps a database sound and forgets no label:   *)
(* a row without a UID is in no folder the UID-based removal looks at.     *)
LEMMA ScannedFacts ==
    ASSUME NEW d \in Databases, NEW l \in Labels,
           d.version = SchemaVersion, RowsOk(d), TablesOk(d)
    PROVE  /\ Scanned(d, l) \in Databases
           /\ Scanned(d, l).version = SchemaVersion
           /\ RowsOk(Scanned(d, l)) /\ TablesOk(Scanned(d, l))
           /\ Recorded(d) \subseteq Recorded(Scanned(d, l))
<1> DEFINE others == {r \in d.members : r.label # l}
<1>0. d.members \subseteq [label : Labels, uid : {0, RealUID}] /\ d.folders \subseteq Labels
  BY DEF Databases
<1>1. CASE l \in d.folders
  <2> DEFINE rows == others \cup {r \in d.members : r.uid = RealUID}
             e == [d EXCEPT !.members = rows]
  <2>1. Scanned(d, l) = e
    BY <1>1 DEF Scanned
  <2>2. rows = d.members
    BY <1>1 DEF RowsOk, SchemaVersion
  <2>3. /\ e \in Databases /\ e.version = d.version /\ e.tables = d.tables
        /\ e.members = d.members /\ e.labels = d.labels /\ e.folders = d.folders
    <3> HIDE DEF rows
    <3> QED BY <2>2 DEF Databases
  <2> HIDE DEF e
  <2>4. QED
    BY <2>1, <2>3 DEF RowsOk, TablesOk, Recorded
<1>2. CASE l \notin d.folders
  <2> DEFINE row == [label |-> l, uid |-> RealUID]
             rows == others \cup {row}
             e == [d EXCEPT !.members = rows, !.folders = d.folders \cup {l}]
  <2>1. Scanned(d, l) = e
    BY <1>2 DEF Scanned, Databases
  <2>2. /\ row \in [label : Labels, uid : {0, RealUID}] /\ row.label = l /\ row.uid = RealUID
    OBVIOUS
  <2> HIDE DEF row
  <2>3. rows \subseteq [label : Labels, uid : {0, RealUID}]
    BY <1>0, <2>2
  <2>4. /\ e \in Databases /\ e.version = d.version /\ e.tables = d.tables
        /\ e.members = rows /\ e.labels = d.labels /\ e.folders = d.folders \cup {l}
    <3> HIDE DEF rows
    <3> QED BY <1>0, <2>3 DEF Databases
  <2>5. \A r \in rows : r.label \in d.folders \cup {l} => r.uid = RealUID
    BY <2>2 DEF RowsOk
  <2>6. ASSUME NEW x \in Recorded(d) PROVE x \in d.labels \cup {r.label : r \in rows}
    <3>1. CASE x \in d.labels
      BY <3>1
    <3>2. CASE x = l
      BY <2>2, <3>2
    <3>3. CASE x # l /\ x \notin d.labels
      <4>1. PICK r \in d.members : r.label = x
        BY <2>6, <3>3 DEF Recorded
      <4>2. r \in rows
        BY <3>3, <4>1
      <4>3. QED
        BY <4>1, <4>2
    <3>4. QED
      BY <3>1, <3>2, <3>3
  <2> HIDE DEF e, rows
  <2>7. RowsOk(e) /\ TablesOk(e)
    <3>1. RowsOk(e)
      BY <2>4, <2>5 DEF RowsOk, SchemaVersion
    <3>2. QED
      BY <2>4, <3>1 DEF TablesOk
  <2>8. Recorded(d) \subseteq Recorded(e)
    BY <2>4, <2>6 DEF Recorded
  <2>9. QED
    BY <2>1, <2>4, <2>7, <2>8
<1>3. QED
  BY <1>1, <1>2

(* Recording a copy changes nothing else.                                  *)
LEMMA RecordedFacts ==
    ASSUME NEW d \in Databases, RowsOk(d), TablesOk(d)
    PROVE  LET e == [d EXCEPT !.copied = TRUE]
           IN  /\ e \in Databases /\ e.version = d.version
               /\ RowsOk(e) /\ TablesOk(e) /\ Recorded(d) \subseteq Recorded(e)
<1> DEFINE e == [d EXCEPT !.copied = TRUE]
<1>1. /\ e \in Databases /\ e.version = d.version /\ e.tables = d.tables
      /\ e.members = d.members /\ e.labels = d.labels /\ e.folders = d.folders
  BY DEF Databases
<1> HIDE DEF e
<1>2. RowsOk(e) /\ TablesOk(e) /\ Recorded(d) \subseteq Recorded(e)
  BY <1>1 DEF RowsOk, TablesOk, Recorded
<1>3. QED
  BY <1>1, <1>2 DEF e

-----------------------------------------------------------------------------
(* The lock.                                                               *)

(* Only one process runs mirrors, and no two of them share a file.         *)
LEMMA Alone ==
    ASSUME TypeOK, LockInv, NEW p \in Procs, NEW m \in Mirrors, mir[p][m].at # "off"
    PROVE  /\ proc[p] = "running" /\ owner = p /\ Accepted(raw) /\ File(m) \in Files
           /\ \A q \in Procs, n \in Mirrors :
                 mir[q][n].at # "off" => q = p /\ (File(n) = File(m) => n = m)
<1>1. ASSUME NEW q \in Procs, NEW n \in Mirrors, mir[q][n].at # "off"
      PROVE  proc[q] = "running" /\ owner = q /\ Accepted(raw)
  <2>1. proc[q] = "running"
    <3>1. SUFFICES ASSUME proc[q] # "running" PROVE FALSE
      OBVIOUS
    <3>2. mir[q] = [k \in Mirrors |-> Off]
      BY <3>1 DEF TypeOK
    <3>3. QED
      BY <1>1, <3>2 DEF Off
  <2>2. QED
    BY <2>1 DEF LockInv
<1>2. raw \in RawConfigs
  BY DEF TypeOK
<1>3. QED
  BY <1>1, <1>2, FilesDiffer, MirrorsFacts

(* The steps that leave the mirrors of a process where they are.           *)
LEMMA RawKept ==
    ASSUME [Next]_vars
    PROVE  raw' = raw /\ Mirrors' = Mirrors /\ \A m : File(m)' = File(m)
<1>1. raw' = raw
  BY DEF Next, Step, RunStep, Load, AcquireLock, Exit, MirrorStep, LocalStep, ReadVersion,
         MigrateStep, Opened, ScanLabel, Check, AppendMail, Record, MirrorStops,
         Fails, Signal, Crash, Gone, Restart, OpenFails, vars
<1>2. QED
  BY <1>1 DEF Mirrors, File, cfg

-----------------------------------------------------------------------------
(* The steps of mirrors.                                                   *)

Goroutines == [at : Places, v : 0 .. SchemaVersion]

(* Mirror m of p goes to r, writes d to its file and leaves c copies.      *)
Writes(p, m, r, d, c) ==
    /\ mir' = [mir EXCEPT ![p] = [mir[p] EXCEPT ![m] = r]]
    /\ db' = [db EXCEPT ![File(m)] = d]
    /\ dest' = [dest EXCEPT ![m] = c]
    /\ UNCHANGED <<raw, proc, code, owner>>
    /\ failed' \in [Procs -> BOOLEAN] /\ cancelled' \in [Procs -> BOOLEAN]

(* What it goes on to is true of what it leaves.                           *)
Sound(r, d, c) ==
    /\ r.at = "migrate" => d.version = r.v
    /\ r.at \in {"up", "append", "record"} => d.version = SchemaVersion
    /\ r.at = "append" => c = 0
    /\ c <= 1
    /\ RowsOk(d) /\ TablesOk(d)

(* What a database may become.                                             *)
Grows(d, e) ==
    /\ e.version >= d.version
    /\ d.version > SchemaVersion => e = d
    /\ Recorded(d) \subseteq Recorded(e)

(* A goroutine's step changes its own place only.                          *)
LEMMA GoesWrites ==
    ASSUME TypeOK, NEW p \in Procs, NEW m \in Mirrors, NEW a, NEW x, Goes(p, m, a, x)
    PROVE  mir' = [mir EXCEPT ![p] = [mir[p] EXCEPT ![m] = [at |-> a, v |-> x]]]
  BY DEF Goes, TypeOK

(* Writing back what is there changes nothing.                             *)
LEMMA SameWrites ==
    ASSUME TypeOK, DbTypeInv, NEW p \in Procs, NEW m \in Mirrors
    PROVE  /\ db = [db EXCEPT ![File(m)] = db[File(m)]]
           /\ dest = [dest EXCEPT ![m] = dest[m]]
           /\ mir = [mir EXCEPT ![p] = [mir[p] EXCEPT ![m] = mir[p][m]]]
           /\ mir[p][m] \in Goroutines /\ dest[m] \in 0 .. MaxCopies
           /\ File(m) \in Files /\ db[File(m)] \in Databases
<1>1. File(m) \in Files
  BY MirrorsFacts DEF TypeOK
<1>2. db = [db EXCEPT ![File(m)] = db[File(m)]] /\ db[File(m)] \in Databases
  BY <1>1 DEF DbTypeInv
<1>3. dest = [dest EXCEPT ![m] = dest[m]] /\ dest[m] \in 0 .. MaxCopies
  BY DEF TypeOK
<1>4. mir \in [Procs -> [Mirrors -> Goroutines]]
  BY DEF TypeOK, Goroutines
<1>5. mir = [mir EXCEPT ![p] = [mir[p] EXCEPT ![m] = mir[p][m]]] /\ mir[p][m] \in Goroutines
  BY <1>4
<1>6. QED
  BY <1>1, <1>2, <1>3, <1>5

(* An error ends the goroutine and changes no database.                    *)
LEMMA FailsWrites ==
    ASSUME TypeOK, DbTypeInv, NEW p \in Procs, NEW m \in Mirrors, Fails(p, m)
    PROVE  Writes(p, m, [at |-> "ended", v |-> 0], db[File(m)], dest[m])
<1>1. mir' = [mir EXCEPT ![p] = [mir[p] EXCEPT ![m] = [at |-> "ended", v |-> 0]]]
  BY GoesWrites DEF Fails
<1>2. failed' \in [Procs -> BOOLEAN] /\ cancelled' \in [Procs -> BOOLEAN]
  BY DEF Fails, Stop, TypeOK
<1>3. db' = [db EXCEPT ![File(m)] = db[File(m)]] /\ dest' = [dest EXCEPT ![m] = dest[m]]
  BY SameWrites DEF Fails
<1>4. QED
  BY <1>1, <1>2, <1>3 DEF Writes, Fails

(* Every step of a goroutine is one write of its place, its file and its   *)
(* destination.                                                            *)
LEMMA MirrorWrites ==
    ASSUME ProcessInv, NEW p \in Procs, NEW m \in Mirrors,
           MirrorStep(p, m) \/ OpenFails(p, m)
    PROVE  /\ mir[p][m].at # "off"
           /\ \E r \in Goroutines, d \in Databases, c \in 0 .. MaxCopies :
                 Writes(p, m, r, d, c) /\ Sound(r, d, c) /\ Grows(db[File(m)], d)
<1> DEFINE f == File(m)
<1>0. /\ TypeOK /\ DbTypeInv /\ LockInv /\ FreshInv /\ DbInv
      /\ f \in Files /\ db[f] \in Databases /\ RowsOk(db[f]) /\ TablesOk(db[f])
      /\ dest[m] \in 0 .. MaxCopies /\ dest[m] <= 1 /\ mir[p][m] \in Goroutines
      /\ db[f].version \in 0 .. SchemaVersion + 1
      /\ failed \in [Procs -> BOOLEAN] /\ cancelled \in [Procs -> BOOLEAN]
      /\ SchemaVersion \in Nat /\ 0 \in 0 .. SchemaVersion
  BY SameWrites DEF ProcessInv, TypeOK, DbInv, NoDoubleAppend, Databases, SchemaVersion
<1>1. db[f].version >= db[f].version /\ Grows(db[f], db[f])
  BY <1>0 DEF Grows, SchemaVersion
<1>2. ASSUME Fails(p, m), mir[p][m].at # "off"
      PROVE  \E r \in Goroutines, d \in Databases, c \in 0 .. MaxCopies :
                 Writes(p, m, r, d, c) /\ Sound(r, d, c) /\ Grows(db[File(m)], d)
  <2> DEFINE r == [at |-> "ended", v |-> 0]
  <2>1. Writes(p, m, r, db[f], dest[m])
    BY <1>0, <1>2, FailsWrites
  <2>2. r \in Goroutines /\ r.at = "ended"
    BY <1>0 DEF Goroutines, Places
  <2> HIDE DEF r
  <2>3. Sound(r, db[f], dest[m])
    BY <1>0, <2>2 DEF Sound
  <2>4. QED
    BY <1>0, <1>1, <2>1, <2>2, <2>3
<1> DEFINE Stays == UNCHANGED <<raw, proc, code, owner, failed, cancelled>>
<1>3. ASSUME NEW a \in Places, NEW x \in 0 .. SchemaVersion, Goes(p, m, a, x), Stays,
             NEW d \in Databases, db' = [db EXCEPT ![f] = d], Grows(db[f], d),
             NEW c \in 0 .. MaxCopies, dest' = [dest EXCEPT ![m] = c],
             Sound([at |-> a, v |-> x], d, c)
      PROVE  \E r \in Goroutines, e \in Databases, n \in 0 .. MaxCopies :
                 Writes(p, m, r, e, n) /\ Sound(r, e, n) /\ Grows(db[File(m)], e)
  <2> DEFINE r == [at |-> a, v |-> x]
  <2>1. r \in Goroutines
    BY <1>3 DEF Goroutines
  <2>2. mir' = [mir EXCEPT ![p] = [mir[p] EXCEPT ![m] = r]]
    BY <1>0, <1>3, GoesWrites
  <2>3. Writes(p, m, r, d, c)
    BY <1>0, <1>3, <2>2 DEF Writes
  <2> HIDE DEF r, f
  <2>4. QED
    BY <1>3, <2>1, <2>3 DEF r, f
<1>4. db = [db EXCEPT ![f] = db[f]] /\ dest = [dest EXCEPT ![m] = dest[m]]
  BY <1>0, SameWrites
<1>5. CASE ReadVersion(p, m)
  <2>1. mir[p][m].at = "start"
    BY <1>5 DEF ReadVersion
  <2>2. CASE TooNew(db[f].version)
    BY <1>2, <1>5, <2>1, <2>2 DEF ReadVersion
  <2>3. CASE ~TooNew(db[f].version)
    <3>1. db[f].version \in 0 .. SchemaVersion
      BY <1>0, <2>3 DEF TooNew
    <3>2. Goes(p, m, "migrate", db[f].version) /\ Stays /\ UNCHANGED <<db, dest>>
      BY <1>5, <2>3 DEF ReadVersion, procVars
    <3>3. Sound([at |-> "migrate", v |-> db[f].version], db[f], dest[m])
      BY <1>0 DEF Sound
    <3>4. "migrate" \in Places
      BY DEF Places
    <3>5. QED
      BY <1>0, <1>1, <1>3, <1>4, <2>1, <3>1, <3>2, <3>3, <3>4
  <2>4. QED
    BY <2>2, <2>3
<1>6. CASE MigrateStep(p, m)
  <2>1. /\ mir[p][m].at = "migrate" /\ mir[p][m].v \in 0 .. SchemaVersion
        /\ mir[p][m].v < SchemaVersion /\ db[f].version = mir[p][m].v
    BY <1>0, <1>6 DEF MigrateStep, StepLeft, FreshInv, Goroutines
  <2>2. CASE StepFails(db[f], mir[p][m].v)
    BY <1>2, <1>6, <2>1, <2>2 DEF MigrateStep
  <2>3. CASE ~StepFails(db[f], mir[p][m].v)
    <3> DEFINE v == mir[p][m].v
               d == Migrated(db[f], v)
    <3>1. /\ d \in Databases /\ d.version = v + 1 /\ RowsOk(d) /\ TablesOk(d)
          /\ Recorded(db[f]) \subseteq Recorded(d)
      BY <1>0, <2>1, <2>3, MigratedFacts
    <3>2. Goes(p, m, "migrate", v + 1) /\ Stays /\ db' = [db EXCEPT ![f] = d] /\ dest' = dest
      BY <1>6, <2>3 DEF MigrateStep, procVars
    <3> HIDE DEF d
    <3>3. v + 1 \in 0 .. SchemaVersion /\ "migrate" \in Places
      BY <1>0, <2>1 DEF Places
    <3>4. Grows(db[f], d)
      BY <1>0, <2>1, <3>1 DEF Grows
    <3>5. Sound([at |-> "migrate", v |-> v + 1], d, dest[m])
      BY <1>0, <3>1 DEF Sound
    <3>6. QED
      BY <1>0, <1>3, <1>4, <2>1, <3>1, <3>2, <3>3, <3>4, <3>5
  <2>4. QED
    BY <2>2, <2>3
<1>7. CASE Opened(p, m)
  <2>1. /\ mir[p][m].at = "migrate" /\ Goes(p, m, "up", 0) /\ Stays /\ UNCHANGED <<db, dest>>
        /\ ~(mir[p][m].v < SchemaVersion)
    BY <1>7 DEF Opened, StepLeft, procVars
  <2>2. db[f].version = SchemaVersion
    <3>1. mir[p][m].v \in 0 .. SchemaVersion /\ db[f].version = mir[p][m].v
      BY <1>0, <2>1 DEF FreshInv, Goroutines
    <3>2. QED
      BY <1>0, <2>1, <3>1
  <2>3. Sound([at |-> "up", v |-> 0], db[f], dest[m]) /\ "up" \in Places
    BY <1>0, <2>2 DEF Sound, Places
  <2>4. QED
    BY <1>0, <1>1, <1>3, <1>4, <2>1, <2>3
<1>8. CASE ScanLabel(p, m)
  <2>1. mir[p][m].at = "up" /\ Stays /\ UNCHANGED <<mir, dest>>
    BY <1>8 DEF ScanLabel, Working, procVars
  <2>2. PICK l \in Labels : db' = [db EXCEPT ![f] = Scanned(db[f], l)]
    BY <1>8 DEF ScanLabel
  <2>3. db[f].version = SchemaVersion
    BY <1>0, <2>1 DEF FreshInv
  <2> DEFINE d == Scanned(db[f], l)
  <2>4. /\ d \in Databases /\ d.version = SchemaVersion /\ RowsOk(d) /\ TablesOk(d)
        /\ Recorded(db[f]) \subseteq Recorded(d)
    BY <1>0, <2>3, ScannedFacts
  <2>5. db' = [db EXCEPT ![f] = d]
    BY <2>2
  <2> HIDE DEF d
  <2>6. Grows(db[f], d)
    BY <1>0, <2>3, <2>4 DEF Grows
  <2>7. Sound(mir[p][m], d, dest[m])
    BY <1>0, <2>1, <2>4 DEF Sound
  <2>8. mir' = [mir EXCEPT ![p] = [mir[p] EXCEPT ![m] = mir[p][m]]]
    BY <1>0, <2>1, SameWrites
  <2>9. Writes(p, m, mir[p][m], d, dest[m])
    BY <1>0, <1>4, <2>1, <2>5, <2>8 DEF Writes
  <2>10. QED
    BY <1>0, <2>1, <2>4, <2>6, <2>7, <2>9
<1>9. CASE Check(p, m)
  <2> DEFINE a == IF dest[m] > 0 THEN "record" ELSE "append"
  <2>1. mir[p][m].at = "up" /\ Goes(p, m, a, 0) /\ Stays /\ UNCHANGED <<db, dest>>
    BY <1>9 DEF Check, Working, procVars
  <2>2. db[f].version = SchemaVersion
    BY <1>0, <2>1 DEF FreshInv
  <2>3. a \in {"record", "append"} /\ (a = "append" => dest[m] = 0) /\ a \in Places
    BY <1>0 DEF Places
  <2> HIDE DEF a
  <2>4. Sound([at |-> a, v |-> 0], db[f], dest[m])
    BY <1>0, <2>2, <2>3 DEF Sound
  <2>5. QED
    BY <1>0, <1>1, <1>3, <1>4, <2>1, <2>3, <2>4
<1>10. CASE AppendMail(p, m)
  <2>1. /\ mir[p][m].at = "append" /\ Goes(p, m, "record", 0) /\ Stays /\ db' = db
        /\ dest' = [dest EXCEPT ![m] = IF dest[m] < MaxCopies THEN dest[m] + 1 ELSE dest[m]]
    BY <1>10 DEF AppendMail, procVars
  <2>2. dest[m] = 0 /\ db[f].version = SchemaVersion
    BY <1>0, <2>1 DEF FreshInv
  <2>3. 0 < MaxCopies /\ 1 \in 0 .. MaxCopies
    BY ProcessAssumption
  <2>4. dest' = [dest EXCEPT ![m] = 1]
    BY <2>1, <2>2, <2>3
  <2>5. Sound([at |-> "record", v |-> 0], db[f], 1) /\ "record" \in Places
    BY <1>0, <2>2 DEF Sound, Places
  <2>6. QED
    BY <1>0, <1>1, <1>3, <1>4, <2>1, <2>3, <2>4, <2>5
<1>11. CASE Record(p, m)
  <2> DEFINE d == [db[f] EXCEPT !.copied = TRUE]
  <2>1. mir[p][m].at = "record" /\ Goes(p, m, "up", 0) /\ Stays /\ dest' = dest
    BY <1>11 DEF Record, procVars
  <2>2. db' = [db EXCEPT ![f] = d]
    BY <1>0, <1>11 DEF Record
  <2>3. db[f].version = SchemaVersion
    BY <1>0, <2>1 DEF FreshInv
  <2>4. /\ d \in Databases /\ d.version = db[f].version /\ RowsOk(d) /\ TablesOk(d)
        /\ Recorded(db[f]) \subseteq Recorded(d)
    BY <1>0, RecordedFacts
  <2> HIDE DEF d
  <2>5. Grows(db[f], d)
    BY <1>0, <2>3, <2>4 DEF Grows
  <2>6. Sound([at |-> "up", v |-> 0], d, dest[m]) /\ "up" \in Places
    BY <1>0, <2>3, <2>4 DEF Sound, Places
  <2>7. QED
    BY <1>0, <1>3, <1>4, <2>1, <2>2, <2>4, <2>5, <2>6
<1>12. CASE MirrorStops(p, m)
  <2>1. mir[p][m].at = "up" /\ Goes(p, m, "ended", 0) /\ Stays /\ UNCHANGED <<db, dest>>
    BY <1>12 DEF MirrorStops, procVars
  <2>2. Sound([at |-> "ended", v |-> 0], db[f], dest[m]) /\ "ended" \in Places
    BY <1>0 DEF Sound, Places
  <2>3. QED
    BY <1>0, <1>1, <1>3, <1>4, <2>1, <2>2
<1>13. CASE OpenFails(p, m)
  BY <1>2, <1>13 DEF OpenFails
<1>14. QED
  BY <1>5, <1>6, <1>7, <1>8, <1>9, <1>10, <1>11, <1>12, <1>13
     DEF MirrorStep, LocalStep

(* A mirror's step keeps the invariant: nobody else is near its file.      *)
LEMMA WritesKeep ==
    ASSUME ProcessInv, [Next]_vars, NEW p \in Procs, NEW m \in Mirrors, mir[p][m].at # "off",
           NEW r \in Goroutines, NEW d \in Databases, NEW c \in 0 .. MaxCopies,
           Writes(p, m, r, d, c), Sound(r, d, c)
    PROVE  ProcessInv'
<1>0. /\ TypeOK /\ DbTypeInv /\ LockInv /\ FreshInv /\ DbInv /\ NoDoubleAppend
      /\ mir \in [Procs -> [Mirrors -> Goroutines]]
      /\ dest \in [Mirrors -> 0 .. MaxCopies] /\ db \in [Files -> Databases]
  BY DEF ProcessInv, TypeOK, Goroutines, DbTypeInv
<1>1. raw' = raw /\ Mirrors' = Mirrors /\ \A n : File(n)' = File(n)
  BY RawKept
<1>2. /\ proc[p] = "running" /\ owner = p /\ Accepted(raw) /\ File(m) \in Files
      /\ \A q \in Procs, n \in Mirrors :
            mir[q][n].at # "off" => q = p /\ (File(n) = File(m) => n = m)
  BY <1>0, Alone
<1>3. /\ mir' \in [Procs -> [Mirrors -> Goroutines]]
      /\ mir'[p][m] = r
      /\ \A q \in Procs, n \in Mirrors : (q # p \/ n # m) => mir'[q][n] = mir[q][n]
      /\ \A q \in Procs : q # p => mir'[q] = mir[q]
  <2>1. [mir[p] EXCEPT ![m] = r] \in [Mirrors -> Goroutines]
    BY <1>0
  <2>2. QED
    BY <1>0, <2>1 DEF Writes
<1>4. db' \in [Files -> Databases] /\ dest' \in [Mirrors -> 0 .. MaxCopies]
  BY <1>0, <1>2 DEF Writes
<1>5. TypeOK'
  <2>1. /\ raw' \in RawConfigs /\ proc' = proc /\ code' = code /\ owner' = owner
        /\ failed' \in [Procs -> BOOLEAN] /\ cancelled' \in [Procs -> BOOLEAN]
    BY <1>0, <1>1 DEF TypeOK, Writes
  <2>2. \A q \in Procs : proc'[q] # "running" => mir'[q] = [n \in Mirrors' |-> Off]
    BY <1>0, <1>1, <1>2, <1>3, <2>1 DEF TypeOK
  <2>3. DOMAIN db' = Files /\ \A f \in Files : db'[f].version \in 0 .. SchemaVersion + 1
    BY <1>4 DEF Databases
  <2>4. /\ mir' \in [Procs -> [Mirrors' -> [at : Places, v : 0 .. SchemaVersion]]]
        /\ dest' \in [Mirrors' -> 0 .. MaxCopies]
    BY <1>1, <1>3, <1>4 DEF Goroutines
  <2>5. /\ proc' \in [Procs -> {"down", "loaded", "running", "exited"}]
        /\ code' \in [Procs -> Codes] /\ owner' \in Procs \cup {NoProc}
    BY <1>0, <2>1 DEF TypeOK
  <2>6. QED
    BY <2>1, <2>2, <2>3, <2>4, <2>5 DEF TypeOK
<1>6. DbTypeInv'
  BY <1>4 DEF DbTypeInv
<1>7. LockInv'
  BY <1>0, <1>1 DEF LockInv, Writes
<1>8. FreshInv'
  <2> SUFFICES ASSUME NEW q \in Procs, NEW n \in Mirrors
               PROVE  /\ mir'[q][n].at = "migrate" => db'[File(n)].version = mir'[q][n].v
                      /\ mir'[q][n].at \in {"up", "append", "record"} =>
                             db'[File(n)].version = SchemaVersion
                      /\ mir'[q][n].at = "append" => dest'[n] = 0
    BY <1>1 DEF FreshInv
  <2>1. CASE q = p /\ n = m
    <3>1. mir'[q][n] = r /\ db'[File(n)] = d /\ dest'[n] = c
      BY <1>0, <1>2, <1>3, <2>1 DEF Writes
    <3>2. QED
      BY <3>1 DEF Sound
  <2>2. CASE mir[q][n].at # "off" /\ ~(q = p /\ n = m)
    <3>1. n # m /\ File(n) # File(m) /\ mir'[q][n] = mir[q][n]
      BY <1>2, <1>3, <2>2
    <3>2. File(n) \in Files
      BY <1>0, MirrorsFacts DEF TypeOK
    <3>3. db'[File(n)] = db[File(n)] /\ dest'[n] = dest[n]
      BY <1>0, <3>1, <3>2 DEF Writes
    <3>4. QED
      BY <1>0, <3>1, <3>3 DEF FreshInv
  <2>3. CASE mir[q][n].at = "off" /\ ~(q = p /\ n = m)
    <3>1. mir'[q][n].at = "off"
      BY <1>3, <2>3
    <3>2. QED
      BY <3>1
  <2>4. QED
    BY <2>1, <2>2, <2>3
<1>9. DbInv'
  BY <1>0, <1>2 DEF DbInv, Writes, Sound
<1>10. NoDoubleAppend'
  BY <1>0, <1>1 DEF NoDoubleAppend, Writes, Sound
<1>11. QED
  BY <1>5, <1>6, <1>7, <1>8, <1>9, <1>10 DEF ProcessInv

-----------------------------------------------------------------------------
(* The steps of processes.                                                 *)

ProcessStep(p) == Load(p) \/ AcquireLock(p) \/ Exit(p) \/ Signal(p) \/ Crash(p) \/ Restart(p)

(* They touch no database and no destination; a process that starts or     *)
(* ends moves its own mirrors only, to places nothing is claimed of.       *)
LEMMA ProcessKeeps ==
    ASSUME ProcessInv, [Next]_vars, NEW p \in Procs, ProcessStep(p)
    PROVE  ProcessInv' /\ UNCHANGED <<db, dest>>
<1>0. /\ TypeOK /\ DbTypeInv /\ LockInv /\ FreshInv /\ DbInv /\ NoDoubleAppend
      /\ mir \in [Procs -> [Mirrors -> Goroutines]]
      /\ proc \in [Procs -> {"down", "loaded", "running", "exited"}]
      /\ code \in [Procs -> Codes] /\ owner \in Procs \cup {NoProc}
      /\ failed \in [Procs -> BOOLEAN] /\ cancelled \in [Procs -> BOOLEAN]
  BY DEF ProcessInv, TypeOK, Goroutines
<1>1. raw' = raw /\ Mirrors' = Mirrors /\ \A n : File(n)' = File(n)
  BY RawKept
<1>2. UNCHANGED <<db, dest>>
  BY DEF ProcessStep, Load, AcquireLock, Exit, Signal, Crash, Gone, Restart
<1> DEFINE AllAt(g) == [m \in Mirrors |-> g]
           Start == [at |-> "start", v |-> 0]
<1>3. AllAt(Start) \in [Mirrors -> Goroutines] /\ AllAt(Off) \in [Mirrors -> Goroutines]
  BY DEF Goroutines, Off, Places, SchemaVersion
<1>4. /\ proc' \in [Procs -> {"down", "loaded", "running", "exited"}]
      /\ code' \in [Procs -> Codes]
  <2>1. ASSUME NEW c \in Codes, Exits(p, c)
        PROVE  /\ proc' \in [Procs -> {"down", "loaded", "running", "exited"}]
               /\ code' \in [Procs -> Codes]
    BY <1>0, <2>1 DEF Exits
  <2>2. \A c \in {-1, 0, 1, 2, 137} : c \in Codes
    BY DEF Codes
  <2>3. CASE Load(p)
    BY <1>0, <2>1, <2>2, <2>3 DEF Load
  <2>4. CASE AcquireLock(p)
    BY <1>0, <2>1, <2>2, <2>4 DEF AcquireLock
  <2>5. CASE Exit(p)
    <3>1. PICK c \in Codes : Exits(p, c)
      BY <2>2, <2>5 DEF Exit
    <3>2. QED
      BY <2>1, <3>1
  <2>6. CASE Crash(p)
    BY <2>1, <2>2, <2>6 DEF Crash
  <2>7. CASE Signal(p)
    BY <1>0, <2>7 DEF Signal
  <2>8. CASE Restart(p)
    BY <1>0, <2>2, <2>8 DEF Restart
  <2>9. QED
    BY <2>3, <2>4, <2>5, <2>6, <2>7, <2>8 DEF ProcessStep
<1>5. /\ owner' \in Procs \cup {NoProc}
      /\ failed' \in [Procs -> BOOLEAN] /\ cancelled' \in [Procs -> BOOLEAN]
  <2>1. CASE Load(p) \/ AcquireLock(p) \/ Restart(p)
    BY <1>0, <2>1 DEF Load, AcquireLock, Restart
  <2>2. CASE Signal(p)
    BY <1>0, <2>2 DEF Signal, Stop
  <2>3. CASE Exit(p) \/ Crash(p)
    BY <1>0, <2>3 DEF Exit, Crash, Gone
  <2>4. QED
    BY <2>1, <2>2, <2>3 DEF ProcessStep
<1>6. \/ mir' = mir /\ (proc'[p] = "running" <=> proc[p] = "running")
      \/ mir' = [mir EXCEPT ![p] = AllAt(Start)] /\ proc'[p] = "running"
      \/ mir' = [mir EXCEPT ![p] = AllAt(Off)]
  <2>1. CASE AcquireLock(p)
    BY <1>0, <2>1 DEF AcquireLock, Exits
  <2>2. CASE Exit(p) \/ Crash(p)
    BY <2>2 DEF Exit, Crash, Gone
  <2>3. CASE Load(p) \/ Signal(p) \/ Restart(p)
    BY <1>0, <2>3 DEF Load, Exits, Signal, Restart
  <2>4. QED
    BY <2>1, <2>2, <2>3 DEF ProcessStep
<1>7. \A q \in Procs : q # p => proc'[q] = proc[q]
  BY <1>0 DEF ProcessStep, Load, AcquireLock, Exit, Exits, Signal, Crash, Restart
<1>8. mir' \in [Procs -> [Mirrors -> Goroutines]] /\ \A q \in Procs : q # p => mir'[q] = mir[q]
  <2> HIDE DEF AllAt, Start
  <2> QED BY <1>0, <1>3, <1>6
<1>9. ASSUME NEW m \in Mirrors
      PROVE  mir'[p][m] = mir[p][m] \/ mir'[p][m].at \in {"start", "off"}
  <2>1. mir' = mir \/ mir'[p] = AllAt(Start) \/ mir'[p] = AllAt(Off)
    <3> HIDE DEF AllAt, Start
    <3> QED BY <1>0, <1>6
  <2>2. QED
    BY <2>1 DEF Off
<1>10. TypeOK'
  <2>1. \A q \in Procs : proc'[q] # "running" => mir'[q] = AllAt(Off)
    <3>1. \A q \in Procs : proc[q] # "running" => mir[q] = AllAt(Off)
      BY <1>0 DEF TypeOK
    <3> HIDE DEF AllAt, Start
    <3>2. proc'[p] # "running" => mir'[p] = AllAt(Off)
      BY <1>0, <1>6, <3>1
    <3>3. QED
      BY <1>7, <1>8, <3>1, <3>2
  <2>2. mir' \in [Procs -> [Mirrors' -> [at : Places, v : 0 .. SchemaVersion]]]
    BY <1>1, <1>8 DEF Goroutines
  <2>3. /\ raw' \in RawConfigs /\ dest' \in [Mirrors' -> 0 .. MaxCopies] /\ DOMAIN db' = Files
        /\ \A f \in Files : db'[f].version \in 0 .. SchemaVersion + 1
    BY <1>0, <1>1, <1>2 DEF TypeOK
  <2>4. \A q \in Procs : proc'[q] # "running" => mir'[q] = [m \in Mirrors' |-> Off]
    BY <1>1, <2>1
  <2>5. QED
    BY <1>4, <1>5, <2>2, <2>3, <2>4 DEF TypeOK
<1>11. LockInv'
  <2>1. ASSUME NEW q \in Procs, proc'[q] = "running" PROVE owner' = q
    <3>1. CASE q # p
      <4>1. owner = q /\ owner # NoProc /\ owner # p
        BY <1>0, <1>7, <2>1, <3>1, ProcessAssumption DEF LockInv
      <4>2. QED
        BY <4>1 DEF ProcessStep, Load, AcquireLock, LockFree, Exit, Signal, Crash, Gone, Restart
    <3>2. CASE q = p /\ proc[p] = "running"
      <4>1. owner = p
        BY <1>0, <3>2 DEF LockInv
      <4>2. ~Exit(p) /\ ~Crash(p) /\ ~AcquireLock(p)
        BY <1>0, <2>1, <3>2 DEF Exit, Crash, Exits, AcquireLock
      <4>3. QED
        BY <3>2, <4>1, <4>2 DEF ProcessStep, Load, Signal, Restart
    <3>3. CASE q = p /\ proc[p] # "running"
      BY <1>0, <2>1, <3>3 DEF ProcessStep, Load, AcquireLock, Exit, Exits, Signal, Crash, Restart
    <3>4. QED
      BY <3>1, <3>2, <3>3
  <2>2. ASSUME NEW q \in Procs, proc'[q] \in {"loaded", "running"} PROVE Accepted(raw)
    <3>1. CASE q # p \/ proc[p] \in {"loaded", "running"}
      BY <1>0, <1>7, <2>2, <3>1 DEF LockInv
    <3>2. CASE q = p /\ proc[p] \notin {"loaded", "running"}
      BY <1>0, <2>2, <3>2 DEF ProcessStep, Load, AcquireLock, Exit, Exits, Signal, Crash, Restart
    <3>3. QED
      BY <3>1, <3>2
  <2>3. QED
    BY <1>1, <2>1, <2>2 DEF LockInv
<1>12. FreshInv'
  <2> SUFFICES ASSUME NEW q \in Procs, NEW n \in Mirrors
               PROVE  /\ mir'[q][n].at = "migrate" => db[File(n)].version = mir'[q][n].v
                      /\ mir'[q][n].at \in {"up", "append", "record"} =>
                             db[File(n)].version = SchemaVersion
                      /\ mir'[q][n].at = "append" => dest[n] = 0
    BY <1>1, <1>2 DEF FreshInv
  <2>1. CASE mir'[q][n] = mir[q][n]
    BY <1>0, <2>1 DEF FreshInv
  <2>2. CASE mir'[q][n].at \in {"start", "off"}
    BY <2>2
  <2>3. QED
    BY <1>8, <1>9, <2>1, <2>2
<1>13. DbTypeInv' /\ DbInv' /\ NoDoubleAppend'
  BY <1>0, <1>1, <1>2 DEF DbTypeInv, DbInv, NoDoubleAppend
<1>14. QED
  BY <1>2, <1>10, <1>11, <1>12, <1>13 DEF ProcessInv

-----------------------------------------------------------------------------
(* The first state.                                                        *)

(* The databases that older releases left are sound.                       *)
LEMMA InitialDbsFacts ==
    ASSUME NEW d \in InitialDbs
    PROVE  d \in Databases /\ RowsOk(d) /\ TablesOk(d)
<1> DEFINE Row == [label : Labels, uid : {0, RealUID}]
<1>0. Databases = [version : 0 .. 3, tables : SUBSET Tables, labels : SUBSET Labels,
                   members : SUBSET Row, folders : SUBSET Labels, copied : BOOLEAN]
  BY DEF Databases, SchemaVersion
<1>2. Members(RealUID) \in SUBSET Row /\ \A r \in Members(RealUID) : r.uid = RealUID
  BY DEF Members
<1>3. {} \in SUBSET Tables /\ TablesV1 \in SUBSET Tables /\ TablesV2 \in SUBSET Tables
      /\ {"unknown"} \in SUBSET Tables
  BY DEF Tables
<1>4. /\ {} \in SUBSET Labels /\ Labels \in SUBSET Labels /\ {} \in SUBSET Row
      /\ 0 \in 0 .. 3 /\ 1 \in 0 .. 3 /\ 2 \in 0 .. 3 /\ 3 \in 0 .. 3
  OBVIOUS
<1> HIDE DEF Row
<1>5. CASE d = Db(0, {}, {}, {}, {}, FALSE)
  <2>1. d \in Databases /\ d.version = 0 /\ d.tables = {} /\ d.members = {}
    BY <1>0, <1>3, <1>4, <1>5 DEF Db
  <2>2. QED
    BY <2>1 DEF RowsOk, TablesOk, SchemaVersion
<1>6. CASE d = Db(0, TablesV1, Labels, {}, Labels, TRUE)
  <2>1. d \in Databases /\ d.version = 0 /\ d.tables = TablesV1 /\ d.members = {}
    BY <1>0, <1>3, <1>4, <1>6 DEF Db
  <2>2. QED
    BY <2>1 DEF RowsOk, TablesOk, SchemaVersion
<1>7. CASE d = Db(1, TablesV1, Labels, {}, Labels, TRUE)
  <2>1. d \in Databases /\ d.version = 1 /\ d.tables = TablesV1 /\ d.members = {}
    BY <1>0, <1>3, <1>4, <1>7 DEF Db
  <2>2. QED
    BY <2>1 DEF RowsOk, TablesOk, SchemaVersion
<1>8. CASE d = Db(2, TablesV2, {}, Members(RealUID), Labels, TRUE)
  <2>1. d \in Databases /\ d.version = 2 /\ d.tables = TablesV2 /\ d.members = Members(RealUID)
    BY <1>0, <1>2, <1>3, <1>4, <1>8 DEF Db
  <2>2. QED
    BY <1>2, <2>1 DEF RowsOk, TablesOk, SchemaVersion
<1>9. CASE d = Db(3, {"unknown"}, {}, {}, {}, TRUE)
  <2>1. d \in Databases /\ d.version = 3
    BY <1>0, <1>3, <1>4, <1>9 DEF Db
  <2>2. QED
    BY <2>1 DEF RowsOk, TablesOk, SchemaVersion
<1>10. QED
  BY <1>5, <1>6, <1>7, <1>8, <1>9 DEF InitialDbs, FreshDb

(* The invariant holds before the first process starts.                    *)
LEMMA ProcessInit ==
    ASSUME Init
    PROVE  ProcessInv
<1>1. PICK before \in [Mirrors -> InitialDbs] :
          /\ db = [f \in Files |-> IF \E m \in Mirrors : File(m) = f
                                   THEN before[CHOOSE m \in Mirrors : File(m) = f]
                                   ELSE FreshDb]
          /\ dest = [m \in Mirrors |-> IF before[m].copied THEN 1 ELSE 0]
  BY DEF Init
<1>2. FreshDb \in InitialDbs
  BY DEF InitialDbs
<1>3. \A f \in Files : db[f] \in InitialDbs
  BY <1>1, <1>2
<1>4. DbTypeInv /\ DbInv
  <2>1. DOMAIN db = Files /\ db = [f \in Files |-> db[f]]
    BY <1>1
  <2>2. QED
    BY <1>3, <2>1, InitialDbsFacts DEF DbTypeInv, DbInv
<1>5. dest \in [Mirrors -> 0 .. MaxCopies] /\ NoDoubleAppend
  <2>1. 0 \in 0 .. MaxCopies /\ 1 \in 0 .. MaxCopies
    BY ProcessAssumption
  <2>2. QED
    BY <1>1, <2>1 DEF NoDoubleAppend
<1>6. /\ Off \in Goroutines /\ Off.at = "off"
      /\ mir = [p \in Procs |-> [m \in Mirrors |-> Off]]
  BY DEF Init, Off, Goroutines, Places, SchemaVersion
<1>7. mir \in [Procs -> [Mirrors -> [at : Places, v : 0 .. SchemaVersion]]]
  <2> HIDE DEF Off
  <2> QED BY <1>6 DEF Goroutines
<1>8. TypeOK
  <2>1. \A p \in Procs : mir[p] = [m \in Mirrors |-> Off]
    BY <1>6
  <2>2. DOMAIN db = Files /\ \A f \in Files : db[f].version \in 0 .. SchemaVersion + 1
    BY <1>4 DEF DbTypeInv, Databases
  <2>3. /\ raw \in RawConfigs /\ owner \in Procs \cup {NoProc}
        /\ proc \in [Procs -> {"down", "loaded", "running", "exited"}]
        /\ code \in [Procs -> Codes]
        /\ failed \in [Procs -> BOOLEAN] /\ cancelled \in [Procs -> BOOLEAN]
    BY DEF Init, Codes
  <2>4. QED
    BY <1>5, <1>7, <2>1, <2>2, <2>3 DEF TypeOK
<1>9. LockInv
  BY DEF LockInv, Init
<1>10. FreshInv
  <2>1. \A p \in Procs, m \in Mirrors : mir[p][m].at = "off"
    BY <1>6
  <2>2. QED
    BY <2>1 DEF FreshInv
<1>11. QED
  BY <1>4, <1>5, <1>8, <1>9, <1>10 DEF ProcessInv

-----------------------------------------------------------------------------
(* Every step.                                                             *)

(* A step is a step of a process or of one of its goroutines.              *)
LEMMA NextCases ==
    ASSUME Next
    PROVE  \E p \in Procs : \/ ProcessStep(p)
                            \/ \E m \in Mirrors : MirrorStep(p, m) \/ OpenFails(p, m)
  BY DEF Next, Step, RunStep, ProcessStep

(* Every step keeps the invariant, and no database loses anything.         *)
LEMMA ProcessNext ==
    ASSUME ProcessInv, [Next]_vars
    PROVE  ProcessInv' /\ \A f \in Files : Grows(db[f], db'[f])
<1>0. /\ TypeOK /\ DbTypeInv /\ LockInv
      /\ \A f \in Files : db[f].version \in 0 .. SchemaVersion + 1
  BY DEF ProcessInv, TypeOK
<1>1. \A f \in Files : Grows(db[f], db[f])
  BY <1>0 DEF Grows, SchemaVersion
<1>2. CASE UNCHANGED vars
  <2>1. /\ raw' = raw /\ proc' = proc /\ code' = code /\ owner' = owner /\ failed' = failed
        /\ cancelled' = cancelled /\ mir' = mir /\ db' = db /\ dest' = dest
    BY <1>2 DEF vars, procVars
  <2>2. Mirrors' = Mirrors /\ \A m : File(m)' = File(m)
    BY RawKept
  <2>3. TypeOK'
    BY <1>0, <2>1, <2>2 DEF TypeOK
  <2>4. DbTypeInv' /\ LockInv' /\ FreshInv' /\ DbInv' /\ NoDoubleAppend'
    BY <2>1, <2>2 DEF ProcessInv, DbTypeInv, LockInv, FreshInv, DbInv, NoDoubleAppend
  <2>5. QED
    BY <1>1, <2>1, <2>3, <2>4 DEF ProcessInv
<1>3. ASSUME NEW p \in Procs, ProcessStep(p)
      PROVE  ProcessInv' /\ \A f \in Files : Grows(db[f], db'[f])
  BY <1>1, <1>3, ProcessKeeps
<1>4. ASSUME NEW p \in Procs, NEW m \in Mirrors, MirrorStep(p, m) \/ OpenFails(p, m)
      PROVE  ProcessInv' /\ \A f \in Files : Grows(db[f], db'[f])
  <2>1. mir[p][m].at # "off"
    BY <1>4, MirrorWrites
  <2>2. PICK r \in Goroutines, d \in Databases, c \in 0 .. MaxCopies :
            Writes(p, m, r, d, c) /\ Sound(r, d, c) /\ Grows(db[File(m)], d)
    BY <1>4, MirrorWrites
  <2>3. ProcessInv'
    BY <2>1, <2>2, WritesKeep
  <2>4. \A f \in Files : db'[f] = IF f = File(m) THEN d ELSE db[f]
    BY <1>0, <2>2 DEF Writes, DbTypeInv
  <2>5. QED
    BY <1>1, <2>2, <2>3, <2>4
<1>5. QED
  BY <1>2, <1>3, <1>4, NextCases

(* The inductive invariant of processes, locks and databases holds         *)
(* throughout, whichever process starts, stops or dies.                    *)
THEOREM ProcessInvariant == Spec => []ProcessInv
<1>1. ProcessInv /\ [Next]_vars => ProcessInv'
  BY ProcessNext
<1>2. QED
  BY <1>1, ProcessInit, PTL DEF Spec

-----------------------------------------------------------------------------
(* The theorems.                                                           *)

(* Type correctness, with mirrors running only in running processes.       *)
THEOREM ProcessTypeCorrect == Spec => []TypeOK
<1>1. ProcessInv => TypeOK
  BY DEF ProcessInv
<1>2. QED
  BY <1>1, ProcessInvariant, PTL

(* However many processes are started, killed and restarted, and whatever  *)
(* their configuration says, no state file is open twice: the lock keeps   *)
(* two processes apart, and the check of the cleaned paths two mirrors.    *)
THEOREM OneWriterCorrect == Spec => []OneWriter
<1>1. ASSUME ProcessInv PROVE OneWriter
  <2>1. TypeOK /\ LockInv
    BY <1>1 DEF ProcessInv
  <2>2. ASSUME NEW p \in Procs, NEW q \in Procs, NEW m \in Mirrors, NEW n \in Mirrors,
               IsOpen(p, m), IsOpen(q, n), File(m) = File(n)
        PROVE  p = q /\ m = n
    <3>1. mir[p][m].at # "off" /\ mir[q][n].at # "off"
      BY <2>2 DEF IsOpen
    <3>2. QED
      BY <2>1, <2>2, <3>1, Alone
  <2>3. QED
    BY <2>2 DEF OneWriter
<1>2. QED
  BY <1>1, ProcessInvariant, PTL

(* No destination ever gets the message twice: a mirror that is about to   *)
(* append has seen an empty destination that nobody else writes to.        *)
THEOREM NoDoubleAppendCorrect == Spec => []NoDoubleAppend
<1>1. ProcessInv => NoDoubleAppend
  BY DEF ProcessInv
<1>2. QED
  BY <1>1, ProcessInvariant, PTL

(* Whatever interrupts a start, the version of a database tells which      *)
(* tables it has.                                                          *)
THEOREM SchemaMatchesTablesCorrect == Spec => []SchemaMatchesTables
<1>1. ProcessInv => SchemaMatchesTables
  BY DEF ProcessInv, DbInv, TablesOk, SchemaMatchesTables
<1>2. QED
  BY <1>1, ProcessInvariant, PTL

(* A version never falls, and a newer database is not touched.             *)
THEOREM SchemaOnlyRisesCorrect == Spec => SchemaOnlyRises
<1>1. ProcessInv /\ [Next]_vars =>
        [\A f \in Files : /\ db'[f].version >= db[f].version
                          /\ db[f].version > SchemaVersion => db'[f] = db[f]]_vars
  BY ProcessNext DEF Grows
<1>2. QED
  BY <1>1, ProcessInvariant, PTL DEF Spec, SchemaOnlyRises

(* No migration and no scan forgets a label the message still has.         *)
THEOREM LabelsSurviveCorrect == Spec => LabelsSurvive
<1>1. ProcessInv /\ [Next]_vars =>
        [\A f \in Files : Recorded(db[f]) \subseteq Recorded(db'[f])]_vars
  BY ProcessNext DEF Grows
<1>2. QED
  BY <1>1, ProcessInvariant, PTL DEF Spec, LabelsSurvive
=============================================================================
