------------------------------- MODULE Config -------------------------------
(***************************************************************************)
(* The configuration of internal/config/config.go: what resolve makes of   *)
(* the decoded YAML, and what it rejects.  An absent key has the zero      *)
(* value of its type, "", 0 or <<>> for a path, as it has in Go.  A path   *)
(* is the sequence of its elements.  Settings that only change how mail is *)
(* shown (prefix, exclusions, carry_seen, inbox, TLS) are left out.        *)
(***************************************************************************)
EXTENDS Integers, Sequences

CONSTANTS
    ToLower(_),     \* strings.ToLower
    NameRe,         \* the names that match nameRe
    KeywordChars    \* the one-character strings isKeywordChar accepts

(* defaultStr, defaultInt, defaultDur: the zero value means the default.   *)
Default(v, zero, def) == IF v = zero THEN def ELSE v

Join(dir, name) == Append(dir, name)

(* filepath.Clean.  Mutant: paths are compared as they are spelled.        *)
Verbatim(path) == path
Clean(path) == SelectSeq(path, LAMBDA e : e # ".")

(* Durations are in minutes.                                               *)
DefaultPoll == 15
DefaultIdleReset == 25
DefaultBatch == 2000

SeedModes == {"empty", "always", "never"}
LogLevels == {"debug", "info", "warn", "error"}

-----------------------------------------------------------------------------
(* resolveEndpoint: the endpoint, and whether it is accepted.              *)
ResolvedEndpoint(raw) ==
    [host   |-> raw.host,
     user   |-> raw.user,
     port   |-> Default(raw.port, 0, 993),
     folder |-> Default(raw.folder, "", "INBOX")]

(* Exactly one of password and password_file, and the file can be read.    *)
PasswordGiven(raw) ==
    \/ raw.password # "" /\ raw.passwordFile = ""
    \/ raw.password = "" /\ raw.passwordFile = "readable"

EndpointOk(raw) ==
    /\ raw.host # "" /\ raw.user # ""
    /\ ResolvedEndpoint(raw).port \in 1 .. 65535
    /\ PasswordGiven(raw)

-----------------------------------------------------------------------------
(* One mirror of the configuration.                                        *)

StateDir(raw) == Default(raw.stateDir, <<>>, <<"state">>)
LockPath(raw) == Default(raw.lockPath, <<>>, Join(StateDir(raw), "umleiter.lock"))
StatePath(raw, rm) == Default(rm.statePath, <<>>, Join(StateDir(raw), rm.name))

ResolvedMirror(raw, rm) ==
    [name      |-> rm.name,
     statePath |-> StatePath(raw, rm),
     poll      |-> Default(rm.poll, 0, DefaultPoll),
     idleReset |-> Default(rm.idleReset, 0, DefaultIdleReset),
     batch     |-> Default(rm.batch, 0, DefaultBatch),
     seed      |-> ToLower(Default(rm.seed, "", "empty")),
     destGuard |-> Default(rm.destGuard, "absent", "on"),
     source    |-> ResolvedEndpoint(rm.source),
     dest      |-> ResolvedEndpoint(rm.dest),
     archive   |-> [enabled |-> rm.archive.enabled,
                    folder  |-> Default(rm.archive.folder, "", "Archive")],
     sent      |-> [enabled |-> rm.sent.enabled,
                    folder  |-> Default(rm.sent.folder, "", "Sent")],
     labels    |-> [enabled     |-> rm.labels.enabled,
                    propagate   |-> rm.labels.propagate,
                    replacement |-> Default(rm.labels.replacement, "", "_")]]

(* The bucket folders differ.                                              *)
FoldersDiffer(m) ==
    /\ m.archive.enabled => m.archive.folder # m.dest.folder
    /\ m.sent.enabled => /\ m.sent.folder # m.dest.folder
                         /\ m.archive.enabled => m.sent.folder # m.archive.folder

(* The numbers, of which zero has already become a default.                *)
NumbersOk(m) == m.batch >= 1 /\ ~(m.poll < 0) /\ ~(m.idleReset < 0)

MirrorOk(rm, m) ==
    /\ rm.name \in NameRe
    /\ EndpointOk(rm.source) /\ EndpointOk(rm.dest)
    /\ m.seed \in SeedModes
    /\ m.labels.propagate => m.labels.enabled
    /\ m.labels.replacement \in KeywordChars
    /\ FoldersDiffer(m)
    /\ NumbersOk(m)

-----------------------------------------------------------------------------
(* resolve.                                                                *)

Resolved(raw) ==
    [healthAddr |-> Default(raw.healthAddr, "absent", ":8080"),
     lockPath   |-> LockPath(raw),
     mirrors    |-> [j \in DOMAIN raw.mirrors |-> ResolvedMirror(raw, raw.mirrors[j])]]

Accepted(raw) ==
    /\ raw.decodes    \* YAML without unknown keys, durations that parse
    /\ ToLower(Default(raw.logLevel, "", "info")) \in LogLevels
    /\ raw.mirrors # <<>>
    /\ \A j \in DOMAIN raw.mirrors :
          LET m == ResolvedMirror(raw, raw.mirrors[j])
          IN  /\ MirrorOk(raw.mirrors[j], m)
              /\ \A k \in 1 .. j - 1 :
                    /\ raw.mirrors[k].name # raw.mirrors[j].name
                    /\ Clean(StatePath(raw, raw.mirrors[k])) # Clean(m.statePath)
=============================================================================
