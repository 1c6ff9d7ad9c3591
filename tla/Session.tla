------------------------------ MODULE Session -------------------------------
(***************************************************************************)
(* One mirror's supervisor over time: Run and runSession of                *)
(* internal/mirror/mirror.go with the connection handling of               *)
(* internal/imapx/client.go (Dial, Close, SelectNamedFolder, Idle and the  *)
(* handler that feeds notify) and the staleness test of cmd/umleiter/      *)
(* main.go.  A pass is reduced to what it does to the two connections, the *)
(* heartbeat and the mark: the commands it waits for, in the order of Run  *)
(* of internal/reconcile/reconcile.go; Reconcile and Membership have the   *)
(* rest.                                                                   *)
(*                                                                         *)
(* Time passes in ticks.  A command of a server that works is answered     *)
(* within a tick of being sent; a wedged server does not answer and the    *)
(* program has no deadline for commands, only for LOGOUT.                  *)
(***************************************************************************)
EXTENDS Integers

CONSTANTS
    Poll, IdleReset,        \* poll_interval, idle_reset
    InitialBackoff, MaxBackoff,
    LogoutTimeout,
    Work,                   \* most commands a phase issues in a row without a heartbeat
    MaxMail                 \* bound: messages that arrive

Min2(x, y) == IF x < y THEN x ELSE y
Max2(x, y) == IF x > y THEN x ELSE y

(* Phases of a session that issue as many commands as there is work: in    *)
(* folders, empty or unchanged ones too, chunks of ids or UIDs, messages   *)
(* in the append ring, operations in the queue.  The first three scan      *)
(* windows, each of which ends with a heartbeat.                           *)
Windowed == {"seed", "members", "backfill"}
Working == Windowed \cup {"resolve", "ensure", "guard", "copy", "propagate"}

(* Phases with one exchange.                                               *)
Single == {"dialSource", "dialDest", "select", "mirror", "startIdle", "stopIdle"}

Commands == Working \cup Single
Timed == {"idle", "backoff", "closing"}
Phases == Commands \cup Timed \cup {"start", "stopped"}

ASSUME SessionAssumption ==
    /\ {Poll, IdleReset, InitialBackoff, MaxBackoff, LogoutTimeout, MaxMail} \subseteq Nat \ {0}
    /\ InitialBackoff <= MaxBackoff
    /\ Work \in [Working -> Nat]

(* main.go: staleness.                                                     *)
Staleness == 3 * Poll

VARIABLES
    phase,      \* where Run and runSession are
    left,       \* commands this phase still issues before its next heartbeat or its end
    conns,      \* open connections
    selected,   \* what the source connection has selected
    notify,     \* Client.notify: a channel of capacity one
    push,       \* an EXISTS of the selected folder is on its way
    arrived,    \* source folder: messages so far (UIDNEXT - 1)
    known,      \* messages up to the UIDNEXT this pass read
    mark,       \* messages mirrored
    beat,       \* age of the heartbeat
    uptime,     \* age of the session (saturating)
    wait,       \* Run: wait
    timer,      \* time left of the timer the phase waits for
    due,        \* the pending command has taken a tick
    wedged,     \* the servers that do not answer
    hung,       \* history: a command took more than a tick since the last heartbeat
    cancelled,  \* ctx.Done()
    failed      \* runSession returns an error other than Canceled

linkVars == <<conns, selected, notify, push>>
mailVars == <<arrived, known, mark>>
ctlVars == <<wedged, cancelled, failed>>
timeVars == <<beat, uptime, wait, timer, due, hung>>
vars == <<phase, left, linkVars, mailVars, timeVars, ctlVars>>

Rounds(p) == IF p \in Working THEN Work[p] ELSE 0

(* The type of every variable.                                             *)
TypeOK ==
    /\ phase \in Phases
    /\ left \in 0 .. Rounds(phase)
    /\ conns \in 0 .. 2
    /\ selected \in {"none", "label", "source"}
    /\ arrived \in 0 .. MaxMail /\ known \in 0 .. arrived /\ mark \in 0 .. known
    /\ beat \in 0 .. Staleness + 1
    /\ uptime \in 0 .. MaxBackoff
    /\ wait \in 0 .. MaxBackoff
    /\ timer \in 0 .. Max2(Poll, Max2(MaxBackoff, LogoutTimeout))
    /\ wedged \subseteq {"source", "dest"}
    /\ {notify, push, due, hung, cancelled, failed} \subseteq BOOLEAN

Init ==
    /\ phase = "start" /\ left = 0
    /\ conns = 0 /\ selected = "none" /\ notify = FALSE /\ push = FALSE
    /\ arrived = 0 /\ known = 0 /\ mark = 0
    /\ beat = 0 /\ uptime = 0 /\ wait = 0 /\ timer = 0
    /\ due = FALSE /\ wedged = {} /\ hung = FALSE
    /\ cancelled = FALSE /\ failed = FALSE

(* heartbeat.Store(time.Now().Unix())                                      *)
Beat == beat' = 0 /\ hung' = FALSE
NoBeat == UNCHANGED <<beat, hung>>

(* The servers whose answer phase p waits for: a copy needs the body from  *)
(* one and the confirmation of the APPEND from the other.                  *)
Servers(p) ==
    CASE p \in {"dialSource", "resolve", "members", "select", "mirror", "startIdle", "stopIdle"}
           -> {"source"}
      [] p = "copy" -> {"source", "dest"}
      [] OTHER -> {"dest"}

(* A command has been sent; its answer does not come.                      *)
Waits ==
    /\ phase \in Commands
    /\ phase \in Working => left > 0
    /\ phase = "mirror" => mark < known
Blocked == Waits /\ Servers(phase) \cap wedged # {}

Goes(p) == phase' = p /\ due' = FALSE /\ left' \in 0 .. Rounds(p)

(* The single command of phase p is answered.                              *)
Answered(p) == phase = p /\ ~Blocked

(* One of the commands of phase p is answered; or it was the last of a     *)
(* window, whose progress call bumps the heartbeat before the next ones.   *)
(* Mutant: a window without it.                                            *)
Reply(p) ==
    /\ phase = p /\ left > 0 /\ ~Blocked
    /\ phase' = p /\ due' = FALSE
    /\ left' = left - 1
    /\ NoBeat
SilentWindow(p) == phase = p /\ left > 0 /\ ~Blocked /\ Goes(p) /\ NoBeat
Window(p) ==
    /\ phase = p /\ left > 0 /\ ~Blocked
    /\ Goes(p)
    /\ Beat

(* Phase p has nothing left to ask.                                        *)
Finish(p, q) == phase = p /\ left = 0 /\ Goes(q)

-----------------------------------------------------------------------------
(* Run: the head of the supervision loop.                                  *)
Begin ==
    /\ phase = "start"
    /\ IF cancelled THEN Goes("stopped") /\ NoBeat /\ UNCHANGED uptime
       ELSE Goes("dialSource") /\ Beat /\ uptime' = 0
    /\ UNCHANGED <<linkVars, mailVars, wait, timer, ctlVars>>

Dial ==
    /\ \/ Answered("dialSource") /\ Goes("resolve")
       \/ Answered("dialDest") /\ Goes("ensure")
    /\ conns' = conns + 1
    /\ NoBeat
    /\ UNCHANGED <<selected, notify, push, mailVars, uptime, wait, timer, ctlVars>>

(* ResolveSpecialUse and ResolveFolder on the source, EnsureNamedFolder    *)
(* for each bucket and the first SELECT on the destination.                *)
ResolveAndEnsure ==
    /\ \/ Reply("resolve")
       \/ Finish("resolve", "dialDest") /\ NoBeat
       \/ Reply("ensure")
       \/ Finish("ensure", "seed") /\ NoBeat
    /\ UNCHANGED <<linkVars, mailVars, uptime, wait, timer, ctlVars>>

(* maybeSeed: nothing, or every bucket in windows.                         *)
SeedFromDest ==
    /\ \/ Reply("seed")
       \/ Window("seed")
       \/ Finish("seed", "members") /\ NoBeat
    /\ UNCHANGED <<linkVars, mailVars, uptime, wait, timer, ctlVars>>

(* syncMembership: LIST, then SELECT and SEARCH for every watched folder   *)
(* and windows only for UIDs above its mark.  The folder stays selected;   *)
(* what arrives there is announced on the same channel.                    *)
SyncMembership ==
    /\ \/ /\ Reply("members") \/ Window("members")
          /\ \/ selected' = "label" /\ push' = FALSE /\ notify' \in {notify, TRUE}
             \/ UNCHANGED <<selected, push, notify>>
       \/ Finish("members", "select") /\ NoBeat /\ UNCHANGED <<selected, push, notify>>
    /\ UNCHANGED <<conns, mailVars, uptime, wait, timer, ctlVars>>

(* The UIDNEXT a pass works with.  Mutant: the last one, if the folder is  *)
(* still selected and needs no SELECT.                                     *)
CachedUidNext == IF selected = "source" THEN known ELSE arrived
UidNext == arrived

SelectFolder ==
    /\ Answered("select")
    /\ Goes("backfill")
    /\ selected' = "source"
    /\ push' = FALSE
    /\ known' = UidNext
    /\ NoBeat
    /\ UNCHANGED <<conns, notify, arrived, mark, uptime, wait, timer, ctlVars>>

(* maybeBackfill: nothing, or every bucket in windows, and then STORE and  *)
(* MOVE in chunks, which no heartbeat follows.                             *)
MaybeBackfill ==
    /\ \/ Reply("backfill")
       \/ Window("backfill")
       \/ Finish("backfill", "mirror") /\ NoBeat
    /\ UNCHANGED <<linkVars, mailVars, uptime, wait, timer, ctlVars>>

(* A window of one message: its metadata, the guard's searches, which no   *)
(* heartbeat follows, and the copy, if it is one; then the mark.           *)
FetchMeta ==
    /\ Answered("mirror")
    /\ mark < known
    /\ Goes("guard")
    /\ NoBeat
    /\ UNCHANGED <<linkVars, mailVars, uptime, wait, timer, ctlVars>>

Guard ==
    /\ \/ Reply("guard")
       \/ Finish("guard", "copy") /\ NoBeat
    /\ UNCHANGED <<linkVars, mailVars, uptime, wait, timer, ctlVars>>

Copy ==
    /\ \/ Reply("copy") /\ UNCHANGED mark
       \/ Finish("copy", "mirror") /\ Beat /\ mark' = mark + 1
    /\ UNCHANGED <<linkVars, arrived, known, uptime, wait, timer, ctlVars>>

MirrorDone ==
    /\ phase = "mirror"
    /\ mark = known
    /\ Goes("propagate") /\ NoBeat
    /\ UNCHANGED <<linkVars, mailVars, uptime, wait, timer, ctlVars>>

(* propagate works on the destination connection.  Mutant: the membership  *)
(* scan comes last and leaves its folder selected.                         *)
SelectedLabel == "label"
SelectedAfterPass == selected

(* propagate drains the queue, several commands for an operation and no    *)
(* heartbeat between them; runReconcile bumps it when the pass is over.    *)
Propagate ==
    /\ \/ Reply("propagate") /\ UNCHANGED <<selected, timer>>
       \/ /\ Finish("propagate", IF cancelled THEN "closing" ELSE "startIdle")
          /\ timer' = IF cancelled THEN LogoutTimeout ELSE timer
          /\ selected' = SelectedAfterPass
          /\ Beat
    /\ UNCHANGED <<conns, notify, push, mailVars, uptime, wait, ctlVars>>

StartIdle ==
    /\ Answered("startIdle")
    /\ Goes("idle")
    /\ timer' = Min2(Poll, IdleReset)
    /\ NoBeat
    /\ UNCHANGED <<linkVars, mailVars, uptime, wait, ctlVars>>

(* The select of the IDLE loop.                                            *)
Wake ==
    /\ phase = "idle"
    /\ \/ notify /\ notify' = FALSE
       \/ (timer = 0 \/ cancelled) /\ UNCHANGED notify
    /\ Goes("stopIdle") /\ Beat
    /\ timer' = 0
    /\ UNCHANGED <<conns, selected, push, mailVars, uptime, wait, ctlVars>>

StopIdle ==
    /\ Answered("stopIdle")
    /\ IF cancelled THEN Goes("closing") ELSE Goes("members")
    /\ timer' = IF cancelled THEN LogoutTimeout ELSE timer
    /\ NoBeat
    /\ UNCHANGED <<linkVars, mailVars, uptime, wait, ctlVars>>

(* ctx is checked between messages, windows, chunks and operations of a    *)
(* pass, never while a command is unanswered.                              *)
Interrupted ==
    /\ cancelled
    /\ phase \in Windowed \cup {"mirror", "copy", "propagate"}
    /\ ~Blocked
    /\ Goes("closing")
    /\ timer' = LogoutTimeout
    /\ NoBeat
    /\ UNCHANGED <<linkVars, mailVars, uptime, wait, ctlVars>>

-----------------------------------------------------------------------------
(* The end of a session.                                                   *)

(* The deferred calls close the destination first.                         *)
Closing == IF conns = 2 THEN "dest" ELSE "source"

(* Close gives LOGOUT a limited time.  Mutant: it waits for the answer.    *)
LogoutAnswered == Closing \notin wedged
LogoutOver == Closing \notin wedged \/ timer = 0

CloseConnection ==
    /\ phase = "closing" /\ conns > 0
    /\ LogoutOver
    /\ conns' = conns - 1
    /\ timer' = LogoutTimeout
    /\ UNCHANGED <<phase, left, due, selected, notify, push, mailVars, beat, hung, uptime, wait,
                   ctlVars>>

(* backoff.  Mutant: without the cap.                                      *)
BackoffUncapped(prev) == IF prev = 0 THEN InitialBackoff ELSE Min2(2 * prev, 2 * Staleness)
Backoff(prev) ==
    IF prev = 0 \/ uptime >= MaxBackoff THEN InitialBackoff ELSE Min2(2 * prev, MaxBackoff)

(* runSession has returned; its connections and their channel are gone.    *)
EndSession ==
    /\ phase = "closing" /\ conns = 0
    /\ selected' = "none" /\ notify' = FALSE /\ push' = FALSE
    /\ wedged' = {}
    /\ failed' = FALSE
    /\ IF failed
       THEN /\ Goes("backoff")
            /\ wait' = Backoff(wait)
            /\ timer' = wait'
            /\ Beat
       ELSE /\ Goes("stopped")
            /\ timer' = 0
            /\ NoBeat /\ UNCHANGED wait
    /\ UNCHANGED <<conns, mailVars, uptime, cancelled>>

BackoffOver ==
    /\ phase = "backoff"
    /\ timer = 0 \/ cancelled
    /\ Goes("start")
    /\ timer' = 0
    /\ NoBeat
    /\ UNCHANGED <<linkVars, mailVars, uptime, wait, ctlVars>>

-----------------------------------------------------------------------------
(* Servers, users and time.                                                *)

(* A command returns an error, or the connection turns out to be broken.   *)
Fails ==
    /\ phase \in Commands
    /\ Goes("closing")
    /\ failed' = TRUE
    /\ timer' = LogoutTimeout
    /\ NoBeat
    /\ UNCHANGED <<linkVars, mailVars, uptime, wait, wedged, cancelled>>

(* A server stops answering, on this connection or before it is made; or   *)
(* it answers after all.                                                   *)
Wedge ==
    /\ phase \in Commands \cup {"idle"}
    /\ \E s \in {"source", "dest"} \ wedged : wedged' = wedged \cup {s}
    /\ UNCHANGED <<phase, left, linkVars, mailVars, timeVars, cancelled, failed>>
Recover ==
    /\ \E s \in wedged : wedged' = wedged \ {s}
    /\ UNCHANGED <<phase, left, linkVars, mailVars, timeVars, cancelled, failed>>

(* A message arrives; the server tells a connection that has the folder    *)
(* selected, and no other.                                                 *)
Deliver ==
    /\ arrived < MaxMail
    /\ arrived' = arrived + 1
    /\ push' = (push \/ selected = "source")
    /\ UNCHANGED <<phase, left, conns, selected, notify, known, mark, timeVars, ctlVars>>

(* The handler of unilateral data: a token is put in, or is there already. *)
Notify ==
    /\ push /\ "source" \notin wedged
    /\ push' = FALSE
    /\ notify' = TRUE
    /\ UNCHANGED <<phase, left, conns, selected, mailVars, timeVars, ctlVars>>

Cancel ==
    /\ ~cancelled
    /\ cancelled' = TRUE
    /\ UNCHANGED <<phase, left, linkVars, mailVars, timeVars, wedged, failed>>

(* Mutant: a goroutine of its own keeps the heartbeat fresh.               *)
AgedByTicker == 0
Aged == Min2(beat + 1, Staleness + 1)

(* Local steps take no time, timers are on time, and commands are answered *)
(* within a tick unless the server is wedged.                              *)
Tick ==
    /\ phase \in Timed \cup Commands
    /\ phase \in Timed => timer > 0 /\ (phase = "closing" => conns > 0)
    /\ phase \in Commands => Waits /\ (Blocked \/ ~due)
    /\ beat' = Aged
    /\ uptime' = Min2(uptime + 1, MaxBackoff)
    /\ timer' = IF phase \in Timed THEN timer - 1 ELSE timer
    /\ due' = (phase \in Commands)
    /\ hung' = (hung \/ due)
    /\ UNCHANGED <<phase, left, linkVars, mailVars, wait, ctlVars>>

Program ==
    \/ Begin \/ Dial \/ ResolveAndEnsure \/ SeedFromDest \/ SyncMembership \/ SelectFolder
    \/ MaybeBackfill \/ FetchMeta \/ Guard \/ Copy \/ MirrorDone
    \/ Propagate \/ StartIdle \/ Wake \/ StopIdle \/ Interrupted
    \/ CloseConnection \/ EndSession \/ BackoffOver

Stopped == phase = "stopped" /\ UNCHANGED vars

Next == Program \/ Fails \/ Wedge \/ Recover \/ Deliver \/ Notify \/ Cancel \/ Tick \/ Stopped

Spec == Init /\ [][Next]_vars

(* The end of a scan: the UIDNEXT it runs to was read before it began.     *)
LastWindow == (SeedFromDest \/ SyncMembership \/ MaybeBackfill) /\ phase' = phase /\ left' = 0

(* The goroutine runs, scans end, and time passes however often a server   *)
(* stops and recovers.  Nothing is assumed of the servers.                 *)
LiveSpec == Spec /\ WF_vars(Program) /\ SF_vars(LastWindow) /\ SF_vars(Tick)

-----------------------------------------------------------------------------
(* No wake-up is lost: while the session waits in IDLE, mail beyond what   *)
(* the last pass saw is announced by the token or by an EXISTS under way,  *)
(* although passes select other folders on the same connection and the     *)
(* channel holds one token (client.go:71-77, mirror.go:173-189).           *)
NoLostWakeup == phase = "idle" /\ arrived > known => notify \/ push

(* The commands a session may issue in a row without any heartbeat: from   *)
(* the head of Run through connecting and the scans to the first window of *)
(* the mirror loop, and on to the first copy or to the end of the queue.   *)
CommandsPerBeat ==
    3 + Work["resolve"] + Work["ensure"] + Work["seed"] + Work["members"] + Work["backfill"]
      + Max2(1 + Work["guard"] + Work["copy"], Work["propagate"])

(* The longest time without a heartbeat, if every command is answered.     *)
Silence == Max2(MaxBackoff, CommandsPerBeat + 2 * LogoutTimeout)

(* If the work between two heartbeats fits into three polls, a mirror      *)
(* whose servers answer is never reported unhealthy: not while it waits in *)
(* IDLE, backs off, reconnects, closes or works (main.go:66-80).           *)
HealthyIfAnswered == Silence <= Staleness => (beat > Staleness => hung)

(* While a session works through commands that are answered it is healthy, *)
(* however many there are, as the comment on OnProgress has it: it is      *)
(* called "in every long-running phase" (reconcile.go:95-96).              *)
HealthyWhileWorking == phase \in Commands /\ beat > Staleness => hung

(* A server that stops answering for good is reported (main.go:75-78,      *)
(* mirror.go:20-22), the destination as soon as there is mail for it: the  *)
(* heartbeat comes from progress alone.                                    *)
WedgeReported ==
    /\ <>[]("source" \in wedged) => <>(beat > Staleness)
    /\ <>[]("dest" \in wedged /\ mark < arrived) => <>(beat > Staleness)

(* Once sessions stop failing and servers answer, mail that has arrived is *)
(* mirrored, whatever state failures left the connection and timers in.    *)
MailGetsMirrored ==
    <>[](wedged = {}) /\ <>[][~Fails]_vars =>
        \A n \in 1 .. MaxMail : arrived = n ~> mark >= n \/ phase = "stopped"

(* Closing ends even if the server is wedged (client.go:104-115), and a    *)
(* shutdown stops the mirror unless a command stays unanswered.            *)
ClosesAndStops ==
    /\ phase = "closing" ~> phase # "closing"
    /\ <>[](wedged = {}) => (cancelled ~> phase = "stopped")
=============================================================================
