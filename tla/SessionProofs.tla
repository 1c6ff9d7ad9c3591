--------------------------- MODULE SessionProofs ----------------------------
(***************************************************************************)
(* For every setting of the timers and every amount of work in a phase: no *)
(* wake-up is lost while the session waits in IDLE, and the heartbeat of a *)
(* mirror whose servers answer never gets older than the longest time      *)
(* without one, Silence.                                                   *)
(***************************************************************************)
EXTENDS Session, TLAPS

(* How many connections are open in each phase.                            *)
ConnsInv ==
    /\ phase \in {"start", "dialSource", "backoff", "stopped"} => conns = 0
    /\ phase \in {"resolve", "dialDest"} => conns = 1

(* From the SELECT of the source folder until IDLE ends, mail the pass has *)
(* not seen is announced.                                                  *)
WakeInv ==
    phase \in {"backfill", "mirror", "guard", "copy", "propagate", "startIdle", "idle"} =>
        /\ selected = "source"
        /\ arrived > known => notify \/ push

(* A window is under way only if there is mail for it.                     *)
WindowInv == phase \in {"guard", "copy"} => mark < known

(* Only a command that was sent has taken a tick.                          *)
DueInv == due => Waits

(* The commands answered since a heartbeat when a phase begins, at most.   *)
ToSeed == 2 + Work["resolve"] + Work["ensure"]
ToBackfill == 1 + ToSeed + Work["seed"] + Work["members"]
ToMirror == ToBackfill + Work["backfill"]
Base(p) ==
    CASE p = "resolve" -> 1
      [] p = "dialDest" -> 1 + Work["resolve"]
      [] p = "ensure" -> 2 + Work["resolve"]
      [] p = "seed" -> ToSeed
      [] p = "members" -> ToSeed + Work["seed"]
      [] p = "select" -> ToSeed + Work["seed"] + Work["members"]
      [] p = "backfill" -> ToBackfill
      [] p \in {"mirror", "propagate"} -> ToMirror
      [] p = "guard" -> 1 + ToMirror
      [] p = "copy" -> 1 + ToMirror + Work["guard"]
      [] OTHER -> 0

(* How old the heartbeat may be if every command was answered in time.     *)
BusyInv ==
    phase \in Commands /\ ~hung =>
        beat <= Base(phase) + Rounds(phase) - left + (IF due THEN 1 ELSE 0)
RestInv ==
    ~hung =>
      /\ phase = "idle" => beat <= 1 + Min2(Poll, IdleReset) - timer
      /\ phase = "closing" =>
           /\ conns = 2 => beat <= CommandsPerBeat + LogoutTimeout - timer
           /\ conns = 1 => beat <= CommandsPerBeat + 2 * LogoutTimeout - timer
           /\ conns = 0 => beat <= CommandsPerBeat + 2 * LogoutTimeout
      /\ phase = "backoff" => beat <= MaxBackoff - timer
      /\ phase \in {"start", "stopped"} => beat <= Silence

SessionInv == TypeOK /\ ConnsInv /\ WindowInv /\ WakeInv /\ DueInv /\ BusyInv /\ RestInv

-----------------------------------------------------------------------------
(* The constants and the phases, as the provers need them.                 *)

(* The timers are numbers.                                                 *)
LEMMA TimerFacts ==
    /\ Poll \in Nat /\ IdleReset \in Nat /\ InitialBackoff \in Nat /\ MaxBackoff \in Nat
    /\ LogoutTimeout \in Nat /\ MaxMail \in Nat
    /\ Poll >= 1 /\ LogoutTimeout >= 1 /\ InitialBackoff >= 1 /\ InitialBackoff <= MaxBackoff
    /\ Staleness \in Nat /\ Staleness = 3 * Poll
    /\ Min2(Poll, IdleReset) \in Nat /\ Min2(Poll, IdleReset) <= Poll
  BY SessionAssumption DEF Staleness, Min2

(* The longest timer is a number that covers each of them.                 *)
Longest == Max2(Poll, Max2(MaxBackoff, LogoutTimeout))
LEMMA LongestFacts ==
    /\ Longest \in Nat /\ Poll <= Longest /\ MaxBackoff <= Longest /\ LogoutTimeout <= Longest
  BY TimerFacts DEF Longest, Max2

(* The phases in which the session waits for an answer.                    *)
LEMMA CommandPhases ==
    /\ Working = {"seed", "members", "backfill", "resolve", "ensure", "guard", "copy",
                  "propagate"}
    /\ Commands = Working \cup {"dialSource", "dialDest", "select", "mirror", "startIdle",
                                "stopIdle"}
    /\ "start" \notin Commands /\ "stopped" \notin Commands
    /\ \A p \in Timed : p \notin Commands
  BY DEF Working, Windowed, Single, Commands, Timed

(* What a phase asks for is a number.                                      *)
LEMMA WorkFacts ==
    /\ Work["resolve"] \in Nat /\ Work["ensure"] \in Nat /\ Work["seed"] \in Nat
    /\ Work["members"] \in Nat /\ Work["backfill"] \in Nat /\ Work["guard"] \in Nat
    /\ Work["copy"] \in Nat /\ Work["propagate"] \in Nat
  BY SessionAssumption, CommandPhases

(* Phases with one exchange, and those without any, have no more rounds.   *)
LEMMA RoundFacts ==
    /\ \A p : Rounds(p) \in Nat
    /\ \A p : p \notin Working => Rounds(p) = 0
    /\ \A p \in Working : Rounds(p) = Work[p]
<1>1. \A p \in Working : Work[p] \in Nat
  BY SessionAssumption
<1>2. QED
  BY <1>1 DEF Rounds

(* A phase may begin when the commands of those before it are answered.    *)
LEMMA BaseFacts ==
    /\ \A p \in Commands : Base(p) \in Nat
    /\ Base("resolve") = 1 + Base("dialSource")
    /\ Base("dialDest") = Base("resolve") + Rounds("resolve")
    /\ Base("ensure") = 1 + Base("dialDest")
    /\ Base("seed") = Base("ensure") + Rounds("ensure")
    /\ Base("members") = Base("seed") + Rounds("seed")
    /\ Base("members") >= 1 + Base("stopIdle")
    /\ Base("select") = Base("members") + Rounds("members")
    /\ Base("backfill") = 1 + Base("select")
    /\ Base("mirror") = Base("backfill") + Rounds("backfill")
    /\ Base("guard") = 1 + Base("mirror")
    /\ Base("copy") = Base("guard") + Rounds("guard")
    /\ Base("propagate") = Base("mirror")
    /\ Base("startIdle") = 0 /\ Base("stopIdle") = 0
<1>1. /\ Base("dialSource") = 0 /\ Base("resolve") = 1 /\ Base("dialDest") = 1 + Work["resolve"]
      /\ Base("ensure") = 2 + Work["resolve"] /\ Base("seed") = ToSeed
      /\ Base("members") = ToSeed + Work["seed"]
      /\ Base("select") = ToSeed + Work["seed"] + Work["members"]
      /\ Base("backfill") = ToBackfill
      /\ Base("mirror") = ToMirror /\ Base("propagate") = ToMirror
      /\ Base("guard") = 1 + ToMirror /\ Base("copy") = 1 + ToMirror + Work["guard"]
      /\ Base("startIdle") = 0 /\ Base("stopIdle") = 0
  BY DEF Base
<1>2. /\ Rounds("resolve") = Work["resolve"] /\ Rounds("ensure") = Work["ensure"]
      /\ Rounds("seed") = Work["seed"] /\ Rounds("members") = Work["members"]
      /\ Rounds("backfill") = Work["backfill"] /\ Rounds("guard") = Work["guard"]
  BY RoundFacts, CommandPhases
<1>3. ToSeed \in Nat /\ ToBackfill \in Nat /\ ToMirror \in Nat
  BY WorkFacts DEF ToSeed, ToBackfill, ToMirror
<1>4. \A p \in Commands : Base(p) \in Nat
  BY <1>1, <1>3, WorkFacts, CommandPhases
<1>5. QED
  BY <1>1, <1>2, <1>3, <1>4, WorkFacts DEF ToSeed, ToBackfill, ToMirror

(* No phase takes more commands than CommandsPerBeat counts.               *)
LEMMA CountFacts ==
    /\ CommandsPerBeat \in Nat /\ Silence \in Nat
    /\ MaxBackoff <= Silence /\ CommandsPerBeat + 2 * LogoutTimeout <= Silence
    /\ \A p \in Working : Base(p) + Rounds(p) <= CommandsPerBeat
    /\ \A p \in Commands \ Working : Base(p) + 1 <= CommandsPerBeat
<1>1. /\ ToMirror \in Nat /\ CommandsPerBeat >= ToMirror + 1 + Work["guard"] + Work["copy"]
      /\ CommandsPerBeat >= ToMirror + Work["propagate"]
      /\ CommandsPerBeat \in Nat
  BY WorkFacts DEF CommandsPerBeat, ToMirror, ToBackfill, ToSeed, Max2
<1>2. /\ Base("mirror") = ToMirror
  BY DEF Base
<1>3. /\ Rounds("seed") = Work["seed"] /\ Rounds("members") = Work["members"]
      /\ Rounds("backfill") = Work["backfill"] /\ Rounds("guard") = Work["guard"]
      /\ Rounds("copy") = Work["copy"] /\ Rounds("propagate") = Work["propagate"]
      /\ Rounds("resolve") = Work["resolve"] /\ Rounds("ensure") = Work["ensure"]
  BY RoundFacts, CommandPhases
<1>4. \A p \in Working : Base(p) + Rounds(p) <= CommandsPerBeat
  BY <1>1, <1>2, <1>3, BaseFacts, WorkFacts, CommandPhases
<1>5. \A p \in Commands \ Working : Base(p) + 1 <= CommandsPerBeat
  BY <1>1, <1>2, <1>3, BaseFacts, WorkFacts, CommandPhases
<1>6. /\ Silence \in Nat /\ MaxBackoff <= Silence
      /\ CommandsPerBeat + 2 * LogoutTimeout <= Silence
  BY <1>1, TimerFacts DEF Silence, Max2
<1>7. QED
  BY <1>1, <1>4, <1>5, <1>6

-----------------------------------------------------------------------------
(* The steps of a pass, reduced to what they do to phase and heartbeat.    *)

(* A working phase is answered: a command less, or a new window.           *)
Busy ==
    /\ phase \in Working /\ left > 0
    /\ phase' = phase /\ due' = FALSE
    /\ \/ left' = left - 1 /\ NoBeat
       \/ left' \in 0 .. Rounds(phase) /\ Beat
    /\ UNCHANGED <<conns, timer>>

(* A phase is over and the next one begins, without a heartbeat.           *)
Onward ==
    /\ phase \in Commands
    /\ phase \in Working => left = 0
    /\ phase = "mirror" => phase' = "guard" \/ mark = known
    /\ \/ phase = "dialSource" /\ phase' = "resolve" /\ conns' = conns + 1
       \/ phase = "dialDest" /\ phase' = "ensure" /\ conns' = conns + 1
       \/ /\ conns' = conns
          /\ <<phase, phase'>> \in
               {<<"resolve", "dialDest">>, <<"ensure", "seed">>, <<"seed", "members">>,
                <<"members", "select">>, <<"select", "backfill">>, <<"backfill", "mirror">>,
                <<"mirror", "guard">>, <<"guard", "copy">>, <<"mirror", "propagate">>,
                <<"stopIdle", "members">>}
    /\ due' = FALSE /\ left' \in 0 .. Rounds(phase')
    /\ NoBeat
    /\ timer' = timer

(* Work is confirmed: the next phase begins with a heartbeat.              *)
Afresh ==
    /\ \/ phase = "start" /\ phase' = "dialSource"
       \/ phase = "copy" /\ phase' = "mirror" /\ left = 0
       \/ phase = "propagate" /\ phase' = "startIdle" /\ left = 0
       \/ phase = "idle" /\ phase' = "stopIdle"
    /\ due' = FALSE /\ left' \in 0 .. Rounds(phase')
    /\ Beat
    /\ conns' = conns

(* The session gives up and closes its connections.                        *)
GivesUp ==
    /\ phase \in Commands
    /\ phase' = "closing" /\ due' = FALSE /\ left' \in 0 .. Rounds(phase')
    /\ Beat \/ NoBeat
    /\ conns' = conns /\ timer' = LogoutTimeout

(* What the shapes leave alone.                                            *)
LEMMA Shapes ==
    ASSUME ConnsInv, Program
    PROVE  \/ Busy \/ Onward \/ Afresh \/ GivesUp
           \/ Begin \/ StartIdle \/ CloseConnection \/ EndSession \/ BackoffOver
<1> USE CommandPhases DEF Goes, linkVars
<1>1. CASE Dial
  BY <1>1, RoundFacts DEF Dial, Answered, Onward
<1>2. CASE ResolveAndEnsure
  <2>1. CASE Reply("resolve") \/ Reply("ensure")
    BY <1>2, <2>1 DEF ResolveAndEnsure, Reply, Busy
  <2>2. CASE Finish("resolve", "dialDest") /\ NoBeat
    BY <1>2, <2>2 DEF ResolveAndEnsure, Finish, Onward
  <2>3. CASE Finish("ensure", "seed") /\ NoBeat
    BY <1>2, <2>3 DEF ResolveAndEnsure, Finish, Onward
  <2>4. QED
    BY <1>2, <2>1, <2>2, <2>3 DEF ResolveAndEnsure
<1>3. CASE SeedFromDest
  <2>1. CASE Reply("seed") \/ Window("seed")
    BY <1>3, <2>1 DEF SeedFromDest, Reply, Window, Busy
  <2>2. CASE Finish("seed", "members") /\ NoBeat
    BY <1>3, <2>2 DEF SeedFromDest, Finish, Onward
  <2>3. QED
    BY <1>3, <2>1, <2>2 DEF SeedFromDest
<1>4. CASE SyncMembership
  <2>1. CASE Reply("members") \/ Window("members")
    BY <1>4, <2>1 DEF SyncMembership, Reply, Window, Busy
  <2>2. CASE Finish("members", "select") /\ NoBeat
    BY <1>4, <2>2 DEF SyncMembership, Finish, Onward
  <2>3. QED
    BY <1>4, <2>1, <2>2 DEF SyncMembership
<1>5. CASE SelectFolder
  BY <1>5 DEF SelectFolder, Answered, Onward
<1>6. CASE MaybeBackfill
  <2>1. CASE Reply("backfill") \/ Window("backfill")
    BY <1>6, <2>1 DEF MaybeBackfill, Reply, Window, Busy
  <2>2. CASE Finish("backfill", "mirror") /\ NoBeat
    BY <1>6, <2>2 DEF MaybeBackfill, Finish, Onward
  <2>3. QED
    BY <1>6, <2>1, <2>2 DEF MaybeBackfill
<1>7. CASE FetchMeta
  BY <1>7 DEF FetchMeta, Answered, Onward
<1>8. CASE Guard
  <2>1. CASE Reply("guard")
    BY <1>8, <2>1 DEF Guard, Reply, Busy
  <2>2. CASE Finish("guard", "copy") /\ NoBeat
    BY <1>8, <2>2 DEF Guard, Finish, Onward
  <2>3. QED
    BY <1>8, <2>1, <2>2 DEF Guard
<1>9. CASE Copy
  <2>1. CASE Reply("copy")
    BY <1>9, <2>1 DEF Copy, Reply, Busy
  <2>2. CASE Finish("copy", "mirror") /\ Beat
    BY <1>9, <2>2 DEF Copy, Finish, Afresh
  <2>3. QED
    BY <1>9, <2>1, <2>2 DEF Copy
<1>10. CASE MirrorDone
  BY <1>10 DEF MirrorDone, Onward
<1>11. CASE Propagate
  <2>1. CASE Reply("propagate") /\ UNCHANGED <<selected, timer>>
    BY <1>11, <2>1 DEF Propagate, Reply, Busy
  <2>2. CASE /\ Finish("propagate", IF cancelled THEN "closing" ELSE "startIdle")
             /\ timer' = IF cancelled THEN LogoutTimeout ELSE timer
             /\ Beat
    <3>1. CASE cancelled
      BY <1>11, <2>2, <3>1 DEF Propagate, Finish, GivesUp
    <3>2. CASE ~cancelled
      BY <1>11, <2>2, <3>2 DEF Propagate, Finish, Afresh
    <3>3. QED
      BY <3>1, <3>2
  <2>3. QED
    BY <1>11, <2>1, <2>2 DEF Propagate
<1>12. CASE Wake
  BY <1>12 DEF Wake, Afresh
<1>13. CASE StopIdle
  <2>1. CASE cancelled
    BY <1>13, <2>1 DEF StopIdle, Answered, GivesUp
  <2>2. CASE ~cancelled
    BY <1>13, <2>2 DEF StopIdle, Answered, Onward
  <2>3. QED
    BY <2>1, <2>2
<1>14. CASE Interrupted
  BY <1>14 DEF Interrupted, GivesUp, Windowed
<1>15. QED
  BY <1>1, <1>2, <1>3, <1>4, <1>5, <1>6, <1>7, <1>8, <1>9, <1>10, <1>11, <1>12, <1>13, <1>14
  DEF Program

-----------------------------------------------------------------------------
(* The type invariant, with the number of connections it needs.            *)

(* The numbers and places, and the flags, of the type invariant.           *)
PlaceOK ==
    /\ phase \in Phases
    /\ left \in 0 .. Rounds(phase)
    /\ conns \in 0 .. 2

MailOK ==
    /\ selected \in {"none", "label", "source"}
    /\ arrived \in 0 .. MaxMail /\ known \in 0 .. arrived /\ mark \in 0 .. known

ClockOK ==
    /\ beat \in 0 .. Staleness + 1
    /\ uptime \in 0 .. MaxBackoff
    /\ wait \in 0 .. MaxBackoff
    /\ timer \in 0 .. Longest

FlagOK ==
    /\ wedged \subseteq {"source", "dest"}
    /\ notify \in BOOLEAN /\ push \in BOOLEAN /\ due \in BOOLEAN
    /\ hung \in BOOLEAN /\ cancelled \in BOOLEAN /\ failed \in BOOLEAN

(* The parts make up the whole.                                            *)
LEMMA TypeParts == TypeOK <=> PlaceOK /\ MailOK /\ ClockOK /\ FlagOK
  BY DEF TypeOK, PlaceOK, MailOK, ClockOK, FlagOK, Longest

(* The environment's steps, which leave the program where it is.           *)
Quiet == Recover \/ Deliver \/ Notify \/ Cancel \/ Wedge

(* The session keeps its place and its connections.                        *)
LEMMA PlaceStep ==
    ASSUME PlaceOK, ConnsInv, [Next]_vars
    PROVE  PlaceOK' /\ ConnsInv'
<1> USE CommandPhases, RoundFacts DEF PlaceOK, ConnsInv, Phases, Timed
<1>1. CASE Busy
  BY <1>1 DEF Busy
<1>2. CASE Onward
  <2>1. left' \in 0 .. Rounds(phase')
    BY <1>2 DEF Onward
  <2>2. CASE conns' = conns + 1
    BY <1>2, <2>1, <2>2 DEF Onward
  <2>3. CASE conns' = conns
    BY <1>2, <2>1, <2>3 DEF Onward
  <2>4. QED
    BY <1>2, <2>2, <2>3 DEF Onward
<1>3. CASE Afresh
  BY <1>3 DEF Afresh
<1>4. CASE GivesUp \/ Fails
  BY <1>4 DEF GivesUp, Fails, Goes, linkVars
<1>5. CASE Begin \/ BackoffOver
  BY <1>5 DEF Begin, BackoffOver, Goes, linkVars
<1>6. CASE StartIdle
  BY <1>6 DEF StartIdle, Answered, Goes, linkVars
<1>7. CASE CloseConnection
  BY <1>7 DEF CloseConnection
<1>8. CASE EndSession
  BY <1>8 DEF EndSession, Goes
<1>9. CASE Quiet \/ Tick
  BY <1>9 DEF Quiet, Recover, Deliver, Notify, Cancel, Wedge, Tick, linkVars
<1>10. CASE UNCHANGED vars
  BY <1>10 DEF vars, linkVars
<1>11. QED
  BY <1>1, <1>2, <1>3, <1>4, <1>5, <1>6, <1>7, <1>8, <1>9, <1>10, Shapes
  DEF Next, Stopped, Quiet

(* Marks never get ahead of the mail.                                      *)
LEMMA MailStep ==
    ASSUME MailOK, WindowInv, [Next]_vars
    PROVE  MailOK' /\ WindowInv'
<1> USE TimerFacts DEF MailOK, WindowInv, Goes, linkVars, mailVars
<1>1. CASE Begin \/ Dial \/ MaybeBackfill \/ MirrorDone
  BY <1>1 DEF Begin, Dial, MaybeBackfill, Reply, Window, Finish, MirrorDone
<1>2. CASE ResolveAndEnsure \/ SeedFromDest
  BY <1>2 DEF ResolveAndEnsure, SeedFromDest, Reply, Window, Finish
<1>3. CASE SyncMembership
  BY <1>3 DEF SyncMembership, Reply, Window, Finish
<1>4. CASE SelectFolder
  BY <1>4 DEF SelectFolder, UidNext
<1>5. CASE FetchMeta \/ Guard
  BY <1>5 DEF FetchMeta, Guard, Reply, Finish
<1>6. CASE Copy
  BY <1>6 DEF Copy, Reply, Finish
<1>7. CASE Propagate
  BY <1>7 DEF Propagate, SelectedAfterPass, Reply, Finish
<1>8. CASE StartIdle \/ Wake \/ StopIdle \/ Interrupted
  BY <1>8 DEF StartIdle, Wake, StopIdle, Interrupted
<1>9. CASE CloseConnection \/ EndSession \/ BackoffOver \/ Fails
  BY <1>9 DEF CloseConnection, EndSession, BackoffOver, Fails
<1>10. CASE Quiet \/ Tick
  BY <1>10 DEF Quiet, Recover, Deliver, Notify, Cancel, Wedge, Tick
<1>11. CASE UNCHANGED vars
  BY <1>11 DEF vars
<1>12. QED
  BY <1>1, <1>2, <1>3, <1>4, <1>5, <1>6, <1>7, <1>8, <1>9, <1>10, <1>11
  DEF Next, Program, Stopped, Quiet

(* Clocks and timers keep their types.                                     *)
LEMMA ClockStep ==
    ASSUME ClockOK, [Next]_vars
    PROVE  ClockOK'
<1> USE TimerFacts, LongestFacts DEF ClockOK, Goes, NoBeat, Beat
<1>1. CASE Begin \/ Dial
  BY <1>1 DEF Begin, Dial
<1>2. CASE ResolveAndEnsure \/ SeedFromDest
  BY <1>2 DEF ResolveAndEnsure, SeedFromDest, Reply, Window
<1>3. CASE SyncMembership \/ MaybeBackfill
  <2>1. (Beat \/ NoBeat) /\ UNCHANGED <<uptime, wait, timer>>
    BY <1>3 DEF SyncMembership, MaybeBackfill, Reply, Window
  <2>2. QED
    BY <2>1
<1>4. CASE SelectFolder \/ FetchMeta \/ Guard \/ Copy \/ MirrorDone
  BY <1>4 DEF SelectFolder, FetchMeta, Guard, Copy, MirrorDone, Reply
<1>5. CASE Propagate \/ StartIdle \/ Wake
  BY <1>5 DEF Propagate, StartIdle, Wake, Reply
<1>6. CASE StopIdle \/ Interrupted \/ CloseConnection \/ BackoffOver \/ Fails
  BY <1>6 DEF StopIdle, Interrupted, CloseConnection, BackoffOver, Fails
<1>7. CASE EndSession
  <2>1. Backoff(wait) \in 0 .. MaxBackoff
    BY DEF Backoff, Min2
  <2>2. QED
    BY <1>7, <2>1 DEF EndSession
<1>8. CASE Quiet
  BY <1>8 DEF Quiet, Recover, Deliver, Notify, Cancel, Wedge, timeVars
<1>9. CASE Tick
  <2>1. beat' \in 0 .. Staleness + 1 /\ uptime' \in 0 .. MaxBackoff
    BY <1>9 DEF Tick, Aged, Min2
  <2>2. timer' \in 0 .. Longest
    BY <1>9 DEF Tick
  <2>3. QED
    BY <1>9, <2>1, <2>2 DEF Tick
<1>10. CASE UNCHANGED vars
  BY <1>10 DEF vars, timeVars
<1>11. QED
  BY <1>1, <1>2, <1>3, <1>4, <1>5, <1>6, <1>7, <1>8, <1>9, <1>10
  DEF Next, Program, Stopped, Quiet

(* Flags keep their types.                                                 *)
LEMMA FlagStep ==
    ASSUME FlagOK, [Next]_vars
    PROVE  FlagOK'
<1> USE DEF FlagOK, Goes, NoBeat, Beat, linkVars, ctlVars, timeVars
<1>1. CASE Begin \/ Dial \/ SelectFolder \/ FetchMeta \/ MirrorDone
  BY <1>1 DEF Begin, Dial, SelectFolder, FetchMeta, MirrorDone
<1>2. CASE ResolveAndEnsure \/ SeedFromDest \/ MaybeBackfill
  BY <1>2 DEF ResolveAndEnsure, SeedFromDest, MaybeBackfill, Reply, Window, Finish
<1>3. CASE SyncMembership
  BY <1>3 DEF SyncMembership, Reply, Window, Finish
<1>4. CASE Guard \/ Copy \/ Propagate
  BY <1>4 DEF Guard, Copy, Propagate, Reply, Finish
<1>5. CASE StartIdle \/ Wake \/ StopIdle \/ Interrupted
  BY <1>5 DEF StartIdle, Wake, StopIdle, Interrupted
<1>6. CASE CloseConnection \/ BackoffOver \/ Fails \/ EndSession
  BY <1>6 DEF CloseConnection, BackoffOver, Fails, EndSession
<1>7. CASE Quiet \/ Tick
  <2>1. /\ (push \/ selected = "source") \in BOOLEAN /\ (phase \in Commands) \in BOOLEAN
        /\ (hung \/ due) \in BOOLEAN
    OBVIOUS
  <2>2. push' \in BOOLEAN /\ due' \in BOOLEAN /\ hung' \in BOOLEAN
    BY <1>7, <2>1 DEF Quiet, Recover, Deliver, Notify, Cancel, Wedge, Tick
  <2>3. wedged' \subseteq {"source", "dest"}
    BY <1>7 DEF Quiet, Recover, Deliver, Notify, Cancel, Wedge, Tick
  <2>4. QED
    BY <1>7, <2>2, <2>3 DEF Quiet, Recover, Deliver, Notify, Cancel, Wedge, Tick
<1>8. CASE UNCHANGED vars
  BY <1>8 DEF vars
<1>9. QED
  BY <1>1, <1>2, <1>3, <1>4, <1>5, <1>6, <1>7, <1>8 DEF Next, Program, Stopped, Quiet

-----------------------------------------------------------------------------
(* Wake-ups.                                                               *)

(* New mail is never without a wakeup on its way.                          *)
LEMMA WakeStep ==
    ASSUME MailOK, WakeInv, [Next]_vars
    PROVE  WakeInv'
<1>1. CASE Begin \/ Dial \/ StopIdle \/ Wake \/ Interrupted
  BY <1>1 DEF Begin, Dial, StopIdle, Wake, Interrupted, Goes, WakeInv
<1>2. CASE BackoffOver \/ Fails \/ EndSession \/ CloseConnection
  BY <1>2 DEF BackoffOver, Fails, EndSession, CloseConnection, Goes, WakeInv
<1>3. CASE ResolveAndEnsure \/ SeedFromDest \/ SyncMembership
  BY <1>3 DEF ResolveAndEnsure, SeedFromDest, SyncMembership, Reply, Window, Finish, Goes,
              WakeInv
<1>4. CASE SelectFolder
  <2>1. selected' = "source" /\ known' = arrived /\ arrived' = arrived
    BY <1>4 DEF SelectFolder, UidNext
  <2>2. QED
    BY <2>1 DEF WakeInv, MailOK
<1>5. CASE MaybeBackfill \/ FetchMeta \/ Guard \/ Copy \/ MirrorDone \/ Propagate \/ StartIdle
  <2>1. /\ phase \in {"backfill", "mirror", "guard", "copy", "propagate", "startIdle"}
        /\ UNCHANGED <<selected, notify, push, arrived, known>>
    BY <1>5 DEF MaybeBackfill, FetchMeta, Guard, Copy, MirrorDone, Propagate, StartIdle,
                SelectedAfterPass, Answered, Reply, Window, Finish, linkVars, mailVars
  <2>2. QED
    BY <2>1 DEF WakeInv
<1>6. CASE Deliver
  <2>1. /\ phase' = phase /\ selected' = selected /\ known' = known /\ notify' = notify
        /\ selected = "source" => push'
    BY <1>6 DEF Deliver
  <2>2. QED
    BY <2>1 DEF WakeInv
<1>7. CASE Notify
  BY <1>7 DEF Notify, WakeInv, mailVars
<1>8. CASE UNCHANGED <<phase, linkVars, mailVars>>
  BY <1>8 DEF WakeInv, linkVars, mailVars
<1>9. QED
  BY <1>1, <1>2, <1>3, <1>4, <1>5, <1>6, <1>7, <1>8
  DEF Next, Program, Stopped, Recover, Cancel, Wedge, Tick, vars

-----------------------------------------------------------------------------
(* The heartbeat.                                                          *)

(* Ticks are counted only against a command that was sent.                 *)
LEMMA DueStep ==
    ASSUME ConnsInv, DueInv, [Next]_vars
    PROVE  DueInv'
<1>1. CASE Busy \/ Onward \/ Afresh \/ GivesUp
  <2>1. due' = FALSE
    BY <1>1 DEF Busy, Onward, Afresh, GivesUp
  <2>2. QED
    BY <2>1 DEF DueInv
<1>2. CASE Begin \/ StartIdle \/ EndSession \/ BackoffOver \/ Fails
  <2>1. due' = FALSE
    BY <1>2 DEF Begin, StartIdle, EndSession, BackoffOver, Fails, Goes
  <2>2. QED
    BY <2>1 DEF DueInv
<1>3. CASE Tick
  <2>1. due' = (phase \in Commands) /\ UNCHANGED <<phase, left, known, mark>>
        /\ (phase \in Commands => Waits)
    BY <1>3 DEF Tick, mailVars
  <2>2. QED
    BY <2>1 DEF DueInv, Waits
<1>4. CASE UNCHANGED <<phase, left, due, known, mark>>
  BY <1>4 DEF DueInv, Waits
<1>5. QED
  BY <1>1, <1>2, <1>3, <1>4, Shapes
  DEF Next, Stopped, CloseConnection, Recover, Deliver, Notify, Cancel, Wedge, vars, timeVars,
      mailVars

(* The part of the types the clock arithmetic needs.                       *)
LEMMA NumberFacts ==
    ASSUME TypeOK
    PROVE  /\ beat \in Nat /\ timer \in Nat /\ wait \in 0 .. MaxBackoff /\ conns \in 0 .. 2
           /\ phase \in Phases /\ left \in 0 .. Rounds(phase) /\ left \in Nat
           /\ due \in BOOLEAN /\ hung \in BOOLEAN /\ known \in Nat
<1>1. PlaceOK /\ MailOK /\ ClockOK /\ FlagOK
  BY TypeParts
<1>2. beat \in Nat /\ timer \in Nat /\ wait \in 0 .. MaxBackoff
  BY <1>1, TimerFacts, LongestFacts DEF ClockOK
<1>3. /\ conns \in 0 .. 2 /\ phase \in Phases /\ left \in 0 .. Rounds(phase) /\ left \in Nat
  BY <1>1, RoundFacts DEF PlaceOK
<1>4. due \in BOOLEAN /\ hung \in BOOLEAN
  BY <1>1 DEF FlagOK
<1>5. known \in Nat
  BY <1>1, TimerFacts DEF MailOK
<1>6. QED
  BY <1>2, <1>3, <1>4, <1>5

(* A session at work has issued at most CommandsPerBeat commands since the *)
(* last heartbeat.                                                         *)
LEMMA BusyBound ==
    ASSUME TypeOK, DueInv, BusyInv, phase \in Commands, ~hung
    PROVE  beat <= CommandsPerBeat
<1>1. beat <= Base(phase) + Rounds(phase) - left + (IF due THEN 1 ELSE 0)
  BY DEF BusyInv
<1>2. CASE phase \in Working
  <2>1. due => left > 0
    BY <1>2 DEF DueInv, Waits
  <2>2. Base(phase) + Rounds(phase) <= CommandsPerBeat
    BY <1>2, CountFacts
  <2>3. QED
    BY <1>1, <2>1, <2>2, NumberFacts, BaseFacts, RoundFacts, CountFacts
<1>3. CASE phase \notin Working
  <2>1. Base(phase) + 1 <= CommandsPerBeat /\ Rounds(phase) = 0
    BY <1>3, CountFacts, RoundFacts
  <2>2. QED
    BY <1>1, <2>1, NumberFacts, BaseFacts, CountFacts
<1>4. QED
  BY <1>2, <1>3

(* Each command adds its tick, each heartbeat starts anew.                 *)
LEMMA BusyStep ==
    ASSUME TypeOK, ConnsInv, DueInv, BusyInv, [Next]_vars
    PROVE  BusyInv'
<1> USE CommandPhases
<1>0. /\ beat \in Nat /\ left \in Nat /\ due \in BOOLEAN /\ hung \in BOOLEAN
      /\ left \in 0 .. Rounds(phase) /\ phase \in Phases
  BY NumberFacts
<1>1. CASE Busy
  <2>1. phase \in Commands /\ phase' = phase /\ due' = FALSE /\ Base(phase) \in Nat
    BY <1>1, BaseFacts DEF Busy
  <2>2. CASE left' = left - 1 /\ NoBeat
    BY <1>0, <2>1, <2>2, RoundFacts DEF BusyInv, NoBeat
  <2>3. CASE left' \in 0 .. Rounds(phase) /\ Beat
    BY <1>0, <2>1, <2>3, RoundFacts DEF BusyInv, Beat
  <2>4. QED
    BY <1>1, <2>2, <2>3 DEF Busy
<1>2. CASE Onward
  <2>1. /\ phase \in Commands /\ phase' \in Commands /\ due' = FALSE /\ NoBeat
        /\ left' \in 0 .. Rounds(phase')
    BY <1>2 DEF Onward
  <2>2. ~hung => beat <= Base(phase')
    <3>1. SUFFICES ASSUME ~hung PROVE beat <= Base(phase')
      OBVIOUS
    <3>2. beat <= Base(phase) + Rounds(phase) - left + (IF due THEN 1 ELSE 0)
      BY <2>1, <3>1 DEF BusyInv
    <3>3. CASE phase \in Working
      <4>1. left = 0 /\ ~due
        BY <1>2, <3>3 DEF Onward, DueInv, Waits
      <4>2. Base(phase') = Base(phase) + Rounds(phase)
        BY <1>2, <3>3, BaseFacts DEF Onward
      <4>3. QED
        BY <1>0, <2>1, <3>2, <4>1, <4>2, BaseFacts, RoundFacts
    <3>4. CASE phase \notin Working
      <4>1. Rounds(phase) = 0 /\ left = 0
        BY <1>0, <3>4, RoundFacts
      <4>2. CASE phase = "mirror" /\ mark = known
        <5>1. ~due
          BY <4>2, NumberFacts DEF DueInv, Waits
        <5>2. Base(phase') >= Base(phase)
          BY <1>2, <4>2, BaseFacts DEF Onward
        <5>3. QED
          BY <1>0, <2>1, <3>2, <4>1, <5>1, <5>2, BaseFacts
      <4>3. CASE ~(phase = "mirror" /\ mark = known)
        <5>1. Base(phase') >= Base(phase) + 1
          BY <1>2, <3>4, <4>3, BaseFacts DEF Onward
        <5>2. QED
          BY <1>0, <2>1, <3>2, <4>1, <5>1, BaseFacts
      <4>4. QED
        BY <4>2, <4>3
    <3>5. QED
      BY <3>3, <3>4
  <2>3. Base(phase') \in Nat /\ Rounds(phase') \in Nat
    BY <2>1, BaseFacts, RoundFacts
  <2>4. QED
    BY <1>0, <2>1, <2>2, <2>3 DEF BusyInv, NoBeat
<1>3. CASE Afresh \/ (Begin /\ ~cancelled)
  <2>1. beat' = 0 /\ due' = FALSE /\ left' \in 0 .. Rounds(phase') /\ phase' \in Commands
    BY <1>3 DEF Afresh, Begin, Beat, Goes
  <2>2. QED
    BY <2>1, BaseFacts, RoundFacts DEF BusyInv
<1>4. CASE GivesUp \/ Fails \/ StartIdle \/ CloseConnection \/ EndSession \/ BackoffOver
           \/ (Begin /\ cancelled)
  <2>1. phase' \notin Commands
    BY <1>4 DEF GivesUp, Fails, StartIdle, CloseConnection, EndSession, BackoffOver, Begin,
                Goes, Timed
  <2>2. QED
    BY <2>1 DEF BusyInv
<1>5. CASE Tick
  <2>1. /\ beat' = Aged /\ UNCHANGED <<phase, left>>
        /\ due' = (phase \in Commands) /\ hung' = (hung \/ due)
    BY <1>5 DEF Tick
  <2>2. Aged <= beat + 1 /\ Aged \in Nat
    BY <1>0, TimerFacts DEF Aged, Min2
  <2>3. SUFFICES ASSUME phase \in Commands, ~hung' PROVE
          beat' <= Base(phase) + Rounds(phase) - left + 1
    BY <2>1 DEF BusyInv
  <2>4. ~hung /\ ~due
    BY <2>1, <2>3
  <2>5. beat <= Base(phase) + Rounds(phase) - left
    BY <1>0, <2>3, <2>4, BaseFacts, RoundFacts DEF BusyInv
  <2>6. QED
    BY <1>0, <2>1, <2>2, <2>3, <2>5, BaseFacts, RoundFacts
<1>6. CASE UNCHANGED <<phase, left, beat, hung, due>>
  BY <1>6 DEF BusyInv
<1>7. QED
  BY <1>1, <1>2, <1>3, <1>4, <1>5, <1>6, Shapes
  DEF Next, Stopped, Recover, Deliver, Notify, Cancel, Wedge, vars, timeVars

(* The timers bound what is added while nothing is asked.                  *)
LEMMA RestStep ==
    ASSUME TypeOK, ConnsInv, DueInv, BusyInv, RestInv, [Next]_vars
    PROVE  RestInv'
<1> USE CommandPhases, TimerFacts, CountFacts DEF Timed
<1>0. /\ beat \in Nat /\ timer \in Nat /\ wait \in 0 .. MaxBackoff /\ conns \in 0 .. 2
      /\ phase \in Phases /\ due \in BOOLEAN /\ hung \in BOOLEAN
  BY NumberFacts
<1>1. CASE Busy \/ Onward \/ Afresh
  <2>1. phase' \in Commands
    BY <1>1 DEF Busy, Onward, Afresh
  <2>2. QED
    BY <2>1 DEF RestInv
<1>2. CASE GivesUp \/ Fails
  <2>1. /\ phase \in Commands /\ phase' = "closing" /\ conns' = conns /\ timer' = LogoutTimeout
        /\ \/ beat' = 0
           \/ beat' = beat /\ hung' = hung
    BY <1>2 DEF GivesUp, Fails, Beat, NoBeat, Goes, linkVars
  <2>2. ~hung => beat <= CommandsPerBeat
    BY <2>1, BusyBound
  <2>3. ~hung' => beat' <= CommandsPerBeat
    BY <2>1, <2>2
  <2>4. QED
    BY <1>0, <2>1, <2>3 DEF RestInv
<1>3. CASE Begin
  <2>1. CASE cancelled
    BY <1>3, <2>1 DEF Begin, Goes, NoBeat, RestInv
  <2>2. CASE ~cancelled
    BY <1>3, <2>2 DEF Begin, Goes, RestInv
  <2>3. QED
    BY <2>1, <2>2
<1>4. CASE StartIdle
  <2>1. /\ phase = "startIdle" /\ phase' = "idle" /\ timer' = Min2(Poll, IdleReset)
        /\ beat' = beat /\ hung' = hung
    BY <1>4 DEF StartIdle, Answered, Goes, NoBeat
  <2>2. Base(phase) = 0 /\ Rounds(phase) = 0 /\ left = 0
    BY <2>1, NumberFacts, BaseFacts, RoundFacts
  <2>3. ~hung => beat <= 1
    BY <1>0, <2>1, <2>2 DEF BusyInv
  <2>4. QED
    BY <1>0, <2>1, <2>3 DEF RestInv
<1>5. CASE CloseConnection
  <2>1. /\ phase = "closing" /\ phase' = "closing" /\ conns > 0 /\ conns' = conns - 1
        /\ timer' = LogoutTimeout /\ UNCHANGED <<beat, hung>>
    BY <1>5 DEF CloseConnection
  <2>2. QED
    BY <1>0, <2>1 DEF RestInv
<1>6. CASE EndSession
  <2>1. /\ conns = 0 /\ phase = "closing"
        /\ \/ phase' = "backoff" /\ timer' = wait' /\ beat' = 0 /\ wait' = Backoff(wait)
           \/ phase' = "stopped" /\ beat' = beat /\ hung' = hung
    BY <1>6 DEF EndSession, Goes, Beat, NoBeat
  <2>2. Backoff(wait) \in 0 .. MaxBackoff
    BY <1>0 DEF Backoff, Min2
  <2>3. QED
    BY <1>0, <2>1, <2>2 DEF RestInv
<1>7. CASE BackoffOver
  BY <1>0, <1>7 DEF BackoffOver, Goes, NoBeat, RestInv
<1>8. CASE Tick
  <2>1. /\ beat' = Aged /\ UNCHANGED <<phase, conns>>
        /\ phase \in Timed => timer' = timer - 1 /\ timer > 0
        /\ phase = "closing" => conns > 0
        /\ phase \in Timed \cup Commands
        /\ ~hung' => ~hung
    BY <1>8 DEF Tick, linkVars
  <2>2. Aged <= beat + 1 /\ Aged \in Nat
    BY <1>0 DEF Aged, Min2
  <2>3. CASE phase \in Commands
    BY <2>1, <2>3 DEF RestInv
  <2>4. CASE phase \in Timed
    BY <1>0, <2>1, <2>2, <2>4 DEF RestInv
  <2>5. QED
    BY <2>1, <2>3, <2>4
<1>9. CASE UNCHANGED <<phase, conns, beat, timer, hung>>
  BY <1>9 DEF RestInv
<1>10. QED
  BY <1>1, <1>2, <1>3, <1>4, <1>5, <1>6, <1>7, <1>8, <1>9, Shapes
  DEF Next, Stopped, Recover, Deliver, Notify, Cancel, Wedge, vars, timeVars, linkVars

-----------------------------------------------------------------------------
(* The theorems.                                                           *)

(* The inductive invariant holds throughout.                               *)
LEMMA SessionInvariant == Spec => []SessionInv
<1>1. ASSUME Init PROVE SessionInv
  <2>1. PlaceOK /\ MailOK /\ ClockOK
    BY <1>1, TimerFacts, LongestFacts, RoundFacts DEF Init, PlaceOK, MailOK, ClockOK, Phases
  <2>2. FlagOK
    BY <1>1 DEF Init, FlagOK
  <2>3. ConnsInv /\ WindowInv /\ WakeInv /\ DueInv
    BY <1>1 DEF Init, ConnsInv, WindowInv, WakeInv, DueInv
  <2>4. BusyInv /\ RestInv
    BY <1>1, CountFacts, CommandPhases DEF Init, BusyInv, RestInv
  <2>5. QED
    BY <2>1, <2>2, <2>3, <2>4, TypeParts DEF SessionInv
<1>2. ASSUME SessionInv, [Next]_vars PROVE SessionInv'
  <2>1. /\ TypeOK /\ PlaceOK /\ MailOK /\ ClockOK /\ FlagOK
        /\ ConnsInv /\ WindowInv /\ WakeInv /\ DueInv /\ BusyInv /\ RestInv
    BY <1>2, TypeParts DEF SessionInv
  <2>2. PlaceOK' /\ ConnsInv'
    BY <1>2, <2>1, PlaceStep
  <2>3. MailOK' /\ WindowInv'
    BY <1>2, <2>1, MailStep
  <2>4. ClockOK' /\ FlagOK'
    BY <1>2, <2>1, ClockStep, FlagStep
  <2>5. WakeInv' /\ DueInv'
    BY <1>2, <2>1, WakeStep, DueStep
  <2>6. BusyInv' /\ RestInv'
    BY <1>2, <2>1, BusyStep, RestStep
  <2>7. TypeOK'
    BY <2>2, <2>3, <2>4 DEF TypeOK, PlaceOK, MailOK, ClockOK, FlagOK, Longest
  <2>8. QED
    BY <2>2, <2>3, <2>5, <2>6, <2>7 DEF SessionInv
<1>3. QED
  BY <1>1, <1>2, PTL DEF Spec

(* Phases, connections, timers and the heartbeat keep their types; never   *)
(* are more than two connections open (mirror.go:80-112).                  *)
THEOREM SessionTypeCorrect == Spec => []TypeOK
<1>1. SessionInv => TypeOK
  BY DEF SessionInv
<1>2. QED
  BY SessionInvariant, <1>1, PTL

(* No wake-up is lost, whatever a pass selects on the connection and       *)
(* however many messages share the one token (client.go:71-77).            *)
THEOREM NoLostWakeupCorrect == Spec => []NoLostWakeup
<1>1. SessionInv => NoLostWakeup
  BY DEF SessionInv, WakeInv, NoLostWakeup
<1>2. QED
  BY SessionInvariant, <1>1, PTL

(* For any timers and any amount of work: if backing off and the commands  *)
(* of the longest stretch without a heartbeat fit into three polls, a      *)
(* mirror whose servers answer stays healthy (main.go:66-80).  The number  *)
(* of windows a scan reads does not count; the length of the queue, the    *)
(* chunks of the guard and of a backfill and the unchanged folders do      *)
(* (membership.go:60-92, 263-344, 431-453; reconcile.go:297-331).          *)
THEOREM HealthyIfAnsweredCorrect == Spec => []HealthyIfAnswered
<1>1. ASSUME SessionInv PROVE HealthyIfAnswered
  <2>1. /\ beat \in Nat /\ timer \in Nat /\ conns \in 0 .. 2 /\ phase \in Phases
        /\ hung \in BOOLEAN
        /\ TypeOK /\ DueInv /\ BusyInv /\ RestInv
    BY <1>1, NumberFacts DEF SessionInv
  <2>2. ASSUME ~hung, Silence <= Staleness PROVE beat <= Staleness
    <3>1. CASE phase \in Commands
      BY <2>1, <2>2, <3>1, BusyBound, TimerFacts, CountFacts
    <3>2. CASE phase \in Timed \cup {"start", "stopped"}
      BY <2>1, <2>2, <3>2, TimerFacts, CountFacts DEF RestInv, Timed
    <3>3. QED
      BY <2>1, <3>1, <3>2 DEF Phases
  <2>3. QED
    BY <2>1, <2>2, TimerFacts DEF HealthyIfAnswered
<1>2. QED
  BY SessionInvariant, <1>1, PTL
=============================================================================
