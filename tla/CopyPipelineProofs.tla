------------------------- MODULE CopyPipelineProofs -------------------------
(***************************************************************************)
(* The copy pipeline is correct for every window, every channel depth,     *)
(* ring and batch size: it stores nothing twice, keeps its crash window,   *)
(* returns nil only with everything recorded, and implements WindowCopy.   *)
(***************************************************************************)
EXTENDS CopyPipeline, FiniteSetTheorems, TLAPS

(* The stream, the select and the channel hold different candidates.       *)
ApartInv ==
    /\ \A c, d \in hand : c = d
    /\ unread \cap hand = {}
    /\ \A i \in 1 .. Len(ch) : ch[i] \notin unread \cup hand
    /\ \A i, j \in 1 .. Len(ch) : ch[i] = ch[j] => i = j

(* Nothing was ever issued for a candidate on its way to the consumer.     *)
FreshInv ==
    \A c \in Left : status[c.key] = "none" /\ dest[c.key] = 0

(* A sent or refused APPEND has stored nothing, a stored one one copy.     *)
ServerInv ==
    \A k \in Keys :
        /\ dest[k] <= 1
        /\ status[k] \in {"sent", "refused"} => dest[k] = 0

(* Until the append side fails the ring holds each unsettled APPEND once.  *)
RingInv ==
    ~consErr => /\ \A i \in 1 .. Len(ring) : ring[i].key \in Unsettled
                /\ \A k \in Unsettled : \E i \in 1 .. Len(ring) : ring[i].key = k
                /\ \A i, j \in 1 .. Len(ring) : ring[i].key = ring[j].key => i = j
                /\ Cardinality(Unsettled) = Len(ring)

(* How full the ring and the batch are, and together.                      *)
BoundInv ==
    /\ IsFiniteSet(Unsettled) /\ IsFiniteSet(records)
    /\ Cardinality(Unsettled) + Cardinality(records) <= ringLimit + flushLimit - 1
    /\ ~consErr /\ consumer \in {"receive", "flush"} => Len(ring) < ringLimit
    /\ ~consErr /\ consumer # "flush" => Cardinality(records) < flushLimit

(* What holds at each point of the consumer's loop.                        *)
PhaseInv ==
    /\ consumer = "settle" => ~consErr /\ ring # <<>>
    /\ consumer = "flush" => ~consErr /\ Cardinality(records) >= flushLimit
    /\ consumer \in {"last", "done"} => closed /\ ch = <<>>
    /\ consumer \in {"last", "done"} /\ ~consErr => ring = <<>>
    /\ consumer = "done" /\ ~consErr => records = {}

(* What the two error flags and the result promise.                        *)
EndInv ==
    /\ closed /\ ~prodErr => unread = {} /\ hand = {}
    /\ result # "none" => closed /\ consumer = "done"
    /\ result = "ok" => ~consErr /\ ~prodErr

(* Until the append side fails every candidate is somewhere.               *)
AccountedInv ==
    ~consErr => \A c \in Window :
        c \in vanished \cup Left \/ c.key \in Unsettled \cup records \cup copied

PipelineInv ==
    /\ TypeOK
    /\ ApartInv /\ FreshInv /\ ServerInv
    /\ RingInv /\ BoundInv /\ PhaseInv
    /\ EndInv /\ AccountedInv

-----------------------------------------------------------------------------
(* Sequences: what Append and Tail do to the elements of a channel.        *)

(* An appended element is last, the others keep their places.              *)
LEMMA AppendFacts ==
    ASSUME NEW S, NEW s \in Seq(S), NEW e \in S
    PROVE  /\ Append(s, e) \in Seq(S)
           /\ Len(Append(s, e)) = Len(s) + 1
           /\ \A i \in 1 .. Len(s) : Append(s, e)[i] = s[i]
           /\ Append(s, e)[Len(s) + 1] = e
           /\ Append(s, e) # <<>>
  OBVIOUS

(* The head is the first element, the tail the others moved up by one.     *)
LEMMA TailFacts ==
    ASSUME NEW S, NEW s \in Seq(S), s # <<>>
    PROVE  /\ Head(s) = s[1] /\ Head(s) \in S
           /\ Len(s) \in Nat /\ Len(s) >= 1
           /\ Tail(s) \in Seq(S)
           /\ Len(Tail(s)) = Len(s) - 1
           /\ \A i \in 1 .. Len(s) - 1 : Tail(s)[i] = s[i + 1]
  OBVIOUS

(* Sending adds one element to what a channel holds.                       *)
LEMMA RangeAppend ==
    ASSUME NEW S, NEW s \in Seq(S), NEW e \in S
    PROVE  Range(Append(s, e)) = Range(s) \cup {e}
<1>1. DOMAIN s = 1 .. Len(s) /\ DOMAIN Append(s, e) = 1 .. Len(s) + 1 /\ Len(s) \in Nat
  OBVIOUS
<1>2. QED
  BY <1>1, AppendFacts DEF Range

(* Receiving from a channel of distinct elements removes the first.        *)
LEMMA RangeTail ==
    ASSUME NEW S, NEW s \in Seq(S), s # <<>>,
           \A i, j \in 1 .. Len(s) : s[i] = s[j] => i = j
    PROVE  Range(Tail(s)) = Range(s) \ {Head(s)} /\ Head(s) \in Range(s)
<1>1. /\ DOMAIN s = 1 .. Len(s) /\ DOMAIN Tail(s) = 1 .. Len(s) - 1
      /\ Len(s) \in Nat /\ Len(s) >= 1
  BY TailFacts
<1>2. Head(s) = s[1] /\ \A i \in 1 .. Len(s) - 1 : Tail(s)[i] = s[i + 1]
  BY TailFacts
<1>3. ASSUME NEW x \in Range(Tail(s)) PROVE x \in Range(s) \ {Head(s)}
  <2>1. PICK i \in 1 .. Len(s) - 1 : x = Tail(s)[i]
    BY <1>1, <1>3 DEF Range
  <2>2. i + 1 \in 1 .. Len(s) /\ x = s[i + 1] /\ i + 1 # 1
    BY <1>1, <1>2, <2>1
  <2>3. QED
    BY <1>1, <1>2, <2>2 DEF Range
<1>4. ASSUME NEW x \in Range(s) \ {Head(s)} PROVE x \in Range(Tail(s))
  <2>1. PICK i \in 1 .. Len(s) : x = s[i]
    BY <1>1, <1>4 DEF Range
  <2>2. i - 1 \in 1 .. Len(s) - 1 /\ x = Tail(s)[i - 1]
    BY <1>1, <1>2, <1>4, <2>1
  <2>3. QED
    BY <1>1, <2>2 DEF Range
<1>5. Head(s) \in Range(s)
  BY <1>1, <1>2 DEF Range
<1>6. QED
  BY <1>3, <1>4, <1>5

-----------------------------------------------------------------------------
(* The type invariant.                                                     *)

(* An issued APPEND, as the ring keeps it.                                 *)
Issued == [key : Keys, hadKeywords : BOOLEAN]

(* The oldest issued APPEND, and the ring without it.                      *)
LEMMA OldestFacts ==
    ASSUME TypeOK, ring # <<>>
    PROVE  /\ Oldest \in Keys /\ Oldest = ring[1].key /\ ring[1] \in Issued
           /\ Len(ring) \in Nat /\ Len(ring) >= 1
           /\ Tail(ring) \in Seq(Issued)
           /\ Len(Tail(ring)) = Len(ring) - 1
           /\ \A i \in 1 .. Len(ring) - 1 : Tail(ring)[i] = ring[i + 1]
<1>1. ring \in Seq(Issued)
  BY DEF TypeOK, Issued
<1>2. Head(ring) = ring[1] /\ Head(ring) \in Issued
  BY <1>1, TailFacts
<1>3. \A r \in Issued : r.key \in Keys
  BY DEF Issued
<1>4. QED
  BY <1>1, <1>2, <1>3, TailFacts DEF Oldest

(* Every step of the pipeline keeps the types.                             *)
LEMMA TypeStep ==
    ASSUME TypeOK, [Next]_vars, consumer = "settle" => ring # <<>>,
           ~consErr /\ consumer = "receive" => Len(ring) < ringLimit
    PROVE  TypeOK'
<1>1. CASE ReadBody /\ UNCHANGED destGuard
  <2>1. PICK c \in unread : hand' = {c} /\ unread' = unread \ {c}
    BY <1>1 DEF ReadBody
  <2>2. Cardinality({c}) = 1
    BY FS_Singleton
  <2>3. Cardinality(hand') <= 1
    BY <2>1, <2>2
  <2>4. QED
    BY <1>1, <2>1, <2>3 DEF ReadBody, TypeOK, consVars, ringLimit
<1>2. CASE Push /\ UNCHANGED destGuard
  <2>1. PICK c \in hand : ch' = Append(ch, c)
    BY <1>2 DEF Push
  <2>2. ch' \in Seq(Window) /\ Len(ch') <= PipelineDepth
    BY <1>2, <2>1, AppendFacts, PipelineAssumption DEF Push, Room, TypeOK
  <2>3. hand' = {} /\ Cardinality({}) = 0
    BY <1>2, FS_EmptySet DEF Push
  <2>4. hand' \subseteq Window /\ Cardinality(hand') <= 1
    BY <2>3
  <2>5. QED
    BY <1>2, <2>2, <2>4 DEF Push, TypeOK, consVars, ringLimit
<1>3. CASE (GiveUp \/ StreamEnds \/ StreamBreaks \/ Vanish \/ Cancel) /\ UNCHANGED destGuard
  BY <1>3 DEF GiveUp, StreamEnds, StreamBreaks, closeCh, Vanish, Cancel,
              TypeOK, prodVars, consVars, ringLimit
<1>4. CASE (Drain \/ BeginAppendFails) /\ UNCHANGED destGuard
  <2>1. ch' \in Seq(Window) /\ Len(ch') <= PipelineDepth /\ Head(ch) \in Window
    <3>1. ch # <<>> /\ ch' = Tail(ch) /\ ch \in Seq(Window) /\ Len(ch) <= PipelineDepth
      BY <1>4 DEF Drain, BeginAppendFails, TypeOK
    <3>2. QED
      BY <3>1, TailFacts, PipelineAssumption
  <2>2. Head(ch).key \in Keys
    BY <2>1, PipelineAssumption
  <2>3. status' \in [Keys -> Statuses]
    BY <1>4, <2>2 DEF Drain, BeginAppendFails, TypeOK, Statuses
  <2>4. consErr' \in BOOLEAN /\ consumer' = consumer /\ ring' = ring
    BY <1>4 DEF Drain, BeginAppendFails, TypeOK, consVars
  <2>5. QED
    BY <1>4, <2>1, <2>3, <2>4
    DEF Drain, BeginAppendFails, TypeOK, prodVars, consVars, ringLimit
<1>5. CASE BeginAppend /\ UNCHANGED destGuard
  <2> DEFINE k == Head(ch).key
             r == [key |-> k, hadKeywords |-> k \in Labelled]
  <2>1. ch' \in Seq(Window) /\ Len(ch') <= PipelineDepth /\ Head(ch) \in Window
    BY <1>5, TailFacts, PipelineAssumption DEF BeginAppend, TypeOK
  <2>2. k \in Keys
    BY <2>1, PipelineAssumption
  <2>3. r \in Issued /\ ring' = Append(ring, r)
    BY <1>5, <2>2 DEF BeginAppend, Issued
  <2>4. ring' \in Seq(Issued) /\ Len(ring') = Len(ring) + 1
    <3>1. ring \in Seq(Issued)
      BY DEF TypeOK, Issued
    <3> HIDE DEF r
    <3>2. QED
      BY <2>3, <3>1, AppendFacts
  <2>5. Len(ring') <= ringLimit'
    BY <1>5, <2>4, PipelineAssumption DEF BeginAppend, TypeOK, ringLimit
  <2>6. status' \in [Keys -> Statuses]
    BY <1>5, <2>2 DEF BeginAppend, TypeOK, Statuses
  <2>7. consumer' \in {"settle", "receive"}
    BY <1>5 DEF BeginAppend
  <2>8. QED
    BY <1>5, <2>1, <2>4, <2>5, <2>6, <2>7 DEF BeginAppend, TypeOK, prodVars, Issued
<1>6. CASE (SettleConfirmed \/ SettleRefused \/ SettleBroken) /\ UNCHANGED destGuard
  <2>1. ring # <<>> /\ ring' = Tail(ring)
    BY <1>6 DEF SettleConfirmed, SettleRefused, SettleBroken, Settling
  <2>2. ring' \in Seq(Issued) /\ Len(ring') = Len(ring) - 1 /\ Len(ring) \in Nat
    BY <2>1, OldestFacts
  <2>3. Oldest \in Keys
    BY <2>1, OldestFacts
  <2>4. status' \in [Keys -> Statuses] /\ records' \subseteq Keys
    BY <1>6, <2>3 DEF SettleConfirmed, SettleRefused, SettleBroken, TypeOK, Statuses
  <2>5. Len(ring') <= ringLimit'
    BY <1>6, <2>2, PipelineAssumption DEF TypeOK, ringLimit
  <2>6. consumer' \in {"flush", "receive"} /\ consErr' \in BOOLEAN
    BY <1>6 DEF SettleConfirmed, SettleRefused, SettleBroken, TypeOK
  <2>7. QED
    BY <1>6, <2>2, <2>4, <2>5, <2>6
    DEF SettleConfirmed, SettleRefused, SettleBroken, TypeOK, prodVars, Issued
<1>7. CASE RetryBare /\ UNCHANGED destGuard
  <2>1. ring # <<>>
    BY <1>7 DEF RetryBare, Settling
  <2>2. Oldest \in Keys /\ ring[1] \in Issued /\ Len(ring) \in Nat /\ Len(ring) >= 1
    BY <2>1, OldestFacts
  <2>3. [ring[1] EXCEPT !.hadKeywords = FALSE] \in Issued
    BY <2>2 DEF Issued
  <2>4. ring' \in Seq(Issued) /\ Len(ring') = Len(ring)
    <3>1. ring \in Seq(Issued)
      BY DEF TypeOK, Issued
    <3>2. ring' = [ring EXCEPT ![1] = [ring[1] EXCEPT !.hadKeywords = FALSE]]
      BY <1>7 DEF RetryBare
    <3>3. QED
      BY <2>2, <2>3, <3>1, <3>2
  <2>5. status' \in [Keys -> Statuses]
    BY <1>7, <2>2 DEF RetryBare, TypeOK, Statuses
  <2>6. Len(ring') <= ringLimit'
    BY <1>7, <2>4 DEF TypeOK, ringLimit
  <2>7. QED
    BY <1>7, <2>4, <2>5, <2>6 DEF RetryBare, TypeOK, prodVars, Issued
<1>8. CASE (RangeEnds \/ FlushRecords \/ FlushFails \/ Return) /\ UNCHANGED destGuard
  BY <1>8 DEF RangeEnds, FlushRecords, FlushFails, Return, AfterFlush,
              TypeOK, prodVars, consVars, ringLimit
<1>9. CASE Server /\ UNCHANGED destGuard
  <2>1. status' \in [Keys -> Statuses]
    BY <1>9 DEF Server, ServerStores, ServerRefuses, TypeOK, Statuses
  <2>2. dest' \in [Keys -> 0 .. MaxCopies]
    <3>1. CASE ServerStores
      <4>1. PICK k \in Keys : dest' = [dest EXCEPT ![k] = IF @ < MaxCopies THEN @ + 1 ELSE @]
        BY <3>1 DEF ServerStores
      <4>2. dest[k] \in 0 .. MaxCopies /\ dest \in [Keys -> 0 .. MaxCopies]
        BY DEF TypeOK
      <4>3. (IF dest[k] < MaxCopies THEN dest[k] + 1 ELSE dest[k]) \in 0 .. MaxCopies
        BY <4>2, PipelineAssumption
      <4>4. QED
        BY <4>1, <4>2, <4>3
    <3>2. CASE ServerRefuses
      BY <3>2 DEF ServerRefuses, TypeOK
    <3>3. QED
      BY <1>9, <3>1, <3>2 DEF Server
  <2>3. QED
    BY <1>9, <2>1, <2>2
    DEF Server, ServerStores, ServerRefuses, TypeOK, prodVars, consVars, ringLimit
<1>10. CASE UNCHANGED vars
  BY <1>10 DEF vars, TypeOK, prodVars, consVars, ringLimit
<1>11. QED
  BY <1>1, <1>2, <1>3, <1>4, <1>5, <1>6, <1>7, <1>8, <1>9, <1>10
  DEF Next, Configured, Producer, Consumer, Fault, Settle, Finished

-----------------------------------------------------------------------------
(* The candidates still on their way to the consumer.                      *)

(* What receiving from the channel does to it.                             *)
LEMMA ReceiveFacts ==
    ASSUME TypeOK, ApartInv, ch # <<>>, ch' = Tail(ch), UNCHANGED <<unread, hand>>
    PROVE  /\ Head(ch) \in Left /\ Head(ch) \in Window /\ Head(ch).key \in Keys
           /\ Left' = Left \ {Head(ch)}
           /\ ApartInv'
<1>1. ch \in Seq(Window)
  BY DEF TypeOK
<1>2. Head(ch) \in Window /\ Head(ch) = ch[1] /\ Len(ch) \in Nat /\ Len(ch) >= 1
  BY <1>1, TailFacts
<1>3. Range(ch') = Range(ch) \ {Head(ch)} /\ Head(ch) \in Range(ch)
  BY <1>1, RangeTail DEF ApartInv
<1>4. Head(ch) \notin unread \cup hand
  BY <1>2 DEF ApartInv
<1>5. Left' = Left \ {Head(ch)} /\ Head(ch) \in Left
  BY <1>3, <1>4 DEF Left
<1>6. /\ Len(ch') = Len(ch) - 1
      /\ \A i \in 1 .. Len(ch) - 1 : ch'[i] = ch[i + 1]
  BY <1>1, TailFacts
<1>7. ApartInv'
  BY <1>2, <1>6 DEF ApartInv
<1>8. QED
  BY <1>2, <1>5, <1>7, PipelineAssumption

(* What putting the body in hand into the channel does.                    *)
LEMMA PushFacts ==
    ASSUME TypeOK, ApartInv, Push
    PROVE  Left' = Left /\ ApartInv'
<1>1. PICK c \in hand : ch' = Append(ch, c)
  BY DEF Push
<1>2. hand = {c} /\ c \in Window /\ c \notin unread /\ hand' = {} /\ unread' = unread
  BY DEF Push, TypeOK, ApartInv
<1>3. ch \in Seq(Window) /\ Len(ch) \in Nat
  BY DEF TypeOK
<1>4. Range(ch') = Range(ch) \cup {c}
  BY <1>1, <1>2, <1>3, RangeAppend
<1>5. Left' = Left
  BY <1>2, <1>4 DEF Left
<1>6. /\ Len(ch') = Len(ch) + 1
      /\ \A i \in 1 .. Len(ch) : ch'[i] = ch[i]
      /\ ch'[Len(ch) + 1] = c
  BY <1>1, <1>2, <1>3, AppendFacts
<1>7. \A i \in 1 .. Len(ch) : ch[i] # c /\ ch[i] \notin unread
  BY <1>2 DEF ApartInv
<1>8. ApartInv'
  <2>1. \A i \in 1 .. Len(ch') : i \in 1 .. Len(ch) \/ i = Len(ch) + 1
    BY <1>3, <1>6
  <2>2. \A i \in 1 .. Len(ch') : ch'[i] \notin unread'
    BY <1>2, <1>6, <1>7, <2>1
  <2>3. \A i, j \in 1 .. Len(ch') : ch'[i] = ch'[j] => i = j
    BY <1>6, <1>7, <2>1 DEF ApartInv
  <2>4. QED
    BY <1>2, <2>2, <2>3 DEF ApartInv
<1>9. QED
  BY <1>5, <1>8

(* The steps that receive; the steps that touch no candidate on its way.   *)
Receives == Drain \/ BeginAppend \/ BeginAppendFails

KeepsBuffers == UNCHANGED <<unread, hand, ch>>

(* A candidate is in one buffer at a time, and a receive takes it out.     *)
LEMMA ApartStep ==
    ASSUME TypeOK, ApartInv, [Next]_vars
    PROVE  /\ ApartInv'
           /\ Receives => /\ ch # <<>> /\ Head(ch) \in Left
                          /\ Head(ch) \in Window /\ Head(ch).key \in Keys
                          /\ Left' = Left \ {Head(ch)}
           /\ ReadBody \/ Push \/ KeepsBuffers => Left' = Left
           /\ Vanish => \E c \in Left : /\ vanished' = vanished \cup {c}
                                        /\ Left' = Left \ {c}
<1>1. ASSUME ReadBody PROVE ApartInv' /\ Left' = Left
  <2>1. PICK c \in unread : hand' = {c} /\ unread' = unread \ {c} /\ ch' = ch /\ hand = {}
    BY <1>1 DEF ReadBody, Streaming
  <2>2. QED
    BY <2>1 DEF ApartInv, Left
<1>2. ASSUME Push PROVE ApartInv' /\ Left' = Left
  BY <1>2, PushFacts
<1>3. ASSUME Vanish
      PROVE  ApartInv' /\ \E c \in Left : vanished' = vanished \cup {c} /\ Left' = Left \ {c}
  <2>1. PICK c \in unread : /\ vanished' = vanished \cup {c} /\ unread' = unread \ {c}
                            /\ ch' = ch /\ hand = {} /\ hand' = {}
    BY <1>3 DEF Vanish, Streaming
  <2>2. ch \in Seq(Window) /\ DOMAIN ch = 1 .. Len(ch)
    BY DEF TypeOK
  <2>3. c \notin Range(ch)
    BY <2>1, <2>2 DEF ApartInv, Range
  <2>4. QED
    BY <2>1, <2>3 DEF ApartInv, Left
<1>4. ASSUME Receives
      PROVE  /\ ApartInv'
             /\ ch # <<>> /\ Head(ch) \in Left /\ Head(ch) \in Window /\ Head(ch).key \in Keys
             /\ Left' = Left \ {Head(ch)}
  <2>1. ch # <<>> /\ ch' = Tail(ch) /\ UNCHANGED <<unread, hand>>
    BY <1>4 DEF Receives, Drain, BeginAppend, BeginAppendFails, prodVars
  <2>2. QED
    BY <2>1, ReceiveFacts
<1>5. ASSUME KeepsBuffers PROVE ApartInv' /\ Left' = Left
  BY <1>5 DEF KeepsBuffers, ApartInv, Left
<1>6. ReadBody \/ Push \/ Vanish \/ Receives \/ KeepsBuffers
  BY DEF Next, Configured, Producer, Consumer, Fault, Settle, Server, Finished, vars,
         Receives, KeepsBuffers, prodVars, consVars, GiveUp, StreamEnds, StreamBreaks,
         Cancel, SettleConfirmed, RetryBare, SettleRefused, SettleBroken, RangeEnds,
         FlushRecords, FlushFails, Return, ServerStores, ServerRefuses
<1>7. QED
  BY <1>1, <1>2, <1>3, <1>4, <1>5, <1>6

-----------------------------------------------------------------------------
(* The server: what it stored, and what was sent to it.                    *)

(* What is left to send comes from the window.                             *)
LEMMA LeftInWindow ==
    ASSUME TypeOK
    PROVE  Left \subseteq Window /\ \A c \in Window : c.key \in Keys
<1>1. DOMAIN ch = 1 .. Len(ch) /\ \A i \in 1 .. Len(ch) : ch[i] \in Window
  BY DEF TypeOK
<1>2. QED
  BY <1>1, PipelineAssumption DEF TypeOK, Left, Range

(* Steps that issue an APPEND for a candidate no longer on its way.        *)
Issues(k) ==
    /\ k \in Keys
    /\ status[k] = "none" /\ dest[k] = 0
    /\ \A c \in Left' : c.key # k
    /\ status' = [status EXCEPT ![k] = "sent"]
    /\ dest' = dest

(* A key is issued once: no append of it went out before.                  *)
LEMMA IssueFacts ==
    ASSUME TypeOK, ApartInv, FreshInv, [Next]_vars,
           BeginAppend \/ (BeginAppendFails /\ status' # status)
    PROVE  Issues(Head(ch).key)
<1>1. /\ ch # <<>> /\ Head(ch) \in Left /\ Head(ch) \in Window /\ Head(ch).key \in Keys
      /\ Left' = Left \ {Head(ch)}
  BY ApartStep DEF Receives
<1>2. Left \subseteq Window
  BY LeftInWindow
<1>3. \A c \in Left' : c.key # Head(ch).key
  BY <1>1, <1>2, PipelineAssumption
<1>4. status' = [status EXCEPT ![Head(ch).key] = "sent"] /\ dest' = dest
  BY DEF BeginAppend, BeginAppendFails
<1>5. status[Head(ch).key] = "none" /\ dest[Head(ch).key] = 0
  BY <1>1 DEF FreshInv
<1>6. QED
  BY <1>1, <1>3, <1>4, <1>5 DEF Issues

(* No candidate comes back once it was taken.                              *)
LEMMA LeftShrinks ==
    ASSUME TypeOK, ApartInv, [Next]_vars
    PROVE  Left' \subseteq Left
<1>1. ReadBody \/ Push \/ Vanish \/ Receives \/ KeepsBuffers
  BY DEF Next, Configured, Producer, Consumer, Fault, Settle, Server, Finished, vars,
         Receives, KeepsBuffers, prodVars, consVars, GiveUp, StreamEnds, StreamBreaks,
         Cancel, SettleConfirmed, RetryBare, SettleRefused, SettleBroken, RangeEnds,
         FlushRecords, FlushFails, Return, ServerStores, ServerRefuses
<1>2. QED
  BY <1>1, ApartStep

(* A new copy appears only for an APPEND that was sent, and once for it.   *)
LEMMA ServerStep ==
    ASSUME TypeOK, ApartInv, FreshInv, ServerInv, [Next]_vars,
           consumer = "settle" => ring # <<>>
    PROVE  FreshInv' /\ ServerInv'
<1>0. /\ Left' \subseteq Left /\ Left \subseteq Window /\ \A c \in Window : c.key \in Keys
      /\ status \in [Keys -> Statuses] /\ dest \in [Keys -> 0 .. MaxCopies]
  BY LeftShrinks, LeftInWindow DEF TypeOK
<1>1. CASE UNCHANGED <<status, dest>>
  BY <1>0, <1>1 DEF FreshInv, ServerInv
<1>2. CASE (BeginAppend \/ BeginAppendFails) /\ status' # status
  <2>1. Issues(Head(ch).key)
    BY <1>2, IssueFacts
  <2>2. QED
    BY <1>0, <2>1 DEF Issues, FreshInv, ServerInv
<1>3. CASE SettleConfirmed \/ SettleRefused
  <2>1. Oldest \in Keys /\ dest' = dest /\ status' = [status EXCEPT ![Oldest] = "none"]
    BY <1>3, OldestFacts DEF SettleConfirmed, SettleRefused, Settling
  <2>2. QED
    BY <1>0, <2>1 DEF FreshInv, ServerInv
<1>4. CASE RetryBare
  <2>1. /\ Oldest \in Keys /\ dest' = dest /\ status[Oldest] = "refused"
        /\ status' = [status EXCEPT ![Oldest] = "sent"]
    BY <1>4, OldestFacts DEF RetryBare, Settling, isServerReject
  <2>2. QED
    BY <1>0, <2>1 DEF FreshInv, ServerInv
<1>5. CASE ServerStores
  <2>1. PICK k \in Keys :
            /\ status[k] = "sent"
            /\ status' = [status EXCEPT ![k] = "stored"]
            /\ dest' = [dest EXCEPT ![k] = IF @ < MaxCopies THEN @ + 1 ELSE @]
    BY <1>5 DEF ServerStores
  <2>2. dest[k] = 0
    BY <2>1 DEF ServerInv
  <2>3. dest' = [dest EXCEPT ![k] = 1]
    <3>1. 0 < MaxCopies
      BY PipelineAssumption
    <3>2. (IF dest[k] < MaxCopies THEN dest[k] + 1 ELSE dest[k]) = 1
      BY <2>2, <3>1
    <3>3. QED
      BY <2>1, <3>2
  <2>4. QED
    BY <1>0, <2>1, <2>3 DEF FreshInv, ServerInv
<1>6. CASE ServerRefuses
  BY <1>0, <1>6 DEF ServerRefuses, FreshInv, ServerInv
<1>7. QED
  BY <1>1, <1>2, <1>3, <1>4, <1>5, <1>6
  DEF Next, Configured, Producer, Consumer, Fault, Settle, Server, Finished, vars,
      prodVars, consVars, ReadBody, Push, GiveUp, StreamEnds, StreamBreaks, Vanish,
      Cancel, Drain, BeginAppend, BeginAppendFails, SettleBroken, RangeEnds,
      FlushRecords, FlushFails, Return

-----------------------------------------------------------------------------
(* The ring and the batch.                                                 *)

(* A step issues one APPEND, or settles the oldest, or leaves the same     *)
(* ones unsettled.                                                         *)
Issuing == BeginAppend \/ (BeginAppendFails /\ status' # status)

SettleStep == SettleConfirmed \/ SettleRefused

(* What a step does to the appends in flight and to their number.          *)
LEMMA UnsettledStep ==
    ASSUME TypeOK, ApartInv, FreshInv, RingInv, BoundInv, PhaseInv, [Next]_vars
    PROVE  /\ IsFiniteSet(Unsettled')
           /\ Issuing => /\ Head(ch).key \notin Unsettled
                         /\ Unsettled' = Unsettled \cup {Head(ch).key}
                         /\ Cardinality(Unsettled') = Cardinality(Unsettled) + 1
           /\ SettleStep => /\ Oldest \in Unsettled
                            /\ Unsettled' = Unsettled \ {Oldest}
                            /\ Cardinality(Unsettled') = Cardinality(Unsettled) - 1
           /\ ~Issuing /\ ~SettleStep => Unsettled' = Unsettled
<1>0. IsFiniteSet(Unsettled) /\ status \in [Keys -> Statuses]
  BY DEF BoundInv, TypeOK
<1>1. ASSUME Issuing
      PROVE  /\ Head(ch).key \notin Unsettled
             /\ Unsettled' = Unsettled \cup {Head(ch).key}
  <2>1. Issues(Head(ch).key)
    BY <1>1, IssueFacts DEF Issuing
  <2>2. QED
    BY <1>0, <2>1 DEF Issues, Unsettled
<1>2. ASSUME SettleStep
      PROVE  Oldest \in Unsettled /\ Unsettled' = Unsettled \ {Oldest}
  <2>1. ring # <<>> /\ ~consErr
    BY <1>2 DEF SettleStep, SettleConfirmed, SettleRefused, Settling, PhaseInv
  <2>2. Oldest \in Keys /\ Oldest = ring[1].key /\ Len(ring) \in Nat /\ Len(ring) >= 1
    BY <2>1, OldestFacts
  <2>3. Oldest \in Unsettled
    BY <2>1, <2>2 DEF RingInv
  <2>4. status' = [status EXCEPT ![Oldest] = "none"]
    BY <1>2 DEF SettleStep, SettleConfirmed, SettleRefused
  <2>5. QED
    BY <1>0, <2>2, <2>3, <2>4 DEF Unsettled
<1>3. ASSUME ~Issuing, ~SettleStep PROVE Unsettled' = Unsettled
  <2>1. CASE RetryBare
    <3>1. ring # <<>>
      BY <2>1 DEF RetryBare, Settling, PhaseInv
    <3>2. Oldest \in Keys
      BY <3>1, OldestFacts
    <3>3. status' = [status EXCEPT ![Oldest] = "sent"] /\ status[Oldest] = "refused"
      BY <2>1 DEF RetryBare, isServerReject
    <3>4. QED
      BY <1>0, <3>2, <3>3 DEF Unsettled
  <2>2. CASE Server
    BY <1>0, <2>2 DEF Server, ServerStores, ServerRefuses, Unsettled
  <2>3. CASE status' = status
    BY <2>3 DEF Unsettled
  <2>4. QED
    BY <1>3, <2>1, <2>2, <2>3
    DEF Next, Configured, Producer, Consumer, Fault, Settle, Finished, vars, Issuing,
        SettleStep, prodVars, consVars, ReadBody, Push, GiveUp, StreamEnds, StreamBreaks,
        Vanish, Cancel, Drain, BeginAppendFails, SettleBroken, RangeEnds,
        FlushRecords, FlushFails, Return
<1>4. Issuing => /\ IsFiniteSet(Unsettled')
                 /\ Cardinality(Unsettled') = Cardinality(Unsettled) + 1
  BY <1>0, <1>1, FS_AddElement
<1>5. SettleStep => /\ IsFiniteSet(Unsettled')
                    /\ Cardinality(Unsettled') = Cardinality(Unsettled) - 1
  BY <1>0, <1>2, FS_RemoveElement
<1>6. IsFiniteSet(Unsettled')
  <2>1. CASE Issuing
    BY <1>4, <2>1
  <2>2. CASE SettleStep
    BY <1>5, <2>2
  <2>3. CASE ~Issuing /\ ~SettleStep
    BY <1>0, <1>3, <2>3
  <2>4. QED
    BY <2>1, <2>2, <2>3
<1>7. QED
  BY <1>1, <1>2, <1>3, <1>4, <1>5, <1>6

(* The ring holds the appends in flight, each once.                        *)
LEMMA RingStep ==
    ASSUME TypeOK, ApartInv, FreshInv, RingInv, BoundInv, PhaseInv, [Next]_vars
    PROVE  RingInv'
<1>1. CASE BeginAppend
  <2> DEFINE k == Head(ch).key
             r == [key |-> k, hadKeywords |-> k \in Labelled]
  <2>1. /\ k \notin Unsettled
        /\ Unsettled' = Unsettled \cup {k}
        /\ Cardinality(Unsettled') = Cardinality(Unsettled) + 1
    BY <1>1, UnsettledStep DEF Issuing
  <2>2. k \in Keys /\ ring' = Append(ring, r) /\ ~consErr
    BY <1>1, ApartStep DEF BeginAppend, Receives
  <2>3. r \in Issued /\ r.key = k
    BY <2>2 DEF Issued
  <2>4. ring \in Seq(Issued) /\ Len(ring) \in Nat
    BY DEF TypeOK, Issued
  <2> HIDE DEF r, k
  <2>5. /\ Len(ring') = Len(ring) + 1
        /\ \A i \in 1 .. Len(ring) : ring'[i] = ring[i]
        /\ ring'[Len(ring) + 1] = r
    BY <2>2, <2>3, <2>4, AppendFacts
  <2>6. \A i \in 1 .. Len(ring') : i \in 1 .. Len(ring) \/ i = Len(ring) + 1
    BY <2>4, <2>5
  <2>7. /\ \A i \in 1 .. Len(ring') : ring'[i].key \in Unsettled'
        /\ \A i, j \in 1 .. Len(ring') : ring'[i].key = ring'[j].key => i = j
    BY <2>1, <2>2, <2>3, <2>5, <2>6 DEF RingInv
  <2>8. ASSUME NEW u \in Unsettled' PROVE \E i \in 1 .. Len(ring') : ring'[i].key = u
    <3>1. CASE u = k
      BY <2>3, <2>4, <2>5, <3>1
    <3>2. CASE u \in Unsettled
      <4>1. PICK i \in 1 .. Len(ring) : ring[i].key = u
        BY <2>2, <3>2 DEF RingInv
      <4>2. i \in 1 .. Len(ring') /\ ring'[i].key = u
        BY <2>4, <2>5, <4>1
      <4>3. QED
        BY <4>2
    <3>3. QED
      BY <2>1, <2>8, <3>1, <3>2
  <2>9. QED
    BY <2>1, <2>2, <2>5, <2>7, <2>8 DEF RingInv
<1>2. CASE SettleConfirmed
  <2>1. ring # <<>> /\ ~consErr /\ ring' = Tail(ring)
    BY <1>2 DEF SettleConfirmed, Settling, PhaseInv
  <2>2. /\ Oldest \in Unsettled
        /\ Unsettled' = Unsettled \ {Oldest}
        /\ Cardinality(Unsettled') = Cardinality(Unsettled) - 1
    BY <1>2, UnsettledStep DEF SettleStep
  <2>3. /\ Oldest = ring[1].key /\ Len(ring) \in Nat /\ Len(ring) >= 1
        /\ Len(ring') = Len(ring) - 1
        /\ \A i \in 1 .. Len(ring) - 1 : ring'[i] = ring[i + 1]
    BY <2>1, OldestFacts
  <2>4. /\ \A i \in 1 .. Len(ring') : ring'[i].key \in Unsettled'
        /\ \A i, j \in 1 .. Len(ring') : ring'[i].key = ring'[j].key => i = j
    BY <2>1, <2>2, <2>3 DEF RingInv
  <2>5. ASSUME NEW u \in Unsettled' PROVE \E i \in 1 .. Len(ring') : ring'[i].key = u
    <3>1. PICK i \in 1 .. Len(ring) : ring[i].key = u
      BY <2>1, <2>2, <2>5 DEF RingInv
    <3>2. i # 1
      BY <2>2, <2>3, <2>5, <3>1
    <3>3. i - 1 \in 1 .. Len(ring') /\ ring'[i - 1] = ring[i]
      BY <2>3, <3>1, <3>2
    <3>4. QED
      BY <3>1, <3>3
  <2>6. QED
    BY <2>1, <2>2, <2>3, <2>4, <2>5 DEF RingInv
<1>3. CASE RetryBare
  <2>1. ring # <<>> /\ ~consErr
    BY <1>3 DEF RetryBare, Settling, PhaseInv
  <2>2. ring \in Seq(Issued) /\ ring[1] \in Issued /\ Len(ring) \in Nat /\ Len(ring) >= 1
    BY <2>1, OldestFacts DEF TypeOK, Issued
  <2>3. ring' = [ring EXCEPT ![1] = [ring[1] EXCEPT !.hadKeywords = FALSE]]
    BY <1>3 DEF RetryBare
  <2>4. [ring[1] EXCEPT !.hadKeywords = FALSE].key = ring[1].key
    BY <2>2 DEF Issued
  <2>5. Len(ring') = Len(ring) /\ \A i \in 1 .. Len(ring) : ring'[i].key = ring[i].key
    BY <2>2, <2>3, <2>4
  <2>6. ~Issuing /\ ~SettleStep
    BY <1>3 DEF RetryBare, Issuing, SettleStep, BeginAppend, BeginAppendFails,
                SettleConfirmed, SettleRefused, isServerReject, Settling
  <2>7. Unsettled' = Unsettled
    BY <2>6, UnsettledStep
  <2>8. QED
    BY <2>1, <2>5, <2>7 DEF RingInv
<1>4. CASE consErr'
  BY <1>4 DEF RingInv
<1>5. CASE ~Issuing /\ ~SettleStep /\ ring' = ring /\ consErr' = consErr
  <2>1. Unsettled' = Unsettled
    BY <1>5, UnsettledStep
  <2>2. QED
    BY <1>5, <2>1 DEF RingInv
<1>6. ASSUME ~BeginAppend, ~SettleConfirmed, ~RetryBare, ~consErr'
      PROVE  ~Issuing /\ ~SettleStep /\ ring' = ring /\ consErr' = consErr
  BY <1>6
  DEF Next, Configured, Producer, Consumer, Fault, Settle, Server, Finished, vars, Issuing,
      SettleStep, prodVars, consVars, ReadBody, Push, GiveUp, StreamEnds, StreamBreaks,
      Vanish, Cancel, Drain, BeginAppendFails, SettleBroken, SettleRefused, RangeEnds,
      FlushRecords, FlushFails, Return, ServerStores, ServerRefuses
<1>7. QED
  BY <1>1, <1>2, <1>3, <1>4, <1>5, <1>6

(* The records buffered: one more, none, or the same.                      *)
LEMMA RecordsStep ==
    ASSUME TypeOK, IsFiniteSet(records), [Next]_vars
    PROVE  /\ IsFiniteSet(records') /\ Cardinality(records') \in Nat
           /\ Cardinality(records) \in Nat
           /\ SettleConfirmed => Cardinality(records') <= Cardinality(records) + 1
           /\ ~SettleConfirmed => Cardinality(records') <= Cardinality(records)
           /\ ~SettleConfirmed /\ ~FlushRecords => records' = records
<1>1. ASSUME SettleConfirmed
      PROVE  IsFiniteSet(records') /\ Cardinality(records') <= Cardinality(records) + 1
  <2>1. records' = records \cup {Oldest}
    BY <1>1 DEF SettleConfirmed
  <2>2. Cardinality(records) \in Nat
    BY FS_CardinalityType
  <2>3. QED
    BY <2>1, <2>2, FS_AddElement
<1>2. ASSUME FlushRecords
      PROVE  IsFiniteSet(records') /\ Cardinality(records') = 0
  <2>1. records' = {}
    BY <1>2 DEF FlushRecords
  <2>2. QED
    BY <2>1, FS_EmptySet
<1>3. ASSUME ~SettleConfirmed, ~FlushRecords
      PROVE  records' = records
  BY <1>3
  DEF Next, Configured, Producer, Consumer, Fault, Settle, Server, Finished, vars,
      prodVars, consVars, ReadBody, Push, GiveUp, StreamEnds, StreamBreaks,
      Vanish, Cancel, Drain, BeginAppend, BeginAppendFails, RetryBare, SettleBroken,
      SettleRefused, RangeEnds, FlushFails, Return, ServerStores, ServerRefuses
<1>4. IsFiniteSet(records')
  BY <1>1, <1>2, <1>3
<1>5. Cardinality(records') \in Nat /\ Cardinality(records) \in Nat
  BY <1>4, FS_CardinalityType
<1>6. ~SettleConfirmed => ~FlushRecords \/ Cardinality(records') = 0
  BY <1>2
<1>7. ~SettleConfirmed => Cardinality(records') <= Cardinality(records)
  BY <1>3, <1>5, <1>6
<1>8. QED
  BY <1>1, <1>3, <1>4, <1>5, <1>7

(* Neither the ring nor the records outgrow their limits.                  *)
LEMMA BoundStep ==
    ASSUME TypeOK, ApartInv, FreshInv, RingInv, BoundInv, PhaseInv, [Next]_vars
    PROVE  BoundInv'
<1>0. /\ ringLimit \in Nat /\ ringLimit >= 1 /\ flushLimit \in Nat /\ flushLimit >= 1
      /\ ringLimit' = ringLimit /\ flushLimit' = flushLimit
  <2>1. destGuard' = destGuard /\ destGuard \in BOOLEAN
    BY DEF Next, Configured, Finished, vars, TypeOK
  <2>2. QED
    BY <2>1, PipelineAssumption DEF ringLimit, flushLimit
<1>1. IsFiniteSet(Unsettled) /\ IsFiniteSet(records) /\ IsFiniteSet(Unsettled')
  BY UnsettledStep DEF BoundInv
<1>2. /\ Cardinality(Unsettled) \in Nat /\ Cardinality(Unsettled') \in Nat
      /\ Len(ring) \in Nat
  BY <1>1, FS_CardinalityType DEF TypeOK
<1>3. /\ IsFiniteSet(records') /\ Cardinality(records') \in Nat
      /\ Cardinality(records) \in Nat
      /\ SettleConfirmed => Cardinality(records') <= Cardinality(records) + 1
      /\ ~SettleConfirmed => Cardinality(records') <= Cardinality(records)
      /\ ~SettleConfirmed /\ ~FlushRecords => records' = records
  BY <1>1, RecordsStep
<1> DEFINE u == Cardinality(Unsettled)  v == Cardinality(Unsettled')
           m == Cardinality(records)    n == Cardinality(records')
<1>4. v + n <= ringLimit + flushLimit - 1
  <2>0. u + m <= ringLimit + flushLimit - 1
    BY DEF BoundInv
  <2>1. CASE Issuing
    <3>1. ~consErr /\ consumer = "receive"
      BY <2>1 DEF Issuing, BeginAppend, BeginAppendFails
    <3>2. u = Len(ring) /\ Len(ring) < ringLimit /\ m < flushLimit
      BY <3>1 DEF RingInv, BoundInv
    <3>3. v = u + 1
      BY <2>1, UnsettledStep
    <3>4. ~SettleConfirmed
      BY <3>1 DEF SettleConfirmed, Settling
    <3> HIDE DEF u, v, m, n
    <3>5. n <= m
      BY <1>3, <3>4 DEF n, m
    <3>6. u \in Nat /\ m \in Nat /\ n \in Nat
      BY <1>2, <1>3 DEF u, m, n
    <3>7. QED
      BY <1>0, <3>2, <3>3, <3>5, <3>6
  <2>2. CASE SettleStep
    <3>1. v = u - 1
      BY <2>2, UnsettledStep
    <3>2. n <= m + 1
      BY <1>3
    <3>3. QED
      BY <1>0, <1>2, <1>3, <2>0, <3>1, <3>2
  <2>3. CASE ~Issuing /\ ~SettleStep
    <3>1. v = u
      BY <2>3, UnsettledStep
    <3>2. n <= m
      BY <1>3, <2>3 DEF SettleStep
    <3>3. QED
      BY <1>0, <1>2, <1>3, <2>0, <3>1, <3>2
  <2>4. QED
    BY <2>1, <2>2, <2>3
<1>5. ~consErr' /\ consumer' \in {"receive", "flush"} => Len(ring') < ringLimit
  <2> SUFFICES ASSUME ~consErr', consumer' \in {"receive", "flush"}
               PROVE  Len(ring') < ringLimit
    OBVIOUS
  <2>1. CASE BeginAppend
    <3>1. consumer' = IF Len(ring') >= ringLimit THEN "settle" ELSE "receive"
      BY <2>1 DEF BeginAppend
    <3>2. Len(ring') = v /\ v \in Nat
      <4>1. RingInv'
        BY RingStep
      <4>2. QED
        BY <1>2, <4>1 DEF RingInv
    <3>3. QED
      BY <1>0, <3>1, <3>2
  <2>2. CASE SettleConfirmed
    <3>1. ring # <<>> /\ ring' = Tail(ring) /\ Len(ring) <= ringLimit
      BY <2>2 DEF SettleConfirmed, Settling, PhaseInv, TypeOK
    <3>2. QED
      BY <1>0, <3>1, OldestFacts
  <2>3. CASE RangeEnds
    <3>1. consumer = "receive" /\ ring' = ring /\ ~consErr
      BY <2>3 DEF RangeEnds
    <3>2. QED
      BY <3>1 DEF BoundInv
  <2>4. CASE FlushRecords
    <3>1. consumer = "flush" /\ ring' = ring /\ ~consErr
      BY <2>4 DEF FlushRecords, AfterFlush
    <3>2. QED
      BY <3>1 DEF BoundInv
  <2>5. CASE UNCHANGED <<consumer, ring, consErr>>
    BY <2>5 DEF BoundInv
  <2>6. CASE RetryBare
    BY <2>6 DEF RetryBare, Settling
  <2>7. QED
    BY <2>1, <2>2, <2>3, <2>4, <2>5, <2>6
    DEF Next, Configured, Producer, Consumer, Fault, Settle, Server, Finished, vars,
        prodVars, consVars, ReadBody, Push, GiveUp, StreamEnds, StreamBreaks,
        Vanish, Cancel, Drain, BeginAppendFails, SettleBroken,
        SettleRefused, FlushFails, Return, ServerStores, ServerRefuses
<1>6. ~consErr' /\ consumer' # "flush" => n < flushLimit
  <2> SUFFICES ASSUME ~consErr', consumer' # "flush"
               PROVE  n < flushLimit
    OBVIOUS
  <2>1. CASE SettleConfirmed
    <3>1. consumer' = IF n >= flushLimit THEN "flush" ELSE "receive"
      BY <1>0, <2>1 DEF SettleConfirmed, FlushDue
    <3>2. QED
      BY <1>0, <1>3, <3>1
  <2>2. CASE FlushRecords
    <3>1. records' = {}
      BY <2>2 DEF FlushRecords
    <3>2. n = 0
      BY <3>1, FS_EmptySet
    <3>3. QED
      BY <1>0, <3>2
  <2>3. CASE ~SettleConfirmed /\ ~FlushRecords
    <3>1. records' = records
      BY <1>3, <2>3
    <3>2. ~consErr /\ consumer # "flush"
      BY <2>3
      DEF Next, Configured, Producer, Consumer, Fault, Settle, Server, Finished, vars,
          prodVars, consVars, ReadBody, Push, GiveUp, StreamEnds, StreamBreaks,
          Vanish, Cancel, Drain, BeginAppend, BeginAppendFails, RetryBare, SettleBroken,
          SettleRefused, RangeEnds, FlushFails, Return, ServerStores, ServerRefuses, Settling
    <3>3. QED
      BY <3>1, <3>2 DEF BoundInv
  <2>4. QED
    BY <2>1, <2>2, <2>3
<1>7. QED
  BY <1>0, <1>1, <1>3, <1>4, <1>5, <1>6 DEF BoundInv

-----------------------------------------------------------------------------
(* The consumer's loop and the end of the pipeline.                        *)

(* What each phase of the consumer may assume.                             *)
LEMMA PhaseStep ==
    ASSUME TypeOK, RingInv, BoundInv, PhaseInv, EndInv, [Next]_vars,
           flushLimit' = flushLimit
    PROVE  PhaseInv'
<1>1. CASE ReadBody \/ Push \/ GiveUp \/ StreamEnds \/ StreamBreaks \/ Vanish
  <2>1. ~closed /\ UNCHANGED <<consumer, consErr, ring, records>>
    BY <1>1 DEF ReadBody, Push, GiveUp, StreamEnds, StreamBreaks, Vanish, Streaming, consVars
  <2>2. QED
    BY <2>1 DEF PhaseInv
<1>2. CASE Drain \/ BeginAppendFails
  BY <1>2 DEF Drain, BeginAppendFails, PhaseInv, consVars
<1>3. CASE BeginAppend
  <2>1. ring' # <<>>
    <3>1. ring \in Seq(Issued)
      BY DEF TypeOK, Issued
    <3>2. ring' = Append(ring, [key |-> Head(ch).key, hadKeywords |-> Head(ch).key \in Labelled])
      BY <1>3 DEF BeginAppend
    <3>3. QED
      BY <3>1, <3>2
  <2>2. ~consErr' /\ consumer' \in {"settle", "receive"}
    BY <1>3 DEF BeginAppend
  <2>3. QED
    BY <2>1, <2>2 DEF PhaseInv
<1>4. CASE SettleConfirmed
  <2>1. ~consErr' /\ consumer' \in {"flush", "receive"}
    BY <1>4 DEF SettleConfirmed, PhaseInv, Settling
  <2>2. consumer' = "flush" => Cardinality(records') >= flushLimit'
    BY <1>4 DEF SettleConfirmed, FlushDue
  <2>3. QED
    BY <2>1, <2>2 DEF PhaseInv
<1>5. CASE RetryBare
  <2>1. ring # <<>> /\ ring \in Seq(Issued)
    BY <1>5 DEF RetryBare, Settling, PhaseInv, TypeOK, Issued
  <2>2. Len(ring) >= 1 /\ Len(ring) \in Nat
    BY <2>1, OldestFacts
  <2>3. ring' # <<>>
    <3>1. ring' = [ring EXCEPT ![1] = [ring[1] EXCEPT !.hadKeywords = FALSE]]
      BY <1>5 DEF RetryBare
    <3>2. DOMAIN ring' = 1 .. Len(ring) /\ 1 \in DOMAIN ring'
      BY <2>1, <2>2, <3>1
    <3>3. QED
      BY <3>2
  <2>4. consumer' = "settle" /\ ~consErr'
    BY <1>5 DEF RetryBare, Settling, PhaseInv
  <2>5. QED
    BY <2>3, <2>4 DEF PhaseInv
<1>6. CASE SettleRefused \/ SettleBroken
  <2>1. consumer' = "receive"
    BY <1>6 DEF SettleRefused, SettleBroken
  <2>2. QED
    BY <2>1 DEF PhaseInv
<1>7. CASE RangeEnds
  BY <1>7 DEF RangeEnds, RingLeft, PhaseInv, prodVars
<1>8. CASE FlushRecords
  BY <1>8 DEF FlushRecords, AfterFlush, PhaseInv, prodVars
<1>9. CASE FlushFails
  BY <1>9 DEF FlushFails, AfterFlush, PhaseInv, prodVars
<1>10. CASE Cancel \/ Return \/ Server \/ UNCHANGED vars
  BY <1>10 DEF Cancel, Return, Server, ServerStores, ServerRefuses, vars,
               PhaseInv, prodVars, consVars
<1>11. QED
  BY <1>1, <1>2, <1>3, <1>4, <1>5, <1>6, <1>7, <1>8, <1>9, <1>10
  DEF Next, Configured, Producer, Consumer, Fault, Settle, Finished

(* The producer and the consumer end in step.                              *)
LEMMA EndStep ==
    ASSUME TypeOK, PhaseInv, EndInv, [Next]_vars
    PROVE  EndInv'
<1>1. CASE ReadBody \/ Push \/ GiveUp \/ StreamEnds \/ StreamBreaks \/ Vanish
  BY <1>1 DEF ReadBody, Push, GiveUp, StreamEnds, StreamBreaks, Vanish, Streaming,
              closeCh, EndInv, consVars
<1>2. CASE Drain \/ BeginAppend \/ BeginAppendFails \/ SettleConfirmed \/ RetryBare
           \/ SettleRefused \/ SettleBroken \/ RangeEnds \/ FlushRecords \/ FlushFails
  <2>1. consumer # "done" /\ result' = result /\ UNCHANGED prodVars
    BY <1>2 DEF Drain, BeginAppend, BeginAppendFails, SettleConfirmed, RetryBare,
                SettleRefused, SettleBroken, RangeEnds, FlushRecords, FlushFails, Settling
  <2>2. QED
    BY <2>1 DEF EndInv, prodVars
<1>3. CASE Return
  BY <1>3 DEF Return, EndInv, prodVars, consVars
<1>4. CASE Cancel \/ Server \/ UNCHANGED vars
  BY <1>4 DEF Cancel, Server, ServerStores, ServerRefuses, vars, EndInv, prodVars, consVars
<1>5. QED
  BY <1>1, <1>2, <1>3, <1>4
  DEF Next, Configured, Producer, Consumer, Fault, Settle, Finished

(* No candidate is forgotten until the append side fails.                  *)
LEMMA AccountedStep ==
    ASSUME TypeOK, ApartInv, FreshInv, RingInv, BoundInv, PhaseInv, AccountedInv, [Next]_vars
    PROVE  AccountedInv'
<1> SUFFICES ASSUME ~consErr',
                    NEW c \in Window
             PROVE  (c \in vanished \cup Left \/ c.key \in Unsettled \cup records \cup copied)'
  BY DEF AccountedInv
<1>1. ~consErr
  BY DEF Next, Configured, Producer, Consumer, Fault, Settle, Server, Finished, vars,
         prodVars, consVars, ReadBody, Push, GiveUp, StreamEnds, StreamBreaks,
         Vanish, Cancel, Drain, BeginAppend, BeginAppendFails, SettleConfirmed, RetryBare,
         SettleBroken, SettleRefused, RangeEnds, FlushRecords, FlushFails, Return,
         ServerStores, ServerRefuses
<1>2. c \in vanished \cup Left \/ c.key \in Unsettled \cup records \cup copied
  BY <1>1 DEF AccountedInv
<1>3. CASE BeginAppend
  <2>1. /\ Left' = Left \ {Head(ch)}
        /\ Unsettled' = Unsettled \cup {Head(ch).key}
        /\ UNCHANGED <<vanished, records, copied>>
    BY <1>3, ApartStep, UnsettledStep DEF Receives, Issuing, BeginAppend, prodVars
  <2>2. QED
    BY <1>2, <2>1
<1>4. CASE SettleConfirmed
  <2>1. /\ Left' = Left
        /\ Unsettled' = Unsettled \ {Oldest}
        /\ records' = records \cup {Oldest}
        /\ UNCHANGED <<vanished, copied>>
    BY <1>4, ApartStep, UnsettledStep
    DEF SettleConfirmed, SettleStep, KeepsBuffers, prodVars
  <2>2. QED
    BY <1>2, <2>1
<1>5. CASE Vanish
  <2>1. ~Issuing /\ ~SettleStep
    BY <1>5 DEF Vanish, Issuing, SettleStep, BeginAppend, BeginAppendFails,
                SettleConfirmed, SettleRefused, prodVars
  <2>2. /\ \E d \in Left : vanished' = vanished \cup {d} /\ Left' = Left \ {d}
        /\ Unsettled' = Unsettled /\ UNCHANGED <<records, copied>>
    BY <1>5, <2>1, ApartStep, UnsettledStep DEF Vanish, consVars
  <2>3. QED
    BY <1>2, <2>2
<1>6. CASE FlushRecords
  <2>1. ~Issuing /\ ~SettleStep
    BY <1>6 DEF FlushRecords, Issuing, SettleStep, BeginAppend, BeginAppendFails,
                SettleConfirmed, SettleRefused, Settling
  <2>2. /\ Left' = Left /\ Unsettled' = Unsettled
        /\ copied' = copied \cup records /\ vanished' = vanished
    BY <1>6, <2>1, ApartStep, UnsettledStep DEF FlushRecords, KeepsBuffers, prodVars
  <2>3. QED
    BY <1>2, <2>2
<1>7. CASE ~BeginAppend /\ ~SettleConfirmed /\ ~Vanish /\ ~FlushRecords
  <2>1. /\ ReadBody \/ Push \/ KeepsBuffers
        /\ ~Issuing /\ ~SettleStep
        /\ UNCHANGED <<vanished, records, copied>>
    BY <1>1, <1>7
    DEF Next, Configured, Producer, Consumer, Fault, Settle, Server, Finished, vars,
        prodVars, consVars, ReadBody, Push, GiveUp, StreamEnds, StreamBreaks,
        Cancel, Drain, BeginAppendFails, RetryBare, SettleBroken, SettleRefused,
        RangeEnds, FlushFails, Return, ServerStores, ServerRefuses,
        Issuing, SettleStep, KeepsBuffers
  <2>2. Left' = Left /\ Unsettled' = Unsettled
    BY <2>1, ApartStep, UnsettledStep
  <2>3. QED
    BY <1>2, <2>1, <2>2
<1>8. QED
  BY <1>3, <1>4, <1>5, <1>6, <1>7

-----------------------------------------------------------------------------
(* The theorems.                                                           *)

(* The invariant holds before the first message is read.                   *)
LEMMA PipelineInit ==
    ASSUME Init
    PROVE  PipelineInv
<1>1. Unsettled = {} /\ IsFiniteSet({}) /\ Cardinality({}) = 0 /\ Len(<<>>) = 0
  BY FS_EmptySet DEF Init, Unsettled
<1>2. Left = Window
  BY DEF Init, Left, Range
<1>3. ringLimit \in Nat /\ ringLimit >= 1 /\ flushLimit \in Nat /\ flushLimit >= 1
  BY PipelineAssumption DEF Init, ringLimit, flushLimit
<1>4. TypeOK
  <2>1. dest \in [Keys -> 0 .. MaxCopies] /\ status \in [Keys -> Statuses]
    BY PipelineAssumption DEF Init, Statuses
  <2>2. hand = {} /\ Cardinality(hand) <= 1
    BY <1>1 DEF Init
  <2>3. /\ ch \in Seq(Window) /\ Len(ch) <= PipelineDepth
        /\ ring \in Seq([key : Keys, hadKeywords : BOOLEAN]) /\ Len(ring) <= ringLimit
    BY <1>3, PipelineAssumption DEF Init
  <2>4. QED
    BY <2>1, <2>2, <2>3 DEF Init, TypeOK
<1>5. ApartInv /\ PhaseInv /\ EndInv
  BY DEF Init, ApartInv, PhaseInv, EndInv
<1>6. FreshInv /\ ServerInv
  BY <1>2, PipelineAssumption DEF Init, FreshInv, ServerInv
<1>7. RingInv
  BY <1>1 DEF Init, RingInv
<1>8. BoundInv
  <2>1. records = {} /\ ring = <<>> /\ consumer = "receive"
    BY DEF Init
  <2>2. QED
    BY <1>1, <1>3, <2>1 DEF BoundInv
<1>9. AccountedInv
  BY <1>2 DEF AccountedInv
<1>10. QED
  BY <1>4, <1>5, <1>6, <1>7, <1>8, <1>9 DEF PipelineInv

(* Every step keeps the invariant.                                         *)
LEMMA PipelineStep ==
    ASSUME PipelineInv, [Next]_vars
    PROVE  PipelineInv'
<1>1. /\ TypeOK /\ ApartInv /\ FreshInv /\ ServerInv /\ RingInv /\ BoundInv
      /\ PhaseInv /\ EndInv /\ AccountedInv
  BY DEF PipelineInv
<1>2. /\ consumer = "settle" => ring # <<>>
      /\ ~consErr /\ consumer = "receive" => Len(ring) < ringLimit
  BY <1>1 DEF PhaseInv, BoundInv
<1>3. destGuard' = destGuard /\ flushLimit' = flushLimit
  BY DEF Next, Configured, Finished, vars, flushLimit
<1>4. TypeOK'
  BY <1>1, <1>2, TypeStep
<1>5. ApartInv'
  BY <1>1, ApartStep
<1>6. FreshInv' /\ ServerInv'
  BY <1>1, <1>2, ServerStep
<1>7. RingInv' /\ BoundInv'
  BY <1>1, RingStep, BoundStep
<1>8. PhaseInv' /\ EndInv'
  BY <1>1, <1>3, PhaseStep, EndStep
<1>9. AccountedInv'
  BY <1>1, AccountedStep
<1>10. QED
  BY <1>4, <1>5, <1>6, <1>7, <1>8, <1>9 DEF PipelineInv

(* The inductive invariant holds throughout.                               *)
LEMMA PipelineInvariant == Spec => []PipelineInv
<1>1. PipelineInv /\ [Next]_vars => PipelineInv'
  BY PipelineStep
<1>2. QED
  BY PipelineInit, <1>1, PTL DEF Spec

(* Every variable of the pipeline keeps its type, the channel its capacity *)
(* and the ring its limit (reconcile.go:370-377, 461-467).                 *)
THEOREM PipelineTypeCorrect == Spec => []TypeOK
<1>1. PipelineInv => TypeOK
  BY DEF PipelineInv
<1>2. QED
  BY PipelineInvariant, <1>1, PTL

(* No fault and no interleaving makes the server store a message twice:    *)
(* the retry without keywords follows a refusal only (reconcile.go:406-419).*)
THEOREM StoredAtMostOnceCorrect == Spec => []StoredAtMostOnce
<1>1. PipelineInv => StoredAtMostOnce
  BY DEF PipelineInv, ServerInv, StoredAtMostOnce
<1>2. QED
  BY PipelineInvariant, <1>1, PTL

(* What the server may hold and the store does not know of is bounded by   *)
(* one ring and one batch, with the guard off by one message, for every    *)
(* appendRing and recordFlushSize (reconcile.go:347-352, 366-371).         *)
THEOREM CrashWindowCorrect == Spec => []CrashWindow
<1>1. ASSUME PipelineInv PROVE CrashWindow
  <2>1. /\ IsFiniteSet(Unsettled) /\ IsFiniteSet(records)
        /\ Cardinality(Unsettled) + Cardinality(records) <= ringLimit + flushLimit - 1
        /\ destGuard \in BOOLEAN
    BY <1>1 DEF PipelineInv, BoundInv, TypeOK
  <2>2. /\ Cardinality(Unsettled \cup records) =
             Cardinality(Unsettled) + Cardinality(records) - Cardinality(Unsettled \cap records)
        /\ Cardinality(Unsettled) \in Nat /\ Cardinality(records) \in Nat
    BY <2>1, FS_Union, FS_CardinalityType
  <2>3. Cardinality(Unsettled \cap records) \in Nat
    <3>1. IsFiniteSet(Unsettled \cap records)
      BY <2>1, FS_Subset
    <3>2. QED
      BY <3>1, FS_CardinalityType
  <2>4. Cardinality(Unsettled \cup records) <= ringLimit + flushLimit - 1
    <3>1. ringLimit \in Nat /\ flushLimit \in Nat
      BY <2>1, PipelineAssumption DEF ringLimit, flushLimit
    <3>2. QED
      BY <2>1, <2>2, <2>3, <3>1
  <2>5. ringLimit + flushLimit - 1 = IF destGuard THEN AppendRing + RecordFlushSize - 1 ELSE 1
    BY <2>1, PipelineAssumption DEF ringLimit, flushLimit
  <2>6. QED
    BY <2>4, <2>5 DEF CrashWindow
<1>2. QED
  BY PipelineInvariant, <1>1, PTL

(* A nil result means that every candidate is recorded or had no body, so  *)
(* the caller may move the high-water mark (reconcile.go:444, 488-496).    *)
THEOREM OkMeansRecordedCorrect == Spec => []OkMeansRecorded
<1>1. ASSUME PipelineInv PROVE OkMeansRecorded
  <2> SUFFICES ASSUME result = "ok", NEW c \in Window
               PROVE  c.key \in copied \/ c \in vanished
    BY DEF OkMeansRecorded
  <2>1. closed /\ consumer = "done" /\ ~consErr /\ ~prodErr
    BY <1>1 DEF PipelineInv, EndInv
  <2>2. unread = {} /\ hand = {} /\ ch = <<>> /\ ring = <<>> /\ records = {}
    BY <1>1, <2>1 DEF PipelineInv, EndInv, PhaseInv
  <2>3. Left = {}
    BY <2>2 DEF Left, Range
  <2>4. Unsettled = {}
    BY <1>1, <2>1, <2>2 DEF PipelineInv, RingInv
  <2>5. QED
    BY <1>1, <2>1, <2>2, <2>3, <2>4 DEF PipelineInv, AccountedInv
<1>2. QED
  BY PipelineInvariant, <1>1, PTL

-----------------------------------------------------------------------------
(* The refinement: every step of the pipeline is a step of WindowCopy, or  *)
(* changes nothing WindowCopy sees.                                        *)

AbstractVars == <<Left, Unsettled, Landed, records, copied, dest, Outcome>>

AbstractStep == IF destGuard THEN Guarded!CopyStep ELSE Unguarded!CopyStep

(* WindowCopy counts with the same operator as the pipeline.               *)
LEMMA SameCardinality ==
    ASSUME NEW S
    PROVE  /\ Guarded!Cardinality(S) = Cardinality(S)
           /\ Unguarded!Cardinality(S) = Cardinality(S)
  BY DEF Cardinality, Guarded!Cardinality, Unguarded!Cardinality

(* The steps of WindowCopy, said of the pipeline's state, whichever way    *)
(* the guard is set.                                                       *)
LEMMA AsSend ==
    ASSUME NEW c \in Left, Outcome \in {"running", "stopped"},
           Cardinality(Unsettled) < ringLimit, Cardinality(records) < flushLimit,
           Left' = Left \ {c}, Unsettled' = Unsettled \cup {c.key},
           UNCHANGED <<Landed, records, copied, dest, Outcome>>
    PROVE  AbstractStep
<1>1. ASSUME destGuard PROVE Guarded!Send(c)
  BY <1>1, SameCardinality
  DEF Guarded!Send, Guarded!MaySend, Guarded!Appending, Guarded!ringLimit, ringLimit,
         Guarded!flushLimit, flushLimit
<1>2. ASSUME ~destGuard PROVE Unguarded!Send(c)
  BY <1>2, SameCardinality
  DEF Unguarded!Send, Unguarded!MaySend, Unguarded!Appending, Unguarded!ringLimit,
         ringLimit, Unguarded!flushLimit, flushLimit
<1>3. QED
  BY <1>1, <1>2 DEF AbstractStep, Guarded!CopyStep, Unguarded!CopyStep

(* A refused send is a SendFails of the abstract copy.                     *)
LEMMA AsSendFails ==
    ASSUME NEW c \in Left, Outcome \in {"running", "stopped"},
           Cardinality(Unsettled) < ringLimit, Cardinality(records) < flushLimit,
           Left' = Left \ {c}, Unsettled' \in {Unsettled, Unsettled \cup {c.key}},
           Outcome' = "failed", UNCHANGED <<Landed, records, copied, dest>>
    PROVE  AbstractStep
<1>1. ASSUME destGuard PROVE Guarded!SendFails(c)
  BY <1>1, SameCardinality
  DEF Guarded!SendFails, Guarded!MaySend, Guarded!Appending, Guarded!ringLimit,
         ringLimit, Guarded!flushLimit, flushLimit
<1>2. ASSUME ~destGuard PROVE Unguarded!SendFails(c)
  BY <1>2, SameCardinality
  DEF Unguarded!SendFails, Unguarded!MaySend, Unguarded!Appending,
         Unguarded!ringLimit, ringLimit, Unguarded!flushLimit, flushLimit
<1>3. QED
  BY <1>1, <1>2 DEF AbstractStep, Guarded!CopyStep, Unguarded!CopyStep

(* A candidate passed over is a Skip of the abstract copy.                 *)
LEMMA AsSkip ==
    ASSUME NEW c \in Left, Outcome \notin {"ok", "error"}, Left' = Left \ {c},
           UNCHANGED <<Unsettled, Landed, records, copied, dest, Outcome>>
    PROVE  AbstractStep
<1>1. ASSUME destGuard PROVE Guarded!Skip(c)
  BY <1>1
  DEF Guarded!Skip
<1>2. ASSUME ~destGuard PROVE Unguarded!Skip(c)
  BY <1>2
  DEF Unguarded!Skip
<1>3. QED
  BY <1>1, <1>2 DEF AbstractStep, Guarded!CopyStep, Unguarded!CopyStep

(* A message the server stores is a Land of the abstract copy.             *)
LEMMA AsLand ==
    ASSUME NEW k \in Unsettled \ Landed, Landed' = Landed \cup {k},
           dest' = [dest EXCEPT ![k] = IF @ < MaxCopies THEN @ + 1 ELSE @],
           UNCHANGED <<Left, Unsettled, records, copied, Outcome>>
    PROVE  AbstractStep
<1>1. ASSUME destGuard PROVE Guarded!Land(k)
  BY <1>1
  DEF Guarded!Land, Guarded!AddCopy
<1>2. ASSUME ~destGuard PROVE Unguarded!Land(k)
  BY <1>2
  DEF Unguarded!Land, Unguarded!AddCopy
<1>3. QED
  BY <1>1, <1>2 DEF AbstractStep, Guarded!CopyStep, Unguarded!CopyStep

(* A settled append is a Confirm of the abstract copy.                     *)
LEMMA AsConfirm ==
    ASSUME NEW k \in Unsettled, k \in Landed, Outcome \in {"running", "stopped"},
           Cardinality(records) < flushLimit,
           Unsettled' = Unsettled \ {k}, Landed' = Landed \ {k},
           records' = records \cup {k}, UNCHANGED <<Left, copied, dest, Outcome>>
    PROVE  AbstractStep
<1>1. ASSUME destGuard PROVE Guarded!Confirm(k)
  BY <1>1, SameCardinality
  DEF Guarded!Confirm, Guarded!Appending, Guarded!Answered, Guarded!flushLimit,
         flushLimit
<1>2. ASSUME ~destGuard PROVE Unguarded!Confirm(k)
  BY <1>2, SameCardinality
  DEF Unguarded!Confirm, Unguarded!Appending, Unguarded!Answered,
         Unguarded!flushLimit, flushLimit
<1>3. QED
  BY <1>1, <1>2 DEF AbstractStep, Guarded!CopyStep, Unguarded!CopyStep

(* A refused append is a Refuse of the abstract copy.                      *)
LEMMA AsRefuse ==
    ASSUME NEW k \in Unsettled \ Landed, Outcome \in {"running", "stopped"},
           Unsettled' = Unsettled \ {k}, Outcome' = "failed",
           UNCHANGED <<Left, Landed, records, copied, dest>>
    PROVE  AbstractStep
<1>1. ASSUME destGuard PROVE Guarded!Refuse(k)
  BY <1>1
  DEF Guarded!Refuse, Guarded!Appending
<1>2. ASSUME ~destGuard PROVE Unguarded!Refuse(k)
  BY <1>2
  DEF Unguarded!Refuse, Unguarded!Appending
<1>3. QED
  BY <1>1, <1>2 DEF AbstractStep, Guarded!CopyStep, Unguarded!CopyStep

(* The end of the source stream is a StreamFails of the abstract copy.     *)
LEMMA AsStop ==
    ASSUME Outcome = "running", Outcome' = "stopped",
           UNCHANGED <<Left, Unsettled, Landed, records, copied, dest>>
    PROVE  AbstractStep
<1>1. ASSUME destGuard PROVE Guarded!StreamFails
  BY <1>1
  DEF Guarded!StreamFails
<1>2. ASSUME ~destGuard PROVE Unguarded!StreamFails
  BY <1>2
  DEF Unguarded!StreamFails
<1>3. QED
  BY <1>1, <1>2 DEF AbstractStep, Guarded!CopyStep, Unguarded!CopyStep

(* A broken destination is an AppendSideFails of the abstract copy.        *)
LEMMA AsFailure ==
    ASSUME Outcome \in {"running", "stopped"}, Unsettled \cup records # {},
           Outcome' = "failed",
           UNCHANGED <<Left, Unsettled, Landed, records, copied, dest>>
    PROVE  AbstractStep
<1>1. ASSUME destGuard PROVE Guarded!AppendSideFails
  BY <1>1
  DEF Guarded!AppendSideFails, Guarded!Appending
<1>2. ASSUME ~destGuard PROVE Unguarded!AppendSideFails
  BY <1>2
  DEF Unguarded!AppendSideFails, Unguarded!Appending
<1>3. QED
  BY <1>1, <1>2 DEF AbstractStep, Guarded!CopyStep, Unguarded!CopyStep

(* A flush of records is a FlushRecords of the abstract copy.              *)
LEMMA AsFlush ==
    ASSUME records # {},
           \/ Cardinality(records) >= flushLimit
           \/ Outcome \in {"running", "stopped"} /\ Unsettled = {}
           \/ Outcome = "failed",
           copied' = copied \cup records, records' = {},
           UNCHANGED <<Left, Unsettled, Landed, dest, Outcome>>
    PROVE  AbstractStep
<1>1. ASSUME destGuard PROVE Guarded!FlushRecords
  BY <1>1, SameCardinality
  DEF Guarded!FlushRecords, Guarded!Appending, Guarded!flushLimit, flushLimit
<1>2. ASSUME ~destGuard PROVE Unguarded!FlushRecords
  BY <1>2, SameCardinality
  DEF Unguarded!FlushRecords, Unguarded!Appending, Unguarded!flushLimit, flushLimit
<1>3. QED
  BY <1>1, <1>2 DEF AbstractStep, Guarded!CopyStep, Unguarded!CopyStep

(* A return without error is a ReturnOk of the abstract copy.              *)
LEMMA AsReturnOk ==
    ASSUME Outcome = "running", Left = {}, Unsettled = {}, records = {},
           Outcome' = "ok",
           UNCHANGED <<Left, Unsettled, Landed, records, copied, dest>>
    PROVE  AbstractStep
<1>1. ASSUME destGuard PROVE Guarded!ReturnOk
  BY <1>1
  DEF Guarded!ReturnOk
<1>2. ASSUME ~destGuard PROVE Unguarded!ReturnOk
  BY <1>2
  DEF Unguarded!ReturnOk
<1>3. QED
  BY <1>1, <1>2 DEF AbstractStep, Guarded!CopyStep, Unguarded!CopyStep

(* A return with an error is a ReturnError of the abstract copy.           *)
LEMMA AsReturnError ==
    ASSUME \/ Outcome = "stopped" /\ Unsettled = {} /\ records = {}
           \/ Outcome = "failed",
           Outcome' = "error",
           UNCHANGED <<Left, Unsettled, Landed, records, copied, dest>>
    PROVE  AbstractStep
<1>1. ASSUME destGuard PROVE Guarded!ReturnError
  BY <1>1
  DEF Guarded!ReturnError
<1>2. ASSUME ~destGuard PROVE Unguarded!ReturnError
  BY <1>2
  DEF Unguarded!ReturnError
<1>3. QED
  BY <1>1, <1>2 DEF AbstractStep, Guarded!CopyStep, Unguarded!CopyStep
(* The steps that touch neither the buffers nor an APPEND.                 *)
LEMMA QuietStep ==
    ASSUME UNCHANGED <<unread, hand, ch, status>>
    PROVE  UNCHANGED <<Left, Unsettled, Landed>>
  BY DEF Left, Unsettled, Landed

(* The producer: bodies move towards the channel, or there are none.       *)
LEMMA ProducerRefines ==
    ASSUME PipelineInv, [Next]_vars,
           ReadBody \/ Push \/ Vanish \/ GiveUp \/ StreamEnds \/ StreamBreaks
    PROVE  AbstractStep \/ UNCHANGED AbstractVars
<1>1. TypeOK /\ ApartInv /\ result = "none" /\ ~closed
  BY DEF PipelineInv, EndInv, ReadBody, Push, Vanish, GiveUp, StreamEnds, StreamBreaks, Streaming
<1>2. /\ UNCHANGED <<Unsettled, Landed, records, copied, dest>>
      /\ UNCHANGED <<consErr, cancelled, result>>
  BY DEF ReadBody, Push, Vanish, GiveUp, StreamEnds, StreamBreaks, consVars, Unsettled, Landed
<1>3. CASE ReadBody \/ Push
  <2>1. Left' = Left /\ prodErr' = prodErr
    BY <1>1, <1>3, ApartStep DEF ReadBody, Push
  <2>2. QED
    BY <1>2, <2>1 DEF AbstractVars, Outcome
<1>4. CASE Vanish
  <2>1. PICK c \in Left : Left' = Left \ {c}
    BY <1>1, <1>4, ApartStep
  <2>2. Outcome' = Outcome /\ Outcome \notin {"ok", "error"}
    BY <1>1, <1>2, <1>4 DEF Vanish, Outcome
  <2>3. QED
    BY <1>2, <2>1, <2>2, AsSkip
<1>5. CASE GiveUp \/ StreamEnds \/ StreamBreaks
  <2>1. Left' = Left
    BY <1>5 DEF GiveUp, StreamEnds, StreamBreaks, Left
  <2>2. \/ Outcome' = Outcome
        \/ Outcome = "running" /\ Outcome' = "stopped"
    BY <1>1, <1>2, <1>5 DEF GiveUp, StreamEnds, StreamBreaks, Outcome, TypeOK
  <2>3. QED
    BY <1>2, <2>1, <2>2, AsStop DEF AbstractVars
<1>6. QED
  BY <1>3, <1>4, <1>5

(* The consumer takes a candidate: it sends it, fails, or drops it.        *)
LEMMA ReceiveRefines ==
    ASSUME PipelineInv, [Next]_vars, Receives
    PROVE  AbstractStep \/ UNCHANGED AbstractVars
<1>1. /\ TypeOK /\ ApartInv /\ FreshInv /\ RingInv /\ BoundInv /\ PhaseInv /\ EndInv
      /\ consumer = "receive" /\ result = "none" /\ status \in [Keys -> Statuses]
  BY DEF PipelineInv, TypeOK, EndInv, Receives, Drain, BeginAppend, BeginAppendFails
<1>2. /\ Head(ch) \in Left /\ Left' = Left \ {Head(ch)}
      /\ UNCHANGED <<records, copied, dest, prodErr, cancelled, result>>
  <2>1. Head(ch) \in Left /\ Left' = Left \ {Head(ch)}
    BY <1>1, ApartStep
  <2>2. QED
    BY <2>1 DEF Receives, Drain, BeginAppend, BeginAppendFails, prodVars, consVars
<1>3. CASE Drain
  <2>1. /\ UNCHANGED <<Unsettled, Landed, Outcome>>
        /\ Outcome \notin {"ok", "error"}
    BY <1>1, <1>2, <1>3 DEF Drain, Unsettled, Landed, Outcome, consVars
  <2>2. QED
    BY <1>2, <2>1, AsSkip
<1>4. ASSUME BeginAppend \/ BeginAppendFails
      PROVE  /\ Outcome \in {"running", "stopped"} /\ Landed' = Landed
             /\ Cardinality(Unsettled) < ringLimit /\ Cardinality(records) < flushLimit
             /\ ~consErr
  <2>1. ~consErr
    BY <1>4 DEF BeginAppend, BeginAppendFails
  <2>2. Landed' = Landed
    <3>1. CASE status' = status
      BY <3>1 DEF Landed
    <3>2. CASE status' # status
      <4>1. Issues(Head(ch).key)
        BY <1>1, <1>4, <3>2, IssueFacts
      <4>2. QED
        BY <1>1, <4>1 DEF Issues, Landed
    <3>3. QED
      BY <3>1, <3>2
  <2>3. QED
    BY <1>1, <2>1, <2>2 DEF Outcome, RingInv, BoundInv
<1>5. CASE BeginAppend
  <2>1. Unsettled' = Unsettled \cup {Head(ch).key}
    BY <1>1, <1>5, UnsettledStep DEF Issuing
  <2>2. Outcome' = Outcome
    BY <1>2, <1>5 DEF BeginAppend, Outcome
  <2>3. QED
    BY <1>2, <1>4, <1>5, <2>1, <2>2, AsSend
<1>6. CASE BeginAppendFails
  <2>1. Unsettled' \in {Unsettled, Unsettled \cup {Head(ch).key}}
    <3>1. CASE status' # status
      BY <1>1, <1>6, <3>1, UnsettledStep DEF Issuing
    <3>2. CASE status' = status
      BY <3>2 DEF Unsettled
    <3>3. QED
      BY <3>1, <3>2
  <2>2. Outcome' = "failed"
    BY <1>1, <1>2, <1>6 DEF BeginAppendFails, Outcome
  <2>3. QED
    BY <1>2, <1>4, <1>6, <2>1, <2>2, AsSendFails
<1>7. QED
  BY <1>3, <1>5, <1>6 DEF Receives

(* The consumer waits for the oldest APPEND.                               *)
LEMMA SettleRefines ==
    ASSUME PipelineInv, [Next]_vars, Settle \/ SettleBroken
    PROVE  AbstractStep \/ UNCHANGED AbstractVars
<1>1. /\ TypeOK /\ ApartInv /\ FreshInv /\ RingInv /\ BoundInv /\ PhaseInv /\ EndInv
      /\ consumer = "settle" /\ result = "none" /\ ~consErr /\ ring # <<>>
      /\ status \in [Keys -> Statuses]
  BY DEF PipelineInv, TypeOK, EndInv, PhaseInv, Settle, SettleConfirmed, RetryBare,
         SettleRefused, SettleBroken, Settling
<1>2. /\ UNCHANGED <<unread, hand, ch, copied, dest, prodErr, cancelled, result>>
      /\ Left' = Left
  BY DEF Settle, SettleConfirmed, RetryBare, SettleRefused, SettleBroken, prodVars, Left
<1>3. /\ Outcome \in {"running", "stopped"}
      /\ consErr' = consErr => Outcome' = Outcome
      /\ consErr' => Outcome' = "failed"
  BY <1>1, <1>2 DEF Outcome
<1>4. Oldest \in Keys /\ Oldest \in Unsettled
  BY <1>1, OldestFacts DEF RingInv
<1>5. CASE SettleConfirmed
  <2>1. Oldest \in Landed /\ Landed' = Landed \ {Oldest}
    BY <1>1, <1>4, <1>5 DEF SettleConfirmed, Landed
  <2>2. Unsettled' = Unsettled \ {Oldest}
    BY <1>1, <1>5, UnsettledStep DEF SettleStep
  <2>3. Cardinality(records) < flushLimit
    BY <1>1 DEF BoundInv
  <2>4. records' = records \cup {Oldest} /\ Outcome' = Outcome
    BY <1>3, <1>5 DEF SettleConfirmed
  <2>5. QED
    BY <1>2, <1>3, <1>4, <2>1, <2>2, <2>3, <2>4, AsConfirm
<1>6. CASE SettleRefused
  <2>1. Oldest \notin Landed /\ Landed' = Landed
    BY <1>1, <1>4, <1>6 DEF SettleRefused, isServerReject, Landed
  <2>2. Unsettled' = Unsettled \ {Oldest}
    BY <1>1, <1>6, UnsettledStep DEF SettleStep
  <2>3. records' = records /\ Outcome' = "failed"
    BY <1>3, <1>6 DEF SettleRefused
  <2>4. QED
    BY <1>2, <1>3, <1>4, <2>1, <2>2, <2>3, AsRefuse
<1>7. CASE RetryBare
  <2>1. Unsettled' = Unsettled /\ Landed' = Landed
    BY <1>1, <1>4, <1>7 DEF RetryBare, isServerReject, Unsettled, Landed
  <2>2. records' = records /\ Outcome' = Outcome
    BY <1>3, <1>7 DEF RetryBare
  <2>3. QED
    BY <1>2, <2>1, <2>2 DEF AbstractVars
<1>8. CASE SettleBroken
  <2>1. UNCHANGED <<Unsettled, Landed, records>> /\ Outcome' = "failed"
    BY <1>3, <1>8 DEF SettleBroken, Unsettled, Landed
  <2>2. QED
    BY <1>2, <1>3, <1>4, <2>1, AsFailure
<1>9. QED
  BY <1>5, <1>6, <1>7, <1>8 DEF Settle

(* Records reach the store, or the transaction fails.                      *)
LEMMA FlushRefines ==
    ASSUME PipelineInv, [Next]_vars, FlushRecords \/ FlushFails
    PROVE  AbstractStep \/ UNCHANGED AbstractVars
<1>1. /\ consumer \in {"flush", "last"} /\ result = "none"
      /\ UNCHANGED <<Left, Unsettled, Landed>>
      /\ UNCHANGED <<dest, prodErr, cancelled, result>>
  BY QuietStep DEF PipelineInv, EndInv, FlushRecords, FlushFails, prodVars
<1>2. \/ Cardinality(records) >= flushLimit
      \/ ~consErr /\ Unsettled = {}
      \/ consErr
  <2>1. CASE consumer = "last" /\ ~consErr
    <3>1. ring = <<>>
      BY <2>1 DEF PipelineInv, PhaseInv
    <3>2. Unsettled = {}
      BY <2>1, <3>1 DEF PipelineInv, RingInv
    <3>3. QED
      BY <2>1, <3>2
  <2>2. CASE consumer = "flush"
    BY <2>2 DEF PipelineInv, PhaseInv
  <2>3. QED
    BY <1>1, <2>1, <2>2 DEF PipelineInv, TypeOK
<1>3. CASE FlushRecords
  <2>1. copied' = copied \cup records /\ records' = {} /\ Outcome' = Outcome
    BY <1>1, <1>3 DEF FlushRecords, Outcome
  <2>2. CASE records = {}
    BY <1>1, <2>1, <2>2 DEF AbstractVars
  <2>3. CASE records # {}
    <3>1. consErr => Outcome = "failed"
      BY <1>1 DEF Outcome
    <3>2. ~consErr => Outcome \in {"running", "stopped"}
      BY <1>1 DEF Outcome
    <3>3. QED
      BY <1>1, <1>2, <2>1, <2>3, <3>1, <3>2, AsFlush
  <2>4. QED
    BY <2>2, <2>3
<1>4. CASE FlushFails
  <2>1. UNCHANGED <<records, copied>> /\ records # {} /\ Outcome' = "failed"
    BY <1>1, <1>4 DEF FlushFails, Outcome
  <2>2. CASE consErr
    <3>1. Outcome = "failed"
      BY <1>1, <2>2 DEF Outcome
    <3>2. QED
      BY <1>1, <2>1, <3>1 DEF AbstractVars
  <2>3. CASE ~consErr
    <3>1. Outcome \in {"running", "stopped"}
      BY <1>1, <2>3 DEF Outcome
    <3>2. QED
      BY <1>1, <2>1, <3>1, AsFailure
  <2>4. QED
    BY <2>2, <2>3 DEF PipelineInv, TypeOK
<1>5. QED
  BY <1>3, <1>4

(* copyPipeline returns.                                                   *)
LEMMA ReturnRefines ==
    ASSUME PipelineInv, [Next]_vars, Return
    PROVE  AbstractStep \/ UNCHANGED AbstractVars
<1>1. /\ closed /\ consumer = "done" /\ result = "none"
      /\ UNCHANGED <<Left, Unsettled, Landed>>
      /\ UNCHANGED <<records, copied, dest>>
  BY QuietStep DEF Return, prodVars, consVars
<1>2. ASSUME ~consErr
      PROVE  Unsettled = {} /\ records = {} /\ ch = <<>>
  <2>1. ring = <<>> /\ records = {} /\ ch = <<>>
    BY <1>1, <1>2 DEF PipelineInv, PhaseInv
  <2>2. Unsettled = {}
    BY <1>2, <2>1 DEF PipelineInv, RingInv
  <2>3. QED
    BY <2>1, <2>2
<1>3. CASE ~consErr /\ ~prodErr /\ ~cancelled
  <2>1. Outcome = "running" /\ Outcome' = "ok"
    BY <1>1, <1>3 DEF Return, Outcome
  <2>2. unread = {} /\ hand = {}
    BY <1>1, <1>3 DEF PipelineInv, EndInv
  <2>3. Left = {}
    BY <1>2, <1>3, <2>2 DEF Left, Range
  <2>4. QED
    BY <1>1, <1>2, <1>3, <2>1, <2>3, AsReturnOk
<1>4. CASE ~consErr /\ (prodErr \/ cancelled)
  <2>1. Outcome = "stopped" /\ Outcome' = "error"
    BY <1>1, <1>4 DEF Return, Outcome
  <2>2. QED
    BY <1>1, <1>2, <1>4, <2>1, AsReturnError
<1>5. CASE consErr
  <2>1. Outcome = "failed" /\ Outcome' = "error"
    BY <1>1, <1>5 DEF Return, Outcome
  <2>2. QED
    BY <1>1, <2>1, AsReturnError
<1>6. QED
  BY <1>3, <1>4, <1>5

(* The server answers.                                                     *)
LEMMA ServerRefines ==
    ASSUME PipelineInv, [Next]_vars, Server
    PROVE  AbstractStep \/ UNCHANGED AbstractVars
<1>1. /\ UNCHANGED <<Left, records, copied, Outcome>>
      /\ status \in [Keys -> Statuses]
  BY DEF PipelineInv, TypeOK, Server, ServerStores, ServerRefuses, prodVars, consVars, Left, Outcome
<1>2. CASE ServerStores
  <2>1. PICK k \in Keys :
            /\ status[k] = "sent" /\ status' = [status EXCEPT ![k] = "stored"]
            /\ dest' = [dest EXCEPT ![k] = IF @ < MaxCopies THEN @ + 1 ELSE @]
    BY <1>2 DEF ServerStores
  <2>2. /\ k \in Unsettled \ Landed /\ Landed' = Landed \cup {k}
        /\ Unsettled' = Unsettled
    BY <1>1, <2>1 DEF Unsettled, Landed
  <2>3. QED
    BY <1>1, <2>1, <2>2, AsLand
<1>3. CASE ServerRefuses
  <2>1. UNCHANGED <<Unsettled, Landed, dest>>
    BY <1>1, <1>3 DEF ServerRefuses, Unsettled, Landed
  <2>2. QED
    BY <1>1, <2>1 DEF AbstractVars
<1>4. QED
  BY <1>2, <1>3 DEF Server

(* Every step of the pipeline is a step of the abstract copy, or none.     *)
LEMMA RefineStep ==
    ASSUME PipelineInv, [Next]_vars
    PROVE  AbstractStep \/ UNCHANGED AbstractVars
<1>1. CASE Cancel
  <2>1. /\ UNCHANGED <<Left, Unsettled, Landed>>
        /\ UNCHANGED <<records, copied, dest, result, consErr, prodErr>>
        /\ cancelled' = TRUE /\ result = "none"
    BY <1>1, QuietStep DEF Cancel, prodVars, consVars
  <2>2. \/ Outcome' = Outcome
        \/ Outcome = "running" /\ Outcome' = "stopped"
    BY <2>1 DEF Outcome
  <2>3. QED
    BY <2>1, <2>2, AsStop DEF AbstractVars
<1>2. CASE RangeEnds \/ UNCHANGED vars
  <2>1. /\ UNCHANGED <<Left, Unsettled, Landed>>
        /\ UNCHANGED <<records, copied, dest, result, consErr, prodErr, cancelled>>
    BY <1>2, QuietStep DEF RangeEnds, vars, prodVars, consVars
  <2>2. QED
    BY <2>1 DEF AbstractVars, Outcome
<1>3. QED
  BY <1>1, <1>2, ProducerRefines, ReceiveRefines, SettleRefines, FlushRefines,
     ReturnRefines, ServerRefines
  DEF Next, Configured, Producer, Consumer, Fault, Receives, Finished

(* The two-goroutine pipeline does, for every window and every limit, only *)
(* what the abstract copy of a window may do: what Reconcile assumes of    *)
(* copyPipeline holds of its code (reconcile.go:358-496).                  *)
THEOREM PipelineRefines == Spec => ImplementsWindowCopy
<1>1. ASSUME Init PROVE IF destGuard THEN Guarded!CopyInit ELSE Unguarded!CopyInit
  <2>1. /\ Left = Window /\ Unsettled = {} /\ Landed = {} /\ Outcome = "running"
        /\ records = {} /\ copied = {} /\ dest \in [Keys -> 0 .. 1]
    BY <1>1 DEF Init, Left, Range, Unsettled, Landed, Outcome
  <2>2. CASE destGuard
    BY <2>1, <2>2, PipelineAssumption
    DEF Guarded!CopyInit, Guarded!Candidates, Guarded!KeysOf
  <2>3. CASE ~destGuard
    BY <2>1, <2>3, PipelineAssumption
    DEF Unguarded!CopyInit, Unguarded!Candidates, Unguarded!KeysOf
  <2>4. QED
    BY <2>2, <2>3
<1>2. ASSUME PipelineInv, [Next]_vars
      PROVE  [IF destGuard THEN [Guarded!CopyStep]_(Guarded!copyVars)
              ELSE [Unguarded!CopyStep]_(Unguarded!copyVars)]_vars
  BY <1>2, RefineStep DEF AbstractStep, AbstractVars, Guarded!copyVars, Unguarded!copyVars
<1>3. QED
  BY <1>1, <1>2, PipelineInvariant, PTL DEF Spec, ImplementsWindowCopy
=============================================================================
