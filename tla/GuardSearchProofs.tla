------------------------- MODULE GuardSearchProofs --------------------------
(***************************************************************************)
(* For any folders, batch and chunk sizes, whatever nesting of OR the      *)
(* server accepts and wherever a session fails: the guard finds every copy *)
(* that some bucket holds and invents none.                                *)
(***************************************************************************)
EXTENDS GuardSearch, ScanWindowsProofs, FiniteSetTheorems, TLAPS

(* Past the fetch there is a window, and ids left where one is asked for.  *)
PlaceInv ==
    /\ at # "fetch" => running /\ start < uidNext
    /\ at = "search" => open = Buckets[folder] /\ i <= Cardinality(ids)
    /\ at = "select" => ids # {}

(* A folder the cache names is the one the server has selected.            *)
CacheInv == selected # "none" => open = selected

(* What has been asked so far has been found; what is still to be copied   *)
(* is at no destination, or has no Message-ID to find it by.               *)
AskedInv ==
    /\ at \in {"select", "search"} =>
          \A g \in 1 .. folder - 1 : ids \cap held[Buckets[g]] \subseteq found
    /\ at = "search" =>
          \A u \in ids \cap held[Buckets[folder]] : Index(u) < i => u \in found
    /\ at = "record" => ids \cap Held \subseteq found
    /\ at = "copy" => (pending \ unrecorded) \cap Held \subseteq Synth

(* What was found, appended or recorded is at the destination.             *)
HeldInv ==
    /\ found \subseteq Held
    /\ unrecorded \subseteq Held
    /\ unrecorded \subseteq IF at = "copy" THEN pending ELSE {}
    /\ GuardInventsNone

GuardInv ==
    /\ GuardTypeOK /\ ScanInv
    /\ PlaceInv /\ CacheInv /\ AskedInv /\ HeldInv
    /\ GuardMissesNone

-----------------------------------------------------------------------------
(* The ids of a window.                                                    *)

(* A set of numbers that is not empty has a least one.                     *)
LEMMA MinFacts ==
    ASSUME NEW S \in SUBSET Nat, S # {}
    PROVE  Min(S) \in S
<1> DEFINE R == OpToRel(<, Nat)
<1>1. IsWellFoundedOn(R, Nat)
  BY NatLessThanWellFounded
<1>2. \A x, y \in Nat : ~(<<y, x>> \in R) => x <= y
  BY DEF OpToRel
<1> HIDE DEF R
<1>3. \E x \in S : \A y \in S : ~(<<y, x>> \in R)
  BY <1>1, WFMin
<1>4. \E x \in S : \A y \in S : x <= y
  BY <1>2, <1>3
<1>5. QED
  BY <1>4 DEF Min

(* The buckets are a list with at least one folder.                        *)
LEMMA BucketFacts ==
    /\ Len(Buckets) \in Nat \ {0}
    /\ DOMAIN Buckets = 1 .. Len(Buckets)
    /\ \A g \in 1 .. Len(Buckets) : Buckets[g] \in Range(Buckets)
    /\ \A b \in Range(Buckets) : \E g \in 1 .. Len(Buckets) : b = Buckets[g]
<1>1. Len(Buckets) \in Nat \ {0} /\ DOMAIN Buckets = 1 .. Len(Buckets)
  BY GuardAssumption
<1>2. QED
  BY <1>1 DEF Range

(* A window is finite, no longer than a batch, and its ids have indexes    *)
(* from 1 up to their number.                                              *)
LEMMA IdsFacts ==
    ASSUME ScanInv, start < uidNext
    PROVE  /\ UIDRange(start, Stop) = start .. Stop
           /\ start \in Nat \ {0} /\ Stop \in Nat /\ Stop < Modulus /\ start = mark + 1
           /\ pending \subseteq Nat /\ pending \subseteq Uint32 /\ ids \subseteq pending
           /\ IsFiniteSet(ids) /\ Cardinality(ids) \in 0 .. UIDBatch
           /\ ids # {} => Cardinality(ids) >= 1
           /\ \A u \in ids : Index(u) \in 1 .. Cardinality(ids)
<1> USE ScanAssumption
<1>1. /\ UIDRange(start, Stop) = start .. Stop /\ Stop \in start .. uidNext - 1
      /\ Stop <= start + UIDBatch - 1
  BY WindowFacts
<1>2. /\ start \in Nat \ {0} /\ Stop \in Nat /\ Stop < Modulus /\ start = mark + 1
      /\ start <= Stop
  BY <1>1 DEF ScanInv
<1>3. ids \subseteq pending /\ pending \subseteq start .. Stop
  BY <1>1 DEF ids, pending
<1>4. IsFiniteSet(start .. Stop) /\ Cardinality(start .. Stop) = Stop - start + 1
  BY <1>2, FS_Interval
<1> HIDE DEF Stop
<1>5. ids \in SUBSET (start .. Stop)
  BY <1>3
<1>6. IsFiniteSet(ids) /\ Cardinality(ids) <= Stop - start + 1 /\ Cardinality(ids) \in Nat
  <2>1. IsFiniteSet(ids) /\ Cardinality(ids) <= Cardinality(start .. Stop)
    BY <1>4, <1>5, FS_Subset
  <2>2. QED
    BY <1>4, <2>1, FS_CardinalityType
<1>7. ids # {} => Cardinality(ids) # 0
  BY <1>6, FS_EmptySet
<1>8. ASSUME NEW u \in ids PROVE Index(u) \in 1 .. Cardinality(ids)
  <2> DEFINE T == {v \in ids : v <= u}
  <2>1. T \in SUBSET ids /\ u \in T
    BY <1>5, <1>8
  <2> HIDE DEF T
  <2>2. IsFiniteSet(T) /\ Cardinality(T) <= Cardinality(ids)
    BY <1>6, <2>1, FS_Subset
  <2>3. Cardinality(T) \in Nat /\ Cardinality(T) # 0
    BY <2>1, <2>2, FS_CardinalityType, FS_EmptySet
  <2>4. Index(u) = Cardinality(T)
    BY DEF Index, T
  <2>5. QED
    BY <1>6, <2>2, <2>3, <2>4
<1>9. pending \subseteq Nat /\ pending \subseteq Uint32
  BY <1>2, <1>3 DEF Uint32
<1>10. QED
  BY <1>1, <1>2, <1>3, <1>6, <1>7, <1>8, <1>9

(* They depend on the window and on what is recorded.                      *)
LEMMA IdsKept ==
    ASSUME UNCHANGED vars, copied' = copied
    PROVE  pending' = pending /\ ids' = ids /\ \A u : Index(u)' = Index(u)
<1>1. start' = start /\ uidNext' = uidNext
  BY DEF vars
<1>2. Stop' = Stop
  BY <1>1 DEF Stop
<1>3. UIDRange(start, Stop)' = UIDRange(start, Stop)
  BY <1>1, <1>2 DEF UIDRange
<1>4. pending' = pending /\ ids' = ids
  BY <1>3 DEF pending, ids
<1>5. QED
  BY <1>4 DEF Index

(* What is still to be copied is what is neither recorded nor appended.    *)
LEMMA PendingRecorded ==
    ASSUME UNCHANGED vars, NEW S, copied' = copied \cup S
    PROVE  pending' = pending \ S
<1>1. start' = start /\ uidNext' = uidNext
  BY DEF vars
<1>2. Stop' = Stop
  BY <1>1 DEF Stop
<1>3. UIDRange(start, Stop)' = UIDRange(start, Stop)
  BY <1>1, <1>2 DEF UIDRange
<1>4. QED
  BY <1>3 DEF pending

(* What the buckets hold together.                                         *)
LEMMA HeldFacts ==
    /\ \A b \in Range(Buckets) : held[b] \subseteq Held
    /\ \A u \in Held : \E b \in Range(Buckets) : u \in held[b]
    /\ held' = held => Held' = Held
  BY DEF Held

(* The span being asked for.                                               *)
LEMMA SpanFacts ==
    ASSUME GuardTypeOK, ScanInv, start < uidNext, i <= Cardinality(ids)
    PROVE  /\ SpanEnd \in i .. Cardinality(ids)
           /\ Span = {u \in ids : Index(u) \in i .. SpanEnd}
<1>1. i \in Nat \ {0} /\ chunk \in Nat \ {0}
  BY ScanAssumption, GuardAssumption DEF GuardTypeOK
<1>2. Cardinality(ids) \in Nat
  BY IdsFacts
<1>3. QED
  BY <1>1, <1>2 DEF SpanEnd, Span

(* A mark is a word.                                                       *)
LEMMA MarkTyped ==
    ASSUME NEW n \in 1 .. Modulus - 1, NEW f \in 1 .. n, NEW m \in f - 1 .. n - 1
    PROVE  m \in Uint32
  BY ScanAssumption DEF Uint32

(* Variables of the scan keep their type.                                  *)
LEMMA ScanTypedNext ==
    ASSUME ScanInv'
    PROVE  TypeOK'
<1>1. seen' = first' .. mark' /\ again' = {} /\ running' \in BOOLEAN
  BY DEF ScanInv
<1>2. first' \in Uint32 /\ uidNext' \in Uint32 /\ start' \in Uint32 /\ mark' \in Uint32
  <2>1. Modulus \in Nat /\ uidNext' \in 1 .. Modulus - 1
    BY ScanAssumption DEF ScanInv
  <2>2. first' \in 1 .. uidNext'
    BY DEF ScanInv
  <2>3. start' \in first' .. Modulus - 1 /\ mark' \in first' - 1 .. uidNext' - 1
    BY DEF ScanInv
  <2>4. uidNext' \in Uint32
    BY <2>1 DEF Uint32
  <2>5. first' \in Uint32
    BY <2>1, <2>2 DEF Uint32
  <2>6. start' \in Uint32
    BY <2>1, <2>2, <2>3 DEF Uint32
  <2>7. mark' \in Uint32
    BY <2>1, <2>2, <2>3, MarkTyped
  <2>8. QED
    BY <2>4, <2>5, <2>6, <2>7
<1>3. seen' \subseteq Uint32
  <2>1. \A x \in first' .. mark' : x \in Uint32
    BY <1>1, <1>2, ScanAssumption DEF Uint32
  <2>2. QED
    BY <1>1, <2>1
<1>4. QED
  BY <1>1, <1>2, <1>3 DEF TypeOK

-----------------------------------------------------------------------------
(* The steps of the guard.                                                 *)

(* A new window: nothing has been asked yet.                               *)
LEMMA OpenWindowStep ==
    ASSUME GuardInv, OpenWindow
    PROVE  GuardInv'
<1>0. /\ GuardTypeOK /\ ScanInv /\ CacheInv /\ AskedInv
      /\ HeldInv /\ GuardMissesNone
      /\ at = "fetch" /\ running /\ start < uidNext /\ folder' = 1 /\ found' = {} /\ i' = 1
      /\ UNCHANGED vars
      /\ UNCHANGED <<chunk, selected, open, copied, unrecorded, held, twice, depthLimit>>
  BY DEF GuardInv, OpenWindow, destVars
<1>1. pending' = pending /\ ids' = ids /\ Held' = Held
  BY <1>0, IdsKept, HeldFacts
<1>2. ScanInv' /\ TypeOK'
  BY <1>0, DoneInv, ScanTypedNext
<1>3. /\ start' = start /\ uidNext' = uidNext /\ running' = running /\ first' = first /\ mark' = mark
  BY <1>0 DEF vars
<1>4. (at' = "copy" /\ ids = {}) \/ (at' = "select" /\ ids # {})
  BY DEF OpenWindow
<1>5. GuardTypeOK'
  BY <1>0, <1>2, <1>4, BucketFacts, ScanAssumption DEF GuardTypeOK, Places
<1>6. PlaceInv' /\ CacheInv'
  BY <1>0, <1>1, <1>3, <1>4 DEF PlaceInv, CacheInv
<1>7. unrecorded = {}
  BY <1>0 DEF HeldInv
<1>8. AskedInv'
  <2>1. CASE at' = "copy" /\ ids = {}
    BY <1>0, <1>1, <1>7, <2>1 DEF AskedInv, ids
  <2>2. CASE at' = "select" /\ ids # {}
    BY <1>0, <1>1, <2>2 DEF AskedInv
  <2>3. QED
    BY <1>4, <2>1, <2>2
<1>9. HeldInv' /\ GuardMissesNone'
  BY <1>0, <1>1, <1>3, <1>7 DEF HeldInv, GuardInventsNone, GuardMissesNone
<1>10. QED
  BY <1>2, <1>5, <1>6, <1>8, <1>9 DEF GuardInv

(* A bucket is selected: its ids are asked for from the first.             *)
LEMMA SelectStep ==
    ASSUME GuardInv, EnsureSelected
    PROVE  GuardInv'
<1>0. /\ GuardTypeOK /\ ScanInv /\ PlaceInv /\ CacheInv /\ AskedInv
      /\ HeldInv /\ GuardMissesNone
      /\ at = "select" /\ i' = 1 /\ at' = "search"
      /\ UNCHANGED vars
      /\ UNCHANGED <<folder, chunk, found, copied, unrecorded, held, twice, depthLimit>>
  BY DEF GuardInv, EnsureSelected, destVars
<1>1. open' = Buckets[folder] /\ selected' = Buckets[folder]
  <2>1. folder \in 1 .. Len(Buckets) /\ Buckets[folder] # "none"
    BY <1>0, BucketFacts, GuardAssumption DEF GuardTypeOK
  <2>2. CASE selected = Buckets[folder]
    BY <1>0, <2>1, <2>2 DEF EnsureSelected, CacheInv
  <2>3. CASE selected # Buckets[folder]
    BY <2>3 DEF EnsureSelected, Select
  <2>4. QED
    BY <2>2, <2>3
<1>2. pending' = pending /\ ids' = ids /\ Held' = Held /\ \A u : Index(u)' = Index(u)
  BY <1>0, IdsKept, HeldFacts
<1>3. ScanInv' /\ TypeOK'
  BY <1>0, DoneInv, ScanTypedNext
<1>4. /\ start' = start /\ uidNext' = uidNext /\ running' = running /\ first' = first /\ mark' = mark
  BY <1>0 DEF vars
<1>5. running /\ start < uidNext /\ ids # {}
  BY <1>0 DEF PlaceInv
<1>6. Cardinality(ids) >= 1 /\ \A u \in ids : Index(u) \in 1 .. Cardinality(ids)
  BY <1>0, <1>5, IdsFacts
<1>7. folder \in 1 .. Len(Buckets) /\ Buckets[folder] \in Range(Buckets)
  BY <1>0, BucketFacts DEF GuardTypeOK
<1>8. GuardTypeOK'
  BY <1>0, <1>1, <1>3, <1>7, ScanAssumption DEF GuardTypeOK, Places
<1>9. PlaceInv' /\ CacheInv'
  BY <1>0, <1>1, <1>2, <1>4, <1>5, <1>6 DEF PlaceInv, CacheInv
<1>10. AskedInv'
  <2>1. \A u \in ids : ~(Index(u) < 1)
    BY <1>6
  <2>2. QED
    BY <1>0, <1>2, <2>1 DEF AskedInv
<1>11. HeldInv' /\ GuardMissesNone'
  BY <1>0, <1>2, <1>4 DEF HeldInv, GuardInventsNone, GuardMissesNone
<1>12. QED
  BY <1>3, <1>8, <1>9, <1>10, <1>11 DEF GuardInv

(* A refused search is asked again in smaller pieces: nothing is skipped.  *)
LEMMA RefusedStep ==
    ASSUME GuardInv, SearchRefused
    PROVE  GuardInv'
<1>0. /\ GuardTypeOK /\ ScanInv /\ PlaceInv /\ CacheInv /\ AskedInv
      /\ HeldInv /\ GuardMissesNone
      /\ at = "search" /\ chunk > 1 /\ chunk' = chunk \div 2 /\ i' = i
      /\ UNCHANGED vars
      /\ UNCHANGED <<at, selected, open, folder, found, copied, unrecorded, held, twice, depthLimit>>
  BY DEF GuardInv, SearchRefused, ChunkHalved, SameSpan, destVars
<1>1. pending' = pending /\ ids' = ids /\ Held' = Held /\ \A u : Index(u)' = Index(u)
  BY <1>0, IdsKept, HeldFacts
<1>2. ScanInv' /\ TypeOK'
  BY <1>0, DoneInv, ScanTypedNext
<1>3. /\ start' = start /\ uidNext' = uidNext /\ running' = running /\ first' = first /\ mark' = mark
  BY <1>0 DEF vars
<1>4. chunk \div 2 \in 1 .. GuardChunk
  BY <1>0, GuardAssumption DEF GuardTypeOK
<1>5. GuardTypeOK'
  BY <1>0, <1>2, <1>4 DEF GuardTypeOK
<1>6. PlaceInv' /\ CacheInv' /\ AskedInv'
  BY <1>0, <1>1, <1>3 DEF PlaceInv, CacheInv, AskedInv
<1>7. HeldInv' /\ GuardMissesNone'
  BY <1>0, <1>1, <1>3 DEF HeldInv, GuardInventsNone, GuardMissesNone
<1>8. QED
  BY <1>2, <1>5, <1>6, <1>7 DEF GuardInv

(* An answered span: whatever of it the bucket holds is among the hits,    *)
(* and the headers of the hits tell it from longer ids.                    *)
LEMMA AnsweredStep ==
    ASSUME GuardInv, SearchAnswered
    PROVE  GuardInv'
<1>0. /\ GuardTypeOK /\ ScanInv /\ PlaceInv /\ CacheInv /\ AskedInv
      /\ HeldInv /\ GuardMissesNone
      /\ at = "search" /\ found' = found \cup FoundHits
      /\ UNCHANGED vars
      /\ UNCHANGED <<chunk, selected, open, copied, unrecorded, held, twice, depthLimit>>
  BY DEF GuardInv, SearchAnswered, destVars
<1>1. pending' = pending /\ ids' = ids /\ Held' = Held /\ \A u : Index(u)' = Index(u)
  BY <1>0, IdsKept, HeldFacts
<1>2. ScanInv' /\ TypeOK'
  BY <1>0, DoneInv, ScanTypedNext
<1>3. /\ start' = start /\ uidNext' = uidNext /\ running' = running /\ first' = first /\ mark' = mark
  BY <1>0 DEF vars
<1>4. running /\ start < uidNext /\ open = Buckets[folder] /\ i <= Cardinality(ids)
  BY <1>0 DEF PlaceInv
<1>5. /\ Cardinality(ids) \in 0 .. UIDBatch /\ (ids # {} => Cardinality(ids) >= 1)
      /\ \A u \in ids : Index(u) \in 1 .. Cardinality(ids)
  BY <1>0, <1>4, IdsFacts
<1>6. /\ SpanEnd \in i .. Cardinality(ids)
      /\ Span = {u \in ids : Index(u) \in i .. SpanEnd}
  BY <1>0, <1>4, SpanFacts
<1>7. /\ folder \in 1 .. Len(Buckets) /\ Len(Buckets) \in Nat
      /\ i \in Nat \ {0} /\ UIDBatch \in Nat \ {0}
      /\ held \in [Range(Buckets) -> SUBSET Uint32] /\ Buckets[folder] \in Range(Buckets)
  BY <1>0, BucketFacts, ScanAssumption DEF GuardTypeOK
<1>8. FoundHits \subseteq held[Buckets[folder]] /\ FoundHits \subseteq Held /\ FoundHits \subseteq Uint32
  <2>1. FoundHits \subseteq held[Buckets[folder]]
    BY <1>4 DEF FoundHits, Hits
  <2>2. held[Buckets[folder]] \subseteq Held /\ held[Buckets[folder]] \subseteq Uint32
    BY <1>7, HeldFacts
  <2>3. QED
    BY <2>1, <2>2
<1>9. ASSUME NEW u \in ids \cap held[Buckets[folder]], Index(u) <= SpanEnd
      PROVE  u \in found'
  <2>1. CASE Index(u) < i
    BY <1>0, <1>9, <2>1 DEF AskedInv
  <2>2. CASE ~(Index(u) < i)
    <3>1. Index(u) \in i .. SpanEnd
      BY <1>5, <1>6, <1>7, <1>9, <2>2
    <3>2. u \in Span
      BY <1>6, <3>1
    <3>3. u \notin Synth
      BY DEF ids
    <3>4. u \in FoundHits
      BY <1>4, <3>2, <3>3 DEF FoundHits, Hits
    <3>5. QED
      BY <1>0, <3>4
  <2>3. QED
    BY <2>1, <2>2
<1> HIDE DEF Index
<1>10. CASE SpanEnd < Cardinality(ids)
  <2>1. i' = SpanEnd + 1 /\ UNCHANGED <<at, folder>>
    BY <1>10 DEF SearchAnswered
  <2>2. i' \in 1 .. UIDBatch + 1 /\ i' <= Cardinality(ids)
    BY <1>5, <1>6, <1>7, <1>10, <2>1
  <2>3. GuardTypeOK'
    BY <1>0, <1>2, <1>8, <2>1, <2>2 DEF GuardTypeOK
  <2>4. PlaceInv' /\ CacheInv'
    BY <1>0, <1>1, <1>3, <1>4, <2>1, <2>2 DEF PlaceInv, CacheInv
  <2>5. \A u \in ids \cap held[Buckets[folder]] : Index(u) < i' => u \in found'
    BY <1>5, <1>6, <1>7, <1>9, <2>1
  <2>6. \A g \in 1 .. folder - 1 : ids \cap held[Buckets[g]] \subseteq found'
    BY <1>0 DEF AskedInv
  <2>7. AskedInv'
    BY <1>0, <1>1, <2>1, <2>5, <2>6 DEF AskedInv
  <2>8. HeldInv' /\ GuardMissesNone'
    BY <1>0, <1>1, <1>3, <1>8, <2>1 DEF HeldInv, GuardInventsNone, GuardMissesNone
  <2>9. QED
    BY <1>2, <2>3, <2>4, <2>7, <2>8 DEF GuardInv
<1>11. CASE ~(SpanEnd < Cardinality(ids))
  <2>1. SpanEnd = Cardinality(ids)
    BY <1>5, <1>6, <1>7, <1>11
  <2>2. \A u \in ids \cap held[Buckets[folder]] : u \in found'
    BY <1>5, <1>9, <2>1
  <2>3. \A g \in 1 .. folder : ids \cap held[Buckets[g]] \subseteq found'
    <3>1. \A g \in 1 .. folder - 1 : ids \cap held[Buckets[g]] \subseteq found'
      BY <1>0 DEF AskedInv
    <3>2. \A g \in 1 .. folder : g = folder \/ g \in 1 .. folder - 1
      BY <1>7
    <3>3. QED
      BY <2>2, <3>1, <3>2
  <2>4. i' = 1 /\ 1 \in 1 .. UIDBatch + 1
    BY <1>7, <1>11 DEF SearchAnswered
  <2>5. ids # {} /\ unrecorded = {}
    <3>1. Cardinality(ids) # 0
      BY <1>4, <1>5, <1>7
    <3>2. QED
      BY <1>0, <3>1, FS_EmptySet DEF HeldInv
  <2>6. CASE folder < Len(Buckets)
    <3>1. folder' = folder + 1 /\ at' = "select"
      BY <1>11, <2>6 DEF SearchAnswered
    <3>2. GuardTypeOK'
      BY <1>0, <1>2, <1>7, <1>8, <2>4, <2>6, <3>1 DEF GuardTypeOK, Places
    <3>3. PlaceInv' /\ CacheInv'
      BY <1>0, <1>1, <1>3, <1>4, <2>5, <3>1 DEF PlaceInv, CacheInv
    <3>4. folder' - 1 = folder
      BY <1>7, <3>1
    <3>5. AskedInv'
      BY <1>0, <1>1, <2>3, <3>1, <3>4 DEF AskedInv
    <3>6. HeldInv' /\ GuardMissesNone'
      BY <1>0, <1>1, <1>3, <1>8, <2>5, <3>1 DEF HeldInv, GuardInventsNone, GuardMissesNone
    <3>7. QED
      BY <1>2, <3>2, <3>3, <3>5, <3>6 DEF GuardInv
  <2>7. CASE ~(folder < Len(Buckets))
    <3>1. folder' = folder /\ at' = "record" /\ folder = Len(Buckets)
      BY <1>7, <1>11, <2>7 DEF SearchAnswered
    <3>2. GuardTypeOK'
      BY <1>0, <1>2, <1>8, <2>4, <3>1 DEF GuardTypeOK, Places
    <3>3. PlaceInv' /\ CacheInv'
      BY <1>0, <1>3, <1>4, <3>1 DEF PlaceInv, CacheInv
    <3>4. ids \cap Held \subseteq found'
      BY <2>3, <3>1, BucketFacts, HeldFacts
    <3>5. AskedInv'
      BY <1>1, <3>1, <3>4 DEF AskedInv
    <3>6. HeldInv' /\ GuardMissesNone'
      BY <1>0, <1>1, <1>3, <1>8, <2>5, <3>1 DEF HeldInv, GuardInventsNone, GuardMissesNone
    <3>7. QED
      BY <1>2, <3>2, <3>3, <3>5, <3>6 DEF GuardInv
  <2>8. QED
    BY <2>6, <2>7
<1>12. QED
  BY <1>10, <1>11

-----------------------------------------------------------------------------
(* Recording and copying.                                                  *)

(* What the guard found is recorded; the rest is nowhere.                  *)
LEMMA RecordFoundStep ==
    ASSUME GuardInv, RecordFound
    PROVE  GuardInv'
<1>0. /\ GuardTypeOK /\ ScanInv /\ PlaceInv /\ CacheInv /\ AskedInv
      /\ HeldInv /\ GuardMissesNone
      /\ at = "record" /\ at' = "copy" /\ copied' = copied \cup (pending \cap found)
      /\ UNCHANGED vars
      /\ UNCHANGED <<folder, i, chunk, selected, open, found, unrecorded, held, twice, depthLimit>>
  BY DEF GuardInv, RecordFound
<1>1. pending' = pending \ (pending \cap found) /\ Held' = Held
  BY <1>0, PendingRecorded, HeldFacts
<1>2. ScanInv' /\ TypeOK'
  BY <1>0, DoneInv, ScanTypedNext
<1>3. /\ start' = start /\ uidNext' = uidNext /\ running' = running /\ first' = first /\ mark' = mark
  BY <1>0 DEF vars
<1>4. GuardTypeOK'
  BY <1>0, <1>2 DEF GuardTypeOK, Places
<1>5. PlaceInv' /\ CacheInv'
  BY <1>0, <1>3 DEF PlaceInv, CacheInv
<1>6. AskedInv'
  <2>1. ids \cap Held \subseteq found
    BY <1>0 DEF AskedInv
  <2>2. (pending \ (pending \cap found)) \cap Held \subseteq Synth
    BY <2>1 DEF ids
  <2>3. QED
    BY <1>0, <1>1, <2>2 DEF AskedInv
<1>7. HeldInv' /\ GuardMissesNone'
  BY <1>0, <1>1, <1>3 DEF HeldInv, GuardInventsNone, GuardMissesNone
<1>8. QED
  BY <1>2, <1>4, <1>5, <1>6, <1>7 DEF GuardInv

(* The next message to append is one nobody holds, or one without an id.   *)
LEMMA AppendStep ==
    ASSUME GuardInv, AppendNext
    PROVE  GuardInv'
<1> DEFINE u == Min(pending \ unrecorded)
<1>0. /\ GuardTypeOK /\ ScanInv /\ PlaceInv /\ CacheInv /\ AskedInv
      /\ HeldInv /\ GuardMissesNone
      /\ at = "copy" /\ pending \ unrecorded # {}
      /\ unrecorded' = unrecorded \cup {u}
      /\ twice' = IF u \in Held \ Synth THEN twice \cup {u} ELSE twice
      /\ UNCHANGED vars
      /\ UNCHANGED <<at, folder, i, chunk, selected, open, found, copied, depthLimit>>
  BY DEF GuardInv, AppendNext, guardVars
<1>1. PICK b \in Range(Buckets) : held' = [held EXCEPT ![b] = held[b] \cup {u}]
  BY DEF AppendNext
<1>2. ScanInv' /\ TypeOK'
  BY <1>0, DoneInv, ScanTypedNext
<1>3. /\ start' = start /\ uidNext' = uidNext /\ running' = running /\ first' = first /\ mark' = mark
  BY <1>0 DEF vars
<1>4. pending' = pending
  BY <1>0, IdsKept
<1>5. u \in pending \ unrecorded /\ u \in Uint32
  <2>1. start < uidNext
    BY <1>0 DEF PlaceInv
  <2>2. pending \subseteq Nat /\ pending \subseteq Uint32
    BY <1>0, <2>1, IdsFacts
  <2>3. u \in pending \ unrecorded
    BY <1>0, <2>2, MinFacts
  <2>4. QED
    BY <2>2, <2>3
<1> HIDE DEF u
<1>6. held \in [Range(Buckets) -> SUBSET Uint32]
  BY <1>0 DEF GuardTypeOK
<1>7. held' \in [Range(Buckets) -> SUBSET Uint32]
  BY <1>1, <1>5, <1>6
<1>8. Held' = Held \cup {u}
  <2>1. ASSUME NEW x PROVE x \in Held' <=> x \in Held \cup {u}
    <3>1. x \in Held' <=> \E c \in Range(Buckets) : x \in held'[c]
      BY DEF Held
    <3>2. x \in Held <=> \E c \in Range(Buckets) : x \in held[c]
      BY DEF Held
    <3>3. \A c \in Range(Buckets) : held'[c] = IF c = b THEN held[c] \cup {u} ELSE held[c]
      BY <1>1, <1>6
    <3>4. QED
      BY <1>1, <3>1, <3>2, <3>3
  <2>2. QED
    BY <2>1
<1>9. twice' = {}
  <2>1. u \in Held => u \in Synth
    BY <1>0, <1>5 DEF AskedInv
  <2>2. QED
    BY <1>0, <2>1 DEF GuardMissesNone
<1>10. GuardTypeOK'
  BY <1>0, <1>2, <1>5, <1>7, <1>9 DEF GuardTypeOK
<1>11. PlaceInv' /\ CacheInv'
  BY <1>0, <1>3 DEF PlaceInv, CacheInv
<1>12. AskedInv'
  BY <1>0, <1>4, <1>8 DEF AskedInv
<1>13. HeldInv'
  BY <1>0, <1>3, <1>4, <1>5, <1>8 DEF HeldInv, GuardInventsNone
<1>14. QED
  BY <1>2, <1>9, <1>10, <1>11, <1>12, <1>13 DEF GuardInv, GuardMissesNone

(* Appended messages are recorded.                                         *)
LEMMA RecordCopiesStep ==
    ASSUME GuardInv, RecordCopies
    PROVE  GuardInv'
<1>0. /\ GuardTypeOK /\ ScanInv /\ PlaceInv /\ CacheInv /\ AskedInv
      /\ HeldInv /\ GuardMissesNone
      /\ at = "copy" /\ copied' = copied \cup unrecorded /\ unrecorded' = {}
      /\ UNCHANGED vars
      /\ UNCHANGED <<at, folder, i, chunk, selected, open, found, held, twice, depthLimit>>
  BY DEF GuardInv, RecordCopies, guardVars
<1>1. pending' = pending \ unrecorded /\ Held' = Held
  BY <1>0, PendingRecorded, HeldFacts
<1>2. ScanInv' /\ TypeOK'
  BY <1>0, DoneInv, ScanTypedNext
<1>3. /\ start' = start /\ uidNext' = uidNext /\ running' = running /\ first' = first /\ mark' = mark
  BY <1>0 DEF vars
<1>4. GuardTypeOK'
  BY <1>0, <1>2 DEF GuardTypeOK
<1>5. PlaceInv' /\ CacheInv' /\ AskedInv'
  BY <1>0, <1>1, <1>3 DEF PlaceInv, CacheInv, AskedInv
<1>6. HeldInv' /\ GuardMissesNone'
  BY <1>0, <1>1, <1>3 DEF HeldInv, GuardInventsNone, GuardMissesNone
<1>7. QED
  BY <1>2, <1>4, <1>5, <1>6 DEF GuardInv

(* The mark passes a window when all of it is recorded.                    *)
LEMMA CommitStep ==
    ASSUME GuardInv, CommitWindow
    PROVE  GuardInv'
<1>0. /\ GuardTypeOK /\ ScanInv /\ PlaceInv /\ CacheInv /\ AskedInv
      /\ HeldInv /\ GuardMissesNone
      /\ at = "copy" /\ pending = {} /\ ScanWindow
      /\ at' = "fetch" /\ folder' = 1 /\ i' = 1 /\ found' = {}
      /\ UNCHANGED <<chunk, selected, open, copied, unrecorded, held, twice, depthLimit>>
  BY DEF GuardInv, CommitWindow, destVars
<1>1. start < uidNext /\ mark' = Stop /\ first' = first
  BY <1>0 DEF ScanWindow
<1>2. /\ UIDRange(start, Stop) = start .. Stop /\ start \in Nat \ {0} /\ Stop \in Nat
      /\ start = mark + 1
  BY <1>0, <1>1, IdsFacts
<1>3. start .. Stop \subseteq copied
  BY <1>0, <1>2 DEF pending
<1>4. ScanInv' /\ TypeOK'
  BY <1>0, WindowInv, ScanTypedNext
<1> HIDE DEF Stop
<1>5. first' .. mark' \subseteq copied
  <2>1. first .. mark \subseteq copied
    BY <1>0 DEF HeldInv, GuardInventsNone
  <2>2. first \in Nat /\ mark \in Int
    BY <1>0, <1>2 DEF ScanInv
  <2>3. ASSUME NEW x \in first .. Stop PROVE x \in copied
    <3>1. x \in first .. mark \/ x \in start .. Stop
      BY <1>2, <2>2
    <3>2. QED
      BY <1>3, <2>1, <3>1
  <2>4. QED
    BY <1>1, <2>3
<1>6. unrecorded = {} /\ Held' = Held
  BY <1>0, HeldFacts DEF HeldInv
<1>7. GuardTypeOK'
  BY <1>0, <1>4, BucketFacts, ScanAssumption DEF GuardTypeOK, Places
<1>8. PlaceInv' /\ CacheInv' /\ AskedInv'
  BY <1>0 DEF PlaceInv, CacheInv, AskedInv
<1>9. HeldInv' /\ GuardMissesNone'
  BY <1>0, <1>5, <1>6 DEF HeldInv, GuardInventsNone, GuardMissesNone
<1>10. QED
  BY <1>4, <1>7, <1>8, <1>9 DEF GuardInv

-----------------------------------------------------------------------------
(* The end of the pass, failures and other clients.                        *)

(* The end of a pass keeps the invariant.                                  *)
LEMMA PassDoneStep ==
    ASSUME GuardInv, PassDone
    PROVE  GuardInv'
<1>0. /\ GuardTypeOK /\ ScanInv /\ CacheInv /\ HeldInv /\ GuardMissesNone
      /\ at = "fetch" /\ ScanDone
      /\ UNCHANGED <<at, folder, i, chunk, selected, open, found>>
      /\ UNCHANGED <<copied, unrecorded, held, twice, depthLimit>>
  BY DEF GuardInv, PassDone, guardVars, destVars
<1>1. ScanInv' /\ TypeOK'
  BY <1>0, DoneInv, ScanTypedNext
<1>2. first' = first /\ mark' = mark /\ Held' = Held
  BY <1>0, HeldFacts DEF ScanDone
<1>3. GuardTypeOK'
  BY <1>0, <1>1 DEF GuardTypeOK
<1>4. PlaceInv' /\ CacheInv' /\ AskedInv'
  BY <1>0 DEF PlaceInv, CacheInv, AskedInv
<1>5. HeldInv' /\ GuardMissesNone'
  BY <1>0, <1>2 DEF HeldInv, GuardInventsNone, GuardMissesNone
<1>6. QED
  BY <1>1, <1>3, <1>4, <1>5 DEF GuardInv

(* The next session scans on from the mark and forgets what it had found.  *)
LEMMA FailStep ==
    ASSUME GuardInv, SessionFails
    PROVE  GuardInv'
<1>0. /\ GuardTypeOK /\ ScanInv /\ CacheInv /\ HeldInv /\ GuardMissesNone
      /\ running /\ at' = "fetch" /\ folder' = 1 /\ i' = 1 /\ found' = {}
      /\ chunk' = GuardChunk /\ start' = mark + 1 /\ unrecorded' = {}
      /\ UNCHANGED <<first, uidNext, mark, seen, again, running>>
      /\ UNCHANGED <<copied, held, twice, depthLimit>>
  BY DEF GuardInv, SessionFails
<1>1. selected' \in Range(Buckets) /\ open' = selected'
  BY DEF SessionFails, Select
<1>2. ScanInv'
  BY <1>0 DEF ScanInv
<1>3. TypeOK'
  BY <1>2, ScanTypedNext
<1>4. Held' = Held
  BY <1>0, HeldFacts
<1>5. GuardTypeOK'
  BY <1>0, <1>1, <1>3, BucketFacts, ScanAssumption, GuardAssumption DEF GuardTypeOK, Places
<1>6. PlaceInv' /\ CacheInv' /\ AskedInv'
  BY <1>0, <1>1 DEF PlaceInv, CacheInv, AskedInv
<1>7. HeldInv' /\ GuardMissesNone'
  BY <1>0, <1>4 DEF HeldInv, GuardInventsNone, GuardMissesNone
<1>8. QED
  BY <1>2, <1>5, <1>6, <1>7 DEF GuardInv

(* A copy that changes buckets is still held.                              *)
LEMMA MoveStep ==
    ASSUME GuardInv, MoveCopy
    PROVE  GuardInv'
<1>0. /\ GuardTypeOK /\ ScanInv /\ CacheInv /\ HeldInv /\ GuardMissesNone
      /\ at = "fetch" /\ UNCHANGED vars
      /\ UNCHANGED <<at, folder, i, chunk, found, copied, unrecorded, twice, depthLimit>>
  BY DEF GuardInv, MoveCopy
<1>1. PICK b \in Range(Buckets), c \in Range(Buckets) : \E x \in held[b] :
          held' = [held EXCEPT ![b] = @ \ {x}, ![c] = @ \cup {x}]
  BY DEF MoveCopy
<1>2. PICK u \in held[b] : held' = [held EXCEPT ![b] = @ \ {u}, ![c] = @ \cup {u}]
  BY <1>1
<1>3. /\ selected' \in Range(Buckets) \cup {"none"} /\ open' \in Range(Buckets)
    /\ CacheInv'
  BY <1>0 DEF MoveCopy, GuardTypeOK, CacheInv
<1>4. held \in [Range(Buckets) -> SUBSET Uint32]
  BY <1>0 DEF GuardTypeOK
<1>5. \A d \in Range(Buckets) :
          held'[d] = CASE d = c -> (IF b = c THEN held[c] \ {u} ELSE held[c]) \cup {u}
                       [] d # c /\ d = b -> held[b] \ {u}
                       [] OTHER -> held[d]
  BY <1>1, <1>2, <1>4
<1>6. DOMAIN held' = Range(Buckets) /\ held' = [d \in Range(Buckets) |-> held'[d]]
  BY <1>2, <1>4
<1>7. held' \in [Range(Buckets) -> SUBSET Uint32]
  <2>1. \A d \in Range(Buckets) : held'[d] \subseteq Uint32
    BY <1>1, <1>2, <1>4, <1>5
  <2>2. QED
    BY <1>6, <2>1
<1>8. Held' = Held
  <2>1. ASSUME NEW x PROVE x \in Held' <=> x \in Held
    <3>1. x \in Held' <=> \E d \in Range(Buckets) : x \in held'[d]
      BY DEF Held
    <3>2. x \in Held <=> \E d \in Range(Buckets) : x \in held[d]
      BY DEF Held
    <3>3. CASE x = u
      <4>1. held'[c] = (IF b = c THEN held[c] \ {u} ELSE held[c]) \cup {u}
        BY <1>1, <1>5
      <4>2. QED
        BY <1>1, <1>2, <3>1, <3>2, <3>3, <4>1
    <3>4. CASE x # u
      BY <1>1, <1>5, <3>1, <3>2, <3>4
    <3>5. QED
      BY <3>3, <3>4
  <2>2. QED
    BY <2>1
<1>9. ScanInv' /\ TypeOK'
  BY <1>0, DoneInv, ScanTypedNext
<1>10. first' = first /\ mark' = mark
  BY <1>0 DEF vars
<1>11. GuardTypeOK'
  BY <1>0, <1>3, <1>7, <1>9 DEF GuardTypeOK
<1>12. PlaceInv' /\ CacheInv' /\ AskedInv'
  BY <1>0, <1>3 DEF PlaceInv, CacheInv, AskedInv
<1>13. HeldInv' /\ GuardMissesNone'
  BY <1>0, <1>8, <1>10 DEF HeldInv, GuardInventsNone, GuardMissesNone
<1>14. QED
  BY <1>9, <1>11, <1>12, <1>13 DEF GuardInv

(* A stuttering step keeps the invariant.                                  *)
LEMMA StutterStep ==
    ASSUME GuardInv, UNCHANGED allVars
    PROVE  GuardInv'
<1>0. /\ GuardTypeOK /\ ScanInv /\ PlaceInv /\ CacheInv /\ AskedInv
      /\ HeldInv /\ GuardMissesNone
      /\ UNCHANGED vars /\ UNCHANGED <<at, folder, i, chunk, selected, open, found>>
      /\ UNCHANGED <<copied, unrecorded, held, twice, depthLimit>>
  BY DEF GuardInv, allVars, guardVars, destVars
<1>1. pending' = pending /\ ids' = ids /\ Held' = Held /\ \A u : Index(u)' = Index(u)
  BY <1>0, IdsKept, HeldFacts
<1>2. ScanInv' /\ TypeOK'
  BY <1>0, DoneInv, ScanTypedNext
<1>3. /\ start' = start /\ uidNext' = uidNext /\ running' = running /\ first' = first /\ mark' = mark
  BY <1>0 DEF vars
<1>4. GuardTypeOK'
  BY <1>0, <1>2 DEF GuardTypeOK
<1>5. PlaceInv' /\ CacheInv' /\ AskedInv'
  BY <1>0, <1>1, <1>3 DEF PlaceInv, CacheInv, AskedInv
<1>6. HeldInv' /\ GuardMissesNone'
  BY <1>0, <1>1, <1>3 DEF HeldInv, GuardInventsNone, GuardMissesNone
<1>7. QED
  BY <1>2, <1>4, <1>5, <1>6 DEF GuardInv

(* The invariant holds before the first window.                            *)
LEMMA GuardInitInv ==
    ASSUME MayWrap = FALSE, GuardInit
    PROVE  GuardInv
<1>0. /\ Init /\ at = "fetch" /\ folder = 1 /\ i = 1 /\ found = {} /\ chunk = GuardChunk
      /\ open \in Range(Buckets) /\ selected = open /\ copied = {} /\ unrecorded = {} /\ twice = {}
      /\ depthLimit \in 0 .. OrDepth[GuardChunk]
  BY DEF GuardInit
<1>1. ScanInv
  BY <1>0, InitInv
<1>2. TypeOK
  BY <1>1, ScanAssumption DEF ScanInv, TypeOK, Uint32
<1>3. held \in [Range(Buckets) -> SUBSET Uint32]
  <2>1. PICK where \in [first .. uidNext - 1 -> Range(Buckets) \cup {"none"}] :
            held = [b \in Range(Buckets) |-> {u \in DOMAIN where : where[u] = b}]
    BY DEF GuardInit
  <2>2. DOMAIN where \subseteq Uint32
    BY <1>1, ScanAssumption DEF ScanInv, Uint32
  <2>3. QED
    BY <2>1, <2>2
<1>4. depthLimit \in Nat
  BY <1>0
<1>5. GuardTypeOK
  BY <1>0, <1>2, <1>3, <1>4, BucketFacts, ScanAssumption, GuardAssumption DEF GuardTypeOK, Places
<1>6. first .. mark = {}
  BY <1>0, ScanAssumption DEF Init
<1>7. QED
  BY <1>0, <1>1, <1>5, <1>6 DEF GuardInv, PlaceInv, CacheInv, AskedInv, HeldInv, GuardInventsNone,
     GuardMissesNone

-----------------------------------------------------------------------------
(* The theorems.                                                           *)

(* The invariant holds while no window wraps around the top of uint32.     *)
THEOREM GuardInvariant ==
    ASSUME MayWrap = FALSE
    PROVE  GuardSpec => []GuardInv
<1>1. GuardInit => GuardInv
  BY GuardInitInv, MayWrap = FALSE
<1>2. GuardInv /\ [GuardNext]_allVars => GuardInv'
  BY OpenWindowStep, SelectStep, RefusedStep, AnsweredStep, RecordFoundStep, AppendStep,
     RecordCopiesStep, CommitStep, PassDoneStep, FailStep, MoveStep, StutterStep
     DEF GuardNext, Program, Idle
<1>3. QED
  BY <1>1, <1>2, PTL DEF GuardSpec

(* Type correctness of the guard; in particular its index stays within the *)
(* ids of a window and its chunk never falls to zero.                      *)
THEOREM GuardTypeCorrect ==
    ASSUME MayWrap = FALSE
    PROVE  GuardSpec => []GuardTypeOK
<1>1. GuardInv => GuardTypeOK
  BY DEF GuardInv
<1>2. QED
  BY <1>1, GuardInvariant, MayWrap = FALSE, PTL

(* No Message-ID that some bucket holds is appended again, however ids     *)
(* fall into chunks, windows and sessions and whatever the server refuses. *)
THEOREM GuardMissesNoneCorrect ==
    ASSUME MayWrap = FALSE
    PROVE  GuardSpec => []GuardMissesNone
<1>1. GuardInv => GuardMissesNone
  BY DEF GuardInv
<1>2. QED
  BY <1>1, GuardInvariant, MayWrap = FALSE, PTL

(* What is recorded, and all that the mark passes, is at the destination.  *)
THEOREM GuardInventsNoneCorrect ==
    ASSUME MayWrap = FALSE
    PROVE  GuardSpec => []GuardInventsNone
<1>1. GuardInv => GuardInventsNone
  BY DEF GuardInv, HeldInv
<1>2. QED
  BY <1>1, GuardInvariant, MayWrap = FALSE, PTL

(* The marks stay exact although sessions fail in the middle of a window.  *)
THEOREM GuardScanCorrect ==
    ASSUME MayWrap = FALSE
    PROVE  GuardSpec => []ScannedUpToMark
<1>1. GuardInv => ScannedUpToMark
  BY DEF GuardInv, ScanInv, ScannedUpToMark
<1>2. QED
  BY <1>1, GuardInvariant, MayWrap = FALSE, PTL
=============================================================================
