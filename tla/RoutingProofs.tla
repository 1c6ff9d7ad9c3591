--------------------------- MODULE RoutingProofs ---------------------------
(***************************************************************************)
(* For any folders, keys, configurations and sizes: a copy is where the    *)
(* recorded membership puts it or a move is queued, and it has the keyword *)
(* of each of its labels or an operation that adds it is queued last.      *)
(*                                                                         *)
(* Both hold while no Message-ID contains another: the searches by which   *)
(* propagate finds a copy match substrings.  The keywords need two further *)
(* assumptions, both of which the code leaves to the user: labels with     *)
(* keywords of their own, and labels.propagate left as it is while labels  *)
(* are on.                                                                 *)
(***************************************************************************)
EXTENDS MembershipProofs

(* Copies the program keeps up to date.                                    *)
Ours == (copied \cap RealKeys) \ missed

(* The destination folders in use that hold the copy.                      *)
Held(k) == place[k] \cap Buckets(cfg)

(* No Message-ID contains another.                                         *)
IdsApart == Longer = {}

DestFolders == {DestFolder, SentFolder, ArchiveFolder}

(* Folders the backfill has not finished with.                             *)
Ahead == {back[i] : i \in DOMAIN back}

-----------------------------------------------------------------------------
(* Placement                                                               *)

(* A copy is in one folder, the right one unless a move is queued.         *)
RouteInv ==
    Current /\ Routing(cfg) =>
        \A k \in Ours : /\ \A a, b \in Held(k) : a = b
                        /\ Placed(k) \/ MoveQueued(k)

(* Until the rebuild's removals the rows it found are all there.           *)
StoredInv ==
    Scanning /\ scan.rebuild /\ phase # "rebuilt" =>
        scan.stored \subseteq MemberKeys(scan.folder)

(* A copy that is stored and not yet recorded is where it belongs.         *)
UnsavedInv ==
    unsaved # {} => phase = "mirror" /\ \A k \in unsaved \cap RealKeys : Placed(k)

(* So is a copy whose queued move was applied.                             *)
AppliedInv ==
    /\ phase # "propagate" => done = 0
    /\ Current /\ Routing(cfg) =>
          \A i \in 1 .. done : pending[i].kind = pendingMove /\ pending[i].key \in Ours =>
              Placed(pending[i].key)

(* And so are the copies in the folders the backfill is done with.         *)
BackfillInv ==
    /\ back \in Seq(DestFolders)
    /\ phase = "placing" => back # <<>> /\ bf.folder = Head(back)
    /\ phase \in {"backfill", "placing"} => ~Current
    /\ phase \in {"backfill", "placing"} /\ Routing(cfg) =>
          \A k \in Keys : \A b \in Held(k) :
              \/ b = destFolderFor(cfg, k)
              \/ b \in Ahead /\ (phase = "placing" /\ b = Head(back) => k \in bf.move)

PlacementInv ==
    RouteInv /\ StoredInv /\ UnsavedInv /\ AppliedInv /\ BackfillInv

-----------------------------------------------------------------------------
(* Keywords                                                                *)

(* No two labels have the same keyword.                                    *)
LabelKeywordsDiffer == \A f, g \in Labels : KeywordOf[f] = KeywordOf[g] => f = g

(* labels.propagate is not changed while labels are on: the fingerprint    *)
(* does not contain it, so that no backfill follows.                       *)
PropagateFixed == \A c, d \in Configs : c.labels /\ d.labels => c.propagate = d.propagate

(* All configurations that have labels keep them up to date.               *)
LabelsPropagate == \A c \in Configs : c.labels = c.propagate

(* Queued operations are of recorded copies, and of labels if of keywords. *)
OwnedInv ==
    \A i \in DOMAIN pending :
        /\ pending[i].key \in copied
        /\ pending[i].kind = pendingKeyword => pending[i].folder \in Labels

(* Labels are scanned only while they are switched on.                     *)
WatchInv ==
    /\ phase = "down" => todo = {}
    /\ todo \cap Labels # {} => cfg.labels
    /\ Scanning => scan.folder \in todo

(* The last queued operation on the label adds it.                         *)
LastAdds(k, f) ==
    \E i \in KeywordOps(k, f) : pending[i].op = "add" /\ \A j \in KeywordOps(k, f) : j <= i

(* The queue agrees with the table about the labels a copy has.            *)
QueueInv ==
    \A k \in Ours, f \in Labels :
        MemberHas(f, k) /\ KeywordOps(k, f) # {} => LastAdds(k, f)

(* Without queued operations the keyword is set.                           *)
TagInv ==
    Current /\ cfg.propagate =>
        \A k \in Ours, f \in Labels :
            MemberHas(f, k) /\ Held(k) # {} /\ KeywordOps(k, f) = {} => KeywordOf[f] \in keywords[k]

(* The last operation that was applied has had its effect.                 *)
AppliedTagInv ==
    cfg.propagate =>
        \A k \in Keys, f \in Labels : \A i \in KeywordOps(k, f) :
            /\ i <= done /\ pending[i].op = "add" /\ Held(k) # {}
            /\ \A j \in KeywordOps(k, f) : j <= done => j <= i
            => KeywordOf[f] \in keywords[k]

(* A copy is made with the keywords of its labels.                         *)
UnsavedTagInv ==
    cfg.labels => \A k \in unsaved, f \in Labels : MemberHas(f, k) => KeywordOf[f] \in keywords[k]

(* The backfill tags a folder before it moves copies away from it.         *)
BackfillTagInv ==
    phase \in {"backfill", "placing"} /\ cfg.labels =>
        /\ Ahead \subseteq Buckets(cfg)
        /\ \A k \in Keys : \A b \in Held(k) :
              \/ missingKeywords(k) = {}
              \/ b \in Ahead /\ (phase = "placing" /\ b = Head(back) => k \in bf.tag)
        /\ phase = "placing" => \A k \in bf.move : Head(back) \in place[k]

KeywordInv ==
    /\ PlacementInv
    /\ OwnedInv /\ WatchInv /\ QueueInv
    /\ TagInv /\ AppliedTagInv /\ UnsavedTagInv /\ BackfillTagInv

-----------------------------------------------------------------------------
(* The destination folders as a list and as a set.                         *)

Elements(q) == {q[i] : i \in 1 .. Len(q)}

(* Lists of one element and of none.                                       *)
LEMMA ShortLists ==
    ASSUME NEW S, NEW x \in S
    PROVE  /\ <<x>> \in Seq(S) /\ Len(<<x>>) = 1 /\ Elements(<<x>>) = {x}
           /\ <<>> \in Seq(S) /\ Len(<<>>) = 0 /\ Elements(<<>>) = {}
<1>1. <<x>> \in Seq(S) /\ Len(<<x>>) = 1 /\ <<x>>[1] = x
  OBVIOUS
<1>2. <<>> \in Seq(S) /\ Len(<<>>) = 0
  OBVIOUS
<1>3. Elements(<<x>>) = {x}
  <2>1. 1 .. 1 = {1}
    OBVIOUS
  <2>2. QED
    BY <1>1, <2>1 DEF Elements
<1>4. Elements(<<>>) = {}
  <2>1. 1 .. 0 = {}
    OBVIOUS
  <2>2. QED
    BY <1>2, <2>1 DEF Elements
<1>5. QED
  BY <1>1, <1>2, <1>3, <1>4

(* What a concatenation holds.                                             *)
LEMMA ConcatHolds ==
    ASSUME NEW S, NEW s \in Seq(S), NEW t \in Seq(S)
    PROVE  /\ s \o t \in Seq(S) /\ Len(s \o t) = Len(s) + Len(t)
           /\ \A i \in 1 .. Len(s) : (s \o t)[i] = s[i]
           /\ \A i \in 1 .. Len(t) : (s \o t)[Len(s) + i] = t[i]
           /\ Elements(s \o t) = Elements(s) \cup Elements(t)
<1> DEFINE r == s \o t
<1>0. Len(s) \in Nat /\ Len(t) \in Nat
  OBVIOUS
<1>1. /\ r \in Seq(S) /\ Len(r) = Len(s) + Len(t)
      /\ \A i \in 1 .. Len(s) + Len(t) : r[i] = IF i <= Len(s) THEN s[i] ELSE t[i - Len(s)]
  BY ConcatProperties
<1> HIDE DEF r
<1>2. \A i \in 1 .. Len(s) : r[i] = s[i] /\ i \in 1 .. Len(r)
  BY <1>0, <1>1
<1>3. \A i \in 1 .. Len(t) : r[Len(s) + i] = t[i] /\ Len(s) + i \in 1 .. Len(r)
  BY <1>0, <1>1
<1>4. ASSUME NEW i \in 1 .. Len(r), i > Len(s)
      PROVE  i - Len(s) \in 1 .. Len(t) /\ r[i] = t[i - Len(s)]
  BY <1>0, <1>1, <1>4
<1>5. ASSUME NEW i \in 1 .. Len(r), i <= Len(s)
      PROVE  i \in 1 .. Len(s) /\ r[i] = s[i]
  BY <1>0, <1>1, <1>5
<1>6. Elements(r) \subseteq Elements(s) \cup Elements(t)
  <2>1. SUFFICES ASSUME NEW i \in 1 .. Len(r)
                 PROVE  r[i] \in Elements(s) \/ r[i] \in Elements(t)
    BY DEF Elements
  <2>2. i <= Len(s) \/ i > Len(s)
    BY <1>0, <1>1
  <2>3. CASE i <= Len(s)
    BY <1>5, <2>3 DEF Elements
  <2>4. CASE i > Len(s)
    BY <1>4, <2>4 DEF Elements
  <2>5. QED
    BY <2>2, <2>3, <2>4
<1>7. Elements(s) \subseteq Elements(r) /\ Elements(t) \subseteq Elements(r)
  BY <1>2, <1>3 DEF Elements
<1>8. QED
  BY <1>1, <1>2, <1>3, <1>6, <1>7 DEF r

(* The list destBucketFolders returns has the buckets, at most three.      *)
LEMMA BucketListFacts ==
    ASSUME NEW c
    PROVE  /\ destBucketFolders(c) \in Seq(DestFolders)
           /\ Len(destBucketFolders(c)) \in 1 .. 3
           /\ DOMAIN destBucketFolders(c) = 1 .. Len(destBucketFolders(c))
           /\ Elements(destBucketFolders(c)) = Buckets(c)
<1> DEFINE d == <<DestFolder>>
           s == IF c.sent THEN <<SentFolder>> ELSE <<>>
           a == IF c.archive THEN <<ArchiveFolder>> ELSE <<>>
<1>0. DestFolder \in DestFolders /\ SentFolder \in DestFolders /\ ArchiveFolder \in DestFolders
  BY DEF DestFolders
<1>1. d \in Seq(DestFolders) /\ Len(d) = 1 /\ Elements(d) = {DestFolder}
  BY <1>0, ShortLists
<1>2. /\ s \in Seq(DestFolders) /\ Len(s) \in {0, 1}
      /\ Elements(s) = IF c.sent THEN {SentFolder} ELSE {}
  BY <1>0, ShortLists
<1>3. /\ a \in Seq(DestFolders) /\ Len(a) \in {0, 1}
      /\ Elements(a) = IF c.archive THEN {ArchiveFolder} ELSE {}
  BY <1>0, ShortLists
<1>4. destBucketFolders(c) = d \o s \o a
  BY DEF destBucketFolders
<1> HIDE DEF d, s, a
<1> DEFINE ds == d \o s
<1>5. /\ ds \in Seq(DestFolders) /\ Len(ds) = Len(d) + Len(s)
      /\ Elements(ds) = Elements(d) \cup Elements(s)
  BY <1>1, <1>2, ConcatHolds
<1>6. destBucketFolders(c) = ds \o a
  BY <1>4
<1> HIDE DEF ds
<1>7. /\ ds \o a \in Seq(DestFolders) /\ Len(ds \o a) = Len(ds) + Len(a)
      /\ Elements(ds \o a) = Elements(ds) \cup Elements(a)
  BY <1>3, <1>5, ConcatHolds
<1> DEFINE r == destBucketFolders(c)
<1>8. /\ r \in Seq(DestFolders) /\ Len(r) = Len(d) + Len(s) + Len(a)
      /\ Elements(r) = Elements(d) \cup Elements(s) \cup Elements(a)
  BY <1>5, <1>6, <1>7
<1> HIDE DEF r
<1>9. Len(r) \in 1 .. 3
  <2>1. \A x, y \in {0, 1} : 1 + x + y \in 1 .. 3
    OBVIOUS
  <2>2. Len(r) = 1 + Len(s) + Len(a)
    BY <1>1, <1>8
  <2>3. QED
    BY <1>2, <1>3, <2>1, <2>2
<1>10. Elements(r) = Buckets(c)
  BY <1>1, <1>2, <1>3, <1>8 DEF Buckets
<1>11. DOMAIN r = 1 .. Len(r)
  BY <1>8
<1>12. QED
  BY <1>8, <1>9, <1>10, <1>11 DEF r

(* A set of at most three indexes has a least one.                         *)
LEMMA LeastOfThree ==
    ASSUME NEW n \in 1 .. 3, NEW S \in SUBSET (1 .. n), S # {}
    PROVE  \E i \in S : \A j \in S : i <= j
<1>1. \A i \in S : i \in 1 .. 3
  OBVIOUS
<1>2. CASE 1 \in S
  BY <1>1, <1>2
<1>3. CASE 1 \notin S /\ 2 \in S
  BY <1>1, <1>3
<1>4. CASE 1 \notin S /\ 2 \notin S
  <2>1. \A i \in S : i = 3
    BY <1>1, <1>4
  <2>2. PICK i \in S : TRUE
    OBVIOUS
  <2>3. \A j \in S : i <= j
    BY <2>1, SMT
  <2>4. QED
    BY <2>3
<1>5. QED
  BY <1>2, <1>3, <1>4

(* What an operation does to its own copy, the only one it reaches when    *)
(* Message-IDs are apart.                                                  *)
MovedCopy(k) ==
    LET desired == destFolderFor(cfg, k)
        bucket == destBucketFolders(cfg)
        holds == {i \in DOMAIN bucket : bucket[i] # desired /\ bucket[i] \in place[k]}
        from == {bucket[i] : i \in {i \in holds : \A j \in holds : i <= j}}
    IN IF holds = {} THEN place[k] ELSE (place[k] \ from) \cup {desired}

RetaggedCopy(op) ==
    LET kw == KeywordOf[op.folder] IN
    IF ~cfg.propagate \/ place[op.key] \cap Buckets(cfg) = {} THEN keywords[op.key]
    ELSE IF op.op = "add" THEN keywords[op.key] \cup {kw} ELSE keywords[op.key] \ {kw}

AppliesToOne ==
    LET op == pending[done + 1] IN
    IF op.kind = pendingMove
    THEN /\ place' = IF Routing(cfg) THEN [place EXCEPT ![op.key] = MovedCopy(op.key)] ELSE place
         /\ UNCHANGED keywords
    ELSE /\ keywords' = [keywords EXCEPT ![op.key] = RetaggedCopy(op)]
         /\ UNCHANGED place

(* A move takes the one copy there is to where it belongs, and makes no    *)
(* copy appear in the buckets.                                             *)
LEMMA MovedFacts ==
    ASSUME NEW k
    PROVE  /\ (\A a, b \in Held(k) : a = b) =>
                  MovedCopy(k) \cap Buckets(cfg) \subseteq {destFolderFor(cfg, k)}
           /\ Held(k) = {} => MovedCopy(k) = place[k]
<1> DEFINE desired == destFolderFor(cfg, k)
           bucket == destBucketFolders(cfg)
           holds == {i \in DOMAIN bucket : bucket[i] # desired /\ bucket[i] \in place[k]}
           least == {i \in holds : \A j \in holds : i <= j}
           from == {bucket[i] : i \in least}
<1>1. MovedCopy(k) = IF holds = {} THEN place[k] ELSE (place[k] \ from) \cup {desired}
  BY Zenon DEF MovedCopy
<1>2. /\ Len(bucket) \in 1 .. 3 /\ DOMAIN bucket = 1 .. Len(bucket)
      /\ {bucket[i] : i \in 1 .. Len(bucket)} = Buckets(cfg)
  BY BucketListFacts DEF Elements
<1>3. holds # {} => least # {}
  <2>1. holds \in SUBSET (1 .. Len(bucket))
    BY <1>2
  <2>2. holds # {} => \E i \in holds : \A j \in holds : i <= j
    BY <1>2, <2>1, LeastOfThree
  <2>3. QED
    BY <2>2
<1>4. \A i \in holds : bucket[i] \in Held(k)
  BY <1>2 DEF Held
<1>5. \A b \in Held(k) : b = desired \/ \E i \in holds : b = bucket[i]
  BY <1>2 DEF Held
<1>6. least \subseteq holds
  OBVIOUS
<1> HIDE DEF desired, bucket, holds, least
<1>7. ASSUME \A a, b \in Held(k) : a = b
      PROVE  MovedCopy(k) \cap Buckets(cfg) \subseteq {desired}
  <2>1. CASE holds = {}
    BY <1>1, <1>5, <2>1 DEF Held
  <2>2. CASE holds # {}
    <3>1. PICK m \in least : TRUE
      BY <1>3, <2>2
    <3>2. Held(k) \subseteq from
      BY <1>4, <1>6, <1>7, <3>1
    <3>3. QED
      BY <1>1, <2>2, <3>2 DEF Held
  <2>3. QED
    BY <2>1, <2>2
<1>8. Held(k) = {} => MovedCopy(k) = place[k]
  BY <1>1, <1>4
<1>9. QED
  BY <1>7, <1>8 DEF desired

(* A search finds the one copy asked for.                                  *)
LEMMA ExactHits ==
    ASSUME IdsApart, NEW k \in Keys, NEW f
    PROVE  Hits(f, k) = IF f \in place[k] THEN {k} ELSE {}
  BY DEF IdsApart, Hits

(* A move concerns one copy.                                               *)
LEMMA ExactMove ==
    ASSUME IdsApart, NEW k \in Keys, place \in [Keys -> SUBSET DestFolders]
    PROVE  Moved(k) = [place EXCEPT ![k] = MovedCopy(k)]
<1> DEFINE desired == destFolderFor(cfg, k)
           bucket == destBucketFolders(cfg)
           holds == {i \in DOMAIN bucket : bucket[i] # desired /\ bucket[i] \in place[k]}
           hit == {i \in DOMAIN bucket :
                      bucket[i] \in Buckets(cfg) \ {desired} /\ Hits(bucket[i], k) # {}}
           from == {bucket[i] : i \in {i \in holds : \A j \in holds : i <= j}}
<1>1. MovedCopy(k) = IF holds = {} THEN place[k] ELSE (place[k] \ from) \cup {desired}
  BY Zenon DEF MovedCopy
<1>2. /\ Len(bucket) \in 1 .. 3 /\ DOMAIN bucket = 1 .. Len(bucket)
      /\ {bucket[i] : i \in 1 .. Len(bucket)} = Buckets(cfg)
  BY BucketListFacts DEF Elements
<1>3. hit = holds
  BY <1>2, ExactHits
<1>4. FirstWith(k, Buckets(cfg) \ {desired}) =
          {bucket[i] : i \in {i \in hit : \A j \in hit : i <= j}}
  BY Zenon DEF FirstWith
<1>5. FirstWith(k, Buckets(cfg) \ {desired}) = from
  BY <1>3, <1>4, Zenon
<1>6. Moved(k) = [l \in Keys |-> IF \E f \in from : l \in Hits(f, k)
                                 THEN (place[l] \ from) \cup {desired} ELSE place[l]]
  BY <1>5, Zenon DEF Moved
<1>7. (\E f \in from : f \in place[k]) <=> holds # {}
  <2>1. holds \subseteq 1 .. Len(bucket) /\ \A i \in holds : bucket[i] \in place[k]
    BY <1>2
  <2>2. holds # {} => \E i \in holds : \A j \in holds : i <= j
    BY <1>2, <2>1, LeastOfThree
  <2> HIDE DEF holds
  <2>3. QED
    BY <2>1, <2>2
<1> HIDE DEF desired, bucket, holds, hit, from
<1>8. ASSUME NEW l \in Keys
      PROVE  Moved(k)[l] = [place EXCEPT ![k] = MovedCopy(k)][l]
  <2>1. CASE l = k
    BY <1>1, <1>6, <1>7, <2>1, ExactHits
  <2>2. CASE l # k
    <3>1. \A f : l \notin Hits(f, k)
      BY <2>2, ExactHits
    <3>2. QED
      BY <1>6, <2>2, <3>1
  <2>3. QED
    BY <2>1, <2>2
<1>9. QED
  BY <1>6, <1>8

(* So does a change of keywords.                                           *)
LEMMA ExactRetag ==
    ASSUME IdsApart, NEW op, op.key \in Keys, place \in [Keys -> SUBSET DestFolders],
           keywords \in [Keys -> SUBSET {KeywordOf[f] : f \in Watched}]
    PROVE  Retagged(op) = [keywords EXCEPT ![op.key] = RetaggedCopy(op)]
<1> DEFINE bucket == destBucketFolders(cfg)
           hit == {i \in DOMAIN bucket : bucket[i] \in Buckets(cfg) /\ Hits(bucket[i], op.key) # {}}
           from == {bucket[i] : i \in {i \in hit : \A j \in hit : i <= j}}
           kw == KeywordOf[op.folder]
<1>1. /\ Len(bucket) \in 1 .. 3 /\ DOMAIN bucket = 1 .. Len(bucket)
      /\ {bucket[i] : i \in 1 .. Len(bucket)} = Buckets(cfg)
  BY BucketListFacts DEF Elements
<1>2. FirstWith(op.key, Buckets(cfg)) = from
  BY Zenon DEF FirstWith
<1>3. Retagged(op) = [l \in Keys |->
          IF ~cfg.propagate \/ \A f \in from : l \notin Hits(f, op.key) THEN keywords[l]
          ELSE IF op.op = "add" THEN keywords[l] \cup {kw} ELSE keywords[l] \ {kw}]
  BY <1>2, Zenon DEF Retagged
<1>4. (\E f \in from : f \in place[op.key]) <=> place[op.key] \cap Buckets(cfg) # {}
  <2>1. /\ hit \subseteq 1 .. Len(bucket)
        /\ \A i \in hit : bucket[i] \in place[op.key] \cap Buckets(cfg)
        /\ \A b \in place[op.key] \cap Buckets(cfg) : \E i \in hit : b = bucket[i]
    BY <1>1, ExactHits
  <2>2. hit # {} => \E i \in hit : \A j \in hit : i <= j
    BY <1>1, <2>1, LeastOfThree
  <2> HIDE DEF hit
  <2>3. QED
    BY <2>1, <2>2
<1> HIDE DEF bucket, hit, from
<1>5. ASSUME NEW l \in Keys
      PROVE  Retagged(op)[l] = [keywords EXCEPT ![op.key] = RetaggedCopy(op)][l]
  <2>1. CASE l = op.key
    <3>1. (\A f \in from : l \notin Hits(f, op.key)) <=> place[op.key] \cap Buckets(cfg) = {}
      BY <1>4, <2>1, ExactHits
    <3>2. QED
      BY <1>3, <2>1, <3>1 DEF RetaggedCopy
  <2>2. CASE l # op.key
    <3>1. \A f : l \notin Hits(f, op.key)
      BY <2>2, ExactHits
    <3>2. QED
      BY <1>3, <2>2, <3>1
  <2>3. QED
    BY <2>1, <2>2
<1>6. QED
  BY <1>3, <1>5

(* An operation of the queue concerns one copy.                            *)
LEMMA ExactApply ==
    ASSUME IdsApart, MembershipInv, applyPending
    PROVE  AppliesToOne
<1>1. /\ place \in [Keys -> SUBSET DestFolders]
      /\ keywords \in [Keys -> SUBSET {KeywordOf[f] : f \in Watched}]
  BY TypeParts DEF MembershipInv, DestType, DestFolders
<1>2. PICK op : op = pending[done + 1]
  OBVIOUS
<1>3. op.key \in Keys
  <2>1. done + 1 \in 1 .. Len(pending) /\ pending \in Seq(PendingOp)
    BY TypeParts DEF MembershipInv, QueueType, applyPending
  <2>2. op \in PendingOp
    BY <1>2, <2>1
  <2>3. QED
    BY <2>2, MembershipAssumption DEF PendingOp
<1>4. Moved(op.key) = [place EXCEPT ![op.key] = MovedCopy(op.key)]
  BY <1>1, <1>3, ExactMove
<1>5. Retagged(op) = [keywords EXCEPT ![op.key] = RetaggedCopy(op)]
  BY <1>1, <1>3, ExactRetag
<1>6. CASE op.kind = pendingMove
  BY <1>2, <1>4, <1>6 DEF applyPending, AppliesToOne
<1>7. CASE op.kind # pendingMove
  BY <1>2, <1>5, <1>7 DEF applyPending, AppliesToOne
<1>8. QED
  BY <1>6, <1>7

-----------------------------------------------------------------------------
(* What a change of membership queues.                                     *)

(* Exactly one operation is appended for each of the keys in K.            *)
Enqueues(f, op, K) ==
    /\ Len(pending') >= Len(pending)
    /\ \A i \in 1 .. Len(pending) : pending'[i] = pending[i]
    /\ \A i \in 1 .. Len(pending') : i > Len(pending) =>
          /\ pending'[i].kind = WatchedKind(cfg, f) /\ pending'[i].folder = f
          /\ pending'[i].op = op /\ pending'[i].key \in K
    /\ \A k \in K : \E i \in 1 .. Len(pending') : i > Len(pending) /\ pending'[i].key = k
    /\ \A i, j \in 1 .. Len(pending') :
          i > Len(pending) /\ j > Len(pending) /\ pending'[i].key = pending'[j].key => i = j

(* The keys of K whose change calls for an operation.                      *)
Gated(f, K) == {k \in K : WatchedKind(cfg, f) # none /\ gatePending(k)}

(* The keys the window shows.                                              *)
Shown == {mail[scan.folder][u] : u \in scan.start .. WindowStop} \ {NoMail}

(* A list of the keys in K gives the operations Enqueues speaks of.        *)
LEMMA EnqueueFacts ==
    ASSUME QueueType, PassType, NEW op \in {"add", "remove"}, NEW K, NEW n \in Nat,
           NEW order \in [1 .. n -> K], \A k \in K : \E j \in 1 .. n : order[j] = k,
           \A i, j \in 1 .. n : order[i] = order[j] => i = j,
           K \subseteq RealKeys, K # {} => WatchedKind(cfg, scan.folder) # none,
           pending' = pending \o PendingOps(WatchedKind(cfg, scan.folder), scan.folder, op, order)
    PROVE  Enqueues(scan.folder, op, K)
<1> DEFINE f == scan.folder
           kind == WatchedKind(cfg, f)
           Op(j) == [kind |-> kind, key |-> order[j], folder |-> f, op |-> op]
           s == [j \in 1 .. n |-> Op(j)]
<1>1. f \in Watched /\ pending \in Seq(PendingOp) /\ Len(pending) \in Nat
  BY ScanFacts DEF QueueType
<1>2. \A j \in 1 .. n : order[j] \in K /\ Op(j) \in PendingOp
  <2>1. \A j \in 1 .. n : order[j] \in RealKeys /\ kind \in {pendingMove, pendingKeyword}
    BY <1>1, KindFacts
  <2>2. QED
    BY <1>1, <2>1 DEF PendingOp
<1>3. pending' = pending \o s
  BY DEF PendingOps
<1>4. s \in Seq(PendingOp) /\ Len(s) = n /\ \A j \in 1 .. n : s[j] = Op(j)
  <2> HIDE DEF Op
  <2>1. QED
    BY <1>2
<1>5. \A j \in 1 .. n : /\ Op(j).kind = kind /\ Op(j).key = order[j]
                       /\ Op(j).folder = f /\ Op(j).op = op
  OBVIOUS
<1> HIDE DEF s, Op
<1>6. /\ Len(pending \o s) = Len(pending) + Len(s)
      /\ \A i \in 1 .. Len(pending) : (pending \o s)[i] = pending[i]
      /\ \A i \in 1 .. Len(s) : (pending \o s)[Len(pending) + i] = s[i]
  <2>1. pending \in Seq(PendingOp) /\ s \in Seq(PendingOp)
    BY <1>1, <1>4
  <2>2. \A x, y \in Seq(PendingOp) :
           /\ Len(x \o y) = Len(x) + Len(y)
           /\ \A i \in 1 .. Len(x) : (x \o y)[i] = x[i]
           /\ \A i \in 1 .. Len(y) : (x \o y)[Len(x) + i] = y[i]
    BY ConcatHolds
  <2>3. QED
    BY <2>1, <2>2, Zenon
<1>7. /\ Len(pending') = Len(pending) + n
      /\ \A i \in 1 .. Len(pending) : pending'[i] = pending[i]
      /\ \A j \in 1 .. n : pending'[Len(pending) + j] = Op(j)
  BY <1>3, <1>4, <1>6
<1>8. ASSUME NEW i \in 1 .. Len(pending'), i > Len(pending)
      PROVE  \E j \in 1 .. n : pending'[i] = Op(j)
  <2>1. i - Len(pending) \in 1 .. n /\ i = Len(pending) + (i - Len(pending))
    BY <1>1, <1>7, <1>8
  <2>2. QED
    BY <1>7, <2>1
<1>9. ASSUME NEW k \in K
      PROVE  \E i \in 1 .. Len(pending') : i > Len(pending) /\ pending'[i].key = k
  <2>1. PICK j \in 1 .. n : order[j] = k
    OBVIOUS
  <2>2. Len(pending) + j \in 1 .. Len(pending') /\ Len(pending) + j > Len(pending)
    BY <1>1, <1>7
  <2>3. pending'[Len(pending) + j].key = k
    BY <1>7, <1>5, <2>1
  <2>4. QED
    BY <2>2, <2>3
<1>10. Len(pending') >= Len(pending)
  BY <1>1, <1>7
<1>11. ASSUME NEW i \in 1 .. Len(pending'), i > Len(pending)
       PROVE  /\ pending'[i].kind = WatchedKind(cfg, f) /\ pending'[i].folder = f
              /\ pending'[i].op = op /\ pending'[i].key \in K
  <2>1. PICK j \in 1 .. n : pending'[i] = Op(j)
    BY <1>8, <1>11
  <2>2. Op(j).kind = kind /\ Op(j).key \in K /\ Op(j).folder = f /\ Op(j).op = op
    BY <1>2, <1>5
  <2>3. QED
    BY <2>1, <2>2
<1>12. ASSUME NEW i \in 1 .. Len(pending'), NEW j \in 1 .. Len(pending'),
              i > Len(pending), j > Len(pending), pending'[i].key = pending'[j].key
       PROVE  i = j
  <2>1. \A m \in 1 .. Len(pending') : m > Len(pending) =>
           m - Len(pending) \in 1 .. n /\ m = Len(pending) + (m - Len(pending))
    BY <1>1, <1>7
  <2>2. /\ i - Len(pending) \in 1 .. n /\ j - Len(pending) \in 1 .. n
        /\ i = Len(pending) + (i - Len(pending)) /\ j = Len(pending) + (j - Len(pending))
    BY <1>12, <2>1
  <2>3. PICK a \in 1 .. n, b \in 1 .. n : i = Len(pending) + a /\ j = Len(pending) + b
    BY <2>2
  <2>4. pending'[i].key = order[a] /\ pending'[j].key = order[b]
    BY <1>7, <1>5, <2>3
  <2>5. a = b
    BY <1>12, <2>4
  <2>6. QED
    BY <2>3, <2>5
<1>13. QED
  BY <1>7, <1>9, <1>10, <1>11, <1>12, Zenon DEF Enqueues

(* A removal queues one operation for each gated key that is gone.         *)
LEMMA RemovalsEnqueue ==
    ASSUME QueueType, PassType, NEW gone, recordRemovals(gone)
    PROVE  Enqueues(scan.folder, "remove", Gated(scan.folder, gone))
<1> DEFINE K == Gated(scan.folder, gone)
           n == Cardinality(K)
<1>1. PICK o \in Orders(K) :
         pending' = pending \o PendingOps(WatchedKind(cfg, scan.folder), scan.folder, "remove", o)
  BY DEF recordRemovals, Gated
<1>2. K \subseteq RealKeys /\ (K # {} => WatchedKind(cfg, scan.folder) # none)
  BY DEF Gated, gatePending
<1>3. IsFiniteSet(K) /\ n \in Nat
  BY <1>2, Finite, MembershipAssumption
<1> HIDE DEF K, n
<1>4. /\ o \in [1 .. n -> K] /\ \A k \in K : \E j \in 1 .. n : o[j] = k
      /\ \A i, j \in 1 .. n : o[i] = o[j] => i = j
  BY <1>3, OrdersFacts DEF n
<1>5. QED
  BY <1>1, <1>2, <1>3, <1>4, EnqueueFacts DEF K

(* A window queues one for each gated key it shows and a rebuild does not  *)
(* suppress.                                                               *)
LEMMA AdditionsEnqueue ==
    ASSUME QueueType, PassType, MailInv, SelectedInv, recordAdditions
    PROVE  Enqueues(scan.folder, "add", Gated(scan.folder, {k \in Shown : ~Suppressed(k)}))
<1> DEFINE f == scan.folder
           kind == WatchedKind(cfg, f)
           metas == {u \in scan.start .. WindowStop : mail[f][u] # NoMail}
           key == [u \in metas |-> mail[f][u]]
           gated == {u \in metas : kind # none /\ ~Suppressed(key[u]) /\ gatePending(key[u])}
           K == Gated(f, {k \in Shown : ~Suppressed(k)})
           n == Cardinality(gated)
<1>1. PICK o \in Ascending(gated) :
         pending' = pending \o PendingOps(kind, f, "add", [i \in DOMAIN o |-> key[o[i]]])
  BY DEF recordAdditions
<1>2. o \in Orders(gated)
  BY DEF Ascending
<1>3. gated \subseteq UIDs
  <2>1. /\ scan.start \in Nat /\ scan.next \in 0 .. MaxUID + 1
        /\ MaxUID \in Nat /\ WindowStop \in scan.start .. scan.next - 1
    BY ScanFacts DEF recordAdditions
  <2>2. scan.start >= 1
    BY DEF SelectedInv, Scanning, recordAdditions
  <2>3. scan.start .. WindowStop \subseteq UIDs
    BY <2>1, <2>2 DEF UIDs
  <2>4. QED
    BY <2>3
<1>4. IsFiniteSet(gated) /\ n \in Nat
  BY <1>3, Finite
<1>5. K \subseteq RealKeys /\ (K # {} => kind # none)
  BY DEF Gated, gatePending
<1>6. (\A u \in gated : key[u] \in K) /\ \A k \in K : \E u \in gated : key[u] = k
  <2>1. \A u \in metas : key[u] = mail[f][u]
    OBVIOUS
  <2>2. \A k : k \in Shown <=> \E u \in metas : k = mail[f][u]
    BY DEF Shown
  <2> HIDE DEF metas, key
  <2>3. QED
    BY <2>1, <2>2 DEF Gated
<1>7. \A u, v \in gated : key[u] = key[v] => u = v
  <2>1. f \in Watched
    BY ScanFacts
  <2>2. \A u \in gated : key[u] = mail[f][u] /\ mail[f][u] # NoMail /\ u \in UIDs
    BY <1>3
  <2> HIDE DEF gated, key
  <2>3. QED
    BY <2>1, <2>2 DEF MailInv
<1> HIDE DEF gated, n, key, K
<1>8. /\ o \in [1 .. n -> gated] /\ DOMAIN o = 1 .. n
      /\ \A u \in gated : \E j \in 1 .. n : o[j] = u
      /\ \A i, j \in 1 .. n : o[i] = o[j] => i = j
  BY <1>2, <1>4, OrdersFacts DEF n
<1> DEFINE order == [i \in 1 .. n |-> key[o[i]]]
<1>9. order \in [1 .. n -> K] /\ \A k \in K : \E j \in 1 .. n : order[j] = k
  BY <1>6, <1>8
<1>10. pending' = pending \o PendingOps(kind, f, "add", order)
  BY <1>1, <1>8
<1>11. \A i, j \in 1 .. n : order[i] = order[j] => i = j
  <2>1. \A i \in 1 .. n : order[i] = key[o[i]] /\ o[i] \in gated
    BY <1>8
  <2> HIDE DEF order
  <2>2. QED
    BY <1>8, <1>7, <2>1
<1> HIDE DEF order
<1>12. QED
  BY <1>4, <1>5, <1>9, <1>10, <1>11, EnqueueFacts DEF K

-----------------------------------------------------------------------------
(* What the place of a copy depends on.                                    *)

(* Only the routes in use and the rows they look at matter.                *)
LEMMA SameRoutes ==
    ASSUME cfg'.archive = cfg.archive, cfg'.sent = cfg.sent
    PROVE  /\ Routing(cfg)' <=> Routing(cfg)
           /\ Buckets(cfg)' = Buckets(cfg)
           /\ \A k : /\ MemberHas(SourceInbox, k)' <=> MemberHas(SourceInbox, k)
                     /\ cfg.sent => (MemberHas(SentSrcFolder, k)' <=> MemberHas(SentSrcFolder, k))
                     => destFolderFor(cfg, k)' = destFolderFor(cfg, k)
<1>1. (Routing(cfg)' <=> Routing(cfg)) /\ Buckets(cfg)' = Buckets(cfg)
  BY DEF Routing, Buckets
<1>2. ASSUME NEW k, MemberHas(SourceInbox, k)' <=> MemberHas(SourceInbox, k),
             cfg.sent => (MemberHas(SentSrcFolder, k)' <=> MemberHas(SentSrcFolder, k))
      PROVE  destFolderFor(cfg, k)' = destFolderFor(cfg, k)
  <2>1. (Routing(cfg) /\ MemberHas(SourceInbox, k))' <=> (Routing(cfg) /\ MemberHas(SourceInbox, k))
    BY <1>1, <1>2
  <2>2. (cfg.sent /\ MemberHas(SentSrcFolder, k))' <=> (cfg.sent /\ MemberHas(SentSrcFolder, k))
    BY <1>2
  <2>3. QED
    BY <1>2, <2>1, <2>2 DEF destFolderFor
<1>3. QED
  BY <1>1, <1>2

(* A step that leaves the routes, the rows and the copies alone.           *)
LEMMA SamePlaces ==
    ASSUME UNCHANGED <<members, cfg>>
    PROVE  /\ Routing(cfg)' <=> Routing(cfg)
           /\ Buckets(cfg)' = Buckets(cfg)
           /\ \A k : destFolderFor(cfg, k)' = destFolderFor(cfg, k)
           /\ \A k : place'[k] = place[k] => /\ Held(k)' = Held(k)
                                             /\ Placed(k)' <=> Placed(k)
<1>1. \A f, k : MemberHas(f, k)' <=> MemberHas(f, k)
  BY DEF MemberHas
<1>2. /\ Routing(cfg)' <=> Routing(cfg)
      /\ Buckets(cfg)' = Buckets(cfg)
      /\ \A k : destFolderFor(cfg, k)' = destFolderFor(cfg, k)
  BY <1>1, SameRoutes
<1>3. QED
  BY <1>2 DEF Held, Placed

-----------------------------------------------------------------------------
(* The parts of the invariant, one at a time.                              *)

(* A window adds rows for what it shows.                                   *)
LEMMA AddedHas ==
    ASSUME SourceType, TableType, PassType, MailInv, SelectedInv, recordAdditions,
           NEW f \in Watched, NEW k \in Keys
    PROVE  /\ MemberHas(f, k) => MemberHas(f, k)'
           /\ MemberHas(f, k)' => MemberHas(f, k) \/ (f = scan.folder /\ k \in Shown)
<1>1. CASE f # scan.folder
  <2>1. members'[f] = members[f]
    BY <1>1, AddedRows
  <2>2. QED
    BY <2>1 DEF MemberHas
<1>2. CASE f = scan.folder
  <2>1. NoMail # k
    BY MembershipAssumption
  <2>2. k \in Shown <=> \E u \in scan.start .. WindowStop : mail[f][u] = k
    BY <1>2, <2>1 DEF Shown
  <2>3. ASSUME k \notin Shown
        PROVE  members'[f][k] = members[f][k]
    BY <1>2, <2>2, <2>3, AddedRows
  <2>4. ASSUME k \in Shown
        PROVE  members'[f][k] # 0
    <3>1. PICK u \in scan.start .. WindowStop : mail[f][u] = k
      BY <2>2, <2>4
    <3>2. members'[f][k] = u /\ u \in UIDs
      BY <1>2, <2>1, <3>1, AddedRows
    <3>3. QED
      BY <3>2 DEF UIDs
  <2>5. /\ members[f][k] # 0 => members'[f][k] # 0
        /\ members'[f][k] # 0 => members[f][k] # 0 \/ k \in Shown
    BY <2>3, <2>4
  <2>6. QED
    BY <1>2, <2>5 DEF MemberHas
<1>3. QED
  BY <1>1, <1>2

(* A rebuild keeps every row it found until it has seen the whole folder.  *)
LEMMA StoredStep ==
    ASSUME MembershipInv, StoredInv, Next
    PROVE  StoredInv'
<1>0. TableType /\ PassType /\ SourceType /\ MailInv /\ SelectedInv
  BY TypeParts DEF MembershipInv
<1>1. scan.folder \in Watched /\ scan.stored \subseteq Keys
  BY <1>0, ScanFacts
<1>2. CASE UNCHANGED members /\ (UNCHANGED <<phase, scan>> \/ ~Scanning')
  BY <1>2 DEF StoredInv, Scanning, MemberKeys, MemberHas
<1>3. ASSUME NEW f \in Watched, SelectNamedFolder(f)
      PROVE  StoredInv'
  <2>1. UNCHANGED members /\ scan'.folder = f /\ scan'.stored = MemberKeys(f)
    BY <1>3 DEF SelectNamedFolder, storeVars
  <2>2. MemberKeys(f)' = MemberKeys(f)
    BY <2>1 DEF MemberKeys, MemberHas
  <2>3. QED
    BY <2>1, <2>2 DEF StoredInv
<1>4. CASE Removals \/ CommitWindow
  <2>1. ~scan'.rebuild
    <3>1. ~scan.rebuild /\ scan \in Scans
      BY <1>0, <1>4 DEF SelectedInv, Scanning, Removals, CommitWindow, PassType
    <3>2. CASE Removals
      BY <3>1, <3>2 DEF Removals, scanVars
    <3>3. CASE CommitWindow
      BY <3>1, <3>3 DEF CommitWindow, Scans
    <3>4. QED
      BY <1>4, <3>2, <3>3
  <2>2. QED
    BY <2>1 DEF StoredInv
<1>5. CASE recordAdditions
  <2>1. /\ scan'.folder = scan.folder /\ scan'.rebuild = scan.rebuild
        /\ scan'.stored = scan.stored /\ phase = "windows"
    BY <1>0, <1>5 DEF recordAdditions, PassType, Scans
  <2>2. PICK f \in Watched : f = scan.folder
    BY <1>1
  <2>3. scan.rebuild => scan.stored \subseteq MemberKeys(f)
    BY <2>1, <2>2 DEF StoredInv, Scanning
  <2>4. MemberKeys(f) \subseteq MemberKeys(f)'
    BY <1>0, <1>5, AddedHas DEF MemberKeys
  <2>5. scan.rebuild => scan'.stored \subseteq MemberKeys(f)'
    BY <2>1, <2>3, <2>4
  <2>6. QED
    BY <2>1, <2>2, <2>5 DEF StoredInv
<1>6. CASE RebuildRemovals
  BY <1>6 DEF RebuildRemovals, StoredInv
<1>7. CASE StartPass \/ FolderDone \/ AdoptFolder \/ MembershipDone \/ BackfillScan
           \/ BackfillNext \/ BackfillDone \/ MirrorDone \/ LoadPage \/ Crash \/ ApplyFails
  <2>1. ~Scanning'
    BY <1>7 DEF StartPass, FolderDone, AdoptFolder, MembershipDone, BackfillScan, BackfillNext,
       BackfillDone, MirrorDone, LoadPage, Crash, ApplyFails, Abort, Scanning
  <2>2. QED
    BY <2>1 DEF StoredInv
<1>8. CASE UNCHANGED <<phase, scan, todo>> /\ UNCHANGED <<members, folders>>
  BY <1>2, <1>8
<1>9. QED
  BY <1>3, <1>4, <1>5, <1>6, <1>7, <1>8, PassWriters, TableWriters

(* The steps that change which copies are recorded or given up.            *)
LEMMA RecordWriters ==
    ASSUME Next
    PROVE  \/ UNCHANGED <<copied, missed>>
           \/ recordAdditions \/ RecordCopies \/ \E k \in Keys : Guard(k)
<1>1. CASE Program
  BY <1>1 DEF Program, StartPass, SelectNamedFolder, Removals, CommitWindow,
     FolderDone, RebuildRemovals, AdoptFolder, MembershipDone, BackfillScan, BackfillTag,
     BackfillMove, BackfillNext, BackfillDone, AppendCopy, MirrorDone,
     LoadPage, applyPending, PageDone, storeVars
<1>2. CASE Failure
  BY <1>2 DEF Failure, Crash, ApplyFails, Reconfigure, storeVars
<1>3. CASE SourceStep
  BY <1>3 DEF SourceStep, Arrive, Enter, Leave, Renumber, CreateLabel, storeVars
<1>4. QED
  BY <1>1, <1>2, <1>3 DEF Next

(* A copy is appended to the folder it belongs in, and nothing changes     *)
(* that until it is recorded.                                              *)
LEMMA UnsavedStep ==
    ASSUME MembershipInv, UnsavedInv, Next
    PROVE  UnsavedInv'
<1>0. place \in [Keys -> SUBSET DestFolders]
  BY TypeParts DEF MembershipInv, DestType, DestFolders
<1>1. CASE unsaved' = {}
  BY <1>1 DEF UnsavedInv
<1>2. CASE UNCHANGED <<members, cfg, place, phase, unsaved>>
  BY <1>2, SamePlaces DEF UnsavedInv
<1>3. ASSUME NEW j \in Keys, AppendCopy(j)
      PROVE  UnsavedInv'
  <2>1. /\ UNCHANGED <<members, cfg, phase>> /\ phase = "mirror" /\ ~Findable(j)
        /\ place' = [place EXCEPT ![j] = @ \cup {destFolderFor(cfg, j)}]
        /\ unsaved' = unsaved \cup {j}
    BY <1>3 DEF AppendCopy, storeVars
  <2>2. SUFFICES ASSUME NEW k \in unsaved' \cap RealKeys
                 PROVE  Placed(k)'
    BY <2>1 DEF UnsavedInv
  <2>3. CASE k # j
    <3>1. place'[k] = place[k]
      BY <1>0, <2>1, <2>3
    <3>2. Placed(k)
      BY <2>1, <2>2, <2>3 DEF UnsavedInv
    <3>3. QED
      BY <2>1, <3>1, <3>2, SamePlaces
  <2>4. CASE k = j
    <3>1. place[j] \cap Buckets(cfg) = {}
      BY <2>1, <2>2, <2>4 DEF Findable
    <3>2. place'[j] = place[j] \cup {destFolderFor(cfg, j)}
      BY <1>0, <2>1
    <3>3. Buckets(cfg)' = Buckets(cfg) /\ destFolderFor(cfg, j)' = destFolderFor(cfg, j)
      BY <2>1, SamePlaces
    <3>4. QED
      BY <2>4, <3>1, <3>2, <3>3 DEF Placed
  <2>5. QED
    BY <2>3, <2>4
<1>4. CASE MembershipDone
  <2>1. unsaved = {} /\ unsaved' = unsaved
    BY <1>4 DEF MembershipDone, UnsavedInv
  <2>2. QED
    BY <1>1, <2>1
<1>5. CASE unsaved # {} /\ UNCHANGED unsaved
  <2>1. phase = "mirror"
    BY <1>5 DEF UnsavedInv
  <2>2. UNCHANGED <<members, cfg, place, phase>> \/ \E k \in Keys : AppendCopy(k)
    <3>1. UNCHANGED <<members, folders>>
      BY <2>1, TableWriters DEF Removals, recordAdditions, CommitWindow, RebuildRemovals,
         AdoptFolder
    <3>2. UNCHANGED <<fingerprint, place, keywords, cfg>> \/ \E k \in Keys : AppendCopy(k)
      BY <2>1, DestWriters DEF BackfillTag, BackfillMove, BackfillDone, applyPending, Reconfigure
    <3>3. UNCHANGED <<phase, scan, todo>>
      BY <1>5, <2>1, PassWriters DEF StartPass, SelectNamedFolder, Removals, recordAdditions,
         CommitWindow, FolderDone, RebuildRemovals, AdoptFolder, MembershipDone, BackfillScan,
         BackfillNext, BackfillDone, MirrorDone, LoadPage, Crash, ApplyFails, Abort
    <3>4. QED
      BY <3>1, <3>2, <3>3
  <2>3. QED
    BY <1>2, <1>3, <1>5, <2>2
<1>6. ASSUME NEW k \in Keys, Guard(k)
      PROVE  UnsavedInv'
  <2>1. UNCHANGED <<members, cfg, place, phase, unsaved>>
    BY <1>6 DEF Guard, destVars
  <2>2. QED
    BY <1>2, <2>1
<1>7. CASE RecordCopies \/ Crash \/ ApplyFails
  <2>1. unsaved' = {}
    BY <1>7 DEF RecordCopies, Crash, ApplyFails, Abort
  <2>2. QED
    BY <1>1, <2>1
<1>8. CASE UNCHANGED unsaved
  BY <1>1, <1>5, <1>8
<1>9. (\E k \in Keys : Arrive(k)) => UNCHANGED unsaved
  BY DEF Arrive, passVars, copyVars
<1>10. QED
  BY <1>3, <1>4, <1>6, <1>7, <1>8, <1>9, CopyWriters

(* A move takes the copy to where it belongs, and until the page is        *)
(* deleted nothing changes that.                                           *)
LEMMA AppliedStep ==
    ASSUME IdsApart, MembershipInv, RouteInv, AppliedInv, Next
    PROVE  AppliedInv'
<1>0. /\ QueueType /\ place \in [Keys -> SUBSET DestFolders] /\ RealKeys \subseteq Keys
      /\ pending \in Seq(PendingOp) /\ Len(pending) \in Nat
      /\ page \in 0 .. Len(pending) /\ done \in 0 .. page
  BY TypeParts, MembershipAssumption DEF MembershipInv, QueueType, DestType, DestFolders
<1>1. CASE done' = 0
  BY <1>1 DEF AppliedInv
<1>2. CASE UNCHANGED <<members, cfg, place, fingerprint, pending, copied, missed, phase, done>>
  BY <1>2, SamePlaces DEF AppliedInv, Current, Ours
<1>3. CASE applyPending
  <2>1. /\ UNCHANGED <<members, cfg, fingerprint, pending, copied, missed, phase>>
        /\ phase = "propagate" /\ done < page /\ done' = done + 1
    BY <1>3 DEF applyPending, storeVars
  <2>2. SUFFICES ASSUME Current, Routing(cfg), NEW i \in 1 .. done + 1,
                        pending[i].kind = pendingMove, pending[i].key \in Ours
                 PROVE  Placed(pending[i].key)'
    BY <2>1, SamePlaces DEF AppliedInv, Current, Ours
  <2>3. PICK k \in Keys : k = pending[i].key /\ k \in Ours
    BY <1>0, <2>2 DEF Ours
  <2>4. done + 1 \in 1 .. Len(pending) /\ pending[done + 1] \in PendingOp
    BY <1>0, <2>1
  <2>5. CASE place'[k] = place[k]
    <3>1. i <= done => Placed(k)
      BY <1>0, <2>2, <2>3 DEF AppliedInv
    <3>2. i = done + 1 => Placed(k)
      <4>1. SUFFICES ASSUME i = done + 1
                     PROVE  Placed(k)
        OBVIOUS
      <4>2. place' = [place EXCEPT ![k] = MovedCopy(k)]
        BY <1>3, <2>2, <2>3, <4>1, ExactApply DEF AppliesToOne
      <4>3. MovedCopy(k) = place[k]
        BY <1>0, <2>5, <4>2
      <4>4. QED
        BY <2>2, <2>3, <4>3, MovedFacts DEF RouteInv, Placed
    <3>3. QED
      BY <1>0, <2>1, <2>2, <2>3, <2>5, <3>1, <3>2, SamePlaces
  <2>6. CASE place'[k] # place[k]
    <3>1. pending[done + 1].kind = pendingMove /\ pending[done + 1].key = k
      BY <1>0, <1>3, <2>6, ExactApply DEF AppliesToOne
    <3>2. place'[k] = MovedCopy(k)
      BY <1>0, <1>3, <2>2, <3>1, ExactApply DEF AppliesToOne
    <3>3. place'[k] \cap Buckets(cfg) \subseteq {destFolderFor(cfg, k)}
      BY <2>2, <2>3, <3>2, MovedFacts DEF RouteInv
    <3>4. QED
      BY <2>1, <2>3, <3>3, SamePlaces DEF Placed
  <2>7. QED
    BY <2>5, <2>6
<1>4. CASE phase # "propagate" /\ UNCHANGED done
  BY <1>1, <1>4 DEF AppliedInv
<1>5. CASE LoadPage \/ PageDone \/ Crash \/ ApplyFails
  <2>1. done' = 0
    BY <1>0, <1>5 DEF LoadPage, PageDone, Crash, ApplyFails, Abort
  <2>2. QED
    BY <1>1, <2>1
<1>6. CASE phase = "propagate" /\ ~applyPending /\ ~(LoadPage \/ PageDone \/ Crash \/ ApplyFails)
  <2>1. UNCHANGED <<pending, page, done>>
    BY <1>6, QueueWriters DEF Removals, recordAdditions, RebuildRemovals
  <2>2. UNCHANGED <<members, folders>>
    BY <1>6, TableWriters DEF Removals, recordAdditions, CommitWindow, RebuildRemovals, AdoptFolder
  <2>3. UNCHANGED <<fingerprint, place, keywords, cfg>>
    BY <1>6, DestWriters DEF BackfillTag, BackfillMove, AppendCopy, BackfillDone, Reconfigure
  <2>4. UNCHANGED <<phase, scan, todo>>
    BY <1>6, PassWriters DEF StartPass, SelectNamedFolder, Removals, recordAdditions,
       CommitWindow, FolderDone, RebuildRemovals, AdoptFolder, MembershipDone, BackfillScan,
       BackfillNext, BackfillDone, MirrorDone
  <2>5. UNCHANGED <<copied, missed>>
    BY <1>6, RecordWriters DEF recordAdditions, RecordCopies, Guard
  <2>6. QED
    BY <1>2, <2>1, <2>2, <2>3, <2>4, <2>5
<1>7. CASE phase # "propagate"
  <2>1. UNCHANGED done \/ done' = 0
    BY <1>0, <1>7, QueueWriters DEF Removals, recordAdditions, RebuildRemovals, LoadPage,
       applyPending, PageDone, Crash, ApplyFails, Abort, queueVars
  <2>2. QED
    BY <1>1, <1>4, <1>7, <2>1
<1>8. QED
  BY <1>3, <1>5, <1>6, <1>7

(* The head of a list and the rest of it.                                  *)
LEMMA ListParts ==
    ASSUME NEW S, NEW q \in Seq(S), q # <<>>
    PROVE  /\ Head(q) \in S /\ Tail(q) \in Seq(S)
           /\ Elements(q) = {Head(q)} \cup Elements(Tail(q))
<1>1. /\ Len(q) \in Nat /\ Len(q) >= 1 /\ Head(q) = q[1] /\ Head(q) \in S
      /\ Tail(q) \in Seq(S) /\ Len(Tail(q)) = Len(q) - 1
      /\ \A i \in 1 .. Len(Tail(q)) : Tail(q)[i] = q[i + 1]
  BY HeadTailProperties
<1> DEFINE t == Tail(q)
<1>2. /\ Len(t) = Len(q) - 1 /\ \A i \in 1 .. Len(q) - 1 : t[i] = q[i + 1]
  BY <1>1
<1> HIDE DEF t
<1>3. Elements(q) \subseteq {Head(q)} \cup Elements(t)
  <2>1. SUFFICES ASSUME NEW i \in 1 .. Len(q)
                 PROVE  q[i] = Head(q) \/ q[i] \in Elements(t)
    BY DEF Elements
  <2>2. CASE i = 1
    BY <1>1, <2>2
  <2>3. CASE i # 1
    <3>1. i - 1 \in 1 .. Len(q) - 1 /\ (i - 1) + 1 = i
      BY <1>1, <2>3
    <3>2. q[i] = t[i - 1] /\ i - 1 \in 1 .. Len(t)
      BY <1>2, <3>1
    <3>3. QED
      BY <3>2 DEF Elements
  <2>4. QED
    BY <2>2, <2>3
<1>4. Head(q) \in Elements(q)
  BY <1>1 DEF Elements
<1>5. Elements(t) \subseteq Elements(q)
  <2>1. SUFFICES ASSUME NEW i \in 1 .. Len(t)
                 PROVE  t[i] \in Elements(q)
    BY DEF Elements
  <2>2. i \in 1 .. Len(q) - 1 /\ i + 1 \in 1 .. Len(q)
    BY <1>1, <1>2
  <2>3. t[i] = q[i + 1]
    BY <1>2, <2>2
  <2>4. QED
    BY <2>2, <2>3 DEF Elements
<1>6. QED
  BY <1>1, <1>3, <1>4, <1>5 DEF t

(* What is left to the backfill, as a list.                                *)
LEMMA AheadElements ==
    /\ back \in Seq(DestFolders) => Ahead = Elements(back)
    /\ back' \in Seq(DestFolders) => Ahead' = Elements(back')
<1>1. back \in Seq(DestFolders) => DOMAIN back = 1 .. Len(back)
  OBVIOUS
<1>2. back' \in Seq(DestFolders) => DOMAIN back' = 1 .. Len(back')
  OBVIOUS
<1>3. QED
  BY <1>1, <1>2 DEF Ahead, Elements

(* The steps that change what is left to the backfill.                     *)
LEMMA BackWriters ==
    ASSUME Next
    PROVE  \/ UNCHANGED backVars
           \/ MembershipDone \/ BackfillScan \/ BackfillNext
           \/ (\E k \in Keys : BackfillTag(k) \/ BackfillMove(k))
           \/ Crash \/ ApplyFails
<1>1. CASE Program
  BY <1>1 DEF Program, StartPass, SelectNamedFolder, Removals, recordAdditions, CommitWindow,
     FolderDone, RebuildRemovals, AdoptFolder, BackfillDone, Guard, AppendCopy, RecordCopies,
     MirrorDone, LoadPage, applyPending, PageDone
<1>2. CASE Failure
  BY <1>2 DEF Failure, Reconfigure, passVars
<1>3. CASE SourceStep
  BY <1>3 DEF SourceStep, Arrive, Enter, Leave, Renumber, CreateLabel, passVars
<1>4. QED
  BY <1>1, <1>2, <1>3 DEF Next

(* A folder is done with when no copy is in it that belongs elsewhere; the *)
(* backfill goes through all of them before it records that it is done.    *)
LEMMA BackfillStep ==
    ASSUME MembershipInv, BackfillInv, Next
    PROVE  BackfillInv'
<1>0. /\ place \in [Keys -> SUBSET DestFolders] /\ back \in Seq(DestFolders)
  BY TypeParts DEF MembershipInv, DestType, DestFolders, BackfillInv
<1>1. CASE UNCHANGED <<members, cfg, fingerprint, place, phase, back, bf>>
  BY <1>1, SamePlaces DEF BackfillInv, Current, Ahead
<1>2. ASSUME phase' \notin {"backfill", "placing"}, back' \in Seq(DestFolders)
      PROVE  BackfillInv'
  BY <1>2 DEF BackfillInv
<1>3. CASE MembershipDone
  <2>1. UNCHANGED <<members, cfg, fingerprint, place>>
    BY <1>3 DEF MembershipDone, storeVars, destVars
  <2>2. /\ destBucketFolders(cfg) \in Seq(DestFolders)
        /\ Elements(destBucketFolders(cfg)) = Buckets(cfg)
    BY BucketListFacts
  <2>3. <<>> \in Seq(DestFolders)
    OBVIOUS
  <2>4. CASE Current
    BY <1>2, <1>3, <2>3, <2>4 DEF MembershipDone
  <2>5. CASE ~Current
    <3>1. /\ phase' = "backfill" /\ ~Current'
          /\ back' = IF Routing(cfg) \/ cfg.labels THEN destBucketFolders(cfg) ELSE <<>>
      BY <1>3, <2>1, <2>5 DEF MembershipDone, Current
    <3>2. back' \in Seq(DestFolders)
      BY <2>2, <2>3, <3>1
    <3>3. ASSUME Routing(cfg), NEW k \in Keys, NEW b \in Held(k)
          PROVE  b \in Ahead'
      BY <2>2, <3>1, <3>2, <3>3, AheadElements DEF Held
    <3>4. QED
      BY <2>1, <3>1, <3>2, <3>3, SamePlaces DEF BackfillInv
  <2>6. QED
    BY <2>4, <2>5
<1>4. CASE BackfillScan
  <2>1. /\ UNCHANGED <<members, cfg, fingerprint, place, back>>
        /\ phase = "backfill" /\ phase' = "placing" /\ back # <<>> /\ bf'.folder = Head(back)
        /\ bf'.move = {k \in {k \in Keys : Head(back) \in place[k]} :
                           Routing(cfg) /\ destFolderFor(cfg, k) # Head(back)}
    BY <1>4 DEF BackfillScan, storeVars, destVars
  <2>2. SUFFICES ASSUME Routing(cfg), NEW k \in Keys, NEW b \in Held(k), b # destFolderFor(cfg, k)
                 PROVE  b \in Ahead /\ (b = Head(back) => k \in bf'.move)
    BY <1>0, <2>1, SamePlaces DEF BackfillInv, Current, Ahead
  <2>3. b \in Ahead
    BY <2>1, <2>2 DEF BackfillInv
  <2>4. b = Head(back) => k \in bf'.move
    BY <2>1, <2>2 DEF Held
  <2>5. QED
    BY <2>3, <2>4
<1>5. ASSUME NEW j \in Keys, BackfillTag(j)
      PROVE  BackfillInv'
  <2>1. /\ UNCHANGED <<members, cfg, fingerprint, place, phase, back>>
        /\ bf' = [bf EXCEPT !.tag = @ \ {j}]
    BY <1>5 DEF BackfillTag, storeVars
  <2>2. bf'.folder = bf.folder /\ bf'.move = bf.move
    BY <2>1
  <2>3. QED
    BY <2>1, <2>2, SamePlaces DEF BackfillInv, Current, Ahead
<1>6. ASSUME NEW j \in Keys, BackfillMove(j)
      PROVE  BackfillInv'
  <2>1. /\ UNCHANGED <<members, cfg, fingerprint, phase, back>> /\ phase = "placing"
        /\ place' = [place EXCEPT ![j] = (@ \ {bf.folder}) \cup {destFolderFor(cfg, j)}]
        /\ bf' = [bf EXCEPT !.move = @ \ {j}]
    BY <1>6 DEF BackfillMove, storeVars
  <2>2. bf'.folder = bf.folder /\ bf'.move = bf.move \ {j} /\ bf.folder = Head(back) /\ back # <<>>
    <3>1. bf.folder = Head(back) /\ back # <<>>
      BY <2>1 DEF BackfillInv
    <3>2. bf'.folder = bf.folder
      BY <2>1
    <3>3. bf'.move = bf.move \ {j}
      BY <1>6 DEF BackfillMove
    <3>4. QED
      BY <3>1, <3>2, <3>3
  <2>3. ASSUME Routing(cfg), NEW k \in Keys, NEW b \in Held(k)', b # destFolderFor(cfg, k)
        PROVE  b \in Ahead /\ (b = Head(back) => k \in bf'.move)
    <3>1. Buckets(cfg)' = Buckets(cfg)
      BY <2>1, SamePlaces
    <3>2. CASE k # j
      <4>1. b \in Held(k)
        BY <1>0, <2>1, <2>3, <3>1, <3>2 DEF Held
      <4>2. QED
        BY <2>1, <2>2, <2>3, <3>2, <4>1 DEF BackfillInv
    <3>3. CASE k = j
      <4>1. b \in Held(k) /\ b # Head(back)
        BY <1>0, <2>1, <2>2, <2>3, <3>1, <3>3 DEF Held
      <4>2. QED
        BY <2>1, <2>3, <4>1 DEF BackfillInv
    <3>4. QED
      BY <3>2, <3>3
  <2>4. QED
    BY <1>0, <2>1, <2>2, <2>3, SamePlaces DEF BackfillInv, Current, Ahead
<1>7. CASE BackfillNext
  <2>1. /\ UNCHANGED <<members, cfg, fingerprint, place>>
        /\ phase = "placing" /\ phase' = "backfill" /\ bf.move = {} /\ back' = Tail(back)
    BY <1>7 DEF BackfillNext, storeVars, destVars
  <2>2. back # <<>>
    BY <2>1 DEF BackfillInv
  <2>3. back' \in Seq(DestFolders) /\ Elements(back) = {Head(back)} \cup Elements(back')
    BY <1>0, <2>1, <2>2, ListParts
  <2>4. Ahead = {Head(back)} \cup Ahead'
    BY <1>0, <2>3, AheadElements
  <2>5. ASSUME Routing(cfg), NEW k \in Keys, NEW b \in Held(k)
        PROVE  b = destFolderFor(cfg, k) \/ b \in Ahead'
    BY <2>1, <2>4, <2>5 DEF BackfillInv
  <2>6. ~Current
    BY <2>1 DEF BackfillInv
  <2>7. QED
    BY <2>1, <2>3, <2>5, <2>6, SamePlaces DEF BackfillInv, Current
<1>8. CASE BackfillDone \/ Crash \/ ApplyFails
  <2>1. phase' \notin {"backfill", "placing"}
    BY <1>8 DEF BackfillDone, Crash, ApplyFails, Abort
  <2>2. back' = back \/ back' = <<>>
    BY <1>8 DEF BackfillDone, Crash, ApplyFails, Abort, backVars
  <2>3. <<>> \in Seq(DestFolders)
    OBVIOUS
  <2>4. back' \in Seq(DestFolders)
    BY <1>0, <2>2, <2>3
  <2>5. QED
    BY <1>2, <2>1, <2>4
<1>9. CASE UNCHANGED backVars /\ ~BackfillDone
  <2>0. UNCHANGED <<back, bf>>
    BY <1>9 DEF backVars
  <2>1. CASE phase \notin {"backfill", "placing"}
    <3>1. phase' \notin {"backfill", "placing"} \/ MembershipDone
      BY <2>1, PassWriters DEF StartPass, SelectNamedFolder, Removals, recordAdditions,
         CommitWindow, FolderDone, RebuildRemovals, AdoptFolder, BackfillScan,
         BackfillNext, BackfillDone, MirrorDone, LoadPage, Crash, ApplyFails, Abort
    <3>2. QED
      BY <1>0, <1>2, <1>3, <2>0, <3>1
  <2>2. CASE phase \in {"backfill", "placing"} /\ ~BackfillScan /\ ~BackfillNext
             /\ ~(Crash \/ ApplyFails) /\ ~(\E k \in Keys : BackfillTag(k) \/ BackfillMove(k))
    <3>1. UNCHANGED <<members, folders>>
      BY <2>2, TableWriters DEF Removals, recordAdditions, CommitWindow, RebuildRemovals,
         AdoptFolder
    <3>2. UNCHANGED <<fingerprint, place, keywords, cfg>>
      BY <1>9, <2>2, DestWriters DEF AppendCopy, applyPending, Reconfigure
    <3>3. UNCHANGED <<phase, scan, todo>>
      BY <1>9, <2>2, PassWriters DEF StartPass, SelectNamedFolder, Removals, recordAdditions,
         CommitWindow, FolderDone, RebuildRemovals, AdoptFolder, MembershipDone, MirrorDone,
         LoadPage
    <3>4. QED
      BY <1>1, <2>0, <3>1, <3>2, <3>3
  <2>3. QED
    BY <1>4, <1>5, <1>6, <1>7, <1>8, <2>1, <2>2
<1>10. QED
  BY <1>3, <1>4, <1>5, <1>6, <1>7, <1>8, <1>9, BackWriters

-----------------------------------------------------------------------------
(* A copy is in its place or a move is queued.                             *)

(* What is queued stays queued while the queue only grows.                 *)
LEMMA StillQueued ==
    ASSUME QueueType, QueueType', NEW f, NEW op, NEW K, Enqueues(f, op, K), NEW k
    PROVE  /\ MoveQueued(k) => MoveQueued(k)'
           /\ k \in K /\ WatchedKind(cfg, f) = pendingMove => MoveQueued(k)'
<1>1. /\ Len(pending) \in Nat /\ DOMAIN pending = 1 .. Len(pending)
      /\ Len(pending') \in Nat /\ DOMAIN pending' = 1 .. Len(pending')
  BY DEF QueueType
<1>2. ASSUME NEW i \in 1 .. Len(pending), pending[i].key = k, pending[i].kind = pendingMove
      PROVE  MoveQueued(k)'
  <2>1. pending'[i] = pending[i] /\ i \in 1 .. Len(pending')
    BY <1>1 DEF Enqueues
  <2>2. QED
    BY <1>1, <1>2, <2>1 DEF MoveQueued
<1>3. ASSUME k \in K, WatchedKind(cfg, f) = pendingMove
      PROVE  MoveQueued(k)'
  <2>1. PICK i \in 1 .. Len(pending') : i > Len(pending) /\ pending'[i].key = k
    BY <1>3 DEF Enqueues
  <2>2. pending'[i].kind = pendingMove
    BY <1>3, <2>1 DEF Enqueues
  <2>3. QED
    BY <1>1, <2>1, <2>2 DEF MoveQueued
<1>4. QED
  BY <1>1, <1>2, <1>3 DEF MoveQueued

(* The operations of a deleted prefix were carried out; the others stay.   *)
LEMMA DeletedFacts ==
    ASSUME QueueType, NEW n \in 0 .. Len(pending), DeletePendingBatch(n)
    PROVE  /\ DOMAIN pending' = 1 .. Len(pending) - n
           /\ \A i \in 1 .. Len(pending) - n : pending'[i] = pending[i + n]
           /\ \A i \in 1 .. Len(pending) : i > n =>
                 /\ i - n \in 1 .. Len(pending) - n
                 /\ pending'[i - n] = pending[i]
<1>1. pending \in Seq(PendingOp) /\ Len(pending) \in Nat
  BY DEF QueueType
<1>2. pending' = SubSeq(pending, n + 1, Len(pending))
  BY DEF DeletePendingBatch
<1>3. n + 1 \in 1 .. Len(pending) + 1 /\ \A m \in n + 1 .. Len(pending) : m \in 1 .. Len(pending)
  BY <1>1
<1>4. /\ pending' \in Seq(PendingOp) /\ Len(pending') = Len(pending) - n
      /\ \A i \in 1 .. Len(pending) - n : pending'[i] = pending[n + 1 + i - 1]
  BY <1>1, <1>2, <1>3, SubSeqProperties
<1>5. DOMAIN pending' = 1 .. Len(pending) - n
  BY <1>4
<1>6. \A i \in 1 .. Len(pending) - n : pending'[i] = pending[i + n]
  <2>1. \A i \in 1 .. Len(pending) - n : n + 1 + i - 1 = i + n
    BY <1>1
  <2>2. QED
    BY <1>4, <2>1
<1>7. \A i \in 1 .. Len(pending) : i > n => i - n \in 1 .. Len(pending) - n /\ (i - n) + n = i
  BY <1>1
<1>8. QED
  BY <1>5, <1>6, <1>7

(* Rows of the inbox and of the sent folder that go away queue a move.     *)
LEMMA RouteRemovals ==
    ASSUME MembershipInv, MembershipInv', RouteInv, NEW gone, recordRemovals(gone),
           UNCHANGED <<copied, fingerprint, place, cfg, missed, scan>>
    PROVE  RouteInv'
<1>0. /\ QueueType /\ QueueType' /\ PassType /\ TableType /\ RealKeys \subseteq Keys
      /\ {SourceInbox, SentSrcFolder} \cap Labels = {}
      /\ {SourceInbox, SentSrcFolder} \subseteq Watched
  BY TypeParts, MembershipAssumption DEF MembershipInv, Watched
<1>1. SUFFICES ASSUME Current, Routing(cfg), NEW k \in Ours
               PROVE  /\ \A a, b \in Held(k)' : a = b
                      /\ Placed(k)' \/ MoveQueued(k)'
  BY SameRoutes DEF RouteInv, Current, Ours
<1>2. PICK f \in Watched : f = scan.folder
  BY <1>0, ScanFacts
<1>3. PICK K : K = Gated(f, gone)
  OBVIOUS
<1>4. Enqueues(f, "remove", K)
  BY <1>0, <1>2, <1>3, RemovalsEnqueue
<1>5. Held(k)' = Held(k) /\ Buckets(cfg)' = Buckets(cfg)
  BY SameRoutes DEF Held
<1>6. (\A a, b \in Held(k) : a = b) /\ (Placed(k) \/ MoveQueued(k))
  BY <1>1 DEF RouteInv
<1>7. k \in Keys /\ (WatchedKind(cfg, f) # none => gatePending(k))
  BY <1>0, <1>1 DEF Ours, gatePending
<1>8. CASE k \in gone /\ f \in {SourceInbox, SentSrcFolder}
  <2>1. WatchedKind(cfg, f) = pendingMove /\ pendingMove # none
    BY <1>0, <1>8 DEF WatchedKind, pendingMove, none
  <2>2. k \in K
    BY <1>3, <1>7, <1>8, <2>1 DEF Gated
  <2>3. QED
    BY <1>0, <1>4, <1>5, <1>6, <2>1, <2>2, StillQueued
<1>9. CASE k \notin gone \/ f \notin {SourceInbox, SentSrcFolder}
  <2>1. \A g \in {SourceInbox, SentSrcFolder} : members'[g][k] = members[g][k]
    BY <1>0, <1>2, <1>7, <1>9, RemovedRows
  <2>2. destFolderFor(cfg, k)' = destFolderFor(cfg, k)
    BY <2>1, SameRoutes DEF MemberHas
  <2>3. Placed(k)' <=> Placed(k)
    BY <1>5, <2>2 DEF Placed
  <2>4. QED
    BY <1>0, <1>4, <1>5, <1>6, <2>3, StillQueued
<1>10. QED
  BY <1>8, <1>9

(* So do new rows, unless a rebuild found them there before; a first scan  *)
(* that a backfill does not follow gives the copy up.                      *)
LEMMA RouteAdditions ==
    ASSUME MembershipInv, MembershipInv', RouteInv, StoredInv, recordAdditions
    PROVE  RouteInv'
<1>0. /\ QueueType /\ QueueType' /\ PassType /\ TableType /\ SourceType /\ MailInv /\ SelectedInv
      /\ RealKeys \subseteq Keys /\ cfg \in Configs
      /\ {SourceInbox, SentSrcFolder} \cap Labels = {} /\ SourceInbox # SentSrcFolder
      /\ {SourceInbox, SentSrcFolder} \subseteq Watched
      /\ NoPrint \notin [archive : BOOLEAN, sent : BOOLEAN, labels : BOOLEAN]
      /\ \A c \in Configs :
            backfillFingerprint(c) \in [archive : BOOLEAN, sent : BOOLEAN, labels : BOOLEAN]
  BY TypeParts, MembershipAssumption
     DEF MembershipInv, Watched, DestType, backfillFingerprint, Config
<1>1. /\ UNCHANGED <<copied, fingerprint, place, cfg>> /\ phase = "windows"
      /\ missed \subseteq missed'
      /\ \A j \in copied : Unreported(j) /\ j \in Shown => j \in missed'
  <2>1. UNCHANGED <<copied, fingerprint, place, cfg>> /\ phase = "windows"
    BY DEF recordAdditions, destVars
  <2> DEFINE metas == {u \in scan.start .. WindowStop : mail[scan.folder][u] # NoMail}
             key == [u \in metas |-> mail[scan.folder][u]]
  <2>2. missed' = missed \cup {j \in copied : Unreported(j) /\ \E u \in metas : key[u] = j}
    BY DEF recordAdditions
  <2>3. \A j \in Shown : \E u \in metas : key[u] = j
    BY DEF Shown
  <2> HIDE DEF metas, key
  <2>4. QED
    BY <2>1, <2>2, <2>3
<1>2. SUFFICES ASSUME Current, Routing(cfg), NEW k \in Ours, k \notin missed'
               PROVE  /\ \A a, b \in Held(k)' : a = b
                      /\ Placed(k)' \/ MoveQueued(k)'
  BY <1>1, SameRoutes DEF RouteInv, Current, Ours
<1>3. PICK f \in Watched : f = scan.folder
  BY <1>0, ScanFacts
<1>4. PICK K : K = Gated(f, {j \in Shown : ~Suppressed(j)})
  OBVIOUS
<1>5. Enqueues(f, "add", K)
  BY <1>0, <1>3, <1>4, AdditionsEnqueue
<1>6. Held(k)' = Held(k) /\ Buckets(cfg)' = Buckets(cfg)
  BY <1>1, SameRoutes DEF Held
<1>7. (\A a, b \in Held(k) : a = b) /\ (Placed(k) \/ MoveQueued(k))
  BY <1>2 DEF RouteInv
<1>8. k \in Keys /\ gatePending(k) /\ k \in copied
  BY <1>0, <1>2 DEF Ours, gatePending
<1> DEFINE Turns(g) == ~MemberHas(g, k) /\ MemberHas(g, k)'
<1>9. \A g \in Watched : /\ MemberHas(g, k) => MemberHas(g, k)'
                         /\ Turns(g) => g = f /\ k \in Shown
  BY <1>0, <1>3, <1>8, AddedHas
<1>10. CASE Turns(f) /\ (f = SourceInbox \/ (f = SentSrcFolder /\ cfg.sent))
  <2>1. WatchedKind(cfg, f) = pendingMove /\ pendingMove # none /\ k \in Shown
    BY <1>0, <1>9, <1>10 DEF WatchedKind, pendingMove, none
  <2>2. Covered(f)
    <3>1. fingerprint = [archive |-> cfg.archive, sent |-> cfg.sent, labels |-> cfg.labels]
      BY <1>2 DEF Current, backfillFingerprint
    <3>2. fingerprint # NoPrint
      BY <1>0, <1>2 DEF Current
    <3>3. f \notin Labels
      BY <1>0, <1>10
    <3>4. fingerprint.sent \/ (f = SourceInbox /\ fingerprint.archive)
      BY <1>2, <1>10, <3>1 DEF Routing
    <3>5. QED
      BY <3>2, <3>3, <3>4 DEF Covered
  <2>3. ~Suppressed(k)
    <3>1. SUFFICES ASSUME scan.rebuild, scan.stored = {} \/ k \in scan.stored
                   PROVE  FALSE
      BY DEF Suppressed
    <3>2. k \notin scan.stored
      BY <1>1, <1>3, <1>10, <3>1 DEF StoredInv, Scanning, MemberKeys
    <3>3. Unreported(k)
      BY <1>3, <2>2, <3>1, <3>2 DEF Unreported
    <3>4. QED
      BY <1>1, <1>2, <1>8, <2>1, <3>3
  <2>4. k \in K
    BY <1>4, <1>8, <2>1, <2>3 DEF Gated
  <2>5. QED
    BY <1>0, <1>5, <1>6, <1>7, <2>1, <2>4, StillQueued
<1>11. CASE ~(Turns(f) /\ (f = SourceInbox \/ (f = SentSrcFolder /\ cfg.sent)))
  <2>1. /\ MemberHas(SourceInbox, k)' <=> MemberHas(SourceInbox, k)
        /\ cfg.sent => (MemberHas(SentSrcFolder, k)' <=> MemberHas(SentSrcFolder, k))
    <3>1. ~Turns(SourceInbox) /\ (cfg.sent => ~Turns(SentSrcFolder))
      BY <1>0, <1>9, <1>11
    <3>2. QED
      BY <1>0, <1>9, <3>1
  <2>2. destFolderFor(cfg, k)' = destFolderFor(cfg, k)
    BY <1>1, <2>1, SameRoutes
  <2>3. Placed(k)' <=> Placed(k)
    BY <1>1, <1>6, <2>2 DEF Placed
  <2>4. QED
    BY <1>0, <1>5, <1>6, <1>7, <2>3, StillQueued
<1>12. QED
  BY <1>10, <1>11

(* Deleting the operations that were applied leaves the others queued, and *)
(* the copies of the deleted ones are in place.                            *)
LEMMA RouteDeleted ==
    ASSUME QueueType, RouteInv, AppliedInv, DeletePendingBatch(done),
           UNCHANGED <<members, copied, fingerprint, place, cfg, missed>>
    PROVE  RouteInv'
<1>0. /\ Len(pending) \in Nat /\ DOMAIN pending = 1 .. Len(pending)
      /\ done \in 0 .. Len(pending)
  BY DEF QueueType
<1>1. SUFFICES ASSUME Current, Routing(cfg), NEW k \in Ours
               PROVE  /\ \A a, b \in Held(k)' : a = b
                      /\ Placed(k)' \/ MoveQueued(k)'
  BY SamePlaces DEF RouteInv, Current, Ours
<1>2. (\A a, b \in Held(k) : a = b) /\ (Placed(k) \/ MoveQueued(k))
  BY <1>1 DEF RouteInv
<1>3. Held(k)' = Held(k) /\ (Placed(k)' <=> Placed(k))
  BY SamePlaces
<1>4. ASSUME NEW i \in 1 .. Len(pending), pending[i].key = k, pending[i].kind = pendingMove
      PROVE  Placed(k) \/ MoveQueued(k)'
  <2>1. CASE i <= done
    <3>1. i \in 1 .. done
      BY <1>0, <2>1
    <3>2. QED
      BY <1>1, <1>4, <3>1 DEF AppliedInv
  <2>2. CASE i > done
    <3>1. i - done \in DOMAIN pending' /\ pending'[i - done] = pending[i]
      BY <1>0, <2>2, DeletedFacts
    <3>2. QED
      BY <1>4, <3>1 DEF MoveQueued
  <2>3. QED
    BY <1>0, <2>1, <2>2
<1>5. QED
  BY <1>0, <1>2, <1>3, <1>4 DEF MoveQueued

(* The steps that move a copy, record one or change the configuration.     *)
LEMMA RouteStep ==
    ASSUME IdsApart, MembershipInv, MembershipInv', PlacementInv, Next
    PROVE  RouteInv'
<1>0. /\ QueueType /\ place \in [Keys -> SUBSET DestFolders] /\ RealKeys \subseteq Keys
      /\ RouteInv /\ StoredInv /\ UnsavedInv /\ AppliedInv /\ BackfillInv
      /\ \A k \in Ours : k \in Keys /\ k \in RealKeys
  BY TypeParts, MembershipAssumption DEF MembershipInv, DestType, DestFolders, PlacementInv, Ours
<1>1. CASE UNCHANGED <<members, pending, copied, fingerprint, place, cfg, missed>>
  BY <1>0, <1>1, SamePlaces DEF RouteInv, Current, Ours, MoveQueued
<1>2. CASE Removals \/ RebuildRemovals
  <2>1. UNCHANGED <<copied, fingerprint, place, cfg, missed, scan>>
    BY <1>2 DEF Removals, RebuildRemovals, destVars, scanVars
  <2>2. \E gone : recordRemovals(gone)
    BY <1>2 DEF Removals, RebuildRemovals
  <2>3. QED
    BY <1>0, <2>1, <2>2, RouteRemovals
<1>3. CASE recordAdditions
  BY <1>0, <1>3, RouteAdditions
<1>4. ASSUME NEW j \in Keys, BackfillMove(j)
      PROVE  RouteInv'
  <2>1. ~Current /\ UNCHANGED <<fingerprint, cfg>>
    BY <1>0, <1>4 DEF BackfillMove, storeVars, BackfillInv
  <2>2. QED
    BY <2>1 DEF RouteInv, Current
<1>5. CASE BackfillDone
  <2>1. UNCHANGED <<members, cfg, place>> /\ phase = "backfill" /\ back = <<>>
        /\ UNCHANGED <<copied, missed>>
    BY <1>5 DEF BackfillDone, destVars
  <2>2. Ahead = {}
    BY <2>1 DEF Ahead
  <2>3. ASSUME Routing(cfg), NEW k \in Ours
        PROVE  Held(k) \subseteq {destFolderFor(cfg, k)}
    BY <1>0, <2>1, <2>2, <2>3 DEF BackfillInv
  <2>4. ASSUME Routing(cfg), NEW k \in Ours
        PROVE  (\A a, b \in Held(k)' : a = b) /\ Placed(k)'
    <3>1. Held(k)' = Held(k) /\ (Placed(k)' <=> Placed(k))
      BY <2>1, SamePlaces
    <3>2. QED
      BY <2>3, <2>4, <3>1 DEF Placed, Held
  <2>5. QED
    BY <2>1, <2>4, SamePlaces DEF RouteInv, Ours
<1>6. ASSUME NEW j \in Keys, Guard(j)
      PROVE  RouteInv'
  <2>1. /\ UNCHANGED <<members, pending, fingerprint, place, cfg>>
        /\ copied' = copied \cup {j} /\ missed' = missed \cup {j}
    BY <1>6 DEF Guard, destVars
  <2>2. Ours' \subseteq Ours
    BY <2>1 DEF Ours
  <2>3. QED
    BY <1>0, <2>1, <2>2, SamePlaces DEF RouteInv, Current, MoveQueued
<1>7. ASSUME NEW j \in Keys, AppendCopy(j)
      PROVE  RouteInv'
  <2>1. /\ UNCHANGED <<members, cfg, pending, copied, fingerprint, missed>> /\ ~Findable(j)
        /\ place' = [place EXCEPT ![j] = @ \cup {destFolderFor(cfg, j)}]
    BY <1>7 DEF AppendCopy, storeVars
  <2>2. SUFFICES ASSUME Current, Routing(cfg), NEW k \in Ours
                 PROVE  /\ \A a, b \in Held(k)' : a = b
                        /\ Placed(k)' \/ MoveQueued(k)'
    BY <2>1, SamePlaces DEF RouteInv, Current, Ours
  <2>3. CASE k # j
    <3>1. place'[k] = place[k]
      BY <1>0, <2>1, <2>3
    <3>2. Held(k)' = Held(k) /\ (Placed(k)' <=> Placed(k)) /\ (MoveQueued(k)' <=> MoveQueued(k))
      BY <2>1, <3>1, SamePlaces DEF MoveQueued
    <3>3. (\A a, b \in Held(k) : a = b) /\ (Placed(k) \/ MoveQueued(k))
      BY <1>0, <2>2 DEF RouteInv
    <3>4. QED
      BY <3>2, <3>3
  <2>4. CASE k = j
    <3>1. place[j] \cap Buckets(cfg) = {}
      BY <1>0, <2>1, <2>2, <2>4 DEF Findable
    <3>2. place'[j] = place[j] \cup {destFolderFor(cfg, j)}
      BY <1>0, <2>1
    <3>3. Buckets(cfg)' = Buckets(cfg) /\ destFolderFor(cfg, j)' = destFolderFor(cfg, j)
      BY <2>1, SamePlaces
    <3>4. QED
      BY <2>4, <3>1, <3>2, <3>3 DEF Placed, Held
  <2>5. QED
    BY <2>3, <2>4
<1>8. CASE RecordCopies
  <2>1. /\ UNCHANGED <<members, cfg, place, pending, fingerprint, missed>>
        /\ copied' = copied \cup unsaved /\ unsaved # {}
    BY <1>8 DEF RecordCopies, destVars
  <2>2. ASSUME NEW k \in unsaved \cap RealKeys
        PROVE  (\A a, b \in Held(k) : a = b) /\ Placed(k)
    BY <1>0, <2>1 DEF UnsavedInv, Placed, Held
  <2>3. Ours' \subseteq Ours \cup (unsaved \cap RealKeys)
    BY <2>1 DEF Ours
  <2>4. QED
    BY <1>0, <2>1, <2>2, <2>3, SamePlaces DEF RouteInv, Current, MoveQueued
<1>9. CASE applyPending
  <2>1. /\ UNCHANGED <<members, cfg, pending, copied, fingerprint, missed>> /\ done < page
    BY <1>9 DEF applyPending, storeVars
  <2>2. SUFFICES ASSUME Current, Routing(cfg), NEW k \in Ours
                 PROVE  /\ \A a, b \in Held(k)' : a = b
                        /\ Placed(k)' \/ MoveQueued(k)'
    BY <2>1, SamePlaces DEF RouteInv, Current, Ours
  <2>3. CASE place'[k] = place[k]
    BY <1>0, <2>1, <2>2, <2>3, SamePlaces DEF RouteInv, MoveQueued
  <2>4. CASE place'[k] # place[k]
    <3>1. pending[done + 1].kind = pendingMove /\ pending[done + 1].key = k
      BY <1>0, <1>9, <2>4, ExactApply DEF AppliesToOne
    <3>2. place'[k] = MovedCopy(k)
      BY <1>0, <1>9, <2>2, <3>1, ExactApply DEF AppliesToOne
    <3>3. place'[k] \cap Buckets(cfg) \subseteq {destFolderFor(cfg, k)}
      BY <1>0, <2>2, <3>2, MovedFacts DEF RouteInv
    <3>4. QED
      BY <2>1, <3>3, SamePlaces DEF Placed, Held
  <2>5. QED
    BY <2>3, <2>4
<1>10. CASE PageDone \/ ApplyFails
  <2>1. DeletePendingBatch(done) /\ UNCHANGED <<members, copied, fingerprint, place, cfg, missed>>
    BY <1>10 DEF PageDone, ApplyFails, Completed, destVars
  <2>2. QED
    BY <1>0, <2>1, RouteDeleted
<1>11. CASE Reconfigure
  <2>1. UNCHANGED <<members, pending, copied, fingerprint, place, missed>> /\ Current
    BY <1>11 DEF Reconfigure, storeVars, destVars
  <2>2. SUFFICES ASSUME Current'
                 PROVE  RouteInv'
    BY DEF RouteInv
  <2>3. cfg'.archive = cfg.archive /\ cfg'.sent = cfg.sent
    BY <2>1, <2>2 DEF Current, backfillFingerprint
  <2>4. \A f, k : MemberHas(f, k)' <=> MemberHas(f, k)
    BY <2>1 DEF MemberHas
  <2>5. /\ Routing(cfg)' <=> Routing(cfg)
        /\ \A k : Held(k)' = Held(k) /\ (Placed(k)' <=> Placed(k))
    BY <2>1, <2>3, <2>4, SameRoutes DEF Held, Placed
  <2>6. QED
    BY <1>0, <2>1, <2>5 DEF RouteInv, Ours, MoveQueued
<1>12. CASE ~(\/ Removals \/ RebuildRemovals \/ recordAdditions \/ BackfillDone \/ RecordCopies
              \/ applyPending \/ PageDone \/ ApplyFails \/ Reconfigure
              \/ \E k \in Keys : BackfillMove(k) \/ Guard(k) \/ AppendCopy(k))
  <2>1. UNCHANGED members
    BY <1>12, TableWriters DEF CommitWindow, AdoptFolder
  <2>2. UNCHANGED pending
    BY <1>12, QueueWriters DEF LoadPage, Crash, storeVars
  <2>3. UNCHANGED <<copied, missed>>
    BY <1>12, RecordWriters
  <2>4. UNCHANGED <<fingerprint, place, cfg>>
    BY <1>12, DestWriters DEF BackfillTag, storeVars
  <2>5. QED
    BY <1>1, <2>1, <2>2, <2>3, <2>4
<1>13. QED
  BY <1>2, <1>3, <1>4, <1>5, <1>6, <1>7, <1>8, <1>9, <1>10, <1>11, <1>12

(* The invariant holds for an empty database.                              *)
LEMMA PlacementInit ==
    ASSUME Init
    PROVE  PlacementInv
<1>1. RouteInv
  BY DEF Init, RouteInv, Ours
<1>2. StoredInv /\ UnsavedInv
  BY DEF Init, StoredInv, UnsavedInv, Scanning
<1>3. AppliedInv
  BY DEF Init, AppliedInv
<1>4. BackfillInv
  <2>1. back = <<>> /\ <<>> \in Seq(DestFolders) /\ phase = "down"
    BY DEF Init
  <2>2. QED
    BY <2>1 DEF BackfillInv
<1>5. QED
  BY <1>1, <1>2, <1>3, <1>4 DEF PlacementInv

(* Every step keeps it.                                                    *)
LEMMA PlacementNext ==
    ASSUME IdsApart, MembershipInv, MembershipInv', PlacementInv, [Next]_vars
    PROVE  PlacementInv'
<1>1. CASE Next
  BY <1>1, RouteStep, StoredStep, UnsavedStep, AppliedStep, BackfillStep DEF PlacementInv
<1>2. CASE UNCHANGED vars
  <2>1. /\ UNCHANGED <<members, pending, copied, fingerprint, place, cfg, missed>>
        /\ UNCHANGED <<phase, scan, back, bf, unsaved, done>>
    BY <1>2 DEF vars, storeVars, destVars, passVars, scanVars, backVars, copyVars, queueVars
  <2>2. RouteInv'
    BY <2>1, SamePlaces DEF PlacementInv, RouteInv, Current, Ours, MoveQueued
  <2>3. StoredInv'
    BY <2>1 DEF PlacementInv, StoredInv, Scanning, MemberKeys, MemberHas
  <2>4. UnsavedInv'
    BY <2>1, SamePlaces DEF PlacementInv, UnsavedInv
  <2>5. AppliedInv'
    BY <2>1, SamePlaces DEF PlacementInv, AppliedInv, Current, Ours
  <2>6. BackfillInv'
    BY <2>1, SamePlaces DEF PlacementInv, BackfillInv, Current, Ahead
  <2>7. QED
    BY <2>2, <2>3, <2>4, <2>5, <2>6 DEF PlacementInv
<1>3. QED
  BY <1>1, <1>2

(* No change of placement is lost, for any folders, keys, configurations   *)
(* and sizes: a copy recorded when it was made is where the recorded       *)
(* membership asks for it or a move is queued, whichever step fails and    *)
(* whichever configuration comes back (membership.go, MemberChangeBatch,   *)
(* applyPending, maybeBackfill).  No Message-ID contains another.          *)
THEOREM PlacedOrOwedCorrect ==
    ASSUME IdsApart
    PROVE  Spec => []PlacedOrOwed
<1>1. Init => PlacementInv
  BY PlacementInit
<1>2. MembershipInv /\ MembershipInv' /\ PlacementInv /\ [Next]_vars => PlacementInv'
  BY PlacementNext
<1>3. PlacementInv => PlacedOrOwed
  BY DEF PlacementInv, RouteInv, PlacedOrOwed, Ours
<1>4. QED
  BY <1>1, <1>2, <1>3, MembershipInvariant, PTL DEF Spec

-----------------------------------------------------------------------------
(* The queued operations on a label.                                       *)

(* A queue that does not change.                                           *)
LEMMA SameOps ==
    ASSUME UNCHANGED pending, NEW k, NEW f
    PROVE  KeywordOps(k, f)' = KeywordOps(k, f) /\ (LastAdds(k, f)' <=> LastAdds(k, f))
<1>1. KeywordOps(k, f)' = KeywordOps(k, f)
  BY DEF KeywordOps
<1>2. QED
  BY <1>1 DEF LastAdds

(* What a change of membership does to the operations on a label: nothing, *)
(* or its own operation is the last one.                                   *)
LEMMA AppendedOps ==
    ASSUME QueueType, QueueType', NEW f, NEW op, NEW K, Enqueues(f, op, K), NEW k, NEW g
    PROVE  /\ KeywordOps(k, g) \subseteq KeywordOps(k, g)'
           /\ ~(g = f /\ k \in K /\ WatchedKind(cfg, f) = pendingKeyword) =>
                 KeywordOps(k, g)' = KeywordOps(k, g) /\ (LastAdds(k, g)' <=> LastAdds(k, g))
           /\ g = f /\ k \in K /\ WatchedKind(cfg, f) = pendingKeyword =>
                 \E i \in KeywordOps(k, g)' :
                     pending'[i].op = op /\ \A j \in KeywordOps(k, g)' : j <= i
<1>1. /\ Len(pending) \in Nat /\ DOMAIN pending = 1 .. Len(pending)
      /\ Len(pending') \in Nat /\ DOMAIN pending' = 1 .. Len(pending')
      /\ Len(pending') >= Len(pending)
      /\ \A i \in 1 .. Len(pending) : pending'[i] = pending[i] /\ i \in 1 .. Len(pending')
  <2>1. /\ Len(pending) \in Nat /\ DOMAIN pending = 1 .. Len(pending)
        /\ Len(pending') \in Nat /\ DOMAIN pending' = 1 .. Len(pending')
    BY DEF QueueType
  <2>2. /\ Len(pending') >= Len(pending)
        /\ \A i \in 1 .. Len(pending) : pending'[i] = pending[i]
    BY DEF Enqueues
  <2>3. QED
    BY <2>1, <2>2
<1>2. KeywordOps(k, g) \subseteq KeywordOps(k, g)'
  BY <1>1 DEF KeywordOps
<1>3. \A i \in KeywordOps(k, g)' :
         i \in 1 .. Len(pending') /\ (i <= Len(pending) => i \in KeywordOps(k, g))
  BY <1>1 DEF KeywordOps
<1>4. ASSUME NEW i \in KeywordOps(k, g)', i > Len(pending)
      PROVE  /\ g = f /\ k \in K /\ WatchedKind(cfg, f) = pendingKeyword
             /\ pending'[i].op = op /\ pending'[i].key = k
  <2>1. pending'[i].kind = pendingKeyword /\ pending'[i].key = k /\ pending'[i].folder = g
    BY DEF KeywordOps
  <2>2. /\ pending'[i].kind = WatchedKind(cfg, f) /\ pending'[i].folder = f
        /\ pending'[i].op = op /\ pending'[i].key \in K
    BY <1>3, <1>4 DEF Enqueues
  <2>3. QED
    BY <2>1, <2>2
<1>5. ASSUME ~(g = f /\ k \in K /\ WatchedKind(cfg, f) = pendingKeyword)
      PROVE  KeywordOps(k, g)' = KeywordOps(k, g) /\ (LastAdds(k, g)' <=> LastAdds(k, g))
  <2>1. KeywordOps(k, g)' = KeywordOps(k, g)
    BY <1>1, <1>2, <1>3, <1>4, <1>5
  <2>2. \A i \in KeywordOps(k, g) : pending'[i] = pending[i]
    BY <1>1 DEF KeywordOps
  <2>3. QED
    BY <2>1, <2>2 DEF LastAdds
<1>6. ASSUME g = f, k \in K, WatchedKind(cfg, f) = pendingKeyword
      PROVE  \E i \in KeywordOps(k, g)' :
                 pending'[i].op = op /\ \A j \in KeywordOps(k, g)' : j <= i
  <2>1. PICK i \in 1 .. Len(pending') : i > Len(pending) /\ pending'[i].key = k
    BY <1>6 DEF Enqueues
  <2>2. /\ pending'[i].kind = pendingKeyword /\ pending'[i].folder = g /\ pending'[i].op = op
    BY <1>6, <2>1 DEF Enqueues
  <2>3. i \in KeywordOps(k, g)'
    BY <1>1, <2>1, <2>2 DEF KeywordOps
  <2>4. ASSUME NEW j \in KeywordOps(k, g)'
        PROVE  j <= i
    <3>1. CASE j <= Len(pending)
      BY <1>1, <1>3, <2>1, <3>1
    <3>2. CASE j > Len(pending)
      <4>1. pending'[j].key = k /\ j \in 1 .. Len(pending')
        BY <1>3, <1>4, <3>2
      <4>2. i = j
        BY <2>1, <3>2, <4>1 DEF Enqueues
      <4>3. QED
        BY <2>1, <4>2
    <3>3. QED
      BY <1>1, <1>3, <3>1, <3>2
  <2>5. QED
    BY <2>2, <2>3, <2>4
<1>7. QED
  BY <1>2, <1>5, <1>6

(* Operations that stay in the queue move up by the length of the deleted  *)
(* prefix.                                                                 *)
LEMMA DeletedOps ==
    ASSUME QueueType, NEW n \in 0 .. Len(pending), DeletePendingBatch(n), NEW k, NEW f
    PROVE  /\ \A i \in KeywordOps(k, f)' : i + n \in KeywordOps(k, f)
           /\ \A i \in KeywordOps(k, f) : i > n => i - n \in KeywordOps(k, f)'
           /\ KeywordOps(k, f)' # {} /\ LastAdds(k, f) => LastAdds(k, f)'
<1>1. /\ Len(pending) \in Nat /\ DOMAIN pending = 1 .. Len(pending) /\ n \in Nat
      /\ \A i \in KeywordOps(k, f) : i \in 1 .. Len(pending)
  BY DEF QueueType, KeywordOps
<1>2. /\ DOMAIN pending' = 1 .. Len(pending) - n
      /\ \A i \in 1 .. Len(pending) - n : pending'[i] = pending[i + n]
      /\ \A i \in 1 .. Len(pending) : i > n =>
            i - n \in 1 .. Len(pending) - n /\ pending'[i - n] = pending[i]
  BY DeletedFacts
<1>3. ASSUME NEW i \in KeywordOps(k, f)'
      PROVE  i \in 1 .. Len(pending) - n /\ i + n \in KeywordOps(k, f)
  <2>1. i \in 1 .. Len(pending) - n /\ pending'[i] = pending[i + n]
    BY <1>2 DEF KeywordOps
  <2>2. i + n \in 1 .. Len(pending)
    BY <1>1, <2>1
  <2>3. QED
    BY <1>1, <2>1, <2>2 DEF KeywordOps
<1>4. ASSUME NEW i \in KeywordOps(k, f), i > n
      PROVE  i - n \in KeywordOps(k, f)' /\ pending'[i - n] = pending[i]
  <2>1. i - n \in 1 .. Len(pending) - n /\ pending'[i - n] = pending[i]
    BY <1>1, <1>2, <1>4
  <2>2. QED
    BY <1>2, <2>1 DEF KeywordOps
<1>5. ASSUME KeywordOps(k, f)' # {}, LastAdds(k, f)
      PROVE  LastAdds(k, f)'
  <2>1. PICK i \in KeywordOps(k, f) : pending[i].op = "add" /\ \A j \in KeywordOps(k, f) : j <= i
    BY <1>5 DEF LastAdds
  <2>2. PICK m \in KeywordOps(k, f)' : TRUE
    BY <1>5
  <2>3. i > n
    <3>1. m + n \in KeywordOps(k, f) /\ m \in 1 .. Len(pending) - n
      BY <1>3
    <3>2. m + n <= i
      BY <2>1, <3>1
    <3>3. QED
      BY <1>1, <3>1, <3>2
  <2>4. i - n \in KeywordOps(k, f)' /\ pending'[i - n].op = "add"
    BY <1>4, <2>1, <2>3
  <2>5. ASSUME NEW j \in KeywordOps(k, f)'
        PROVE  j <= i - n
    <3>1. j + n <= i /\ j \in Int
      BY <1>3, <2>1
    <3>2. QED
      BY <1>1, <3>1
  <2>6. QED
    BY <2>4, <2>5 DEF LastAdds
<1>6. QED
  BY <1>3, <1>4, <1>5

(* Operations are queued for recorded copies, and recorded copies stay.    *)
LEMMA OwnedStep ==
    ASSUME MembershipInv, MembershipInv', OwnedInv, Next
    PROVE  OwnedInv'
<1>0. /\ QueueType /\ QueueType' /\ PassType /\ MailInv /\ SelectedInv
      /\ Len(pending) \in Nat /\ DOMAIN pending = 1 .. Len(pending)
      /\ Len(pending') \in Nat /\ DOMAIN pending' = 1 .. Len(pending')
      /\ page \in 0 .. Len(pending) /\ done \in 0 .. page
  BY TypeParts DEF MembershipInv, QueueType
<1>1. copied \subseteq copied'
  BY RecordWriters DEF recordAdditions, RecordCopies, Guard
<1>2. CASE UNCHANGED pending
  BY <1>1, <1>2 DEF OwnedInv
<1>3. ASSUME NEW f \in Watched, NEW op, NEW J, NEW K, K = Gated(f, J), Enqueues(f, op, K)
      PROVE  OwnedInv'
  <2>1. SUFFICES ASSUME NEW i \in 1 .. Len(pending')
                 PROVE  /\ pending'[i].key \in copied'
                        /\ pending'[i].kind = pendingKeyword => pending'[i].folder \in Labels
    BY <1>0 DEF OwnedInv
  <2>2. CASE i <= Len(pending)
    <3>1. i \in DOMAIN pending /\ pending'[i] = pending[i]
      BY <1>0, <1>3, <2>2 DEF Enqueues
    <3>2. QED
      BY <1>1, <3>1 DEF OwnedInv
  <2>3. CASE i > Len(pending)
    <3>1. /\ pending'[i].kind = WatchedKind(cfg, f) /\ pending'[i].folder = f
          /\ pending'[i].key \in K
      BY <1>3, <2>3 DEF Enqueues
    <3>2. pending'[i].key \in copied
      BY <1>3, <3>1 DEF Gated, gatePending
    <3>3. WatchedKind(cfg, f) = pendingKeyword => f \in Labels
      BY DEF WatchedKind, pendingKeyword, pendingMove, none
    <3>4. QED
      BY <1>1, <3>1, <3>2, <3>3
  <2>4. QED
    BY <1>0, <2>2, <2>3
<1>4. PICK f \in Watched : f = scan.folder
  BY <1>0, ScanFacts
<1>5. CASE Removals \/ RebuildRemovals
  <2>1. PICK gone : recordRemovals(gone)
    BY <1>5 DEF Removals, RebuildRemovals
  <2>2. PICK K : K = Gated(f, gone)
    OBVIOUS
  <2>3. Enqueues(f, "remove", K)
    BY <1>0, <1>4, <2>1, <2>2, RemovalsEnqueue
  <2>4. QED
    BY <1>3, <2>2, <2>3
<1>6. CASE recordAdditions
  <2>1. PICK J : J = {k \in Shown : ~Suppressed(k)}
    OBVIOUS
  <2>2. PICK K : K = Gated(f, J)
    OBVIOUS
  <2>3. Enqueues(f, "add", K)
    BY <1>0, <1>4, <1>6, <2>1, <2>2, AdditionsEnqueue
  <2>4. QED
    BY <1>3, <2>2, <2>3
<1>7. CASE PageDone \/ ApplyFails
  <2>1. DeletePendingBatch(done) /\ done \in 0 .. Len(pending)
    BY <1>0, <1>7 DEF PageDone, ApplyFails, Completed
  <2>2. \A i \in DOMAIN pending' : i + done \in DOMAIN pending /\ pending'[i] = pending[i + done]
    <3>1. /\ DOMAIN pending' = 1 .. Len(pending) - done
          /\ \A i \in 1 .. Len(pending) - done : pending'[i] = pending[i + done]
      BY <1>0, <2>1, DeletedFacts
    <3>2. \A i \in 1 .. Len(pending) - done : i + done \in 1 .. Len(pending)
      BY <1>0
    <3>3. QED
      BY <1>0, <3>1, <3>2
  <2>3. QED
    BY <1>1, <2>2 DEF OwnedInv
<1>8. CASE LoadPage \/ applyPending \/ Crash
  BY <1>2, <1>8 DEF LoadPage, applyPending, Crash, storeVars
<1>9. QED
  BY <1>2, <1>5, <1>6, <1>7, <1>8, QueueWriters

(* The folders of a pass are chosen by the configuration that is running,  *)
(* and no pass outlives it.                                                *)
LEMMA WatchStep ==
    ASSUME MembershipInv, WatchInv, Next
    PROVE  WatchInv'
<1>0. /\ PassType /\ phase \in Phases /\ scan \in Scans
      /\ {SourceInbox, SentSrcFolder} \cap Labels = {}
  BY TypeParts, MembershipAssumption DEF MembershipInv, PassType
<1>1. CASE UNCHANGED <<phase, scan, todo>>
  <2>1. UNCHANGED cfg \/ (phase = "down" /\ todo = {})
    BY DestWriters DEF BackfillTag, BackfillMove, AppendCopy, BackfillDone, applyPending,
       Reconfigure, WatchInv
  <2>2. QED
    BY <1>1, <2>1 DEF WatchInv, Scanning
<1>2. CASE StartPass
  <2>1. todo' = WatchedFolders(cfg) /\ phase' = "membership" /\ UNCHANGED cfg
    BY <1>2 DEF StartPass
  <2>2. todo' \cap Labels # {} => cfg.labels
    BY <1>0, <2>1 DEF WatchedFolders
  <2>3. QED
    BY <2>1, <2>2 DEF WatchInv, Scanning
<1>3. ASSUME NEW f \in Watched, SelectNamedFolder(f)
      PROVE  WatchInv'
  <2>1. f \in todo /\ scan'.folder = f /\ UNCHANGED <<cfg, todo>> /\ phase' # "down"
    BY <1>3 DEF SelectNamedFolder, NextFolder
  <2>2. QED
    BY <2>1 DEF WatchInv
<1>4. CASE Removals \/ recordAdditions \/ CommitWindow \/ RebuildRemovals
  <2>1. Scanning /\ UNCHANGED <<cfg, todo>> /\ phase' # "down"
    BY <1>4 DEF Removals, recordAdditions, CommitWindow, RebuildRemovals, Scanning, scanVars
  <2>2. scan'.folder = scan.folder
    <3>1. CASE Removals \/ RebuildRemovals
      BY <3>1 DEF Removals, RebuildRemovals, scanVars
    <3>2. CASE recordAdditions
      BY <1>0, <3>2 DEF recordAdditions, Scans
    <3>3. CASE CommitWindow
      BY <1>0, <3>3 DEF CommitWindow, Scans
    <3>4. QED
      BY <1>4, <3>1, <3>2, <3>3
  <2>3. QED
    BY <2>1, <2>2 DEF WatchInv
<1>5. CASE FolderDone \/ AdoptFolder
  <2>1. todo' \subseteq todo /\ UNCHANGED cfg /\ phase' = "membership"
    BY <1>5 DEF FolderDone, AdoptFolder
  <2>2. QED
    BY <2>1 DEF WatchInv, Scanning
<1>6. CASE MembershipDone \/ BackfillScan \/ BackfillNext \/ BackfillDone \/ MirrorDone \/ LoadPage
  <2>1. UNCHANGED <<cfg, todo>> /\ phase' # "down" /\ ~Scanning'
    BY <1>6 DEF MembershipDone, BackfillScan, BackfillNext, BackfillDone, MirrorDone, LoadPage,
       scanVars, Scanning
  <2>2. QED
    BY <2>1 DEF WatchInv
<1>7. CASE Crash \/ ApplyFails
  <2>1. todo' = {} /\ ~Scanning'
    BY <1>7 DEF Crash, ApplyFails, Abort, Scanning
  <2>2. QED
    BY <2>1 DEF WatchInv
<1>8. QED
  BY <1>1, <1>2, <1>3, <1>4, <1>5, <1>6, <1>7, PassWriters

(* The tags of a copy that is not yet recorded.                            *)
LEMMA UnsavedTagStep ==
    ASSUME MembershipInv, UnsavedInv, UnsavedTagInv, Next
    PROVE  UnsavedTagInv'
<1>0. /\ keywords \in [Keys -> SUBSET {KeywordOf[f] : f \in Watched}] /\ unsaved \subseteq Keys
      /\ {SourceInbox, SentSrcFolder} \cap Labels = {} /\ Labels \subseteq Watched
  BY TypeParts, MembershipAssumption DEF MembershipInv, DestType, CopyType, Watched
<1>1. CASE unsaved' = {}
  BY <1>1 DEF UnsavedTagInv
<1>2. CASE UNCHANGED <<members, cfg, keywords, unsaved>>
  BY <1>2 DEF UnsavedTagInv, MemberHas
<1>3. ASSUME NEW j \in Keys, AppendCopy(j)
      PROVE  UnsavedTagInv'
  <2>1. /\ UNCHANGED <<members, cfg>> /\ unsaved' = unsaved \cup {j}
        /\ keywords' = [keywords EXCEPT ![j] =
                            @ \cup (IF cfg.labels THEN labelKeywords(cfg, j) ELSE {})]
    BY <1>3 DEF AppendCopy, storeVars
  <2>2. SUFFICES ASSUME cfg.labels, NEW k \in unsaved', NEW f \in Labels, MemberHas(f, k)
                 PROVE  KeywordOf[f] \in keywords'[k]
    BY <2>1 DEF UnsavedTagInv, MemberHas
  <2>3. CASE k # j
    <3>1. KeywordOf[f] \in keywords[k] /\ k \in Keys
      BY <1>0, <2>1, <2>2, <2>3 DEF UnsavedTagInv
    <3>2. QED
      BY <1>0, <2>1, <2>3, <3>1
  <2>4. CASE k = j
    <3>1. KeywordOf[f] \in labelKeywords(cfg, j)
      BY <1>0, <2>2, <2>4 DEF labelKeywords, labelsFor, isRoutingFolder
    <3>2. QED
      BY <1>0, <2>1, <2>2, <2>4, <3>1
  <2>5. QED
    BY <2>3, <2>4
<1>4. CASE unsaved # {} /\ UNCHANGED unsaved
  <2>1. phase = "mirror"
    BY <1>4 DEF UnsavedInv
  <2>2. UNCHANGED <<members, folders>>
    BY <2>1, TableWriters DEF Removals, recordAdditions, CommitWindow, RebuildRemovals, AdoptFolder
  <2>3. UNCHANGED <<fingerprint, place, keywords, cfg>> \/ \E k \in Keys : AppendCopy(k)
    BY <2>1, DestWriters DEF BackfillTag, BackfillMove, BackfillDone, applyPending, Reconfigure
  <2>4. QED
    BY <1>2, <1>3, <1>4, <2>2, <2>3
<1>5. CASE UNCHANGED unsaved
  BY <1>1, <1>4, <1>5
<1>6. (\E k \in Keys : Arrive(k) \/ Guard(k)) \/ MembershipDone => UNCHANGED unsaved
  BY DEF Arrive, passVars, copyVars, Guard, MembershipDone
<1>7. RecordCopies \/ Crash \/ ApplyFails => unsaved' = {}
  BY DEF RecordCopies, Crash, ApplyFails, Abort
<1>8. QED
  BY <1>1, <1>3, <1>5, <1>6, <1>7, CopyWriters

(* An operation that was applied is undone by a later one only.            *)
LEMMA AppliedTagStep ==
    ASSUME IdsApart, LabelKeywordsDiffer, MembershipInv, AppliedInv, OwnedInv, AppliedTagInv, Next
    PROVE  AppliedTagInv'
<1>0. /\ QueueType /\ place \in [Keys -> SUBSET DestFolders]
      /\ keywords \in [Keys -> SUBSET {KeywordOf[f] : f \in Watched}]
      /\ Len(pending) \in Nat /\ DOMAIN pending = 1 .. Len(pending)
      /\ page \in 0 .. Len(pending) /\ done \in 0 .. page
      /\ \A k, f : KeywordOps(k, f) \subseteq 1 .. Len(pending)
  BY TypeParts DEF MembershipInv, DestType, DestFolders, QueueType, KeywordOps
<1>1. CASE done' = 0
  <2>1. \A k, f : \A i \in KeywordOps(k, f)' : i \in Nat \ {0}
    <3>1. pending' \in Seq(PendingOp)
      BY TypeParts, TypeStep DEF MembershipInv, QueueType
    <3>2. DOMAIN pending' = 1 .. Len(pending') /\ Len(pending') \in Nat
      BY <3>1
    <3>3. QED
      BY <3>2 DEF KeywordOps
  <2>2. \A i \in Nat \ {0} : ~(i <= 0)
    OBVIOUS
  <2>3. QED
    BY <1>1, <2>1, <2>2 DEF AppliedTagInv
<1>2. CASE UNCHANGED <<members, cfg, place, keywords, pending, done>>
  BY <1>2, SamePlaces, SameOps DEF AppliedTagInv
<1>3. CASE applyPending
  <2>1. /\ UNCHANGED <<members, cfg, pending>> /\ done < page /\ done' = done + 1
    BY <1>3 DEF applyPending, storeVars
  <2>2. \A k, f : KeywordOps(k, f)' = KeywordOps(k, f)
    BY <2>1, SameOps
  <2>3. PICK op : op = pending[done + 1]
    OBVIOUS
  <2>4. /\ done + 1 \in DOMAIN pending /\ op \in PendingOp /\ op.key \in Keys
        /\ op.kind = pendingKeyword => op.folder \in Labels
    <3>1. done + 1 \in DOMAIN pending
      BY <1>0, <2>1
    <3>2. op \in PendingOp /\ (op.kind = pendingKeyword => op.folder \in Labels)
      BY <2>3, <3>1 DEF QueueType, OwnedInv, MembershipInv, TypeOK
    <3>3. QED
      BY <3>1, <3>2, MembershipAssumption DEF PendingOp
  <2>5. SUFFICES ASSUME cfg.propagate, NEW k \in Keys, NEW f \in Labels, NEW i \in KeywordOps(k, f),
                        i <= done + 1, pending[i].op = "add", Held(k)' # {},
                        \A j \in KeywordOps(k, f) : j <= done + 1 => j <= i
                 PROVE  KeywordOf[f] \in keywords'[k]
    BY <2>1, <2>2 DEF AppliedTagInv
  <2>6. Held(k) # {}
    <3>1. place'[k] = place[k] \/ place'[k] = MovedCopy(k)
      BY <1>0, <1>3, <2>3, <2>4, ExactApply DEF AppliesToOne
    <3>2. Held(k)' = place'[k] \cap Buckets(cfg)
      BY <2>1, SamePlaces DEF Held
    <3>3. Held(k) = {} => MovedCopy(k) = place[k]
      BY MovedFacts
    <3>4. QED
      BY <2>5, <3>1, <3>2, <3>3 DEF Held
  <2>7. CASE i = done + 1
    <3>1. op.kind = pendingKeyword /\ op.key = k /\ op.folder = f /\ op.op = "add"
      BY <2>3, <2>5, <2>7 DEF KeywordOps
    <3>2. keywords' = [keywords EXCEPT ![k] = RetaggedCopy(op)]
      BY <1>3, <2>3, <3>1, ExactApply DEF AppliesToOne, pendingKeyword, pendingMove
    <3>3. RetaggedCopy(op) = keywords[k] \cup {KeywordOf[f]}
      BY <2>5, <2>6, <3>1 DEF RetaggedCopy, Held
    <3>4. QED
      BY <1>0, <3>2, <3>3
  <2>8. CASE i # done + 1
    <3>1. i <= done /\ i \in 1 .. Len(pending)
      BY <1>0, <2>5, <2>8
    <3>2. \A j \in KeywordOps(k, f) : j <= done => j <= i
      BY <1>0, <2>5
    <3>3. KeywordOf[f] \in keywords[k]
      BY <2>5, <2>6, <3>1, <3>2 DEF AppliedTagInv
    <3>4. CASE op.kind = pendingMove \/ op.key # k
      BY <1>0, <1>3, <2>3, <3>3, <3>4, ExactApply DEF AppliesToOne
    <3>5. CASE op.kind # pendingMove /\ op.key = k
      <4>1. op.kind = pendingKeyword
        BY <2>4, <3>5 DEF PendingOp
      <4>2. op.folder # f
        <5>1. SUFFICES ASSUME op.folder = f
                       PROVE  FALSE
          OBVIOUS
        <5>2. done + 1 \in KeywordOps(k, f)
          BY <2>3, <2>4, <3>5, <4>1, <5>1 DEF KeywordOps
        <5>3. done + 1 <= i
          BY <1>0, <2>5, <5>2
        <5>4. QED
          BY <1>0, <3>1, <5>3
      <4>3. KeywordOf[op.folder] # KeywordOf[f]
        BY <2>4, <2>5, <4>1, <4>2 DEF LabelKeywordsDiffer
      <4>4. keywords' = [keywords EXCEPT ![k] = RetaggedCopy(op)]
        BY <1>3, <2>3, <3>5, ExactApply DEF AppliesToOne
      <4>5. KeywordOf[f] \in RetaggedCopy(op)
        BY <3>3, <3>5, <4>3 DEF RetaggedCopy
      <4>6. QED
        BY <1>0, <4>4, <4>5
    <3>6. QED
      BY <3>4, <3>5
  <2>9. QED
    BY <2>7, <2>8
<1>4. CASE LoadPage \/ PageDone \/ Crash \/ ApplyFails
  <2>1. done' = 0
    BY <1>0, <1>4 DEF LoadPage, PageDone, Crash, ApplyFails, Abort
  <2>2. QED
    BY <1>1, <2>1
<1>5. CASE phase # "propagate"
  <2>1. done = 0
    BY <1>5 DEF AppliedInv
  <2>2. UNCHANGED done \/ done' = 0
    BY <1>0, <1>5, QueueWriters DEF Removals, recordAdditions, RebuildRemovals, LoadPage,
       applyPending, PageDone, Crash, ApplyFails, Abort, queueVars
  <2>3. QED
    BY <1>1, <2>1, <2>2
<1>6. CASE phase = "propagate" /\ ~applyPending /\ ~(LoadPage \/ PageDone \/ Crash \/ ApplyFails)
  <2>1. UNCHANGED <<pending, page, done>>
    BY <1>6, QueueWriters DEF Removals, recordAdditions, RebuildRemovals
  <2>2. UNCHANGED <<members, folders>>
    BY <1>6, TableWriters DEF Removals, recordAdditions, CommitWindow, RebuildRemovals, AdoptFolder
  <2>3. UNCHANGED <<fingerprint, place, keywords, cfg>>
    BY <1>6, DestWriters DEF BackfillTag, BackfillMove, AppendCopy, BackfillDone, Reconfigure
  <2>4. QED
    BY <1>2, <2>1, <2>2, <2>3
<1>7. QED
  BY <1>3, <1>4, <1>5, <1>6

(* The label keywords of a copy.                                           *)
LEMMA SameLabels ==
    ASSUME UNCHANGED <<members, cfg>>
    PROVE  \A k : /\ labelKeywords(cfg, k)' = labelKeywords(cfg, k)
                  /\ keywords'[k] = keywords[k] => missingKeywords(k)' = missingKeywords(k)
<1>1. \A k : labelKeywords(cfg, k)' = labelKeywords(cfg, k)
  BY DEF labelKeywords, labelsFor, MemberHas, isRoutingFolder
<1>2. QED
  BY <1>1 DEF missingKeywords

(* A folder is done with when every copy in it has its keywords, and a     *)
(* copy is tagged before it is moved on.                                   *)
LEMMA BackfillTagStep ==
    ASSUME MembershipInv, BackfillInv, BackfillTagInv, BackfillInv', Next
    PROVE  BackfillTagInv'
<1>0. /\ place \in [Keys -> SUBSET DestFolders] /\ back \in Seq(DestFolders)
      /\ keywords \in [Keys -> SUBSET {KeywordOf[f] : f \in Watched}]
  BY TypeParts DEF MembershipInv, DestType, DestFolders, BackfillInv
<1>1. CASE UNCHANGED <<members, cfg, place, keywords, phase, back, bf>>
  BY <1>1, SamePlaces, SameLabels DEF BackfillTagInv, Ahead
<1>2. ASSUME phase' \notin {"backfill", "placing"}
      PROVE  BackfillTagInv'
  BY <1>2 DEF BackfillTagInv
<1>3. CASE MembershipDone
  <2>1. UNCHANGED <<members, cfg, place, keywords>>
    BY <1>3 DEF MembershipDone, storeVars, destVars
  <2>2. /\ destBucketFolders(cfg) \in Seq(DestFolders)
        /\ Elements(destBucketFolders(cfg)) = Buckets(cfg)
    BY BucketListFacts
  <2>3. CASE Current
    BY <1>2, <1>3, <2>3 DEF MembershipDone
  <2>4. CASE ~Current
    <3>1. phase' = "backfill" /\ (cfg.labels => back' = destBucketFolders(cfg))
      BY <1>3, <2>4 DEF MembershipDone
    <3>2. cfg.labels => Ahead' = Buckets(cfg)
      BY <2>2, <3>1, AheadElements
    <3>3. QED
      BY <2>1, <3>1, <3>2, SamePlaces DEF BackfillTagInv, Held
  <2>5. QED
    BY <2>3, <2>4
<1>4. CASE BackfillScan
  <2>1. /\ UNCHANGED <<members, cfg, place, keywords, back>>
        /\ phase = "backfill" /\ phase' = "placing"
        /\ bf'.tag = {k \in {k \in Keys : Head(back) \in place[k]} :
                          cfg.labels /\ missingKeywords(k) # {}}
        /\ bf'.move \subseteq {k \in Keys : Head(back) \in place[k]}
    BY <1>4 DEF BackfillScan, storeVars, destVars
  <2>2. SUFFICES ASSUME cfg.labels
                 PROVE  /\ Ahead \subseteq Buckets(cfg)
                        /\ \A k \in Keys : \A b \in Held(k) :
                              \/ missingKeywords(k) = {}
                              \/ b \in Ahead /\ (b = Head(back) => k \in bf'.tag)
                        /\ \A k \in bf'.move : Head(back) \in place[k]
    BY <2>1, SamePlaces, SameLabels DEF BackfillTagInv, Ahead
  <2>3. Ahead \subseteq Buckets(cfg)
    BY <2>1, <2>2 DEF BackfillTagInv
  <2>4. ASSUME NEW k \in Keys, NEW b \in Held(k), missingKeywords(k) # {}
        PROVE  b \in Ahead /\ (b = Head(back) => k \in bf'.tag)
    <3>1. b \in Ahead
      BY <2>1, <2>2, <2>4 DEF BackfillTagInv
    <3>2. b = Head(back) => k \in bf'.tag
      BY <2>1, <2>2, <2>4 DEF Held
    <3>3. QED
      BY <3>1, <3>2
  <2>5. QED
    BY <2>1, <2>3, <2>4
<1>5. ASSUME NEW j \in Keys, BackfillTag(j)
      PROVE  BackfillTagInv'
  <2>1. /\ UNCHANGED <<members, cfg, place, phase, back>> /\ phase = "placing"
        /\ keywords' = [keywords EXCEPT ![j] = @ \cup missingKeywords(j)]
        /\ bf' = [bf EXCEPT !.tag = @ \ {j}]
    BY <1>5 DEF BackfillTag, storeVars
  <2>2. bf'.move = bf.move
    BY <2>1
  <2>3. bf'.tag = bf.tag \ {j}
    BY <1>5 DEF BackfillTag
  <2>4. \A k \in Keys \ {j} : missingKeywords(k)' = missingKeywords(k)
    <3>1. \A k \in Keys \ {j} : keywords'[k] = keywords[k]
      BY <1>0, <2>1
    <3>2. QED
      BY <2>1, <3>1, SameLabels
  <2>5. missingKeywords(j)' = {}
    <3>1. keywords'[j] = keywords[j] \cup missingKeywords(j)
      BY <1>0, <2>1
    <3>2. labelKeywords(cfg, j)' = labelKeywords(cfg, j)
      BY <2>1, SameLabels
    <3>3. QED
      BY <3>1, <3>2 DEF missingKeywords
  <2>6. SUFFICES ASSUME cfg.labels
                 PROVE  /\ Ahead \subseteq Buckets(cfg)
                        /\ \A k \in Keys : \A b \in Held(k) :
                              \/ missingKeywords(k)' = {}
                              \/ b \in Ahead /\ (b = Head(back) => k \in bf'.tag)
                        /\ \A k \in bf'.move : Head(back) \in place[k]
    BY <2>1, SamePlaces DEF BackfillTagInv, Ahead
  <2>7. Ahead \subseteq Buckets(cfg) /\ \A k \in bf'.move : Head(back) \in place[k]
    BY <2>1, <2>2, <2>6 DEF BackfillTagInv
  <2>8. ASSUME NEW k \in Keys, NEW b \in Held(k), k # j, missingKeywords(k) # {}
        PROVE  b \in Ahead /\ (b = Head(back) => k \in bf'.tag)
    BY <2>1, <2>3, <2>6, <2>8 DEF BackfillTagInv
  <2>9. QED
    BY <2>4, <2>5, <2>7, <2>8
<1>6. ASSUME NEW j \in Keys, BackfillMove(j)
      PROVE  BackfillTagInv'
  <2>1. /\ UNCHANGED <<members, cfg, keywords, phase, back>> /\ phase = "placing"
        /\ place' = [place EXCEPT ![j] = (@ \ {bf.folder}) \cup {destFolderFor(cfg, j)}]
        /\ bf' = [bf EXCEPT !.move = @ \ {j}] /\ bf.tag = {} /\ j \in bf.move
    BY <1>6 DEF BackfillMove, storeVars
  <2>2. /\ bf'.tag = {} /\ bf'.move = bf.move \ {j}
    <3>1. bf'.tag = bf.tag
      BY <2>1
    <3>2. bf'.move = bf.move \ {j}
      BY <1>6 DEF BackfillMove
    <3>3. QED
      BY <2>1, <3>1, <3>2
  <2>3. SUFFICES ASSUME cfg.labels
                 PROVE  /\ Ahead \subseteq Buckets(cfg)
                        /\ \A k \in Keys : \A b \in Held(k)' :
                              \/ missingKeywords(k) = {}
                              \/ b \in Ahead /\ b # Head(back)
                        /\ \A k \in bf'.move : Head(back) \in place'[k]
    BY <2>1, <2>2, SamePlaces, SameLabels DEF BackfillTagInv, Ahead
  <2>4. /\ Ahead \subseteq Buckets(cfg) /\ Head(back) \in Ahead
        /\ \A k \in bf.move : Head(back) \in place[k]
    <3>1. back # <<>>
      BY <2>1 DEF BackfillInv
    <3>2. Head(back) \in Ahead
      BY <1>0, <3>1, ListParts, AheadElements
    <3>3. QED
      BY <2>1, <2>3, <3>2 DEF BackfillTagInv
  <2>5. ASSUME NEW k \in Keys, NEW b \in Held(k), missingKeywords(k) # {}
        PROVE  b \in Ahead /\ b # Head(back)
    BY <2>1, <2>3, <2>5 DEF BackfillTagInv
  <2>6. missingKeywords(j) = {}
    <3>1. Head(back) \in Held(j)
      BY <2>1, <2>4 DEF Held
    <3>2. QED
      BY <2>5, <3>1
  <2>7. ASSUME NEW k \in Keys, k # j
        PROVE  place'[k] = place[k] /\ Held(k)' = Held(k)
    <3>1. place'[k] = place[k]
      BY <1>0, <2>1, <2>7
    <3>2. QED
      BY <2>1, <3>1, SamePlaces
  <2>8. \A k \in bf'.move : Head(back) \in place'[k]
    <3>1. SUFFICES ASSUME NEW k \in bf'.move
                   PROVE  Head(back) \in place'[k]
      OBVIOUS
    <3>2. k # j /\ Head(back) \in place[k]
      BY <2>2, <2>4
    <3>3. place'[k] = place[k]
      BY <2>1, <3>2
    <3>4. QED
      BY <3>2, <3>3
  <2>9. QED
    BY <2>4, <2>5, <2>6, <2>7, <2>8
<1>7. CASE BackfillNext
  <2>1. /\ UNCHANGED <<members, cfg, place, keywords>>
        /\ phase = "placing" /\ phase' = "backfill" /\ bf.tag = {} /\ back' = Tail(back)
    BY <1>7 DEF BackfillNext, storeVars, destVars
  <2>2. back # <<>>
    BY <2>1 DEF BackfillInv
  <2>3. back' \in Seq(DestFolders) /\ Elements(back) = {Head(back)} \cup Elements(back')
    BY <1>0, <2>1, <2>2, ListParts
  <2>4. Ahead = {Head(back)} \cup Ahead'
    BY <1>0, <2>3, AheadElements
  <2>5. ASSUME cfg.labels, NEW k \in Keys, NEW b \in Held(k)
        PROVE  missingKeywords(k) = {} \/ b \in Ahead'
    BY <2>1, <2>4, <2>5 DEF BackfillTagInv
  <2>6. cfg.labels => Ahead' \subseteq Buckets(cfg)
    BY <2>1, <2>4 DEF BackfillTagInv
  <2>7. QED
    BY <2>1, <2>5, <2>6, SamePlaces, SameLabels DEF BackfillTagInv
<1>8. CASE BackfillDone \/ Crash \/ ApplyFails
  <2>1. phase' \notin {"backfill", "placing"}
    BY <1>8 DEF BackfillDone, Crash, ApplyFails, Abort
  <2>2. QED
    BY <1>2, <2>1
<1>9. CASE UNCHANGED backVars /\ ~BackfillDone
  <2>0. UNCHANGED <<back, bf>>
    BY <1>9 DEF backVars
  <2>1. CASE phase \notin {"backfill", "placing"}
    <3>1. phase' \notin {"backfill", "placing"} \/ MembershipDone
      BY <2>1, PassWriters DEF StartPass, SelectNamedFolder, Removals, recordAdditions,
         CommitWindow, FolderDone, RebuildRemovals, AdoptFolder, BackfillScan,
         BackfillNext, BackfillDone, MirrorDone, LoadPage, Crash, ApplyFails, Abort
    <3>2. QED
      BY <1>2, <1>3, <3>1
  <2>2. CASE phase \in {"backfill", "placing"} /\ ~BackfillScan /\ ~BackfillNext
             /\ ~(Crash \/ ApplyFails) /\ ~(\E k \in Keys : BackfillTag(k) \/ BackfillMove(k))
    <3>1. UNCHANGED <<members, folders>>
      BY <2>2, TableWriters DEF Removals, recordAdditions, CommitWindow, RebuildRemovals,
         AdoptFolder
    <3>2. UNCHANGED <<fingerprint, place, keywords, cfg>>
      BY <1>9, <2>2, DestWriters DEF AppendCopy, applyPending, Reconfigure
    <3>3. UNCHANGED <<phase, scan, todo>>
      BY <1>9, <2>2, PassWriters DEF StartPass, SelectNamedFolder, Removals, recordAdditions,
         CommitWindow, FolderDone, RebuildRemovals, AdoptFolder, MembershipDone, MirrorDone,
         LoadPage
    <3>4. QED
      BY <1>1, <2>0, <3>1, <3>2, <3>3
  <2>3. QED
    BY <1>4, <1>5, <1>6, <1>7, <1>8, <2>1, <2>2
<1>10. QED
  BY <1>3, <1>4, <1>5, <1>6, <1>7, <1>8, <1>9, BackWriters

-----------------------------------------------------------------------------
(* A copy has the keyword of a label or an operation that adds it is owed. *)

(* A label that is taken away is no longer promised.                       *)
LEMMA LabelRemovals ==
    ASSUME MembershipInv, MembershipInv', QueueInv, TagInv, NEW gone, recordRemovals(gone),
           UNCHANGED <<copied, fingerprint, place, keywords, cfg, missed, scan>>
    PROVE  QueueInv' /\ TagInv'
<1>0. /\ QueueType /\ QueueType' /\ PassType /\ TableType /\ RealKeys \subseteq Keys
      /\ Labels \subseteq Watched
  BY TypeParts, MembershipAssumption DEF MembershipInv, Watched
<1>1. PICK f \in Watched : f = scan.folder
  BY <1>0, ScanFacts
<1>2. PICK K : K = Gated(f, gone)
  OBVIOUS
<1>3. Enqueues(f, "remove", K)
  BY <1>0, <1>1, <1>2, RemovalsEnqueue
<1>4. Ours' = Ours /\ (Current' <=> Current) /\ \A k : Held(k)' = Held(k)
  BY SameRoutes DEF Ours, Current, Held
<1>5. ASSUME NEW k \in Ours, NEW g \in Labels, MemberHas(g, k)'
      PROVE  /\ MemberHas(g, k) /\ KeywordOps(k, g)' = KeywordOps(k, g)
             /\ LastAdds(k, g)' <=> LastAdds(k, g)
  <2>1. k \in Keys /\ g \in Watched
    BY <1>0 DEF Ours
  <2>2. ~(g = f /\ k \in gone) /\ MemberHas(g, k)
    BY <1>0, <1>1, <1>5, <2>1, RemovedRows DEF MemberHas
  <2>3. ~(g = f /\ k \in K)
    BY <1>2, <2>2 DEF Gated
  <2>4. QED
    BY <1>0, <1>3, <2>2, <2>3, AppendedOps
<1>6. QueueInv'
  BY <1>4, <1>5 DEF QueueInv
<1>7. TagInv'
  BY <1>4, <1>5 DEF TagInv
<1>8. QED
  BY <1>6, <1>7

(* A label that is new is queued last, or the copy is given up.            *)
LEMMA LabelAdditions ==
    ASSUME LabelsPropagate, MembershipInv, MembershipInv', StoredInv, WatchInv, QueueInv, TagInv,
           recordAdditions
    PROVE  QueueInv' /\ TagInv'
<1>0. /\ QueueType /\ QueueType' /\ PassType /\ TableType /\ SourceType /\ MailInv /\ SelectedInv
      /\ RealKeys \subseteq Keys /\ cfg \in Configs /\ Labels \subseteq Watched
      /\ DOMAIN pending = 1 .. Len(pending)
      /\ \A c \in Configs : c.labels \in BOOLEAN /\ c.propagate \in BOOLEAN
      /\ NoPrint \notin [archive : BOOLEAN, sent : BOOLEAN, labels : BOOLEAN]
      /\ \A c \in Configs :
            backfillFingerprint(c) \in [archive : BOOLEAN, sent : BOOLEAN, labels : BOOLEAN]
  BY TypeParts, MembershipAssumption
     DEF MembershipInv, Watched, DestType, QueueType, backfillFingerprint, Config
<1>1. /\ UNCHANGED <<copied, fingerprint, place, keywords, cfg>> /\ phase = "windows"
      /\ missed \subseteq missed'
      /\ \A j \in copied : Unreported(j) /\ j \in Shown => j \in missed'
  <2>1. UNCHANGED <<copied, fingerprint, place, keywords, cfg>> /\ phase = "windows"
    BY DEF recordAdditions, destVars
  <2> DEFINE metas == {u \in scan.start .. WindowStop : mail[scan.folder][u] # NoMail}
             key == [u \in metas |-> mail[scan.folder][u]]
  <2>2. missed' = missed \cup {j \in copied : Unreported(j) /\ \E u \in metas : key[u] = j}
    BY DEF recordAdditions
  <2>3. \A j \in Shown : \E u \in metas : key[u] = j
    BY DEF Shown
  <2> HIDE DEF metas, key
  <2>4. QED
    BY <2>1, <2>2, <2>3
<1>2. PICK f \in Watched : f = scan.folder
  BY <1>0, ScanFacts
<1>3. PICK K : K = Gated(f, {j \in Shown : ~Suppressed(j)})
  OBVIOUS
<1>4. Enqueues(f, "add", K)
  BY <1>0, <1>2, <1>3, AdditionsEnqueue
<1>5. Ours' \subseteq Ours \ missed' /\ (Current' <=> Current) /\ \A k : Held(k)' = Held(k)
  BY <1>1, SameRoutes DEF Ours, Current, Held
<1>6. ASSUME NEW k \in Ours', NEW g \in Labels, MemberHas(g, k)'
      PROVE  \/ LastAdds(k, g)' /\ KeywordOps(k, g)' # {}
             \/ /\ MemberHas(g, k) /\ KeywordOps(k, g)' = KeywordOps(k, g)
                /\ LastAdds(k, g)' <=> LastAdds(k, g)
             \/ ~Current /\ KeywordOps(k, g)' = {}
  <2>1. k \in Keys /\ g \in Watched /\ k \in copied /\ gatePending(k) /\ k \notin missed'
    BY <1>0, <1>1, <1>5 DEF Ours, gatePending
  <2>2. CASE g = f /\ k \in K /\ WatchedKind(cfg, f) = pendingKeyword
    <3>1. \E i \in KeywordOps(k, g)' :
             pending'[i].op = "add" /\ \A j \in KeywordOps(k, g)' : j <= i
      BY <1>0, <1>4, <2>2, AppendedOps
    <3>2. QED
      BY <3>1 DEF LastAdds
  <2>3. CASE ~(g = f /\ k \in K /\ WatchedKind(cfg, f) = pendingKeyword)
    <3>1. KeywordOps(k, g)' = KeywordOps(k, g) /\ (LastAdds(k, g)' <=> LastAdds(k, g))
      BY <1>0, <1>4, <2>3, AppendedOps
    <3>2. SUFFICES ASSUME ~MemberHas(g, k)
                   PROVE  ~Current /\ KeywordOps(k, g) = {}
      BY <3>1
    <3>3. g = f /\ k \in Shown
      BY <1>0, <1>2, <1>6, <2>1, <3>2, AddedHas
    <3>4. cfg.labels
      <4>1. f \in todo
        BY <1>1, <1>2 DEF WatchInv, Scanning
      <4>2. QED
        BY <3>3, <4>1 DEF WatchInv
    <3>5. WatchedKind(cfg, f) = pendingKeyword /\ pendingKeyword # none
      BY <1>0, <3>3, <3>4 DEF LabelsPropagate, WatchedKind, pendingKeyword, none
    <3>6. Suppressed(k)
      BY <1>3, <2>1, <2>3, <3>3, <3>5 DEF Gated
    <3>7. scan.rebuild /\ scan.stored = {}
      <4>1. scan.rebuild /\ (scan.stored = {} \/ k \in scan.stored)
        BY <3>6 DEF Suppressed
      <4>2. k \notin scan.stored
        BY <1>1, <1>2, <3>2, <3>3, <4>1 DEF StoredInv, Scanning, MemberKeys
      <4>3. QED
        BY <4>1, <4>2
    <3>8. ~Unreported(k)
      BY <1>1, <2>1, <3>3
    <3>9. ~Covered(f) /\ ~\E i \in DOMAIN pending : pending[i].key = k /\ pending[i].folder = f
      BY <1>2, <3>7, <3>8 DEF Unreported
    <3>10. KeywordOps(k, g) = {}
      BY <3>3, <3>9 DEF KeywordOps
    <3>11. ~Current
      <4>1. SUFFICES ASSUME Current
                     PROVE  Covered(f)
        BY <3>9
      <4>2. fingerprint # NoPrint
        BY <1>0, <4>1 DEF Current
      <4>3. fingerprint.labels
        BY <3>4, <4>1 DEF Current, backfillFingerprint
      <4>4. QED
        BY <3>3, <4>2, <4>3 DEF Covered
    <3>12. QED
      BY <3>10, <3>11
  <2>4. QED
    BY <2>2, <2>3
<1>7. QueueInv'
  BY <1>5, <1>6 DEF QueueInv
<1>8. TagInv'
  BY <1>1, <1>5, <1>6 DEF TagInv
<1>9. QED
  BY <1>7, <1>8

(* Deleting what was applied: the last operation on a label was carried    *)
(* out, or it is still the last.                                           *)
LEMMA LabelDeleted ==
    ASSUME QueueType, QueueInv, TagInv, AppliedTagInv, DeletePendingBatch(done),
           RealKeys \subseteq Keys,
           UNCHANGED <<members, copied, fingerprint, place, keywords, cfg, missed>>
    PROVE  QueueInv' /\ TagInv'
<1>0. /\ Len(pending) \in Nat /\ DOMAIN pending = 1 .. Len(pending)
      /\ done \in 0 .. Len(pending)
  BY DEF QueueType
<1>1. /\ Ours' = Ours /\ (Current' <=> Current) /\ \A k : Held(k)' = Held(k)
      /\ \A f, k : MemberHas(f, k)' <=> MemberHas(f, k)
  BY SamePlaces DEF Ours, Current, MemberHas
<1>2. ASSUME NEW k \in Ours, NEW f \in Labels, MemberHas(f, k), KeywordOps(k, f)' # {}
      PROVE  LastAdds(k, f)'
  <2>1. KeywordOps(k, f) # {}
    BY <1>0, <1>2, DeletedOps
  <2>2. LastAdds(k, f)
    BY <1>2, <2>1 DEF QueueInv
  <2>3. QED
    BY <1>0, <1>2, <2>2, DeletedOps
<1>3. ASSUME Current, cfg.propagate, NEW k \in Ours, NEW f \in Labels, MemberHas(f, k),
             Held(k) # {}, KeywordOps(k, f)' = {}
      PROVE  KeywordOf[f] \in keywords[k]
  <2>1. CASE KeywordOps(k, f) = {}
    BY <1>3, <2>1 DEF TagInv
  <2>2. CASE KeywordOps(k, f) # {}
    <3>1. PICK i \in KeywordOps(k, f) :
             pending[i].op = "add" /\ \A j \in KeywordOps(k, f) : j <= i
      BY <1>3, <2>2 DEF QueueInv, LastAdds
    <3>2. i <= done
      <4>1. i \in 1 .. Len(pending)
        BY <1>0 DEF KeywordOps
      <4>2. ~(i > done)
        BY <1>0, <1>3, <3>1, DeletedOps
      <4>3. QED
        BY <1>0, <4>1, <4>2
    <3>3. k \in Keys
      BY DEF Ours
    <3>4. QED
      BY <1>3, <3>1, <3>2, <3>3 DEF AppliedTagInv
  <2>3. QED
    BY <2>1, <2>2
<1>4. QueueInv'
  BY <1>1, <1>2 DEF QueueInv
<1>5. TagInv'
  BY <1>1, <1>3 DEF TagInv
<1>6. QED
  BY <1>4, <1>5

(* The steps that tag a copy, record one or change the configuration.      *)
LEMMA LabelStep ==
    ASSUME IdsApart, LabelKeywordsDiffer, LabelsPropagate, MembershipInv, MembershipInv',
           KeywordInv, Next
    PROVE  QueueInv' /\ TagInv'
<1>0. /\ QueueType /\ RealKeys \subseteq Keys /\ cfg \in Configs
      /\ keywords \in [Keys -> SUBSET {KeywordOf[f] : f \in Watched}]
      /\ place \in [Keys -> SUBSET DestFolders] /\ unsaved \subseteq Keys
      /\ {SourceInbox, SentSrcFolder} \cap Labels = {} /\ Labels \subseteq Watched
      /\ \A k \in Ours : k \in Keys /\ k \in RealKeys
      /\ cfg.propagate => cfg.labels
  BY TypeParts, MembershipAssumption
     DEF MembershipInv, DestType, DestFolders, CopyType, Watched, Ours
<1>1. /\ QueueInv /\ TagInv /\ AppliedTagInv /\ UnsavedTagInv /\ BackfillTagInv /\ OwnedInv
      /\ WatchInv /\ StoredInv /\ BackfillInv
  BY DEF KeywordInv, PlacementInv
<1>2. CASE UNCHANGED <<members, pending, copied, fingerprint, place, keywords, cfg, missed>>
  BY <1>1, <1>2, SamePlaces, SameOps DEF QueueInv, TagInv, Current, Ours, MemberHas
<1>3. CASE Removals \/ RebuildRemovals
  <2>1. UNCHANGED <<copied, fingerprint, place, keywords, cfg, missed, scan>>
    BY <1>3 DEF Removals, RebuildRemovals, destVars, scanVars
  <2>2. \E gone : recordRemovals(gone)
    BY <1>3 DEF Removals, RebuildRemovals
  <2>3. QED
    BY <1>1, <2>1, <2>2, LabelRemovals
<1>4. CASE recordAdditions
  BY <1>1, <1>4, LabelAdditions
<1>5. ASSUME UNCHANGED <<members, pending>>, Ours' \subseteq Ours
      PROVE  QueueInv'
  BY <1>1, <1>5, SameOps DEF QueueInv, MemberHas
<1>6. ASSUME NEW j \in Keys, BackfillTag(j) \/ BackfillMove(j)
      PROVE  QueueInv' /\ TagInv'
  <2>1. ~Current /\ UNCHANGED <<members, pending, copied, missed, fingerprint, cfg>>
    BY <1>1, <1>6 DEF BackfillTag, BackfillMove, storeVars, BackfillInv
  <2>2. Ours' = Ours
    BY <2>1 DEF Ours
  <2>3. TagInv'
    BY <2>1 DEF TagInv, Current
  <2>4. QED
    BY <1>5, <2>1, <2>2, <2>3
<1>7. CASE BackfillDone
  <2>1. /\ UNCHANGED <<members, cfg, place, keywords, pending, copied, missed>>
        /\ phase = "backfill" /\ back = <<>>
    BY <1>7 DEF BackfillDone, destVars
  <2>2. Ahead = {}
    BY <2>1 DEF Ahead
  <2>3. ASSUME cfg.propagate, NEW k \in Ours, NEW f \in Labels, MemberHas(f, k), Held(k) # {}
        PROVE  KeywordOf[f] \in keywords[k]
    <3>1. PICK b \in Held(k) : TRUE
      BY <2>3
    <3>2. missingKeywords(k) = {}
      BY <1>0, <1>1, <2>1, <2>2, <2>3, <3>1 DEF BackfillTagInv
    <3>3. KeywordOf[f] \in labelKeywords(cfg, k)
      BY <1>0, <2>3 DEF labelKeywords, labelsFor, isRoutingFolder
    <3>4. QED
      BY <3>2, <3>3 DEF missingKeywords
  <2>4. Ours' = Ours /\ \A k : Held(k)' = Held(k)
    BY <2>1, SamePlaces DEF Ours
  <2>5. TagInv'
    BY <2>1, <2>3, <2>4 DEF TagInv, MemberHas
  <2>6. QED
    BY <1>5, <2>1, <2>4, <2>5
<1>8. ASSUME NEW j \in Keys, Guard(j)
      PROVE  QueueInv' /\ TagInv'
  <2>1. /\ UNCHANGED <<members, pending, fingerprint, place, keywords, cfg>>
        /\ copied' = copied \cup {j} /\ missed' = missed \cup {j}
    BY <1>8 DEF Guard, destVars
  <2>2. Ours' \subseteq Ours
    BY <2>1 DEF Ours
  <2>3. TagInv'
    BY <1>1, <2>1, <2>2, SamePlaces, SameOps DEF TagInv, Current, MemberHas
  <2>4. QED
    BY <1>5, <2>1, <2>2, <2>3
<1>9. ASSUME NEW j \in Keys, AppendCopy(j)
      PROVE  QueueInv' /\ TagInv'
  <2>1. /\ UNCHANGED <<members, cfg, pending, copied, fingerprint, missed>>
        /\ place' = [place EXCEPT ![j] = @ \cup {destFolderFor(cfg, j)}]
        /\ keywords' = [keywords EXCEPT ![j] =
                            @ \cup (IF cfg.labels THEN labelKeywords(cfg, j) ELSE {})]
    BY <1>9 DEF AppendCopy, storeVars
  <2>2. Ours' = Ours /\ (Current' <=> Current)
    BY <2>1 DEF Ours, Current
  <2>3. ASSUME Current, cfg.propagate, NEW k \in Ours, NEW f \in Labels, MemberHas(f, k),
               Held(k)' # {}, KeywordOps(k, f) = {}
        PROVE  KeywordOf[f] \in keywords'[k]
    <3>1. CASE k # j
      <4>1. place'[k] = place[k] /\ keywords'[k] = keywords[k]
        BY <1>0, <2>1, <3>1
      <4>2. Held(k)' = Held(k)
        BY <2>1, <4>1, SamePlaces
      <4>3. QED
        BY <1>1, <2>3, <4>1, <4>2 DEF TagInv
    <3>2. CASE k = j
      <4>1. KeywordOf[f] \in labelKeywords(cfg, j)
        BY <1>0, <2>3, <3>2 DEF labelKeywords, labelsFor, isRoutingFolder
      <4>2. QED
        BY <1>0, <2>1, <2>3, <3>2, <4>1
    <3>3. QED
      BY <3>1, <3>2
  <2>4. TagInv'
    BY <2>1, <2>2, <2>3, SameOps DEF TagInv, MemberHas
  <2>5. QED
    BY <1>5, <2>1, <2>2, <2>4
<1>10. CASE RecordCopies
  <2>1. /\ UNCHANGED <<members, cfg, place, keywords, pending, fingerprint, missed>>
        /\ copied' = copied \cup unsaved
    BY <1>10 DEF RecordCopies, destVars
  <2>2. ASSUME NEW k \in Ours', k \notin Ours
        PROVE  k \in unsaved /\ k \notin copied
    BY <2>1, <2>2 DEF Ours
  <2>3. ASSUME NEW k \in Ours', k \notin Ours, NEW f \in Labels
        PROVE  KeywordOps(k, f) = {}
    BY <1>1, <2>2, <2>3 DEF OwnedInv, KeywordOps
  <2>4. QueueInv'
    BY <1>1, <2>1, <2>3, SameOps DEF QueueInv, MemberHas
  <2>5. ASSUME cfg.propagate, NEW k \in Ours', k \notin Ours, NEW f \in Labels, MemberHas(f, k)
        PROVE  KeywordOf[f] \in keywords[k]
    BY <1>0, <1>1, <2>2, <2>5 DEF UnsavedTagInv
  <2>6. TagInv'
    BY <1>1, <2>1, <2>5, SameOps, SamePlaces DEF TagInv, MemberHas, Current
  <2>7. QED
    BY <2>4, <2>6
<1>11. CASE applyPending
  <2>1. UNCHANGED <<members, cfg, pending, copied, fingerprint, missed>> /\ done < page
    BY <1>11 DEF applyPending, storeVars
  <2>2. Ours' = Ours /\ (Current' <=> Current)
    BY <2>1 DEF Ours, Current
  <2>3. PICK op : op = pending[done + 1]
    OBVIOUS
  <2>4. /\ done + 1 \in DOMAIN pending /\ op \in PendingOp /\ op.key \in Keys
        /\ op.kind = pendingKeyword => op.folder \in Labels
    <3>1. done + 1 \in DOMAIN pending
      BY <1>0, <2>1 DEF QueueType
    <3>2. op \in PendingOp /\ (op.kind = pendingKeyword => op.folder \in Labels)
      BY <1>0, <1>1, <2>3, <3>1 DEF QueueType, OwnedInv
    <3>3. QED
      BY <1>0, <3>1, <3>2 DEF PendingOp
  <2>5. ASSUME Current, cfg.propagate, NEW k \in Ours, NEW f \in Labels, MemberHas(f, k),
               Held(k)' # {}, KeywordOps(k, f) = {}
        PROVE  KeywordOf[f] \in keywords'[k]
    <3>1. Held(k) # {}
      <4>1. place'[k] = place[k] \/ place'[k] = MovedCopy(k)
        BY <1>0, <1>11, <2>3, <2>4, ExactApply DEF AppliesToOne
      <4>2. Held(k)' = place'[k] \cap Buckets(cfg)
        BY <2>1, SamePlaces DEF Held
      <4>3. Held(k) = {} => MovedCopy(k) = place[k]
        BY MovedFacts
      <4>4. QED
        BY <2>5, <4>1, <4>2, <4>3 DEF Held
    <3>2. KeywordOf[f] \in keywords[k]
      BY <1>1, <2>5, <3>1 DEF TagInv
    <3>3. CASE op.kind = pendingMove \/ op.key # k
      BY <1>0, <1>11, <2>3, <3>2, <3>3, ExactApply DEF AppliesToOne
    <3>4. CASE op.kind # pendingMove /\ op.key = k
      <4>1. op.kind = pendingKeyword
        BY <2>4, <3>4 DEF PendingOp
      <4>2. op.folder # f
        BY <2>3, <2>4, <2>5, <3>4, <4>1 DEF KeywordOps
      <4>3. KeywordOf[op.folder] # KeywordOf[f]
        BY <2>4, <2>5, <4>1, <4>2 DEF LabelKeywordsDiffer
      <4>4. keywords' = [keywords EXCEPT ![k] = RetaggedCopy(op)]
        BY <1>11, <2>3, <3>4, ExactApply DEF AppliesToOne
      <4>5. KeywordOf[f] \in RetaggedCopy(op)
        BY <3>2, <3>4, <4>3 DEF RetaggedCopy
      <4>6. QED
        BY <1>0, <2>5, <4>4, <4>5
    <3>5. QED
      BY <3>3, <3>4
  <2>6. TagInv'
    BY <2>1, <2>2, <2>5, SameOps DEF TagInv, MemberHas
  <2>7. QED
    BY <1>5, <2>1, <2>2, <2>6
<1>12. CASE PageDone \/ ApplyFails
  <2>1. /\ DeletePendingBatch(done)
        /\ UNCHANGED <<members, copied, fingerprint, place, keywords, cfg, missed>>
    BY <1>12 DEF PageDone, ApplyFails, Completed, destVars
  <2>2. QED
    BY <1>0, <1>1, <2>1, LabelDeleted
<1>13. CASE Reconfigure
  <2>1. /\ UNCHANGED <<members, pending, copied, fingerprint, place, keywords, missed>> /\ Current
        /\ cfg' \in Configs
    BY <1>13 DEF Reconfigure, storeVars, destVars
  <2>2. Ours' = Ours
    BY <2>1 DEF Ours
  <2>3. SUFFICES ASSUME Current'
                 PROVE  TagInv'
    <3>1. ~Current' => TagInv'
      BY DEF TagInv
    <3>2. QED
      BY <1>5, <2>1, <2>2, <2>3, <3>1
  <2>4. cfg'.archive = cfg.archive /\ cfg'.sent = cfg.sent /\ cfg'.labels = cfg.labels
    BY <2>1, <2>3 DEF Current, backfillFingerprint
  <2>5. cfg'.propagate = cfg.propagate
    BY <1>0, <2>1, <2>4 DEF LabelsPropagate
  <2>6. \A k : Held(k)' = Held(k)
    BY <2>1, <2>4, SameRoutes DEF Held
  <2>7. QED
    BY <1>1, <2>1, <2>2, <2>5, <2>6, SameOps DEF TagInv, MemberHas
<1>14. CASE ~(\/ Removals \/ RebuildRemovals \/ recordAdditions \/ BackfillDone \/ RecordCopies
              \/ applyPending \/ PageDone \/ ApplyFails \/ Reconfigure
              \/ \E k \in Keys : BackfillTag(k) \/ BackfillMove(k) \/ Guard(k) \/ AppendCopy(k))
  <2>1. UNCHANGED members
    BY <1>14, TableWriters DEF CommitWindow, AdoptFolder
  <2>2. UNCHANGED pending
    BY <1>14, QueueWriters DEF LoadPage, Crash, storeVars
  <2>3. UNCHANGED <<copied, missed>>
    BY <1>14, RecordWriters
  <2>4. UNCHANGED <<fingerprint, place, keywords, cfg>>
    BY <1>14, DestWriters
  <2>5. QED
    BY <1>2, <2>1, <2>2, <2>3, <2>4
<1>15. QED
  BY <1>3, <1>4, <1>6, <1>7, <1>8, <1>9, <1>10, <1>11, <1>12, <1>13, <1>14

(* The invariant holds for an empty database.                              *)
LEMMA KeywordInit ==
    ASSUME Init
    PROVE  KeywordInv
<1>1. PlacementInv
  BY PlacementInit
<1>2. /\ pending = <<>> /\ copied = {} /\ unsaved = {} /\ todo = {} /\ phase = "down"
      /\ DOMAIN <<>> = {}
  BY DEF Init
<1>3. OwnedInv /\ QueueInv /\ TagInv /\ AppliedTagInv
  BY <1>2 DEF OwnedInv, QueueInv, TagInv, AppliedTagInv, Ours, KeywordOps
<1>4. WatchInv /\ UnsavedTagInv /\ BackfillTagInv
  BY <1>2 DEF WatchInv, UnsavedTagInv, BackfillTagInv, Scanning
<1>5. QED
  BY <1>1, <1>3, <1>4 DEF KeywordInv

(* Every step keeps it.                                                    *)
LEMMA KeywordNext ==
    ASSUME IdsApart, LabelKeywordsDiffer, LabelsPropagate, MembershipInv, MembershipInv',
           KeywordInv, [Next]_vars
    PROVE  KeywordInv'
<1>0. /\ PlacementInv /\ PlacementInv' /\ OwnedInv /\ WatchInv /\ QueueInv /\ TagInv
      /\ AppliedTagInv /\ UnsavedTagInv /\ BackfillTagInv
      /\ UnsavedInv /\ AppliedInv /\ BackfillInv /\ BackfillInv'
  BY PlacementNext DEF KeywordInv, PlacementInv
<1>1. CASE Next
  <2>1. QueueInv' /\ TagInv'
    BY <1>1, LabelStep
  <2>2. OwnedInv' /\ WatchInv'
    BY <1>0, <1>1, OwnedStep, WatchStep
  <2>3. AppliedTagInv' /\ UnsavedTagInv' /\ BackfillTagInv'
    BY <1>0, <1>1, AppliedTagStep, UnsavedTagStep, BackfillTagStep
  <2>4. QED
    BY <1>0, <2>1, <2>2, <2>3 DEF KeywordInv
<1>2. CASE UNCHANGED vars
  <2>1. /\ UNCHANGED <<members, pending, copied, fingerprint, place, keywords, cfg, missed>>
        /\ UNCHANGED <<phase, todo, scan, back, bf, unsaved, done>>
    BY <1>2 DEF vars, storeVars, destVars, passVars, scanVars, backVars, copyVars, queueVars
  <2>2. QueueInv' /\ TagInv'
    BY <1>0, <2>1, SamePlaces, SameOps DEF QueueInv, TagInv, Current, Ours, MemberHas
  <2>3. OwnedInv' /\ WatchInv'
    BY <1>0, <2>1 DEF OwnedInv, WatchInv, Scanning
  <2>4. AppliedTagInv'
    BY <1>0, <2>1, SamePlaces, SameOps DEF AppliedTagInv
  <2>5. UnsavedTagInv'
    BY <1>0, <2>1 DEF UnsavedTagInv, MemberHas
  <2>6. BackfillTagInv'
    BY <1>0, <2>1, SamePlaces, SameLabels DEF BackfillTagInv, Ahead
  <2>7. QED
    BY <1>0, <2>2, <2>3, <2>4, <2>5, <2>6 DEF KeywordInv
<1>3. QED
  BY <1>1, <1>2

(* No label change is lost either: a copy recorded when it was made has    *)
(* the keyword of each of its labels, or the last queued operation on that *)
(* label adds it, whichever step fails (membership.go, propagate and       *)
(* MemberChangeBatch; labels.go, labelKeyword).  The keywords of two       *)
(* labels differ, labels.propagate is left alone while labels are on, and  *)
(* no Message-ID contains another.                                         *)
THEOREM TaggedOrOwedCorrect ==
    ASSUME IdsApart, LabelKeywordsDiffer, PropagateFixed
    PROVE  Spec => []TaggedOrOwed
<1>1. CASE LabelsPropagate
  <2>1. Init => KeywordInv
    BY KeywordInit
  <2>2. MembershipInv /\ MembershipInv' /\ KeywordInv /\ [Next]_vars => KeywordInv'
    BY <1>1, KeywordNext
  <2>3. KeywordInv => TaggedOrOwed
    BY DEF KeywordInv, QueueInv, TagInv, LastAdds, TaggedOrOwed, Tagged, Held, Ours
  <2>4. QED
    BY <2>1, <2>2, <2>3, MembershipInvariant, PTL DEF Spec
<1>2. CASE ~LabelsPropagate
  <2>1. \A c \in Configs : ~c.propagate
    <3>1. PICK d \in Configs : d.labels # d.propagate
      BY <1>2 DEF LabelsPropagate
    <3>2. \A c \in Configs : c.labels \in BOOLEAN /\ c.propagate \in BOOLEAN
                             /\ (c.propagate => c.labels)
      BY MembershipAssumption DEF Config
    <3>3. d.labels /\ ~d.propagate
      BY <3>1, <3>2
    <3>4. QED
      BY <3>2, <3>3 DEF PropagateFixed
  <2>2. MembershipInv => TaggedOrOwed
    BY <2>1 DEF MembershipInv, TypeOK, TaggedOrOwed
  <2>3. QED
    BY <2>2, MembershipInvariant, PTL
<1>3. QED
  BY <1>1, <1>2
=============================================================================
