------------------------------- MODULE GuardProofs -------------------------------
(***************************************************************************)
(* Proofs about Guard: its types, the block cache, the hourly limit and    *)
(* the cap on group handles, for any number of senders, handles and        *)
(* requests, and whatever is evicted, refilled, reported or turned over    *)
(* between two steps of a request.                                         *)
(***************************************************************************)
EXTENDS Guard, FiniteSetTheorems, WellFoundedInduction, TLAPS

-------------------------------------------------------------------------------
(* Type correctness.  A request that is not idle is about one pair, so     *)
(* that it has a bucket to look for at each stage.  The bounds on what is  *)
(* evicted and refilled are on totals over all buckets, which have to be   *)
(* finite for that.                                                        *)

Single == \A r \in Request : req[r].at # "idle" => \E p \in Pair : req[r].pair = {p}

\* What Total counts.
Steps(f) == {ki \in BucketKey \X (1 .. MaxRefill + MaxEvict) : ki[2] <= f[ki[1]]}

\* The parts of the type invariant.
ReqTyped ==
  /\ req \in [Request -> Progress]
  /\ \A r \in Request : (req[r].bucket # 0) = (req[r].at = "take")
  /\ Single

BlocksTyped ==
  /\ blocks \in SUBSET Pair
  /\ cache \in [Pair -> {"unknown", "yes", "no"}]
  /\ top \in [Target -> SUBSET Sender]
  /\ reports \in SUBSET Pair
  /\ behind \in SUBSET Pair

BucketsTyped ==
  /\ home \in [BucketKey -> 0 .. MaxEvict + 1]
  /\ tokens \in [BucketKey \X Generation -> Nat]
  /\ \A k \in BucketKey, n \in Generation : tokens[<<k, n>>] \in 0 .. BucketCap[k[1]]
  /\ refills \in [BucketKey -> 0 .. MaxRefill]
  /\ evicted \in [BucketKey -> 0 .. MaxEvict]
  /\ spent \in [Sender -> Nat]
  /\ IsFiniteSet(Steps(refills))
  /\ IsFiniteSet(Steps(evicted))

WindowsTyped ==
  /\ window \in 0 .. day /\ day \in 0 .. MaxDay
  /\ slots \in [Counted -> SUBSET Nat]
  /\ \A p \in Counted : slots[p] \subseteq 0 .. Limit(p) - 1
  /\ overtaken \in SUBSET Pair

GuardTyped == ReqTyped /\ BlocksTyped /\ BucketsTyped /\ WindowsTyped

LEMMA TypedIsTypeOK == GuardTyped => TypeOK
  BY DEF GuardTyped, TypeOK, ReqTyped, BlocksTyped, BucketsTyped, WindowsTyped

Place == {"idle", "block", "keep", "look", "make", "take", "seen", "distinct", "pair"}
Stage == {"hour", "day", "target"}

\* The record of a request by its fields, and EXCEPT on it.
Rec(a, p, g, n, b, d) == [at |-> a, pair |-> p, stage |-> g, bucket |-> n, blocked |-> b, since |-> d]

LEMMA IsRec == ASSUME NEW q \in Progress PROVE q = Rec(q.at, q.pair, q.stage, q.bucket, q.blocked, q.since)
  BY DEF Progress, Rec

LEMMA RecIs ==
  ASSUME NEW a \in Place, NEW p \in SUBSET Pair, NEW g \in Stage, NEW n \in 0 .. MaxEvict + 1,
         NEW b \in BOOLEAN, NEW d \in 0 .. MaxDay
  PROVE  LET q == Rec(a, p, g, n, b, d)
         IN  /\ q \in Progress
             /\ q.at = a /\ q.pair = p /\ q.stage = g /\ q.bucket = n /\ q.blocked = b /\ q.since = d
  BY DEF Progress, Place, Stage, Rec

LEMMA MovesAt ==
  ASSUME NEW q \in Progress, NEW a \in Place
  PROVE  [q EXCEPT !.at = a] = Rec(a, q.pair, q.stage, q.bucket, q.blocked, q.since)
<1> DEFINE e == [q EXCEPT !.at = a]
<1>1. /\ e \in Progress
      /\ e.at = a /\ e.pair = q.pair /\ e.stage = q.stage
      /\ e.bucket = q.bucket /\ e.blocked = q.blocked /\ e.since = q.since
  BY DEF Progress, Place, Stage
<1> HIDE DEF e
<1>2. e = Rec(a, q.pair, q.stage, q.bucket, q.blocked, q.since)
  BY <1>1, IsRec
<1> QED
  BY <1>2 DEF e

LEMMA MovesBlocked ==
  ASSUME NEW q \in Progress, NEW a \in Place, NEW b \in BOOLEAN
  PROVE  [q EXCEPT !.at = a, !.blocked = b] = Rec(a, q.pair, q.stage, q.bucket, b, q.since)
<1> DEFINE e == [q EXCEPT !.at = a, !.blocked = b]
<1>1. /\ e \in Progress
      /\ e.at = a /\ e.pair = q.pair /\ e.stage = q.stage
      /\ e.bucket = q.bucket /\ e.blocked = b /\ e.since = q.since
  BY DEF Progress, Place, Stage
<1> HIDE DEF e
<1>2. e = Rec(a, q.pair, q.stage, q.bucket, b, q.since)
  BY <1>1, IsRec
<1> QED
  BY <1>2 DEF e

LEMMA MovesBucket ==
  ASSUME NEW q \in Progress, NEW a \in Place, NEW n \in 0 .. MaxEvict + 1
  PROVE  [q EXCEPT !.at = a, !.bucket = n] = Rec(a, q.pair, q.stage, n, q.blocked, q.since)
<1> DEFINE e == [q EXCEPT !.at = a, !.bucket = n]
<1>1. /\ e \in Progress
      /\ e.at = a /\ e.pair = q.pair /\ e.stage = q.stage
      /\ e.bucket = n /\ e.blocked = q.blocked /\ e.since = q.since
  BY DEF Progress, Place, Stage
<1> HIDE DEF e
<1>2. e = Rec(a, q.pair, q.stage, n, q.blocked, q.since)
  BY <1>1, IsRec
<1> QED
  BY <1>2 DEF e

LEMMA MovesStage ==
  ASSUME NEW q \in Progress, NEW a \in Place, NEW g \in Stage, NEW n \in 0 .. MaxEvict + 1
  PROVE  [q EXCEPT !.at = a, !.stage = g, !.bucket = n] = Rec(a, q.pair, g, n, q.blocked, q.since)
<1> DEFINE e == [q EXCEPT !.at = a, !.stage = g, !.bucket = n]
<1>1. /\ e \in Progress
      /\ e.at = a /\ e.pair = q.pair /\ e.stage = g
      /\ e.bucket = n /\ e.blocked = q.blocked /\ e.since = q.since
  BY DEF Progress, Place, Stage
<1> HIDE DEF e
<1>2. e = Rec(a, q.pair, g, n, q.blocked, q.since)
  BY <1>1, IsRec
<1> QED
  BY <1>2 DEF e

LEMMA MovesSeen ==
  ASSUME NEW q \in Progress, NEW a \in Place, NEW n \in 0 .. MaxEvict + 1, NEW d \in 0 .. MaxDay
  PROVE  [q EXCEPT !.at = a, !.bucket = n, !.since = d] = Rec(a, q.pair, q.stage, n, q.blocked, d)
<1> DEFINE e == [q EXCEPT !.at = a, !.bucket = n, !.since = d]
<1>1. /\ e \in Progress
      /\ e.at = a /\ e.pair = q.pair /\ e.stage = q.stage
      /\ e.bucket = n /\ e.blocked = q.blocked /\ e.since = d
  BY DEF Progress, Place, Stage
<1> HIDE DEF e
<1>2. e = Rec(a, q.pair, q.stage, n, q.blocked, d)
  BY <1>1, IsRec
<1> QED
  BY <1>2 DEF e

LEMMA MovesSince ==
  ASSUME NEW q \in Progress, NEW a \in Place, NEW d \in 0 .. MaxDay
  PROVE  [q EXCEPT !.at = a, !.since = d] = Rec(a, q.pair, q.stage, q.bucket, q.blocked, d)
<1> DEFINE e == [q EXCEPT !.at = a, !.since = d]
<1>1. /\ e \in Progress
      /\ e.at = a /\ e.pair = q.pair /\ e.stage = q.stage
      /\ e.bucket = q.bucket /\ e.blocked = q.blocked /\ e.since = d
  BY DEF Progress, Place, Stage
<1> HIDE DEF e
<1>2. e = Rec(a, q.pair, q.stage, q.bucket, q.blocked, d)
  BY <1>1, IsRec
<1> QED
  BY <1>2 DEF e

LEMMA Fields ==
  ASSUME NEW q \in Progress
  PROVE  /\ q.at \in {"idle", "block", "keep", "look", "make", "take", "seen", "distinct", "pair"}
         /\ q.pair \in SUBSET Pair /\ q.stage \in {"hour", "day", "target"}
         /\ q.bucket \in 0 .. MaxEvict + 1 /\ q.blocked \in BOOLEAN /\ q.since \in 0 .. MaxDay
  BY DEF Progress

LEMMA Bounds == MaxDay \in Nat /\ MaxRefill \in Nat /\ MaxEvict \in Nat
  BY GuardAssumption

LEMMA IdleIs ==
  /\ Idle \in Progress
  /\ Idle.at = "idle" /\ Idle.bucket = 0 /\ Idle.since = 0 /\ Idle.pair = {}
  BY Bounds DEF Idle, Progress

LEMMA MovesOne ==
  ASSUME ReqTyped, NEW r \in Request, NEW q \in Progress, Step(r, q),
         (q.bucket # 0) = (q.at = "take"),
         q.at # "idle" => \E p \in Pair : q.pair = {p}
  PROVE  ReqTyped' /\ req'[r] = q /\ \A s \in Request \ {r} : req'[s] = req[s]
<1>1. req' = [req EXCEPT ![r] = q] /\ req \in [Request -> Progress]
  BY DEF Step, ReqTyped
<1>2. req' \in [Request -> Progress] /\ req'[r] = q /\ \A s \in Request \ {r} : req'[s] = req[s]
  BY <1>1
<1> QED
  BY <1>2 DEF ReqTyped, Single

\* The bucket that a request wants is that of its pair, at its stage.
LEMMA KeyIs ==
  ASSUME ReqTyped, NEW r \in Request, NEW p \in Pair, req[r].pair = {p}
  PROVE  /\ KeyOf(r) \in BucketKey
         /\ KeyOf(r) = <<req[r].stage, IF req[r].stage = "target" THEN p[2] ELSE p[1]>>
<1> DEFINE stage == req[r].stage
           key == <<stage, IF stage = "target" THEN p[2] ELSE p[1]>>
           Wanted(k) == k[1] = stage /\ \E x \in req[r].pair : k[2] = IF k[1] = "target" THEN x[2] ELSE x[1]
<1>1. stage \in {"hour", "day", "target"} /\ p[1] \in Sender /\ p[2] \in Target
  BY Fields DEF ReqTyped, Pair
<1>2. key \in BucketKey
  BY <1>1 DEF BucketKey
<1>3. key[1] = stage /\ key[2] = IF stage = "target" THEN p[2] ELSE p[1]
  OBVIOUS
<1>4. Wanted(key)
  BY <1>3
<1>5. \A k \in BucketKey : k = <<k[1], k[2]>>
  BY DEF BucketKey
<1>6. \A k \in BucketKey : Wanted(k) => k = key
  BY <1>5
<1>7. KeyOf(r) = CHOOSE k \in BucketKey : Wanted(k)
  BY Zenon DEF KeyOf
<1> HIDE DEF Wanted, key
<1>8. KeyOf(r) = key
  BY <1>2, <1>4, <1>6, <1>7
<1> QED
  BY <1>2, <1>8 DEF key

\* The bounds on the totals bound each bucket.
LEMMA StepUp ==
  ASSUME NEW f \in [BucketKey -> Nat], IsFiniteSet(Steps(f)), NEW k \in BucketKey,
         f[k] <= MaxRefill + MaxEvict, NEW m \in Nat, Total(f) < m
  PROVE  f[k] < m /\ IsFiniteSet(Steps([f EXCEPT ![k] = @ + 1]))
<1> DEFINE g == [f EXCEPT ![k] = @ + 1]
           h == [i \in 1 .. f[k] |-> <<k, i>>]
<1>1. \A i \in 1 .. f[k] : <<k, i>> \in Steps(f)
  BY Bounds DEF Steps
<1>2. h \in [1 .. f[k] -> Steps(f)]
  BY <1>1
<1>3. \A i, j \in 1 .. f[k] : h[i] = h[j] => i = j
  OBVIOUS
<1>4. h \in Injection(1 .. f[k], Steps(f))
  BY <1>2, <1>3, Zenon DEF Injection, IsInjective
<1>5. Cardinality(1 .. f[k]) <= Cardinality(Steps(f))
  BY <1>4, FS_Injection
<1>6. Cardinality(1 .. f[k]) = f[k]
  BY FS_Interval
<1>7. Total(f) = Cardinality(Steps(f)) /\ Cardinality(Steps(f)) \in Nat
  BY FS_CardinalityType DEF Total, Steps
<1>8. Steps(g) \in SUBSET (Steps(f) \cup {<<k, f[k] + 1>>})
  <2> SUFFICES ASSUME NEW ki \in Steps(g) PROVE ki \in Steps(f) \cup {<<k, f[k] + 1>>}
    OBVIOUS
  <2>1. PICK l \in BucketKey, i \in 1 .. MaxRefill + MaxEvict : ki = <<l, i>> /\ i <= g[l]
    BY DEF Steps
  <2>2. l # k => g[l] = f[l]
    OBVIOUS
  <2>3. g[k] = f[k] + 1
    OBVIOUS
  <2>4. CASE i <= f[l]
    BY <2>1, <2>4 DEF Steps
  <2>5. CASE ~(i <= f[l])
    <3>1. l = k /\ i = f[k] + 1
      BY <2>1, <2>2, <2>3, <2>5, Bounds
    <3> QED
      BY <2>1, <3>1
  <2> QED
    BY <2>4, <2>5
<1>9. IsFiniteSet(Steps(g))
  <2> HIDE DEF g
  <2>1. IsFiniteSet(Steps(f) \cup {<<k, f[k] + 1>>})
    BY FS_AddElement, Zenon
  <2> QED
    BY <1>8, <2>1, FS_Subset, Zenon
<1> QED
  BY <1>5, <1>6, <1>7, <1>9

\* What each step makes of the record of its request.
LEMMA Standing ==
  ASSUME ReqTyped, NEW r \in Request
  PROVE  /\ req[r] \in Progress
         /\ (req[r].bucket # 0) = (req[r].at = "take")
         /\ req[r].at # "idle" => \E p \in Pair : req[r].pair = {p}
  BY DEF ReqTyped, Single

LEMMA ArriveMoves ==
  ASSUME NEW r \in Request, NEW p \in Pair, Arrive(r, p)
  PROVE  \E a \in {"look", "block"} : Step(r, Rec(a, {p}, "hour", 0, FALSE, 0))
<1> DEFINE a == IF cache[p] = "no" THEN "look" ELSE "block"
<1>1. Step(r, [Idle EXCEPT !.at = a, !.pair = {p}])
  BY Zenon DEF Arrive
<1>2. a \in {"look", "block"} /\ a \in Place
  BY DEF Place
<1> HIDE DEF a
<1> DEFINE e == [Idle EXCEPT !.at = a, !.pair = {p}]
<1>3. /\ e \in Progress
      /\ e.at = a /\ e.pair = {p} /\ e.stage = "hour"
      /\ e.bucket = 0 /\ e.blocked = FALSE /\ e.since = 0
  BY <1>2, IdleIs DEF Progress, Place, Idle
<1>4. Step(r, e)
  BY <1>1
<1> HIDE DEF e
<1>5. e = Rec(a, {p}, "hour", 0, FALSE, 0)
  BY <1>3, IsRec
<1> QED
  BY <1>2, <1>4, <1>5

LEMMA QueryMoves ==
  ASSUME ReqTyped, NEW r \in Request, QueryBlocked(r)
  PROVE  LET q == req[r]
         IN  \/ \E b \in BOOLEAN : /\ Step(r, Rec("keep", q.pair, q.stage, q.bucket, b, q.since))
                                   /\ \E p \in q.pair : b = (p \in blocks)
             \/ Step(r, Rec("look", q.pair, q.stage, q.bucket, q.blocked, q.since))
<1> DEFINE q == req[r]
<1>1. q \in Progress
  BY Standing
<1>2. \/ \E p \in q.pair : Step(r, [q EXCEPT !.at = "keep", !.blocked = p \in blocks])
      \/ Step(r, [q EXCEPT !.at = "look"])
  BY Zenon DEF QueryBlocked
<1>3. \A b \in BOOLEAN : [q EXCEPT !.at = "keep", !.blocked = b] = Rec("keep", q.pair, q.stage, q.bucket, b, q.since)
  <2>1. "keep" \in Place
    BY DEF Place
  <2> QED
    BY <1>1, <2>1, MovesBlocked
<1>4. [q EXCEPT !.at = "look"] = Rec("look", q.pair, q.stage, q.bucket, q.blocked, q.since)
  BY <1>1, MovesAt DEF Place
<1>5. \A p : (p \in blocks) \in BOOLEAN
  OBVIOUS
<1> QED
  BY <1>2, <1>3, <1>4, <1>5, Zenon

LEMMA KeepMoves ==
  ASSUME ReqTyped, NEW r \in Request, KeepBlocked(r)
  PROVE  LET q == req[r]
         IN  IF q.blocked THEN Step(r, Idle)
             ELSE Step(r, Rec("look", q.pair, q.stage, q.bucket, q.blocked, q.since))
<1> DEFINE q == req[r]
<1>1. q \in Progress
  BY Standing
<1>2. Step(r, IF q.blocked THEN Idle ELSE [q EXCEPT !.at = "look"])
  BY Zenon DEF KeepBlocked
<1>3. [q EXCEPT !.at = "look"] = Rec("look", q.pair, q.stage, q.bucket, q.blocked, q.since)
  BY <1>1, MovesAt DEF Place
<1> QED
  BY <1>2, <1>3, Zenon

LEMMA LookMoves ==
  ASSUME ReqTyped, BucketsTyped, NEW r \in Request, Look(r)
  PROVE  LET q == req[r] n == home[KeyOf(r)]
         IN  /\ n \in 0 .. MaxEvict + 1
             /\ Step(r, Rec(IF n # 0 THEN "take" ELSE "make", q.pair, q.stage, n, q.blocked, q.since))
<1> DEFINE q == req[r]
           n == home[KeyOf(r)]
           a == IF n # 0 THEN "take" ELSE "make"
<1>1. q \in Progress /\ q.at = "look"
  BY Standing DEF Look, At
<1>2. PICK p \in Pair : q.pair = {p}
  BY <1>1, Standing
<1>3. n \in 0 .. MaxEvict + 1
  BY <1>2, KeyIs DEF BucketsTyped
<1>4. Step(r, [q EXCEPT !.at = a, !.bucket = n])
  BY Zenon DEF Look
<1>5. a \in Place
  BY DEF Place
<1>6. [q EXCEPT !.at = a, !.bucket = n] = Rec(a, q.pair, q.stage, n, q.blocked, q.since)
  <2> HIDE DEF a, n
  <2> QED
    BY <1>1, <1>3, <1>5, MovesBucket
<1> QED
  BY <1>3, <1>4, <1>6, Zenon

LEMMA MakeMoves ==
  ASSUME ReqTyped, BucketsTyped, NEW r \in Request, Make(r)
  PROVE  LET q == req[r] k == KeyOf(r) n == IF home[k] = 0 THEN evicted[k] + 1 ELSE home[k]
         IN  /\ n \in 1 .. MaxEvict + 1
             /\ home' = [home EXCEPT ![k] = n]
             /\ Step(r, Rec("take", q.pair, q.stage, n, q.blocked, q.since))
<1> DEFINE q == req[r]
           k == KeyOf(r)
           n == IF home[k] = 0 THEN evicted[k] + 1 ELSE home[k]
<1>1. q \in Progress /\ q.at = "make"
  BY Standing DEF Make, At
<1>2. PICK p \in Pair : q.pair = {p}
  BY <1>1, Standing
<1>3. k \in BucketKey
  BY <1>2, KeyIs
<1> HIDE DEF k
<1>4. n \in 1 .. MaxEvict + 1
  BY <1>3, Bounds DEF BucketsTyped
<1>5. home' = [home EXCEPT ![k] = n]
  BY Zenon DEF Make, k
<1>6. home'[k] = n
  BY <1>3, <1>5 DEF BucketsTyped
<1>7. Step(r, [q EXCEPT !.at = "take", !.bucket = home'[k]])
  BY Zenon DEF Make, k
<1>8. "take" \in Place /\ n \in 0 .. MaxEvict + 1
  BY <1>4, Bounds DEF Place
<1>9. [q EXCEPT !.at = "take", !.bucket = n] = Rec("take", q.pair, q.stage, n, q.blocked, q.since)
  <2> HIDE DEF n
  <2> QED
    BY <1>1, <1>8, MovesBucket
<1> QED
  BY <1>4, <1>5, <1>6, <1>7, <1>9, Zenon DEF k

\* Where a request that has its token goes.
LEMMA AfterTakeIs ==
  ASSUME ReqTyped, WindowsTyped, NEW r \in Request
  PROVE  LET q == req[r]
         IN  \/ /\ q.stage = "hour"
                /\ AfterTake(r) = Rec("look", q.pair, "day", 0, q.blocked, q.since)
             \/ /\ q.stage = "day"
                /\ AfterTake(r) = Rec("look", q.pair, "target", 0, q.blocked, q.since)
             \/ /\ q.stage = "target"
                /\ \E a \in {"seen", "pair"} :
                     /\ AfterTake(r) = Rec(a, q.pair, q.stage, 0, q.blocked, window)
                     /\ (\E p \in q.pair : p[2] \in GroupTarget) => a = "seen"
<1> DEFINE q == req[r]
           a == IF \E p \in q.pair : p[2] \in GroupTarget THEN "seen" ELSE "pair"
<1>1. q \in Progress /\ q.stage \in Stage
  BY Standing, Fields DEF Stage
<1>2. window \in 0 .. MaxDay /\ 0 \in 0 .. MaxEvict + 1
  BY Bounds DEF WindowsTyped
<1>3. {"look", "seen", "pair"} \subseteq Place /\ {"day", "target"} \subseteq Stage
  BY DEF Place, Stage
<1>4. CASE q.stage = "hour"
  <2>1. AfterTake(r) = [q EXCEPT !.at = "look", !.stage = "day", !.bucket = 0]
    BY <1>4, Zenon DEF AfterTake
  <2>2. [q EXCEPT !.at = "look", !.stage = "day", !.bucket = 0] = Rec("look", q.pair, "day", 0, q.blocked, q.since)
    BY <1>1, <1>2, <1>3, MovesStage
  <2> QED
    BY <1>4, <2>1, <2>2
<1>5. CASE q.stage = "day"
  <2>1. AfterTake(r) = [q EXCEPT !.at = "look", !.stage = "target", !.bucket = 0]
    BY <1>5 DEF AfterTake
  <2>2. [q EXCEPT !.at = "look", !.stage = "target", !.bucket = 0] = Rec("look", q.pair, "target", 0, q.blocked, q.since)
    BY <1>1, <1>2, <1>3, MovesStage
  <2> QED
    BY <1>5, <2>1, <2>2
<1>6. CASE q.stage = "target"
  <2>1. q.stage # "hour" /\ q.stage # "day"
    BY <1>6
  <2>2. AfterTake(r) = [q EXCEPT !.at = a, !.bucket = 0, !.since = window]
    BY <2>1, Zenon DEF AfterTake
  <2>3. a \in Place
    BY <1>3
  <2>4. [q EXCEPT !.at = a, !.bucket = 0, !.since = window] = Rec(a, q.pair, q.stage, 0, q.blocked, window)
    <3> HIDE DEF a
    <3>1. \A n \in 0 .. MaxEvict + 1, d \in 0 .. MaxDay :
            [q EXCEPT !.at = a, !.bucket = n, !.since = d] = Rec(a, q.pair, q.stage, n, q.blocked, d)
      BY <1>1, <2>3, MovesSeen
    <3> QED
      BY <1>2, <3>1, Zenon
  <2> QED
    BY <1>6, <2>2, <2>4
<1> QED
  BY <1>1, <1>4, <1>5, <1>6 DEF Stage

LEMMA SeenMoves ==
  ASSUME ReqTyped, WindowsTyped, NEW r \in Request, HasSeenToday(r)
  PROVE  \E p \in req[r].pair, w \in {window, day} :
           /\ window' = w /\ slots' = SlotsIn(w) /\ overtaken' = OvertakenIn(w)
           /\ Step(r, Rec(IF Contains(w, p, 0) THEN "pair" ELSE "distinct", req[r].pair, req[r].stage,
                          req[r].bucket, req[r].blocked, w))
<1> DEFINE q == req[r]
<1>1. PICK p \in q.pair, w \in {window, day} :
        /\ window' = w /\ slots' = SlotsIn(w) /\ overtaken' = OvertakenIn(w)
        /\ Step(r, [q EXCEPT !.at = IF Contains(w, p, 0) THEN "pair" ELSE "distinct", !.since = w])
  BY Zenon DEF HasSeenToday
<1> DEFINE a == IF Contains(w, p, 0) THEN "pair" ELSE "distinct"
<1>2. q \in Progress /\ a \in Place /\ w \in 0 .. MaxDay
  BY Standing, Bounds DEF Place, WindowsTyped
<1>3. [q EXCEPT !.at = a, !.since = w] = Rec(a, q.pair, q.stage, q.bucket, q.blocked, w)
  <2> HIDE DEF a
  <2> QED
    BY <1>2, MovesSince
<1> QED
  BY <1>1, <1>3, Zenon

LEMMA DistinctMoves ==
  ASSUME ReqTyped, WindowsTyped, NEW r \in Request, AllowDistinct(r)
  PROVE  \E p \in req[r].pair, w \in {window, day} :
           LET d == <<p[1], Distinct>>
           IN  /\ window' = w /\ overtaken' = OvertakenIn(w)
               /\ \/ /\ Free(w, d) # {} /\ slots' = Added(w, d)
                     /\ Step(r, Rec("pair", req[r].pair, req[r].stage, req[r].bucket, req[r].blocked, w))
                  \/ slots' = SlotsIn(w) /\ Step(r, Idle)
<1> DEFINE q == req[r]
<1>1. PICK p \in q.pair, w \in {window, day} :
        LET d == <<p[1], Distinct>>
        IN  /\ window' = w /\ overtaken' = OvertakenIn(w)
            /\ \/ /\ Free(w, d) # {} /\ slots' = Added(w, d)
                  /\ Step(r, [q EXCEPT !.at = "pair", !.since = w])
               \/ slots' = SlotsIn(w) /\ Step(r, Idle)
  BY Zenon DEF AllowDistinct
<1>2. q \in Progress /\ "pair" \in Place /\ w \in 0 .. MaxDay
  BY Standing, Bounds DEF Place, WindowsTyped
<1>3. [q EXCEPT !.at = "pair", !.since = w] = Rec("pair", q.pair, q.stage, q.bucket, q.blocked, w)
  BY <1>2, MovesSince
<1> QED
  BY <1>1, <1>3, Zenon

-------------------------------------------------------------------------------
(* Every step keeps the types.                                             *)

LEMMA MovesRec ==
  ASSUME ReqTyped, NEW r \in Request,
         NEW a \in Place, NEW p \in Pair, NEW g \in Stage, NEW n \in 0 .. MaxEvict + 1,
         NEW b \in BOOLEAN, NEW d \in 0 .. MaxDay,
         (n # 0) = (a = "take"), Step(r, Rec(a, {p}, g, n, b, d))
  PROVE  ReqTyped' /\ req'[r] = Rec(a, {p}, g, n, b, d) /\ \A s \in Request \ {r} : req'[s] = req[s]
<1> DEFINE q == Rec(a, {p}, g, n, b, d)
<1>1. q \in Progress /\ q.at = a /\ q.bucket = n /\ q.pair = {p}
  BY RecIs
<1>2. Step(r, q)
  OBVIOUS
<1> HIDE DEF q
<1>3. ReqTyped' /\ req'[r] = q /\ \A s \in Request \ {r} : req'[s] = req[s]
  BY <1>1, <1>2, MovesOne
<1> QED
  BY <1>3 DEF q

LEMMA MovesIdle ==
  ASSUME ReqTyped, NEW r \in Request, Step(r, Idle)
  PROVE  ReqTyped' /\ req'[r] = Idle /\ \A s \in Request \ {r} : req'[s] = req[s]
<1> HIDE DEF Idle
<1> QED
  BY IdleIs, MovesOne

LEMMA BlocksStill == ASSUME BlocksTyped, UNCHANGED <<blockVars, top>> PROVE BlocksTyped'
  BY DEF BlocksTyped, blockVars

LEMMA BucketsStill == ASSUME BucketsTyped, UNCHANGED bucketVars PROVE BucketsTyped'
  BY DEF BucketsTyped, bucketVars, Steps

LEMMA WindowsStill == ASSUME WindowsTyped, UNCHANGED <<day, windowVars>> PROVE WindowsTyped'
  BY DEF WindowsTyped, windowVars

LEMMA ReqStill == ASSUME ReqTyped, UNCHANGED req PROVE ReqTyped'
  BY DEF ReqTyped, Single

\* The pair of a request under way, and its fields.
LEMMA PairOf ==
  ASSUME ReqTyped, NEW r \in Request, req[r].at # "idle"
  PROVE  /\ \E p \in Pair : req[r].pair = {p}
         /\ req[r].stage \in Stage /\ req[r].bucket \in 0 .. MaxEvict + 1
         /\ req[r].blocked \in BOOLEAN /\ req[r].since \in 0 .. MaxDay
         /\ req[r].at # "take" => req[r].bucket = 0
  BY Standing, Fields DEF Stage

LEMMA ArriveTyped ==
  ASSUME GuardTyped, NEW r \in Request, NEW p \in Pair, Arrive(r, p)
  PROVE  GuardTyped'
<1>1. ReqTyped /\ BlocksTyped /\ BucketsTyped /\ WindowsTyped
  BY DEF GuardTyped
<1>2. PICK a \in {"look", "block"} : Step(r, Rec(a, {p}, "hour", 0, FALSE, 0))
  BY ArriveMoves
<1>3. ReqTyped'
  <2>1. a \in Place /\ "hour" \in Stage /\ 0 \in 0 .. MaxEvict + 1 /\ 0 \in 0 .. MaxDay /\ a # "take"
    BY Bounds DEF Place, Stage
  <2> QED
    BY <1>1, <1>2, <2>1, MovesRec
<1>4. UNCHANGED <<blockVars, top>> /\ UNCHANGED <<day, windowVars>> /\ UNCHANGED bucketVars
  BY DEF Arrive
<1> QED
  BY <1>1, <1>3, <1>4, BlocksStill, BucketsStill, WindowsStill DEF GuardTyped

LEMMA QueryTyped ==
  ASSUME GuardTyped, NEW r \in Request, QueryBlocked(r)
  PROVE  GuardTyped'
<1>1. ReqTyped /\ BlocksTyped /\ BucketsTyped /\ WindowsTyped
  BY DEF GuardTyped
<1> DEFINE q == req[r]
<1>2. q.at = "block"
  BY DEF QueryBlocked, At
<1>3. PICK p \in Pair : q.pair = {p}
  BY <1>1, <1>2, PairOf
<1>4. q.stage \in Stage /\ q.bucket = 0 /\ q.bucket \in 0 .. MaxEvict + 1 /\ q.blocked \in BOOLEAN /\ q.since \in 0 .. MaxDay
  BY <1>1, <1>2, PairOf
<1>5. "keep" \in Place /\ "look" \in Place
  BY DEF Place
<1>6. ReqTyped'
  <2>1. \/ \E b \in BOOLEAN : Step(r, Rec("keep", {p}, q.stage, q.bucket, b, q.since))
        \/ Step(r, Rec("look", {p}, q.stage, q.bucket, q.blocked, q.since))
    BY <1>1, <1>3, QueryMoves
  <2> HIDE DEF q
  <2> QED
    BY <1>1, <1>4, <1>5, <2>1, MovesRec
<1>7. UNCHANGED <<blockVars, top>> /\ UNCHANGED <<day, windowVars>> /\ UNCHANGED bucketVars
  BY DEF QueryBlocked
<1> QED
  BY <1>1, <1>6, <1>7, BlocksStill, BucketsStill, WindowsStill DEF GuardTyped

LEMMA KeepTyped ==
  ASSUME GuardTyped, NEW r \in Request, KeepBlocked(r)
  PROVE  GuardTyped'
<1>1. ReqTyped /\ BlocksTyped /\ BucketsTyped /\ WindowsTyped
  BY DEF GuardTyped
<1> DEFINE q == req[r]
<1>2. q.at = "keep"
  BY DEF KeepBlocked, At
<1>3. PICK p \in Pair : q.pair = {p}
  BY <1>1, <1>2, PairOf
<1>4. q.stage \in Stage /\ q.bucket = 0 /\ q.bucket \in 0 .. MaxEvict + 1 /\ q.blocked \in BOOLEAN /\ q.since \in 0 .. MaxDay
  BY <1>1, <1>2, PairOf
<1>5. ReqTyped'
  <2>1. Step(r, Idle) \/ Step(r, Rec("look", {p}, q.stage, q.bucket, q.blocked, q.since))
    BY <1>1, <1>3, KeepMoves
  <2>2. "look" \in Place
    BY DEF Place
  <2> HIDE DEF q, Idle
  <2> QED
    BY <1>1, <1>4, <2>1, <2>2, MovesRec, MovesIdle
<1>6. BlocksTyped'
  <2>1. cache' \in [Pair -> {"unknown", "yes", "no"}]
    <3>1. PICK lost \in SUBSET Pair :
            cache' = [x \in Pair |->
              IF x \in req[r].pair THEN IF req[r].blocked THEN "yes" ELSE "no"
              ELSE IF x \in lost THEN "unknown"
              ELSE cache[x]]
      BY Zenon DEF KeepBlocked
    <3> QED
      BY <1>1, <3>1 DEF BlocksTyped
  <2>2. behind' \in SUBSET Pair
    BY <1>1 DEF KeepBlocked, BlocksTyped
  <2> QED
    BY <1>1, <2>1, <2>2 DEF KeepBlocked, BlocksTyped
<1>7. UNCHANGED <<day, windowVars>> /\ UNCHANGED bucketVars
  BY DEF KeepBlocked
<1> QED
  BY <1>1, <1>5, <1>6, <1>7, BucketsStill, WindowsStill DEF GuardTyped

LEMMA ReportTyped ==
  ASSUME GuardTyped, NEW t \in Reported, ReportAbuse(t)
  PROVE  GuardTyped'
<1>1. ReqTyped /\ BlocksTyped /\ BucketsTyped /\ WindowsTyped
  BY DEF GuardTyped
<1>2. PICK s \in top[t] : reports' = reports \cup {<<s, t>>}
  BY Zenon DEF ReportAbuse
<1>3. <<s, t>> \in Pair
  BY <1>1, GuardAssumption DEF BlocksTyped, Pair
<1>4. BlocksTyped'
  BY <1>1, <1>2, <1>3 DEF ReportAbuse, BlocksTyped
<1>5. UNCHANGED req /\ UNCHANGED <<day, windowVars>> /\ UNCHANGED bucketVars
  BY DEF ReportAbuse
<1> QED
  BY <1>1, <1>4, <1>5, ReqStill, BucketsStill, WindowsStill DEF GuardTyped

LEMMA BlockTyped ==
  ASSUME GuardTyped, NEW p \in Pair, Block(p)
  PROVE  GuardTyped'
<1>1. ReqTyped /\ BlocksTyped /\ BucketsTyped /\ WindowsTyped
  BY DEF GuardTyped
<1>2. BlocksTyped'
  BY <1>1 DEF Block, Unheard, BlocksTyped
<1>3. UNCHANGED req /\ UNCHANGED <<day, windowVars>> /\ UNCHANGED bucketVars
  BY DEF Block
<1> QED
  BY <1>1, <1>2, <1>3, ReqStill, BucketsStill, WindowsStill DEF GuardTyped

LEMMA SweepTyped ==
  ASSUME GuardTyped, NEW p \in Pair, SweepExpiredBlocks(p)
  PROVE  GuardTyped'
<1>1. ReqTyped /\ BlocksTyped /\ BucketsTyped /\ WindowsTyped
  BY DEF GuardTyped
<1>2. BlocksTyped'
  BY <1>1 DEF SweepExpiredBlocks, Unheard, BlocksTyped
<1>3. UNCHANGED req /\ UNCHANGED <<day, windowVars>> /\ UNCHANGED bucketVars
  BY DEF SweepExpiredBlocks
<1> QED
  BY <1>1, <1>2, <1>3, ReqStill, BucketsStill, WindowsStill DEF GuardTyped

LEMMA LookTyped ==
  ASSUME GuardTyped, NEW r \in Request, Look(r)
  PROVE  GuardTyped'
<1>1. ReqTyped /\ BlocksTyped /\ BucketsTyped /\ WindowsTyped
  BY DEF GuardTyped
<1> DEFINE q == req[r]
           n == home[KeyOf(r)]
           a == IF n # 0 THEN "take" ELSE "make"
<1>2. q.at = "look"
  BY DEF Look, At
<1>3. PICK p \in Pair : q.pair = {p}
  BY <1>1, <1>2, PairOf
<1>4. q.stage \in Stage /\ q.blocked \in BOOLEAN /\ q.since \in 0 .. MaxDay
  BY <1>1, <1>2, PairOf
<1>5. n \in 0 .. MaxEvict + 1 /\ Step(r, Rec(a, {p}, q.stage, n, q.blocked, q.since))
  BY <1>1, <1>3, LookMoves
<1>6. a \in Place /\ (n # 0) = (a = "take")
  BY DEF Place
<1>7. ReqTyped'
  <2> HIDE DEF q, n, a
  <2> QED
    BY <1>1, <1>4, <1>5, <1>6, MovesRec
<1>8. UNCHANGED <<blockVars, top>> /\ UNCHANGED <<day, windowVars>> /\ UNCHANGED bucketVars
  BY DEF Look
<1> QED
  BY <1>1, <1>7, <1>8, BlocksStill, BucketsStill, WindowsStill DEF GuardTyped

LEMMA MakeTyped ==
  ASSUME GuardTyped, NEW r \in Request, Make(r)
  PROVE  GuardTyped'
<1>1. ReqTyped /\ BlocksTyped /\ BucketsTyped /\ WindowsTyped
  BY DEF GuardTyped
<1> DEFINE q == req[r]
           k == KeyOf(r)
           n == IF home[k] = 0 THEN evicted[k] + 1 ELSE home[k]
<1>2. q.at = "make"
  BY DEF Make, At
<1>3. PICK p \in Pair : q.pair = {p}
  BY <1>1, <1>2, PairOf
<1>4. q.stage \in Stage /\ q.blocked \in BOOLEAN /\ q.since \in 0 .. MaxDay
  BY <1>1, <1>2, PairOf
<1>5. /\ n \in 1 .. MaxEvict + 1
      /\ home' = [home EXCEPT ![k] = n]
      /\ Step(r, Rec("take", {p}, q.stage, n, q.blocked, q.since))
  BY <1>1, <1>3, MakeMoves
<1> HIDE DEF q, n, k
<1>6. "take" \in Place /\ n # 0 /\ n \in 0 .. MaxEvict + 1
  BY <1>5, Bounds DEF Place
<1>7. ReqTyped'
  BY <1>1, <1>4, <1>5, <1>6, MovesRec
<1>8. UNCHANGED <<blockVars, top>> /\ UNCHANGED <<day, windowVars>> /\ UNCHANGED <<tokens, refills, evicted, spent>>
  BY DEF Make
<1>9. BucketsTyped'
  BY <1>1, <1>5, <1>6, <1>8 DEF BucketsTyped, Steps
<1> QED
  BY <1>1, <1>7, <1>8, <1>9, BlocksStill, WindowsStill DEF GuardTyped

\* A bucket has one token more or less.
LEMMA TokensTyped ==
  ASSUME BucketsTyped, NEW k \in BucketKey, NEW n \in Generation, NEW m \in 0 .. BucketCap[k[1]],
         tokens' = [tokens EXCEPT ![<<k, n>>] = m]
  PROVE  /\ tokens' \in [BucketKey \X Generation -> Nat]
         /\ \A l \in BucketKey, i \in Generation : tokens'[<<l, i>>] = IF l = k /\ i = n THEN m ELSE tokens[<<l, i>>]
         /\ \A l \in BucketKey, i \in Generation : tokens'[<<l, i>>] \in 0 .. BucketCap[l[1]]
<1>1. k[1] \in {"hour", "day", "target"} /\ BucketCap[k[1]] \in Nat
  BY GuardAssumption DEF BucketKey
<1>2. tokens \in [BucketKey \X Generation -> Nat] /\ <<k, n>> \in BucketKey \X Generation
  BY DEF BucketsTyped
<1>3. tokens' \in [BucketKey \X Generation -> Nat]
  BY <1>1, <1>2
<1>4. \A l \in BucketKey, i \in Generation : tokens'[<<l, i>>] = IF l = k /\ i = n THEN m ELSE tokens[<<l, i>>]
  BY <1>2
<1> QED
  BY <1>3, <1>4 DEF BucketsTyped

LEMMA KeyKinds ==
  ASSUME NEW k \in BucketKey
  PROVE  /\ k[1] \in Stage /\ k = <<k[1], k[2]>>
         /\ k[1] # "target" => k[2] \in Sender
         /\ BucketCap[k[1]] \in Nat \ {0}
  BY GuardAssumption DEF BucketKey, Stage

\* What Take does.
LEMMA TakeIs ==
  ASSUME GuardTyped, NEW r \in Request, Take(r)
  PROVE  LET k == KeyOf(r) n == req[r].bucket
         IN  /\ k \in BucketKey /\ n \in Generation
             /\ UNCHANGED <<home, refills, evicted>>
             /\ \/ /\ tokens[<<k, n>>] \in 1 .. BucketCap[k[1]]
                   /\ tokens' = [tokens EXCEPT ![<<k, n>>] = tokens[<<k, n>>] - 1]
                   /\ spent' = IF k[1] = "hour" THEN [spent EXCEPT ![k[2]] = spent[k[2]] + 1] ELSE spent
                   /\ Step(r, AfterTake(r))
                \/ UNCHANGED <<tokens, spent>> /\ Step(r, Idle)
<1> DEFINE k == KeyOf(r)
           n == req[r].bucket
<1>1. ReqTyped /\ BucketsTyped
  BY DEF GuardTyped
<1>2. req[r].at = "take"
  BY DEF Take, At
<1>3. PICK p \in Pair : req[r].pair = {p}
  BY <1>1, <1>2, PairOf
<1>4. k \in BucketKey
  BY <1>1, <1>3, KeyIs
<1>5. n \in Generation
  BY <1>1, <1>2, Standing, Fields, Bounds DEF Generation
<1>6. UNCHANGED <<home, refills, evicted>>
  BY DEF Take
<1>7. \/ /\ tokens[<<k, n>>] > 0
         /\ tokens' = [tokens EXCEPT ![<<k, n>>] = tokens[<<k, n>>] - 1]
         /\ spent' = IF k[1] = "hour" THEN [spent EXCEPT ![k[2]] = spent[k[2]] + 1] ELSE spent
         /\ Step(r, AfterTake(r))
      \/ UNCHANGED <<tokens, spent>> /\ Step(r, Idle)
  BY Zenon DEF Take
<1> HIDE DEF k, n, Idle
<1>8. tokens[<<k, n>>] > 0 => tokens[<<k, n>>] \in 1 .. BucketCap[k[1]]
  <2>1. tokens[<<k, n>>] \in 0 .. BucketCap[k[1]]
    BY <1>1, <1>4, <1>5 DEF BucketsTyped
  <2>2. BucketCap[k[1]] \in Nat
    BY <1>4, KeyKinds
  <2> QED
    BY <2>1, <2>2
<1> QED
  BY <1>4, <1>5, <1>6, <1>7, <1>8, Zenon DEF k, n

LEMMA TakeTyped ==
  ASSUME GuardTyped, NEW r \in Request, Take(r)
  PROVE  GuardTyped'
<1> DEFINE q == req[r]
           k == KeyOf(r)
           n == req[r].bucket
<1>1. ReqTyped /\ BlocksTyped /\ BucketsTyped /\ WindowsTyped
  BY DEF GuardTyped
<1>2. q.at = "take"
  BY DEF Take, At
<1>3. PICK p \in Pair : q.pair = {p}
  BY <1>1, <1>2, PairOf
<1>4. q.stage \in Stage /\ q.blocked \in BOOLEAN /\ q.since \in 0 .. MaxDay
  BY <1>1, <1>2, PairOf
<1>5. window \in 0 .. MaxDay
  BY <1>1, Bounds DEF WindowsTyped
<1>6. /\ k \in BucketKey /\ n \in Generation
      /\ UNCHANGED <<home, refills, evicted>>
      /\ \/ /\ tokens[<<k, n>>] \in 1 .. BucketCap[k[1]]
            /\ tokens' = [tokens EXCEPT ![<<k, n>>] = tokens[<<k, n>>] - 1]
            /\ spent' = IF k[1] = "hour" THEN [spent EXCEPT ![k[2]] = spent[k[2]] + 1] ELSE spent
            /\ Step(r, AfterTake(r))
         \/ UNCHANGED <<tokens, spent>> /\ Step(r, Idle)
  BY TakeIs
<1>7. \/ AfterTake(r) = Rec("look", {p}, "day", 0, q.blocked, q.since)
      \/ AfterTake(r) = Rec("look", {p}, "target", 0, q.blocked, q.since)
      \/ AfterTake(r) = Rec("seen", {p}, q.stage, 0, q.blocked, window)
      \/ AfterTake(r) = Rec("pair", {p}, q.stage, 0, q.blocked, window)
  BY <1>1, <1>3, AfterTakeIs
<1>8. UNCHANGED <<blockVars, top>> /\ UNCHANGED <<day, windowVars>>
  BY DEF Take
<1> HIDE DEF q, k, n, Idle
<1>9. ReqTyped'
  <2>1. {"look", "seen", "pair"} \subseteq Place /\ {"day", "target"} \subseteq Stage /\ 0 \in 0 .. MaxEvict + 1
    BY Bounds DEF Place, Stage
  <2>2. CASE Step(r, Idle)
    BY <1>1, <2>2, MovesIdle
  <2>3. CASE Step(r, AfterTake(r))
    <3>1. CASE AfterTake(r) = Rec("look", {p}, "day", 0, q.blocked, q.since)
      BY <1>1, <1>4, <2>1, <2>3, <3>1, MovesRec
    <3>2. CASE AfterTake(r) = Rec("look", {p}, "target", 0, q.blocked, q.since)
      BY <1>1, <1>4, <2>1, <2>3, <3>2, MovesRec
    <3>3. CASE AfterTake(r) = Rec("seen", {p}, q.stage, 0, q.blocked, window)
      BY <1>1, <1>4, <1>5, <2>1, <2>3, <3>3, MovesRec
    <3>4. CASE AfterTake(r) = Rec("pair", {p}, q.stage, 0, q.blocked, window)
      BY <1>1, <1>4, <1>5, <2>1, <2>3, <3>4, MovesRec
    <3> QED
      BY <1>7, <3>1, <3>2, <3>3, <3>4
  <2> QED
    BY <1>6, <2>2, <2>3
<1>10. BucketsTyped'
  <2>1. CASE UNCHANGED <<tokens, spent>>
    BY <1>1, <1>6, <2>1, BucketsStill DEF bucketVars
  <2>2. CASE /\ tokens[<<k, n>>] \in 1 .. BucketCap[k[1]]
             /\ tokens' = [tokens EXCEPT ![<<k, n>>] = tokens[<<k, n>>] - 1]
             /\ spent' = IF k[1] = "hour" THEN [spent EXCEPT ![k[2]] = spent[k[2]] + 1] ELSE spent
    <3>1. tokens[<<k, n>>] - 1 \in 0 .. BucketCap[k[1]]
      BY <1>6, <2>2, KeyKinds
    <3>2. /\ tokens' \in [BucketKey \X Generation -> Nat]
          /\ \A l \in BucketKey, i \in Generation : tokens'[<<l, i>>] \in 0 .. BucketCap[l[1]]
      BY <1>1, <1>6, <2>2, <3>1, TokensTyped
    <3>3. spent' \in [Sender -> Nat]
      <4>1. spent \in [Sender -> Nat]
        BY <1>1 DEF BucketsTyped
      <4>2. k[1] = "hour" => k[2] \in Sender
        BY <1>6, KeyKinds
      <4> QED
        BY <2>2, <4>1, <4>2
    <3> QED
      BY <1>1, <1>6, <3>2, <3>3 DEF BucketsTyped, Steps
  <2> QED
    BY <1>6, <2>1, <2>2
<1> QED
  BY <1>1, <1>8, <1>9, <1>10, BlocksStill, WindowsStill DEF GuardTyped

LEMMA EvictIs ==
  ASSUME BucketsTyped, NEW k \in Crowded, Evict(k)
  PROVE  /\ k \in BucketKey /\ evicted[k] < MaxEvict
         /\ evicted' = [evicted EXCEPT ![k] = evicted[k] + 1] /\ home' = [home EXCEPT ![k] = 0]
         /\ UNCHANGED <<tokens, refills, spent>>
         /\ IsFiniteSet(Steps(evicted'))
<1>1. k \in BucketKey
  BY KeysAssumption
<1>2. evicted \in [BucketKey -> Nat] /\ evicted[k] <= MaxRefill + MaxEvict /\ IsFiniteSet(Steps(evicted))
  BY <1>1, Bounds DEF BucketsTyped
<1>3. Total(evicted) < MaxEvict /\ evicted' = [evicted EXCEPT ![k] = @ + 1] /\ home' = [home EXCEPT ![k] = 0]
      /\ UNCHANGED <<tokens, refills, spent>>
  BY DEF Evict
<1>4. evicted[k] < MaxEvict /\ IsFiniteSet(Steps([evicted EXCEPT ![k] = @ + 1]))
  BY <1>1, <1>2, <1>3, StepUp, Bounds
<1> QED
  BY <1>1, <1>3, <1>4

LEMMA EvictTyped ==
  ASSUME GuardTyped, NEW k \in Crowded, Evict(k)
  PROVE  GuardTyped'
<1>1. ReqTyped /\ BlocksTyped /\ BucketsTyped /\ WindowsTyped
  BY DEF GuardTyped
<1>2. /\ k \in BucketKey /\ evicted[k] < MaxEvict
      /\ evicted' = [evicted EXCEPT ![k] = evicted[k] + 1] /\ home' = [home EXCEPT ![k] = 0]
      /\ UNCHANGED <<tokens, refills, spent>>
      /\ IsFiniteSet(Steps(evicted'))
  BY <1>1, EvictIs
<1>3. BucketsTyped'
  <2>1. evicted' \in [BucketKey -> 0 .. MaxEvict] /\ home' \in [BucketKey -> 0 .. MaxEvict + 1]
    BY <1>1, <1>2, Bounds DEF BucketsTyped
  <2>2. IsFiniteSet(Steps(evicted)') /\ IsFiniteSet(Steps(refills)')
    BY <1>1, <1>2 DEF BucketsTyped, Steps
  <2> QED
    BY <1>1, <1>2, <2>1, <2>2 DEF BucketsTyped
<1>4. UNCHANGED req /\ UNCHANGED <<blockVars, top>> /\ UNCHANGED <<day, windowVars>>
  BY DEF Evict
<1> QED
  BY <1>1, <1>3, <1>4, ReqStill, BlocksStill, WindowsStill DEF GuardTyped

LEMMA RefillIs ==
  ASSUME BucketsTyped, NEW k \in Crowded, Refill(k)
  PROVE  /\ k \in BucketKey /\ refills[k] < MaxRefill
         /\ refills' = [refills EXCEPT ![k] = refills[k] + 1]
         /\ UNCHANGED <<home, evicted, spent>>
         /\ IsFiniteSet(Steps(refills'))
         /\ \E n \in Generation :
              /\ tokens[<<k, n>>] + 1 \in 1 .. BucketCap[k[1]]
              /\ tokens' = [tokens EXCEPT ![<<k, n>>] = tokens[<<k, n>>] + 1]
<1>1. k \in BucketKey
  BY KeysAssumption
<1>2. refills \in [BucketKey -> Nat] /\ refills[k] <= MaxRefill + MaxEvict /\ IsFiniteSet(Steps(refills))
  BY <1>1, Bounds DEF BucketsTyped
<1>3. Total(refills) < MaxRefill /\ refills' = [refills EXCEPT ![k] = @ + 1] /\ UNCHANGED <<home, evicted, spent>>
  BY DEF Refill
<1>4. refills[k] < MaxRefill /\ IsFiniteSet(Steps([refills EXCEPT ![k] = @ + 1]))
  BY <1>1, <1>2, <1>3, StepUp, Bounds
<1>5. PICK n \in Generation :
        /\ tokens[<<k, n>>] < BucketCap[k[1]]
        /\ tokens' = [tokens EXCEPT ![<<k, n>>] = tokens[<<k, n>>] + 1]
  BY Zenon DEF Refill
<1>6. tokens[<<k, n>>] \in Nat /\ BucketCap[k[1]] \in Nat
  BY <1>1, KeyKinds DEF BucketsTyped
<1>7. tokens[<<k, n>>] + 1 \in 1 .. BucketCap[k[1]]
  BY <1>5, <1>6
<1> QED
  BY <1>1, <1>3, <1>4, <1>5, <1>7

LEMMA RefillTyped ==
  ASSUME GuardTyped, NEW k \in Crowded, Refill(k)
  PROVE  GuardTyped'
<1>1. ReqTyped /\ BlocksTyped /\ BucketsTyped /\ WindowsTyped
  BY DEF GuardTyped
<1>2. /\ k \in BucketKey /\ refills[k] < MaxRefill
      /\ refills' = [refills EXCEPT ![k] = refills[k] + 1]
      /\ UNCHANGED <<home, evicted, spent>>
      /\ IsFiniteSet(Steps(refills'))
  BY <1>1, RefillIs
<1>3. PICK n \in Generation :
        /\ tokens[<<k, n>>] + 1 \in 1 .. BucketCap[k[1]]
        /\ tokens' = [tokens EXCEPT ![<<k, n>>] = tokens[<<k, n>>] + 1]
  BY <1>1, RefillIs
<1>4. BucketsTyped'
  <2>1. refills' \in [BucketKey -> 0 .. MaxRefill]
    BY <1>1, <1>2, Bounds DEF BucketsTyped
  <2>2. IsFiniteSet(Steps(evicted)') /\ IsFiniteSet(Steps(refills)')
    BY <1>1, <1>2 DEF BucketsTyped, Steps
  <2>3. tokens[<<k, n>>] + 1 \in 0 .. BucketCap[k[1]]
    BY <1>2, <1>3, KeyKinds
  <2>4. /\ tokens' \in [BucketKey \X Generation -> Nat]
        /\ \A l \in BucketKey, i \in Generation : tokens'[<<l, i>>] \in 0 .. BucketCap[l[1]]
    BY <1>1, <1>2, <1>3, <2>3, TokensTyped
  <2> QED
    BY <1>1, <1>2, <2>1, <2>2, <2>4 DEF BucketsTyped
<1>5. UNCHANGED req /\ UNCHANGED <<blockVars, top>> /\ UNCHANGED <<day, windowVars>>
  BY DEF Refill
<1> QED
  BY <1>1, <1>4, <1>5, ReqStill, BlocksStill, WindowsStill DEF GuardTyped

LEMMA MidnightTyped == ASSUME GuardTyped, Midnight PROVE GuardTyped'
<1>1. ReqTyped /\ BlocksTyped /\ BucketsTyped /\ WindowsTyped
  BY DEF GuardTyped
<1>2. UNCHANGED req /\ UNCHANGED <<blockVars, top>> /\ UNCHANGED bucketVars /\ UNCHANGED windowVars
  BY DEF Midnight
<1>3. WindowsTyped'
  BY <1>1, <1>2, Bounds DEF WindowsTyped, windowVars, Midnight
<1> QED
  BY <1>1, <1>2, <1>3, ReqStill, BlocksStill, BucketsStill DEF GuardTyped

\* A set of natural numbers with an element has a least one.
LEMMA LeastNatural ==
  ASSUME NEW S \in SUBSET Nat, S # {}
  PROVE  \E n \in S : \A m \in S : n <= m
<1> DEFINE R == OpToRel(<, Nat)
<1>1. \E n \in S : \A m \in S : <<m, n>> \notin R
  BY NatLessThanWellFounded, WFMin, Zenon
<1>2. \A m, n \in Nat : <<m, n>> \in R <=> m < n
  BY Zenon DEF OpToRel
<1> HIDE DEF R
<1>3. PICK n \in S : \A m \in S : <<m, n>> \notin R
  BY <1>1
<1>4. \A m \in S : ~(m < n)
  BY <1>2, <1>3
<1> QED
  BY <1>3, <1>4

LEMMA FirstIs == ASSUME NEW S \in SUBSET Nat, S # {} PROVE First(S) \in S
<1>1. \E x \in S : \A y \in S : x <= y
  BY LeastNatural
<1>2. First(S) = CHOOSE x \in S : \A y \in S : x <= y
  BY Zenon DEF First
<1> QED
  BY <1>1, <1>2

LEMMA LimitIs ==
  /\ \A p \in Counted : Limit(p) \in Nat
  /\ \A p \in Pair : p \in Counted /\ p = <<p[1], p[2]>> /\ <<p[1], Distinct>> \in Counted
  /\ \A p \in Pair : p[1] \in Sender /\ p[2] \in Target
  BY GuardAssumption DEF Limit, Counted, Pair

\* A look at the window, turned or not.
LEMMA TurnTyped ==
  ASSUME WindowsTyped, NEW w \in {window, day}
  PROVE  /\ SlotsIn(w) \in [Counted -> SUBSET Nat]
         /\ \A p \in Counted : SlotsIn(w)[p] \subseteq 0 .. Limit(p) - 1
         /\ OvertakenIn(w) \in SUBSET Pair
         /\ w \in 0 .. day /\ w \in 0 .. MaxDay
<1>1. CASE w = window
  BY <1>1, Bounds DEF WindowsTyped, SlotsIn, OvertakenIn
<1>2. CASE w # window
  BY <1>2, Bounds DEF WindowsTyped, SlotsIn, OvertakenIn
<1> QED
  BY <1>1, <1>2

LEMMA AddedIs ==
  ASSUME WindowsTyped, NEW w \in {window, day}, NEW p \in Counted, Free(w, p) # {}
  PROVE  \E k \in 0 .. Limit(p) - 1 :
           /\ k \notin SlotsIn(w)[p]
           /\ Added(w, p) = [SlotsIn(w) EXCEPT ![p] = SlotsIn(w)[p] \cup {k}]
           /\ Added(w, p) \in [Counted -> SUBSET Nat]
           /\ \A q \in Counted : Added(w, p)[q] \subseteq 0 .. Limit(q) - 1
<1> DEFINE k == First(Free(w, p))
<1>1. Free(w, p) \in SUBSET (0 .. Limit(p) - 1)
  BY DEF Free
<1>2. Limit(p) \in Nat
  BY LimitIs
<1>3. k \in Free(w, p)
  BY <1>1, <1>2, FirstIs
<1>4. k \in 0 .. Limit(p) - 1 /\ k \notin SlotsIn(w)[p]
  BY <1>3 DEF Free, Contains
<1>5. Added(w, p) = [SlotsIn(w) EXCEPT ![p] = SlotsIn(w)[p] \cup {k}]
  BY DEF Added
<1> HIDE DEF k
<1>6. SlotsIn(w) \in [Counted -> SUBSET Nat] /\ \A q \in Counted : SlotsIn(w)[q] \subseteq 0 .. Limit(q) - 1
  BY TurnTyped
<1>7. Added(w, p) \in [Counted -> SUBSET Nat]
  BY <1>2, <1>4, <1>5, <1>6
<1>8. \A q \in Counted : Added(w, p)[q] \subseteq 0 .. Limit(q) - 1
  BY <1>4, <1>5, <1>6
<1> QED
  BY <1>4, <1>5, <1>7, <1>8

LEMMA WindowsMove ==
  ASSUME WindowsTyped, NEW w \in {window, day}, window' = w, UNCHANGED day,
         slots' \in [Counted -> SUBSET Nat], \A p \in Counted : slots'[p] \subseteq 0 .. Limit(p) - 1,
         overtaken' \in SUBSET Pair
  PROVE  WindowsTyped'
<1>1. w \in 0 .. day
  BY TurnTyped
<1> QED
  BY <1>1 DEF WindowsTyped, Limit

LEMMA SeenTyped ==
  ASSUME GuardTyped, NEW r \in Request, HasSeenToday(r)
  PROVE  GuardTyped'
<1> DEFINE q == req[r]
<1>1. ReqTyped /\ BlocksTyped /\ BucketsTyped /\ WindowsTyped
  BY DEF GuardTyped
<1>2. q.at = "seen"
  BY DEF HasSeenToday, At
<1>3. PICK x \in Pair : q.pair = {x}
  BY <1>1, <1>2, PairOf
<1>4. q.stage \in Stage /\ q.bucket = 0 /\ q.bucket \in 0 .. MaxEvict + 1 /\ q.blocked \in BOOLEAN
  BY <1>1, <1>2, PairOf
<1>5. PICK p \in q.pair, w \in {window, day} :
        /\ window' = w /\ slots' = SlotsIn(w) /\ overtaken' = OvertakenIn(w)
        /\ Step(r, Rec(IF Contains(w, p, 0) THEN "pair" ELSE "distinct", q.pair, q.stage, q.bucket, q.blocked, w))
  BY <1>1, SeenMoves
<1> DEFINE a == IF Contains(w, p, 0) THEN "pair" ELSE "distinct"
<1>6. a \in Place /\ a # "take" /\ w \in 0 .. MaxDay
  BY <1>1, TurnTyped DEF Place
<1>7. Step(r, Rec(a, {x}, q.stage, q.bucket, q.blocked, w))
  BY <1>3, <1>5
<1> HIDE DEF a, q
<1>8. ReqTyped'
  BY <1>1, <1>4, <1>6, <1>7, MovesRec
<1>9. UNCHANGED <<blockVars, top>> /\ UNCHANGED bucketVars /\ UNCHANGED day
  BY DEF HasSeenToday
<1>10. WindowsTyped'
  BY <1>1, <1>5, <1>9, TurnTyped, WindowsMove
<1> QED
  BY <1>1, <1>8, <1>9, <1>10, BlocksStill, BucketsStill DEF GuardTyped

LEMMA DistinctTyped ==
  ASSUME GuardTyped, NEW r \in Request, AllowDistinct(r)
  PROVE  GuardTyped'
<1> DEFINE q == req[r]
<1>1. ReqTyped /\ BlocksTyped /\ BucketsTyped /\ WindowsTyped
  BY DEF GuardTyped
<1>2. q.at = "distinct"
  BY DEF AllowDistinct, At
<1>3. PICK x \in Pair : q.pair = {x}
  BY <1>1, <1>2, PairOf
<1>4. q.stage \in Stage /\ q.bucket = 0 /\ q.bucket \in 0 .. MaxEvict + 1 /\ q.blocked \in BOOLEAN
  BY <1>1, <1>2, PairOf
<1>5. PICK p \in q.pair, w \in {window, day} :
        LET d == <<p[1], Distinct>>
        IN  /\ window' = w /\ overtaken' = OvertakenIn(w)
            /\ \/ /\ Free(w, d) # {} /\ slots' = Added(w, d)
                  /\ Step(r, Rec("pair", q.pair, q.stage, q.bucket, q.blocked, w))
               \/ slots' = SlotsIn(w) /\ Step(r, Idle)
  BY <1>1, DistinctMoves
<1> DEFINE d == <<p[1], Distinct>>
<1>6. d \in Counted /\ w \in 0 .. MaxDay /\ "pair" \in Place
  BY <1>1, <1>3, LimitIs, TurnTyped DEF Place
<1>7. \/ /\ Free(w, d) # {} /\ slots' = Added(w, d)
         /\ Step(r, Rec("pair", {x}, q.stage, q.bucket, q.blocked, w))
      \/ slots' = SlotsIn(w) /\ Step(r, Idle)
  BY <1>3, <1>5
<1>8. window' = w /\ overtaken' = OvertakenIn(w)
  BY <1>5
<1> HIDE DEF d, q, Idle
<1>9. ReqTyped'
  BY <1>1, <1>4, <1>6, <1>7, MovesRec, MovesIdle
<1>10. slots' \in [Counted -> SUBSET Nat] /\ \A y \in Counted : slots'[y] \subseteq 0 .. Limit(y) - 1
  BY <1>1, <1>6, <1>7, TurnTyped, AddedIs
<1>11. UNCHANGED <<blockVars, top>> /\ UNCHANGED bucketVars /\ UNCHANGED day
  BY DEF AllowDistinct
<1>12. WindowsTyped'
  BY <1>1, <1>8, <1>10, <1>11, TurnTyped, WindowsMove
<1> QED
  BY <1>1, <1>9, <1>11, <1>12, BlocksStill, BucketsStill DEF GuardTyped

LEMMA AllowTyped ==
  ASSUME GuardTyped, NEW r \in Request, AllowPair(r)
  PROVE  GuardTyped'
<1> DEFINE q == req[r]
<1>1. ReqTyped /\ BlocksTyped /\ BucketsTyped /\ WindowsTyped
  BY DEF GuardTyped
<1>2. q.at = "pair" /\ Step(r, Idle)
  BY DEF AllowPair, At
<1>3. PICK x \in Pair : q.pair = {x}
  BY <1>1, <1>2, PairOf
<1>4. PICK p \in q.pair, w \in {window, day} :
        /\ window' = w
        /\ \/ /\ Free(w, p) # {} /\ slots' = Added(w, p)
              /\ overtaken' \in {OvertakenIn(w) \cup {p}, OvertakenIn(w)}
              /\ top' = [top EXCEPT ![p[2]] = {p[1]}] \/ UNCHANGED top
           \/ slots' = SlotsIn(w) /\ overtaken' = OvertakenIn(w) /\ UNCHANGED top
  BY DEF AllowPair
<1>5. p \in Pair /\ p \in Counted /\ p[1] \in Sender /\ p[2] \in Target
  BY <1>3, <1>4, LimitIs
<1>6. ReqTyped'
  BY <1>1, <1>2, MovesIdle
<1>7. slots' \in [Counted -> SUBSET Nat] /\ \A y \in Counted : slots'[y] \subseteq 0 .. Limit(y) - 1
  BY <1>1, <1>4, <1>5, TurnTyped, AddedIs
<1>8. UNCHANGED blockVars /\ UNCHANGED bucketVars /\ UNCHANGED day
  BY DEF AllowPair
<1>9. overtaken' \in SUBSET Pair
  BY <1>1, <1>4, <1>5, TurnTyped
<1>10. WindowsTyped'
  BY <1>1, <1>4, <1>7, <1>8, <1>9, WindowsMove
<1>11. BlocksTyped'
  BY <1>1, <1>4, <1>5, <1>8 DEF BlocksTyped, blockVars
<1> QED
  BY <1>1, <1>6, <1>8, <1>10, <1>11, BucketsStill DEF GuardTyped

LEMMA TypedInit == Init => GuardTyped
<1> SUFFICES ASSUME Init PROVE GuardTyped
  OBVIOUS
<1>1. ReqTyped
  BY IdleIs DEF Init, ReqTyped, Single
<1>2. BlocksTyped
  BY DEF Init, BlocksTyped
<1>3. WindowsTyped
  BY Bounds DEF Init, WindowsTyped
<1>4. BucketsTyped
  <2>1. \A k \in BucketKey : BucketCap[k[1]] \in Nat
    BY KeyKinds
  <2>2. tokens \in [BucketKey \X Generation -> Nat]
    BY <2>1 DEF Init
  <2>3. \A k \in BucketKey, n \in Generation : tokens[<<k, n>>] \in 0 .. BucketCap[k[1]]
    BY <2>1 DEF Init
  <2>4. Steps(refills) = {} /\ Steps(evicted) = {}
    BY Bounds DEF Init, Steps
  <2>5. IsFiniteSet(Steps(refills)) /\ IsFiniteSet(Steps(evicted))
    BY <2>4, FS_EmptySet
  <2>6. /\ home \in [BucketKey -> 0 .. MaxEvict + 1] /\ refills \in [BucketKey -> 0 .. MaxRefill]
        /\ evicted \in [BucketKey -> 0 .. MaxEvict] /\ spent \in [Sender -> Nat]
    BY Bounds DEF Init
  <2> QED
    BY <2>2, <2>3, <2>5, <2>6 DEF BucketsTyped
<1> QED
  BY <1>1, <1>2, <1>3, <1>4 DEF GuardTyped

LEMMA TypedNext == GuardTyped /\ [Next]_vars => GuardTyped'
<1> SUFFICES ASSUME GuardTyped, [Next]_vars PROVE GuardTyped'
  OBVIOUS
<1>1. ASSUME NEW r \in Request, NEW p \in Pair, Arrive(r, p) PROVE GuardTyped'
  BY <1>1, ArriveTyped
<1>2. ASSUME NEW r \in Request,
             \/ QueryBlocked(r) \/ KeepBlocked(r) \/ Look(r) \/ Make(r) \/ Take(r)
             \/ HasSeenToday(r) \/ AllowDistinct(r) \/ AllowPair(r)
      PROVE  GuardTyped'
  BY <1>2, QueryTyped, KeepTyped, LookTyped, MakeTyped, TakeTyped, SeenTyped, DistinctTyped, AllowTyped
<1>3. ASSUME NEW t \in Reported, ReportAbuse(t) PROVE GuardTyped'
  BY <1>3, ReportTyped
<1>4. ASSUME NEW p \in Pair, SweepExpiredBlocks(p) PROVE GuardTyped'
  BY <1>4, SweepTyped
<1>4b. ASSUME NEW p \in Pair, Block(p) PROVE GuardTyped'
  BY <1>4b, BlockTyped
<1>5. ASSUME NEW k \in Crowded, Evict(k) \/ Refill(k) PROVE GuardTyped'
  BY <1>5, EvictTyped, RefillTyped
<1>6. CASE Midnight
  BY <1>6, MidnightTyped
<1>7. CASE UNCHANGED vars
  <2>1. UNCHANGED <<req, blockVars, top, bucketVars, day, windowVars>>
    BY <1>7 DEF vars
  <2> QED
    BY <2>1, ReqStill, BlocksStill, BucketsStill, WindowsStill DEF GuardTyped
<1> QED
  BY <1>1, <1>2, <1>3, <1>4, <1>4b, <1>5, <1>6, <1>7 DEF Next

LEMMA TypedHolds == Spec => []GuardTyped
  BY TypedInit, TypedNext, PTL DEF Spec

\* The guard's state keeps its types: a request holds a bucket only to take
\* from it, no bucket has more tokens than its capacity, and no pair fills more
\* slots than its limit (boundedMap, TokenBucket, PairCascade).
THEOREM GuardTypeCorrect == Spec => []TypeOK
  BY TypedHolds, TypedIsTypeOK, PTL

-------------------------------------------------------------------------------
(* The block cache.  What a request is about to cache is right, or the row *)
(* has changed since it asked; and of two requests about one pair, the one *)
(* that has asked first cannot excuse the other.                           *)

KeepKnows ==
  \A r \in Request, p \in Pair :
    req[r].at = "keep" /\ p \in req[r].pair /\ p \notin behind => req[r].blocked = (p \in blocks)

LEMMA StepIs ==
  ASSUME ReqTyped, NEW r \in Request, NEW q, Step(r, q)
  PROVE  req'[r] = q /\ \A s \in Request \ {r} : req'[s] = req[s]
  BY DEF Step, ReqTyped

LEMMA RecFields ==
  \A a, p, g, n, b, d :
    /\ Rec(a, p, g, n, b, d).at = a /\ Rec(a, p, g, n, b, d).pair = p /\ Rec(a, p, g, n, b, d).stage = g
    /\ Rec(a, p, g, n, b, d).bucket = n /\ Rec(a, p, g, n, b, d).blocked = b /\ Rec(a, p, g, n, b, d).since = d
  BY DEF Rec

\* A step of a request that is not about to cache an answer.
LEMMA ElsewhereKeeps ==
  ASSUME KeepKnows, BlocksKnown, UNCHANGED <<blocks, cache, behind>>,
         \A r \in Request : req'[r] = req[r] \/ req'[r].at # "keep"
  PROVE  KeepKnows' /\ BlocksKnown'
  BY DEF KeepKnows, BlocksKnown, blockVars

\* Where the requests go that do not ask the table.
LEMMA Goes ==
  ASSUME GuardTyped, NEW r \in Request,
         \/ \E p \in Pair : Arrive(r, p)
         \/ Look(r) \/ Make(r) \/ Take(r) \/ HasSeenToday(r) \/ AllowDistinct(r) \/ AllowPair(r)
  PROVE  req'[r].at # "keep" /\ \A s \in Request \ {r} : req'[s] = req[s]
<1>1. ReqTyped /\ BucketsTyped /\ WindowsTyped
  BY DEF GuardTyped
<1>2. ASSUME NEW q, Step(r, q), q.at # "keep" PROVE req'[r].at # "keep" /\ \A s \in Request \ {r} : req'[s] = req[s]
  BY <1>1, <1>2, StepIs
<1>3. ASSUME NEW a, NEW p, NEW g, NEW n, NEW b, NEW d, a # "keep", Step(r, Rec(a, p, g, n, b, d))
      PROVE  req'[r].at # "keep" /\ \A s \in Request \ {r} : req'[s] = req[s]
  BY <1>2, <1>3, RecFields
<1>4. ASSUME Step(r, Idle) PROVE req'[r].at # "keep" /\ \A s \in Request \ {r} : req'[s] = req[s]
  BY <1>2, <1>4, IdleIs
<1>5. ASSUME NEW p \in Pair, Arrive(r, p) PROVE \E a \in {"look", "block"} : Step(r, Rec(a, {p}, "hour", 0, FALSE, 0))
  BY <1>5, ArriveMoves
<1>6. ASSUME Take(r), ~Step(r, Idle)
      PROVE  \E a \in {"look", "seen", "pair"} : \E p, g, n, b, d : Step(r, Rec(a, p, g, n, b, d))
  <2>1. Step(r, AfterTake(r))
    BY <1>6, TakeIs
  <2>2. \E a \in {"look", "seen", "pair"} : \E p, g, n, b, d : AfterTake(r) = Rec(a, p, g, n, b, d)
    BY <1>1, AfterTakeIs
  <2> QED
    BY <2>1, <2>2
<1> HIDE DEF Idle
<1>7. CASE \E p \in Pair : Arrive(r, p)
  BY <1>3, <1>5, <1>7
<1>8. CASE Look(r)
  <2>1. "take" # "keep" /\ "make" # "keep"
    OBVIOUS
  <2>2. \E a \in {"take", "make"} : \E p, g, n, b, d : Step(r, Rec(a, p, g, n, b, d))
    BY <1>1, <1>8, LookMoves
  <2> QED
    BY <1>3, <2>1, <2>2
<1>9. CASE Make(r)
  <2>1. \E p, g, n, b, d : Step(r, Rec("take", p, g, n, b, d))
    BY <1>1, <1>9, MakeMoves
  <2> QED
    BY <1>3, <2>1
<1>10. CASE Take(r)
  BY <1>3, <1>4, <1>6, <1>10
<1>11. CASE HasSeenToday(r)
  <2>1. \E a \in {"pair", "distinct"} : \E p, g, n, b, d : Step(r, Rec(a, p, g, n, b, d))
    BY <1>1, <1>11, SeenMoves
  <2> QED
    BY <1>3, <2>1
<1>12. CASE AllowDistinct(r)
  <2>1. Step(r, Idle) \/ \E p, g, n, b, d : Step(r, Rec("pair", p, g, n, b, d))
    BY <1>1, <1>12, DistinctMoves
  <2> QED
    BY <1>3, <1>4, <2>1
<1>13. CASE AllowPair(r)
  BY <1>4, <1>13 DEF AllowPair
<1> QED
  BY <1>7, <1>8, <1>9, <1>10, <1>11, <1>12, <1>13

LEMMA QueryKnows ==
  ASSUME GuardTyped, KeepKnows, BlocksKnown, NEW r \in Request, QueryBlocked(r)
  PROVE  KeepKnows' /\ BlocksKnown'
<1>1. ReqTyped
  BY DEF GuardTyped
<1>2. PICK x \in Pair : req[r].pair = {x}
  BY <1>1, PairOf DEF QueryBlocked, At
<1>3. UNCHANGED <<blocks, cache, behind>>
  BY DEF QueryBlocked, blockVars
<1>4. \/ /\ req'[r].at = "keep" /\ req'[r].pair = {x} /\ req'[r].blocked = (x \in blocks)
         /\ \A s \in Request \ {r} : req'[s] = req[s]
      \/ req'[r].at # "keep" /\ \A s \in Request \ {r} : req'[s] = req[s]
  BY <1>1, <1>2, QueryMoves, StepIs, RecFields
<1>5. BlocksKnown'
  BY <1>3 DEF BlocksKnown
<1>6. KeepKnows'
  BY <1>3, <1>4 DEF KeepKnows
<1> QED
  BY <1>5, <1>6

LEMMA KeepKeeps ==
  ASSUME GuardTyped, KeepKnows, BlocksKnown, NEW r \in Request, KeepBlocked(r)
  PROVE  KeepKnows' /\ BlocksKnown'
<1> DEFINE blocked == req[r].blocked
<1>1. ReqTyped /\ BlocksTyped
  BY DEF GuardTyped
<1>2. req[r].at = "keep" /\ blocked \in BOOLEAN
  BY <1>1, PairOf DEF KeepBlocked, At
<1>3. PICK x \in Pair : req[r].pair = {x}
  BY <1>1, <1>2, PairOf
<1>4. req'[r].at # "keep" /\ \A s \in Request \ {r} : req'[s] = req[s]
  BY <1>1, KeepMoves, StepIs, RecFields, IdleIs
<1>5. blocks' = blocks
  BY DEF KeepBlocked
<1>6. behind' = {p \in behind : \/ p # x \/ blocked # (p \in blocks)
                               \/ \E q \in Request \ {r} : req[q].at = "keep" /\ p \in req[q].pair}
  BY <1>3 DEF KeepBlocked, At
<1>7. PICK lost \in SUBSET Pair :
        cache' = [p \in Pair |-> IF p = x THEN IF blocked THEN "yes" ELSE "no"
                                 ELSE IF p \in lost THEN "unknown" ELSE cache[p]]
  BY <1>3 DEF KeepBlocked
<1> HIDE DEF blocked
<1>8. KeepKnows'
  <2> SUFFICES ASSUME NEW s \in Request, NEW p \in Pair, req'[s].at = "keep", p \in req'[s].pair, p \notin behind'
               PROVE  req'[s].blocked = (p \in blocks)
    BY <1>5 DEF KeepKnows
  <2>1. s # r /\ req'[s] = req[s]
    BY <1>4
  <2>2. p \notin behind
    BY <1>6, <2>1
  <2> QED
    BY <2>1, <2>2 DEF KeepKnows
<1>9. BlocksKnown'
  <2> SUFFICES ASSUME NEW p \in Pair, cache'[p] # "unknown", p \notin behind'
               PROVE  (cache'[p] = "yes") = (p \in blocks)
    BY <1>5 DEF BlocksKnown
  <2>1. CASE p # x
    <3>1. p \notin behind /\ cache'[p] = cache[p]
      BY <1>6, <1>7, <2>1
    <3> QED
      BY <3>1 DEF BlocksKnown
  <2>2. CASE p = x
    <3>1. blocked = (x \in blocks)
      <4>1. CASE x \in behind
        BY <1>2, <1>6, <2>2, <4>1
      <4>2. CASE x \notin behind
        BY <1>2, <1>3, <4>2 DEF KeepKnows, blocked
      <4> QED
        BY <4>1, <4>2
    <3>2. cache'[x] = IF blocked THEN "yes" ELSE "no"
      BY <1>7
    <3> QED
      BY <1>2, <2>2, <3>1, <3>2
  <2> QED
    BY <2>1, <2>2
<1> QED
  BY <1>8, <1>9

\* A row comes or goes: nobody has an answer about its pair, or it is behind.
LEMMA RowKnows ==
  ASSUME KeepKnows, BlocksKnown, UNCHANGED <<req, cache>>, NEW p \in Pair,
         \A x \in Pair \ {p} : x \in blocks' <=> x \in blocks,
         behind' = IF Answered(p) THEN behind \cup {p} ELSE behind
  PROVE  KeepKnows' /\ BlocksKnown'
<1>1. KeepKnows'
  <2> SUFFICES ASSUME NEW s \in Request, NEW x \in Pair, req[s].at = "keep", x \in req[s].pair, x \notin behind'
               PROVE  req[s].blocked = (x \in blocks')
    BY DEF KeepKnows
  <2>1. x # p
    BY DEF Answered, At
  <2> QED
    BY <2>1 DEF KeepKnows
<1>2. BlocksKnown'
  <2> SUFFICES ASSUME NEW x \in Pair, cache[x] # "unknown", x \notin behind'
               PROVE  (cache[x] = "yes") = (x \in blocks')
    BY DEF BlocksKnown
  <2>1. x # p
    BY DEF Answered
  <2> QED
    BY <2>1 DEF BlocksKnown
<1> QED
  BY <1>1, <1>2

LEMMA KnowsNext == GuardTyped /\ KeepKnows /\ BlocksKnown /\ [Next]_vars => KeepKnows' /\ BlocksKnown'
<1> SUFFICES ASSUME GuardTyped, KeepKnows, BlocksKnown, [Next]_vars PROVE KeepKnows' /\ BlocksKnown'
  OBVIOUS
<1>1. ASSUME NEW r \in Request,
             \/ \E p \in Pair : Arrive(r, p)
             \/ Look(r) \/ Make(r) \/ Take(r) \/ HasSeenToday(r) \/ AllowDistinct(r) \/ AllowPair(r)
      PROVE  KeepKnows' /\ BlocksKnown'
  <2>1. \A s \in Request : req'[s] = req[s] \/ req'[s].at # "keep"
    BY <1>1, Goes
  <2>2. UNCHANGED blockVars
    BY <1>1 DEF Arrive, Look, Make, Take, HasSeenToday, AllowDistinct, AllowPair
  <2> QED
    BY <2>1, <2>2, ElsewhereKeeps DEF blockVars
<1>2. ASSUME NEW r \in Request, QueryBlocked(r) PROVE KeepKnows' /\ BlocksKnown'
  BY <1>2, QueryKnows
<1>3. ASSUME NEW r \in Request, KeepBlocked(r) PROVE KeepKnows' /\ BlocksKnown'
  BY <1>3, KeepKeeps
<1>4. ASSUME NEW t \in Reported, ReportAbuse(t) PROVE KeepKnows' /\ BlocksKnown'
  BY <1>4, ElsewhereKeeps DEF ReportAbuse
<1>4b. ASSUME NEW p \in Pair, Block(p) PROVE KeepKnows' /\ BlocksKnown'
  <2>1. UNCHANGED <<req, cache>>
    BY <1>4b DEF Block
  <2>2. CASE p \notin blocks /\ blocks' = blocks \cup {p} /\ Unheard(p)
    BY <2>1, <2>2, RowKnows DEF Unheard
  <2>3. CASE UNCHANGED <<blocks, behind>>
    BY <2>1, <2>3, ElsewhereKeeps
  <2> QED
    BY <1>4b, <2>2, <2>3 DEF Block
<1>5. ASSUME NEW p \in Pair, SweepExpiredBlocks(p) PROVE KeepKnows' /\ BlocksKnown'
  BY <1>5, RowKnows DEF SweepExpiredBlocks, Unheard
<1>6. ASSUME NEW k \in Crowded, Evict(k) \/ Refill(k) PROVE KeepKnows' /\ BlocksKnown'
  BY <1>6, ElsewhereKeeps DEF Evict, Refill, blockVars
<1>7. CASE Midnight
  BY <1>7, ElsewhereKeeps DEF Midnight, blockVars
<1>8. CASE UNCHANGED vars
  BY <1>8, ElsewhereKeeps DEF vars, blockVars
<1> QED
  BY <1>1, <1>2, <1>3, <1>4, <1>4b, <1>5, <1>6, <1>7, <1>8 DEF Next

\* A cached answer is what the table says, unless the row came or went while an
\* answer was cached or on its way: a sender nobody has asked about is stopped
\* from the moment the report is written (sqliteBlockStore.IsBlocked, ReportAbuse).
THEOREM BlocksAreKnown == Spec => []BlocksKnown
<1>1. Init => KeepKnows /\ BlocksKnown
  BY IdleIs DEF Init, KeepKnows, BlocksKnown
<1> QED
  BY <1>1, TypedHolds, KnowsNext, PTL DEF Spec

-------------------------------------------------------------------------------
(* The hourly limit.  A token that a sender has spent is missing from one  *)
(* of its buckets or has been given back by time; buckets not made yet are *)
(* full, so that only those made so far can miss any.                      *)

\* The tokens missing from the hourly buckets of a sender.
Missing(s) == {ni \in Generation \X (1 .. BucketCap["hour"]) : ni[2] > tokens[<<<<"hour", s>>, ni[1]>>]}

\* The bucket that a request about pair p wants at stage g.
KeyFor(g, p) == <<g, IF g = "target" THEN p[2] ELSE p[1]>>

Made ==
  /\ \A k \in BucketKey : home[k] <= evicted[k] + 1
  /\ \A r \in Request, p \in Pair :
       req[r].at = "take" /\ req[r].pair = {p} => req[r].bucket <= evicted[KeyFor(req[r].stage, p)] + 1

UnmadeFull ==
  \A k \in BucketKey, n \in Generation : n > evicted[k] + 1 => tokens[<<k, n>>] = BucketCap[k[1]]

Balanced == \A s \in Sender : spent[s] = Cardinality(Missing(s)) + refills[<<"hour", s>>]

Booked == Made /\ UnmadeFull /\ Balanced

LEMMA HourKeys ==
  /\ BucketCap["hour"] \in Nat \ {0}
  /\ \A s \in Sender : <<"hour", s>> \in BucketKey
  /\ \A k \in BucketKey : k[1] = "hour" => k[2] \in Sender /\ k = <<"hour", k[2]>>
  BY GuardAssumption DEF BucketKey

LEMMA MissingFinite == ASSUME NEW s PROVE IsFiniteSet(Missing(s)) /\ Cardinality(Missing(s)) \in Nat
<1>1. IsFiniteSet(Generation) /\ IsFiniteSet(1 .. BucketCap["hour"])
  BY Bounds, HourKeys, FS_Interval DEF Generation
<1>2. IsFiniteSet(Generation \X (1 .. BucketCap["hour"]))
  BY <1>1, FS_Product
<1>3. Missing(s) \in SUBSET (Generation \X (1 .. BucketCap["hour"]))
  BY DEF Missing
<1>4. IsFiniteSet(Missing(s))
  BY <1>2, <1>3, FS_Subset
<1> QED
  BY <1>4, FS_CardinalityType

\* A step that leaves the buckets, and moves no request to a bucket.
LEMMA BooksStill ==
  ASSUME Booked, UNCHANGED bucketVars, \A r \in Request : req'[r] = req[r] \/ req'[r].at # "take"
  PROVE  Booked'
<1>1. UNCHANGED <<home, tokens, refills, evicted, spent>>
  BY DEF bucketVars
<1>2. Made'
  BY <1>1 DEF Booked, Made, KeyFor
<1>3. UnmadeFull'
  BY <1>1 DEF Booked, UnmadeFull
<1>4. Balanced'
  BY <1>1 DEF Booked, Balanced, Missing
<1> QED
  BY <1>2, <1>3, <1>4 DEF Booked

\* Requests away from the buckets.
LEMMA GoesAway ==
  ASSUME GuardTyped, NEW r \in Request,
         \/ \E p \in Pair : Arrive(r, p)
         \/ QueryBlocked(r) \/ KeepBlocked(r) \/ HasSeenToday(r) \/ AllowDistinct(r) \/ AllowPair(r)
  PROVE  req'[r].at # "take" /\ \A s \in Request \ {r} : req'[s] = req[s]
<1>1. ReqTyped /\ BucketsTyped /\ WindowsTyped
  BY DEF GuardTyped
<1>2. ASSUME NEW q, Step(r, q), q.at # "take" PROVE req'[r].at # "take" /\ \A s \in Request \ {r} : req'[s] = req[s]
  BY <1>1, <1>2, StepIs
<1>3. ASSUME NEW a, NEW p, NEW g, NEW n, NEW b, NEW d, a # "take", Step(r, Rec(a, p, g, n, b, d))
      PROVE  req'[r].at # "take" /\ \A s \in Request \ {r} : req'[s] = req[s]
  BY <1>2, <1>3, RecFields
<1>4. ASSUME Step(r, Idle) PROVE req'[r].at # "take" /\ \A s \in Request \ {r} : req'[s] = req[s]
  BY <1>2, <1>4, IdleIs
<1> HIDE DEF Idle
<1>5. CASE \E p \in Pair : Arrive(r, p)
  BY <1>3, <1>5, ArriveMoves
<1>6. CASE QueryBlocked(r)
  <2>1. \E a \in {"keep", "look"} : \E p, g, n, b, d : Step(r, Rec(a, p, g, n, b, d))
    BY <1>1, <1>6, QueryMoves
  <2> QED
    BY <1>3, <2>1
<1>7. CASE KeepBlocked(r)
  <2>1. Step(r, Idle) \/ \E p, g, n, b, d : Step(r, Rec("look", p, g, n, b, d))
    BY <1>1, <1>7, KeepMoves
  <2> QED
    BY <1>3, <1>4, <2>1
<1>8. CASE HasSeenToday(r)
  <2>1. \E a \in {"pair", "distinct"} : \E p, g, n, b, d : Step(r, Rec(a, p, g, n, b, d))
    BY <1>1, <1>8, SeenMoves
  <2> QED
    BY <1>3, <2>1
<1>9. CASE AllowDistinct(r)
  <2>1. Step(r, Idle) \/ \E p, g, n, b, d : Step(r, Rec("pair", p, g, n, b, d))
    BY <1>1, <1>9, DistinctMoves
  <2> QED
    BY <1>3, <1>4, <2>1
<1>10. CASE AllowPair(r)
  BY <1>4, <1>10 DEF AllowPair
<1> QED
  BY <1>5, <1>6, <1>7, <1>8, <1>9, <1>10

LEMMA LookBooked ==
  ASSUME GuardTyped, Booked, NEW r \in Request, Look(r)
  PROVE  Booked'
<1>1. ReqTyped /\ BucketsTyped
  BY DEF GuardTyped
<1>2. PICK x \in Pair : req[r].pair = {x}
  BY <1>1, PairOf DEF Look, At
<1> DEFINE k == KeyFor(req[r].stage, x)
<1>3. KeyOf(r) = k /\ k \in BucketKey
  BY <1>1, <1>2, KeyIs DEF KeyFor
<1>4. /\ req'[r].pair = {x} /\ req'[r].stage = req[r].stage /\ req'[r].bucket = home[k]
      /\ \A s \in Request \ {r} : req'[s] = req[s]
  BY <1>1, <1>2, <1>3, LookMoves, StepIs, RecFields
<1>5. UNCHANGED <<home, tokens, refills, evicted, spent>>
  BY DEF Look, bucketVars
<1>6. Made'
  <2> SUFFICES ASSUME NEW s \in Request, NEW p \in Pair, req'[s].at = "take", req'[s].pair = {p}
               PROVE  req'[s].bucket <= evicted[KeyFor(req'[s].stage, p)] + 1
    BY <1>5 DEF Booked, Made, KeyFor
  <2>1. CASE s # r
    BY <1>4, <2>1 DEF Booked, Made
  <2>2. CASE s = r
    <3>1. p = x
      BY <1>4, <2>2
    <3>2. home[k] <= evicted[k] + 1
      BY <1>3 DEF Booked, Made
    <3> QED
      BY <1>4, <2>2, <3>1, <3>2
  <2> QED
    BY <2>1, <2>2
<1>7. UnmadeFull' /\ Balanced'
  BY <1>5 DEF Booked, UnmadeFull, Balanced, Missing
<1> QED
  BY <1>6, <1>7 DEF Booked

LEMMA MakeBooked ==
  ASSUME GuardTyped, Booked, NEW r \in Request, Make(r)
  PROVE  Booked'
<1>1. ReqTyped /\ BucketsTyped
  BY DEF GuardTyped
<1>2. PICK x \in Pair : req[r].pair = {x}
  BY <1>1, PairOf DEF Make, At
<1> DEFINE k == KeyFor(req[r].stage, x)
           n == IF home[k] = 0 THEN evicted[k] + 1 ELSE home[k]
<1>3. KeyOf(r) = k /\ k \in BucketKey
  BY <1>1, <1>2, KeyIs DEF KeyFor
<1>4. /\ req'[r].pair = {x} /\ req'[r].stage = req[r].stage /\ req'[r].bucket = n
      /\ \A s \in Request \ {r} : req'[s] = req[s]
      /\ home' = [home EXCEPT ![k] = n]
  BY <1>1, <1>2, <1>3, MakeMoves, StepIs, RecFields
<1>5. UNCHANGED <<tokens, refills, evicted, spent>>
  BY DEF Make
<1>6. n <= evicted[k] + 1
  BY <1>1, <1>3 DEF Booked, Made, BucketsTyped
<1>7. Made'
  <2>1. ASSUME NEW l \in BucketKey PROVE home'[l] <= evicted[l] + 1
    BY <1>1, <1>3, <1>4, <1>6 DEF Booked, Made, BucketsTyped
  <2>2. ASSUME NEW s \in Request, NEW p \in Pair, req'[s].at = "take", req'[s].pair = {p}
        PROVE  req'[s].bucket <= evicted[KeyFor(req'[s].stage, p)] + 1
    <3>1. CASE s # r
      BY <1>4, <2>2, <3>1 DEF Booked, Made
    <3>2. CASE s = r
      <4>1. p = x
        BY <1>4, <2>2, <3>2
      <4> QED
        BY <1>4, <1>6, <3>2, <4>1
    <3> QED
      BY <3>1, <3>2
  <2> QED
    BY <1>5, <2>1, <2>2 DEF Made, KeyFor
<1>8. UnmadeFull' /\ Balanced'
  BY <1>5 DEF Booked, UnmadeFull, Balanced, Missing
<1> QED
  BY <1>7, <1>8 DEF Booked

\* What an hourly bucket of a sender then holds.
LEMMA HourTokens ==
  ASSUME GuardTyped, NEW k \in BucketKey, NEW n \in Generation, NEW m \in Nat,
         tokens' = [tokens EXCEPT ![<<k, n>>] = m], NEW s \in Sender
  PROVE  /\ \A i \in Generation : tokens'[<<<<"hour", s>>, i>>]
                 = IF <<"hour", s>> = k /\ i = n THEN m ELSE tokens[<<<<"hour", s>>, i>>]
         /\ \A i \in Generation : tokens[<<<<"hour", s>>, i>>] \in 0 .. BucketCap["hour"]
<1> DEFINE h == <<"hour", s>>
           cap == BucketCap["hour"]
<1>1. h \in BucketKey /\ cap \in Nat /\ BucketCap[h[1]] = cap
  BY HourKeys
<1>2. \A i \in Generation : tokens'[<<h, i>>] = IF h = k /\ i = n THEN m ELSE tokens[<<h, i>>]
  BY <1>1 DEF GuardTyped, BucketsTyped
<1>3. \A i \in Generation : tokens[<<h, i>>] \in 0 .. cap
  BY <1>1 DEF GuardTyped, BucketsTyped
<1> QED
  BY <1>2, <1>3

\* A token of another bucket, a token spent, a token given back.
LEMMA TokenElsewhere ==
  ASSUME GuardTyped, NEW k \in BucketKey, NEW n \in Generation, NEW m \in Nat,
         tokens' = [tokens EXCEPT ![<<k, n>>] = m], NEW s \in Sender, k # <<"hour", s>>
  PROVE  Missing(s)' = Missing(s)
<1>1. \A i \in Generation : tokens'[<<<<"hour", s>>, i>>] = tokens[<<<<"hour", s>>, i>>]
  BY HourTokens
<1> QED
  BY <1>1 DEF Missing

LEMMA TokenSpent ==
  ASSUME GuardTyped, NEW n \in Generation, NEW m \in Nat, NEW s \in Sender, <<"hour", s>> \in BucketKey,
         tokens[<<<<"hour", s>>, n>>] = m + 1,
         tokens' = [tokens EXCEPT ![<<<<"hour", s>>, n>>] = m]
  PROVE  Missing(s)' = Missing(s) \cup {<<n, m + 1>>} /\ <<n, m + 1>> \notin Missing(s)
<1> DEFINE h == <<"hour", s>>
           cap == BucketCap["hour"]
<1>1. cap \in Nat
  BY HourKeys
<1>2. \A i \in Generation : tokens'[<<h, i>>] = IF i = n THEN m ELSE tokens[<<h, i>>]
  <2> tokens' = [tokens EXCEPT ![<<h, n>>] = m]
    OBVIOUS
  <2> h \in BucketKey
    OBVIOUS
  <2> HIDE DEF h
  <2>1. \A l \in BucketKey, i \in Generation : tokens'[<<l, i>>] = IF l = h /\ i = n THEN m ELSE tokens[<<l, i>>]
    BY DEF GuardTyped, BucketsTyped
  <2> QED
    BY <2>1
<1>3. \A i \in Generation : tokens[<<h, i>>] \in 0 .. cap
  BY HourTokens
<1>4. Missing(s) = {ni \in Generation \X (1 .. cap) : ni[2] > tokens[<<h, ni[1]>>]}
  BY DEF Missing
<1>5. Missing(s)' = {ni \in Generation \X (1 .. cap) : ni[2] > tokens'[<<h, ni[1]>>]}
  BY DEF Missing
<1>6. tokens[<<h, n>>] = m + 1
  OBVIOUS
<1> HIDE DEF h, cap
<1>7. m + 1 \in 1 .. cap
  BY <1>1, <1>3, <1>6
<1>8. <<n, m + 1>> \notin Missing(s)
  BY <1>4, <1>6, <1>7
<1>9. ASSUME NEW i \in Generation, NEW j \in 1 .. cap
      PROVE  <<i, j>> \in Missing(s)' <=> <<i, j>> \in Missing(s) \cup {<<n, m + 1>>}
  <2>1. <<i, j>> \in Missing(s)' <=> j > tokens'[<<h, i>>]
    BY <1>5
  <2>2. <<i, j>> \in Missing(s) <=> j > tokens[<<h, i>>]
    BY <1>4
  <2>3. CASE i # n
    BY <1>2, <2>1, <2>2, <2>3
  <2>4. CASE i = n
    BY <1>2, <1>6, <1>7, <2>1, <2>2, <2>4
  <2> QED
    BY <2>3, <2>4
<1>10. Missing(s)' = Missing(s) \cup {<<n, m + 1>>}
  BY <1>4, <1>5, <1>7, <1>9
<1> QED
  BY <1>8, <1>10

LEMMA TokenGiven ==
  ASSUME GuardTyped, NEW n \in Generation, NEW m \in Nat, NEW s \in Sender, <<"hour", s>> \in BucketKey,
         tokens[<<<<"hour", s>>, n>>] = m, m + 1 \in 1 .. BucketCap["hour"],
         tokens' = [tokens EXCEPT ![<<<<"hour", s>>, n>>] = m + 1]
  PROVE  Missing(s)' = Missing(s) \ {<<n, m + 1>>} /\ <<n, m + 1>> \in Missing(s)
<1> DEFINE h == <<"hour", s>>
           cap == BucketCap["hour"]
           t == m + 1
<1>1. cap \in Nat /\ t \in 1 .. cap /\ t \in Nat
  BY HourKeys
<1>2. \A i \in Generation : tokens'[<<h, i>>] = IF i = n THEN t ELSE tokens[<<h, i>>]
  <2> tokens' = [tokens EXCEPT ![<<h, n>>] = t]
    OBVIOUS
  <2> h \in BucketKey
    OBVIOUS
  <2> HIDE DEF h, t
  <2>1. \A l \in BucketKey, i \in Generation : tokens'[<<l, i>>] = IF l = h /\ i = n THEN t ELSE tokens[<<l, i>>]
    BY <1>1 DEF GuardTyped, BucketsTyped
  <2> QED
    BY <2>1
<1>3. Missing(s) = {ni \in Generation \X (1 .. cap) : ni[2] > tokens[<<h, ni[1]>>]}
  BY DEF Missing
<1>4. Missing(s)' = {ni \in Generation \X (1 .. cap) : ni[2] > tokens'[<<h, ni[1]>>]}
  BY DEF Missing
<1>5. tokens[<<h, n>>] = m
  OBVIOUS
<1> HIDE DEF h, cap
<1>6. <<n, t>> \in Missing(s)
  BY <1>1, <1>3, <1>5
<1>7. ASSUME NEW i \in Generation, NEW j \in 1 .. cap
      PROVE  <<i, j>> \in Missing(s)' <=> <<i, j>> \in Missing(s) \ {<<n, t>>}
  <2>1. <<i, j>> \in Missing(s)' <=> j > tokens'[<<h, i>>]
    BY <1>4
  <2>2. <<i, j>> \in Missing(s) <=> j > tokens[<<h, i>>]
    BY <1>3
  <2>3. CASE i # n
    BY <1>2, <2>1, <2>2, <2>3
  <2>4. CASE i = n
    <3>1. tokens'[<<h, n>>] = t /\ j \in Nat
      BY <1>1, <1>2
    <3>2. <<i, j>> # <<n, t>> <=> j # t
      BY <2>4
    <3> QED
      BY <1>5, <2>1, <2>2, <2>4, <3>1, <3>2
  <2> QED
    BY <2>3, <2>4
<1>8. Missing(s)' = Missing(s) \ {<<n, t>>}
  BY <1>3, <1>4, <1>7
<1> QED
  BY <1>6, <1>8

LEMMA TakeBooked ==
  ASSUME GuardTyped, Booked, NEW r \in Request, Take(r)
  PROVE  Booked'
<1> DEFINE k == KeyOf(r)
           n == req[r].bucket
<1>1. ReqTyped /\ BucketsTyped /\ WindowsTyped
  BY DEF GuardTyped
<1>2. /\ k \in BucketKey /\ n \in Generation
      /\ UNCHANGED <<home, refills, evicted>>
      /\ \/ /\ tokens[<<k, n>>] \in 1 .. BucketCap[k[1]]
            /\ tokens' = [tokens EXCEPT ![<<k, n>>] = tokens[<<k, n>>] - 1]
            /\ spent' = IF k[1] = "hour" THEN [spent EXCEPT ![k[2]] = spent[k[2]] + 1] ELSE spent
            /\ Step(r, AfterTake(r))
         \/ UNCHANGED <<tokens, spent>> /\ Step(r, Idle)
  BY TakeIs
<1>3. PICK x \in Pair : req[r].pair = {x}
  BY <1>1, PairOf DEF Take, At
<1>4. k = KeyFor(req[r].stage, x)
  BY <1>1, <1>3, KeyIs DEF KeyFor
<1>5. n <= evicted[k] + 1
  BY <1>3, <1>4 DEF Take, At, Booked, Made
<1>6. req'[r].at # "take" /\ \A s \in Request \ {r} : req'[s] = req[s]
  <2>1. CASE Step(r, Idle)
    BY <1>1, <2>1, StepIs, IdleIs
  <2>2. CASE Step(r, AfterTake(r))
    <3>1. AfterTake(r).at # "take"
      <4>1. \E a \in {"look", "seen", "pair"} : \E p, g, i, b, d : AfterTake(r) = Rec(a, p, g, i, b, d)
        BY <1>1, AfterTakeIs
      <4> QED
        BY <4>1, RecFields
    <3> QED
      BY <1>1, <2>2, <3>1, StepIs
  <2> QED
    BY <1>2, <2>1, <2>2
<1> HIDE DEF k, n, Idle
<1>7. Made'
  BY <1>2, <1>6 DEF Booked, Made, KeyFor
<1>8. CASE UNCHANGED <<tokens, spent>>
  BY <1>2, <1>7, <1>8 DEF Booked, UnmadeFull, Balanced, Missing
<1>9. CASE /\ tokens[<<k, n>>] \in 1 .. BucketCap[k[1]]
           /\ tokens' = [tokens EXCEPT ![<<k, n>>] = tokens[<<k, n>>] - 1]
           /\ spent' = IF k[1] = "hour" THEN [spent EXCEPT ![k[2]] = spent[k[2]] + 1] ELSE spent
  <2> DEFINE m == tokens[<<k, n>>] - 1
  <2>1. m \in Nat /\ tokens[<<k, n>>] = m + 1 /\ tokens' = [tokens EXCEPT ![<<k, n>>] = m]
    BY <1>2, <1>9, KeyKinds
  <2> HIDE DEF m
  <2>2. \A l \in BucketKey, i \in Generation : tokens'[<<l, i>>] = IF l = k /\ i = n THEN m ELSE tokens[<<l, i>>]
    BY <1>1, <1>2, <2>1 DEF BucketsTyped
  <2>3. UnmadeFull'
    <3>1. \A l \in BucketKey : evicted[l] \in Nat
      BY <1>1, Bounds DEF BucketsTyped
    <3>2. n \in Nat
      BY <1>2, Bounds DEF Generation
    <3> QED
      BY <1>2, <1>5, <2>2, <3>1, <3>2 DEF Booked, UnmadeFull, Generation
  <2>4. Balanced'
    <3> SUFFICES ASSUME NEW s \in Sender PROVE spent'[s] = Cardinality(Missing(s)') + refills[<<"hour", s>>]
      BY <1>2 DEF Balanced, Missing
    <3>1. spent \in [Sender -> Nat] /\ refills[<<"hour", s>>] \in Nat
      BY <1>1, HourKeys, Bounds DEF BucketsTyped
    <3>2. spent[s] = Cardinality(Missing(s)) + refills[<<"hour", s>>]
      BY DEF Booked, Balanced
    <3>3. CASE k # <<"hour", s>>
      <4>1. Missing(s)' = Missing(s)
        BY <1>2, <2>1, <3>3, TokenElsewhere
      <4>2. k[1] = "hour" => k[2] # s
        BY <1>2, <3>3, HourKeys
      <4> QED
        BY <1>9, <3>1, <3>2, <4>1, <4>2
    <3>4. CASE k = <<"hour", s>>
      <4>1. Missing(s)' = Missing(s) \cup {<<n, m + 1>>} /\ <<n, m + 1>> \notin Missing(s)
        BY <1>2, <2>1, <3>4, TokenSpent
      <4>2. Cardinality(Missing(s)') = Cardinality(Missing(s)) + 1
        BY <4>1, MissingFinite, FS_AddElement
      <4>3. k[1] = "hour" /\ k[2] = s
        BY <3>4
      <4> QED
        BY <1>9, <3>1, <3>2, <4>2, <4>3, MissingFinite
    <3> QED
      BY <3>3, <3>4
  <2> QED
    BY <1>7, <2>3, <2>4 DEF Booked
<1> QED
  BY <1>2, <1>8, <1>9

LEMMA EvictBooked ==
  ASSUME GuardTyped, Booked, NEW k \in Crowded, Evict(k)
  PROVE  Booked'
<1>1. BucketsTyped
  BY DEF GuardTyped
<1>2. /\ k \in BucketKey
      /\ evicted' = [evicted EXCEPT ![k] = evicted[k] + 1] /\ home' = [home EXCEPT ![k] = 0]
      /\ UNCHANGED <<tokens, refills, spent>>
  BY <1>1, EvictIs
<1>3. UNCHANGED req
  BY DEF Evict
<1>4. \A l \in BucketKey : evicted[l] \in Nat /\ evicted'[l] \in Nat /\ evicted[l] <= evicted'[l] /\ home[l] \in Nat
  BY <1>1, <1>2, Bounds DEF BucketsTyped
<1>5. Made'
  <2>1. ASSUME NEW l \in BucketKey PROVE home'[l] <= evicted'[l] + 1
    BY <1>1, <1>2, <1>4 DEF Booked, Made, BucketsTyped
  <2>2. ASSUME NEW r \in Request, NEW p \in Pair, req[r].at = "take", req[r].pair = {p}
        PROVE  req[r].bucket <= evicted'[KeyFor(req[r].stage, p)] + 1
    <3>1. KeyFor(req[r].stage, p) \in BucketKey
      BY <2>2, KeyIs DEF GuardTyped, KeyFor
    <3>2. req[r].bucket \in Nat
      BY <2>2, PairOf, Bounds DEF GuardTyped
    <3>3. req[r].bucket <= evicted[KeyFor(req[r].stage, p)] + 1
      BY <2>2 DEF Booked, Made
    <3> QED
      BY <1>4, <3>1, <3>2, <3>3
  <2> QED
    BY <1>3, <2>1, <2>2 DEF Made, KeyFor
<1>6. UnmadeFull'
  BY <1>2, <1>4, Bounds DEF Booked, UnmadeFull, Generation
<1>7. Balanced'
  BY <1>2 DEF Booked, Balanced, Missing
<1> QED
  BY <1>5, <1>6, <1>7 DEF Booked

LEMMA RefillBooked ==
  ASSUME GuardTyped, Booked, NEW k \in Crowded, Refill(k)
  PROVE  Booked'
<1>1. BucketsTyped
  BY DEF GuardTyped
<1>2. /\ k \in BucketKey
      /\ refills' = [refills EXCEPT ![k] = refills[k] + 1]
      /\ UNCHANGED <<home, evicted, spent>>
  BY <1>1, RefillIs
<1>3. PICK n \in Generation :
        /\ tokens[<<k, n>>] + 1 \in 1 .. BucketCap[k[1]]
        /\ tokens' = [tokens EXCEPT ![<<k, n>>] = tokens[<<k, n>>] + 1]
  BY <1>1, RefillIs
<1>4. UNCHANGED req
  BY DEF Refill
<1>5. Made'
  BY <1>2, <1>4 DEF Booked, Made, KeyFor
<1> DEFINE m == tokens[<<k, n>>] + 1
<1>6. m \in Nat /\ m = tokens[<<k, n>>] + 1 /\ tokens' = [tokens EXCEPT ![<<k, n>>] = m]
  BY <1>2, <1>3, KeyKinds
<1>7. tokens[<<k, n>>] \in Nat /\ tokens[<<k, n>>] # BucketCap[k[1]]
  BY <1>1, <1>2, <1>3, KeyKinds DEF BucketsTyped
<1> HIDE DEF m
<1>8. \A l \in BucketKey, i \in Generation : tokens'[<<l, i>>] = IF l = k /\ i = n THEN m ELSE tokens[<<l, i>>]
  BY <1>1, <1>2, <1>6 DEF BucketsTyped
<1>9. UnmadeFull'
  BY <1>2, <1>7, <1>8 DEF Booked, UnmadeFull
<1>10. Balanced'
  <2> SUFFICES ASSUME NEW s \in Sender PROVE spent[s] = Cardinality(Missing(s)') + refills'[<<"hour", s>>]
    BY <1>2 DEF Balanced, Missing
  <2>1. refills \in [BucketKey -> Nat] /\ <<"hour", s>> \in BucketKey
    BY <1>1, HourKeys, Bounds DEF BucketsTyped
  <2>2. spent[s] = Cardinality(Missing(s)) + refills[<<"hour", s>>]
    BY DEF Booked, Balanced
  <2>3. CASE k # <<"hour", s>>
    <3>1. Missing(s)' = Missing(s)
      BY <1>2, <1>6, <2>3, TokenElsewhere
    <3> QED
      BY <1>2, <2>1, <2>2, <2>3, <3>1
  <2>4. CASE k = <<"hour", s>>
    <3>1. Missing(s)' = Missing(s) \ {<<n, m>>} /\ <<n, m>> \in Missing(s)
      <4>1. BucketCap[k[1]] = BucketCap["hour"]
        BY <2>4
      <4> QED
        BY <1>3, <1>6, <1>7, <2>1, <2>4, <4>1, TokenGiven
    <3>2. Cardinality(Missing(s)') = Cardinality(Missing(s)) - 1
      BY <3>1, MissingFinite, FS_RemoveElement
    <3>3. refills'[<<"hour", s>>] = refills[<<"hour", s>>] + 1 /\ refills[<<"hour", s>>] \in Nat
      BY <1>2, <2>1, <2>4
    <3> QED
      BY <2>2, <3>2, <3>3, MissingFinite
  <2> QED
    BY <2>3, <2>4
<1> QED
  BY <1>5, <1>9, <1>10 DEF Booked

LEMMA BookedInit == Init => Booked
<1> SUFFICES ASSUME Init PROVE Booked
  OBVIOUS
<1>1. Made
  BY IdleIs DEF Init, Made
<1>2. UnmadeFull
  BY DEF Init, UnmadeFull
<1>3. ASSUME NEW s \in Sender PROVE Missing(s) = {} /\ spent[s] = 0 /\ refills[<<"hour", s>>] = 0
  <2>1. \A n \in Generation : tokens[<<<<"hour", s>>, n>>] = BucketCap["hour"]
    BY HourKeys DEF Init
  <2> QED
    BY <2>1, HourKeys DEF Missing, Init
<1>4. Balanced
  <2>1. Cardinality({}) = 0
    BY FS_EmptySet
  <2>2. ASSUME NEW s \in Sender PROVE spent[s] = Cardinality(Missing(s)) + refills[<<"hour", s>>]
    BY <1>3, <2>1
  <2> QED
    BY <2>2 DEF Balanced
<1> QED
  BY <1>1, <1>2, <1>4 DEF Booked

LEMMA BookedNext == GuardTyped /\ Booked /\ [Next]_vars => Booked'
<1> SUFFICES ASSUME GuardTyped, Booked, [Next]_vars PROVE Booked'
  OBVIOUS
<1>1. ASSUME NEW r \in Request,
             \/ \E p \in Pair : Arrive(r, p)
             \/ QueryBlocked(r) \/ KeepBlocked(r) \/ HasSeenToday(r) \/ AllowDistinct(r) \/ AllowPair(r)
      PROVE  Booked'
  <2>1. \A s \in Request : req'[s] = req[s] \/ req'[s].at # "take"
    BY <1>1, GoesAway
  <2>2. UNCHANGED bucketVars
    BY <1>1 DEF Arrive, QueryBlocked, KeepBlocked, HasSeenToday, AllowDistinct, AllowPair
  <2> QED
    BY <2>1, <2>2, BooksStill
<1>2. ASSUME NEW r \in Request, Look(r) \/ Make(r) \/ Take(r) PROVE Booked'
  BY <1>2, LookBooked, MakeBooked, TakeBooked
<1>3. ASSUME NEW k \in Crowded, Evict(k) \/ Refill(k) PROVE Booked'
  BY <1>3, EvictBooked, RefillBooked
<1>4. ASSUME NEW t \in Reported, ReportAbuse(t) PROVE Booked'
  BY <1>4, BooksStill DEF ReportAbuse
<1>b. ASSUME NEW p \in Pair, Block(p) PROVE Booked'
  BY <1>b, BooksStill DEF Block
<1>5. ASSUME NEW p \in Pair, SweepExpiredBlocks(p) PROVE Booked'
  BY <1>5, BooksStill DEF SweepExpiredBlocks
<1>6. CASE Midnight
  BY <1>6, BooksStill DEF Midnight
<1>7. CASE UNCHANGED vars
  BY <1>7, BooksStill DEF vars
<1> QED
  BY <1>1, <1>2, <1>3, <1>4, <1>b, <1>5, <1>6, <1>7 DEF Next

\* Only the buckets made so far can miss tokens.
LEMMA BookedIsLimit == GuardTyped /\ Booked => HourlyLimit
<1> SUFFICES ASSUME GuardTyped, Booked, NEW s \in Sender
             PROVE  spent[s] <= BucketCap["hour"] * (1 + evicted[<<"hour", s>>]) + refills[<<"hour", s>>]
  BY DEF HourlyLimit
<1> DEFINE k == <<"hour", s>>
           cap == BucketCap["hour"]
           gens == 1 .. (1 + evicted[k])
<1>1. /\ k \in BucketKey /\ cap \in Nat /\ BucketCap[k[1]] = cap
      /\ evicted[k] \in Nat /\ refills[k] \in Nat
  BY HourKeys, Bounds DEF GuardTyped, BucketsTyped
<1>2. Missing(s) \in SUBSET (gens \X (1 .. cap))
  <2> SUFFICES ASSUME NEW n \in Generation, NEW i \in 1 .. cap, i > tokens[<<k, n>>] PROVE n \in gens
    BY DEF Missing
  <2>1. n > evicted[k] + 1 => tokens[<<k, n>>] = cap
    BY <1>1 DEF Booked, UnmadeFull
  <2> QED
    BY <1>1, <2>1, Bounds DEF Generation
<1>3. /\ IsFiniteSet(gens) /\ Cardinality(gens) = 1 + evicted[k]
      /\ IsFiniteSet(1 .. cap) /\ Cardinality(1 .. cap) = cap
  <2> DEFINE g == 1 + evicted[k]
  <2>1. g \in Nat /\ g >= 1
    BY <1>1
  <2>2. cap \in Nat
    BY <1>1
  <2> HIDE DEF k, cap, g
  <2>3. \A c \in Nat : IsFiniteSet(1 .. c) /\ Cardinality(1 .. c) = c
    BY FS_Interval
  <2> QED
    BY <2>1, <2>2, <2>3 DEF g
<1>4. IsFiniteSet(gens \X (1 .. cap)) /\ Cardinality(gens \X (1 .. cap)) = (1 + evicted[k]) * cap
  <2> HIDE DEF gens, cap
  <2> QED
    BY <1>3, FS_Product
<1>5. Cardinality(Missing(s)) <= (1 + evicted[k]) * cap
  <2> HIDE DEF gens, cap, k
  <2> QED
    BY <1>2, <1>4, FS_Subset
<1>6. spent[s] = Cardinality(Missing(s)) + refills[k]
  BY DEF Booked, Balanced
<1>7. (1 + evicted[k]) * cap = cap * (1 + evicted[k]) /\ (1 + evicted[k]) * cap \in Nat
  <2> HIDE DEF k, cap
  <2> QED
    BY <1>1
<1> QED
  BY <1>1, <1>5, <1>6, <1>7, MissingFinite

\* However the requests of a sender overlap, and whatever is evicted under them,
\* a sender spends no more hourly tokens than the buckets made for it held and
\* time has given (boundedMap.LoadOrStore, TokenBucket.Allow).
THEOREM HourlyLimitHolds == Spec => []HourlyLimit
  BY TypedHolds, BookedInit, BookedNext, BookedIsLimit, PTL DEF Spec

-------------------------------------------------------------------------------
(* The cap on group handles.  A handle that is reached in the window, or   *)
(* that a request is past the count for in the window, is charged: each    *)
(* charged handle has taken a slot of its sender's distinct handles.       *)

Charged(s) ==
  {t \in GroupTarget :
     /\ <<<<s, t>>, 0>> \notin FalsePositive
     /\ <<s, t>> \notin overtaken
     /\ \/ slots[<<s, t>>] # {}
        \/ \E r \in Request : req[r].at = "pair" /\ req[r].pair = {<<s, t>>} /\ req[r].since = window}

Charges ==
  /\ \A r \in Request : req[r].since <= window
  /\ \A s \in Sender :
       IsFiniteSet(Charged(s)) /\ Cardinality(Charged(s)) <= Cardinality(slots[<<s, Distinct>>])

\* What the window a step works in has charged: nothing, if it is a new one.
ChargedIn(w, s) == IF w = window THEN Charged(s) ELSE {}

LEMMA SlotsFinite ==
  ASSUME WindowsTyped, NEW s \in Sender
  PROVE  /\ <<s, Distinct>> \in Counted
         /\ IsFiniteSet(slots[<<s, Distinct>>])
         /\ Cardinality(slots[<<s, Distinct>>]) \in Nat
         /\ Cardinality(slots[<<s, Distinct>>]) <= DistinctCap
<1>1. <<s, Distinct>> \in Counted /\ Limit(<<s, Distinct>>) = DistinctCap
  BY DEF Counted, Limit
<1>2. slots[<<s, Distinct>>] \in SUBSET (0 .. DistinctCap - 1)
  BY <1>1 DEF WindowsTyped
<1>3. DistinctCap \in Nat
  BY GuardAssumption
<1>4. IsFiniteSet(0 .. DistinctCap - 1) /\ Cardinality(0 .. DistinctCap - 1) = DistinctCap
  <2>1. \A c \in Nat : IsFiniteSet(0 .. c - 1) /\ Cardinality(0 .. c - 1) = c
    BY FS_Interval
  <2> QED
    BY <1>3, <2>1
<1> QED
  BY <1>1, <1>2, <1>4, FS_Subset, FS_CardinalityType

\* The cap holds where every handle that counts has its slot.
LEMMA ChargesCap == GuardTyped /\ Charges => SprayCapped
<1> SUFFICES ASSUME GuardTyped, Charges, NEW s \in Sender
             PROVE  Cardinality({t \in GroupTarget : slots[<<s, t>>] # {}}
                                \ {t \in GroupTarget : <<<<s, t>>, 0>> \in FalsePositive \/ <<s, t>> \in overtaken})
                      <= DistinctCap
  BY DEF SprayCapped
<1> DEFINE counted == {t \in GroupTarget : slots[<<s, t>>] # {}}
                      \ {t \in GroupTarget : <<<<s, t>>, 0>> \in FalsePositive \/ <<s, t>> \in overtaken}
<1>1. counted \in SUBSET Charged(s)
  BY DEF Charged
<1>2. IsFiniteSet(Charged(s)) /\ Cardinality(Charged(s)) <= Cardinality(slots[<<s, Distinct>>])
  BY DEF Charges
<1>3. Cardinality(slots[<<s, Distinct>>]) \in Nat /\ Cardinality(slots[<<s, Distinct>>]) <= DistinctCap
  BY SlotsFinite DEF GuardTyped
<1>4. DistinctCap \in Nat
  BY GuardAssumption
<1> HIDE DEF counted
<1>5. IsFiniteSet(counted) /\ Cardinality(counted) <= Cardinality(Charged(s))
  BY <1>1, <1>2, FS_Subset
<1>6. Cardinality(counted) \in Nat /\ Cardinality(Charged(s)) \in Nat
  BY <1>2, <1>5, FS_CardinalityType
<1> QED
  BY <1>2, <1>3, <1>4, <1>5, <1>6 DEF counted

\* Nothing more is charged, or one handle for one slot.
LEMMA NoneMore ==
  ASSUME NEW A, NEW B, NEW C, NEW D, IsFiniteSet(A), IsFiniteSet(D),
         Cardinality(A) <= Cardinality(C), C \subseteq D, B \subseteq A
  PROVE  IsFiniteSet(B) /\ Cardinality(B) <= Cardinality(D)
<1>1. IsFiniteSet(B) /\ Cardinality(B) <= Cardinality(A)
  BY FS_Subset
<1>2. IsFiniteSet(C) /\ Cardinality(C) <= Cardinality(D)
  BY FS_Subset
<1>3. Cardinality(A) \in Nat /\ Cardinality(B) \in Nat /\ Cardinality(C) \in Nat /\ Cardinality(D) \in Nat
  BY <1>1, <1>2, FS_CardinalityType
<1> QED
  BY <1>1, <1>2, <1>3

LEMMA OneMore ==
  ASSUME NEW A, NEW B, NEW C, NEW D, NEW t, NEW k, IsFiniteSet(A), IsFiniteSet(C),
         Cardinality(A) <= Cardinality(C), D = C \cup {k}, k \notin C, B \subseteq A \cup {t}
  PROVE  IsFiniteSet(B) /\ Cardinality(B) <= Cardinality(D)
<1> DEFINE E == A \cup {t}
<1>1. IsFiniteSet(E) /\ Cardinality(E) \in {Cardinality(A), Cardinality(A) + 1}
  BY FS_AddElement
<1>2. Cardinality(D) = Cardinality(C) + 1
  BY FS_AddElement
<1> HIDE DEF E
<1>3. IsFiniteSet(B) /\ Cardinality(B) <= Cardinality(E)
  BY <1>1, FS_Subset DEF E
<1>4. Cardinality(A) \in Nat /\ Cardinality(B) \in Nat /\ Cardinality(C) \in Nat
  BY <1>3, FS_CardinalityType
<1> QED
  BY <1>1, <1>2, <1>3, <1>4

\* A new window has nothing charged and no slot taken.
LEMMA WindowOpens ==
  ASSUME GuardTyped, Charges, NEW w \in {window, day}, NEW s \in Sender
  PROVE  /\ IsFiniteSet(ChargedIn(w, s)) /\ IsFiniteSet(SlotsIn(w)[<<s, Distinct>>])
         /\ Cardinality(ChargedIn(w, s)) <= Cardinality(SlotsIn(w)[<<s, Distinct>>])
         /\ w \in Nat /\ window \in Nat /\ window <= w
<1>1. WindowsTyped
  BY DEF GuardTyped
<1>2. w \in Nat /\ window \in Nat /\ window <= w
  BY <1>1, Bounds DEF WindowsTyped
<1>3. CASE w = window
  BY <1>1, <1>2, <1>3, SlotsFinite DEF ChargedIn, SlotsIn, Charges
<1>4. CASE w # window
  <2>1. ChargedIn(w, s) = {} /\ SlotsIn(w)[<<s, Distinct>>] = {}
    BY <1>1, <1>4, SlotsFinite DEF ChargedIn, SlotsIn
  <2>2. IsFiniteSet({}) /\ Cardinality({}) = 0
    BY FS_EmptySet
  <2> QED
    BY <1>2, <2>1, <2>2
<1> QED
  BY <1>3, <1>4

\* Where what a step leaves charged comes from.
LEMMA ChargedAfter ==
  ASSUME GuardTyped, Charges, NEW r \in Request, NEW s \in Sender, NEW t \in Charged(s)',
         NEW w \in {window, day}, window' = w, \A q \in Request \ {r} : req'[q] = req[q],
         OvertakenIn(w) \subseteq overtaken'
  PROVE  /\ t \in GroupTarget /\ <<<<s, t>>, 0>> \notin FalsePositive /\ <<s, t>> \notin overtaken'
         /\ \/ t \in ChargedIn(w, s)
            \/ slots'[<<s, t>>] # {} /\ SlotsIn(w)[<<s, t>>] = {}
            \/ req'[r].at = "pair" /\ req'[r].pair = {<<s, t>>} /\ req'[r].since = w
<1>1. /\ t \in GroupTarget /\ <<<<s, t>>, 0>> \notin FalsePositive /\ <<s, t>> \notin overtaken'
      /\ \/ slots'[<<s, t>>] # {}
         \/ \E q \in Request : req'[q].at = "pair" /\ req'[q].pair = {<<s, t>>} /\ req'[q].since = w
  BY DEF Charged
<1>2. w \in Nat /\ window \in Nat /\ window <= w
  BY WindowOpens
<1>3. ASSUME slots'[<<s, t>>] # {}, SlotsIn(w)[<<s, t>>] # {}
      PROVE  t \in ChargedIn(w, s)
  <2>1. <<s, t>> \in Counted
    BY <1>1, GuardAssumption DEF Counted
  <2>2. w = window
    BY <1>3, <2>1 DEF SlotsIn
  <2> QED
    BY <1>1, <1>3, <2>2 DEF SlotsIn, OvertakenIn, ChargedIn, Charged
<1>4. ASSUME NEW q \in Request, req'[q].at = "pair", req'[q].pair = {<<s, t>>}, req'[q].since = w, q # r
      PROVE  t \in ChargedIn(w, s)
  <2>1. req[q].at = "pair" /\ req[q].pair = {<<s, t>>} /\ req[q].since = w /\ req[q].since <= window
    BY <1>4 DEF Charges
  <2>2. w = window
    BY <1>2, <2>1
  <2> QED
    BY <1>1, <2>1, <2>2 DEF OvertakenIn, ChargedIn, Charged
<1> QED
  BY <1>1, <1>3, <1>4

\* Steps that leave the window, and bring no group handle past the count.
LEMMA ChargesStill ==
  ASSUME GuardTyped, Charges, UNCHANGED windowVars,
         \A r \in Request :
           \/ req'[r] = req[r]
           \/ /\ req'[r].since <= window
              /\ req'[r].at = "pair" => \A p \in req'[r].pair : p[2] \notin GroupTarget
  PROVE  Charges'
<1>1. UNCHANGED <<window, slots, overtaken>>
  BY DEF windowVars
<1>2. \A r \in Request : req'[r].since <= window'
  BY <1>1 DEF Charges
<1>3. ASSUME NEW s \in Sender PROVE Charged(s)' \subseteq Charged(s)
  <2> SUFFICES ASSUME NEW t \in Charged(s)', slots[<<s, t>>] = {} PROVE t \in Charged(s)
    BY <1>1 DEF Charged
  <2>1. t \in GroupTarget /\ <<<<s, t>>, 0>> \notin FalsePositive /\ <<s, t>> \notin overtaken
    BY <1>1 DEF Charged
  <2>2. PICK r \in Request : req'[r].at = "pair" /\ req'[r].pair = {<<s, t>>} /\ req'[r].since = window
    BY <1>1 DEF Charged
  <2>3. req'[r] = req[r]
    BY <2>1, <2>2
  <2> QED
    BY <2>1, <2>2, <2>3 DEF Charged
<1>4. ASSUME NEW s \in Sender
      PROVE  IsFiniteSet(Charged(s)') /\ Cardinality(Charged(s)') <= Cardinality(slots'[<<s, Distinct>>])
  <2>1. IsFiniteSet(Charged(s)) /\ Cardinality(Charged(s)) <= Cardinality(slots[<<s, Distinct>>])
    BY DEF Charges
  <2>2. IsFiniteSet(slots[<<s, Distinct>>])
    BY SlotsFinite DEF GuardTyped
  <2> QED
    BY <1>1, <1>3, <2>1, <2>2, NoneMore
<1> QED
  BY <1>2, <1>4 DEF Charges

\* What the steps outside the window make of a request.
LEMMA QuietSteps ==
  ASSUME GuardTyped, NEW r \in Request,
         \/ \E p \in Pair : Arrive(r, p)
         \/ QueryBlocked(r) \/ KeepBlocked(r) \/ Look(r) \/ Make(r) \/ Take(r)
  PROVE  /\ req'[r].since \in {0, req[r].since, window}
         /\ req'[r].at = "pair" => \A p \in req'[r].pair : p[2] \notin GroupTarget
         /\ \A s \in Request \ {r} : req'[s] = req[s]
<1> DEFINE q == req[r]
           Quiet == /\ req'[r].since \in {0, q.since, window}
                    /\ req'[r].at = "pair" => \A p \in req'[r].pair : p[2] \notin GroupTarget
                    /\ \A s \in Request \ {r} : req'[s] = req[s]
<1> SUFFICES Quiet
  OBVIOUS
<1>1. ReqTyped /\ BucketsTyped /\ WindowsTyped
  BY DEF GuardTyped
<1>2. ASSUME NEW a, NEW p, NEW g, NEW n, NEW b, NEW d, d \in {0, q.since, window},
             a = "pair" => \A x \in p : x[2] \notin GroupTarget, Step(r, Rec(a, p, g, n, b, d))
      PROVE  Quiet
  <2>1. req'[r] = Rec(a, p, g, n, b, d) /\ \A s \in Request \ {r} : req'[s] = req[s]
    BY <1>1, <1>2, StepIs
  <2> QED
    BY <1>2, <2>1, RecFields
<1>3. ASSUME Step(r, Idle) PROVE Quiet
  BY <1>1, <1>3, StepIs, IdleIs
<1> HIDE DEF Quiet, q, Idle
<1>4. CASE \E p \in Pair : Arrive(r, p)
  <2>1. \E a \in {"look", "block"} : \E p : Step(r, Rec(a, p, "hour", 0, FALSE, 0))
    BY <1>4, ArriveMoves
  <2> QED
    BY <1>2, <2>1
<1>5. CASE QueryBlocked(r)
  <2>1. \E a \in {"keep", "look"} : \E b : Step(r, Rec(a, q.pair, q.stage, q.bucket, b, q.since))
    BY <1>1, <1>5, QueryMoves DEF q
  <2> QED
    BY <1>2, <2>1
<1>6. CASE KeepBlocked(r)
  <2>1. Step(r, Idle) \/ Step(r, Rec("look", q.pair, q.stage, q.bucket, q.blocked, q.since))
    BY <1>1, <1>6, KeepMoves DEF q
  <2> QED
    BY <1>2, <1>3, <2>1
<1>7. CASE Look(r)
  <2>1. \E a \in {"take", "make"} : \E n : Step(r, Rec(a, q.pair, q.stage, n, q.blocked, q.since))
    BY <1>1, <1>7, LookMoves DEF q
  <2> QED
    BY <1>2, <2>1
<1>8. CASE Make(r)
  <2>1. \E n : Step(r, Rec("take", q.pair, q.stage, n, q.blocked, q.since))
    BY <1>1, <1>8, MakeMoves DEF q
  <2> QED
    BY <1>2, <2>1
<1>9. CASE Take(r)
  <2>1. Step(r, Idle) \/ Step(r, AfterTake(r))
    BY <1>9, TakeIs
  <2>2. \/ \E g : AfterTake(r) = Rec("look", q.pair, g, 0, q.blocked, q.since)
        \/ \E a \in {"seen", "pair"} :
             /\ AfterTake(r) = Rec(a, q.pair, q.stage, 0, q.blocked, window)
             /\ (\E p \in q.pair : p[2] \in GroupTarget) => a = "seen"
    BY <1>1, AfterTakeIs DEF q
  <2>3. CASE Step(r, Idle)
    BY <1>3, <2>3
  <2>4. ASSUME NEW g, AfterTake(r) = Rec("look", q.pair, g, 0, q.blocked, q.since), Step(r, AfterTake(r)) PROVE Quiet
    BY <1>2, <2>4
  <2>5. ASSUME NEW a \in {"seen", "pair"}, AfterTake(r) = Rec(a, q.pair, q.stage, 0, q.blocked, window),
               (\E p \in q.pair : p[2] \in GroupTarget) => a = "seen", Step(r, AfterTake(r))
        PROVE  Quiet
    <3>1. a = "pair" => \A x \in q.pair : x[2] \notin GroupTarget
      BY <2>5
    <3>2. Step(r, Rec(a, q.pair, q.stage, 0, q.blocked, window))
      BY <2>5
    <3> QED
      BY <1>2, <3>1, <3>2
  <2> QED
    BY <2>1, <2>2, <2>3, <2>4, <2>5
<1> QED
  BY <1>4, <1>5, <1>6, <1>7, <1>8, <1>9

LEMMA QuietCharges ==
  ASSUME GuardTyped, Charges, NEW r \in Request,
         \/ \E p \in Pair : Arrive(r, p)
         \/ QueryBlocked(r) \/ KeepBlocked(r) \/ Look(r) \/ Make(r) \/ Take(r)
  PROVE  Charges'
<1>1. /\ req'[r].since \in {0, req[r].since, window}
      /\ req'[r].at = "pair" => \A p \in req'[r].pair : p[2] \notin GroupTarget
      /\ \A s \in Request \ {r} : req'[s] = req[s]
  BY QuietSteps
<1>2. window \in Nat /\ req[r].since <= window
  BY Bounds DEF GuardTyped, WindowsTyped, Charges
<1>3. req'[r].since <= window
  BY <1>1, <1>2
<1>4. UNCHANGED windowVars
  BY DEF Arrive, QueryBlocked, KeepBlocked, Look, Make, Take
<1> QED
  BY <1>1, <1>3, <1>4, ChargesStill

\* What a step in the window has to show of what it charges.
LEMMA WindowStep ==
  ASSUME GuardTyped, Charges, NEW r \in Request, NEW w \in {window, day}, window' = w,
         \A q \in Request \ {r} : req'[q] = req[q], req'[r].since <= w,
         \A s \in Sender :
           \/ /\ Charged(s)' \subseteq ChargedIn(w, s)
              /\ SlotsIn(w)[<<s, Distinct>>] \subseteq slots'[<<s, Distinct>>]
              /\ IsFiniteSet(slots'[<<s, Distinct>>])
           \/ \E t, k : /\ Charged(s)' \subseteq ChargedIn(w, s) \cup {t}
                        /\ slots'[<<s, Distinct>>] = SlotsIn(w)[<<s, Distinct>>] \cup {k}
                        /\ k \notin SlotsIn(w)[<<s, Distinct>>]
  PROVE  Charges'
<1>1. ASSUME NEW q \in Request PROVE req'[q].since <= window'
  <2>1. CASE q = r
    BY <2>1
  <2>2. CASE q # r
    <3>1. WindowsTyped /\ ReqTyped /\ req[q].since <= window /\ req'[q] = req[q]
      BY <2>2 DEF GuardTyped, Charges
    <3>2. req[q].since \in Nat /\ window \in Nat /\ w \in Nat /\ window <= w
      BY <3>1, Standing, Fields, Bounds DEF WindowsTyped
    <3> QED
      BY <3>1, <3>2
  <2> QED
    BY <2>1, <2>2
<1>2. ASSUME NEW s \in Sender
      PROVE  IsFiniteSet(Charged(s)') /\ Cardinality(Charged(s)') <= Cardinality(slots'[<<s, Distinct>>])
  <2> DEFINE A == ChargedIn(w, s)
             B == Charged(s)'
             C == SlotsIn(w)[<<s, Distinct>>]
             D == slots'[<<s, Distinct>>]
  <2>1. IsFiniteSet(A) /\ IsFiniteSet(C) /\ Cardinality(A) <= Cardinality(C)
    BY WindowOpens
  <2>2. \/ B \subseteq A /\ C \subseteq D /\ IsFiniteSet(D)
        \/ \E t, k : B \subseteq A \cup {t} /\ D = C \cup {k} /\ k \notin C
    OBVIOUS
  <2> HIDE DEF A, B, C, D
  <2>3. IsFiniteSet(B) /\ Cardinality(B) <= Cardinality(D)
    <3>1. CASE B \subseteq A /\ C \subseteq D /\ IsFiniteSet(D)
      BY <2>1, <3>1, NoneMore, Zenon
    <3>2. ASSUME NEW t, NEW k, B \subseteq A \cup {t}, D = C \cup {k}, k \notin C
          PROVE  IsFiniteSet(B) /\ Cardinality(B) <= Cardinality(D)
      BY <2>1, <3>2, OneMore, Zenon
    <3> QED
      BY <2>2, <3>1, <3>2, Zenon
  <2> QED
    BY <2>3 DEF B, D
<1> QED
  BY <1>1, <1>2 DEF Charges

\* A handle that has been seen in the window is charged already.
LEMMA SeenCharges ==
  ASSUME GuardTyped, Charges, NEW r \in Request, HasSeenToday(r)
  PROVE  Charges'
<1>1. ReqTyped /\ WindowsTyped
  BY DEF GuardTyped
<1>2. PICK x \in Pair : req[r].pair = {x}
  BY <1>1, PairOf DEF HasSeenToday, At
<1>3. PICK w \in {window, day} :
        /\ window' = w /\ slots' = SlotsIn(w) /\ overtaken' = OvertakenIn(w)
        /\ Step(r, Rec(IF Contains(w, x, 0) THEN "pair" ELSE "distinct", {x}, req[r].stage,
                       req[r].bucket, req[r].blocked, w))
  BY <1>1, <1>2, SeenMoves
<1> DEFINE a == IF Contains(w, x, 0) THEN "pair" ELSE "distinct"
<1>4. req'[r] = Rec(a, {x}, req[r].stage, req[r].bucket, req[r].blocked, w) /\ \A q \in Request \ {r} : req'[q] = req[q]
  BY <1>1, <1>3, StepIs
<1>5. req'[r].at = a /\ req'[r].pair = {x} /\ req'[r].since = w
  BY <1>4, RecFields
<1>6. w \in Nat
  BY <1>1, Bounds DEF WindowsTyped
<1>7. ASSUME NEW s \in Sender, NEW t \in Charged(s)' PROVE t \in ChargedIn(w, s)
  <2>1. /\ t \in GroupTarget /\ <<<<s, t>>, 0>> \notin FalsePositive /\ <<s, t>> \notin overtaken'
        /\ \/ t \in ChargedIn(w, s)
           \/ slots'[<<s, t>>] # {} /\ SlotsIn(w)[<<s, t>>] = {}
           \/ req'[r].at = "pair" /\ req'[r].pair = {<<s, t>>} /\ req'[r].since = w
    BY <1>3, <1>4, <1>7, ChargedAfter
  <2>2. ASSUME req'[r].at = "pair", req'[r].pair = {<<s, t>>} PROVE t \in ChargedIn(w, s)
    <3>1. x = <<s, t>> /\ Contains(w, x, 0)
      BY <1>5, <2>2
    <3>2. 0 \in SlotsIn(w)[<<s, t>>]
      BY <2>1, <3>1 DEF Contains
    <3>3. <<s, t>> \in Counted
      BY <1>2, <3>1, LimitIs
    <3>4. w = window
      BY <3>2, <3>3 DEF SlotsIn
    <3>5. slots[<<s, t>>] # {} /\ overtaken' = overtaken
      BY <1>3, <3>2, <3>4 DEF SlotsIn, OvertakenIn
    <3> QED
      BY <2>1, <3>4, <3>5 DEF Charged, ChargedIn
  <2> QED
    BY <1>3, <2>1, <2>2
<1>8. \A s \in Sender : SlotsIn(w)[<<s, Distinct>>] \subseteq slots'[<<s, Distinct>>] /\ IsFiniteSet(slots'[<<s, Distinct>>])
  BY <1>3, WindowOpens
<1>9. req'[r].since <= w
  BY <1>5, <1>6
<1> QED
  BY <1>3, <1>4, <1>7, <1>8, <1>9, WindowStep

\* The count takes a slot of its own for the handle it lets past.
LEMMA DistinctCharges ==
  ASSUME GuardTyped, Charges, NEW r \in Request, AllowDistinct(r)
  PROVE  Charges'
<1>1. ReqTyped /\ WindowsTyped
  BY DEF GuardTyped
<1>2. PICK x \in Pair : req[r].pair = {x}
  BY <1>1, PairOf DEF AllowDistinct, At
<1> DEFINE d == <<x[1], Distinct>>
<1>3. PICK w \in {window, day} :
        /\ window' = w /\ overtaken' = OvertakenIn(w)
        /\ \/ /\ Free(w, d) # {} /\ slots' = Added(w, d)
              /\ Step(r, Rec("pair", {x}, req[r].stage, req[r].bucket, req[r].blocked, w))
           \/ slots' = SlotsIn(w) /\ Step(r, Idle)
  BY <1>1, <1>2, DistinctMoves
<1>4. w \in Nat /\ d \in Counted
  BY <1>1, <1>2, Bounds, LimitIs DEF WindowsTyped
<1>5. \A q \in Request \ {r} : req'[q] = req[q]
  BY <1>1, <1>3, StepIs
<1>6. ASSUME NEW s \in Sender, NEW t \in GroupTarget PROVE <<s, t>> # d
  BY GuardAssumption, KeysAssumption
<1>7. \A s \in Sender : IsFiniteSet(SlotsIn(w)[<<s, Distinct>>])
  BY WindowOpens
<1>8. \A s \in Sender : s # x[1] => <<s, Distinct>> # d
  OBVIOUS
<1>9. \A s \in Sender : s = x[1] => <<s, Distinct>> = d
  OBVIOUS
<1>10. \A s \in Sender : <<s, Distinct>> \in Counted
  BY DEF Counted
<1> HIDE DEF d
<1>11. CASE slots' = SlotsIn(w) /\ Step(r, Idle)
  <2>1. req'[r] = Idle
    BY <1>1, <1>11, StepIs
  <2>2. req'[r].at # "pair" /\ req'[r].since <= w
    BY <1>4, <2>1, IdleIs
  <2>3. ASSUME NEW s \in Sender, NEW t \in Charged(s)' PROVE t \in ChargedIn(w, s)
    BY <1>3, <1>5, <1>11, <2>2, <2>3, ChargedAfter
  <2> QED
    BY <1>3, <1>5, <1>7, <1>11, <2>2, <2>3, WindowStep
<1>12. CASE /\ Free(w, d) # {} /\ slots' = Added(w, d)
            /\ Step(r, Rec("pair", {x}, req[r].stage, req[r].bucket, req[r].blocked, w))
  <2>1. req'[r] = Rec("pair", {x}, req[r].stage, req[r].bucket, req[r].blocked, w)
    BY <1>1, <1>12, StepIs
  <2>2. req'[r].pair = {x} /\ req'[r].since = w /\ req'[r].since <= w
    BY <1>4, <2>1, RecFields
  <2>3. PICK k : k \notin SlotsIn(w)[d] /\ slots' = [SlotsIn(w) EXCEPT ![d] = SlotsIn(w)[d] \cup {k}]
    BY <1>1, <1>4, <1>12, AddedIs
  <2>4. SlotsIn(w) \in [Counted -> SUBSET Nat]
    BY <1>1, TurnTyped
  <2>5. \A y \in Counted : y # d => slots'[y] = SlotsIn(w)[y]
    BY <2>3, <2>4
  <2>6. slots'[d] = SlotsIn(w)[d] \cup {k}
    BY <1>4, <2>3, <2>4
  <2>7. ASSUME NEW s \in Sender, NEW t \in Charged(s)' PROVE t \in ChargedIn(w, s) \/ <<s, t>> = x
    <3>1. /\ t \in GroupTarget
          /\ \/ t \in ChargedIn(w, s)
             \/ slots'[<<s, t>>] # {} /\ SlotsIn(w)[<<s, t>>] = {}
             \/ req'[r].pair = {<<s, t>>}
      BY <1>3, <1>5, <2>7, ChargedAfter
    <3>2. <<s, t>> \in Counted /\ <<s, t>> # d
      BY <1>6, <3>1, GuardAssumption DEF Counted
    <3>3. slots'[<<s, t>>] = SlotsIn(w)[<<s, t>>]
      BY <2>5, <3>2
    <3> QED
      BY <2>2, <3>1, <3>3
  <2>8. ASSUME NEW s \in Sender, s = x[1]
        PROVE  \E t, j : /\ Charged(s)' \subseteq ChargedIn(w, s) \cup {t}
                         /\ slots'[<<s, Distinct>>] = SlotsIn(w)[<<s, Distinct>>] \cup {j}
                         /\ j \notin SlotsIn(w)[<<s, Distinct>>]
    <3>1. Charged(s)' \subseteq ChargedIn(w, s) \cup {x[2]}
      BY <2>7
    <3>2. <<s, Distinct>> = d
      BY <1>9, <2>8
    <3> QED
      BY <2>3, <2>6, <3>1, <3>2
  <2>9. ASSUME NEW s \in Sender, s # x[1]
        PROVE  /\ Charged(s)' \subseteq ChargedIn(w, s)
               /\ SlotsIn(w)[<<s, Distinct>>] \subseteq slots'[<<s, Distinct>>]
               /\ IsFiniteSet(slots'[<<s, Distinct>>])
    <3>1. Charged(s)' \subseteq ChargedIn(w, s)
      BY <2>7, <2>9
    <3>2. slots'[<<s, Distinct>>] = SlotsIn(w)[<<s, Distinct>>]
      BY <1>8, <1>10, <2>5, <2>9
    <3> QED
      BY <1>7, <3>1, <3>2
  <2> QED
    BY <1>3, <1>5, <2>2, <2>8, <2>9, WindowStep
<1> QED
  BY <1>3, <1>11, <1>12

\* A request past the count in this window is charged, another is overtaken.
LEMMA AllowCharges ==
  ASSUME GuardTyped, Charges, NEW r \in Request, AllowPair(r)
  PROVE  Charges'
<1>1. ReqTyped /\ WindowsTyped
  BY DEF GuardTyped
<1>2. req[r].at = "pair" /\ Step(r, Idle)
  BY DEF AllowPair, At
<1>3. PICK x \in Pair : req[r].pair = {x}
  BY <1>1, <1>2, PairOf
<1>4. PICK w \in {window, day} :
        /\ window' = w
        /\ \/ /\ Free(w, x) # {} /\ slots' = Added(w, x)
              /\ overtaken' = IF x[2] \in GroupTarget /\ req[r].since # w
                              THEN OvertakenIn(w) \cup {x} ELSE OvertakenIn(w)
           \/ slots' = SlotsIn(w) /\ overtaken' = OvertakenIn(w)
  BY <1>3 DEF AllowPair
<1>5. w \in Nat /\ window \in Nat /\ window <= w /\ req[r].since \in Nat /\ req[r].since <= window
  BY <1>1, Bounds, Standing, Fields DEF WindowsTyped, Charges
<1>6. req'[r] = Idle /\ \A q \in Request \ {r} : req'[q] = req[q]
  BY <1>1, <1>2, StepIs
<1>7. req'[r].at # "pair" /\ req'[r].since <= w
  BY <1>5, <1>6, IdleIs
<1>8. x \in Counted /\ x = <<x[1], x[2]>> /\ x[2] \in Target
  BY LimitIs
<1>9. SlotsIn(w) \in [Counted -> SUBSET Nat]
  BY <1>1, TurnTyped
<1>10. \A y \in Counted : y # x => slots'[y] = SlotsIn(w)[y]
  BY <1>1, <1>4, <1>8, <1>9, AddedIs
<1>11. ASSUME NEW s \in Sender, NEW t \in Charged(s)' PROVE t \in ChargedIn(w, s)
  <2>1. OvertakenIn(w) \subseteq overtaken'
    BY <1>4
  <2>2. /\ t \in GroupTarget /\ <<<<s, t>>, 0>> \notin FalsePositive /\ <<s, t>> \notin overtaken'
        /\ t \in ChargedIn(w, s) \/ (slots'[<<s, t>>] # {} /\ SlotsIn(w)[<<s, t>>] = {})
    BY <1>4, <1>6, <1>7, <1>11, <2>1, ChargedAfter
  <2>3. ASSUME slots'[<<s, t>>] # {}, SlotsIn(w)[<<s, t>>] = {} PROVE t \in ChargedIn(w, s)
    <3>1. <<s, t>> \in Counted
      BY <2>2, GuardAssumption DEF Counted
    <3>2. x = <<s, t>>
      BY <1>10, <2>3, <3>1
    <3>3. slots' # SlotsIn(w)
      BY <2>3
    <3>4. req[r].since = w
      BY <1>4, <2>2, <3>2, <3>3
    <3>5. w = window
      BY <1>5, <3>4
    <3>6. <<s, t>> \notin overtaken
      BY <2>1, <2>2, <3>5 DEF OvertakenIn
    <3> QED
      BY <1>2, <1>3, <2>2, <3>2, <3>4, <3>5, <3>6 DEF Charged, ChargedIn
  <2> QED
    BY <2>2, <2>3
<1>12. ASSUME NEW s \in Sender
       PROVE  SlotsIn(w)[<<s, Distinct>>] \subseteq slots'[<<s, Distinct>>] /\ IsFiniteSet(slots'[<<s, Distinct>>])
  <2>1. <<s, Distinct>> \in Counted /\ <<s, Distinct>> # x
    BY <1>8, KeysAssumption DEF Counted
  <2>2. slots'[<<s, Distinct>>] = SlotsIn(w)[<<s, Distinct>>]
    BY <1>10, <2>1
  <2> QED
    BY <2>2, WindowOpens
<1> QED
  BY <1>4, <1>6, <1>7, <1>11, <1>12, WindowStep

LEMMA ChargesInit == Init => Charges
<1> SUFFICES ASSUME Init PROVE Charges
  OBVIOUS
<1>1. \A r \in Request : req[r].since <= window
  BY IdleIs DEF Init
<1>2. ASSUME NEW s \in Sender PROVE Charged(s) = {} /\ slots[<<s, Distinct>>] = {}
  BY GuardAssumption, IdleIs DEF Init, Charged, Counted
<1>3. IsFiniteSet({}) /\ Cardinality({}) = 0
  BY FS_EmptySet
<1>4. ASSUME NEW s \in Sender
      PROVE  IsFiniteSet(Charged(s)) /\ Cardinality(Charged(s)) <= Cardinality(slots[<<s, Distinct>>])
  BY <1>2, <1>3
<1> QED
  BY <1>1, <1>4, Zenon DEF Charges

LEMMA ChargesNext == GuardTyped /\ Charges /\ [Next]_vars => Charges'
<1> SUFFICES ASSUME GuardTyped, Charges, [Next]_vars PROVE Charges'
  OBVIOUS
<1>1. ASSUME NEW r \in Request,
             \/ \E p \in Pair : Arrive(r, p)
             \/ QueryBlocked(r) \/ KeepBlocked(r) \/ Look(r) \/ Make(r) \/ Take(r)
      PROVE  Charges'
  BY <1>1, QuietCharges
<1>2. ASSUME NEW r \in Request, HasSeenToday(r) \/ AllowDistinct(r) \/ AllowPair(r) PROVE Charges'
  BY <1>2, SeenCharges, DistinctCharges, AllowCharges
<1>3. ASSUME NEW t \in Reported, ReportAbuse(t) PROVE Charges'
  BY <1>3, ChargesStill DEF ReportAbuse
<1>b. ASSUME NEW p \in Pair, Block(p) PROVE Charges'
  BY <1>b, ChargesStill DEF Block
<1>4. ASSUME NEW p \in Pair, SweepExpiredBlocks(p) PROVE Charges'
  BY <1>4, ChargesStill DEF SweepExpiredBlocks
<1>5. ASSUME NEW k \in Crowded, Evict(k) \/ Refill(k) PROVE Charges'
  BY <1>5, ChargesStill DEF Evict, Refill
<1>6. CASE Midnight
  BY <1>6, ChargesStill DEF Midnight
<1>7. CASE UNCHANGED vars
  BY <1>7, ChargesStill DEF vars
<1> QED
  BY <1>1, <1>2, <1>3, <1>4, <1>b, <1>5, <1>6, <1>7 DEF Next

\* However its requests overlap, with midnight, evictions and each other, a
\* sender reaches no more group handles in one window than the cap, but for
\* false positives and those whose count the window's turn overtook
\* (Service.Allow, PairCascade.HasSeenToday, AllowDistinct and Allow).
THEOREM SprayIsCapped == Spec => []SprayCapped
  BY TypedHolds, ChargesInit, ChargesNext, ChargesCap, PTL DEF Spec
===================================================================================
