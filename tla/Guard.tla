--------------------------------- MODULE Guard ---------------------------------
(***************************************************************************)
(* The guard of the ping path (guard.Service.Allow) with the block list in *)
(* front of the blocks table (http.sqliteBlockStore), the token buckets in *)
(* their bounded maps and the pair cascade with its windows of a day.      *)
(*                                                                         *)
(* A request takes one step per critical section, so that two requests of  *)
(* one sender, an eviction, midnight and a report fall between any two.    *)
(*                                                                         *)
(* A Bloom filter is the set of pairs added to it, beside a fixed set of   *)
(* false positives.  Time refills a bucket a token at a time.  What is     *)
(* recorded for the difficulty and the sketch's estimates is left out: any *)
(* sender let through to a handle may be its top sender.                   *)
(***************************************************************************)
EXTENDS Naturals, FiniteSets

CONSTANTS Sender, Target,
          GroupTarget,   \* the targets that are group handles
          PairMax,       \* pair limit of a target's kind, at most the slots of a window
          DistinctCap,   \* group handles of a day: 10
          BucketCap,     \* capacity of the buckets of each stage
          FalsePositive, \* pairs and slots whose bits others have set
          Request,
          Reported,      \* bound: targets whose owner reports abuse
          Crowded,       \* bound: bucket keys that are evicted and refilled
          MaxDay,        \* bound: midnights
          MaxRefill,     \* bound: tokens given by time
          MaxEvict       \* bound: buckets evicted from a full map

ASSUME GuardAssumption ==
  /\ GroupTarget \subseteq Target
  /\ Reported \subseteq Target
  /\ PairMax \in [Target -> Nat]
  /\ DistinctCap \in Nat
  /\ BucketCap \in [{"hour", "day", "target"} -> Nat \ {0}]
  /\ MaxDay \in Nat /\ MaxRefill \in Nat /\ MaxEvict \in Nat

VARIABLES
  req,      \* where each request stands
  blocks,   \* the blocks table
  cache,    \* the block store's cache
  top,      \* topSenders
  reports,  \* senders reported whose row is not yet written
  home,     \* the bucket each key has in its map, 0 if none
  tokens,   \* the tokens of each bucket ever made
  refills,  \* tokens given by time so far
  evicted,  \* keys whose bucket was evicted so far
  spent,    \* hourly tokens each sender has spent (history)
  day,      \* core.Today()
  window,   \* the day of the current window
  slots,    \* the slots of the current window that hold each pair
  behind,   \* pairs whose row changed under a cached or pending answer (history)
  overtaken \* group targets admitted in this window on an earlier one's count (history)

bucketVars == <<home, tokens, refills, evicted, spent>>
blockVars == <<blocks, cache, behind, reports>>
windowVars == <<window, slots, overtaken>>
vars == <<req, blockVars, top, bucketVars, day, windowVars>>

\* The key under which the distinct group handles of a sender are counted.
Distinct == "__group_distinct__"
Pair == Sender \X Target
Counted == Sender \X (Target \cup {Distinct})
BucketKey == ({"hour", "day"} \X Sender) \cup ({"target"} \X Target)
Generation == 1 .. MaxEvict + 1

\* A handle is base32, so that no handle is the key of the group handles.
ASSUME KeysAssumption ==
  /\ Distinct \notin Target
  /\ Crowded \subseteq BucketKey

Idle == [at |-> "idle", pair |-> {}, stage |-> "hour", bucket |-> 0, blocked |-> FALSE, since |-> 0]

Limit(p) == IF p[2] = Distinct THEN DistinctCap ELSE PairMax[p[2]]

\* Where a request may stand, and what it carries.
Progress ==
  [at : {"idle", "block", "keep", "look", "make", "take", "seen", "distinct", "pair"},
   pair : SUBSET Pair, stage : {"hour", "day", "target"}, bucket : 0 .. MaxEvict + 1,
   blocked : BOOLEAN, since : 0 .. MaxDay]

\* One type invariant for the module.  A bucket has no more tokens than its
\* capacity, and a request holds a bucket only to take from it.
TypeOK ==
  /\ req \in [Request -> Progress]
  /\ \A r \in Request : (req[r].bucket # 0) = (req[r].at = "take")
  /\ blocks \in SUBSET Pair
  /\ cache \in [Pair -> {"unknown", "yes", "no"}]
  /\ top \in [Target -> SUBSET Sender]
  /\ reports \in SUBSET Pair
  /\ home \in [BucketKey -> 0 .. MaxEvict + 1]
  /\ tokens \in [BucketKey \X Generation -> Nat]
  /\ \A k \in BucketKey, n \in Generation : tokens[<<k, n>>] \in 0 .. BucketCap[k[1]]
  /\ refills \in [BucketKey -> 0 .. MaxRefill]
  /\ evicted \in [BucketKey -> 0 .. MaxEvict]
  /\ spent \in [Sender -> Nat]
  /\ window \in 0 .. day /\ day \in 0 .. MaxDay
  /\ slots \in [Counted -> SUBSET Nat]
  /\ \A p \in Counted : slots[p] \subseteq 0 .. Limit(p) - 1
  /\ behind \in SUBSET Pair
  /\ overtaken \in SUBSET Pair

Init ==
  /\ req = [r \in Request |-> Idle]
  /\ blocks = {}
  /\ cache = [p \in Pair |-> "unknown"]
  /\ top = [t \in Target |-> {}]
  /\ reports = {}
  /\ home = [k \in BucketKey |-> 0]
  /\ tokens = [b \in BucketKey \X Generation |-> BucketCap[b[1][1]]]
  /\ refills = [k \in BucketKey |-> 0]
  /\ evicted = [k \in BucketKey |-> 0]
  /\ spent = [s \in Sender |-> 0]
  /\ day = 0 /\ window = 0
  /\ slots = [p \in Counted |-> {}]
  /\ behind = {} /\ overtaken = {}

Step(r, fields) == req' = [req EXCEPT ![r] = fields]
At(r, place) == req[r].at = place

-------------------------------------------------------------------------------
(* The block list.                                                         *)

\* Sum of a bounded function, for the bounds.
Total(f) == Cardinality({ki \in BucketKey \X (1 .. MaxRefill + MaxEvict) : ki[2] <= f[ki[1]]})

\* A ping reaches the guard; a cached answer decides at once.
Arrive(r, p) ==
  /\ At(r, "idle")
  /\ cache[p] # "yes"
  /\ Step(r, [Idle EXCEPT !.at = IF cache[p] = "no" THEN "look" ELSE "block", !.pair = {p}])
  /\ UNCHANGED <<blockVars, top, bucketVars, day, windowVars>>

\* Mutant: a failed query is remembered as an answer.
QueryBlockedOpen(r) ==
  /\ At(r, "block")
  /\ \/ \E p \in req[r].pair : Step(r, [req[r] EXCEPT !.at = "keep", !.blocked = p \in blocks])
     \/ Step(r, [req[r] EXCEPT !.at = "keep"])
  /\ UNCHANGED <<blockVars, top, bucketVars, day, windowVars>>

\* The query, outside the lock.  Allow ignores the error of a query that fails
\* and goes on as if the sender were not blocked; nothing is cached then.
QueryBlocked(r) ==
  /\ At(r, "block")
  /\ \/ \E p \in req[r].pair : Step(r, [req[r] EXCEPT !.at = "keep", !.blocked = p \in blocks])
     \/ Step(r, [req[r] EXCEPT !.at = "look"])
  /\ UNCHANGED <<blockVars, top, bucketVars, day, windowVars>>

\* A full cache forgets an arbitrary entry.
KeepBlocked(r) ==
  /\ At(r, "keep")
  /\ \E lost \in SUBSET Pair :
       /\ Cardinality(lost) <= 1
       /\ cache' = [p \in Pair |->
            IF p \in req[r].pair THEN IF req[r].blocked THEN "yes" ELSE "no"
            ELSE IF p \in lost THEN "unknown"
            ELSE cache[p]]
  /\ Step(r, IF req[r].blocked THEN Idle ELSE [req[r] EXCEPT !.at = "look"])
  /\ behind' = {p \in behind : \/ p \notin req[r].pair \/ req[r].blocked # (p \in blocks)
                              \/ \E q \in Request \ {r} : At(q, "keep") /\ p \in req[q].pair}
  /\ UNCHANGED <<blocks, reports, top, bucketVars, day, windowVars>>

\* Some answer about pair p is cached or about to be.
Answered(p) == cache[p] # "unknown" \/ \E r \in Request : At(r, "keep") /\ p \in req[r].pair

\* A row that comes or goes under an answer.
Unheard(p) == behind' = IF Answered(p) THEN behind \cup {p} ELSE behind

\* The owner of a handle reports it: TopSender, read before the write.
ReportAbuse(t) ==
  /\ \E s \in top[t] : reports' = reports \cup {<<s, t>>}
  /\ UNCHANGED <<req, blocks, cache, behind, top, bucketVars, day, windowVars>>

\* The write of a report: the sender goes into the table, and the cache is not
\* told.  Its error is thrown away.  Another report of the sender may be waiting.
Block(p) ==
  /\ p \in reports
  /\ reports' \in {reports, reports \ {p}}
  /\ \/ p \notin blocks /\ blocks' = blocks \cup {p} /\ Unheard(p)
     \/ UNCHANGED <<blocks, behind>>
  /\ UNCHANGED <<req, cache, top, bucketVars, day, windowVars>>

\* Pump 3 deletes the rows that are old enough, and the cache is not told.
SweepExpiredBlocks(p) ==
  /\ p \in blocks
  /\ blocks' = blocks \ {p}
  /\ Unheard(p)
  /\ UNCHANGED <<req, cache, reports, top, bucketVars, day, windowVars>>

-------------------------------------------------------------------------------
(* The token buckets.                                                      *)

KeyOf(r) == CHOOSE k \in BucketKey :
  /\ k[1] = req[r].stage
  /\ \E p \in req[r].pair : k[2] = IF k[1] = "target" THEN p[2] ELSE p[1]

\* LoadOrStore finds the bucket under the read lock, or goes for the lock.
Look(r) ==
  /\ At(r, "look")
  /\ Step(r, [req[r] EXCEPT !.at = IF home[KeyOf(r)] # 0 THEN "take" ELSE "make",
                            !.bucket = home[KeyOf(r)]])
  /\ UNCHANGED <<blockVars, top, bucketVars, day, windowVars>>

\* Mutant: the map is not looked at again under the lock.
MakeAnyway(r) ==
  /\ At(r, "make")
  /\ home' = [home EXCEPT ![KeyOf(r)] = IF @ = 0 THEN evicted[KeyOf(r)] + 1 ELSE @ + 1]
  /\ home'[KeyOf(r)] <= MaxEvict + 1
  /\ Step(r, [req[r] EXCEPT !.at = "take", !.bucket = home'[KeyOf(r)]])
  /\ UNCHANGED <<blockVars, top, tokens, refills, evicted, spent, day, windowVars>>

\* Under the lock the map is looked at again before a bucket is made.
Make(r) ==
  /\ At(r, "make")
  /\ home' = [home EXCEPT ![KeyOf(r)] = IF @ = 0 THEN evicted[KeyOf(r)] + 1 ELSE @]
  /\ Step(r, [req[r] EXCEPT !.at = "take", !.bucket = home'[KeyOf(r)]])
  /\ UNCHANGED <<blockVars, top, tokens, refills, evicted, spent, day, windowVars>>

\* Entries of other keys have filled the map; requests that hold the bucket
\* keep it.
Evict(k) ==
  /\ home[k] # 0
  /\ Total(evicted) < MaxEvict
  /\ home' = [home EXCEPT ![k] = 0]
  /\ evicted' = [evicted EXCEPT ![k] = @ + 1]
  /\ UNCHANGED <<req, blockVars, top, tokens, refills, spent, day, windowVars>>

AfterTake(r) ==
  CASE req[r].stage = "hour" -> [req[r] EXCEPT !.at = "look", !.stage = "day", !.bucket = 0]
    [] req[r].stage = "day" -> [req[r] EXCEPT !.at = "look", !.stage = "target", !.bucket = 0]
    [] OTHER -> [req[r] EXCEPT !.at = IF \E p \in req[r].pair : p[2] \in GroupTarget
                                      THEN "seen" ELSE "pair",
                               !.bucket = 0, !.since = window]

\* TokenBucket.Allow: a token, or the end of the request, which gets nothing
\* back of what it has spent.
Take(r) ==
  /\ At(r, "take")
  /\ LET k == KeyOf(r) n == req[r].bucket
     IN  IF tokens[<<k, n>>] > 0
         THEN /\ tokens' = [tokens EXCEPT ![<<k, n>>] = @ - 1]
              /\ spent' = IF k[1] = "hour" THEN [spent EXCEPT ![k[2]] = @ + 1] ELSE spent
              /\ Step(r, AfterTake(r))
         ELSE /\ Step(r, Idle)
              /\ UNCHANGED <<tokens, spent>>
  /\ UNCHANGED <<blockVars, top, home, refills, evicted, day, windowVars>>

\* Mutant: a full bucket fills on.
RefillOver(k) ==
  /\ Total(refills) < MaxRefill
  /\ \E n \in Generation : tokens' = [tokens EXCEPT ![<<k, n>>] = @ + 1]
  /\ refills' = [refills EXCEPT ![k] = @ + 1]
  /\ UNCHANGED <<req, blockVars, top, home, evicted, spent, day, windowVars>>

\* Time passes.
Refill(k) ==
  /\ Total(refills) < MaxRefill
  /\ \E n \in Generation :
       /\ tokens[<<k, n>>] < BucketCap[k[1]]
       /\ tokens' = [tokens EXCEPT ![<<k, n>>] = @ + 1]
  /\ refills' = [refills EXCEPT ![k] = @ + 1]
  /\ UNCHANGED <<req, blockVars, top, home, evicted, spent, day, windowVars>>

-------------------------------------------------------------------------------
(* The pair cascade.                                                       *)

Midnight ==
  /\ day < MaxDay
  /\ day' = day + 1
  /\ UNCHANGED <<req, blockVars, top, bucketVars, windowVars>>

\* rotateIfNeeded with a today that was read before or after midnight leaves the
\* window or turns it to the day; what window w then holds.  Nothing asks the
\* previous window.
SlotsIn(w) == IF w = window THEN slots ELSE [p \in Counted |-> {}]
OvertakenIn(w) == IF w = window THEN overtaken ELSE {}

Contains(w, p, k) == k \in SlotsIn(w)[p] \/ <<p, k>> \in FalsePositive
Free(w, p) == {k \in 0 .. Limit(p) - 1 : ~Contains(w, p, k)}
First(S) == CHOOSE x \in S : \A y \in S : x <= y

\* The first free slot takes the pair.
Added(w, p) == [SlotsIn(w) EXCEPT ![p] = @ \cup {First(Free(w, p))}]

\* Whether the pair is in slot 0 of today's window.
HasSeenToday(r) ==
  /\ At(r, "seen")
  /\ \E p \in req[r].pair, w \in {window, day} :
       /\ window' = w
       /\ slots' = SlotsIn(w)
       /\ overtaken' = OvertakenIn(w)
       /\ Step(r, [req[r] EXCEPT !.at = IF Contains(w, p, 0) THEN "pair" ELSE "distinct", !.since = w])
  /\ UNCHANGED <<blockVars, top, bucketVars, day>>

\* Mutant: a sender who has used up the day's group handles goes on.
AllowDistinctAnyway(r) ==
  /\ At(r, "distinct")
  /\ \E p \in req[r].pair, w \in {window, day} :
       /\ window' = w
       /\ overtaken' = OvertakenIn(w)
       /\ LET d == <<p[1], Distinct>>
          IN  /\ slots' = IF Free(w, d) # {} THEN Added(w, d) ELSE SlotsIn(w)
              /\ Step(r, [req[r] EXCEPT !.at = "pair", !.since = w])
  /\ UNCHANGED <<blockVars, top, bucketVars, day>>

\* A slot of the day's distinct group handles, or the end.
AllowDistinct(r) ==
  /\ At(r, "distinct")
  /\ \E p \in req[r].pair, w \in {window, day} :
       /\ window' = w
       /\ overtaken' = OvertakenIn(w)
       /\ LET d == <<p[1], Distinct>>
          IN  IF Free(w, d) # {}
              THEN /\ slots' = Added(w, d)
                   /\ Step(r, [req[r] EXCEPT !.at = "pair", !.since = w])
              ELSE /\ slots' = SlotsIn(w)
                   /\ Step(r, Idle)
  /\ UNCHANGED <<blockVars, top, bucketVars, day>>

\* A slot for the pair lets the ping through and records its sender, who is the
\* top sender if the estimate says so.
AllowPair(r) ==
  /\ At(r, "pair")
  /\ \E p \in req[r].pair, w \in {window, day} :
       /\ window' = w
       /\ IF Free(w, p) # {}
          THEN /\ slots' = Added(w, p)
               /\ overtaken' = IF p[2] \in GroupTarget /\ req[r].since # w
                               THEN OvertakenIn(w) \cup {p} ELSE OvertakenIn(w)
               /\ \/ top' = [top EXCEPT ![p[2]] = {p[1]}]
                  \/ top[p[2]] # {} /\ UNCHANGED top
          ELSE /\ slots' = SlotsIn(w)
               /\ overtaken' = OvertakenIn(w)
               /\ UNCHANGED top
  /\ Step(r, Idle)
  /\ UNCHANGED <<blockVars, bucketVars, day>>

Next ==
  \/ \E r \in Request :
       \/ \E p \in Pair : Arrive(r, p)
       \/ QueryBlocked(r) \/ KeepBlocked(r)
       \/ Look(r) \/ Make(r) \/ Take(r)
       \/ HasSeenToday(r) \/ AllowDistinct(r) \/ AllowPair(r)
  \/ \E t \in Reported : ReportAbuse(t)
  \/ \E p \in Pair : Block(p) \/ SweepExpiredBlocks(p)
  \/ \E k \in Crowded : Evict(k) \/ Refill(k)
  \/ Midnight

Spec == Init /\ [][Next]_vars

-------------------------------------------------------------------------------
(* Properties.                                                             *)

\* The block cache says what the table says, except of pairs whose row came or
\* went while an answer was cached or about to be: a sender nobody had asked
\* about is stopped from the moment the report is written.
BlocksKnown ==
  \A p \in Pair :
    cache[p] # "unknown" /\ p \notin behind => (cache[p] = "yes") = (p \in blocks)

\* However its requests overlap, a sender spends no more hourly tokens than one
\* full bucket, one more for each eviction, and what time has given.
HourlyLimit ==
  \A s \in Sender :
    spent[s] <= BucketCap["hour"] * (1 + evicted[<<"hour", s>>]) + refills[<<"hour", s>>]

\* The group handles a sender reaches in one window are within the day's cap,
\* but for those that a false positive counts as seen and those whose count was
\* taken before the window turned.
SprayCapped ==
  \A s \in Sender :
    LET reached == {t \in GroupTarget : slots[<<s, t>>] # {}}
        free == {t \in GroupTarget : <<<<s, t>>, 0>> \in FalsePositive \/ <<s, t>> \in overtaken}
    IN  Cardinality(reached \ free) <= DistinctCap

-------------------------------------------------------------------------------
(* What the documents say, and the code does not do.                       *)

\* docs/ABUSE.md: "they press a button and the noise stops".  The sender that
\* is reported has been let through, so that the cache says no, and keeps
\* saying it.
NoiseStops == \A p \in blocks : cache[p] # "no"
===============================================================================
