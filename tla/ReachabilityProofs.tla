--------------------------- MODULE ReachabilityProofs ---------------------------
(***************************************************************************)
(* Proofs about Reachability, for any accounts, handles, aliases and       *)
(* requests, and any number of handlers between commit and invalidation;   *)
(* and, at the end, about ResolverCache, for any capacity of the list.     *)
(***************************************************************************)
EXTENDS Reachability, ResolverCache, FiniteSetTheorems, SequenceTheorems, TLAPS

-------------------------------------------------------------------------------
(* The types of the state.                                                 *)

Minted == {h \in Handle : owner[h] # Nobody}

RowsTyped ==
  /\ owner \in [Handle -> Account \cup {Nobody}]
  /\ paused \subseteq Minted
  /\ alias \in [Alias -> Minted \cup {NoHandle}]
  /\ open \subseteq Account /\ asleep \subseteq Account

RequestRecord == [at : {"idle", "query", "fill"}, target : SUBSET Target, answer : Answers]

\* What is not a row.
MemoryTyped ==
  /\ burned \subseteq Handle
  /\ cache \in [Target -> Answers \cup {Uncached}]
  /\ req \in [Request -> RequestRecord]
  /\ pending \subseteq Target
  /\ burning \subseteq burned
  /\ sweep \in [at : {"idle", "listed", "deleted"}, list : SUBSET Alias]
  /\ left \subseteq Target /\ raced \subseteq Target

LEMMA TypeParts == TypeOK <=> RowsTyped /\ MemoryTyped
  BY DEF TypeOK, RowsTyped, MemoryTyped, Minted, RequestRecord

LEMMA AnswerIsAnswer == RowsTyped => \A t : Answer(t) \in Answers
<1> SUFFICES ASSUME RowsTyped, NEW h PROVE HandleAnswer(h) \in Answers
  BY DEF Answer
<1>1. CASE h \in Handle /\ owner[h] # Nobody /\ h \notin paused /\ owner[h] \in open
  BY <1>1 DEF HandleAnswer, Answers, RowsTyped
<1>2. CASE ~(h \in Handle /\ owner[h] # Nobody /\ h \notin paused /\ owner[h] \in open)
  BY <1>2 DEF HandleAnswer, Answers
<1> QED
  BY <1>1, <1>2

LEMMA TypeInit == Init => TypeOK
<1> SUFFICES ASSUME Init PROVE RowsTyped /\ MemoryTyped
  BY TypeParts
<1>1. RowsTyped
  BY DEF Init, RowsTyped, Minted
<1>2. Idle \in RequestRecord
  BY DEF Idle, RequestRecord, Answers
<1>3. MemoryTyped
  BY <1>2 DEF Init, MemoryTyped
<1> QED
  BY <1>1, <1>3

\* The rows after each handler that changes them.
LEMMA RowsNext == TypeOK /\ [Next]_vars => RowsTyped'
<1> SUFFICES ASSUME RowsTyped, [Next]_vars PROVE RowsTyped'
  BY TypeParts
<1> USE ReachAssumption
<1>1. ASSUME NEW h \in Handle, NEW acc \in Account, CreateHandle(h, acc) PROVE RowsTyped'
  BY <1>1 DEF CreateHandle, RowsTyped, Minted
<1>2. ASSUME NEW h \in Handle, UpdateHandle(h) PROVE RowsTyped'
  <2>1. h \in Minted
    BY <1>2 DEF UpdateHandle, Mine, Awake, Minted
  <2> QED
    BY <1>2, <2>1 DEF UpdateHandle, RowsTyped, Minted
<1>3. ASSUME NEW h \in Handle, BurnCommit(h) PROVE RowsTyped'
  <2>1. CASE UNCHANGED rows
    BY <2>1 DEF rows, RowsTyped, Minted
  <2>2. CASE /\ owner' = [owner EXCEPT ![h] = Nobody]
             /\ paused' = paused \ {h}
             /\ alias' = [a \in Alias |-> IF alias[a] = h THEN NoHandle ELSE alias[a]]
             /\ UNCHANGED <<open, asleep>>
    <3>1. Minted' = Minted \ {h}
      BY <2>2 DEF Minted, RowsTyped
    <3> QED
      BY <2>2, <3>1 DEF RowsTyped
  <2> QED
    BY <1>3, <2>1, <2>2 DEF BurnCommit
<1>4. ASSUME NEW a \in Alias, NEW h \in Handle, SetAlias(a, h) PROVE RowsTyped'
  <2>1. h \in Minted
    BY <1>4 DEF SetAlias, Mine, Awake, Minted
  <2> QED
    BY <1>4, <2>1 DEF SetAlias, RowsTyped, Minted
<1>5. ASSUME NEW S, Released(S), UNCHANGED <<owner, paused, open, asleep>> PROVE RowsTyped'
  BY <1>5 DEF Released, RowsTyped, Minted
<1>6. ASSUME NEW acc \in Account, DeleteAccount(acc) PROVE RowsTyped'
  <2>1. Minted' = {h \in Minted : owner[h] # acc}
    BY <1>6 DEF DeleteAccount, Minted, RowsTyped
  <2>2. alias' \in [Alias -> Minted' \cup {NoHandle}]
    <3>1. ASSUME NEW a \in Alias, OwnerOf(a) # acc PROVE alias[a] \in Minted' \cup {NoHandle}
      BY <2>1, <3>1 DEF OwnerOf, RowsTyped
    <3> QED
      BY <1>6, <3>1 DEF DeleteAccount, Released
  <2>3. paused' \subseteq Minted'
    BY <1>6, <2>1 DEF DeleteAccount, RowsTyped
  <2> QED
    BY <1>6, <2>2, <2>3 DEF DeleteAccount, RowsTyped
<1>7. ASSUME NEW acc \in Account, UpdateSettings(acc) \/ Doze(acc) PROVE RowsTyped'
  BY <1>7 DEF UpdateSettings, Doze, RowsTyped, Minted
<1>8. ASSUME UNCHANGED rows PROVE RowsTyped'
  BY <1>8 DEF rows, RowsTyped, Minted
<1>9. ASSUME NEW r \in Request, (\E t \in Target : Miss(r, t)) \/ Query(r) \/ Fill(r) PROVE RowsTyped'
  BY <1>8, <1>9 DEF Miss, Query, Fill
<1>10. ASSUME NEW t \in Target, Evict(t) \/ Invalidate(t) \/ GiveUp(t) PROVE RowsTyped'
  BY <1>8, <1>10 DEF Evict, Invalidate, GiveUp
<1>11. ASSUME NEW h \in Handle, BurnForget(h) PROVE RowsTyped'
  BY <1>8, <1>11 DEF BurnForget
<1>12. ASSUME SweepList \/ SweepInvalidate PROVE RowsTyped'
  BY <1>8, <1>12 DEF SweepList, SweepInvalidate
<1>13. CASE SweepDelete
  <2>1. CASE Released(asleep)
    BY <1>5, <1>13, <2>1 DEF SweepDelete
  <2>2. CASE UNCHANGED alias
    BY <1>8, <1>13, <2>2 DEF SweepDelete, rows
  <2> QED
    BY <1>13, <2>1, <2>2 DEF SweepDelete
<1>14. ASSUME NEW acc \in Account, DeleteAlias(acc) PROVE RowsTyped'
  BY <1>5, <1>14 DEF DeleteAlias
<1>15. CASE UNCHANGED vars
  BY <1>8, <1>15 DEF vars
<1> QED
  BY <1>1, <1>2, <1>3, <1>4, <1>6, <1>7, <1>9, <1>10, <1>11, <1>12, <1>13, <1>14, <1>15 DEF Next

LEMMA DropTyped ==
  ASSUME MemoryTyped, NEW t \in Target, Drop(t)
  PROVE  cache' \in [Target -> Answers \cup {Uncached}] /\ left' \subseteq Target /\ raced' \subseteq Target
  BY DEF MemoryTyped, Drop

LEMMA MemoryNext == TypeOK /\ [Next]_vars => MemoryTyped'
<1> SUFFICES ASSUME RowsTyped, MemoryTyped, [Next]_vars PROVE MemoryTyped'
  BY TypeParts
<1>1. ASSUME NEW r \in Request, NEW t \in Target, Miss(r, t) PROVE MemoryTyped'
  <2>1. [at |-> "query", target |-> {t}, answer |-> None] \in RequestRecord
    BY DEF RequestRecord, Answers
  <2> QED
    BY <1>1, <2>1 DEF Miss, MemoryTyped
<1>2. ASSUME NEW r \in Request, Query(r) PROVE MemoryTyped'
  <2>1. ASSUME NEW t PROVE [req[r] EXCEPT !.at = "fill", !.answer = Answer(t)] \in RequestRecord
    BY AnswerIsAnswer DEF MemoryTyped, RequestRecord
  <2>2. Idle \in RequestRecord
    BY DEF Idle, RequestRecord, Answers
  <2>3. PICK c \in RequestRecord : req' = [req EXCEPT ![r] = c]
    <3>1. CASE \E t \in req[r].target : req' = [req EXCEPT ![r] = [@ EXCEPT !.at = "fill", !.answer = Answer(t)]]
      BY <3>1, <2>1
    <3>2. CASE req' = [req EXCEPT ![r] = Idle]
      BY <3>2, <2>2
    <3> QED
      BY <1>2, <3>1, <3>2 DEF Query
  <2> QED
    BY <1>2, <2>3 DEF Query, MemoryTyped
<1>3. ASSUME NEW r \in Request, Fill(r) PROVE MemoryTyped'
  <2>1. Idle \in RequestRecord /\ req[r].answer \in Answers /\ req[r].target \subseteq Target
    BY DEF Idle, RequestRecord, Answers, MemoryTyped
  <2>2. req' \in [Request -> RequestRecord]
    BY <1>3, <2>1 DEF Fill, MemoryTyped
  <2> QED
    BY <1>3, <2>1, <2>2 DEF Fill, Cleared, MemoryTyped
<1>4. ASSUME NEW t \in Target, Evict(t) \/ Invalidate(t) \/ GiveUp(t) PROVE MemoryTyped'
  <2>1. CASE Evict(t)
    BY <2>1 DEF Evict, Cleared, MemoryTyped
  <2>2. CASE Invalidate(t)
    BY <2>2, DropTyped DEF Invalidate, MemoryTyped
  <2>3. CASE GiveUp(t)
    BY <2>3 DEF GiveUp, Leaves, MemoryTyped
  <2> QED
    BY <1>4, <2>1, <2>2, <2>3
<1>5. ASSUME NEW h \in Handle, BurnForget(h) PROVE MemoryTyped'
  <2>1. h \in Target
    BY DEF Target
  <2> QED
    BY <1>5, <2>1, DropTyped DEF BurnForget, MemoryTyped
<1>6. CASE SweepList
  BY <1>6 DEF SweepList, AliasesOf, MemoryTyped
<1>7. CASE SweepInvalidate
  <2>1. ASSUME NEW a \in sweep.list, Drop(a), sweep' = [sweep EXCEPT !.list = @ \ {a}] PROVE MemoryTyped'
    <3>1. a \in Target
      BY DEF Target, MemoryTyped
    <3> QED
      BY <1>7, <2>1, <3>1, DropTyped DEF SweepInvalidate, MemoryTyped
  <2>2. CASE sweep' = [sweep EXCEPT !.at = "idle"] /\ UNCHANGED <<cache, left, raced>>
    BY <1>7, <2>2 DEF SweepInvalidate, MemoryTyped
  <2> QED
    BY <1>7, <2>1, <2>2 DEF SweepInvalidate
\* The handlers that write rows.
<1>8. ASSUME NEW S \in SUBSET Target, Leaves(S) PROVE left' \subseteq Target /\ raced' \subseteq Target
  BY <1>8 DEF Leaves, MemoryTyped
<1>a. \A h, S, acc : /\ AliasesAt(h) \in SUBSET Target /\ AliasesOf(S) \in SUBSET Target
                     /\ TargetsOf(acc) \in SUBSET Target
  BY DEF AliasesAt, AliasesOf, TargetsOf, Target
<1>9. ASSUME NEW h \in Handle, NEW acc \in Account, CreateHandle(h, acc) PROVE MemoryTyped'
  BY <1>8, <1>9 DEF CreateHandle, MemoryTyped, Target
<1>10. ASSUME NEW h \in Handle, UpdateHandle(h) PROVE MemoryTyped'
  BY <1>8, <1>10, <1>a DEF UpdateHandle, MemoryTyped, Target
<1>11. ASSUME NEW h \in Handle, BurnCommit(h) PROVE MemoryTyped'
  <2>1. left' \subseteq Target /\ raced' \subseteq Target
    BY <1>11, <1>a DEF BurnCommit, MemoryTyped, Target
  <2> QED
    BY <1>11, <2>1 DEF BurnCommit, MemoryTyped
<1>12. ASSUME NEW a \in Alias, NEW h \in Handle, SetAlias(a, h) PROVE MemoryTyped'
  BY <1>12 DEF SetAlias, MemoryTyped, Target
<1>13. CASE SweepDelete
  <2>1. left' \subseteq Target /\ raced' \subseteq Target
    BY <1>13, <1>a DEF SweepDelete, Leaves, MemoryTyped
  <2> QED
    BY <1>13, <2>1 DEF SweepDelete, MemoryTyped
<1>14. ASSUME NEW acc \in Account, DeleteAlias(acc) \/ UpdateSettings(acc) \/ DeleteAccount(acc) PROVE MemoryTyped'
  BY <1>8, <1>14, <1>a DEF DeleteAlias, UpdateSettings, DeleteAccount, MemoryTyped
<1>15. ASSUME NEW acc \in Account, Doze(acc) PROVE MemoryTyped'
  BY <1>15 DEF Doze, MemoryTyped
<1>16. CASE UNCHANGED vars
  BY <1>16 DEF vars, MemoryTyped
<1> QED
  BY <1>1, <1>2, <1>3, <1>4, <1>5, <1>6, <1>7, <1>9, <1>10, <1>11, <1>12, <1>13, <1>14, <1>15, <1>16 DEF Next

LEMMA TypeNext == TypeOK /\ [Next]_vars => TypeOK'
<1>1. (RowsTyped /\ MemoryTyped => TypeOK)'
  BY DEF TypeOK, RowsTyped, MemoryTyped, Minted, RequestRecord
<1> QED
  BY <1>1, RowsNext, MemoryNext

\* A row of aliases always has its handle, and a paused handle its row.
THEOREM ReachabilityTypeCorrect == Spec => []TypeOK
  BY TypeInit, TypeNext, PTL DEF Spec

-------------------------------------------------------------------------------
(* What the cache says.  The invalidation of a target catches what is in   *)
(* the cache, not the answer a request is carrying: that one has to be     *)
(* true, or to be on its way out as well.                                  *)

Covered(t) == t \in ToInvalidate \cup raced \cup left

Fresh(t) == cache[t] # Uncached /\ cache[t] # Answer(t) => Covered(t)

\* No request carries an old answer about t.
FreshRequests(t) ==
  \A r \in Request : req[r].at = "fill" /\ t \in req[r].target /\ req[r].answer # Answer(t) => Covered(t)

OneTarget == \A r \in Request : req[r].at # "idle" => \E t \in Target : req[r].target = {t}

Honest == TypeOK /\ OneTarget /\ \A t \in Target : Fresh(t) /\ FreshRequests(t)

LEMMA HonestInit == Init => Honest
  BY TypeInit DEF Init, Honest, OneTarget, Fresh, FreshRequests, Idle

\* A handler that changes rows, and leaves the cache and the requests alone: what
\* it changes is covered afterwards, or nobody has an answer about it.
LEMMA ChangeKeeps ==
  ASSUME Honest, UNCHANGED <<cache, req>>,
         ToInvalidate \subseteq ToInvalidate', left \subseteq left', raced \subseteq raced',
         \A t \in Target : Known(t) /\ ~Covered(t)' => Answer(t)' = Answer(t)
  PROVE  \A t \in Target : Fresh(t)' /\ FreshRequests(t)'
<1> SUFFICES ASSUME NEW t \in Target PROVE Fresh(t)' /\ FreshRequests(t)'
  OBVIOUS
<1>1. Covered(t) => Covered(t)'
  BY DEF Covered
<1>2. CASE Covered(t)'
  BY <1>2 DEF Fresh, FreshRequests
<1>3. CASE ~Known(t)
  BY <1>3 DEF Known, Fresh, FreshRequests
<1>4. CASE Answer(t)' = Answer(t)
  BY <1>1, <1>4 DEF Honest, Fresh, FreshRequests
<1> QED
  BY <1>2, <1>3, <1>4

\* A handler that leaves the targets of S.
LEMMA LeaveKeeps ==
  ASSUME NEW S, Honest, Leaves(S), UNCHANGED <<cache, req>>, ToInvalidate \subseteq ToInvalidate',
         \A t \in Target \ S : t \in ToInvalidate' \/ Answer(t)' = Answer(t)
  PROVE  \A t \in Target : Fresh(t)' /\ FreshRequests(t)'
<1>1. \A t \in Target : Known(t) /\ ~Covered(t)' => Answer(t)' = Answer(t)
  BY DEF Leaves, Covered
<1> QED
  BY <1>1, ChangeKeeps DEF Leaves

\* Invalidating one target, or evicting it.
LEMMA DropKeeps ==
  ASSUME Honest, NEW t \in Target, cache' = [cache EXCEPT ![t] = Uncached], UNCHANGED <<rows, req>>,
         \/ Drop(t) /\ ToInvalidate \subseteq ToInvalidate' \cup {t}
         \/ Cleared(t) /\ ToInvalidate' = ToInvalidate
  PROVE  \A u \in Target : Fresh(u)' /\ FreshRequests(u)'
<1>1. \A u : Answer(u)' = Answer(u)
  BY DEF Answer, HandleAnswer, rows
<1>2. cache'[t] = Uncached
  BY TypeParts DEF Honest, MemoryTyped
<1>3. Fresh(t)' /\ FreshRequests(t)'
  <2>1. Fresh(t)'
    BY <1>2 DEF Fresh
  <2>2. CASE ~Overtaken(t)
    BY <1>1, <2>1, <2>2 DEF Overtaken, FreshRequests
  <2>3. CASE Overtaken(t)
    <3>1. Covered(t)
      BY <2>3 DEF Overtaken, Honest, FreshRequests
    <3>2. Covered(t)'
      BY <2>3, <3>1 DEF Drop, Cleared, Covered
    <3> QED
      BY <2>1, <3>2 DEF FreshRequests
  <2> QED
    BY <2>2, <2>3
<1>4. ASSUME NEW u \in Target, u # t PROVE Fresh(u)' /\ FreshRequests(u)'
  <2>1. cache'[u] = cache[u]
    BY <1>4, TypeParts DEF Honest, MemoryTyped
  <2>2. Covered(u) => Covered(u)'
    BY <1>4 DEF Drop, Cleared, Covered
  <2> QED
    BY <1>1, <2>1, <2>2 DEF Honest, Fresh, FreshRequests
<1> QED
  BY <1>3, <1>4

\* Steps of the cache and the requests that write no row.
LEMMA FillKeeps ==
  ASSUME Honest, NEW r \in Request, Fill(r)
  PROVE  \A u \in Target : Fresh(u)' /\ FreshRequests(u)'
<1>1. PICK t \in Target : req[r].target = {t}
  BY DEF Honest, OneTarget, Fill
<1>2. \A u : Answer(u)' = Answer(u)
  BY DEF Fill, Answer, HandleAnswer, rows
<1>3. cache' = [cache EXCEPT ![t] = req[r].answer] /\ Cleared(t)
  BY <1>1 DEF Fill
<1>4. ToInvalidate' = ToInvalidate /\ \A q \in Request : q # r => req'[q] = req[q]
  BY TypeParts DEF Fill, ToInvalidate, Honest, MemoryTyped
<1>5. req'[r].at = "idle"
  BY TypeParts DEF Fill, Honest, MemoryTyped, Idle
<1>6. ASSUME NEW u \in Target, u # t PROVE Fresh(u)' /\ FreshRequests(u)'
  <2>1. cache'[u] = cache[u] /\ (Covered(u) => Covered(u)')
    BY <1>3, <1>4, <1>6, TypeParts DEF Honest, MemoryTyped, Covered, Cleared
  <2> QED
    BY <1>2, <1>4, <1>5, <2>1 DEF Honest, Fresh, FreshRequests
<1>7. Fresh(t)' /\ FreshRequests(t)'
  <2>1. cache'[t] = req[r].answer
    BY <1>3, TypeParts DEF Honest, MemoryTyped
  <2>2. CASE Overtaken(t)
    <3>1. Covered(t) /\ Covered(t)'
      BY <1>3, <1>4, <2>2 DEF Overtaken, Honest, FreshRequests, Covered, Cleared
    <3> QED
      BY <3>1 DEF Fresh, FreshRequests
  <2>3. CASE ~Overtaken(t)
    <3>1. req[r].at = "fill" /\ t \in req[r].target
      BY <1>1 DEF Fill
    <3> QED
      BY <1>2, <1>4, <1>5, <2>1, <2>3, <3>1 DEF Overtaken, Fresh, FreshRequests
  <2> QED
    BY <2>2, <2>3
<1> QED
  BY <1>6, <1>7

LEMMA MissQueryKeep ==
  ASSUME Honest, NEW r \in Request, NEW c, c.at = "fill" => \A t \in c.target : c.answer = Answer(t),
         req' = [req EXCEPT ![r] = c], UNCHANGED <<rows, cache, pending, sweep, left, raced>>
  PROVE  \A t \in Target : Fresh(t)' /\ FreshRequests(t)'
<1>1. \A t : Answer(t)' = Answer(t) /\ Covered(t)' = Covered(t)
  BY DEF Answer, HandleAnswer, rows, Covered, ToInvalidate
<1>2. \A q \in Request : req'[q] = IF q = r THEN c ELSE req[q]
  BY TypeParts DEF Honest, MemoryTyped
<1> QED
  BY <1>1, <1>2 DEF Honest, Fresh, FreshRequests

LEMMA OneTargetNext == Honest /\ [Next]_vars => OneTarget'
<1> SUFFICES ASSUME Honest, [Next]_vars PROVE OneTarget'
  OBVIOUS
<1>a. req \in [Request -> RequestRecord]
  BY TypeParts DEF Honest, MemoryTyped
<1>1. ASSUME NEW r \in Request, NEW t \in Target, Miss(r, t) PROVE OneTarget'
  BY <1>1, <1>a DEF Miss, Honest, OneTarget
<1>2. ASSUME NEW r \in Request, Query(r) PROVE OneTarget'
  <2>1. ASSUME NEW q \in Request, req'[q].at # "idle"
        PROVE  req'[q].target = req[q].target /\ req[q].at # "idle"
    <3>1. CASE req' = [req EXCEPT ![r] = Idle]
      BY <2>1, <3>1, <1>a DEF Idle
    <3>2. ASSUME NEW t \in req[r].target,
                 req' = [req EXCEPT ![r] = [@ EXCEPT !.at = "fill", !.answer = Answer(t)]]
          PROVE  req'[q].target = req[q].target /\ req[q].at # "idle"
      <4>1. CASE q = r
        <5>1. req'[q] = [req[q] EXCEPT !.at = "fill", !.answer = Answer(t)]
          BY <3>2, <4>1, <1>a
        <5>2. req[q].at = "query" /\ req[q] \in RequestRecord
          BY <1>2, <4>1, <1>a DEF Query
        <5> QED
          BY <5>1, <5>2 DEF RequestRecord
      <4>2. CASE q # r
        BY <2>1, <3>2, <4>2, <1>a
      <4> QED
        BY <4>1, <4>2
    <3> QED
      BY <1>2, <3>1, <3>2 DEF Query
  <2> QED
    BY <2>1 DEF Honest, OneTarget
<1>3. ASSUME NEW r \in Request, Fill(r) PROVE OneTarget'
  BY <1>3, <1>a DEF Fill, Honest, OneTarget, Idle
<1>4. ASSUME UNCHANGED req PROVE OneTarget'
  BY <1>4 DEF Honest, OneTarget
<1>5. ASSUME NEW t \in Target, Evict(t) \/ Invalidate(t) \/ GiveUp(t) PROVE OneTarget'
  BY <1>4, <1>5 DEF Evict, Invalidate, GiveUp
<1>6. ASSUME NEW h \in Handle, UpdateHandle(h) \/ BurnForget(h) \/ BurnCommit(h) PROVE OneTarget'
  BY <1>4, <1>6 DEF UpdateHandle, BurnForget, BurnCommit
<1>7. ASSUME NEW h \in Handle, NEW acc \in Account, CreateHandle(h, acc) PROVE OneTarget'
  BY <1>4, <1>7 DEF CreateHandle
<1>8. ASSUME NEW a \in Alias, NEW h \in Handle, SetAlias(a, h) PROVE OneTarget'
  BY <1>4, <1>8 DEF SetAlias
<1>9. ASSUME SweepList \/ SweepDelete \/ SweepInvalidate PROVE OneTarget'
  BY <1>4, <1>9 DEF SweepList, SweepDelete, SweepInvalidate
<1>10. ASSUME NEW acc \in Account, DeleteAlias(acc) \/ UpdateSettings(acc) \/ DeleteAccount(acc) \/ Doze(acc)
       PROVE  OneTarget'
  BY <1>4, <1>10 DEF DeleteAlias, UpdateSettings, DeleteAccount, Doze
<1>11. CASE UNCHANGED vars
  BY <1>4, <1>11 DEF vars
<1> QED
  BY <1>1, <1>2, <1>3, <1>5, <1>6, <1>7, <1>8, <1>9, <1>10, <1>11 DEF Next

LEMMA HonestNext == Honest /\ [Next]_vars => Honest'
<1> SUFFICES ASSUME Honest, [Next]_vars PROVE \A t \in Target : Fresh(t)' /\ FreshRequests(t)'
  BY TypeNext, OneTargetNext DEF Honest
<1> DEFINE Goal == \A t \in Target : Fresh(t)' /\ FreshRequests(t)'
<1>a. req \in [Request -> RequestRecord] /\ pending \subseteq Target
  BY TypeParts DEF Honest, MemoryTyped
<1>b. /\ sweep \in [at : {"idle", "listed", "deleted"}, list : SUBSET Alias]
      /\ sweep.list \subseteq Alias /\ Alias \subseteq Target
  BY TypeParts DEF Honest, MemoryTyped, Target
<1>1. ASSUME NEW r \in Request, NEW t \in Target, Miss(r, t) PROVE Goal
  BY <1>1, MissQueryKeep DEF Miss
<1>2. ASSUME NEW r \in Request, Query(r) PROVE Goal
  <2>1. UNCHANGED <<rows, cache, pending, sweep, left, raced>>
    BY <1>2 DEF Query
  <2>2. CASE req' = [req EXCEPT ![r] = Idle]
    BY <2>1, <2>2, MissQueryKeep DEF Idle
  <2>3. ASSUME NEW t \in req[r].target, req' = [req EXCEPT ![r] = [@ EXCEPT !.at = "fill", !.answer = Answer(t)]]
        PROVE  Goal
    <3> DEFINE c == [req[r] EXCEPT !.at = "fill", !.answer = Answer(t)]
    <3>1. c.answer = Answer(t) /\ c.target = req[r].target
      BY <1>a DEF RequestRecord
    <3>2. \A u \in c.target : u = t
      <4>1. PICK v \in Target : req[r].target = {v}
        BY <1>2 DEF Honest, OneTarget, Query
      <4> QED
        BY <2>3, <3>1, <4>1
    <3>3. req' = [req EXCEPT ![r] = c]
      BY <2>3
    <3> HIDE DEF c
    <3> QED
      BY <2>1, <3>1, <3>2, <3>3, MissQueryKeep
  <2> QED
    BY <1>2, <2>2, <2>3 DEF Query
<1>3. ASSUME NEW r \in Request, Fill(r) PROVE Goal
  BY <1>3, FillKeeps
<1>4. ASSUME NEW t \in Target, Evict(t) PROVE Goal
  BY <1>4, DropKeeps DEF Evict, ToInvalidate
<1>5. ASSUME NEW t \in Target, Invalidate(t) PROVE Goal
  <2>1. ToInvalidate \subseteq ToInvalidate' \cup {t} /\ UNCHANGED <<rows, req>>
    BY <1>5 DEF Invalidate, ToInvalidate
  <2> QED
    BY <1>5, <2>1, DropKeeps DEF Invalidate, Drop
<1>c. ASSUME NEW t \in Target, GiveUp(t) PROVE Goal
  <2>1. /\ ToInvalidate \subseteq ToInvalidate' \cup {t} /\ UNCHANGED <<cache, req>> /\ raced' = raced
        /\ left' = left \cup {u \in {t} : Known(u)} /\ \A u : Answer(u)' = Answer(u)
    BY <1>c DEF GiveUp, Leaves, ToInvalidate, Answer, HandleAnswer, rows
  <2>2. Known(t) \/ (cache[t] = Uncached /\ \A r \in Request : ~(req[r].at = "fill" /\ t \in req[r].target))
    BY DEF Known
  <2> QED
    BY <2>1, <2>2 DEF Honest, Fresh, FreshRequests, Covered
<1>6. ASSUME NEW h \in Handle, BurnForget(h) PROVE Goal
  <2>1. ToInvalidate' = ToInvalidate /\ UNCHANGED <<rows, req>> /\ h \in Target
    BY <1>6 DEF BurnForget, ToInvalidate, Target
  <2> QED
    BY <1>6, <2>1, DropKeeps DEF BurnForget, Drop
<1>7. CASE SweepInvalidate
  <2>1. ASSUME NEW a \in sweep.list, Drop(a), sweep' = [sweep EXCEPT !.list = @ \ {a}] PROVE Goal
    <3>1. ToInvalidate \subseteq ToInvalidate' \cup {a} /\ UNCHANGED <<rows, req>> /\ a \in Target
      BY <1>7, <2>1, <1>b DEF SweepInvalidate, ToInvalidate
    <3> QED
      BY <2>1, <3>1, DropKeeps DEF Drop
  <2>2. CASE sweep.list = {} /\ sweep' = [sweep EXCEPT !.at = "idle"] /\ UNCHANGED <<cache, left, raced>>
    <3>1. ToInvalidate' = ToInvalidate /\ UNCHANGED <<rows, req, cache, left, raced>>
      BY <1>7, <2>2, <1>b DEF SweepInvalidate, ToInvalidate
    <3> QED
      BY <3>1 DEF Honest, Fresh, FreshRequests, Covered, Answer, HandleAnswer, rows
  <2> QED
    BY <1>7, <2>1, <2>2 DEF SweepInvalidate
\* What each handler changes is among what it leaves or has still to invalidate.
<1>d. RowsTyped
  BY TypeParts DEF Honest
<1>8. ASSUME NEW h \in Handle, NEW acc \in Account, CreateHandle(h, acc) PROVE Goal
  <2>1. UNCHANGED <<cache, req>> /\ ToInvalidate' = ToInvalidate /\ Leaves({h})
    BY <1>8 DEF CreateHandle, ToInvalidate
  <2>2. \A t \in Target \ {h} : Answer(t)' = Answer(t)
    BY <1>8, <1>d, ReachAssumption DEF CreateHandle, RowsTyped, Minted, Answer, HandleAnswer
  <2> QED
    BY <2>1, <2>2, LeaveKeeps
<1>9. ASSUME NEW h \in Handle, UpdateHandle(h) PROVE Goal
  <2>1. UNCHANGED <<cache, req>> /\ ToInvalidate' = ToInvalidate \cup {h} /\ Leaves(AliasesAt(h))
    BY <1>9 DEF UpdateHandle, ToInvalidate
  <2>2. \A t \in Target \ AliasesAt(h) : t # h => Answer(t)' = Answer(t)
    BY <1>9 DEF UpdateHandle, AliasesAt, Answer, HandleAnswer
  <2> QED
    BY <2>1, <2>2, LeaveKeeps
<1>10. ASSUME NEW h \in Handle, BurnCommit(h) PROVE Goal
  <2>1. UNCHANGED <<cache, req, pending, sweep>> /\ ToInvalidate' = ToInvalidate
    BY <1>10 DEF BurnCommit, ToInvalidate
  <2>2. CASE /\ owner' = [owner EXCEPT ![h] = Nobody]
             /\ paused' = paused \ {h}
             /\ alias' = [a \in Alias |-> IF alias[a] = h THEN NoHandle ELSE alias[a]]
             /\ left' = left \cup {a \in AliasesAt(h) : Known(a)}
             /\ raced' = IF Known(h) THEN raced \cup {h} ELSE raced
             /\ UNCHANGED <<open, asleep>>
    <3>1. \A t \in Target \ AliasesAt(h) : t # h => Answer(t)' = Answer(t)
      BY <2>2, <1>d DEF RowsTyped, AliasesAt, Answer, HandleAnswer
    <3>2. \A t \in Target : Known(t) /\ ~Covered(t)' => Answer(t)' = Answer(t)
      BY <2>2, <3>1 DEF Covered
    <3> QED
      BY <2>1, <2>2, <3>2, ChangeKeeps
  <2>3. CASE UNCHANGED <<rows, left, raced>>
    BY <2>1, <2>3 DEF Honest, Fresh, FreshRequests, Covered, Answer, HandleAnswer, rows
  <2> QED
    BY <1>10, <2>2, <2>3 DEF BurnCommit
<1>11. ASSUME NEW a \in Alias, NEW h \in Handle, SetAlias(a, h) PROVE Goal
  <2>1. /\ UNCHANGED <<cache, req, left, raced>> /\ ToInvalidate' = ToInvalidate \cup {a}
    BY <1>11 DEF SetAlias, ToInvalidate
  <2>2. \A t \in Target : t # a => Answer(t)' = Answer(t)
    BY <1>11, <1>d DEF SetAlias, RowsTyped, Answer, HandleAnswer
  <2>3. \A t \in Target : Known(t) /\ ~Covered(t)' => Answer(t)' = Answer(t)
    BY <2>1, <2>2 DEF Covered
  <2> QED
    BY <2>1, <2>3, ChangeKeeps
<1>e. ASSUME NEW S, Released(S), UNCHANGED <<owner, paused, open>>
      PROVE  \A t \in Target \ AliasesOf(S) : Answer(t)' = Answer(t)
  BY <1>e DEF Released, AliasesOf, Answer, HandleAnswer
<1>12. CASE SweepDelete
  <2>0. UNCHANGED <<cache, req, owner, paused, open, asleep, pending>>
    BY <1>12 DEF SweepDelete
  <2>1. CASE /\ sweep' = [sweep EXCEPT !.at = "deleted"]
             /\ Released(asleep)
             /\ Leaves(AliasesOf(asleep) \ sweep.list)
    <3>1. ToInvalidate \cup sweep.list \subseteq ToInvalidate'
      BY <2>0, <2>1, <1>b DEF ToInvalidate
    <3>2. \A t \in Target \ (AliasesOf(asleep) \ sweep.list) : t \in ToInvalidate' \/ Answer(t)' = Answer(t)
      BY <2>0, <2>1, <1>e, <3>1
    <3> QED
      BY <2>0, <2>1, <3>1, <3>2, LeaveKeeps
  <2>2. ASSUME sweep' = [at |-> "idle", list |-> {}] PROVE ToInvalidate' = ToInvalidate
    BY <1>12, <2>0, <2>2 DEF SweepDelete, ToInvalidate
  <2>3. CASE /\ sweep' = [at |-> "idle", list |-> {}]
             /\ Released(asleep)
             /\ Leaves(AliasesOf(asleep))
    <3>1. \A t \in Target \ AliasesOf(asleep) : Answer(t)' = Answer(t)
      BY <2>0, <2>3, <1>e
    <3> QED
      BY <2>0, <2>2, <2>3, <3>1, LeaveKeeps
  <2>4. CASE sweep' = [at |-> "idle", list |-> {}] /\ UNCHANGED <<alias, left, raced>>
    BY <2>0, <2>2, <2>4 DEF Honest, Fresh, FreshRequests, Covered, Answer, HandleAnswer
  <2> QED
    BY <1>12, <2>1, <2>3, <2>4 DEF SweepDelete
<1>13. ASSUME NEW acc \in Account, DeleteAlias(acc) \/ UpdateSettings(acc) \/ DeleteAccount(acc) PROVE Goal
  <2>1. UNCHANGED <<cache, req, pending, sweep>> /\ ToInvalidate' = ToInvalidate
    BY <1>13 DEF DeleteAlias, UpdateSettings, DeleteAccount, ToInvalidate
  <2>2. CASE DeleteAlias(acc)
    <3>1. Leaves(AliasesOf({acc})) /\ \A t \in Target \ AliasesOf({acc}) : Answer(t)' = Answer(t)
      BY <1>e, <2>2 DEF DeleteAlias
    <3> QED
      BY <2>1, <3>1, LeaveKeeps
  <2>3. CASE UpdateSettings(acc)
    <3>1. \A h \in Handle : owner[h] # acc => HandleAnswer(h)' = HandleAnswer(h)
      BY <2>3 DEF UpdateSettings, HandleAnswer
    <3>2. \A t \in Target \ TargetsOf(acc) : Answer(t)' = Answer(t)
      <4> SUFFICES ASSUME NEW t \in Target \ TargetsOf(acc) PROVE Answer(t)' = Answer(t)
        OBVIOUS
      <4>1. CASE t \notin Alias
        BY <3>1, <4>1 DEF Answer, TargetsOf, Target
      <4>2. CASE t \in Alias
        <5>1. CASE alias[t] = NoHandle
          BY <2>3, <4>2, <5>1, ReachAssumption DEF UpdateSettings, Answer, HandleAnswer
        <5>2. CASE alias[t] # NoHandle
          <6>1. alias[t] \in Handle /\ owner[alias[t]] # acc
            BY <1>d, <4>2, <5>2 DEF RowsTyped, Minted, TargetsOf, AliasesOf, OwnerOf
          <6> QED
            BY <2>3, <3>1, <4>2, <6>1 DEF Answer, UpdateSettings
        <5> QED
          BY <5>1, <5>2
      <4> QED
        BY <4>1, <4>2
    <3> QED
      BY <2>1, <2>3, <3>2, LeaveKeeps DEF UpdateSettings
  <2>4. CASE DeleteAccount(acc)
    <3>1. \A h \in Handle : owner[h] # acc => HandleAnswer(h)' = HandleAnswer(h)
      BY <1>d, <2>4 DEF DeleteAccount, HandleAnswer, RowsTyped
    <3>2. \A t \in Target \ TargetsOf(acc) : Answer(t)' = Answer(t)
      <4> SUFFICES ASSUME NEW t \in Target \ TargetsOf(acc) PROVE Answer(t)' = Answer(t)
        OBVIOUS
      <4>1. CASE t \notin Alias
        BY <3>1, <4>1 DEF Answer, TargetsOf, Target
      <4>2. CASE t \in Alias
        <5>a. alias'[t] = alias[t]
          BY <2>4, <4>2 DEF DeleteAccount, Released, TargetsOf, AliasesOf
        <5>1. CASE alias[t] = NoHandle
          BY <4>2, <5>a, <5>1, ReachAssumption DEF Answer, HandleAnswer
        <5>2. CASE alias[t] # NoHandle
          <6>1. alias[t] \in Handle /\ owner[alias[t]] # acc
            BY <1>d, <4>2, <5>2 DEF RowsTyped, Minted, TargetsOf, AliasesOf, OwnerOf
          <6> QED
            BY <3>1, <4>2, <5>a, <6>1 DEF Answer
        <5> QED
          BY <5>1, <5>2
      <4> QED
        BY <4>1, <4>2
    <3> QED
      BY <2>1, <2>4, <3>2, LeaveKeeps DEF DeleteAccount
  <2> QED
    BY <1>13, <2>2, <2>3, <2>4
<1>14. ASSUME UNCHANGED <<owner, paused, alias, open, cache, req, left, raced>>, ToInvalidate' = ToInvalidate PROVE Goal
  BY <1>14 DEF Honest, Fresh, FreshRequests, Covered, Answer, HandleAnswer
<1>15. CASE SweepList
  BY <1>14, <1>15 DEF SweepList, ToInvalidate, rows
<1>16. ASSUME NEW acc \in Account, Doze(acc) PROVE Goal
  BY <1>14, <1>16 DEF Doze, ToInvalidate
<1>17. CASE UNCHANGED vars
  BY <1>14, <1>17 DEF vars, ToInvalidate, rows
<1> QED
  BY <1>1, <1>2, <1>3, <1>4, <1>5, <1>6, <1>7, <1>8, <1>9, <1>10, <1>11, <1>12, <1>13, <1>15, <1>16, <1>17, <1>c DEF Next

\* A cached answer that is out of date is about to be invalidated, was answered past
\* the invalidation, or was put out of date by one of the handlers that do not
\* invalidate it (StaleOnlyBehind names them).
THEOREM OnlyStaleBehind == Spec => []StaleOnlyBehind
<1>1. Honest => StaleOnlyBehind
  BY DEF Honest, Fresh, Covered, StaleOnlyBehind
<1> QED
  BY <1>1, HonestInit, HonestNext, PTL DEF Spec

-------------------------------------------------------------------------------
(* The list of the resolver's cache (ResolverCache): any keys, callers and *)
(* capacity, any number of versions and of races.                          *)

\* Live and dead elements of a list, the targets of the live ones, and what
\* the live ones say.
Alive(l) == {i \in DOMAIN l : l[i].live}
Dead(l) == {i \in DOMAIN l : ~l[i].live}
Held(l) == {l[i].target : i \in Alive(l)}
Says(l) == {<<l[i].target, l[i].version>> : i \in Alive(l)}
Unique(l) == \A i, j \in DOMAIN l : l[i].live /\ l[j].live /\ l[i].target = l[j].target => i = j

\* A list of elements no target of which is live twice.
Sound(l) == l \in Seq(Element) /\ Unique(l)

LEMMA Elements ==
  ASSUME NEW l, Sound(l)
  PROVE  /\ Len(l) \in Nat /\ DOMAIN l = 1 .. Len(l)
         /\ \A i \in 1 .. Len(l) :
              l[i] \in Element /\ l[i].target \in Key /\ l[i].version \in Version /\ l[i].live \in BOOLEAN
<1>1. l \in Seq(Element)
  BY DEF Sound
<1>2. Len(l) \in Nat /\ DOMAIN l = 1 .. Len(l)
  BY <1>1, LenProperties
<1>3. \A i \in 1 .. Len(l) : l[i] \in Element
  BY <1>1, ElementOfSeq
<1>4. \A e \in Element : e.target \in Key /\ e.version \in Version /\ e.live \in BOOLEAN
  BY DEF Element
<1> QED
  BY <1>2, <1>3, <1>4

LEMMA PlacesFinite ==
  ASSUME NEW l, Sound(l)
  PROVE  /\ IsFiniteSet(Dead(l)) /\ Cardinality(Dead(l)) \in Nat
         /\ IsFiniteSet(Alive(l)) /\ Cardinality(Alive(l)) \in Nat
<1>1. DOMAIN l = 1 .. Len(l) /\ Len(l) \in Nat
  BY Elements
<1>2. IsFiniteSet(DOMAIN l)
  BY <1>1, FS_Interval
<1>3. Dead(l) \in SUBSET DOMAIN l /\ Alive(l) \in SUBSET DOMAIN l
  BY DEF Dead, Alive
<1> QED
  BY <1>2, <1>3, FS_Subset, FS_CardinalityType

\* Every element is live, for a target of its own, or dead.
LEMMA LengthIs ==
  ASSUME NEW l, Sound(l)
  PROVE  /\ IsFiniteSet(Held(l)) /\ Cardinality(Held(l)) \in Nat
         /\ Len(l) <= Cardinality(Held(l)) + Cardinality(Dead(l))
<1>1. DOMAIN l = 1 .. Len(l) /\ Len(l) \in Nat
  BY Elements
<1>2. IsFiniteSet(Dead(l)) /\ IsFiniteSet(Alive(l)) /\ Cardinality(Dead(l)) \in Nat
  BY PlacesFinite
<1> DEFINE f == [i \in Alive(l) |-> l[i].target]
<1>3. f \in [Alive(l) -> Held(l)] /\ \A i, j \in Alive(l) : f[i] = f[j] => i = j
  BY DEF Alive, Held, Sound, Unique
<1>4. \A t \in Held(l) : \E i \in Alive(l) : f[i] = t
  BY DEF Held
<1>5. f \in Surjection(Alive(l), Held(l))
  BY <1>3, <1>4, Zenon DEF Surjection
<1>6. IsFiniteSet(Held(l)) /\ Cardinality(Held(l)) \in Nat
  BY <1>2, <1>5, FS_Surjection, FS_CardinalityType
<1>7. f \in Injection(Alive(l), Held(l))
  BY <1>3, Zenon DEF Injection, IsInjective
<1>8. Cardinality(Alive(l)) <= Cardinality(Held(l))
  BY <1>6, <1>7, FS_Injection
<1>9. Cardinality(DOMAIN l) = Len(l)
  <2>1. \A n \in Nat : Cardinality(1 .. n) = n
    BY FS_Interval
  <2> QED
    BY <1>1, <2>1
<1>10. DOMAIN l = Alive(l) \cup Dead(l)
  BY DEF Alive, Dead
<1>11. Cardinality(DOMAIN l) = Cardinality(Alive(l)) + Cardinality(Dead(l)) - Cardinality(Alive(l) \cap Dead(l))
  BY <1>2, <1>10, FS_Union
<1>12. Cardinality(Alive(l) \cap Dead(l)) \in Nat /\ Cardinality(Alive(l)) \in Nat
  BY <1>2, FS_Subset, FS_CardinalityType
<1> QED
  BY <1>1, <1>2, <1>6, <1>8, <1>9, <1>11, <1>12

LEMMA ForgetIs ==
  ASSUME NEW l, Sound(l), NEW t
  PROVE  LET f == Forget(l, t)
         IN  /\ Sound(f) /\ Len(f) = Len(l)
             /\ \A i \in 1 .. Len(l) : f[i].live <=> l[i].live /\ l[i].target # t
             /\ Says(f) \subseteq Says(l) /\ t \notin Held(f)
             /\ Cardinality(Dead(f)) <= Cardinality(Dead(l)) + IF t \in Held(l) THEN 1 ELSE 0
<1> DEFINE f == Forget(l, t)
<1>1. Len(l) \in Nat /\ DOMAIN l = 1 .. Len(l) /\ \A i \in 1 .. Len(l) : l[i] \in Element
  BY Elements
<1>2. f = [i \in 1 .. Len(l) |-> IF l[i].target = t THEN [l[i] EXCEPT !.live = FALSE] ELSE l[i]]
  BY <1>1 DEF Forget
<1>3. ASSUME NEW i \in 1 .. Len(l)
      PROVE  /\ f[i] \in Element
             /\ f[i].target = l[i].target /\ f[i].version = l[i].version
             /\ f[i].live <=> l[i].live /\ l[i].target # t
  BY <1>1, <1>2 DEF Element
<1>4. f \in [1 .. Len(l) -> Element]
  BY <1>2, <1>3
<1>5. f \in Seq(Element) /\ Len(f) = Len(l) /\ DOMAIN f = 1 .. Len(l)
  BY <1>1, <1>4, IsASeq, LenProperties
<1> HIDE DEF f
<1>6. Sound(f)
  BY <1>1, <1>3, <1>5 DEF Sound, Unique
<1>7. Says(f) \subseteq Says(l) /\ t \notin Held(f)
  BY <1>1, <1>3, <1>5 DEF Says, Held, Alive
<1>8. Cardinality(Dead(f)) <= Cardinality(Dead(l)) + IF t \in Held(l) THEN 1 ELSE 0
  <2>1. IsFiniteSet(Dead(l)) /\ Cardinality(Dead(l)) \in Nat
    BY PlacesFinite
  <2>2. CASE t \in Held(l)
    <3>1. PICK q \in Alive(l) : l[q].target = t
      BY <2>2 DEF Held
    <3>2. Dead(f) \in SUBSET (Dead(l) \cup {q})
      BY <1>1, <1>3, <1>5, <3>1 DEF Dead, Alive, Sound, Unique
    <3>3. IsFiniteSet(Dead(l) \cup {q}) /\ Cardinality(Dead(l) \cup {q}) <= Cardinality(Dead(l)) + 1
      <4>1. /\ IsFiniteSet(Dead(l) \cup {q})
            /\ Cardinality(Dead(l) \cup {q}) \in {Cardinality(Dead(l)), Cardinality(Dead(l)) + 1}
        BY <2>1, FS_AddElement
      <4> QED
        BY <2>1, <4>1
    <3>4. Cardinality(Dead(f)) <= Cardinality(Dead(l) \cup {q})
      BY <3>2, <3>3, FS_Subset
    <3>5. Cardinality(Dead(f)) \in Nat /\ Cardinality(Dead(l) \cup {q}) \in Nat
      BY <1>6, <3>3, PlacesFinite, FS_CardinalityType
    <3> QED
      BY <2>1, <2>2, <3>3, <3>4, <3>5
  <2>3. CASE t \notin Held(l)
    <3>1. Dead(f) \in SUBSET Dead(l)
      BY <1>1, <1>3, <1>5, <2>3 DEF Dead, Alive, Held
    <3>2. Cardinality(Dead(f)) <= Cardinality(Dead(l))
      BY <2>1, <3>1, FS_Subset
    <3> QED
      BY <2>1, <2>3, <3>2
  <2> QED
    BY <2>2, <2>3
<1> QED
  BY <1>3, <1>5, <1>6, <1>7, <1>8 DEF f

\* Where the elements of a list are found in the list without place i.
Past(i, j) == IF j < i THEN j ELSE j + 1

LEMMA RemoveAtIs ==
  ASSUME NEW l, Sound(l), NEW i \in 1 .. Len(l)
  PROVE  LET m == RemoveAt(l, i)
         IN  /\ Sound(m) /\ Len(m) = Len(l) - 1
             /\ \A j \in 1 .. Len(m) : m[j] = l[Past(i, j)] /\ Past(i, j) \in 1 .. Len(l) /\ Past(i, j) # i
             /\ Says(m) \subseteq Says(l)
             /\ l[i].live => l[i].target \notin Held(m)
             /\ Cardinality(Dead(m)) <= Cardinality(Dead(l))
             /\ ~l[i].live => Cardinality(Dead(m)) + 1 <= Cardinality(Dead(l))
<1> DEFINE m == RemoveAt(l, i)
           a == SubSeq(l, 1, i - 1)
           b == SubSeq(l, i + 1, Len(l))
           n == Len(l)
<1>1. n \in Nat /\ DOMAIN l = 1 .. n /\ (\A j \in 1 .. n : l[j] \in Element) /\ i \in Nat /\ 1 <= i /\ i <= n
  BY Elements
<1>2. m = a \o b
  BY DEF RemoveAt
<1>3. a \in Seq(Element) /\ Len(a) = i - 1 /\ \A j \in 1 .. i - 1 : a[j] = l[j]
  <2>1. i - 1 \in Int /\ 1 \in Int /\ \A j \in 1 .. i - 1 : l[j] \in Element
    BY <1>1
  <2> HIDE DEF n
  <2>2. /\ a \in Seq(Element) /\ Len(a) = IF 1 <= i - 1 THEN i - 1 - 1 + 1 ELSE 0
        /\ \A j \in 1 .. i - 1 - 1 + 1 : a[j] = l[1 + j - 1]
    BY <2>1, SubSeqProperties
  <2> QED
    BY <1>1, <2>2
<1>4. b \in Seq(Element) /\ Len(b) = n - i /\ \A j \in 1 .. n - i : b[j] = l[i + j]
  <2>1. i + 1 \in Int /\ n \in Int /\ \A j \in i + 1 .. n : l[j] \in Element
    BY <1>1
  <2>2. /\ b \in Seq(Element) /\ Len(b) = IF i + 1 <= n THEN n - (i + 1) + 1 ELSE 0
        /\ \A j \in 1 .. n - (i + 1) + 1 : b[j] = l[i + 1 + j - 1]
    BY <2>1, SubSeqProperties
  <2> HIDE DEF n, b
  <2>3. (IF i + 1 <= n THEN n - (i + 1) + 1 ELSE 0) = n - i /\ n - (i + 1) + 1 = n - i
    BY <1>1
  <2>4. \A j \in 1 .. n - i : i + 1 + j - 1 = i + j
    BY <1>1
  <2> QED
    BY <2>2, <2>3, <2>4
<1> HIDE DEF a, b, n
<1>5. /\ a \o b \in Seq(Element) /\ Len(a \o b) = n - 1
      /\ \A j \in 1 .. n - 1 : (a \o b)[j] = IF j <= i - 1 THEN a[j] ELSE b[j - (i - 1)]
  BY <1>1, <1>3, <1>4, ConcatProperties
<1> HIDE DEF m
<1>6. m \in Seq(Element) /\ Len(m) = n - 1 /\ DOMAIN m = 1 .. n - 1
  BY <1>2, <1>5
<1>7. ASSUME NEW j \in 1 .. n - 1 PROVE m[j] = l[Past(i, j)] /\ Past(i, j) \in 1 .. n /\ Past(i, j) # i
  <2>1. CASE j < i
    BY <1>1, <1>2, <1>3, <1>5, <2>1 DEF Past
  <2>2. CASE ~(j < i)
    <3>1. j - (i - 1) \in 1 .. n - i /\ ~(j <= i - 1) /\ i + (j - (i - 1)) = j + 1 /\ j + 1 \in 1 .. n
      BY <1>1, <2>2
    <3> QED
      BY <1>1, <1>2, <1>4, <1>5, <2>2, <3>1 DEF Past
  <2> QED
    BY <2>1, <2>2
<1>8. \A j, k \in 1 .. n - 1 : Past(i, j) = Past(i, k) => j = k
  BY <1>1 DEF Past
<1>9. Sound(m)
  <2> SUFFICES ASSUME NEW j \in 1 .. n - 1, NEW k \in 1 .. n - 1, m[j].live, m[k].live, m[j].target = m[k].target
               PROVE  j = k
    BY <1>6 DEF Sound, Unique
  <2>1. Past(i, j) = Past(i, k)
    BY <1>1, <1>7 DEF Sound, Unique
  <2> QED
    BY <1>8, <2>1
<1>10. Says(m) \subseteq Says(l)
  BY <1>1, <1>6, <1>7 DEF Says, Alive
<1>11. l[i].live => l[i].target \notin Held(m)
  <2> SUFFICES ASSUME l[i].live, l[i].target \in Held(m) PROVE FALSE
    OBVIOUS
  <2>1. PICK j \in 1 .. n - 1 : m[j].live /\ m[j].target = l[i].target
    BY <1>6 DEF Held, Alive
  <2>2. m[j] = l[Past(i, j)] /\ Past(i, j) \in 1 .. n /\ Past(i, j) # i
    BY <1>7
  <2>3. \A k \in 1 .. n : l[k].live /\ l[k].target = l[i].target => k = i
    BY <1>1 DEF Sound, Unique
  <2> QED
    BY <2>1, <2>2, <2>3
<1>12. Cardinality(Dead(m)) <= Cardinality(Dead(l)) /\ (~l[i].live => Cardinality(Dead(m)) + 1 <= Cardinality(Dead(l)))
  <2> DEFINE g == [j \in Dead(m) |-> Past(i, j)]
             D == Dead(l) \ {i}
  <2>1. \A j \in Dead(m) : j \in 1 .. n - 1 /\ Past(i, j) \in D
    BY <1>1, <1>6, <1>7 DEF Dead
  <2>2. g \in [Dead(m) -> D] /\ \A j, k \in Dead(m) : g[j] = g[k] => j = k
    BY <1>8, <2>1
  <2>3. g \in Injection(Dead(m), D)
    BY <2>2, Zenon DEF Injection, IsInjective
  <2>4. IsFiniteSet(Dead(l)) /\ Cardinality(Dead(l)) \in Nat /\ Cardinality(Dead(m)) \in Nat
    BY <1>9, PlacesFinite
  <2>5. IsFiniteSet(D) /\ Cardinality(D) = IF i \in Dead(l) THEN Cardinality(Dead(l)) - 1 ELSE Cardinality(Dead(l))
    BY <2>4, FS_RemoveElement
  <2>6. Cardinality(Dead(m)) <= Cardinality(D)
    BY <2>3, <2>5, FS_Injection
  <2>7. ~l[i].live => i \in Dead(l)
    BY <1>1 DEF Dead
  <2> QED
    BY <2>4, <2>5, <2>6, <2>7
<1> QED
  BY <1>6, <1>7, <1>9, <1>10, <1>11, <1>12 DEF m, n

\* A live element in front, of a target that no other holds.
LEMMA PushFrontIs ==
  ASSUME NEW l, Sound(l), NEW e \in Element, e.live, e.target \notin Held(l)
  PROVE  LET m == <<e>> \o l
         IN  /\ Sound(m) /\ Len(m) = Len(l) + 1
             /\ Says(m) \subseteq Says(l) \cup {<<e.target, e.version>>}
             /\ Cardinality(Dead(m)) <= Cardinality(Dead(l))
<1> DEFINE m == <<e>> \o l
           n == Len(l)
<1>1. n \in Nat /\ DOMAIN l = 1 .. n /\ l \in Seq(Element)
  BY Elements DEF Sound
<1>2. <<e>> \in Seq(Element) /\ Len(<<e>>) = 1 /\ <<e>>[1] = e
  OBVIOUS
<1>3. /\ m \in Seq(Element) /\ Len(m) = 1 + n
      /\ \A j \in 1 .. 1 + n : m[j] = IF j <= 1 THEN <<e>>[j] ELSE l[j - 1]
  BY <1>1, <1>2, ConcatProperties
<1>4. DOMAIN m = 1 .. n + 1 /\ m[1] = e /\ \A j \in 2 .. n + 1 : m[j] = l[j - 1] /\ j - 1 \in 1 .. n
  BY <1>1, <1>2, <1>3, LenProperties
<1>5. \A j \in 1 .. n + 1 : j = 1 \/ j \in 2 .. n + 1
  BY <1>1
<1> HIDE DEF m, n
<1>6. ASSUME NEW j \in 2 .. n + 1, m[j].live PROVE m[j].target # e.target
  BY <1>1, <1>4, <1>6 DEF Held, Alive
<1>7. Sound(m)
  <2> SUFFICES ASSUME NEW j \in 1 .. n + 1, NEW k \in 1 .. n + 1, m[j].live, m[k].live, m[j].target = m[k].target
               PROVE  j = k
    BY <1>3, <1>4 DEF Sound, Unique
  <2>1. CASE j = 1 \/ k = 1
    BY <1>4, <1>5, <1>6, <2>1
  <2>2. CASE j \in 2 .. n + 1 /\ k \in 2 .. n + 1
    <3>1. j - 1 = k - 1
      BY <1>1, <1>4, <2>2 DEF Sound, Unique
    <3> QED
      BY <1>1, <2>2, <3>1
  <2> QED
    BY <1>5, <2>1, <2>2
<1>8. Says(m) \subseteq Says(l) \cup {<<e.target, e.version>>}
  <2> SUFFICES ASSUME NEW j \in 2 .. n + 1, m[j].live PROVE <<m[j].target, m[j].version>> \in Says(l)
    BY <1>4, <1>5 DEF Says, Alive
  <2> QED
    BY <1>1, <1>4 DEF Says, Alive
<1>9. Cardinality(Dead(m)) <= Cardinality(Dead(l))
  <2> DEFINE g == [j \in Dead(m) |-> j - 1]
  <2>1. \A j \in Dead(m) : j \in 2 .. n + 1 /\ j - 1 \in Dead(l)
    BY <1>1, <1>4, <1>5 DEF Dead
  <2>2. g \in [Dead(m) -> Dead(l)] /\ \A j, k \in Dead(m) : g[j] = g[k] => j = k
    BY <1>1, <2>1
  <2>3. g \in Injection(Dead(m), Dead(l))
    BY <2>2, Zenon DEF Injection, IsInjective
  <2> QED
    BY <2>3, PlacesFinite, FS_Injection
<1> QED
  BY <1>1, <1>3, <1>7, <1>8, <1>9 DEF m, n

\* An element that removeElementLocked takes out goes, and with it the claim
\* of its target; a live element of the target that is not this one is dead.
LEMMA RemoveElementIs ==
  ASSUME NEW l, Sound(l), NEW i \in 1 .. Len(l)
  PROVE  LET m == RemoveElement(l, i)
         IN  /\ Sound(m) /\ Len(m) = Len(l) - 1
             /\ Says(m) \subseteq Says(l) /\ l[i].target \notin Held(m)
             /\ Cardinality(Dead(m)) <= Cardinality(Dead(l))
<1> DEFINE t == l[i].target
           f == Forget(l, t)
           m == RemoveAt(f, i)
<1>1. /\ Sound(f) /\ Len(f) = Len(l) /\ ~f[i].live /\ Says(f) \subseteq Says(l) /\ t \notin Held(f)
      /\ Cardinality(Dead(f)) <= Cardinality(Dead(l)) + IF t \in Held(l) THEN 1 ELSE 0
  BY ForgetIs
<1>2. RemoveElement(l, i) = m
  BY DEF RemoveElement
<1> HIDE DEF t, f
<1>3. /\ Sound(m) /\ Len(m) = Len(f) - 1 /\ Says(m) \subseteq Says(f)
      /\ Cardinality(Dead(m)) + 1 <= Cardinality(Dead(f))
  <2>1. i \in 1 .. Len(f)
    BY <1>1
  <2> QED
    BY <1>1, <2>1, RemoveAtIs
<1> HIDE DEF m
<1>4. t \notin Held(m)
  <2>1. \A u : u \in Held(m) => \E v : <<u, v>> \in Says(m)
    BY DEF Held, Says, Alive
  <2>2. \A u, v : <<u, v>> \in Says(f) => u \in Held(f)
    BY DEF Held, Says, Alive
  <2> QED
    BY <1>1, <1>3, <2>1, <2>2
<1>5. Cardinality(Dead(l)) \in Nat /\ Cardinality(Dead(f)) \in Nat /\ Cardinality(Dead(m)) \in Nat
  BY <1>1, <1>3, PlacesFinite
<1>6. Cardinality(Dead(m)) <= Cardinality(Dead(l))
  BY <1>1, <1>3, <1>5
<1> QED
  BY <1>1, <1>2, <1>3, <1>4, <1>6 DEF t

\* The targets that have a claim are those that a live element speaks of.
LEMMA HeldSays == \A l, t : t \in Held(l) <=> \E v : <<t, v>> \in Says(l)
  BY DEF Held, Says, Alive

LEMMA ItemsHeld == Items = Held(list)
  BY DEF Items, LivePlaces, Held, Alive

LEMMA PlaceIs ==
  ASSUME Sound(list), NEW t \in Held(list)
  PROVE  LET p == PlaceOf(t)
         IN  p \in 1 .. Len(list) /\ list[p].live /\ list[p].target = t
<1>1. PICK i \in DOMAIN list : list[i].live /\ list[i].target = t
  BY DEF Held, Alive
<1>2. i \in LivePlaces
  BY <1>1 DEF LivePlaces
<1>3. PlaceOf(t) \in LivePlaces /\ list[PlaceOf(t)].target = t
  BY <1>1, <1>2 DEF PlaceOf
<1> QED
  BY <1>3, Elements DEF LivePlaces

\* The cardinality the instance speaks of.
LEMMA ItemsNumber == Cardinality(Items) = Cardinality(Held(list))
  BY ItemsHeld

\* Making room, if items is full.
LEMMA EvictedIs ==
  ASSUME Sound(list)
  PROVE  LET m == Evicted(list)
         IN  /\ Sound(m) /\ Says(m) \subseteq Says(list)
             /\ Cardinality(Dead(m)) <= Cardinality(Dead(list))
             /\ Len(m) = IF Cardinality(Held(list)) >= Capacity THEN Len(list) - 1 ELSE Len(list)
<1> DEFINE m == Evicted(list)
<1>1. Len(list) \in Nat /\ DOMAIN list = 1 .. Len(list) /\ Capacity \in Nat \ {0}
  BY Elements, CacheAssumption
<1>2. m = IF Cardinality(Held(list)) >= Capacity /\ list # <<>>
          THEN RemoveElement(list, Len(list)) ELSE list
  BY ItemsNumber DEF Evicted
<1>3. Cardinality(Dead(list)) \in Nat /\ Cardinality(Held(list)) \in Nat
  BY PlacesFinite, LengthIs
<1>4. Cardinality(Held(list)) >= Capacity => list # <<>>
  <2> SUFFICES ASSUME list = <<>> PROVE Cardinality(Held(list)) = 0
    BY <1>1, <1>3
  <2>1. Held(list) = {}
    BY DEF Held, Alive
  <2> QED
    BY <2>1, FS_EmptySet
<1>5. CASE Cardinality(Held(list)) >= Capacity
  <2>1. Len(list) \in 1 .. Len(list)
    BY <1>1, <1>4, <1>5, EmptySeq DEF Sound
  <2>2. m = RemoveElement(list, Len(list))
    BY <1>2, <1>4, <1>5
  <2> HIDE DEF m
  <2>3. /\ Sound(m) /\ Len(m) = Len(list) - 1
        /\ Says(m) \subseteq Says(list)
        /\ Cardinality(Dead(m)) <= Cardinality(Dead(list))
    BY <2>1, <2>2, RemoveElementIs
  <2> QED
    BY <1>5, <2>3 DEF m
<1>6. CASE ~(Cardinality(Held(list)) >= Capacity)
  BY <1>2, <1>3, <1>6
<1> QED
  BY <1>5, <1>6

\* A fill: room, and the element of the answer in front.
LEMMA InsertIs ==
  ASSUME Sound(list), NEW t \in Key, NEW v \in Version
  PROVE  LET m == Insert(list, t, v)
         IN  /\ Sound(m) /\ Says(m) \subseteq Says(list) \cup {<<t, v>>}
             /\ \A w : <<t, w>> \in Says(m) => w = v
             /\ Cardinality(Dead(m)) <= Cardinality(Dead(list)) + IF t \in Held(list) THEN 1 ELSE 0
             /\ Len(m) = IF Cardinality(Held(list)) >= Capacity THEN Len(list) ELSE Len(list) + 1
<1> DEFINE k == Evicted(list)
           f == Forget(k, t)
           e == [target |-> t, version |-> v, live |-> TRUE]
           m == <<e>> \o f
<1>1. Insert(list, t, v) = m
  BY DEF Insert
<1>2. /\ Sound(k) /\ Says(k) \subseteq Says(list) /\ Cardinality(Dead(k)) <= Cardinality(Dead(list))
      /\ Len(k) = IF Cardinality(Held(list)) >= Capacity THEN Len(list) - 1 ELSE Len(list)
  BY EvictedIs
<1> HIDE DEF k
<1>3. /\ Sound(f) /\ Len(f) = Len(k) /\ Says(f) \subseteq Says(k) /\ t \notin Held(f)
      /\ Cardinality(Dead(f)) <= Cardinality(Dead(k)) + IF t \in Held(k) THEN 1 ELSE 0
  BY <1>2, ForgetIs
<1>4. e \in Element /\ e.live /\ e.target = t /\ e.version = v
  BY DEF Element
<1> HIDE DEF f, e
<1>5. /\ Sound(m) /\ Len(m) = Len(f) + 1 /\ Says(m) \subseteq Says(f) \cup {<<t, v>>}
      /\ Cardinality(Dead(m)) <= Cardinality(Dead(f))
  BY <1>3, <1>4, PushFrontIs
<1>6. t \in Held(k) => t \in Held(list)
  BY <1>2, HeldSays
<1>11. \A w : <<t, w>> \in Says(m) => w = v
  BY <1>3, <1>5, HeldSays
<1>7. /\ Cardinality(Dead(list)) \in Nat /\ Cardinality(Dead(k)) \in Nat
      /\ Cardinality(Dead(f)) \in Nat /\ Cardinality(Dead(m)) \in Nat
  BY <1>2, <1>3, <1>5, PlacesFinite
<1>8. Len(list) \in Nat
  BY Elements
<1> HIDE DEF m
<1>9. Cardinality(Dead(m)) <= Cardinality(Dead(list)) + IF t \in Held(list) THEN 1 ELSE 0
  BY <1>2, <1>3, <1>5, <1>6, <1>7
<1>10. Len(m) = IF Cardinality(Held(list)) >= Capacity THEN Len(list) ELSE Len(list) + 1
  BY <1>2, <1>3, <1>5, <1>8
<1> QED
  BY <1>1, <1>2, <1>3, <1>5, <1>9, <1>10, <1>11

\* A hit moves a live element to the front.
LEMMA HitIs ==
  ASSUME Sound(list), NEW t \in Held(list)
  PROVE  LET m == <<list[PlaceOf(t)]>> \o RemoveAt(list, PlaceOf(t))
         IN  /\ Sound(m) /\ Len(m) = Len(list) /\ Says(m) \subseteq Says(list)
             /\ Cardinality(Dead(m)) <= Cardinality(Dead(list))
<1> DEFINE p == PlaceOf(t)
           e == list[p]
           k == RemoveAt(list, p)
           m == <<e>> \o k
<1>1. p \in 1 .. Len(list) /\ list[p].live /\ list[p].target = t
  BY PlaceIs
<1> HIDE DEF p
<1>2. e \in Element /\ e.live /\ Len(list) \in Nat /\ DOMAIN list = 1 .. Len(list)
  BY <1>1, Elements
<1>3. /\ Sound(k) /\ Len(k) = Len(list) - 1 /\ Says(k) \subseteq Says(list) /\ e.target \notin Held(k)
      /\ Cardinality(Dead(k)) <= Cardinality(Dead(list))
  BY <1>1, RemoveAtIs
<1>4. <<e.target, e.version>> \in Says(list)
  BY <1>1, <1>2 DEF Says, Alive
<1> HIDE DEF e, k
<1>5. /\ Sound(m) /\ Len(m) = Len(k) + 1
      /\ Says(m) \subseteq Says(k) \cup {<<e.target, e.version>>}
      /\ Cardinality(Dead(m)) <= Cardinality(Dead(k))
  BY <1>2, <1>3, PushFrontIs
<1>6. /\ Cardinality(Dead(list)) \in Nat /\ Cardinality(Dead(k)) \in Nat /\ Cardinality(Dead(m)) \in Nat
  BY <1>3, <1>5, PlacesFinite
<1> HIDE DEF m
<1>7. Len(m) = Len(list) /\ Says(m) \subseteq Says(list) /\ Cardinality(Dead(m)) <= Cardinality(Dead(list))
  BY <1>2, <1>3, <1>4, <1>5, <1>6
<1> QED
  BY <1>5, <1>7 DEF m, k, e, p

\* Invalidation.
LEMMA WithoutIs ==
  ASSUME Sound(list), NEW t
  PROVE  LET m == Without(t)
         IN  /\ Sound(m) /\ Len(m) <= Len(list) /\ Says(m) \subseteq Says(list) /\ t \notin Held(m)
             /\ Cardinality(Dead(m)) <= Cardinality(Dead(list))
<1>1. Len(list) \in Nat /\ Cardinality(Dead(list)) \in Nat
  BY Elements, PlacesFinite
<1>2. CASE t \in Held(list)
  <2> DEFINE p == PlaceOf(t)
  <2>1. p \in 1 .. Len(list) /\ list[p].target = t
    BY <1>2, PlaceIs
  <2>2. Without(t) = RemoveElement(list, p)
    BY <1>2, ItemsHeld DEF Without
  <2> HIDE DEF p
  <2> DEFINE m == RemoveElement(list, p)
  <2>3. /\ Sound(m) /\ Len(m) = Len(list) - 1 /\ Says(m) \subseteq Says(list) /\ t \notin Held(m)
        /\ Cardinality(Dead(m)) <= Cardinality(Dead(list))
    BY <2>1, RemoveElementIs
  <2> QED
    BY <1>1, <2>2, <2>3
<1>3. CASE t \notin Held(list)
  <2>1. Without(t) = list
    BY <1>3, ItemsHeld DEF Without
  <2> QED
    BY <1>1, <1>3, <2>1
<1> QED
  BY <1>2, <1>3

-------------------------------------------------------------------------------
(* Why the cache goes stale only where an invalidation is missed, and      *)
(* stays bounded.  A fill that carries an old answer has been overlapped   *)
(* by a change: its handler has still to invalidate, or has found the fill *)
(* under way, or never invalidates.                                        *)

Lookup == [at : {"idle", "query", "fill"}, target : SUBSET Key, version : Version]

ListTyped ==
  /\ row \in [Key -> Version]
  /\ change \in [Key -> {"none", "committed", "forgotten"}]
  /\ Sound(list)
  /\ lookup \in [Caller -> Lookup]
  /\ \A r \in Caller : lookup[r].at # "idle" => \E t \in Key : lookup[r].target = {t}
  /\ races \in 0 .. MaxRaces
  /\ tainted \in SUBSET Key
  /\ missed \in SUBSET Key

Excused(t) == change[t] = "committed" \/ t \in tainted \cup missed

Truthful ==
  /\ \A t, v : <<t, v>> \in Says(list) => v = row[t] \/ Excused(t)
  /\ \A r \in Caller, t \in Key :
       lookup[r].at = "fill" /\ t \in lookup[r].target => lookup[r].version = row[t] \/ Excused(t)

\* Each dead element was left by a fill that found its target filled already.
FewDead == Cardinality(Dead(list)) <= races /\ Len(list) <= Capacity + races

Cached == ListTyped /\ Truthful /\ FewDead

LEMMA ListTypedIsTypeOK == ListTyped => CacheTypeOK
  BY DEF ListTyped, CacheTypeOK, Sound, Unique, Lookup

LEMMA TruthfulIsStale == ListTyped /\ Truthful => StaleOnlyIfMissed
<1> SUFFICES ASSUME ListTyped, Truthful, NEW t \in Held(list) PROVE VersionOf(t) = row[t] \/ Excused(t)
  BY ItemsHeld DEF StaleOnlyIfMissed, Excused
<1>1. Sound(list)
  BY DEF ListTyped
<1> DEFINE p == PlaceOf(t)
<1>2. p \in 1 .. Len(list) /\ list[p].live /\ list[p].target = t
  BY <1>1, PlaceIs
<1>3. VersionOf(t) = list[p].version
  BY DEF VersionOf
<1> HIDE DEF p
<1>4. p \in DOMAIN list
  BY <1>1, <1>2, Elements
<1>5. <<t, list[p].version>> \in Says(list)
  BY <1>2, <1>4 DEF Says, Alive
<1> QED
  BY <1>3, <1>5 DEF Truthful

LEMMA LookupIs ==
  ASSUME ListTyped, NEW r \in Caller
  PROVE  /\ lookup[r].at \in {"idle", "query", "fill"}
         /\ lookup[r].target \in SUBSET Key /\ lookup[r].version \in Version
  BY DEF ListTyped, Lookup

LEMMA LookupMoves ==
  ASSUME ListTyped, NEW r \in Caller, NEW q \in Lookup, lookup' = [lookup EXCEPT ![r] = q],
         q.at # "idle" => \E t \in Key : q.target = {t},
         UNCHANGED <<row, change, races, tainted, missed>>, Sound(list')
  PROVE  ListTyped' /\ lookup'[r] = q /\ \A s \in Caller \ {r} : lookup'[s] = lookup[s]
<1>1. lookup' \in [Caller -> Lookup] /\ lookup'[r] = q /\ \A s \in Caller \ {r} : lookup'[s] = lookup[s]
  BY DEF ListTyped
<1>2. \A s \in Caller : lookup'[s].at # "idle" => \E t \in Key : lookup'[s].target = {t}
  BY <1>1 DEF ListTyped
<1> QED
  BY <1>1, <1>2 DEF ListTyped, Sound, Unique

LEMMA NoLookup == IdleCaller \in Lookup /\ IdleCaller.at = "idle" /\ 0 \in Version
  BY CacheAssumption DEF IdleCaller, Version, Lookup

LEMMA SaysTyped ==
  ASSUME NEW l, Sound(l), NEW u, NEW v, <<u, v>> \in Says(l)
  PROVE  u \in Key /\ v \in Version
<1>1. PICK i \in Alive(l) : <<u, v>> = <<l[i].target, l[i].version>>
  BY DEF Says
<1>2. i \in 1 .. Len(l) /\ u = l[i].target /\ v = l[i].version
  BY <1>1, Elements DEF Alive
<1> QED
  BY <1>2, Elements

\* A list that is no longer, with no more dead elements.
LEMMA FewStill ==
  ASSUME Cached, Sound(list'), Cardinality(Dead(list')) <= Cardinality(Dead(list)),
         Len(list') <= Len(list), UNCHANGED races
  PROVE  FewDead'
<1>1. Sound(list) /\ races \in Nat /\ Capacity \in Nat
  BY CacheAssumption DEF Cached, ListTyped
<1>2. /\ Cardinality(Dead(list)) \in Nat /\ Cardinality(Dead(list')) \in Nat
      /\ Len(list) \in Nat /\ Len(list') \in Nat
  BY <1>1, PlacesFinite, Elements
<1>3. Cardinality(Dead(list')) <= races' /\ Len(list') <= Capacity + races'
  BY <1>1, <1>2 DEF Cached, FewDead
<1> QED
  BY <1>3, Zenon DEF FewDead, Dead

LEMMA HitCached ==
  ASSUME Cached, NEW r \in Caller, NEW t \in Key, ResolveHit(r, t)
  PROVE  Cached'
<1>1. ListTyped /\ Truthful /\ Sound(list)
  BY DEF Cached, ListTyped
<1>2. t \in Held(list) /\ list' = <<list[PlaceOf(t)]>> \o RemoveAt(list, PlaceOf(t))
  BY ItemsHeld DEF ResolveHit
<1>3. UNCHANGED <<row, change, lookup, races, tainted, missed>>
  BY DEF ResolveHit
<1>4. /\ Sound(list') /\ Len(list') = Len(list) /\ Says(list') \subseteq Says(list)
      /\ Cardinality(Dead(list')) <= Cardinality(Dead(list))
  BY <1>1, <1>2, HitIs
<1>5. ListTyped'
  BY <1>1, <1>3, <1>4 DEF ListTyped, Sound, Unique
<1>6. Truthful'
  BY <1>1, <1>3, <1>4 DEF Truthful, Excused, Says, Alive
<1>7. FewDead'
  BY <1>1, <1>3, <1>4, Elements, FewStill
<1> QED
  BY <1>5, <1>6, <1>7 DEF Cached

\* A step of a request that leaves the list.
LEMMA AskCached ==
  ASSUME Cached, NEW r \in Caller, NEW q \in Lookup,
         lookup' = [lookup EXCEPT ![r] = q], UNCHANGED <<row, change, list, races, tainted, missed>>,
         q.at # "idle" => \E t \in Key : q.target = {t},
         q.at = "fill" => \A t \in q.target : q.version = row[t]
  PROVE  Cached'
<1>1. ListTyped /\ Truthful /\ FewDead /\ Sound(list)
  BY DEF Cached, ListTyped
<1>2. Sound(list')
  BY <1>1 DEF Sound, Unique
<1>3. ListTyped' /\ lookup'[r] = q /\ \A s \in Caller \ {r} : lookup'[s] = lookup[s]
  BY <1>1, <1>2, LookupMoves
<1>4. Truthful'
  <2>1. \A t, v : <<t, v>> \in Says(list') => v = row'[t] \/ Excused(t)'
    BY <1>1 DEF Truthful, Excused
  <2>2. ASSUME NEW s \in Caller, NEW t \in Key, lookup'[s].at = "fill", t \in lookup'[s].target
        PROVE  lookup'[s].version = row'[t] \/ Excused(t)'
    <3>1. CASE s = r
      BY <1>3, <2>2, <3>1
    <3>2. CASE s # r
      BY <1>1, <1>3, <2>2, <3>2 DEF Truthful, Excused
    <3> QED
      BY <3>1, <3>2
  <2> QED
    BY <2>1, <2>2, Zenon DEF Truthful, Says, Alive
<1>5. FewDead'
  BY <1>1 DEF FewDead, Dead
<1> QED
  BY <1>3, <1>4, <1>5 DEF Cached

LEMMA MissCached ==
  ASSUME Cached, NEW r \in Caller, NEW t \in Key, ResolveMiss(r, t)
  PROVE  Cached'
<1> DEFINE q == [at |-> "query", target |-> {t}, version |-> 0]
<1>1. q \in Lookup /\ q.at = "query" /\ q.target = {t}
  BY NoLookup DEF Lookup
<1>2. lookup' = [lookup EXCEPT ![r] = q] /\ UNCHANGED <<row, change, list, races, tainted, missed>>
  BY DEF ResolveMiss
<1> HIDE DEF q
<1> QED
  BY <1>1, <1>2, AskCached

LEMMA QueryCached ==
  ASSUME Cached, NEW r \in Caller, ResolveQuery(r)
  PROVE  Cached'
<1>1. ListTyped /\ lookup \in [Caller -> Lookup] /\ row \in [Key -> Version]
  BY DEF Cached, ListTyped
<1>2. PICK x \in Key : lookup[r].target = {x}
  BY <1>1 DEF ListTyped, ResolveQuery
<1>3. UNCHANGED <<row, change, list, races, tainted, missed>>
  BY DEF ResolveQuery
<1>4. CASE lookup' = [lookup EXCEPT ![r] = IdleCaller]
  BY <1>3, <1>4, NoLookup, AskCached
<1>5. CASE lookup' = [lookup EXCEPT ![r] = [lookup[r] EXCEPT !.at = "fill", !.version = row[x]]]
  <2> DEFINE q == [lookup[r] EXCEPT !.at = "fill", !.version = row[x]]
  <2>1. q \in Lookup /\ q.at = "fill" /\ q.target = {x} /\ q.version = row[x]
    BY <1>1, <1>2 DEF Lookup
  <2>2. lookup' = [lookup EXCEPT ![r] = q]
    BY <1>5
  <2> HIDE DEF q
  <2> QED
    BY <1>3, <2>1, <2>2, AskCached
<1>6. \/ lookup' = [lookup EXCEPT ![r] = IdleCaller]
      \/ lookup' = [lookup EXCEPT ![r] = [lookup[r] EXCEPT !.at = "fill", !.version = row[x]]]
  BY <1>2 DEF ResolveQuery
<1> QED
  BY <1>4, <1>5, <1>6

\* A fill that finds its target filled already is a race; any other replaces
\* nothing, and makes room if items is full.
LEMMA FillCached ==
  ASSUME Cached, NEW r \in Caller, ResolveFill(r)
  PROVE  Cached'
<1>1. ListTyped /\ Truthful /\ FewDead /\ Sound(list)
  BY DEF Cached, ListTyped
<1>2. PICK x \in Key : lookup[r].target = {x}
  BY <1>1 DEF ListTyped, ResolveFill
<1> DEFINE v == lookup[r].version
<1>3. v \in Version /\ (v = row[x] \/ Excused(x))
  BY <1>1, <1>2, LookupIs DEF Truthful, ResolveFill
<1>4. /\ list' = Insert(list, x, v)
      /\ x \in Held(list) => races < MaxRaces
      /\ races' = IF x \in Held(list) THEN races + 1 ELSE races
      /\ missed' = IF Overlapped(x, row[x]) THEN missed ELSE missed \ {x}
      /\ lookup' = [lookup EXCEPT ![r] = IdleCaller]
      /\ UNCHANGED <<row, change, tainted>>
  BY <1>2, ItemsHeld DEF ResolveFill
<1>a. ~Overlapped(x, row[x]) => v = row[x]
  BY <1>2 DEF Overlapped, ResolveFill
<1> HIDE DEF v
<1>5. /\ Sound(list') /\ Says(list') \subseteq Says(list) \cup {<<x, v>>}
      /\ \A w : <<x, w>> \in Says(list') => w = v
      /\ Cardinality(Dead(list')) <= Cardinality(Dead(list)) + IF x \in Held(list) THEN 1 ELSE 0
      /\ Len(list') = IF Cardinality(Held(list)) >= Capacity THEN Len(list) ELSE Len(list) + 1
  BY <1>1, <1>3, <1>4, InsertIs
<1>6. races \in 0 .. MaxRaces /\ races \in Nat /\ MaxRaces \in Nat /\ Capacity \in Nat
  BY <1>1, CacheAssumption DEF ListTyped
<1>7. races' \in 0 .. MaxRaces
  BY <1>4, <1>6
<1>8. /\ lookup' \in [Caller -> Lookup] /\ lookup'[r] = IdleCaller
      /\ \A s \in Caller \ {r} : lookup'[s] = lookup[s]
  BY <1>1, <1>4, NoLookup DEF ListTyped
<1>9. ListTyped'
  <2>1. \A s \in Caller : lookup'[s].at # "idle" => \E t \in Key : lookup'[s].target = {t}
    BY <1>1, <1>8, NoLookup DEF ListTyped
  <2> QED
    BY <1>1, <1>4, <1>5, <1>7, <1>8, <2>1 DEF ListTyped, Sound, Unique
<1>10. Truthful'
  <2>a. ASSUME NEW t, Excused(t), t # x \/ Overlapped(x, row[x]) PROVE Excused(t)'
    BY <1>4, <2>a DEF Excused
  <2>1. ASSUME NEW t, NEW u, <<t, u>> \in Says(list') PROVE u = row'[t] \/ Excused(t)'
    <3>1. CASE t = x
      BY <1>3, <1>4, <1>5, <1>a, <2>1, <2>a, <3>1
    <3>2. CASE t # x
      <4>1. <<t, u>> \in Says(list)
        BY <1>5, <2>1, <3>2
      <4>2. u = row[t] \/ Excused(t)
        BY <1>1, <4>1 DEF Truthful
      <4> QED
        BY <1>4, <2>a, <3>2, <4>2
    <3> QED
      BY <3>1, <3>2
  <2>2. ASSUME NEW s \in Caller, NEW t \in Key, lookup'[s].at = "fill", t \in lookup'[s].target
        PROVE  lookup'[s].version = row'[t] \/ Excused(t)'
    <3>1. s # r /\ lookup'[s] = lookup[s]
      BY <1>8, <2>2, NoLookup
    <3>2. lookup[s].version = row[t] \/ Excused(t)
      BY <1>1, <2>2, <3>1 DEF Truthful
    <3>3. CASE t # x \/ Overlapped(x, row[x])
      BY <1>4, <2>a, <3>1, <3>2, <3>3
    <3>4. CASE t = x /\ ~Overlapped(x, row[x])
      BY <1>4, <2>2, <3>1, <3>4 DEF Overlapped
    <3> QED
      BY <3>3, <3>4
  <2> QED
    BY <2>1, <2>2, Zenon DEF Truthful, Says, Alive
<1>11. FewDead'
  <2>1. /\ Cardinality(Dead(list)) \in Nat /\ Cardinality(Dead(list')) \in Nat
        /\ Len(list) \in Nat /\ Len(list') \in Nat
    BY <1>1, <1>5, PlacesFinite, Elements
  <2>2. Cardinality(Held(list)) \in Nat /\ Len(list) <= Cardinality(Held(list)) + Cardinality(Dead(list))
    BY <1>1, LengthIs
  <2>3. Cardinality(Dead(list)) <= races /\ Len(list) <= Capacity + races
    BY <1>1 DEF FewDead
  <2>4. Cardinality(Dead(list')) <= races'
    BY <1>4, <1>5, <1>6, <2>1, <2>3
  <2>5. Len(list') <= Capacity + races'
    BY <1>4, <1>5, <1>6, <2>1, <2>2, <2>3
  <2> QED
    BY <2>4, <2>5, Zenon DEF FewDead, Dead
<1> QED
  BY <1>9, <1>10, <1>11 DEF Cached

\* A change of a row that leaves the list, and excuses its target until it is
\* invalidated or filled again.
LEMMA ChangeCached ==
  ASSUME Cached, NEW t \in Key, NEW v \in Version, row' = [row EXCEPT ![t] = v],
         change' \in [Key -> {"none", "committed", "forgotten"}], missed' \in SUBSET Key,
         UNCHANGED <<list, lookup, races, tainted>>,
         Excused(t)', \A u \in Key \ {t} : Excused(u) => Excused(u)'
  PROVE  Cached'
<1>1. ListTyped /\ Truthful /\ FewDead /\ Sound(list)
  BY DEF Cached, ListTyped
<1>4. ListTyped'
  BY <1>1 DEF ListTyped, Sound, Unique
<1>5. \A u \in Key : Excused(u)' \/ (row'[u] = row[u] /\ (Excused(u) => Excused(u)'))
  BY <1>1 DEF ListTyped
<1>6. Truthful'
  <2>1. \A u, w : <<u, w>> \in Says(list') => w = row'[u] \/ Excused(u)'
    <3> SUFFICES ASSUME NEW u, NEW w, <<u, w>> \in Says(list) PROVE w = row'[u] \/ Excused(u)'
      OBVIOUS
    <3>1. u \in Key /\ (w = row[u] \/ Excused(u))
      BY <1>1, SaysTyped DEF Truthful
    <3> QED
      BY <1>5, <3>1
  <2>2. \A s \in Caller, u \in Key :
          lookup'[s].at = "fill" /\ u \in lookup'[s].target => lookup'[s].version = row'[u] \/ Excused(u)'
    BY <1>1, <1>5 DEF Truthful
  <2> QED
    BY <2>1, <2>2, Zenon DEF Truthful, Says, Alive
<1>7. FewDead'
  BY <1>1 DEF FewDead, Dead
<1> QED
  BY <1>4, <1>6, <1>7 DEF Cached

LEMMA CommitCached ==
  ASSUME Cached, NEW t \in Key, ChangeCommit(t) \/ ChangeGiveUp(t) \/ ChangeSilently(t)
  PROVE  Cached'
<1>1. /\ row \in [Key -> Version] /\ change \in [Key -> {"none", "committed", "forgotten"}]
      /\ missed \in SUBSET Key
  BY DEF Cached, ListTyped
<1>2. row[t] < MaxVersion => row[t] + 1 \in Version
  BY <1>1, CacheAssumption DEF Version
<1>3. CASE ChangeCommit(t)
  <2>1. Excused(t)' /\ \A u \in Key \ {t} : Excused(u) => Excused(u)'
    BY <1>1, <1>3 DEF ChangeCommit, Excused
  <2> QED
    BY <1>1, <1>2, <1>3, <2>1, ChangeCached DEF ChangeCommit
<1>4. CASE ChangeGiveUp(t)
  <2>1. Excused(t)' /\ \A u \in Key \ {t} : Excused(u) => Excused(u)'
    BY <1>1, <1>4 DEF ChangeGiveUp, Excused
  <2>2. row[t] \in Version /\ row' = [row EXCEPT ![t] = row[t]]
    BY <1>1, <1>4 DEF ChangeGiveUp
  <2> QED
    BY <1>1, <1>4, <2>1, <2>2, ChangeCached DEF ChangeGiveUp
<1>5. CASE ChangeSilently(t)
  <2>1. Excused(t)' /\ \A u \in Key \ {t} : Excused(u) => Excused(u)'
    BY <1>1, <1>5 DEF ChangeSilently, Excused
  <2>2. PICK v \in Version : row' = [row EXCEPT ![t] = v]
    BY <1>2, <1>5, NoLookup DEF ChangeSilently
  <2> QED
    BY <1>1, <1>5, <2>1, <2>2, ChangeCached DEF ChangeSilently
<1> QED
  BY <1>3, <1>4, <1>5

\* Forgetting a target: no live element speaks of it any more, and a fill
\* under way with another answer taints it.
LEMMA ForgetCached ==
  ASSUME Cached, NEW t \in Key, NEW c \in {"none", "committed", "forgotten"},
         change' = [change EXCEPT ![t] = c], list' = Without(t),
         tainted' = IF Overlapped(t, row[t]) THEN tainted \cup {t} ELSE tainted \ {t},
         missed' = missed \ {t},
         UNCHANGED <<row, lookup, races>>
  PROVE  Cached'
<1>1. ListTyped /\ Truthful /\ FewDead /\ Sound(list)
  BY DEF Cached, ListTyped
<1>2. /\ Sound(list') /\ Len(list') <= Len(list) /\ Says(list') \subseteq Says(list) /\ t \notin Held(list')
      /\ Cardinality(Dead(list')) <= Cardinality(Dead(list))
  BY <1>1, WithoutIs
<1>3. ListTyped'
  <2>1. change' \in [Key -> {"none", "committed", "forgotten"}] /\ tainted' \in SUBSET Key
    BY <1>1 DEF ListTyped
  <2> QED
    BY <1>1, <1>2, <2>1 DEF ListTyped, Sound, Unique
<1>4. \A u \in Key : u # t /\ Excused(u) => Excused(u)'
  BY <1>1 DEF ListTyped, Excused
<1>5. \A u, v : <<u, v>> \in Says(list') => v = row'[u] \/ Excused(u)'
  <2> SUFFICES ASSUME NEW u, NEW v, <<u, v>> \in Says(list') PROVE v = row[u] \/ Excused(u)'
    OBVIOUS
  <2>1. <<u, v>> \in Says(list) /\ u \in Key /\ u # t
    BY <1>1, <1>2, SaysTyped, HeldSays
  <2> QED
    BY <1>1, <1>4, <2>1 DEF Truthful
<1>6. ASSUME NEW s \in Caller, NEW u \in Key, lookup[s].at = "fill", u \in lookup[s].target
      PROVE  lookup[s].version = row[u] \/ Excused(u)'
  <2>1. CASE u # t
    BY <1>1, <1>4, <1>6, <2>1 DEF Truthful
  <2>2. CASE u = t
    BY <1>6, <2>2 DEF Overlapped, Excused
  <2> QED
    BY <2>1, <2>2
<1>7. Truthful'
  BY <1>5, <1>6, Zenon DEF Truthful, Says, Alive
<1>8. FewDead'
  BY <1>2, FewStill
<1> QED
  BY <1>3, <1>7, <1>8 DEF Cached

LEMMA InvalidateCached ==
  ASSUME Cached, NEW t \in Key, ChangeInvalidate(t) \/ BurnInvalidate(t)
  PROVE  Cached'
<1>1. CASE ChangeInvalidate(t)
  <2>1. /\ change' = [change EXCEPT ![t] = "none"] /\ list' = Without(t)
        /\ tainted' = IF Overlapped(t, row[t]) THEN tainted \cup {t} ELSE tainted \ {t}
        /\ missed' = missed \ {t}
        /\ UNCHANGED <<row, lookup, races>>
    BY <1>1 DEF ChangeInvalidate
  <2> QED
    BY <2>1, ForgetCached
<1>2. CASE BurnInvalidate(t)
  <2>1. /\ change' = [change EXCEPT ![t] = "forgotten"] /\ list' = Without(t)
        /\ tainted' = IF Overlapped(t, row[t]) THEN tainted \cup {t} ELSE tainted \ {t}
        /\ missed' = missed \ {t}
        /\ UNCHANGED <<row, lookup, races>>
    BY <1>2 DEF BurnInvalidate
  <2> QED
    BY <2>1, ForgetCached
<1> QED
  BY <1>1, <1>2

\* The delete of a burned handle comes after its invalidation: what has been
\* cached or asked for in between taints it.
LEMMA BurnCached ==
  ASSUME Cached, NEW t \in Key, BurnDelete(t)
  PROVE  Cached'
<1>1. ListTyped /\ Truthful /\ FewDead /\ Sound(list)
  BY DEF Cached, ListTyped
<1>2. /\ change[t] = "forgotten" /\ change' = [change EXCEPT ![t] = "none"]
      /\ UNCHANGED <<list, lookup, races, missed>>
      /\ \/ /\ row' = [row EXCEPT ![t] = 0]
            /\ tainted' = IF t \in Held(list) \/ Overlapped(t, 0) THEN tainted \cup {t} ELSE tainted
         \/ UNCHANGED <<row, tainted>>
  BY ItemsHeld DEF BurnDelete
<1>3. 0 \in Version
  BY NoLookup
<1>4. ListTyped'
  <2>1. row' \in [Key -> Version] /\ tainted' \in SUBSET Key
    BY <1>1, <1>2, <1>3 DEF ListTyped
  <2> QED
    BY <1>1, <1>2, <2>1 DEF ListTyped, Sound, Unique
<1>5. \A u \in Key : Excused(u) => Excused(u)'
  BY <1>1, <1>2 DEF ListTyped, Excused
<1>6. \A u \in Key : u # t => row'[u] = row[u]
  BY <1>1, <1>2 DEF ListTyped
<1>7. row'[t] = row[t] \/ (row'[t] = 0 /\ (t \in Held(list) \/ Overlapped(t, 0) => t \in tainted'))
  BY <1>1, <1>2 DEF ListTyped
<1>8. \A u, v : <<u, v>> \in Says(list') => v = row'[u] \/ Excused(u)'
  <2> SUFFICES ASSUME NEW u, NEW v, <<u, v>> \in Says(list) PROVE v = row'[u] \/ Excused(u)'
    BY <1>2
  <2>1. u \in Key /\ u \in Held(list) /\ (v = row[u] \/ Excused(u))
    BY <1>1, SaysTyped, HeldSays DEF Truthful
  <2> QED
    BY <1>5, <1>6, <1>7, <2>1 DEF Excused
<1>9. ASSUME NEW s \in Caller, NEW u \in Key, lookup[s].at = "fill", u \in lookup[s].target
      PROVE  lookup[s].version = row'[u] \/ Excused(u)'
  <2>1. lookup[s].version = row[u] \/ Excused(u)
    BY <1>1, <1>9 DEF Truthful
  <2>2. CASE u # t
    BY <1>5, <1>6, <2>1, <2>2
  <2>3. CASE u = t
    <3>1. lookup[s].version # 0 => Overlapped(t, 0)
      BY <1>9, <2>3 DEF Overlapped
    <3> QED
      BY <1>5, <1>7, <2>1, <2>3, <3>1 DEF Excused
  <2> QED
    BY <2>2, <2>3
<1>10. Truthful'
  BY <1>2, <1>8, <1>9, Zenon DEF Truthful, Says, Alive
<1>11. FewDead'
  BY <1>1, <1>2 DEF FewDead, Dead
<1> QED
  BY <1>4, <1>10, <1>11 DEF Cached

LEMMA CachedInit == CacheInit => Cached
<1> SUFFICES ASSUME CacheInit PROVE Cached
  OBVIOUS
<1>1. list = <<>> /\ Sound(list) /\ Len(list) = 0 /\ Held(list) = {} /\ Dead(list) = {} /\ Says(list) = {}
  BY EmptySeq DEF CacheInit, Sound, Unique, Held, Dead, Says, Alive
<1>2. 1 \in Version /\ 0 \in 0 .. MaxRaces /\ Capacity \in Nat
  BY CacheAssumption DEF Version
<1>3. ListTyped
  BY <1>1, <1>2, NoLookup DEF CacheInit, ListTyped
<1>4. Truthful
  BY <1>1, NoLookup DEF CacheInit, Truthful
<1>5. FewDead
  <2>1. Cardinality(Dead(list)) = 0 /\ Len(list) = 0 /\ races = 0
    BY <1>1, FS_EmptySet DEF CacheInit
  <2> QED
    BY <1>2, <2>1 DEF FewDead
<1> QED
  BY <1>3, <1>4, <1>5 DEF Cached

LEMMA CachedNext == Cached /\ [CacheNext]_cacheVars => Cached'
<1> SUFFICES ASSUME Cached, [CacheNext]_cacheVars PROVE Cached'
  OBVIOUS
<1>1. Changing \subseteq Key
  BY CacheAssumption
<1>2. ASSUME NEW r \in Caller, NEW t \in Key, ResolveHit(r, t) \/ ResolveMiss(r, t) PROVE Cached'
  BY <1>2, HitCached, MissCached
<1>3. ASSUME NEW r \in Caller, ResolveQuery(r) \/ ResolveFill(r) PROVE Cached'
  BY <1>3, QueryCached, FillCached
<1>4. ASSUME NEW t \in Changing, ChangeCommit(t) \/ ChangeInvalidate(t) \/ ChangeGiveUp(t)
                                   \/ ChangeSilently(t) \/ BurnInvalidate(t) \/ BurnDelete(t)
      PROVE  Cached'
  BY <1>1, <1>4, CommitCached, InvalidateCached, BurnCached
<1>5. CASE UNCHANGED cacheVars
  BY <1>5 DEF cacheVars, Cached, ListTyped, Sound, Unique, Truthful, Excused, Says, Alive, FewDead, Dead
<1> QED
  BY <1>2, <1>3, <1>4, <1>5 DEF CacheNext

LEMMA CachedHolds == CacheSpec => []Cached
<1>1. CacheInit => Cached
  BY CachedInit
<1>2. Cached /\ [CacheNext]_cacheVars => Cached'
  BY CachedNext
<1> QED
  BY <1>1, <1>2, PTL DEF CacheSpec

\* What the resolver has cached is what the table says, but before an invalidation
\* still due, where a fill overlapped the last one, and where the last change was
\* by a handler that does not invalidate or gave up before (Resolver.ResolveDetailed,
\* Invalidate, Store.Write).
THEOREM StaleOnlyIfMissedHolds == CacheSpec => []StaleOnlyIfMissed
<1>1. CacheSpec => []Cached
  BY CachedHolds
<1>2. Cached => StaleOnlyIfMissed
  BY TruthfulIsStale DEF Cached
<1> QED
  BY <1>1, <1>2, PTL

\* The list outgrows its capacity by no more than one element for each fill
\* that found its target filled already, and the state keeps its types
\* (removeElementLocked, ResolveDetailed).
THEOREM BoundedByRacesHolds == CacheSpec => [](CacheTypeOK /\ BoundedByRaces)
<1>1. CacheSpec => []Cached
  BY CachedHolds
<1>2. Cached => CacheTypeOK /\ BoundedByRaces
  BY ListTypedIsTypeOK DEF Cached, FewDead, BoundedByRaces
<1> QED
  BY <1>1, <1>2, PTL
===============================================================================
