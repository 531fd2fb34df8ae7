-------------------------- MODULE PushDispatchProofs --------------------------
(***************************************************************************)
(* Proofs about PushDispatch, for every number of accounts, endpoints,     *)
(* workers, registrations and days.                                        *)
(***************************************************************************)
EXTENDS PushDispatch, FiniteSetTheorems, WellFoundedInduction, TLAPS

-------------------------------------------------------------------------------
(* Why a send prunes nothing it should not.  When a refusal comes, every   *)
(* row of the endpoint is known to be refused; a row that appears before   *)
(* the worker deletes is not older than the send.                          *)

IsRow(s) ==
  /\ DOMAIN s = {"id", "acct", "endpoint", "key", "created", "made", "ok"}
  /\ s.created \in Nat /\ s.made \in Nat

IsJob(j) ==
  /\ DOMAIN j = {"at", "kind", "rows", "row", "sent", "used"}
  /\ j.sent \in Nat
  /\ j.sent <= day
  /\ \A r, s \in j.row : r = s

Shape ==
  /\ day \in Nat
  /\ \A s \in subs : IsRow(s)
  /\ DOMAIN job = Worker
  /\ \A w \in Worker : IsJob(job[w])

\* What the worker that carries job j may delete has been refused, or was not
\* written before its send.
Excused(j) ==
  j.at = "gone" =>
    \A r \in j.row, s \in subs : s.endpoint = r.endpoint => s.key \in refused \/ s.made >= j.sent

PruneInv == Shape /\ (\A w \in Worker : Excused(job[w])) /\ PrunedWasRefused

LEMMA PruneInit == Init => PruneInv
<1> SUFFICES ASSUME Init PROVE PruneInv
  OBVIOUS
<1>1. ASSUME NEW w \in Worker PROVE job[w] = Idle
  BY <1>1 DEF Init
<1>2. day = 0 /\ subs = {} /\ pruned = {} /\ DOMAIN job = Worker
  BY DEF Init
<1>3. IsJob(Idle) /\ Excused(Idle)
  BY <1>2 DEF IsJob, Idle, Excused
<1> QED
  BY <1>1, <1>2, <1>3 DEF PruneInv, Shape, PrunedWasRefused

\* A step that moves no worker and prunes nothing: each row it leaves is one
\* that was there, or one of today.
LEMMA TableKeepsPrune ==
  ASSUME PruneInv, UNCHANGED <<job, refused, pruned>>, day' \in Nat, day' >= day,
         \A s \in subs' :
           /\ IsRow(s)
           /\ \/ s.made >= day
              \/ \E t \in subs : s.endpoint = t.endpoint /\ s.key = t.key /\ s.created = t.created /\ s.made = t.made
  PROVE  PruneInv'
<1>1. ASSUME NEW w \in Worker PROVE IsJob(job[w])'
  BY DEF PruneInv, Shape, IsJob
<1>2. Shape'
  BY <1>1 DEF PruneInv, Shape, IsRow
<1>3. ASSUME NEW w \in Worker PROVE Excused(job[w])'
  <2> SUFFICES ASSUME job[w].at = "gone", NEW r \in job[w].row, NEW s \in subs',
                      s.endpoint = r.endpoint
               PROVE  s.key \in refused \/ s.made >= job[w].sent
    BY DEF Excused
  <2>1. job[w].sent \in Nat /\ job[w].sent <= day /\ day \in Nat /\ s.made \in Nat
    BY DEF PruneInv, Shape, IsJob, IsRow
  <2>2. CASE s.made >= day
    BY <2>1, <2>2
  <2>3. CASE \E t \in subs : s.endpoint = t.endpoint /\ s.key = t.key /\ s.created = t.created /\ s.made = t.made
    BY <2>3 DEF PruneInv, Excused
  <2> QED
    BY <2>2, <2>3
<1> QED
  BY <1>2, <1>3 DEF PruneInv, PrunedWasRefused

LEMMA CreateKeepsPrune ==
  ASSUME PruneInv, NEW a \in Account, NEW e \in Endpoint, CreateSubscription(a, e)
  PROVE  PruneInv'
<1>1. PICK d \in Day : subs' = Upserted(a, e, d)
  BY DEF CreateSubscription
<1>1a. UNCHANGED <<day, job, refused, pruned>> /\ day \in Nat /\ d \in Nat
  BY DEF CreateSubscription, PruneInv, Shape, Day
<1>2. ASSUME NEW s \in subs'
      PROVE  /\ IsRow(s)
             /\ \/ s.made >= day
                \/ \E t \in subs : s.endpoint = t.endpoint /\ s.key = t.key /\ s.created = t.created /\ s.made = t.made
  <2> DEFINE new == [id |-> FreshId, acct |-> a, endpoint |-> e, key |-> regs + 1,
                     created |-> d, made |-> day, ok |-> {}]
  <2>1. CASE s \in subs
    BY <2>1 DEF PruneInv, Shape
  <2>2. CASE s = new
    BY <1>1a, <2>2 DEF IsRow
  <2>3. CASE \E r \in subs : s = [r EXCEPT !.acct = a, !.key = regs + 1, !.created = d, !.made = day]
    <3>1. PICK r \in subs : s = [r EXCEPT !.acct = a, !.key = regs + 1, !.created = d, !.made = day]
      BY <2>3
    <3>2. DOMAIN r = {"id", "acct", "endpoint", "key", "created", "made", "ok"}
      BY DEF PruneInv, Shape, IsRow
    <3>3. DOMAIN s = DOMAIN r /\ s.created = d /\ s.made = day
      BY <3>1, <3>2
    <3> QED
      BY <1>1a, <3>2, <3>3 DEF IsRow
  <2> QED
    BY <1>1, <2>1, <2>2, <2>3 DEF Upserted
<1> QED
  BY <1>1a, <1>2, TableKeepsPrune

\* A step of one worker that leaves the table alone: its new job is one, and
\* is excused; what was refused before is so still.
LEMMA WorkerKeepsPrune ==
  ASSUME PruneInv, UNCHANGED <<day, subs, pruned>>, refused \subseteq refused',
         NEW w \in Worker, NEW j, job' = [job EXCEPT ![w] = j],
         IsJob(j), Excused(j)'
  PROVE  PruneInv'
<1>1. DOMAIN job = Worker
  BY DEF PruneInv, Shape
<1>2. ASSUME NEW v \in Worker PROVE IsJob(job[v])' /\ Excused(job[v])'
  <2>1. CASE v = w
    <3>1. job'[v] = j
      BY <1>1, <2>1
    <3> QED
      BY <3>1 DEF IsJob, Excused
  <2>2. CASE v # w
    <3>1. job'[v] = job[v]
      BY <1>1, <2>2
    <3>2. IsJob(job[v]) /\ Excused(job[v])
      BY DEF PruneInv, Shape
    <3> QED
      BY <3>1, <3>2 DEF IsJob, Excused
  <2> QED
    BY <2>1, <2>2
<1>3. DOMAIN job' = Worker
  BY <1>1
<1>4. Shape'
  BY <1>2, <1>3 DEF PruneInv, Shape, IsRow
<1>5. PrunedWasRefused'
  BY DEF PruneInv, PrunedWasRefused
<1> QED
  BY <1>2, <1>4, <1>5 DEF PruneInv

LEMMA JobOf ==
  ASSUME PruneInv, NEW w \in Worker
  PROVE  IsJob(job[w]) /\ Excused(job[w]) /\ DOMAIN job = Worker /\ day \in Nat
BY DEF PruneInv, Shape

LEMMA StartKeepsPrune ==
  ASSUME PruneInv, NEW w \in Worker, NEW a \in Account, NEW kind, StartJob(w, a, kind)
  PROVE  PruneInv'
<1>1. PICK j : j = [Idle EXCEPT !.at = "next", !.kind = kind, !.rows = {r \in subs : r.acct = a}]
  OBVIOUS
<1>2. UNCHANGED <<day, subs, refused, pruned>> /\ job' = [job EXCEPT ![w] = j]
  BY <1>1 DEF StartJob
<1>3. j.at = "next" /\ IsJob(j)
  BY <1>1, JobOf DEF IsJob, Idle
<1>4. Excused(j)'
  BY <1>3 DEF Excused
<1> QED
  BY <1>2, <1>3, <1>4, WorkerKeepsPrune

LEMMA DispatchKeepsPrune ==
  ASSUME PruneInv, NEW w \in Worker, NEW r, Dispatch(w, r)
  PROVE  PruneInv'
<1> DEFINE key == IF cache[r.endpoint] # {} THEN cache[r.endpoint] ELSE {r.key}
           used == IF job[w].kind = "many" THEN key ELSE {}
<1>1. PICK j : j = [job[w] EXCEPT !.at = "sending", !.rows = job[w].rows \ {r}, !.row = {r},
                                  !.sent = day, !.used = used]
  OBVIOUS
<1>2. UNCHANGED <<day, subs, refused, pruned>> /\ job' = [job EXCEPT ![w] = j]
  BY <1>1 DEF Dispatch
<1>3. j.at = "sending" /\ IsJob(j)
  BY <1>1, JobOf DEF IsJob
<1>4. Excused(j)'
  BY <1>3 DEF Excused
<1> QED
  BY <1>1, <1>2, <1>3, <1>4, WorkerKeepsPrune

LEMMA AnswerKeepsPrune ==
  ASSUME PruneInv, NEW w \in Worker, Answer(w)
  PROVE  PruneInv'
<1>1. UNCHANGED <<day, subs, pruned>> /\ refused \subseteq refused'
  BY DEF Answer
<1>2. PICK r \in job[w].row, to \in {"ok", "gone", "failed"} :
        /\ job' = [job EXCEPT ![w] = [job[w] EXCEPT !.at = to]]
        /\ to = "gone" => refused' = refused \cup {s.key : s \in {t \in subs : t.endpoint = r.endpoint}}
  BY DEF Answer
<1>3. PICK j : j = [job[w] EXCEPT !.at = to]
  OBVIOUS
<1>4. IsJob(j) /\ j.row = job[w].row /\ j.at = to
  BY <1>3, JobOf DEF IsJob
<1>5. ASSUME to = "gone", NEW q \in job[w].row, NEW s \in subs, s.endpoint = q.endpoint
      PROVE  s.key \in refused'
  <2>1. q = r
    BY <1>5, JobOf DEF IsJob
  <2> QED
    BY <1>2, <1>5, <2>1
<1>6. Excused(j)'
  BY <1>1, <1>4, <1>5 DEF Excused
<1> QED
  BY <1>1, <1>2, <1>3, <1>4, <1>6, WorkerKeepsPrune

LEMMA SettleKeepsPrune ==
  ASSUME PruneInv, NEW w \in Worker, Settle(w)
  PROVE  PruneInv'
<1> DEFINE j == IF job[w].rows = {} THEN Idle
                ELSE [job[w] EXCEPT !.at = "next", !.row = {}, !.used = {}]
           doomed(r) == {s \in subs : s.endpoint = r.endpoint /\ s.created <= job[w].sent}
           removed(r) == {[key |-> s.key, created |-> s.created, made |-> s.made, sent |-> job[w].sent]
                            : s \in doomed(r)}
<1>1. UNCHANGED <<day, refused>> /\ job' = [job EXCEPT ![w] = j]
  BY DEF Settle
<1>2. IsJob(j) /\ j.at # "gone"
  <2>1. IsJob(Idle) /\ Idle.at # "gone"
    BY JobOf DEF IsJob, Idle
  <2>2. IsJob([job[w] EXCEPT !.at = "next", !.row = {}, !.used = {}])
    BY JobOf DEF IsJob
  <2>3. [job[w] EXCEPT !.at = "next", !.row = {}, !.used = {}].at = "next"
    BY JobOf DEF IsJob
  <2> QED
    BY <2>1, <2>2, <2>3
\* The rows that are left are rows that were there, but for last_ok_day.
<1>3. ASSUME NEW s \in subs'
      PROVE  IsRow(s) /\ \E t \in subs : s.endpoint = t.endpoint /\ s.key = t.key /\ s.created = t.created /\ s.made = t.made
  <2>1. CASE s \in subs
    BY <2>1 DEF PruneInv, Shape
  <2>2. CASE \E t \in subs : s = [t EXCEPT !.ok = {job[w].sent}]
    <3>1. PICK t \in subs : s = [t EXCEPT !.ok = {job[w].sent}]
      BY <2>2
    <3>2. IsRow(t)
      BY DEF PruneInv, Shape
    <3> QED
      BY <3>1, <3>2 DEF IsRow
  <2> QED
    BY <2>1, <2>2 DEF Settle, SendStartDay
<1>4. pruned' = pruned \/ (job[w].at = "gone" /\ \E r \in job[w].row : pruned' = pruned \cup removed(r))
  BY DEF Settle, SendStartDay, IsAuthoritativeRejection
<1>5. PrunedWasRefused'
  <2>1. CASE pruned' = pruned
    BY <1>1, <2>1 DEF PruneInv, PrunedWasRefused
  <2>2. ASSUME job[w].at = "gone", NEW r \in job[w].row, NEW s \in doomed(r)
        PROVE  s.key \in refused \/ (s.created <= job[w].sent /\ job[w].sent <= s.made)
    <3>1. s.key \in refused \/ s.made >= job[w].sent
      BY <2>2, JobOf DEF Excused
    <3>2. s.made \in Nat /\ job[w].sent \in Nat /\ s.created <= job[w].sent
      BY <2>2, JobOf DEF IsJob, PruneInv, Shape, IsRow
    <3> QED
      BY <3>1, <3>2
  <2> QED
    BY <1>1, <1>4, <2>1, <2>2 DEF PruneInv, PrunedWasRefused
<1>6. ASSUME NEW v \in Worker PROVE IsJob(job[v])' /\ Excused(job[v])'
  <2>1. CASE v = w
    <3>1. job'[v] = j
      BY <1>1, <2>1, JobOf
    <3> QED
      BY <1>1, <1>2, <3>1 DEF IsJob, Excused
  <2>2. CASE v # w
    <3>1. job'[v] = job[v]
      BY <1>1, <2>2, JobOf
    <3>2. IsJob(job[v]) /\ Excused(job[v])
      BY JobOf
    <3> QED
      BY <1>1, <1>3, <3>1, <3>2 DEF IsJob, Excused
  <2> QED
    BY <2>1, <2>2
<1>7. Shape'
  <2>1. DOMAIN job' = Worker /\ day' \in Nat
    BY <1>1, JobOf
  <2> QED
    BY <1>3, <1>6, <2>1 DEF Shape, IsRow
<1> QED
  BY <1>5, <1>6, <1>7 DEF PruneInv

LEMMA PruneNext == PruneInv /\ [Next]_vars => PruneInv'
<1> SUFFICES ASSUME PruneInv, [Next]_vars PROVE PruneInv'
  OBVIOUS
<1>1. day \in Nat /\ \A s \in subs : IsRow(s)
  BY DEF PruneInv, Shape
<1>2. ASSUME NEW a \in Account, Api(a) PROVE PruneInv'
  <2>1. ASSUME NEW e \in Endpoint, CreateSubscription(a, e) PROVE PruneInv'
    BY <2>1, CreateKeepsPrune
  <2>2. ASSUME NEW r \in subs, DeleteSubscription(a, r.id) PROVE PruneInv'
    BY <1>1, <2>2, TableKeepsPrune DEF DeleteSubscription
  <2>3. CASE DeleteAccount(a)
    BY <1>1, <2>3, TableKeepsPrune DEF DeleteAccount
  <2> QED
    BY <1>2, <2>1, <2>2, <2>3 DEF Api
<1>3. CASE PruneAncientSubscriptions
  BY <1>1, <1>3, TableKeepsPrune DEF PruneAncientSubscriptions
<1>4. ASSUME NEW e \in Endpoint, Revoke(e) PROVE PruneInv'
  BY <1>1, <1>4, TableKeepsPrune DEF Revoke
<1>5. ASSUME NEW w \in Worker, WorkerStep(w) PROVE PruneInv'
  BY <1>5, StartKeepsPrune, DispatchKeepsPrune, AnswerKeepsPrune, SettleKeepsPrune DEF WorkerStep
<1>6. CASE Midnight
  BY <1>1, <1>6, TableKeepsPrune DEF Midnight
<1>7. CASE UNCHANGED vars
  BY <1>1, <1>7, TableKeepsPrune DEF vars
<1> QED
  BY <1>2, <1>3, <1>4, <1>5, <1>6, <1>7 DEF Next

\* Whatever devices register, remove and revoke while sends are under way, a
\* send prunes a row only when a push service has refused that registration,
\* or when the send left on a day that registration took (dispatchToSub).
THEOREM PruningSound == Spec => []PrunedWasRefused
<1>1. PruneInv => PrunedWasRefused
  BY DEF PruneInv
<1> QED
  BY <1>1, PruneInit, PruneNext, PTL DEF Spec

-------------------------------------------------------------------------------
(* Type correctness.  What has to be shown is that the table keeps its two *)
(* uniqueness constraints, and that the id of a new row, the largest in    *)
(* the table and one, exists at all: the rows are finitely many, since     *)
(* their ids differ and none exceeds the number of registrations.          *)

Numbered == \A r \in subs : r.id <= regs

DispatchTyped == TypeOK /\ Numbered

\* A set of natural numbers with an element has a least one.
LEMMA LeastNatural ==
  ASSUME NEW S \in SUBSET Nat, S # {}
  PROVE  \E n \in S : \A m \in S : n <= m
<1> DEFINE R == OpToRel(<, Nat)
<1>1. \E n \in S : \A m \in S : <<m, n>> \notin R
  BY NatLessThanWellFounded, WFMin, Zenon
<1>2. \A m, n \in Nat : <<m, n>> \in R <=> m < n
  BY Zenon DEF OpToRel
<1> HIDE DEF R
<1>3. PICK n \in S : \A m \in S : <<m, n>> \notin R
  BY <1>1
<1>4. \A m \in S : ~(m < n)
  BY <1>2, <1>3
<1> QED
  BY <1>3, <1>4

LEMMA RowsFinite == ASSUME DispatchTyped PROVE Cardinality(subs) \in Nat
<1> DEFINE f == [r \in subs |-> r.id]
<1>1. regs \in Nat /\ \A r \in subs : r.id \in 1 .. regs
  BY DispatchAssumption DEF DispatchTyped, TypeOK, Numbered, Row
<1>2. f \in [subs -> 1 .. regs]
  BY <1>1
<1>3. \A r, s \in subs : f[r] = f[s] => r = s
  BY DEF DispatchTyped, TypeOK
<1>4. f \in Injection(subs, 1 .. regs)
  BY <1>2, <1>3, Zenon DEF Injection, IsInjective
<1>5. IsFiniteSet(1 .. regs)
  BY <1>1, FS_Interval
<1>6. IsFiniteSet(subs)
  BY <1>4, <1>5, FS_Injection
<1> QED
  BY <1>6, FS_CardinalityType

\* The id of a new row is larger than every id in the table.
LEMMA FreshIdIs ==
  ASSUME DispatchTyped
  PROVE  FreshId \in Nat \ {0} /\ FreshId <= regs + 1 /\ \A r \in subs : r.id < FreshId
<1> DEFINE above == {n \in Nat \ {0} : \A r \in subs : r.id < n}
           card == Cardinality(subs)
<1>1. regs \in Nat /\ MaxReg \in Nat /\ regs <= MaxReg /\ \A r \in subs : r.id \in Nat \ {0} /\ r.id <= regs
  BY DispatchAssumption DEF DispatchTyped, TypeOK, Numbered, Row
<1>2. regs + 1 \in above
  BY <1>1
<1>3. PICK n \in above : \A m \in above : n <= m
  <2>1. above \in SUBSET Nat /\ above # {}
    BY <1>2
  <2> HIDE DEF above
  <2> QED
    BY <2>1, LeastNatural
<1>4. n = 1 \/ \E r \in subs : r.id = n - 1
  <2> SUFFICES ASSUME n # 1, \A r \in subs : r.id # n - 1 PROVE FALSE
    OBVIOUS
  <2>1. n - 1 \in Nat \ {0}
    BY <1>3
  <2>2. ASSUME NEW r \in subs PROVE r.id < n - 1
    BY <1>1, <1>3
  <2>3. n - 1 \in above
    BY <2>1, <2>2
  <2> QED
    BY <2>3, <1>3
<1>5. card \in Nat
  BY RowsFinite
<1>6. n \in 1 .. card + 1 + MaxReg
  BY <1>1, <1>2, <1>3, <1>5
<1> DEFINE Fits(k) == (\A r \in subs : r.id < k) /\ (k = 1 \/ \E r \in subs : r.id = k - 1)
<1>7. Fits(n)
  BY <1>3, <1>4
<1>8. FreshId = CHOOSE k \in 1 .. card + 1 + MaxReg : Fits(k)
  BY Zenon DEF FreshId
<1>9. FreshId \in 1 .. card + 1 + MaxReg /\ Fits(FreshId)
  <2> HIDE DEF card, Fits
  <2> QED
    BY <1>6, <1>7, <1>8
<1>10. FreshId \in Nat \ {0}
  BY <1>9, <1>5, <1>1
<1> HIDE DEF card, above
<1> QED
  BY <1>9, <1>10, <1>1

\* What the table has to satisfy after a step.
Table(S, n) ==
  /\ S \in SUBSET Row
  /\ \A r, s \in S : r.endpoint = s.endpoint \/ r.id = s.id => r = s
  /\ \A r \in S : r.id <= n

LEMMA TableIs == ASSUME DispatchTyped PROVE Table(subs, regs)
  BY DEF DispatchTyped, TypeOK, Numbered, Table

LEMMA FewerInTable == ASSUME NEW n, NEW S, Table(S, n), NEW T \in SUBSET S PROVE Table(T, n)
  BY DEF Table

LEMMA RowFields ==
  ASSUME NEW r \in Row
  PROVE  /\ r.id \in Nat \ {0} /\ r.acct \in Account /\ r.endpoint \in Endpoint
         /\ r.key \in Key /\ r.created \in Day /\ r.made \in Day /\ r.ok \in SUBSET Day
         /\ r = [id |-> r.id, acct |-> r.acct, endpoint |-> r.endpoint, key |-> r.key,
                 created |-> r.created, made |-> r.made, ok |-> r.ok]
  BY DEF Row

\* What a registration and a success make of a row.
Renewal(r, a, k, d, m) == [r EXCEPT !.acct = a, !.key = k, !.created = d, !.made = m]
Stamp(r, i, d) == IF r.id = i THEN [r EXCEPT !.ok = {d}] ELSE r

LEMMA Renewed ==
  ASSUME NEW r \in Row, NEW a \in Account, NEW k \in Key, NEW d \in Day, NEW m \in Day
  PROVE  /\ Renewal(r, a, k, d, m) \in Row
         /\ Renewal(r, a, k, d, m).id = r.id
         /\ Renewal(r, a, k, d, m).endpoint = r.endpoint
  BY DEF Row, Renewal

LEMMA Stamped ==
  ASSUME NEW r \in Row, NEW i, NEW d \in Day
  PROVE  Stamp(r, i, d) \in Row /\ Stamp(r, i, d).id = r.id /\ Stamp(r, i, d).endpoint = r.endpoint
<1>1. CASE r.id = i
  BY <1>1 DEF Row, Stamp
<1>2. CASE r.id # i
  BY <1>2 DEF Stamp
<1> QED
  BY <1>1, <1>2

LEMMA UpsertedTable ==
  ASSUME DispatchTyped, NEW a \in Account, NEW e \in Endpoint, NEW d \in Day, regs < MaxReg
  PROVE  Table(Upserted(a, e, d), regs + 1)
<1> DEFINE old == {r \in subs : r.endpoint = e}
           new == [id |-> FreshId, acct |-> a, endpoint |-> e, key |-> regs + 1,
                   created |-> d, made |-> day, ok |-> {}]
           renewed(r) == Renewal(r, a, regs + 1, d, day)
<1>1. Table(subs, regs)
  BY TableIs
<1>2. regs \in Nat /\ regs + 1 \in Key /\ day \in Day
  BY DispatchAssumption DEF DispatchTyped, TypeOK, Key
<1>3. CASE old = {}
  <2>1. Upserted(a, e, d) = subs \cup {new}
    BY <1>3 DEF Upserted
  <2>2. new \in Row
    BY <1>2, FreshIdIs DEF Row
  <2>3. new.endpoint = e /\ new.id = FreshId
    OBVIOUS
  <2>4. \A r \in subs : r.endpoint # e
    BY <1>3
  <2>5. \A r \in subs : r.id \in Nat
    BY <1>1 DEF Table, Row
  <2> HIDE DEF new, old
  <2> QED
    BY <1>1, <1>2, <2>1, <2>2, <2>3, <2>4, <2>5, FreshIdIs DEF Table
<1>4. CASE old # {}
  <2>1. PICK r \in old : TRUE
    BY <1>4
  <2>2. r \in subs /\ r.endpoint = e /\ r \in Row
    BY <1>1, <2>1 DEF Table
  <2>3. old = {r}
    BY <1>1, <2>2 DEF Table
  <2>4. Upserted(a, e, d) = (subs \ {r}) \cup {renewed(r)}
    BY <1>4, <2>3 DEF Upserted, Renewal
  <2>5. renewed(r) \in Row /\ renewed(r).id = r.id /\ renewed(r).endpoint = r.endpoint
    BY <1>2, <2>2, Renewed
  <2>6. \A s \in subs : s.id \in Nat
    BY <1>1 DEF Table, Row
  <2> HIDE DEF renewed, old
  <2> QED
    BY <1>1, <1>2, <2>2, <2>4, <2>5, <2>6 DEF Table
<1> QED
  BY <1>3, <1>4

LEMMA StampedTable ==
  ASSUME NEW n, NEW S, Table(S, n), NEW i, NEW d \in Day
  PROVE  Table({Stamp(s, i, d) : s \in S}, n)
<1> DEFINE T == {Stamp(s, i, d) : s \in S}
<1>1. ASSUME NEW s \in S
      PROVE  Stamp(s, i, d) \in Row /\ Stamp(s, i, d).id = s.id /\ Stamp(s, i, d).endpoint = s.endpoint
  <2>1. s \in Row
    BY DEF Table
  <2> QED
    BY <2>1, Stamped
<1>2. T \in SUBSET Row
  BY <1>1
<1>3. \A t \in T : t.id <= n
  BY <1>1 DEF Table
<1>4. ASSUME NEW t \in T, NEW u \in T, t.endpoint = u.endpoint \/ t.id = u.id PROVE t = u
  <2>1. PICK r \in S, s \in S : t = Stamp(r, i, d) /\ u = Stamp(s, i, d)
    OBVIOUS
  <2>2. r.endpoint = s.endpoint \/ r.id = s.id
    BY <1>1, <1>4, <2>1
  <2> QED
    BY <2>1, <2>2 DEF Table
<1> QED
  BY <1>2, <1>3, <1>4 DEF Table

\* A worker's state after each of its steps.
LEMMA JobFields ==
  ASSUME NEW j \in Job
  PROVE  /\ j.at \in {"idle", "next", "sending", "ok", "gone", "failed"} /\ j.kind \in {"one", "many"}
         /\ j.rows \in SUBSET Row /\ j.row \in SUBSET Row /\ j.sent \in Day /\ j.used \in SUBSET Key
  BY DEF Job

LEMMA JobMoves ==
  /\ Idle \in Job
  /\ \A kind \in {"one", "many"}, S \in SUBSET Row :
       [Idle EXCEPT !.at = "next", !.kind = kind, !.rows = S] \in Job
  /\ \A j \in Job, r \in Row, S \in SUBSET Row, d \in Day, K \in SUBSET Key :
       [j EXCEPT !.at = "sending", !.rows = S, !.row = {r}, !.sent = d, !.used = K] \in Job
  /\ \A j \in Job : [j EXCEPT !.at = "ok"] \in Job
  /\ \A j \in Job : [j EXCEPT !.at = "gone"] \in Job
  /\ \A j \in Job : [j EXCEPT !.at = "failed"] \in Job
  /\ \A j \in Job : [j EXCEPT !.at = "next", !.row = {}, !.used = {}] \in Job
<1>1. 0 \in Day
  BY DispatchAssumption DEF Day
<1> QED
  BY <1>1 DEF Job, Idle

LEMMA JobOfWorker ==
  ASSUME DispatchTyped, NEW w \in Worker, NEW j \in Job
  PROVE  [job EXCEPT ![w] = j] \in [Worker -> Job]
  BY DEF DispatchTyped, TypeOK

\* A step of the table alone, or of the clock.
LEMMA TableKeepsTyped ==
  ASSUME DispatchTyped, UNCHANGED <<cache, job, refused, pruned>>, day' \in Day, regs' \in 0 .. MaxReg,
         accepts' \in SUBSET Endpoint, Table(subs', regs')
  PROVE  DispatchTyped'
  BY DEF DispatchTyped, TypeOK, Numbered, Table

LEMMA CreateTyped ==
  ASSUME DispatchTyped, NEW a \in Account, NEW e \in Endpoint, CreateSubscription(a, e)
  PROVE  DispatchTyped'
<1>1. Table(subs', regs')
  BY UpsertedTable DEF CreateSubscription
<1>2. regs' \in 0 .. MaxReg /\ day' \in Day /\ accepts' \in SUBSET Endpoint
  BY DispatchAssumption DEF CreateSubscription, DispatchTyped, TypeOK
<1> QED
  BY <1>1, <1>2, TableKeepsTyped DEF CreateSubscription

LEMMA RemoveTyped ==
  ASSUME DispatchTyped, UNCHANGED <<day, regs, cache, accepts, job, refused, pruned>>, subs' \in SUBSET subs
  PROVE  DispatchTyped'
<1>1. Table(subs', regs')
  BY TableIs, FewerInTable
<1> QED
  BY <1>1, TableKeepsTyped DEF DispatchTyped, TypeOK

LEMMA StartTyped ==
  ASSUME DispatchTyped, NEW w \in Worker, NEW a \in Account, NEW kind \in {"one", "many"},
         StartJob(w, a, kind)
  PROVE  DispatchTyped'
<1> DEFINE mine == {r \in subs : r.acct = a}
           j == [Idle EXCEPT !.at = "next", !.kind = kind, !.rows = mine]
<1>1. mine \in SUBSET Row
  BY DEF DispatchTyped, TypeOK
<1>2. j \in Job
  <2> HIDE DEF mine
  <2> QED
    BY <1>1, JobMoves, Zenon
<1>3. job' = [job EXCEPT ![w] = j] /\ UNCHANGED <<day, subs, regs, cache, accepts, refused, pruned>>
  BY Zenon DEF StartJob
<1> HIDE DEF j
<1>4. job' \in [Worker -> Job]
  BY <1>2, <1>3, JobOfWorker
<1> QED
  BY <1>3, <1>4 DEF DispatchTyped, TypeOK, Numbered

LEMMA DispatchStepTyped ==
  ASSUME DispatchTyped, NEW w \in Worker, NEW r \in job[w].rows, Dispatch(w, r)
  PROVE  DispatchTyped'
<1> DEFINE key == IF cache[r.endpoint] # {} THEN cache[r.endpoint] ELSE {r.key}
           used == IF job[w].kind = "many" THEN key ELSE {}
           left == job[w].rows \ {r}
           j == [job[w] EXCEPT !.at = "sending", !.rows = left, !.row = {r}, !.sent = day, !.used = used]
<1>1. job[w] \in Job /\ day \in Day
  BY DEF DispatchTyped, TypeOK
<1>2. r \in Row /\ left \in SUBSET Row
  BY <1>1, JobFields
<1>3. r.endpoint \in Endpoint /\ r.key \in Key
  BY <1>2, RowFields
<1>4. key \in SUBSET Key /\ used \in SUBSET Key
  BY <1>3 DEF DispatchTyped, TypeOK
<1>5. job' = [job EXCEPT ![w] = j]
  BY <1>1 DEF Dispatch, DispatchTyped, TypeOK
<1>6. cache' = IF job[w].kind = "many" THEN [cache EXCEPT ![r.endpoint] = key] ELSE cache
  BY Zenon DEF Dispatch
<1>7. UNCHANGED <<day, subs, regs, accepts, refused, pruned>>
  BY DEF Dispatch
<1> HIDE DEF key, used, left
<1>8. j \in Job
  BY <1>1, <1>2, <1>4, JobMoves, Zenon
<1> HIDE DEF j
<1>9. job' \in [Worker -> Job]
  BY <1>5, <1>8, JobOfWorker
<1>10. cache' \in [Endpoint -> SUBSET Key]
  BY <1>3, <1>4, <1>6 DEF DispatchTyped, TypeOK
<1> QED
  BY <1>7, <1>9, <1>10 DEF DispatchTyped, TypeOK, Numbered

LEMMA AnswerTyped ==
  ASSUME DispatchTyped, NEW w \in Worker, Answer(w)
  PROVE  DispatchTyped'
<1>1. job[w] \in Job
  BY DEF DispatchTyped, TypeOK
<1>2. ASSUME NEW at \in {"ok", "gone", "failed"}, job' = [job EXCEPT ![w].at = at]
      PROVE  job' \in [Worker -> Job]
  <2> DEFINE j == [job[w] EXCEPT !.at = at]
  <2>1. j \in Job
    <3>1. CASE at = "ok"
      BY <1>1, <3>1, JobMoves, Zenon
    <3>2. CASE at = "gone"
      BY <1>1, <3>2, JobMoves, Zenon
    <3>3. CASE at = "failed"
      BY <1>1, <3>3, JobMoves, Zenon
    <3> QED
      BY <3>1, <3>2, <3>3
  <2>2. job' = [job EXCEPT ![w] = j]
    BY <1>2, Zenon
  <2> HIDE DEF j
  <2> QED
    BY <2>1, <2>2, JobOfWorker
<1>3. job' \in [Worker -> Job]
  BY <1>2, Zenon DEF Answer
<1>4. refused' \in SUBSET Key
  BY RowFields DEF Answer, DispatchTyped, TypeOK
<1>5. UNCHANGED <<day, subs, regs, cache, accepts, pruned>>
  BY DEF Answer
<1> QED
  BY <1>3, <1>4, <1>5 DEF DispatchTyped, TypeOK, Numbered

LEMMA SettleTyped ==
  ASSUME DispatchTyped, NEW w \in Worker, Settle(w)
  PROVE  DispatchTyped'
<1>1. job[w] \in Job /\ job[w].sent \in Day /\ SendStartDay(w) \in Day
  BY JobFields DEF DispatchTyped, TypeOK, SendStartDay
<1>2. job' \in [Worker -> Job]
  <2> DEFINE j == IF job[w].rows = {} THEN Idle ELSE [job[w] EXCEPT !.at = "next", !.row = {}, !.used = {}]
  <2>1. j \in Job
    BY <1>1, JobMoves, Zenon
  <2>2. job' = [job EXCEPT ![w] = j]
    BY Zenon DEF Settle
  <2> HIDE DEF j
  <2> QED
    BY <2>1, <2>2, JobOfWorker
<1>3. UNCHANGED <<day, regs, accepts, refused>>
  BY DEF Settle
<1>4. PICK r \in job[w].row :
       LET doomed == {s \in subs : s.endpoint = r.endpoint /\ s.created <= SendStartDay(w)}
       IN  \/ /\ cache' = [cache EXCEPT ![r.endpoint] = {}]
              /\ \/ /\ subs' = subs \ doomed
                    /\ pruned' = pruned \cup {[key |-> s.key, created |-> s.created, made |-> s.made,
                                               sent |-> job[w].sent] : s \in doomed}
                 \/ UNCHANGED <<subs, pruned>>
           \/ /\ \/ subs' = {IF s.id = r.id THEN [s EXCEPT !.ok = {SendStartDay(w)}] ELSE s
                               : s \in subs}
                 \/ UNCHANGED subs
              /\ UNCHANGED <<cache, pruned>>
  BY Zenon DEF Settle
<1>5. r.endpoint \in Endpoint
  BY <1>1, JobFields, RowFields
<1>6. cache' \in [Endpoint -> SUBSET Key]
  BY <1>4, <1>5 DEF DispatchTyped, TypeOK
<1>7. Table(subs', regs)
  <2>1. Table(subs, regs)
    BY TableIs
  <2>2. CASE subs' \in SUBSET subs
    BY <2>1, <2>2, FewerInTable
  <2>3. CASE subs' = {Stamp(s, r.id, SendStartDay(w)) : s \in subs}
    BY <1>1, <2>1, <2>3, StampedTable
  <2> QED
    BY <1>4, <2>2, <2>3 DEF Stamp
<1>8. pruned' \in SUBSET [key : Key, created : Day, made : Day, sent : Day]
  <2> DEFINE records == [key : Key, created : Day, made : Day, sent : Day]
  <2>1. \A s \in subs : [key |-> s.key, created |-> s.created, made |-> s.made, sent |-> job[w].sent] \in records
    BY <1>1, RowFields DEF DispatchTyped, TypeOK
  <2>2. pruned \in SUBSET records
    BY DEF DispatchTyped, TypeOK
  <2> HIDE DEF records
  <2>3. pruned' \in SUBSET records
    BY <1>4, <2>1, <2>2
  <2> QED
    BY <2>3 DEF records
<1> QED
  BY <1>2, <1>3, <1>6, <1>7, <1>8 DEF DispatchTyped, TypeOK, Numbered, Table

LEMMA TypedInit == Init => DispatchTyped
<1> SUFFICES ASSUME Init PROVE DispatchTyped
  OBVIOUS
<1>1. Idle \in Job
  BY JobMoves
<1>2. job \in [Worker -> Job]
  BY <1>1 DEF Init
<1>3. cache \in [Endpoint -> SUBSET Key]
  BY DEF Init
<1>4. day \in Day /\ regs \in 0 .. MaxReg /\ subs = {} /\ pruned = {} /\ refused = {} /\ accepts = {}
  BY DispatchAssumption DEF Init, Day
<1> QED
  BY <1>2, <1>3, <1>4 DEF DispatchTyped, TypeOK, Numbered

LEMMA TypedNext == DispatchTyped /\ [Next]_vars => DispatchTyped'
<1> SUFFICES ASSUME DispatchTyped, [Next]_vars PROVE DispatchTyped'
  OBVIOUS
<1>1. ASSUME NEW a \in Account, Api(a) PROVE DispatchTyped'
  <2>1. ASSUME NEW e \in Endpoint, CreateSubscription(a, e) PROVE DispatchTyped'
    BY <2>1, CreateTyped
  <2>2. ASSUME NEW r \in subs, DeleteSubscription(a, r.id) PROVE DispatchTyped'
    BY <2>2, RemoveTyped DEF DeleteSubscription
  <2>3. CASE DeleteAccount(a)
    BY <2>3, RemoveTyped DEF DeleteAccount
  <2> QED
    BY <1>1, <2>1, <2>2, <2>3 DEF Api
<1>2. CASE PruneAncientSubscriptions
  BY <1>2, RemoveTyped DEF PruneAncientSubscriptions
<1>3. ASSUME NEW e \in Endpoint, Revoke(e) PROVE DispatchTyped'
  BY <1>3 DEF Revoke, DispatchTyped, TypeOK, Numbered
<1>4. ASSUME NEW w \in Worker, WorkerStep(w) PROVE DispatchTyped'
  <2>1. ASSUME NEW a \in Account, NEW kind \in {"one", "many"}, StartJob(w, a, kind) PROVE DispatchTyped'
    BY <2>1, StartTyped
  <2>2. ASSUME NEW r \in job[w].rows, Dispatch(w, r) PROVE DispatchTyped'
    BY <2>2, DispatchStepTyped
  <2>3. CASE Answer(w)
    BY <2>3, AnswerTyped
  <2>4. CASE Settle(w)
    BY <2>4, SettleTyped
  <2> QED
    BY <1>4, <2>1, <2>2, <2>3, <2>4 DEF WorkerStep
<1>5. CASE Midnight
  <2>1. day' \in Day
    BY <1>5, DispatchAssumption DEF Midnight, DispatchTyped, TypeOK, Day
  <2> QED
    BY <1>5, <2>1 DEF Midnight, DispatchTyped, TypeOK, Numbered
<1>6. CASE UNCHANGED vars
  BY <1>6 DEF vars, DispatchTyped, TypeOK, Numbered
<1> QED
  BY <1>1, <1>2, <1>3, <1>4, <1>5, <1>6 DEF Next

\* The subscriptions keep their types and the schema's two constraints: one row
\* for an endpoint and one for an id, although the ids of deleted rows come back
\* and a success stamps its row by id (CreateSubscription, dispatchToSub).
THEOREM DispatchTypeCorrect == Spec => []TypeOK
<1>1. DispatchTyped => TypeOK
  BY DEF DispatchTyped
<1> QED
  BY <1>1, TypedInit, TypedNext, PTL DEF Spec
===============================================================================
