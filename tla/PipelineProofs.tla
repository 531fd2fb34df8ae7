---------------------------- MODULE PipelineProofs ----------------------------
(***************************************************************************)
(* Proofs about Pipeline, for every number of pings, accounts and workers  *)
(* and every capacity, age and window.                                     *)
(***************************************************************************)
EXTENDS Pipeline, FiniteSetTheorems, TLAPS

-------------------------------------------------------------------------------
(* Lemmas about the helpers.                                               *)

\* A job or a digest that has aged is still one, for the same pings.
LEMMA OlderJob ==
  ASSUME NEW job \in PingJob
  PROVE  Older(job) \in PingJob /\ Older(job).ping = job.ping
BY PipelineAssumption DEF PingJob, Older, AtMost

LEMMA OlderDigest ==
  ASSUME NEW d \in Digest
  PROVE  Older(d) \in Digest /\ Older(d).pings = d.pings /\ Older(d).to = d.to
BY PipelineAssumption DEF Digest, Older, AtMost

\* Aging the jobs in a channel keeps the channel's length and type.
LEMMA OlderQueue ==
  ASSUME NEW S, NEW T, NEW s \in Seq(S), \A x \in S : Older(x) \in T
  PROVE  /\ [i \in DOMAIN s |-> Older(s[i])] \in Seq(T)
         /\ Len([i \in DOMAIN s |-> Older(s[i])]) = Len(s)
<1> DEFINE t == [i \in 1 .. Len(s) |-> Older(s[i])]
<1>1. DOMAIN s = 1 .. Len(s)
  OBVIOUS
<1>2. \A i \in 1 .. Len(s) : s[i] \in S
  OBVIOUS
<1>3. t \in [1 .. Len(s) -> T]
  BY <1>2
<1>4. Len(s) \in Nat
  OBVIOUS
<1>5. t \in Seq(T) /\ Len(t) = Len(s)
  BY <1>3, <1>4
<1> QED
  BY <1>1, <1>5

\* The digest of an account is a digest.
LEMMA DigestOfType ==
  ASSUME TypeOK, NEW a \in Account
  PROVE  DigestOf(a) \in Digest
BY PipelineAssumption DEF TypeOK, DigestOf, Digest

\* Taking accumulators out keeps the coalescer's types.
LEMMA TakeType ==
  ASSUME TypeOK, NEW A \in SUBSET Account, Take(A)
  PROVE  /\ pending' \in [Account -> PingSet]
         /\ firstAge' \in [Account -> 0 .. Window]
         /\ lag' \in [Account -> 0 .. Window]
<1>1. {} \in PingSet
  BY FS_EmptySet DEF PingSet
<1> QED
  BY <1>1, PipelineAssumption DEF TypeOK, Take

\* Deciding pings keeps the type of their fates.
LEMMA DecideType ==
  ASSUME TypeOK, NEW S, NEW f \in Fate, Decide(S, f)
  PROVE  fate' \in [Ping -> Fate]
BY DEF TypeOK, Decide

\* Telling an account a finite number keeps the type of the account's sum.
LEMMA TellType ==
  ASSUME TypeOK, NEW a \in Account, NEW S \in PingSet,
         told' = [told EXCEPT ![a] = @ + Cardinality(S)]
  PROVE  told' \in [Account -> Nat]
<1>1. Cardinality(S) \in Nat
  BY FS_CardinalityType DEF PingSet
<1> QED
  BY <1>1 DEF TypeOK

-------------------------------------------------------------------------------
(* Type correctness.                                                       *)

\* Every reachable state of the pipeline is well typed.
THEOREM TypeCorrect == Spec => []TypeOK
<1> USE DEF ingress, drain, coalescer, pool, ledger
<1>1. Init => TypeOK
  <2>1. {} \in PingSet
    BY FS_EmptySet DEF PingSet
  <2>2. <<>> \in Seq(PingJob) /\ <<>> \in Seq(Digest)
    OBVIOUS
  <2>3. 0 \in 0 .. Window /\ Window \in 0 .. Window
    BY PipelineAssumption
  <2> SUFFICES ASSUME Init
               PROVE  TypeOK
    OBVIOUS
  <2>4. pending \in [Account -> PingSet]
    BY <2>1 DEF Init
  <2>5. firstAge \in [Account -> 0 .. Window] /\ quiet \in [Account -> 0 .. Window]
    BY <2>3 DEF Init
  <2>9. lag \in [Account -> 0 .. Window] /\ reading \in 0 .. Window
    BY <2>3 DEF Init
  <2>6. queue \in Seq(PingJob) /\ jobs \in Seq(Digest)
    BY <2>2 DEF Init
  <2>7. fate \in [Ping -> Fate] /\ told \in [Account -> Nat]
    BY DEF Init, Fate
  <2>8. /\ worker \in [Worker -> {"idle", "busy", "exited"}]
        /\ working \in [Worker -> SUBSET Digest]
        /\ \A w \in Worker : working[w] # {} => worker[w] = "busy"
    BY DEF Init
  <2> QED
    BY <2>4, <2>5, <2>6, <2>7, <2>8, <2>9 DEF Init, TypeOK, Phase
<1>2. TypeOK /\ [Next]_vars => TypeOK'
  <2> SUFFICES ASSUME TypeOK, [Next]_vars
               PROVE  TypeOK'
    OBVIOUS
  <2> USE PipelineAssumption
  <2>1. ASSUME NEW p \in Ping, Arrive(p)
        PROVE  TypeOK'
    BY <2>1 DEF Arrive, TypeOK
  <2>2. ASSUME NEW p \in Ping, Refuse(p)
        PROVE  TypeOK'
    <3>1. fate' \in [Ping -> Fate]
      BY <2>2, DecideType DEF Refuse, Fate
    <3> QED
      BY <2>2, <3>1 DEF Refuse, TypeOK
  <2>3. ASSUME NEW p \in Ping, Enqueue(p)
        PROVE  TypeOK'
    <3>1. [ping |-> p, age |-> 0] \in PingJob
      BY DEF PingJob
    <3>2. fate' \in [Ping -> Fate]
      BY <2>3, DecideType DEF Enqueue, Fate, TypeOK
    <3>3. dropped' \in Nat
      BY <2>3 DEF Enqueue, TypeOK
    <3>4. Append(queue, [ping |-> p, age |-> 0]) \in Seq(PingJob)
      BY <3>1 DEF TypeOK
    <3>5. queue' \in Seq(PingJob)
      BY <2>3, <3>4 DEF Enqueue, TypeOK
    <3> QED
      BY <2>3, <3>2, <3>3, <3>5 DEF Enqueue, TypeOK
  <2>4. CASE Receive
    <3>1. Head(queue) \in PingJob /\ Tail(queue) \in Seq(PingJob)
      BY <2>4 DEF Receive, TypeOK
    <3> QED
      BY <2>4, <3>1 DEF Receive, TypeOK
  <2>5. CASE Add
    <3>1. PICK job \in held : AddJob(job)
      BY <2>5 DEF Add
    <3>2. job.ping \in Ping /\ To[job.ping] \in Account
      BY DEF TypeOK, PingJob
    <3>3. pending[To[job.ping]] \cup {job.ping} \in PingSet
      <4>1. pending[To[job.ping]] \in PingSet
        BY <3>2 DEF TypeOK
      <4> QED
        BY <3>2, <4>1, FS_AddElement DEF PingSet
    <3>4. pending' \in [Account -> PingSet]
      <4>1. \/ pending' = pending
            \/ pending' = [pending EXCEPT ![To[job.ping]] = @ \cup {job.ping}]
        BY <3>1 DEF AddJob
      <4>2. pending \in [Account -> PingSet]
        BY DEF TypeOK
      <4> QED
        BY <3>2, <3>3, <4>1, <4>2
    <3>6. firstAge' \in [Account -> 0 .. Window] /\ lag' \in [Account -> 0 .. Window]
      <4>1. \/ UNCHANGED <<firstAge, lag>>
            \/ \E v \in {firstAge[To[job.ping]], reading}, l \in {lag[To[job.ping]], reading} :
                 /\ firstAge' = [firstAge EXCEPT ![To[job.ping]] = v]
                 /\ lag' = [lag EXCEPT ![To[job.ping]] = l]
        BY <3>1, Zenon DEF AddJob
      <4>2. /\ firstAge \in [Account -> 0 .. Window] /\ lag \in [Account -> 0 .. Window]
            /\ reading \in 0 .. Window
        BY DEF TypeOK
      <4> QED
        BY <3>2, <4>1, <4>2
    <3>7. dropped' \in Nat
      BY <3>1 DEF AddJob, TypeOK
    <3>5. fate' \in [Ping -> Fate]
      BY <3>1, DecideType DEF AddJob, TypeOK, Fate
    <3>8. 0 \in 0 .. Window
      OBVIOUS
    <3> QED
      BY <2>5, <3>4, <3>5, <3>6, <3>7, <3>8 DEF Add, TypeOK
  <2>24. CASE Judge
    <3>1. PICK job \in held : \/ Decide({job.ping}, "stale") /\ dropped' = dropped + 1
                              \/ UNCHANGED <<fate, dropped>>
      BY <2>24 DEF Judge
    <3>2. fate' \in [Ping -> Fate]
      BY <3>1, DecideType DEF TypeOK, Fate
    <3>3. dropped' \in Nat
      BY <3>1 DEF TypeOK
    <3>4. step' \in {"idle", "judge", "add", "broadcast"}
      BY <2>24 DEF Judge
    <3> QED
      BY <2>24, <3>2, <3>3, <3>4 DEF Judge, TypeOK
  <2>6. CASE Broadcast
    <3>1. {job.ping : job \in held} \subseteq Ping
      BY DEF TypeOK, PingJob
    <3> QED
      BY <2>6, <3>1 DEF Broadcast, TypeOK
  <2>7. CASE Pump1Exit
    BY <2>7 DEF Pump1Exit, TypeOK
  <2>8. ASSUME NEW a \in Account, ReadPending(a)
        PROVE  TypeOK'
    <3>1. told' \in [Account -> Nat]
      BY <2>8, TellType DEF ReadPending, TypeOK
    <3>2. fate' \in [Ping -> Fate]
      BY <2>8, DecideType DEF ReadPending, Fate
    <3>3. /\ pending' \in [Account -> PingSet] /\ firstAge' \in [Account -> 0 .. Window]
          /\ lag' \in [Account -> 0 .. Window]
      BY <2>8, TakeType DEF ReadPending
    <3> QED
      BY <2>8, <3>1, <3>2, <3>3 DEF ReadPending, TypeOK
  <2>9. CASE Flush
    <3>1. /\ pending' \in [Account -> PingSet] /\ firstAge' \in [Account -> 0 .. Window]
          /\ lag' \in [Account -> 0 .. Window]
      BY <2>9, TakeType DEF Flush, Due, Items
    <3>2. batch' \in SUBSET Digest
      BY <2>9, DigestOfType DEF Flush, Due, Items
    <3> QED
      BY <2>9, <3>1, <3>2 DEF Flush, TypeOK
  <2>10. ASSUME NEW d \in batch, QueueJob(d)
         PROVE  TypeOK'
    <3>1. jobs' \in Seq(Digest)
      <4>1. d \in Digest /\ jobs \in Seq(Digest)
        BY DEF TypeOK
      <4>2. Append(jobs, d) \in Seq(Digest)
        BY <4>1
      <4> QED
        BY <2>10, <4>1, <4>2 DEF QueueJob
    <3>3. dropped' \in Nat
      BY <2>10 DEF QueueJob, TypeOK
    <3>2. fate' \in [Ping -> Fate]
      BY <2>10, DecideType DEF QueueJob, Fate, TypeOK
    <3> QED
      BY <2>10, <3>1, <3>2, <3>3 DEF QueueJob, TypeOK
  <2>11. CASE Pump2Exit
    BY <2>11 DEF Pump2Exit, TypeOK
  <2>12. ASSUME NEW w \in Worker, WorkerTake(w)
         PROVE  TypeOK'
    <3>1. Head(jobs) \in Digest /\ Tail(jobs) \in Seq(Digest)
      BY <2>12 DEF WorkerTake, TypeOK
    <3> QED
      BY <2>12, <3>1 DEF WorkerTake, TypeOK
  <2>13. ASSUME NEW w \in Worker, ProcessJob(w)
         PROVE  TypeOK'
    <3>1. PICK d \in working[w] : SendJob(d)
      BY <2>13 DEF ProcessJob
    <3>2. d \in Digest
      BY DEF TypeOK
    <3>3. fate' \in [Ping -> Fate]
      BY <3>1, DecideType DEF SendJob, Fate
    <3>4. told' \in [Account -> Nat]
      <4>1. d.to \in Account /\ d.pings \in PingSet
        BY <3>2 DEF Digest
      <4>2. \/ told' = told
            \/ told' = [told EXCEPT ![d.to] = @ + Cardinality(d.pings)]
        BY <3>1 DEF SendJob
      <4> QED
        BY <4>1, <4>2, TellType DEF TypeOK
    <3>5. dropped' \in Nat
      BY <3>1 DEF SendJob, TypeOK
    <3> QED
      BY <2>13, <3>3, <3>4, <3>5 DEF ProcessJob, TypeOK
  <2>14. ASSUME NEW w \in Worker, WorkerExit(w)
         PROVE  TypeOK'
    BY <2>14 DEF WorkerExit, TypeOK
  <2>15. CASE Sigterm
    BY <2>15 DEF Sigterm, Goto, TypeOK, Phase
  <2>16. CASE ShutdownReturns
    BY <2>16 DEF ShutdownReturns, Goto, TypeOK, Phase
  <2>17. CASE PumpsWaited
    BY <2>17 DEF PumpsWaited, Goto, TypeOK, Phase
  <2>18. CASE FlushAll
    <3>1. /\ pending' \in [Account -> PingSet] /\ firstAge' \in [Account -> 0 .. Window]
          /\ lag' \in [Account -> 0 .. Window]
      BY <2>18, TakeType DEF FlushAll, Items
    <3>2. batch' \in SUBSET Digest
      BY <2>18, DigestOfType DEF FlushAll, Items
    <3> QED
      BY <2>18, <3>1, <3>2 DEF FlushAll, Goto, TypeOK, Phase
  <2>19. CASE StopPool
    BY <2>19 DEF StopPool, Goto, TypeOK, Phase
  <2>20. CASE DrainTimeout
    BY <2>20 DEF DrainTimeout, TypeOK
  <2>21. CASE Exit
    BY <2>21 DEF Exit, Goto, TypeOK, Phase
  <2>22. CASE Tick
    <3>1. queue' \in Seq(PingJob)
      BY <2>22, OlderQueue, OlderJob DEF Tick, TypeOK
    <3>2. jobs' \in Seq(Digest)
      BY <2>22, OlderQueue, OlderDigest DEF Tick, TypeOK
    <3>3. held' \in SUBSET PingJob
      BY <2>22, OlderJob DEF Tick, TypeOK
    <3>4. batch' \in SUBSET Digest
      BY <2>22, OlderDigest DEF Tick, TypeOK
    <3>5. working' \in [Worker -> SUBSET Digest]
      BY <2>22, OlderDigest DEF Tick, TypeOK
    <3>6. firstAge' \in [Account -> 0 .. Window] /\ quiet' \in [Account -> 0 .. Window]
      BY <2>22 DEF Tick, TypeOK, AtMost
    <3>7. reading' \in 0 .. Window
      BY <2>22 DEF Tick, TypeOK, AtMost
    <3>8. \A w \in Worker : working'[w] # {} => worker'[w] = "busy"
      <4>1. ASSUME NEW w \in Worker
            PROVE  working'[w] = {Older(d) : d \in working[w]} /\ worker' = worker
        BY <2>22 DEF Tick
      <4> QED
        BY <4>1 DEF TypeOK
    <3> QED
      BY <2>22, <3>1, <3>2, <3>3, <3>4, <3>5, <3>6, <3>7, <3>8 DEF Tick, TypeOK
  <2>23. CASE UNCHANGED vars
    BY <2>23 DEF vars, TypeOK
  <2> QED
    BY <2>1, <2>2, <2>3, <2>4, <2>5, <2>6, <2>7, <2>8, <2>9, <2>10, <2>11, <2>12, <2>13,
       <2>14, <2>15, <2>16, <2>17, <2>18, <2>19, <2>20, <2>21, <2>22, <2>23, <2>24
       DEF Next, Request, DrainLoop, OfferDigest, PoolWorker, CloseStep, Terminated
<1> QED
  BY <1>1, <1>2, PTL DEF Spec

-------------------------------------------------------------------------------
(* Capacity.                                                               *)

\* Bounded is inductive once the accumulators are known to be finitely many.
BoundedInv == IsFiniteSet(Items) /\ Bounded

\* Taking accumulators out leaves no more of them.
LEMMA TakeItems ==
  ASSUME TypeOK, IsFiniteSet(Items), NEW A, Take(A)
  PROVE  IsFiniteSet(Items') /\ Cardinality(Items') <= Cardinality(Items)
<1>1. Items' \subseteq Items
  BY DEF Take, Items, TypeOK
<1> QED
  BY <1>1, FS_Subset

\* A job adds at most one accumulator, and none when the coalescer is full.
LEMMA AddJobItems ==
  ASSUME TypeOK, BoundedInv, NEW job \in PingJob, AddJob(job)
  PROVE  IsFiniteSet(Items') /\ Cardinality(Items') <= MaxRecipients
<1> DEFINE a == To[job.ping]
<1>1. a \in Account
  BY PipelineAssumption DEF PingJob
<1>2. CASE UNCHANGED pending
  BY <1>2 DEF BoundedInv, Bounded, Items
<1>3. CASE /\ a \in Items \/ Cardinality(Items) < MaxRecipients
           /\ pending' = [pending EXCEPT ![a] = @ \cup {job.ping}]
  <2>1. Items' = Items \cup {a}
    BY <1>1, <1>3 DEF Items, TypeOK
  <2>2. /\ IsFiniteSet(Items \cup {a})
        /\ Cardinality(Items \cup {a}) = IF a \in Items THEN Cardinality(Items)
                                                        ELSE Cardinality(Items) + 1
    BY FS_AddElement DEF BoundedInv
  <2>3. Cardinality(Items) \in Nat /\ MaxRecipients \in Nat
    BY FS_CardinalityType, PipelineAssumption DEF BoundedInv
  <2> QED
    BY <1>3, <2>1, <2>2, <2>3 DEF BoundedInv, Bounded
<1> QED
  BY <1>2, <1>3 DEF AddJob

\* No buffer of the pipeline ever holds more than its configured capacity:
\* the ingress channel, the coalescer's accumulators, the job channel.
THEOREM BuffersBounded == Spec => []Bounded
<1> USE DEF ingress, drain, coalescer, pool, ledger
<1>1. Init => BoundedInv
  <2> SUFFICES ASSUME Init
               PROVE  BoundedInv
    OBVIOUS
  <2>1. Items = {}
    BY DEF Init, Items
  <2>2. Len(queue) = 0 /\ Len(jobs) = 0
    BY DEF Init
  <2> QED
    BY <2>1, <2>2, FS_EmptySet, PipelineAssumption DEF BoundedInv, Bounded
<1>2. TypeOK /\ BoundedInv /\ [Next]_vars => BoundedInv'
  <2> SUFFICES ASSUME TypeOK, BoundedInv, [Next]_vars
               PROVE  BoundedInv'
    OBVIOUS
  <2> DEFINE ItemsOK == IsFiniteSet(Items) /\ Cardinality(Items) <= MaxRecipients
  <2> USE PipelineAssumption
  <2>1. UNCHANGED pending => ItemsOK'
    BY DEF BoundedInv, Bounded, Items
  <2>2. ASSUME NEW A, Take(A)
        PROVE  ItemsOK'
    <3>1. Cardinality(Items) \in Nat /\ Cardinality(Items') \in Nat
      BY <2>2, TakeItems, FS_CardinalityType DEF BoundedInv
    <3> QED
      BY <2>2, <3>1, TakeItems DEF BoundedInv, Bounded
  <2>3. Len(queue) \in Nat /\ Len(jobs) \in Nat
    BY DEF TypeOK
  <2>4. ASSUME NEW p \in Ping, Enqueue(p)
        PROVE  BoundedInv'
    <3>1. Len(queue') <= QueueCap
      BY <2>3, <2>4 DEF Enqueue, BoundedInv, Bounded, TypeOK
    <3> QED
      BY <2>1, <2>4, <3>1 DEF Enqueue, BoundedInv, Bounded
  <2>5. CASE Receive
    <3>1. Len(queue') <= QueueCap
      BY <2>3, <2>5 DEF Receive, BoundedInv, Bounded, TypeOK
    <3> QED
      BY <2>1, <2>5, <3>1 DEF Receive, BoundedInv, Bounded
  <2>6. CASE Add
    <3>1. PICK job \in held : AddJob(job)
      BY <2>6 DEF Add
    <3>2. ItemsOK'
      BY <3>1, AddJobItems DEF TypeOK
    <3> QED
      BY <2>6, <3>2 DEF Add, BoundedInv, Bounded
  <2>7. ASSUME NEW a \in Account, ReadPending(a)
        PROVE  BoundedInv'
    BY <2>2, <2>7 DEF ReadPending, BoundedInv, Bounded
  <2>8. CASE Flush
    BY <2>2, <2>8 DEF Flush, BoundedInv, Bounded
  <2>9. ASSUME NEW d \in batch, QueueJob(d)
        PROVE  BoundedInv'
    <3>1. Len(jobs') <= JobCap
      BY <2>3, <2>9 DEF QueueJob, BoundedInv, Bounded, TypeOK
    <3> QED
      BY <2>1, <2>9, <3>1 DEF QueueJob, BoundedInv, Bounded
  <2>10. ASSUME NEW w \in Worker, WorkerTake(w)
         PROVE  BoundedInv'
    <3>1. Len(jobs') <= JobCap
      BY <2>3, <2>10 DEF WorkerTake, BoundedInv, Bounded, TypeOK
    <3> QED
      BY <2>1, <2>10, <3>1 DEF WorkerTake, BoundedInv, Bounded
  <2>11. CASE FlushAll
    BY <2>2, <2>11 DEF FlushAll, BoundedInv, Bounded
  <2>12. CASE Tick
    <3>1. Len(queue') = Len(queue)
      BY <2>12, OlderQueue, OlderJob DEF Tick, TypeOK
    <3>2. Len(jobs') = Len(jobs)
      BY <2>12, OlderQueue, OlderDigest DEF Tick, TypeOK
    <3> QED
      BY <2>1, <2>12, <3>1, <3>2 DEF Tick, BoundedInv, Bounded
  <2>13. CASE UNCHANGED <<queue, pending, jobs>>
    BY <2>1, <2>13 DEF BoundedInv, Bounded
  <2> QED
    BY <2>4, <2>5, <2>6, <2>7, <2>8, <2>9, <2>10, <2>11, <2>12, <2>13
       DEF Next, Request, DrainLoop, OfferDigest, PoolWorker, CloseStep, Terminated, vars,
           Arrive, Refuse, Broadcast, Pump1Exit, Pump2Exit, ProcessJob, WorkerExit, Sigterm,
           ShutdownReturns, PumpsWaited, StopPool, DrainTimeout, Exit, Judge
<1>3. BoundedInv => Bounded
  BY DEF BoundedInv
<1> QED
  BY <1>1, <1>2, <1>3, TypeCorrect, PTL DEF Spec

-------------------------------------------------------------------------------
(* The order of the shutdown.                                              *)

\* Why the job channel is closed only after the last digest was offered:
\* each phase of Assembly.Close leaves behind what the next one relies on.
CloseOrder ==
  /\ jobsClosed => phase \in {"stopping", "exited"}
  /\ phase \in {"drainqueue", "flushall", "stopping", "exited"}
       => pump1 = "exited" /\ pump2 = "exited"
  /\ pump2 = "exited" /\ phase # "flushall" => batch = {}

\* Each phase of the shutdown finds what the one before it promised.
LEMMA CloseOrderInv == Spec => []CloseOrder
<1> USE DEF ingress, drain, coalescer, pool, ledger
<1>1. Init => CloseOrder
  BY DEF Init, CloseOrder
<1>2. TypeOK /\ CloseOrder /\ [Next]_vars => CloseOrder'
  <2> SUFFICES ASSUME TypeOK, CloseOrder, [Next]_vars
               PROVE  CloseOrder'
    OBVIOUS
  <2>1. CASE Receive \/ Judge \/ Add \/ Broadcast
    BY <2>1 DEF Receive, Judge, Add, Broadcast, CloseOrder
  <2>2. CASE Pump1Exit
    BY <2>2 DEF Pump1Exit, CloseOrder
  <2>3. CASE Flush
    BY <2>3 DEF Flush, CloseOrder
  <2>4. ASSUME NEW d \in batch, QueueJob(d)
        PROVE  CloseOrder'
    BY <2>4 DEF QueueJob, CloseOrder
  <2>5. CASE Pump2Exit
    BY <2>5 DEF Pump2Exit, CloseOrder
  <2>6. CASE Sigterm
    BY <2>6 DEF Sigterm, Goto, CloseOrder
  <2>13. CASE ShutdownReturns
    <3>1. phase = "draining" /\ phase' = "cancelled" /\ UNCHANGED <<pump2, batch, jobsClosed>>
      BY <2>13 DEF ShutdownReturns, Goto
    <3> QED
      BY <3>1 DEF CloseOrder
  <2>7. CASE PumpsWaited
    BY <2>7 DEF PumpsWaited, Goto, CloseOrder
  <2>8. CASE FlushAll
    BY <2>8 DEF FlushAll, Goto, CloseOrder
  <2>9. CASE StopPool
    BY <2>9 DEF StopPool, Goto, CloseOrder
  <2>10. CASE Exit
    BY <2>10 DEF Exit, Goto, CloseOrder
  <2>11. CASE Tick
    <3>1. batch = {} => batch' = {}
      BY <2>11 DEF Tick
    <3> QED
      BY <2>11, <3>1 DEF Tick, CloseOrder
  <2>12. CASE UNCHANGED <<phase, pump1, pump2, batch, jobsClosed>>
    BY <2>12 DEF CloseOrder
  <2> QED
    BY <2>1, <2>2, <2>3, <2>4, <2>5, <2>6, <2>7, <2>8, <2>9, <2>10, <2>11, <2>12,
       <2>13
       DEF Next, Request, DrainLoop, OfferDigest, PoolWorker, CloseStep, Terminated, vars,
           Arrive, Refuse, Enqueue, ReadPending, WorkerTake, ProcessJob, WorkerExit, DrainTimeout
<1> QED
  BY <1>1, <1>2, TypeCorrect, PTL DEF Spec

\* Pool.QueueJob is never called on a closed channel, which would panic:
\* once Pool.Stop has closed it, pump 2 is gone and no digest is left.
THEOREM NeverSendsOnClosed == Spec => []NoSendOnClosed
<1>1. CloseOrder => NoSendOnClosed
  BY DEF CloseOrder, NoSendOnClosed
<1> QED
  BY <1>1, CloseOrderInv, PTL

-------------------------------------------------------------------------------
(* Custody: where a ping can be, and that it is in one place.              *)

\* The places a ping can be in, besides a handler.
InQueue(p) == \E i \in DOMAIN queue : queue[i].ping = p
InHeld(p) == step \in {"judge", "add"} /\ \E job \in held : job.ping = p
InPending(p) == \E a \in Account : p \in pending[a]
InBatch(p) == \E d \in batch : p \in d.pings
InJobs(p) == \E i \in DOMAIN jobs : p \in jobs[i].pings
InWorker(p) == \E w \in Worker : \E d \in working[w] : p \in d.pings

\* The server has taken the ping in and owes it a decision.
Undecided(p) == p \in arrived /\ fate[p] = "none"

\* The drain loop and each worker hold one job when they work on one.
OneJobEach ==
  /\ step = "idle" => held = {}
  /\ step # "idle" => \E job \in held : held = {job}
  /\ \A w \in Worker : /\ worker[w] # "busy" => working[w] = {}
                       /\ \A d, e \in working[w] : d = e

\* Every digest stands for at least one ping, and for its recipient's only.
Addressed(d) == d.pings # {} /\ \A p \in d.pings : To[p] = d.to

AllAddressed ==
  /\ \A a \in Account : \A p \in pending[a] : To[p] = a
  /\ \A d \in batch : Addressed(d)
  /\ \A i \in DOMAIN jobs : Addressed(jobs[i])
  /\ \A w \in Worker : \A d \in working[w] : Addressed(d)

\* Within one buffer a ping is counted once.
OnceInQueue(p) ==
  \A i, j \in DOMAIN queue : queue[i].ping = p /\ queue[j].ping = p => i = j
OnceInBatch(p) == \A d, e \in batch : p \in d.pings /\ p \in e.pings => d = e
OnceInJobs(p) ==
  \A i, j \in DOMAIN jobs : p \in jobs[i].pings /\ p \in jobs[j].pings => i = j
OnceInWorker(p) ==
  \A v, w \in Worker : \A d \in working[v], e \in working[w] :
    p \in d.pings /\ p \in e.pings => v = w

Once(p) == OnceInQueue(p) /\ OnceInBatch(p) /\ OnceInJobs(p) /\ OnceInWorker(p)

\* No two buffers count the same ping.
Exclusive(p) ==
  /\ p \in handlers => ~InQueue(p) /\ ~InHeld(p) /\ ~InPending(p) /\ ~InBatch(p)
                       /\ ~InJobs(p) /\ ~InWorker(p)
  /\ InQueue(p) => ~InHeld(p) /\ ~InPending(p) /\ ~InBatch(p) /\ ~InJobs(p) /\ ~InWorker(p)
  /\ InHeld(p) => ~InPending(p) /\ ~InBatch(p) /\ ~InJobs(p) /\ ~InWorker(p)
  /\ InPending(p) => ~InBatch(p) /\ ~InJobs(p) /\ ~InWorker(p)
  /\ InBatch(p) => ~InJobs(p) /\ ~InWorker(p)
  /\ InJobs(p) => ~InWorker(p)

\* What a ping's fate says about its place.
Accounted(p) ==
  /\ p \notin arrived => fate[p] = "none"
  /\ Undecided(p) <=> \/ p \in handlers
                      \/ InQueue(p)
                      \/ InHeld(p)
                      \/ InPending(p)
                      \/ InBatch(p)
                      \/ InJobs(p)
                      \/ InWorker(p)

Placed(p) == Once(p) /\ Exclusive(p) /\ Accounted(p)

Custody == \A p \in Ping : Placed(p)

\* A step of the pipeline keeps the drain loop and the workers to one job each.
LEMMA OneJobEachInv == Spec => []OneJobEach
<1> USE DEF ingress, drain, coalescer, pool, ledger
<1>1. Init => OneJobEach
  BY DEF Init, OneJobEach
<1>2. TypeOK /\ OneJobEach /\ [Next]_vars => OneJobEach'
  <2> SUFFICES ASSUME TypeOK, OneJobEach, [Next]_vars
               PROVE  OneJobEach'
    OBVIOUS
  <2>1. CASE Receive
    BY <2>1 DEF Receive, OneJobEach
  <2>2. CASE Judge \/ Add
    BY <2>2 DEF Judge, Add, OneJobEach
  <2>3. CASE Broadcast
    BY <2>3 DEF Broadcast, OneJobEach
  <2>4. ASSUME NEW w \in Worker, WorkerTake(w)
        PROVE  OneJobEach'
    <3>1. /\ worker' = [worker EXCEPT ![w] = "busy"]
          /\ working' = [working EXCEPT ![w] = {Head(jobs)}]
          /\ UNCHANGED <<step, held>>
      BY <2>4 DEF WorkerTake
    <3> QED
      BY <3>1 DEF OneJobEach, TypeOK
  <2>5. ASSUME NEW w \in Worker, ProcessJob(w)
        PROVE  OneJobEach'
    <3>1. /\ worker' = [worker EXCEPT ![w] = "idle"]
          /\ working' = [working EXCEPT ![w] = {}]
          /\ UNCHANGED <<step, held>>
      BY <2>5 DEF ProcessJob
    <3> QED
      BY <3>1 DEF OneJobEach, TypeOK
  <2>6. ASSUME NEW w \in Worker, WorkerExit(w)
        PROVE  OneJobEach'
    <3>1. /\ worker[w] = "idle"
          /\ worker' = [worker EXCEPT ![w] = "exited"]
          /\ UNCHANGED <<step, held, working>>
      BY <2>6 DEF WorkerExit
    <3> QED
      BY <3>1 DEF OneJobEach, TypeOK
  <2>7. CASE Tick
    <3>1. /\ held' = {Older(job) : job \in held}
          /\ working' = [w \in Worker |-> {Older(d) : d \in working[w]}]
          /\ UNCHANGED <<step, worker>>
      BY <2>7 DEF Tick
    <3>2. /\ step = "idle" => held' = {}
          /\ step # "idle" => \E job \in held' : held' = {job}
      <4>1. CASE step = "idle"
        BY <3>1, <4>1 DEF OneJobEach
      <4>2. CASE step # "idle"
        <5>1. PICK job \in held : held = {job}
          BY <4>2 DEF OneJobEach
        <5> QED
          BY <3>1, <4>2, <5>1
      <4> QED
        BY <4>1, <4>2
    <3>3. ASSUME NEW w \in Worker
          PROVE  /\ worker[w] # "busy" => working'[w] = {}
                 /\ \A d, e \in working'[w] : d = e
      BY <3>1 DEF OneJobEach
    <3> QED
      BY <3>1, <3>2, <3>3 DEF OneJobEach
  <2>8. CASE UNCHANGED <<step, held, worker, working>>
    BY <2>8 DEF OneJobEach
  <2> QED
    BY <2>1, <2>2, <2>3, <2>4, <2>5, <2>6, <2>7, <2>8
       DEF Next, Request, DrainLoop, OfferDigest, PoolWorker, CloseStep, Terminated, vars,
           Arrive, Refuse, Enqueue, Pump1Exit, ReadPending, Flush, QueueJob, Pump2Exit,
           Sigterm, ShutdownReturns, PumpsWaited, FlushAll, StopPool, DrainTimeout, Exit
<1> QED
  BY <1>1, <1>2, TypeCorrect, PTL DEF Spec

\* What Append and Tail do to the places of a sequence.
LEMMA AppendPlaces ==
  ASSUME NEW S, NEW s \in Seq(S), NEW x \in S
  PROVE  /\ Len(s) \in Nat
         /\ DOMAIN s = 1 .. Len(s)
         /\ DOMAIN Append(s, x) = 1 .. Len(s) + 1
         /\ \A i \in 1 .. Len(s) : Append(s, x)[i] = s[i]
         /\ Append(s, x)[Len(s) + 1] = x
OBVIOUS

LEMMA TailPlaces ==
  ASSUME NEW S, NEW s \in Seq(S), s # <<>>
  PROVE  /\ Len(s) \in Nat \ {0}
         /\ DOMAIN s = 1 .. Len(s)
         /\ Head(s) = s[1]
         /\ DOMAIN Tail(s) = 1 .. Len(s) - 1
         /\ \A i \in 1 .. Len(s) - 1 : Tail(s)[i] = s[i + 1]
OBVIOUS

\* Only digests of the accounts' own pings are ever made, and none is empty.
LEMMA AddressedInv == Spec => []AllAddressed
<1> USE DEF ingress, drain, coalescer, pool, ledger
<1>1. Init => AllAddressed
  BY DEF Init, AllAddressed
<1>2. TypeOK /\ AllAddressed /\ [Next]_vars => AllAddressed'
  <2> SUFFICES ASSUME TypeOK, AllAddressed, [Next]_vars
               PROVE  AllAddressed'
    OBVIOUS
  <2> DEFINE Pending == \A a \in Account : \A p \in pending[a] : To[p] = a
             Batch == \A d \in batch : Addressed(d)
             Jobs == \A i \in DOMAIN jobs : Addressed(jobs[i])
             Working == \A w \in Worker : \A d \in working[w] : Addressed(d)
  <2>a. AllAddressed <=> Pending /\ Batch /\ Jobs /\ Working
    BY DEF AllAddressed
  <2>b. AllAddressed' <=> Pending' /\ Batch' /\ Jobs' /\ Working'
    BY DEF AllAddressed
  <2>c. /\ UNCHANGED pending => Pending'
        /\ UNCHANGED batch => Batch'
        /\ UNCHANGED jobs => Jobs'
        /\ UNCHANGED working => Working'
    BY <2>a
  <2>d. ASSUME NEW A, Take(A)
        PROVE  Pending'
    BY <2>a, <2>d DEF Take
  <2>1. CASE Add
    <3>1. PICK job \in held : AddJob(job)
      BY <2>1 DEF Add
    <3>2. job.ping \in Ping /\ To[job.ping] \in Account
      BY PipelineAssumption DEF TypeOK, PingJob
    <3>3. \/ pending' = pending
          \/ pending' = [pending EXCEPT ![To[job.ping]] = @ \cup {job.ping}]
      BY <3>1 DEF AddJob
    <3>4. Pending'
      <4>1. pending \in [Account -> PingSet]
        BY DEF TypeOK
      <4>2. CASE pending' = [pending EXCEPT ![To[job.ping]] = @ \cup {job.ping}]
        <5>1. ASSUME NEW a \in Account, NEW p \in pending'[a]
              PROVE  p \in pending[a] \/ (a = To[job.ping] /\ p = job.ping)
          BY <3>2, <4>1, <4>2, <5>1
        <5> QED
          BY <2>a, <5>1
      <4> QED
        BY <2>c, <3>3, <4>2
    <3> QED
      BY <2>1, <2>a, <2>b, <2>c, <3>4 DEF Add
  <2>2. ASSUME NEW a \in Account, ReadPending(a)
        PROVE  AllAddressed'
    BY <2>2, <2>a, <2>b, <2>c, <2>d DEF ReadPending
  <2>3. ASSUME NEW A \in SUBSET Items, Take(A), batch' = {DigestOf(a) : a \in A},
               UNCHANGED <<jobs, working>>
        PROVE  AllAddressed'
    <3>1. ASSUME NEW a \in A
          PROVE  Addressed(DigestOf(a))
      BY <2>a DEF Items, DigestOf, Addressed
    <3>2. Batch'
      BY <2>3, <3>1
    <3> QED
      BY <2>3, <2>a, <2>b, <2>c, <2>d, <3>2
  <2>4. ASSUME NEW d \in batch, QueueJob(d)
        PROVE  AllAddressed'
    <3>1. batch' \subseteq batch /\ UNCHANGED <<pending, working>>
      BY <2>4 DEF QueueJob
    <3>2. jobs' = jobs \/ jobs' = Append(jobs, d)
      BY <2>4 DEF QueueJob
    <3>3. d \in Digest /\ jobs \in Seq(Digest) /\ Addressed(d)
      BY <2>a DEF TypeOK
    <3>4. CASE jobs' = Append(jobs, d)
      <4> HIDE DEF Pending, Working
      <4>1. Jobs'
        BY <2>a, <3>3, <3>4, AppendPlaces
      <4> QED
        BY <2>a, <2>b, <2>c, <3>1, <4>1
    <3> QED
      BY <2>a, <2>b, <2>c, <3>1, <3>2, <3>4
  <2>5. ASSUME NEW w \in Worker, WorkerTake(w)
        PROVE  AllAddressed'
    <3>1. /\ jobs # <<>> /\ jobs' = Tail(jobs)
          /\ working' = [working EXCEPT ![w] = {Head(jobs)}]
          /\ UNCHANGED <<pending, batch>>
      BY <2>5 DEF WorkerTake
    <3>2. jobs \in Seq(Digest) /\ working \in [Worker -> SUBSET Digest]
      BY DEF TypeOK
    <3>3. Jobs' /\ Addressed(Head(jobs))
      BY <2>a, <3>1, <3>2, TailPlaces
    <3>4. Working'
      BY <2>a, <3>1, <3>2, <3>3
    <3> QED
      BY <2>a, <2>b, <2>c, <3>1, <3>3, <3>4
  <2>6. ASSUME NEW w \in Worker, ProcessJob(w)
        PROVE  AllAddressed'
    <3>1. /\ working' = [working EXCEPT ![w] = {}]
          /\ UNCHANGED <<pending, batch, jobs>>
      BY <2>6 DEF ProcessJob
    <3>2. Working'
      BY <2>a, <3>1 DEF TypeOK
    <3> QED
      BY <2>a, <2>b, <2>c, <3>1, <3>2
  <2>7. CASE Tick
    <3>1. /\ batch' = {Older(d) : d \in batch}
          /\ jobs' = [i \in DOMAIN jobs |-> Older(jobs[i])]
          /\ working' = [w \in Worker |-> {Older(d) : d \in working[w]}]
          /\ UNCHANGED pending
      BY <2>7 DEF Tick
    <3>2. /\ batch \subseteq Digest
          /\ \A i \in DOMAIN jobs : jobs[i] \in Digest
          /\ \A w \in Worker : working[w] \subseteq Digest
      BY DEF TypeOK
    <3>3. ASSUME NEW d \in Digest, Addressed(d)
          PROVE  Addressed(Older(d))
      BY <3>3, OlderDigest DEF Addressed
    <3>4. Batch' /\ Jobs' /\ Working'
      BY <2>a, <3>1, <3>2, <3>3
    <3> QED
      BY <2>a, <2>b, <2>c, <3>1, <3>4
  <2>8. CASE UNCHANGED <<pending, batch, jobs, working>>
    BY <2>8, <2>a, <2>b, <2>c
  <2>9. CASE Flush
    BY <2>3, <2>9 DEF Flush, Due
  <2>10. CASE FlushAll
    BY <2>3, <2>10 DEF FlushAll
  <2> HIDE DEF Pending, Batch, Jobs, Working
  <2> QED
    BY <2>1, <2>2, <2>4, <2>5, <2>6, <2>7, <2>8, <2>9, <2>10
       DEF Next, Request, DrainLoop, OfferDigest, PoolWorker, CloseStep, Terminated, vars,
           Arrive, Refuse, Enqueue, Receive, Judge, Broadcast, Pump1Exit, Pump2Exit, WorkerExit,
           Sigterm, ShutdownReturns, PumpsWaited, StopPool, DrainTimeout, Exit
<1> QED
  BY <1>1, <1>2, TypeCorrect, PTL DEF Spec

\* A buffer that a step leaves alone holds the pings it held.
LEMMA Frame ==
  ASSUME NEW p
  PROVE  /\ UNCHANGED queue => /\ InQueue(p)' <=> InQueue(p)
                               /\ OnceInQueue(p)' <=> OnceInQueue(p)
         /\ UNCHANGED <<step, held>> => (InHeld(p)' <=> InHeld(p))
         /\ UNCHANGED pending => (InPending(p)' <=> InPending(p))
         /\ UNCHANGED batch => /\ InBatch(p)' <=> InBatch(p)
                               /\ OnceInBatch(p)' <=> OnceInBatch(p)
         /\ UNCHANGED jobs => /\ InJobs(p)' <=> InJobs(p)
                              /\ OnceInJobs(p)' <=> OnceInJobs(p)
         /\ UNCHANGED working => /\ InWorker(p)' <=> InWorker(p)
                                 /\ OnceInWorker(p)' <=> OnceInWorker(p)
BY DEF InQueue, OnceInQueue, InHeld, InPending, InBatch, OnceInBatch, InJobs, OnceInJobs,
       InWorker, OnceInWorker

\* Deciding the pings S ends their waiting, and no other ping's.
LEMMA DecideEnds ==
  ASSUME TypeOK, NEW S, NEW f, f # "none", Decide(S, f), UNCHANGED arrived, NEW p \in Ping
  PROVE  /\ Undecided(p)' <=> Undecided(p) /\ p \notin S
         /\ p \in arrived /\ (p \notin arrived => fate[p] = "none")
              => (p \notin arrived' => fate'[p] = "none")
         /\ p \notin S => fate'[p] = fate[p]
BY DEF TypeOK, Undecided, Decide

\* An accumulator counts its owner's pings only.
LEMMA PendingPlace ==
  ASSUME AllAddressed, NEW p \in Ping
  PROVE  InPending(p) <=> p \in pending[To[p]]
BY PipelineAssumption DEF AllAddressed, InPending

LEMMA ArriveCustody ==
  ASSUME TypeOK, Custody, NEW q \in Ping, Arrive(q)
  PROVE  Custody'
<1> SUFFICES ASSUME NEW p \in Ping
             PROVE  Placed(p)'
  BY DEF Custody
<1>1. Placed(p)
  BY DEF Custody
<1>2. /\ q \notin arrived
      /\ arrived' = arrived \cup {q}
      /\ handlers' = handlers \cup {q}
      /\ UNCHANGED <<queue, step, held, pending, batch, jobs, working, fate>>
  BY DEF Arrive, ingress, drain, coalescer, pool, ledger
<1> QED
  BY <1>1, <1>2, Frame DEF Placed, Once, Exclusive, Accounted, Undecided

LEMMA RefuseCustody ==
  ASSUME TypeOK, Custody, NEW q \in Ping, Refuse(q)
  PROVE  Custody'
<1> SUFFICES ASSUME NEW p \in Ping
             PROVE  Placed(p)'
  BY DEF Custody
<1>1. Placed(p)
  BY DEF Custody
<1>2. /\ q \in handlers
      /\ handlers' = handlers \ {q}
      /\ UNCHANGED <<arrived, queue, step, held, pending, batch, jobs, working>>
      /\ Decide({q}, "refused")
  BY DEF Refuse, drain, coalescer, pool
<1>3. Undecided(p)' <=> Undecided(p) /\ p # q
  BY <1>2, DecideEnds
<1>4. p # q => fate'[p] = fate[p]
  BY <1>2, DecideEnds
<1>5. Undecided(p) => p \in arrived
  BY DEF Undecided
<1> QED
  BY <1>1, <1>2, <1>3, <1>4, <1>5, Frame DEF Placed, Once, Exclusive, Accounted

LEMMA EnqueueCustody ==
  ASSUME TypeOK, Custody, NEW q \in Ping, Enqueue(q)
  PROVE  Custody'
<1> SUFFICES ASSUME NEW p \in Ping
             PROVE  Placed(p)'
  BY DEF Custody
<1>1. Placed(p) /\ Placed(q)
  BY DEF Custody
<1>2. /\ q \in handlers
      /\ handlers' = handlers \ {q}
      /\ UNCHANGED <<arrived, step, held, pending, batch, jobs, working>>
  BY DEF Enqueue, drain, coalescer, pool
<1>3. Undecided(p) => p \in arrived
  BY DEF Undecided
<1>4. CASE queue' = Append(queue, [ping |-> q, age |-> 0]) /\ UNCHANGED fate
  <2>1. queue \in Seq(PingJob) /\ [ping |-> q, age |-> 0] \in PingJob
    BY PipelineAssumption DEF TypeOK, PingJob
  <2>2. /\ InQueue(p)' <=> InQueue(p) \/ p = q
        /\ OnceInQueue(p) /\ ~(InQueue(p) /\ p = q) => OnceInQueue(p)'
    BY <1>4, <2>1, AppendPlaces DEF InQueue, OnceInQueue
  <2>3. Undecided(p)' <=> Undecided(p)
    BY <1>2, <1>4 DEF Undecided
  <2> QED
    BY <1>1, <1>2, <1>3, <1>4, <2>2, <2>3, Frame DEF Placed, Once, Exclusive, Accounted
<1>5. CASE Decide({q}, "queue_full") /\ UNCHANGED queue
  <2>1. Undecided(p)' <=> Undecided(p) /\ p # q
    BY <1>2, <1>5, DecideEnds
  <2>2. p # q => fate'[p] = fate[p]
    BY <1>2, <1>5, DecideEnds
  <2> QED
    BY <1>1, <1>2, <1>3, <1>5, <2>1, <2>2, Frame DEF Placed, Once, Exclusive, Accounted
<1> QED
  BY <1>4, <1>5 DEF Enqueue

LEMMA ReceiveCustody ==
  ASSUME TypeOK, OneJobEach, Custody, Receive
  PROVE  Custody'
<1> SUFFICES ASSUME NEW p \in Ping
             PROVE  Placed(p)'
  BY DEF Custody
<1>1. Placed(p)
  BY DEF Custody
<1>2. /\ step = "idle" /\ step' = "judge" /\ held' = {Head(queue)}
      /\ queue # <<>> /\ queue' = Tail(queue)
      /\ UNCHANGED <<handlers, arrived, pending, batch, jobs, working, fate>>
  BY DEF Receive, coalescer, pool, ledger
<1>3. queue \in Seq(PingJob)
  BY DEF TypeOK
<1>4. OnceInQueue(p)
  BY <1>1 DEF Placed, Once
<1>5. /\ InQueue(p)' <=> InQueue(p) /\ p # Head(queue).ping
      /\ OnceInQueue(p)'
      /\ InQueue(p) \/ p # Head(queue).ping
  <2>1. /\ DOMAIN queue = 1 .. Len(queue) /\ Len(queue) \in Nat \ {0}
        /\ DOMAIN queue' = 1 .. Len(queue) - 1
        /\ Head(queue) = queue[1]
        /\ \A i \in 1 .. Len(queue) - 1 : queue'[i] = queue[i + 1]
    BY <1>2, <1>3, TailPlaces
  <2>2. ASSUME NEW i \in DOMAIN queue', NEW j \in DOMAIN queue',
               queue'[i].ping = p, queue'[j].ping = p
        PROVE  i = j
    <3>1. /\ i + 1 \in DOMAIN queue /\ queue[i + 1] = queue'[i]
          /\ j + 1 \in DOMAIN queue /\ queue[j + 1] = queue'[j]
      BY <2>1
    <3>2. i + 1 = j + 1
      BY <1>4, <2>2, <3>1 DEF OnceInQueue
    <3> QED
      BY <2>1, <3>2
  <2>3. ASSUME NEW i \in DOMAIN queue', queue'[i].ping = p
        PROVE  InQueue(p) /\ p # Head(queue).ping
    BY <1>4, <2>1, <2>3 DEF InQueue, OnceInQueue
  <2>4. ASSUME NEW i \in DOMAIN queue, queue[i].ping = p, p # Head(queue).ping
        PROVE  InQueue(p)'
    <3>1. i - 1 \in DOMAIN queue' /\ queue'[i - 1] = queue[i]
      BY <2>1, <2>4
    <3> QED
      BY <2>4, <3>1 DEF InQueue
  <2>5. p = Head(queue).ping => InQueue(p)
    BY <2>1 DEF InQueue
  <2> QED
    BY <2>2, <2>3, <2>4, <2>5 DEF InQueue, OnceInQueue
<1>6. ~InHeld(p) /\ (InHeld(p)' <=> p = Head(queue).ping)
  BY <1>2 DEF InHeld
<1>7. Undecided(p)' <=> Undecided(p)
  BY <1>2 DEF Undecided
<1> QED
  BY <1>1, <1>2, <1>5, <1>6, <1>7, Frame DEF Placed, Once, Exclusive, Accounted

LEMMA JudgeCustody ==
  ASSUME TypeOK, OneJobEach, Custody, Judge
  PROVE  Custody'
<1> SUFFICES ASSUME NEW p \in Ping
             PROVE  Placed(p)'
  BY DEF Custody
<1>1. Placed(p)
  BY DEF Custody
<1>2. /\ step = "judge"
      /\ UNCHANGED <<handlers, arrived, queue, held, pending, batch, jobs, working>>
  BY DEF Judge, ingress, pool, coalescer
<1>3. PICK job \in held : \/ step' = "broadcast" /\ Decide({job.ping}, "stale")
                          \/ step' = "add" /\ UNCHANGED fate
  BY DEF Judge
<1>4. held = {job}
  BY <1>2, <1>3 DEF OneJobEach
<1>5. InHeld(p) <=> p = job.ping
  BY <1>2, <1>4 DEF InHeld
<1>6. Undecided(p) => p \in arrived
  BY DEF Undecided
<1>7. CASE step' = "broadcast" /\ Decide({job.ping}, "stale")
  <2>1. Undecided(p)' <=> Undecided(p) /\ p # job.ping
    BY <1>2, <1>7, DecideEnds
  <2>2. p # job.ping => fate'[p] = fate[p]
    BY <1>2, <1>7, DecideEnds
  <2>3. ~InHeld(p)'
    BY <1>7 DEF InHeld
  <2> QED
    BY <1>1, <1>2, <1>5, <1>6, <2>1, <2>2, <2>3, Frame DEF Placed, Once, Exclusive, Accounted
<1>8. CASE step' = "add" /\ UNCHANGED fate
  <2>1. InHeld(p)' <=> InHeld(p)
    BY <1>2, <1>8 DEF InHeld
  <2>2. Undecided(p)' <=> Undecided(p)
    BY <1>2, <1>8 DEF Undecided
  <2> QED
    BY <1>1, <1>2, <1>8, <2>1, <2>2, Frame DEF Placed, Once, Exclusive, Accounted
<1> QED
  BY <1>3, <1>7, <1>8

LEMMA AddCustody ==
  ASSUME TypeOK, OneJobEach, AllAddressed, AllAddressed', Custody, Add
  PROVE  Custody'
<1> SUFFICES ASSUME NEW p \in Ping
             PROVE  Placed(p)'
  BY DEF Custody
<1>1. Placed(p)
  BY DEF Custody
<1>2. /\ step = "add" /\ step' = "broadcast"
      /\ UNCHANGED <<handlers, arrived, queue, held, batch, jobs, working>>
  BY DEF Add, ingress, pool
<1>3. PICK job \in held : AddJob(job)
  BY DEF Add
<1>4. held = {job} /\ job \in PingJob
  BY <1>2, <1>3 DEF OneJobEach, TypeOK
<1>5. ~InHeld(p)' /\ (InHeld(p) <=> p = job.ping)
  BY <1>2, <1>4 DEF InHeld
<1>6. Undecided(p) => p \in arrived
  BY DEF Undecided
<1>7. CASE Decide({job.ping}, "over_capacity") /\ UNCHANGED pending
  <2>1. Undecided(p)' <=> Undecided(p) /\ p # job.ping
    BY <1>2, <1>7, DecideEnds
  <2>2. p # job.ping => fate'[p] = fate[p]
    BY <1>2, <1>7, DecideEnds
  <2> QED
    BY <1>1, <1>2, <1>5, <1>6, <1>7, <2>1, <2>2, Frame DEF Placed, Once, Exclusive, Accounted
<1>8. CASE /\ pending' = [pending EXCEPT ![To[job.ping]] = @ \cup {job.ping}]
           /\ UNCHANGED fate
  <2>1. job.ping \in Ping /\ To[job.ping] \in Account /\ To[p] \in Account
    BY <1>4, PipelineAssumption DEF PingJob
  <2>2. p \in pending'[To[p]] <=> p \in pending[To[p]] \/ p = job.ping
    BY <1>8, <2>1 DEF TypeOK
  <2>3. InPending(p)' <=> p \in pending'[To[p]]
    BY <2>1 DEF AllAddressed, InPending
  <2>4. InPending(p)' <=> InPending(p) \/ p = job.ping
    BY <2>2, <2>3, PendingPlace
  <2>5. Undecided(p)' <=> Undecided(p)
    BY <1>2, <1>8 DEF Undecided
  <2> QED
    BY <1>1, <1>2, <1>5, <1>8, <2>4, <2>5, Frame DEF Placed, Once, Exclusive, Accounted
<1> QED
  BY <1>3, <1>7, <1>8 DEF AddJob

LEMMA ReadPendingCustody ==
  ASSUME TypeOK, AllAddressed, AllAddressed', Custody, NEW a \in Account, ReadPending(a)
  PROVE  Custody'
<1> SUFFICES ASSUME NEW p \in Ping
             PROVE  Placed(p)'
  BY DEF Custody
<1>1. Placed(p)
  BY DEF Custody
<1>2. /\ UNCHANGED <<handlers, arrived, queue, step, held, batch, jobs, working>>
      /\ Take({a})
      /\ Decide(pending[a], "read")
  BY DEF ReadPending, ingress, drain, pool
<1>3. To[p] \in Account
  BY PipelineAssumption
<1>4. InPending(p)' <=> InPending(p) /\ p \notin pending[a]
  <2>1. InPending(p)' <=> p \in pending'[To[p]]
    BY <1>3 DEF AllAddressed, InPending
  <2>2. p \in pending'[To[p]] <=> p \in pending[To[p]] /\ To[p] # a
    BY <1>2, <1>3 DEF Take
  <2>3. p \in pending[a] => To[p] = a
    BY DEF AllAddressed
  <2> QED
    BY <2>1, <2>2, <2>3, PendingPlace
<1>5. p \in pending[a] => InPending(p)
  BY DEF InPending
<1>6. Undecided(p)' <=> Undecided(p) /\ p \notin pending[a]
  BY <1>2, DecideEnds
<1>7. p \notin pending[a] => fate'[p] = fate[p]
  BY <1>2, DecideEnds
<1>8. Undecided(p) => p \in arrived
  BY DEF Undecided
<1> QED
  BY <1>1, <1>2, <1>4, <1>5, <1>6, <1>7, <1>8, Frame DEF Placed, Once, Exclusive, Accounted

\* Flush and FlushAll: accumulators become digests, and stand for what they did.
LEMMA FlushCustody ==
  ASSUME TypeOK, AllAddressed, AllAddressed', Custody, NEW A \in SUBSET Items, Take(A),
         batch = {}, batch' = {DigestOf(a) : a \in A},
         UNCHANGED <<handlers, arrived, queue, step, held, jobs, working, fate>>
  PROVE  Custody'
<1> SUFFICES ASSUME NEW p \in Ping
             PROVE  Placed(p)'
  BY DEF Custody
<1>1. Placed(p)
  BY DEF Custody
<1>3. To[p] \in Account
  BY PipelineAssumption
<1>4. InPending(p)' <=> InPending(p) /\ To[p] \notin A
  <2>1. InPending(p)' <=> p \in pending'[To[p]]
    BY <1>3 DEF AllAddressed, InPending
  <2>2. p \in pending'[To[p]] <=> p \in pending[To[p]] /\ To[p] \notin A
    BY <1>3 DEF Take
  <2> QED
    BY <2>1, <2>2, PendingPlace
<1>5. ~InBatch(p)
  BY DEF InBatch
<1>6. \A a \in A : p \in DigestOf(a).pings <=> a = To[p] /\ InPending(p)
  <2> SUFFICES ASSUME NEW a \in A
               PROVE  p \in DigestOf(a).pings <=> a = To[p] /\ InPending(p)
    OBVIOUS
  <2>1. DigestOf(a).pings = pending[a] /\ a \in Account
    BY DEF DigestOf, Items
  <2>2. p \in pending[a] => a = To[p]
    BY <2>1 DEF AllAddressed
  <2> QED
    BY <2>1, <2>2, PendingPlace
<1>7. InBatch(p)' <=> InPending(p) /\ To[p] \in A
  BY <1>6 DEF InBatch
<1>8. OnceInBatch(p)'
  BY <1>6 DEF OnceInBatch
<1>9. Undecided(p)' <=> Undecided(p)
  BY DEF Undecided
<1> QED
  BY <1>1, <1>4, <1>5, <1>7, <1>8, <1>9, Frame DEF Placed, Once, Exclusive, Accounted

LEMMA QueueJobCustody ==
  ASSUME TypeOK, Custody, NEW d \in batch, QueueJob(d)
  PROVE  Custody'
<1> SUFFICES ASSUME NEW p \in Ping
             PROVE  Placed(p)'
  BY DEF Custody
<1>1. Placed(p)
  BY DEF Custody
<1>2. /\ UNCHANGED <<handlers, arrived, queue, step, held, pending, working>>
      /\ batch' = batch \ {d}
  BY DEF QueueJob, ingress, drain, coalescer
<1>3. OnceInBatch(p)
  BY <1>1 DEF Placed, Once
<1>4. /\ InBatch(p)' <=> InBatch(p) /\ p \notin d.pings
      /\ OnceInBatch(p)'
      /\ p \in d.pings => InBatch(p)
  BY <1>2, <1>3 DEF InBatch, OnceInBatch
<1>5. Undecided(p) => p \in arrived
  BY DEF Undecided
<1>6. CASE jobs' = Append(jobs, d) /\ UNCHANGED fate
  <2>1. jobs \in Seq(Digest) /\ d \in Digest
    BY DEF TypeOK
  <2>2. /\ InJobs(p)' <=> InJobs(p) \/ p \in d.pings
        /\ OnceInJobs(p) /\ ~(InJobs(p) /\ p \in d.pings) => OnceInJobs(p)'
    <3>1. /\ DOMAIN jobs = 1 .. Len(jobs) /\ Len(jobs) \in Nat
          /\ DOMAIN jobs' = 1 .. Len(jobs) + 1
          /\ \A i \in 1 .. Len(jobs) : jobs'[i] = jobs[i]
          /\ jobs'[Len(jobs) + 1] = d
      BY <1>6, <2>1, AppendPlaces
    <3>2. InJobs(p)' <=> InJobs(p) \/ p \in d.pings
      BY <3>1 DEF InJobs
    <3>3. OnceInJobs(p) /\ ~(InJobs(p) /\ p \in d.pings) => OnceInJobs(p)'
      BY <3>1 DEF InJobs, OnceInJobs
    <3> QED
      BY <3>2, <3>3
  <2>3. Undecided(p)' <=> Undecided(p)
    BY <1>2, <1>6 DEF Undecided
  <2> QED
    BY <1>1, <1>2, <1>4, <1>6, <2>2, <2>3, Frame DEF Placed, Once, Exclusive, Accounted
<1>7. CASE Decide(d.pings, "pool_full") /\ UNCHANGED jobs
  <2>1. Undecided(p)' <=> Undecided(p) /\ p \notin d.pings
    BY <1>2, <1>7, DecideEnds
  <2>2. p \notin d.pings => fate'[p] = fate[p]
    BY <1>2, <1>7, DecideEnds
  <2> QED
    BY <1>1, <1>2, <1>4, <1>5, <1>7, <2>1, <2>2, Frame DEF Placed, Once, Exclusive, Accounted
<1> QED
  BY <1>6, <1>7 DEF QueueJob

LEMMA WorkerTakeCustody ==
  ASSUME TypeOK, OneJobEach, Custody, NEW w \in Worker, WorkerTake(w)
  PROVE  Custody'
<1> SUFFICES ASSUME NEW p \in Ping
             PROVE  Placed(p)'
  BY DEF Custody
<1>1. Placed(p)
  BY DEF Custody
<1>2. /\ UNCHANGED <<handlers, arrived, queue, step, held, pending, batch, fate>>
      /\ jobs # <<>> /\ jobs' = Tail(jobs)
      /\ worker[w] = "idle"
      /\ working' = [working EXCEPT ![w] = {Head(jobs)}]
  BY DEF WorkerTake, ingress, drain, coalescer, ledger
<1>3. OnceInJobs(p) /\ OnceInWorker(p)
  BY <1>1 DEF Placed, Once
<1>4. /\ InJobs(p)' <=> InJobs(p) /\ p \notin Head(jobs).pings
      /\ OnceInJobs(p)'
      /\ p \in Head(jobs).pings => InJobs(p)
  <2>1. /\ DOMAIN jobs = 1 .. Len(jobs) /\ Len(jobs) \in Nat \ {0}
        /\ DOMAIN jobs' = 1 .. Len(jobs) - 1
        /\ Head(jobs) = jobs[1]
        /\ \A i \in 1 .. Len(jobs) - 1 : jobs'[i] = jobs[i + 1]
    BY <1>2, TailPlaces DEF TypeOK
  <2>2. ASSUME NEW i \in DOMAIN jobs', NEW j \in DOMAIN jobs',
               p \in jobs'[i].pings, p \in jobs'[j].pings
        PROVE  i = j
    <3>1. /\ i + 1 \in DOMAIN jobs /\ jobs[i + 1] = jobs'[i]
          /\ j + 1 \in DOMAIN jobs /\ jobs[j + 1] = jobs'[j]
      BY <2>1
    <3>2. i + 1 = j + 1
      BY <1>3, <2>2, <3>1 DEF OnceInJobs
    <3> QED
      BY <2>1, <3>2
  <2>3. ASSUME NEW i \in DOMAIN jobs', p \in jobs'[i].pings
        PROVE  InJobs(p) /\ p \notin Head(jobs).pings
    BY <1>3, <2>1, <2>3 DEF InJobs, OnceInJobs
  <2>4. ASSUME NEW i \in DOMAIN jobs, p \in jobs[i].pings, p \notin Head(jobs).pings
        PROVE  InJobs(p)'
    <3>1. i - 1 \in DOMAIN jobs' /\ jobs'[i - 1] = jobs[i]
      BY <2>1, <2>4
    <3> QED
      BY <2>4, <3>1 DEF InJobs
  <2>5. p \in Head(jobs).pings => InJobs(p)
    BY <2>1 DEF InJobs
  <2> QED
    BY <2>2, <2>3, <2>4, <2>5 DEF InJobs, OnceInJobs
<1>5. /\ InWorker(p)' <=> InWorker(p) \/ p \in Head(jobs).pings
      /\ ~InWorker(p) \/ p \notin Head(jobs).pings => OnceInWorker(p)'
  <2>1. working[w] = {}
    BY <1>2 DEF OneJobEach
  <2>2. \A v \in Worker : working'[v] = IF v = w THEN {Head(jobs)} ELSE working[v]
    BY <1>2 DEF TypeOK
  <2>3. InWorker(p)' <=> InWorker(p) \/ p \in Head(jobs).pings
    BY <2>1, <2>2 DEF InWorker
  <2>4. ~InWorker(p) \/ p \notin Head(jobs).pings => OnceInWorker(p)'
    BY <1>3, <2>1, <2>2 DEF InWorker, OnceInWorker
  <2> QED
    BY <2>3, <2>4
<1>6. Undecided(p)' <=> Undecided(p)
  BY <1>2 DEF Undecided
<1> QED
  BY <1>1, <1>2, <1>4, <1>5, <1>6, Frame DEF Placed, Once, Exclusive, Accounted

LEMMA ProcessJobCustody ==
  ASSUME TypeOK, OneJobEach, Custody, NEW w \in Worker, ProcessJob(w)
  PROVE  Custody'
<1> SUFFICES ASSUME NEW p \in Ping
             PROVE  Placed(p)'
  BY DEF Custody
<1>1. Placed(p)
  BY DEF Custody
<1>2. /\ UNCHANGED <<handlers, arrived, queue, step, held, pending, batch, jobs>>
      /\ working' = [working EXCEPT ![w] = {}]
  BY DEF ProcessJob, ingress, drain, coalescer
<1>3. PICK d \in working[w] : SendJob(d)
  BY DEF ProcessJob
<1>4. \E f \in {"stale_digest", "abandoned", "pushed"} : Decide(d.pings, f)
  BY <1>3 DEF SendJob
<1>5. OnceInWorker(p) /\ \A e \in working[w] : e = d
  BY <1>1, <1>3 DEF Placed, Once, OneJobEach
<1>6. \A v \in Worker : working'[v] = IF v = w THEN {} ELSE working[v]
  BY <1>2 DEF TypeOK
<1>7. /\ InWorker(p)' <=> InWorker(p) /\ p \notin d.pings
      /\ p \in d.pings => InWorker(p)
  BY <1>3, <1>5, <1>6 DEF InWorker, OnceInWorker
<1>8. OnceInWorker(p)'
  BY <1>5, <1>6 DEF OnceInWorker
<1>9. Undecided(p)' <=> Undecided(p) /\ p \notin d.pings
  BY <1>2, <1>4, DecideEnds
<1>10. p \notin d.pings => fate'[p] = fate[p]
  BY <1>2, <1>4, DecideEnds
<1>11. Undecided(p) => p \in arrived
  BY DEF Undecided
<1> QED
  BY <1>1, <1>2, <1>7, <1>8, <1>9, <1>10, <1>11, Frame
     DEF Placed, Once, Exclusive, Accounted

LEMMA TickCustody ==
  ASSUME TypeOK, Custody, Tick
  PROVE  Custody'
<1> SUFFICES ASSUME NEW p \in Ping
             PROVE  Placed(p)'
  BY DEF Custody
<1>1. Placed(p)
  BY DEF Custody
<1>2. /\ queue' = [i \in DOMAIN queue |-> Older(queue[i])]
      /\ held' = {Older(job) : job \in held}
      /\ batch' = {Older(d) : d \in batch}
      /\ jobs' = [i \in DOMAIN jobs |-> Older(jobs[i])]
      /\ working' = [w \in Worker |-> {Older(d) : d \in working[w]}]
      /\ UNCHANGED <<handlers, arrived, step, pending, fate>>
  BY DEF Tick, ledger
<1>3. /\ \A i \in DOMAIN queue : queue[i] \in PingJob
      /\ \A job \in held : job \in PingJob
      /\ \A d \in batch : d \in Digest
      /\ \A i \in DOMAIN jobs : jobs[i] \in Digest
      /\ \A w \in Worker : \A d \in working[w] : d \in Digest
  BY DEF TypeOK
<1>4. (InQueue(p)' <=> InQueue(p)) /\ (OnceInQueue(p) => OnceInQueue(p)')
  <2>1. DOMAIN queue' = DOMAIN queue /\ \A i \in DOMAIN queue : queue'[i].ping = queue[i].ping
    BY <1>2, <1>3, OlderJob
  <2> QED
    BY <2>1 DEF InQueue, OnceInQueue
<1>5. InHeld(p)' <=> InHeld(p)
  BY <1>2, <1>3, OlderJob DEF InHeld
<1>6. InPending(p)' <=> InPending(p)
  BY <1>2 DEF InPending
<1>7. (InBatch(p)' <=> InBatch(p)) /\ (OnceInBatch(p) => OnceInBatch(p)')
  <2>1. InBatch(p)' <=> InBatch(p)
    BY <1>2, <1>3, OlderDigest DEF InBatch
  <2>2. OnceInBatch(p) => OnceInBatch(p)'
    BY <1>2, <1>3, OlderDigest DEF OnceInBatch
  <2> QED
    BY <2>1, <2>2
<1>8. (InJobs(p)' <=> InJobs(p)) /\ (OnceInJobs(p) => OnceInJobs(p)')
  <2>1. DOMAIN jobs' = DOMAIN jobs /\ \A i \in DOMAIN jobs : jobs'[i].pings = jobs[i].pings
    BY <1>2, <1>3, OlderDigest
  <2> QED
    BY <2>1 DEF InJobs, OnceInJobs
<1>9. (InWorker(p)' <=> InWorker(p)) /\ (OnceInWorker(p) => OnceInWorker(p)')
  <2>1. InWorker(p)' <=> InWorker(p)
    BY <1>2, <1>3, OlderDigest DEF InWorker
  <2>2. OnceInWorker(p) => OnceInWorker(p)'
    BY <1>2, <1>3, OlderDigest DEF OnceInWorker
  <2> QED
    BY <2>1, <2>2
<1>10. Undecided(p)' <=> Undecided(p)
  BY <1>2 DEF Undecided
<1> QED
  BY <1>1, <1>2, <1>4, <1>5, <1>6, <1>7, <1>8, <1>9, <1>10
     DEF Placed, Once, Exclusive, Accounted

\* The steps that move no ping.
LEMMA RestCustody ==
  ASSUME Custody, UNCHANGED <<handlers, arrived, queue, pending, batch, jobs, working, fate>>,
         UNCHANGED <<step, held>> \/ (step = "broadcast" /\ step' = "idle")
  PROVE  Custody'
<1> SUFFICES ASSUME NEW p \in Ping
             PROVE  Placed(p)'
  BY DEF Custody
<1>1. Placed(p)
  BY DEF Custody
<1>2. InHeld(p)' <=> InHeld(p)
  BY DEF InHeld
<1>3. Undecided(p)' <=> Undecided(p)
  BY DEF Undecided
<1> QED
  BY <1>1, <1>2, <1>3, Frame DEF Placed, Once, Exclusive, Accounted

\* Every reachable state keeps each undecided ping in exactly one place.
LEMMA CustodyInv == Spec => []Custody
<1>1. Init => Custody
  BY DEF Init, Custody, Placed, Once, Exclusive, Accounted, Undecided, InQueue, InHeld,
         InPending, InBatch, InJobs, InWorker, OnceInQueue, OnceInBatch, OnceInJobs, OnceInWorker
<1>2. /\ TypeOK /\ OneJobEach /\ AllAddressed /\ AllAddressed' /\ CloseOrder /\ Custody
      /\ [Next]_vars
      => Custody'
  <2> SUFFICES ASSUME TypeOK, OneJobEach, AllAddressed, AllAddressed', CloseOrder, Custody,
                      [Next]_vars
               PROVE  Custody'
    OBVIOUS
  <2>1. CASE Request
    BY <2>1, ArriveCustody, RefuseCustody, EnqueueCustody DEF Request
  <2>2. CASE Receive \/ Judge \/ Add
    BY <2>2, ReceiveCustody, JudgeCustody, AddCustody
  <2>3. CASE \E a \in Account : ReadPending(a)
    BY <2>3, ReadPendingCustody
  <2>4. CASE Flush
    <3>1. /\ Due \in SUBSET Items /\ batch = {} /\ batch' = {DigestOf(a) : a \in Due}
          /\ Take(Due)
          /\ UNCHANGED <<handlers, arrived, queue, step, held, jobs, working, fate>>
      BY <2>4 DEF Flush, Due, ingress, drain, pool, ledger
    <3> QED
      BY <3>1, FlushCustody
  <2>5. CASE FlushAll
    <3>1. /\ Items \in SUBSET Items /\ batch' = {DigestOf(a) : a \in Items}
          /\ Take(Items)
          /\ UNCHANGED <<handlers, arrived, queue, step, held, jobs, working, fate>>
      BY <2>5 DEF FlushAll, ingress, drain, pool, ledger
    <3>2. batch = {}
      BY <2>5 DEF FlushAll, Goto, CloseOrder
    <3> QED
      BY <3>1, <3>2, FlushCustody
  <2>6. CASE OfferDigest
    BY <2>6, QueueJobCustody DEF OfferDigest
  <2>7. CASE \E w \in Worker : WorkerTake(w) \/ ProcessJob(w)
    BY <2>7, WorkerTakeCustody, ProcessJobCustody
  <2>8. CASE Tick
    BY <2>8, TickCustody
  <2>9. CASE /\ UNCHANGED <<handlers, arrived, queue, pending, batch, jobs, working, fate>>
             /\ UNCHANGED <<step, held>> \/ (step = "broadcast" /\ step' = "idle")
    BY <2>9, RestCustody
  <2>10. CASE Broadcast
    BY <2>9, <2>10 DEF Broadcast, ingress, coalescer, pool
  <2>11. CASE \E w \in Worker : WorkerExit(w)
    BY <2>9, <2>11 DEF WorkerExit, ingress, drain, coalescer, ledger
  <2>12. CASE Pump1Exit \/ Pump2Exit
    BY <2>9, <2>12 DEF Pump1Exit, Pump2Exit, ingress, drain, coalescer, pool, ledger
  <2>13. CASE Sigterm \/ ShutdownReturns \/ PumpsWaited \/ StopPool \/ DrainTimeout \/ Exit
    BY <2>9, <2>13 DEF Sigterm, ShutdownReturns, PumpsWaited, StopPool, DrainTimeout, Exit,
       ingress, drain, coalescer, pool, ledger
  <2>14. CASE UNCHANGED vars
    BY <2>9, <2>14 DEF vars, ingress, drain, coalescer, pool, ledger
  <2> QED
    BY <2>1, <2>2, <2>3, <2>4, <2>5, <2>6, <2>7, <2>8, <2>10, <2>11, <2>12, <2>13, <2>14
       DEF Next, DrainLoop, PoolWorker, CloseStep, Terminated
<1> QED
  BY <1>1, <1>2, TypeCorrect, OneJobEachInv, AddressedInv, CloseOrderInv, PTL DEF Spec

\* Custody says of places what Conservation says of their number.
LEMMA CustodyCounts ==
  ASSUME TypeOK, OneJobEach, AllAddressed, Custody
  PROVE  Conservation
<1> SUFFICES ASSUME NEW p \in Ping
             PROVE  Cardinality(Places(p)) = IF p \in arrived /\ fate[p] = "none" THEN 1 ELSE 0
  BY DEF Conservation
<1> DEFINE H == IF p \in handlers THEN {<<"handler", 0>>} ELSE {}
           Q == {<<"queue", i>> : i \in {j \in DOMAIN queue : queue[j].ping = p}}
           D == {<<"held", job>> : job \in {j \in held : step \in {"judge", "add"} /\ j.ping = p}}
           P == {<<"pending", a>> : a \in {b \in Account : p \in pending[b]}}
           B == {<<"batch", d>> : d \in {e \in batch : p \in e.pings}}
           J == {<<"jobs", i>> : i \in {j \in DOMAIN jobs : p \in jobs[j].pings}}
           W == {<<"worker", w>> : w \in {v \in Worker : \E d \in working[v] : p \in d.pings}}
<1>1. Placed(p)
  BY DEF Custody
<1>2. Once(p) /\ Exclusive(p)
  BY <1>1 DEF Placed
<1>3. (p \in handlers => \E x : H = {x}) /\ (p \notin handlers => H = {})
  OBVIOUS
<1>4. (InQueue(p) => \E x : Q = {x}) /\ (~InQueue(p) => Q = {})
  <2>1. ASSUME NEW i \in DOMAIN queue, queue[i].ping = p
        PROVE  Q = {<<"queue", i>>}
    <3>1. {j \in DOMAIN queue : queue[j].ping = p} = {i}
      BY <1>2, <2>1 DEF Once, OnceInQueue
    <3> QED
      BY <3>1
  <2> QED
    BY <2>1 DEF InQueue
<1>5. (InHeld(p) => \E x : D = {x}) /\ (~InHeld(p) => D = {})
  <2>1. ASSUME NEW job \in held, job.ping = p, step \in {"judge", "add"}
        PROVE  D = {<<"held", job>>}
    <3>1. {j \in held : step \in {"judge", "add"} /\ j.ping = p} = {job}
      BY <2>1 DEF OneJobEach
    <3> QED
      BY <3>1
  <2> QED
    BY <2>1 DEF InHeld
<1>6. (InPending(p) => \E x : P = {x}) /\ (~InPending(p) => P = {})
  <2>1. ASSUME NEW a \in Account, p \in pending[a]
        PROVE  P = {<<"pending", a>>}
    <3>1. {b \in Account : p \in pending[b]} = {a}
      BY <2>1 DEF AllAddressed
    <3> QED
      BY <3>1
  <2> QED
    BY <2>1 DEF InPending
<1>7. (InBatch(p) => \E x : B = {x}) /\ (~InBatch(p) => B = {})
  <2>1. ASSUME NEW d \in batch, p \in d.pings
        PROVE  B = {<<"batch", d>>}
    <3>1. {e \in batch : p \in e.pings} = {d}
      BY <1>2, <2>1 DEF Once, OnceInBatch
    <3> QED
      BY <3>1
  <2> QED
    BY <2>1 DEF InBatch
<1>8. (InJobs(p) => \E x : J = {x}) /\ (~InJobs(p) => J = {})
  <2>1. ASSUME NEW i \in DOMAIN jobs, p \in jobs[i].pings
        PROVE  J = {<<"jobs", i>>}
    <3>1. {j \in DOMAIN jobs : p \in jobs[j].pings} = {i}
      BY <1>2, <2>1 DEF Once, OnceInJobs
    <3> QED
      BY <3>1
  <2> QED
    BY <2>1 DEF InJobs
<1>9. (InWorker(p) => \E x : W = {x}) /\ (~InWorker(p) => W = {})
  <2>1. ASSUME NEW w \in Worker, NEW d \in working[w], p \in d.pings
        PROVE  W = {<<"worker", w>>}
    <3>1. {v \in Worker : \E e \in working[v] : p \in e.pings} = {w}
      BY <1>2, <2>1 DEF Once, OnceInWorker
    <3> QED
      BY <3>1
  <2> QED
    BY <2>1 DEF InWorker
<1>10. Places(p) = H \cup Q \cup D \cup P \cup B \cup J \cup W
  BY DEF Places
<1> HIDE DEF H, Q, D, P, B, J, W
<1>11. Undecided(p) => \E x : Places(p) = {x}
  <2> SUFFICES ASSUME Undecided(p)
               PROVE  \E x : Places(p) = {x}
    OBVIOUS
  <2>1. CASE p \in handlers
    BY <1>2, <1>3, <1>4, <1>5, <1>6, <1>7, <1>8, <1>9, <1>10, <2>1 DEF Exclusive
  <2>2. CASE InQueue(p)
    BY <1>2, <1>3, <1>4, <1>5, <1>6, <1>7, <1>8, <1>9, <1>10, <2>2 DEF Exclusive
  <2>3. CASE InHeld(p)
    BY <1>2, <1>3, <1>4, <1>5, <1>6, <1>7, <1>8, <1>9, <1>10, <2>3 DEF Exclusive
  <2>4. CASE InPending(p)
    BY <1>2, <1>3, <1>4, <1>5, <1>6, <1>7, <1>8, <1>9, <1>10, <2>4 DEF Exclusive
  <2>5. CASE InBatch(p)
    BY <1>2, <1>3, <1>4, <1>5, <1>6, <1>7, <1>8, <1>9, <1>10, <2>5 DEF Exclusive
  <2>6. CASE InJobs(p)
    BY <1>2, <1>3, <1>4, <1>5, <1>6, <1>7, <1>8, <1>9, <1>10, <2>6 DEF Exclusive
  <2>7. CASE InWorker(p)
    BY <1>2, <1>3, <1>4, <1>5, <1>6, <1>7, <1>8, <1>9, <1>10, <2>7 DEF Exclusive
  <2> QED
    BY <1>1, <2>1, <2>2, <2>3, <2>4, <2>5, <2>6, <2>7 DEF Placed, Accounted
<1>12. ~Undecided(p) => Places(p) = {}
  BY <1>1, <1>3, <1>4, <1>5, <1>6, <1>7, <1>8, <1>9, <1>10 DEF Placed, Accounted
<1>13. Undecided(p) <=> p \in arrived /\ fate[p] = "none"
  BY DEF Undecided
<1>14. CASE Undecided(p)
  BY <1>11, <1>13, <1>14, FS_Singleton
<1>15. CASE ~Undecided(p)
  BY <1>12, <1>13, <1>15, FS_EmptySet
<1> QED
  BY <1>14, <1>15

\* A ping that the server has taken in and not decided is in exactly one place of
\* the pipeline, a decided one in none: pumps, polls, workers and shutdown, in
\* whatever order they run, neither lose a ping from the books nor count it twice.
THEOREM PingsConserved == Spec => []Conservation
<1>1. TypeOK /\ OneJobEach /\ AllAddressed /\ Custody => Conservation
  BY CustodyCounts
<1> QED
  BY <1>1, TypeCorrect, OneJobEachInv, AddressedInv, CustodyInv, PTL

-------------------------------------------------------------------------------
(* The drop counter.                                                       *)

AloneFate == {"queue_full", "stale", "over_capacity"}
DigestFate == {"pool_full", "stale_digest"}
CountedFate == {"queue_full", "stale", "over_capacity", "pool_full", "stale_digest"}

\* The recipients of the pings lost in digests.
Losers == {To[p] : p \in LostInDigest}

DropsInv ==
  /\ IsFiniteSet(LostAlone) /\ IsFiniteSet(LostInDigest) /\ IsFiniteSet(Losers)
  /\ DropsMatchLosses

\* What is lost, and for whom, is a number.
LEMMA LossesFinite ==
  ASSUME DropsInv
  PROVE  /\ Cardinality(LostAlone) \in Nat
         /\ Cardinality(LostInDigest) \in Nat
         /\ Cardinality(Losers) \in Nat
BY FS_CardinalityType DEF DropsInv

\* A ping that is lost alone and counted.
LEMMA AloneCounted ==
  ASSUME TypeOK, DropsInv, NEW p \in Ping, fate[p] = "none",
         NEW f \in AloneFate, Decide({p}, f), dropped' = dropped + 1
  PROVE  DropsInv'
<1>1. LostAlone' = LostAlone \cup {p} /\ p \notin LostAlone
  BY DEF LostAlone, Decide, AloneFate, TypeOK
<1>2. LostInDigest' = LostInDigest
  BY DEF LostInDigest, Decide, AloneFate, TypeOK
<1>3. /\ IsFiniteSet(LostAlone \cup {p})
      /\ Cardinality(LostAlone \cup {p}) = Cardinality(LostAlone) + 1
  BY <1>1, FS_AddElement DEF DropsInv
<1>4. Losers' = Losers
  BY <1>2 DEF Losers
<1>5. /\ Cardinality(LostAlone) + Cardinality(Losers) <= dropped
      /\ dropped <= Cardinality(LostAlone) + Cardinality(LostInDigest)
      /\ dropped \in Nat
  BY DEF DropsInv, DropsMatchLosses, Losers, TypeOK
<1>6. /\ Cardinality(LostAlone') + Cardinality(Losers') <= dropped'
      /\ dropped' <= Cardinality(LostAlone') + Cardinality(LostInDigest')
  BY <1>1, <1>2, <1>3, <1>4, <1>5, LossesFinite
<1>7. IsFiniteSet(LostAlone') /\ IsFiniteSet(LostInDigest') /\ IsFiniteSet(Losers')
  BY <1>1, <1>2, <1>3, <1>4 DEF DropsInv
<1> QED
  BY <1>6, <1>7 DEF DropsInv, DropsMatchLosses, Losers

\* A digest that is lost, and counted once for the pings of its recipient.
LEMMA DigestCounted ==
  ASSUME TypeOK, DropsInv, NEW S \in PingSet, S # {}, NEW a, \A p \in S : To[p] = a,
         \A p \in S : fate[p] = "none",
         NEW f \in DigestFate, Decide(S, f), dropped' = dropped + 1
  PROVE  DropsInv'
<1>1. LostInDigest' = LostInDigest \cup S /\ \A p \in S : p \notin LostInDigest
  BY DEF LostInDigest, Decide, DigestFate, TypeOK, PingSet
<1>2. LostAlone' = LostAlone
  BY DEF LostAlone, Decide, DigestFate, TypeOK, PingSet
<1>3. Losers' = Losers \cup {a}
  <2>1. {To[p] : p \in LostInDigest \cup S} = {To[p] : p \in LostInDigest} \cup {a}
    OBVIOUS
  <2> QED
    BY <1>1, <2>1 DEF Losers
<1>4. /\ IsFiniteSet(Losers \cup {a})
      /\ Cardinality(Losers \cup {a}) <= Cardinality(Losers) + 1
      /\ Cardinality(Losers \cup {a}) \in Nat
  <2>1. /\ IsFiniteSet(Losers \cup {a})
        /\ Cardinality(Losers \cup {a}) = IF a \in Losers THEN Cardinality(Losers)
                                                       ELSE Cardinality(Losers) + 1
    BY FS_AddElement DEF DropsInv
  <2> QED
    BY <2>1, LossesFinite
<1>5. PICK p : p \in S
  OBVIOUS
<1>6. IsFiniteSet(LostInDigest \cup S)
  BY FS_Union DEF DropsInv, PingSet
<1>7. /\ IsFiniteSet(LostInDigest \cup {p})
      /\ Cardinality(LostInDigest \cup {p}) = Cardinality(LostInDigest) + 1
  BY <1>1, <1>5, FS_AddElement DEF DropsInv
<1>8. LostInDigest \cup {p} \subseteq LostInDigest \cup S
  BY <1>5
<1>9. /\ Cardinality(LostInDigest \cup {p}) <= Cardinality(LostInDigest \cup S)
      /\ Cardinality(LostInDigest \cup S) \in Nat
  BY <1>6, <1>8, FS_Subset, FS_CardinalityType
<1>10. /\ Cardinality(LostAlone) + Cardinality(Losers) <= dropped
       /\ dropped <= Cardinality(LostAlone) + Cardinality(LostInDigest)
       /\ dropped \in Nat
  BY DEF DropsInv, DropsMatchLosses, Losers, TypeOK
<1>11. /\ Cardinality(LostAlone') + Cardinality(Losers') <= dropped'
       /\ dropped' <= Cardinality(LostAlone') + Cardinality(LostInDigest')
  BY <1>1, <1>2, <1>3, <1>4, <1>7, <1>9, <1>10, LossesFinite
<1>12. IsFiniteSet(LostAlone') /\ IsFiniteSet(LostInDigest') /\ IsFiniteSet(Losers')
  BY <1>1, <1>2, <1>3, <1>4, <1>6 DEF DropsInv
<1> QED
  BY <1>11, <1>12 DEF DropsInv, DropsMatchLosses, Losers

\* Pings whose fate is no loss of the pipeline's, or that is counted nowhere.
LEMMA NotCounted ==
  ASSUME TypeOK, DropsInv, NEW S \in PingSet, \A p \in S : fate[p] = "none",
         NEW f \in Fate \ (AloneFate \cup DigestFate), Decide(S, f), dropped' = dropped
  PROVE  DropsInv'
<1>1. LostAlone' = LostAlone
  BY DEF LostAlone, Decide, AloneFate, TypeOK, PingSet
<1>2. LostInDigest' = LostInDigest
  BY DEF LostInDigest, Decide, DigestFate, TypeOK, PingSet
<1> QED
  BY <1>1, <1>2 DEF DropsInv, DropsMatchLosses, Losers

\* What the pipeline counts as dropped is what it has lost, whatever the
\* interleaving: nothing is counted by two stages or while it is under way, and
\* no loss to a full buffer or to age goes uncounted (Queue.Enqueue, AddAt,
\* QueueJob, processJob).
THEOREM LossesCounted == Spec => []DropsMatchLosses
<1>1. Init => DropsInv
  <2> SUFFICES ASSUME Init
               PROVE  DropsInv
    OBVIOUS
  <2>1. LostAlone = {} /\ LostInDigest = {} /\ dropped = 0
    BY DEF Init, LostAlone, LostInDigest
  <2>2. {To[p] : p \in LostInDigest} = {}
    BY <2>1
  <2> QED
    BY <2>1, <2>2, FS_EmptySet DEF DropsInv, DropsMatchLosses, Losers
<1>2. TypeOK /\ OneJobEach /\ AllAddressed /\ Custody /\ DropsInv /\ [Next]_vars => DropsInv'
  <2> SUFFICES ASSUME TypeOK, OneJobEach, AllAddressed, Custody, DropsInv, [Next]_vars
               PROVE  DropsInv'
    OBVIOUS
  <2>1. \A p \in Ping : \/ p \in handlers \/ InHeld(p) \/ InPending(p) \/ InBatch(p) \/ InWorker(p)
                        => fate[p] = "none"
    BY DEF Custody, Placed, Accounted, Undecided
  <2>2. \A p \in Ping : {p} \in PingSet
    BY FS_Singleton DEF PingSet
  <2>3. UNCHANGED <<fate, dropped>> => DropsInv'
    BY DEF DropsInv, DropsMatchLosses, LostAlone, LostInDigest, Losers
  <2>4. ASSUME NEW q \in Ping, Refuse(q)
        PROVE  DropsInv'
    <3>1. q \in handlers /\ Decide({q}, "refused") /\ dropped' = dropped
      BY <2>4 DEF Refuse
    <3> QED
      BY <2>1, <2>2, <3>1, NotCounted DEF Fate, AloneFate, DigestFate
  <2>5. ASSUME NEW q \in Ping, Enqueue(q)
        PROVE  DropsInv'
    <3>1. q \in handlers
      BY <2>5 DEF Enqueue
    <3>2. CASE Decide({q}, "queue_full") /\ dropped' = dropped + 1
      BY <2>1, <3>1, <3>2, AloneCounted DEF AloneFate
    <3> QED
      BY <2>3, <2>5, <3>2 DEF Enqueue
  <2>6. CASE Add
    <3>1. PICK job \in held : AddJob(job)
      BY <2>6 DEF Add
    <3>2. job.ping \in Ping /\ InHeld(job.ping)
      BY <2>6, <3>1 DEF Add, InHeld, TypeOK, PingJob
    <3>3. CASE Decide({job.ping}, "over_capacity") /\ dropped' = dropped + 1
      BY <2>1, <3>2, <3>3, AloneCounted DEF AloneFate
    <3> QED
      BY <2>3, <3>1, <3>3 DEF AddJob
  <2>10. CASE Judge
    <3>1. PICK job \in held : \/ Decide({job.ping}, "stale") /\ dropped' = dropped + 1
                              \/ UNCHANGED <<fate, dropped>>
      BY <2>10 DEF Judge
    <3>2. job.ping \in Ping /\ InHeld(job.ping)
      BY <2>10, <3>1 DEF Judge, InHeld, TypeOK, PingJob
    <3> QED
      BY <2>1, <2>3, <3>1, <3>2, AloneCounted DEF AloneFate
  <2>7. ASSUME NEW a \in Account, ReadPending(a)
        PROVE  DropsInv'
    <3>1. Decide(pending[a], "read") /\ dropped' = dropped
      BY <2>7 DEF ReadPending
    <3>2. pending[a] \in PingSet /\ \A p \in pending[a] : p \in Ping /\ InPending(p)
      BY DEF TypeOK, PingSet, InPending
    <3> QED
      BY <2>1, <3>1, <3>2, NotCounted DEF Fate, AloneFate, DigestFate
  <2>8. ASSUME NEW d \in batch, QueueJob(d)
        PROVE  DropsInv'
    <3>1. /\ d.pings \in PingSet /\ d.pings # {}
          /\ \A p \in d.pings : p \in Ping /\ InBatch(p) /\ To[p] = d.to
      BY DEF TypeOK, Digest, PingSet, InBatch, AllAddressed, Addressed
    <3>2. CASE Decide(d.pings, "pool_full") /\ dropped' = dropped + 1
      BY <2>1, <3>1, <3>2, DigestCounted DEF DigestFate
    <3> QED
      BY <2>3, <2>8, <3>2 DEF QueueJob
  <2>9. ASSUME NEW w \in Worker, ProcessJob(w)
        PROVE  DropsInv'
    <3>1. PICK d \in working[w] : SendJob(d)
      BY <2>9 DEF ProcessJob
    <3>2. /\ d.pings \in PingSet /\ d.pings # {}
          /\ \A p \in d.pings : p \in Ping /\ InWorker(p) /\ To[p] = d.to
      BY DEF TypeOK, Digest, PingSet, InWorker, AllAddressed, Addressed
    <3>3. CASE Decide(d.pings, "stale_digest") /\ dropped' = dropped + 1
      BY <2>1, <3>2, <3>3, DigestCounted DEF DigestFate
    <3>4. CASE \E f \in {"abandoned", "pushed"} : Decide(d.pings, f) /\ dropped' = dropped
      BY <2>1, <3>2, <3>4, NotCounted DEF Fate, AloneFate, DigestFate
    <3> QED
      BY <3>1, <3>3, <3>4 DEF SendJob
  <2> QED
    BY <2>3, <2>4, <2>5, <2>6, <2>7, <2>8, <2>9, <2>10
       DEF Next, Request, DrainLoop, OfferDigest, PoolWorker, CloseStep, Terminated, vars, ledger,
           Arrive, Receive, Broadcast, Pump1Exit, Flush, Pump2Exit, WorkerTake, WorkerExit,
           Sigterm, ShutdownReturns, PumpsWaited, FlushAll, StopPool, DrainTimeout, Exit, Tick
<1>3. DropsInv => DropsMatchLosses
  BY DEF DropsInv
<1> QED
  BY <1>1, <1>2, <1>3, TypeCorrect, OneJobEachInv, AddressedInv, CustodyInv, PTL DEF Spec

-------------------------------------------------------------------------------
(* The end of an orderly shutdown.                                         *)

\* What each phase of the shutdown has emptied for good, and why a worker left.
Orderly ==
  /\ phase \in {"flushall", "stopping", "exited"} => step = "idle"
  /\ CtxDone /\ ~late => handlers = {}
  /\ phase \in {"flushall", "stopping", "exited"} /\ ~late
       => queue = <<>> /\ \A a \in Account : pending[a] = {}
  /\ \A w \in Worker : worker[w] = "exited" => cancelled \/ (jobsClosed /\ jobs = <<>>)
  /\ phase = "exited" => \A w \in Worker : worker[w] = "exited"

LEMMA OrderlyInv == Spec => []Orderly
<1> USE DEF ingress, drain, coalescer, pool, ledger
<1>1. Init => Orderly
  BY DEF Init, Orderly, CtxDone
<1>2. TypeOK /\ CloseOrder /\ Orderly /\ [Next]_vars => Orderly'
  <2> SUFFICES ASSUME TypeOK, CloseOrder, Orderly, [Next]_vars
               PROVE  Orderly'
    OBVIOUS
  <2> DEFINE Empty == queue = <<>> /\ \A a \in Account : pending[a] = {}
             Left == \A w \in Worker :
                       worker[w] = "exited" => cancelled \/ (jobsClosed /\ jobs = <<>>)
             Gone == \A w \in Worker : worker[w] = "exited"
  <2>a. /\ UNCHANGED <<worker, cancelled, jobsClosed, jobs>> => (Left => Left')
        /\ UNCHANGED worker => (Gone => Gone')
        /\ UNCHANGED <<queue, pending>> => (Empty => Empty')
    OBVIOUS
  <2>b. Orderly <=> /\ phase \in {"flushall", "stopping", "exited"} => step = "idle"
                    /\ CtxDone /\ ~late => handlers = {}
                    /\ phase \in {"flushall", "stopping", "exited"} /\ ~late => Empty
                    /\ Left
                    /\ phase = "exited" => Gone
    BY DEF Orderly
  <2>c. Orderly' <=> /\ phase' \in {"flushall", "stopping", "exited"} => step' = "idle"
                     /\ CtxDone' /\ ~late' => handlers' = {}
                     /\ phase' \in {"flushall", "stopping", "exited"} /\ ~late' => Empty'
                     /\ Left'
                     /\ phase' = "exited" => Gone'
    BY DEF Orderly
  <2>d. ASSUME NEW A, Take(A)
        PROVE  \A a \in Account : pending[a] = {} => pending'[a] = {}
    BY <2>d DEF Take
  <2>1. ASSUME NEW p \in Ping, Arrive(p)
        PROVE  Orderly'
    <3> HIDE DEF Empty, Left, Gone
    <3> QED
      BY <2>1, <2>a, <2>b, <2>c DEF Arrive, CtxDone
  <2>2. ASSUME NEW p \in Ping, Refuse(p) \/ Enqueue(p)
        PROVE  Orderly'
    <3>1. /\ p \in handlers /\ HandlersRun /\ handlers' \subseteq handlers
          /\ UNCHANGED <<phase, late, step, pending, worker, cancelled, jobsClosed, jobs>>
      BY <2>2 DEF Refuse, Enqueue
    <3>2. ~(CtxDone /\ ~late)
      BY <2>b, <3>1
    <3> HIDE DEF Empty, Left, Gone
    <3> QED
      BY <2>a, <2>b, <2>c, <3>1, <3>2 DEF CtxDone
  <2>3. CASE Receive
    <3>1. /\ UNCHANGED <<phase, late, handlers, pending, worker, cancelled, jobsClosed, jobs>>
          /\ phase \notin {"flushall", "stopping", "exited"}
      BY <2>3 DEF Receive, Draining, CloseOrder
    <3> HIDE DEF Empty, Left, Gone
    <3> QED
      BY <2>a, <2>b, <2>c, <3>1 DEF CtxDone
  <2>4. CASE Judge \/ Add \/ Broadcast
    <3>1. UNCHANGED <<phase, late, handlers, queue, worker, cancelled, jobsClosed, jobs>>
      BY <2>4 DEF Judge, Add, Broadcast
    <3>2. phase \notin {"flushall", "stopping", "exited"}
      BY <2>4, <2>b DEF Judge, Add, Broadcast
    <3> HIDE DEF Empty, Left, Gone
    <3> QED
      BY <2>a, <2>b, <2>c, <3>1, <3>2 DEF CtxDone
  <2>5. CASE \/ \E a \in Account : ReadPending(a)
             \/ Flush
    <3>1. UNCHANGED <<phase, late, handlers, queue, step, worker, cancelled, jobsClosed, jobs>>
      BY <2>5 DEF ReadPending, Flush
    <3>2. Empty => Empty'
      BY <2>5, <2>d, <3>1 DEF ReadPending, Flush
    <3> HIDE DEF Empty, Left, Gone
    <3> QED
      BY <2>a, <2>b, <2>c, <3>1, <3>2 DEF CtxDone
  <2>6. ASSUME NEW d \in batch, QueueJob(d)
        PROVE  Orderly'
    <3>1. /\ UNCHANGED <<phase, late, handlers, queue, pending, step, worker, cancelled, jobsClosed>>
          /\ ~jobsClosed
      BY <2>6 DEF QueueJob, CloseOrder
    <3>2. Left => Left'
      BY <3>1
    <3> HIDE DEF Empty, Left, Gone
    <3> QED
      BY <2>a, <2>b, <2>c, <3>1, <3>2 DEF CtxDone
  <2>7. ASSUME NEW w \in Worker, WorkerTake(w)
        PROVE  Orderly'
    <3>1. /\ UNCHANGED <<phase, late, handlers, queue, pending, step, cancelled, jobsClosed>>
          /\ worker[w] = "idle" /\ worker' = [worker EXCEPT ![w] = "busy"]
          /\ jobs # <<>>
      BY <2>7 DEF WorkerTake
    <3>2. (Left => Left') /\ ~Gone
      BY <3>1 DEF TypeOK
    <3> HIDE DEF Empty, Left, Gone
    <3> QED
      BY <2>a, <2>b, <2>c, <3>1, <3>2 DEF CtxDone
  <2>8. ASSUME NEW w \in Worker, ProcessJob(w)
        PROVE  Orderly'
    <3>1. /\ UNCHANGED <<phase, late, handlers, queue, pending, step, cancelled, jobsClosed, jobs>>
          /\ worker[w] = "busy" /\ worker' = [worker EXCEPT ![w] = "idle"]
      BY <2>8 DEF ProcessJob
    <3>2. (Left => Left') /\ ~Gone
      BY <3>1 DEF TypeOK
    <3> HIDE DEF Empty, Left, Gone
    <3> QED
      BY <2>a, <2>b, <2>c, <3>1, <3>2 DEF CtxDone
  <2>9. ASSUME NEW w \in Worker, WorkerExit(w)
        PROVE  Orderly'
    <3>1. /\ UNCHANGED <<phase, late, handlers, queue, pending, step, cancelled, jobsClosed, jobs>>
          /\ cancelled \/ (jobsClosed /\ jobs = <<>>)
          /\ worker' = [worker EXCEPT ![w] = "exited"]
      BY <2>9 DEF WorkerExit
    <3>2. (Left => Left') /\ (Gone => Gone')
      BY <3>1 DEF TypeOK
    <3> HIDE DEF Empty, Left, Gone
    <3> QED
      BY <2>a, <2>b, <2>c, <3>1, <3>2 DEF CtxDone
  <2>10. CASE Sigterm \/ PumpsWaited
    <3>1. /\ UNCHANGED <<late, handlers, queue, pending, step, worker, cancelled, jobsClosed, jobs>>
          /\ phase' \notin {"flushall", "stopping", "exited"}
          /\ CtxDone' => CtxDone
      BY <2>10 DEF Sigterm, PumpsWaited, Goto, CtxDone
    <3> HIDE DEF Empty, Left, Gone
    <3> QED
      BY <2>a, <2>b, <2>c, <3>1
  <2>11. CASE ShutdownReturns
    <3>1. /\ UNCHANGED <<handlers, queue, pending, step, worker, cancelled, jobsClosed, jobs>>
          /\ phase' = "cancelled"
          /\ late' = (handlers # {}) \/ late' = TRUE
      BY <2>11 DEF ShutdownReturns, Goto
    <3>2. ~late' => handlers' = {}
      BY <3>1
    <3> HIDE DEF Empty, Left, Gone
    <3> QED
      BY <2>a, <2>b, <2>c, <3>1, <3>2
  <2>12. CASE FlushAll
    <3>1. /\ UNCHANGED <<late, handlers, queue, step, worker, cancelled, jobsClosed, jobs>>
          /\ phase = "drainqueue" /\ phase' = "flushall"
          /\ step = "idle" /\ queue = <<>> /\ Take(Items)
      BY <2>12 DEF FlushAll, Goto
    <3>2. Empty'
      BY <3>1 DEF Take, Items
    <3> HIDE DEF Empty, Left, Gone
    <3> QED
      BY <2>a, <2>b, <2>c, <3>1, <3>2 DEF CtxDone
  <2>13. CASE StopPool
    <3>1. /\ UNCHANGED <<late, handlers, queue, pending, step, worker, cancelled, jobs>>
          /\ phase = "flushall" /\ phase' = "stopping" /\ jobsClosed' = TRUE
      BY <2>13 DEF StopPool, Goto
    <3>2. Left => Left'
      BY <3>1
    <3> HIDE DEF Empty, Left, Gone
    <3> QED
      BY <2>a, <2>b, <2>c, <3>1, <3>2 DEF CtxDone
  <2>14. CASE DrainTimeout
    <3>1. /\ UNCHANGED <<phase, late, handlers, queue, pending, step, worker, jobsClosed, jobs>>
          /\ cancelled'
      BY <2>14 DEF DrainTimeout
    <3>2. Left => Left'
      BY <3>1
    <3> HIDE DEF Empty, Left, Gone
    <3> QED
      BY <2>a, <2>b, <2>c, <3>1, <3>2 DEF CtxDone
  <2>15. CASE Exit
    <3>1. /\ UNCHANGED <<late, handlers, queue, pending, step, worker, cancelled, jobsClosed, jobs>>
          /\ phase = "stopping" /\ phase' = "exited" /\ Gone
      BY <2>15 DEF Exit, Goto
    <3> HIDE DEF Empty, Left, Gone
    <3> QED
      BY <2>a, <2>b, <2>c, <3>1 DEF CtxDone
  <2>16. CASE Tick
    <3>1. /\ UNCHANGED <<phase, late, handlers, pending, step, worker, cancelled, jobsClosed>>
          /\ queue' = [i \in DOMAIN queue |-> Older(queue[i])]
          /\ jobs' = [i \in DOMAIN jobs |-> Older(jobs[i])]
      BY <2>16 DEF Tick
    <3>2. (queue = <<>> => queue' = <<>>) /\ (jobs = <<>> => jobs' = <<>>)
      BY <3>1
    <3>3. (Left => Left') /\ (Empty => Empty')
      BY <3>1, <3>2
    <3> HIDE DEF Empty, Left, Gone
    <3> QED
      BY <2>a, <2>b, <2>c, <3>1, <3>3 DEF CtxDone
  <2>17. CASE UNCHANGED <<phase, late, handlers, queue, pending, step, worker, cancelled,
                          jobsClosed, jobs>>
    <3> HIDE DEF Empty, Left, Gone
    <3> QED
      BY <2>17, <2>a, <2>b, <2>c DEF CtxDone
  <2> HIDE DEF Empty, Left, Gone
  <2> QED
    BY <2>1, <2>2, <2>3, <2>4, <2>5, <2>6, <2>7, <2>8, <2>9, <2>10, <2>11, <2>12, <2>13,
       <2>14, <2>15, <2>16, <2>17
       DEF Next, Request, DrainLoop, OfferDigest, PoolWorker, CloseStep, Terminated, vars,
           Pump1Exit, Pump2Exit
<1> QED
  BY <1>1, <1>2, TypeCorrect, CloseOrderInv, PTL DEF Spec

\* A shutdown in which no handler outlived the listener and the workers finished
\* in time leaves no ping undecided anywhere (main, Assembly.Close, Pool.Stop).
THEOREM OrderlyShutdownDrains == Spec => []DrainComplete
<1>1. TypeOK /\ OneJobEach /\ CloseOrder /\ Custody /\ Orderly => DrainComplete
  <2> SUFFICES ASSUME TypeOK, OneJobEach, CloseOrder, Custody, Orderly,
                      phase = "exited", ~late, ~cancelled, NEW p \in arrived, fate[p] = "none"
               PROVE  FALSE
    BY DEF DrainComplete
  <2>1. p \in Ping /\ Undecided(p)
    BY DEF TypeOK, Undecided
  <2>2. p \notin handlers /\ ~InQueue(p) /\ ~InHeld(p) /\ ~InPending(p)
    BY DEF Orderly, CtxDone, InQueue, InHeld, InPending
  <2>3. ~InBatch(p)
    BY DEF CloseOrder, InBatch
  <2>4. \A w \in Worker : worker[w] = "exited" /\ working[w] = {}
    BY DEF Orderly, OneJobEach
  <2>5. jobs = <<>>
    BY <2>4, PipelineAssumption DEF Orderly
  <2>6. ~InJobs(p) /\ ~InWorker(p)
    BY <2>4, <2>5 DEF InJobs, InWorker
  <2> QED
    BY <2>1, <2>2, <2>3, <2>6 DEF Custody, Placed, Accounted
<1> QED
  BY <1>1, TypeCorrect, OneJobEachInv, CloseOrderInv, CustodyInv, OrderlyInv, PTL

-------------------------------------------------------------------------------
(* Digests are spaced.                                                     *)

\* An accumulator is older than the last digest to its owner at most by the age
\* of the clock reading it was made with.
Spaced == \A a \in Items : firstAge[a] <= quiet[a] + lag[a]

\* While the server serves, a recipient gets no second digest within a window
\* of the first, but for the time the drain loop sat on its clock reading:
\* Flush takes an accumulator only when its window has elapsed, and no
\* accumulator has been growing for longer than that since the last digest.
THEOREM DigestsSpaced == Spec => DigestSpacing
<1> USE DEF ingress, drain, coalescer, pool, ledger
<1>1. Init => Spaced
  BY DEF Init, Spaced, Items
<1>2. TypeOK /\ Spaced /\ [Next]_vars => Spaced'
  <2> SUFFICES ASSUME TypeOK, Spaced, [Next]_vars
               PROVE  Spaced'
    OBVIOUS
  <2>1. \A a \in Account : /\ firstAge[a] \in 0 .. Window /\ quiet[a] \in 0 .. Window
                          /\ lag[a] \in 0 .. Window
    BY DEF TypeOK
  <2>2. \A a \in Account : pending[a] # {} => firstAge[a] <= quiet[a] + lag[a]
    BY DEF Spaced, Items
  <2>3. CASE Add
    <3>1. PICK job \in held : AddJob(job)
      BY <2>3 DEF Add
    <3>2. \/ UNCHANGED <<pending, firstAge, lag>>
          \/ /\ pending' = [pending EXCEPT ![To[job.ping]] = @ \cup {job.ping}]
             /\ firstAge' = [firstAge EXCEPT ![To[job.ping]] =
                               IF To[job.ping] \in Items THEN @ ELSE reading]
             /\ lag' = [lag EXCEPT ![To[job.ping]] =
                          IF To[job.ping] \in Items THEN @ ELSE reading]
      BY <3>1 DEF AddJob
    <3>3. UNCHANGED quiet /\ Window \in Nat /\ reading \in 0 .. Window
      BY <2>3, PipelineAssumption DEF Add, TypeOK
    <3>4. ASSUME NEW a \in Account, pending'[a] # {}
          PROVE  firstAge'[a] <= quiet[a] + lag'[a]
      <4>1. /\ pending \in [Account -> PingSet] /\ firstAge \in [Account -> 0 .. Window]
            /\ lag \in [Account -> 0 .. Window]
        BY DEF TypeOK
      <4>2. \/ firstAge'[a] = firstAge[a] /\ lag'[a] = lag[a] /\ pending[a] # {}
            \/ firstAge'[a] = reading /\ lag'[a] = reading
        BY <3>2, <3>4, <4>1 DEF Items
      <4> QED
        BY <2>1, <2>2, <3>3, <4>2
    <3> QED
      BY <3>3, <3>4 DEF Spaced, Items
  <2>4. ASSUME NEW A \in SUBSET Account, Take(A),
               \A a \in Account \ A : quiet'[a] = quiet[a]
        PROVE  Spaced'
    BY <2>2, <2>4 DEF Take, Spaced, Items
  <2>5. ASSUME NEW a \in Account, ReadPending(a)
        PROVE  Spaced'
    BY <2>4, <2>5 DEF ReadPending
  <2>6. CASE Flush
    <3>1. /\ Due \in SUBSET Account /\ Take(Due)
          /\ \A a \in Account \ Due : quiet'[a] = quiet[a]
      BY <2>6 DEF Flush, Due, Items
    <3> QED
      BY <2>4, <3>1
  <2>7. CASE FlushAll
    <3>1. /\ Items \in SUBSET Account /\ Take(Items)
          /\ \A a \in Account \ Items : quiet'[a] = quiet[a]
      BY <2>7 DEF FlushAll, Items
    <3> QED
      BY <2>4, <3>1
  <2>8. CASE Tick
    <3>1. /\ pending' = pending /\ lag' = lag
          /\ \A a \in Items : firstAge'[a] = AtMost(firstAge[a] + 1, Window)
          /\ \A a \in Account : quiet'[a] = AtMost(quiet[a] + 1, Window)
      BY <2>8 DEF Tick, Items
    <3>2. Window \in Nat
      BY PipelineAssumption
    <3> QED
      BY <2>1, <2>2, <3>1, <3>2 DEF Spaced, Items, AtMost
  <2>9. CASE UNCHANGED <<pending, firstAge, lag, quiet>>
    BY <2>9 DEF Spaced, Items
  <2> QED
    BY <2>3, <2>5, <2>6, <2>7, <2>8, <2>9
       DEF Next, Request, DrainLoop, OfferDigest, PoolWorker, CloseStep, Terminated, vars,
           Arrive, Refuse, Enqueue, Receive, Judge, Broadcast, Pump1Exit, QueueJob, Pump2Exit,
           WorkerTake, ProcessJob, WorkerExit, Sigterm, ShutdownReturns, PumpsWaited, StopPool,
           DrainTimeout, Exit
<1> DEFINE Respite == (batch = {} /\ batch' # {} /\ phase \in {"running", "draining", "cancelled"})
                        => \A d \in batch' : quiet[d.to] + lag[d.to] >= Window
<1>3. TypeOK /\ Spaced /\ [Next]_vars => [Respite]_vars
  <2> SUFFICES ASSUME TypeOK, Spaced, [Next]_vars, batch = {}, batch' # {},
                      phase \in {"running", "draining", "cancelled"}, NEW d \in batch'
               PROVE  quiet[d.to] + lag[d.to] >= Window
    OBVIOUS
  <2>1. Flush
    <3>1. batch' # batch /\ phase # "drainqueue"
      OBVIOUS
    <3>2. ~OfferDigest
      BY DEF OfferDigest
    <3>3. ~Tick
      BY DEF Tick
    <3> QED
      BY <3>1, <3>2, <3>3
       DEF Next, Request, DrainLoop, PoolWorker, CloseStep, Terminated, vars, Goto,
           Arrive, Refuse, Enqueue, Receive, Judge, Add, Broadcast, Pump1Exit, Pump2Exit, ReadPending,
           WorkerTake, ProcessJob, WorkerExit, Sigterm, ShutdownReturns, PumpsWaited, FlushAll,
           StopPool, DrainTimeout, Exit
  <2>2. PICK a \in Due : d = DigestOf(a)
    BY <2>1 DEF Flush
  <2>3. d.to = a /\ a \in Items /\ firstAge[a] >= Window
    BY <2>2 DEF DigestOf, Due
  <2>4. /\ a \in Account /\ quiet[a] \in 0 .. Window /\ firstAge[a] \in 0 .. Window
        /\ lag[a] \in 0 .. Window
    BY <2>3 DEF Items, TypeOK
  <2>5. firstAge[a] <= quiet[a] + lag[a]
    BY <2>3 DEF Spaced
  <2> QED
    BY <2>3, <2>4, <2>5, PipelineAssumption
<1> QED
  BY <1>1, <1>2, <1>3, TypeCorrect, PTL DEF Spec, DigestSpacing

-------------------------------------------------------------------------------
(* The pipeline keeps the ledger.                                          *)

\* Where a ping stands in the ledger, by what the pipeline knows of it.
LEMMA StatusCases ==
  ASSUME TypeOK, NEW p \in Ping
  PROVE  /\ fate[p] \in {"read", "pushed"} => Status(p) = "told"
         /\ fate[p] \in CountedFate \cup {"abandoned"} => Status(p) = "lost"
         /\ fate[p] = "none" /\ p \in arrived /\ p \notin handlers => Status(p) = "waiting"
         /\ fate[p] = "none" /\ (p \notin arrived \/ p \in handlers) => Status(p) = "unsent"
         /\ fate[p] = "refused" => Status(p) = "unsent"
         /\ fate[p] \in {"none", "refused", "read", "pushed", "abandoned"} \cup CountedFate
BY Zenon DEF TypeOK, Fate, Status, CountedFate

\* A ping whose fate, arrival and handler a step leaves alone keeps its status.
LEMMA StatusKept ==
  ASSUME NEW p \in Ping, fate'[p] = fate[p], p \in arrived' <=> p \in arrived,
         p \in handlers' <=> p \in handlers
  PROVE  Status(p)' = Status(p)
BY Zenon DEF Status

\* The cardinality the ledger speaks of is the pipeline's.
LEMMA LedgerCardinality ==
  ASSUME NEW S
  PROVE  Ledger!Cardinality(S) = Cardinality(S)
BY Zenon DEF Ledger!Cardinality, Cardinality

LEMMA LedgerFinite ==
  ASSUME NEW S
  PROVE  Ledger!IsFiniteSet(S) <=> IsFiniteSet(S)
BY Zenon DEF Ledger!IsFiniteSet, IsFiniteSet

\* Deciding waiting pings is one step of the ledger: they are told, or lost.
LEMMA DecideLedger ==
  ASSUME TypeOK, NEW S \in PingSet, S # {}, NEW f \in Fate \ {"none", "refused"},
         Decide(S, f), UNCHANGED <<arrived, handlers>>,
         \A p \in S : Undecided(p) /\ p \notin handlers,
         IF f \in {"read", "pushed"}
           THEN \E a \in Account : /\ \A p \in S : To[p] = a
                                   /\ told' = [told EXCEPT ![a] = @ + Cardinality(S)]
           ELSE UNCHANGED told
  PROVE  Ledger!Next
<1> DEFINE status == [p \in Ping |-> Status(p)]
           g == IF f \in {"read", "pushed"} THEN "told" ELSE "lost"
<1>1. S \in SUBSET Ping
  BY DEF PingSet
<1>2. \A p \in S : status[p] = "waiting"
  BY <1>1, StatusCases DEF Undecided
<1>3. \A p \in S : Status(p)' = g
  <2> SUFFICES ASSUME NEW p \in S
               PROVE  Status(p)' = g
    OBVIOUS
  <2>1. fate'[p] = f
    BY <1>1 DEF Decide
  <2> QED
    BY <2>1, Zenon DEF Status, Fate
<1>4. \A p \in Ping \ S : Status(p)' = Status(p)
  BY StatusKept DEF Decide
<1>5. status' = [p \in Ping |-> IF p \in S THEN g ELSE status[p]]
  BY <1>1, <1>3, <1>4
<1> HIDE DEF status
<1>6. CASE f \in {"read", "pushed"}
  <2>1. PICK a \in Account : /\ \A p \in S : To[p] = a
                             /\ told' = [told EXCEPT ![a] = @ + Cardinality(S)]
    BY <1>6
  <2>2. Ledger!Tell(a, S)
    BY <1>2, <1>5, <1>6, <2>1, LedgerCardinality, LedgerFinite DEF Ledger!Tell, PingSet, status
  <2> QED
    BY <1>1, <2>1, <2>2 DEF Ledger!Next
<1>7. CASE f \notin {"read", "pushed"}
  <2>1. Ledger!Lose(S)
    BY <1>2, <1>5, <1>7 DEF Ledger!Lose, status
  <2> QED
    BY <1>1, <2>1 DEF Ledger!Next
<1> QED
  BY <1>6, <1>7

\* One step of the pipeline is one step of the ledger, or none of its business.
LEMMA LedgerSteps ==
  ASSUME TypeOK, OneJobEach, AllAddressed, Custody, [Next]_vars
  PROVE  [Ledger!Next]_(Ledger!vars)
<1> DEFINE status == [p \in Ping |-> Status(p)]
<1>1. \A p \in Ping : \/ InHeld(p) \/ InPending(p) \/ InBatch(p) \/ InWorker(p)
                      => Undecided(p) /\ p \notin handlers
  BY DEF Custody, Placed, Exclusive, Accounted
<1>2. \A p \in handlers : p \in Ping /\ Undecided(p)
  BY DEF TypeOK, Custody, Placed, Accounted
<1>3. ASSUME \A p \in Ping : Status(p)' = Status(p), UNCHANGED told
      PROVE  UNCHANGED Ledger!vars
  BY <1>3 DEF Ledger!vars
<1>4. UNCHANGED <<arrived, handlers, fate, told>> => UNCHANGED Ledger!vars
  BY <1>3, StatusKept
<1>5. ASSUME NEW q \in Ping, Arrive(q)
      PROVE  UNCHANGED Ledger!vars
  <2>1. /\ q \notin arrived /\ arrived' = arrived \cup {q} /\ handlers' = handlers \cup {q}
        /\ UNCHANGED <<fate, told>>
    BY <1>5 DEF Arrive, ledger
  <2>2. \A p \in Ping \ {q} : Status(p)' = Status(p)
    BY <2>1, StatusKept
  <2>3. fate[q] = "none"
    BY <2>1 DEF Custody, Placed, Accounted
  <2>4. Status(q) = "unsent"
    BY <2>1, <2>3, StatusCases
  <2>5. Status(q)' = "unsent"
    <3>1. fate'[q] = "none" /\ q \in handlers'
      BY <2>1, <2>3
    <3> QED
      BY <3>1, Zenon DEF Status
  <2> QED
    BY <1>3, <2>1, <2>2, <2>4, <2>5
<1>6. ASSUME NEW q \in Ping, Refuse(q)
      PROVE  UNCHANGED Ledger!vars
  <2>1. /\ q \in handlers /\ handlers' = handlers \ {q} /\ Decide({q}, "refused")
        /\ UNCHANGED <<arrived, told>>
    BY <1>6 DEF Refuse
  <2>2. \A p \in Ping \ {q} : Status(p)' = Status(p)
    BY <2>1, StatusKept DEF Decide
  <2>3. Status(q) = "unsent"
    BY <1>2, <2>1, StatusCases DEF Undecided
  <2>4. Status(q)' = "unsent"
    <3>1. fate'[q] = "refused"
      BY <2>1 DEF Decide
    <3> QED
      BY <3>1, Zenon DEF Status
  <2> QED
    BY <1>3, <2>1, <2>2, <2>3, <2>4
<1>7. ASSUME NEW q \in Ping, Enqueue(q)
      PROVE  Ledger!Next
  <2>1. /\ q \in handlers /\ handlers' = handlers \ {q}
        /\ UNCHANGED <<arrived, told>>
    BY <1>7 DEF Enqueue
  <2>2. UNCHANGED fate \/ Decide({q}, "queue_full")
    BY <1>7 DEF Enqueue
  <2>3. fate[q] = "none" /\ q \in arrived
    BY <1>2, <2>1 DEF Undecided
  <2>4. status[q] = "unsent"
    BY <2>1, <2>3, StatusCases
  <2>5. \A p \in Ping \ {q} : Status(p)' = Status(p)
    BY <2>1, <2>2, StatusKept DEF Decide
  <2>6. CASE UNCHANGED fate
    <3>1. fate'[q] = "none" /\ q \in arrived' /\ q \notin handlers'
      BY <2>1, <2>3, <2>6
    <3>2. Status(q)' = "waiting"
      BY <3>1, Zenon DEF Status
    <3>3. status' = [status EXCEPT ![q] = "waiting"]
      BY <2>5, <3>2
    <3>4. Ledger!Accept(q)
      BY <2>1, <2>4, <3>3 DEF Ledger!Accept
    <3> QED
      BY <3>4 DEF Ledger!Next
  <2>7. CASE Decide({q}, "queue_full")
    <3>1. fate'[q] = "queue_full"
      BY <2>7 DEF Decide
    <3>2. Status(q)' = "lost"
      BY <3>1, Zenon DEF Status
    <3>3. status' = [status EXCEPT ![q] = "lost"]
      BY <2>5, <3>2
    <3>4. Ledger!TurnAway(q)
      BY <2>1, <2>4, <3>3 DEF Ledger!TurnAway
    <3> QED
      BY <3>4 DEF Ledger!Next
  <2> QED
    BY <2>2, <2>6, <2>7
<1>8. CASE Add
  <2>1. PICK job \in held : AddJob(job)
    BY <1>8 DEF Add
  <2>2. UNCHANGED <<arrived, handlers, told>> /\ step = "add"
    BY <1>8 DEF Add, ingress
  <2>3. job.ping \in Ping /\ InHeld(job.ping)
    BY <2>1, <2>2 DEF InHeld, TypeOK, PingJob
  <2>4. CASE Decide({job.ping}, "over_capacity")
    <3>1. {job.ping} \in PingSet
      BY <2>3, FS_Singleton DEF PingSet
    <3>2. Ledger!Next
      BY <1>1, <2>2, <2>3, <2>4, <3>1, DecideLedger DEF Fate
    <3> QED
      BY <3>2
  <2>5. UNCHANGED fate => UNCHANGED Ledger!vars
    BY <1>4, <2>2
  <2> QED
    BY <2>1, <2>4, <2>5 DEF AddJob
<1>13. CASE Judge
  <2>1. PICK job \in held : Decide({job.ping}, "stale") \/ UNCHANGED fate
    BY <1>13 DEF Judge
  <2>2. UNCHANGED <<arrived, handlers, told>> /\ step = "judge"
    BY <1>13 DEF Judge, ingress
  <2>3. job.ping \in Ping /\ InHeld(job.ping)
    BY <2>1, <2>2 DEF InHeld, TypeOK, PingJob
  <2>4. CASE Decide({job.ping}, "stale")
    <3>1. {job.ping} \in PingSet
      BY <2>3, FS_Singleton DEF PingSet
    <3>2. Ledger!Next
      BY <1>1, <2>2, <2>3, <2>4, <3>1, DecideLedger DEF Fate
    <3> QED
      BY <3>2
  <2>5. UNCHANGED fate => UNCHANGED Ledger!vars
    BY <1>4, <2>2
  <2> QED
    BY <2>1, <2>4, <2>5
<1>9. ASSUME NEW a \in Account, ReadPending(a)
      PROVE  Ledger!Next
  <2>1. /\ Decide(pending[a], "read") /\ UNCHANGED <<arrived, handlers>>
        /\ told' = [told EXCEPT ![a] = @ + Cardinality(pending[a])]
        /\ pending[a] # {}
    BY <1>9 DEF ReadPending, ingress, Items
  <2>2. /\ pending[a] \in PingSet
        /\ \A p \in pending[a] : p \in Ping /\ InPending(p) /\ To[p] = a
    BY DEF TypeOK, PingSet, InPending, AllAddressed
  <2>3. \A p \in pending[a] : Undecided(p) /\ p \notin handlers
    BY <1>1, <2>2
  <2>4. "read" \in Fate \ {"none", "refused"}
    BY DEF Fate
  <2> QED
    BY <2>1, <2>2, <2>3, <2>4, DecideLedger
<1>10. ASSUME NEW d \in batch, QueueJob(d)
       PROVE  Ledger!Next \/ UNCHANGED Ledger!vars
  <2>1. UNCHANGED <<arrived, handlers, told>>
    BY <1>10 DEF QueueJob, ingress
  <2>2. d.pings \in PingSet /\ d.pings # {} /\ \A p \in d.pings : p \in Ping /\ InBatch(p)
    BY DEF TypeOK, Digest, PingSet, InBatch, AllAddressed, Addressed
  <2>3. CASE Decide(d.pings, "pool_full")
    BY <1>1, <2>1, <2>2, <2>3, DecideLedger DEF Fate
  <2> QED
    BY <1>4, <1>10, <2>1, <2>3 DEF QueueJob
<1>11. ASSUME NEW w \in Worker, ProcessJob(w)
       PROVE  Ledger!Next
  <2>1. UNCHANGED <<arrived, handlers>>
    BY <1>11 DEF ProcessJob, ingress
  <2>2. PICK d \in working[w] : SendJob(d)
    BY <1>11 DEF ProcessJob
  <2>3. /\ d.pings \in PingSet /\ d.pings # {} /\ d.to \in Account
        /\ \A p \in d.pings : p \in Ping /\ InWorker(p) /\ To[p] = d.to
    BY DEF TypeOK, Digest, PingSet, InWorker, AllAddressed, Addressed
  <2>4. \A p \in d.pings : Undecided(p) /\ p \notin handlers
    BY <1>1, <2>3
  <2>5. CASE \E f \in {"stale_digest", "abandoned"} : Decide(d.pings, f) /\ UNCHANGED told
    BY <2>1, <2>3, <2>4, <2>5, DecideLedger DEF Fate
  <2>6. CASE /\ Decide(d.pings, "pushed")
             /\ told' = [told EXCEPT ![d.to] = @ + Cardinality(d.pings)]
    <3>1. "pushed" \in Fate \ {"none", "refused"}
      BY DEF Fate
    <3> QED
      BY <2>1, <2>3, <2>4, <2>6, <3>1, DecideLedger
  <2> QED
    BY <2>2, <2>5, <2>6 DEF SendJob
<1>12. CASE UNCHANGED <<arrived, handlers, fate, told>>
  BY <1>4, <1>12
<1> HIDE DEF status
<1> QED
  BY <1>5, <1>6, <1>7, <1>8, <1>9, <1>10, <1>11, <1>12, <1>13
     DEF Next, Request, DrainLoop, OfferDigest, PoolWorker, CloseStep, Terminated, vars,
         ingress, ledger, Receive, Broadcast, Pump1Exit, Flush, Pump2Exit, WorkerTake,
         WorkerExit, Sigterm, ShutdownReturns, PumpsWaited, FlushAll, StopPool, DrainTimeout,
         Exit, Tick

\* The pipeline implements the ledger: through every buffer, poll, worker and
\* phase of the shutdown, a ping is decided once, told to its own recipient only,
\* and the numbers recipients are shown add up to pings that were really sent.
THEOREM PipelineKeepsLedger == Spec => KeepsLedger
<1>1. Init => Ledger!Init
  <2> SUFFICES ASSUME Init
               PROVE  Ledger!Init
    OBVIOUS
  <2>1. \A p \in Ping : fate[p] = "none" /\ p \notin arrived
    BY DEF Init
  <2>2. \A p \in Ping : Status(p) = "unsent"
    BY <2>1, Zenon DEF Status
  <2>3. told = [a \in Account |-> 0]
    BY DEF Init
  <2> QED
    BY <2>2, <2>3 DEF Ledger!Init
<1>2. /\ TypeOK /\ OneJobEach /\ AllAddressed /\ Custody /\ [Next]_vars
      => [Ledger!Next]_(Ledger!vars)
  BY LedgerSteps
<1> QED
  BY <1>1, <1>2, TypeCorrect, OneJobEachInv, AddressedInv, CustodyInv, PTL
     DEF Spec, KeepsLedger, Ledger!Spec
\* The pings an account has been told of.
ToldPings(a) == {p \in Ping : To[p] = a /\ Status(p) = "told"}

AddsUp == \A a \in Account : IsFiniteSet(ToldPings(a)) /\ told[a] = Cardinality(ToldPings(a))

\* What a step of the ledger does to the pings told: told and lost are final,
\* and one account's number grows by the pings told anew.
LEMMA LedgerFinal ==
  ASSUME [Ledger!Next]_(Ledger!vars), NEW p \in Ping, Status(p) \in {"told", "lost"}
  PROVE  Status(p)' = Status(p)
<1> DEFINE status == [q \in Ping |-> Status(q)]
<1>1. /\ status[p] = Status(p) /\ status'[p] = Status(p)'
      /\ status[p] \notin {"unsent", "waiting"} /\ DOMAIN status = Ping
  OBVIOUS
<1>2. CASE UNCHANGED Ledger!vars
  BY <1>1, <1>2 DEF Ledger!vars
<1>3. ASSUME NEW q \in Ping, Ledger!Accept(q) \/ Ledger!TurnAway(q)
      PROVE  status'[p] = status[p]
  <2>1. status[q] = "unsent" /\ \E v : status' = [status EXCEPT ![q] = v]
    BY <1>3 DEF Ledger!Accept, Ledger!TurnAway
  <2> HIDE DEF status
  <2> QED
    BY <1>1, <2>1
<1>4. ASSUME NEW S \in SUBSET Ping, Ledger!Lose(S) \/ \E a \in Account : Ledger!Tell(a, S)
      PROVE  status'[p] = status[p]
  <2>1. /\ \A q \in S : status[q] = "waiting"
        /\ \E v : status' = [q \in Ping |-> IF q \in S THEN v ELSE status[q]]
    BY <1>4 DEF Ledger!Lose, Ledger!Tell
  <2> HIDE DEF status
  <2> QED
    BY <1>1, <2>1
<1> HIDE DEF status
<1> QED
  BY <1>1, <1>2, <1>3, <1>4 DEF Ledger!Next

LEMMA LedgerAddsUp ==
  ASSUME TypeOK, AddsUp, [Ledger!Next]_(Ledger!vars)
  PROVE  AddsUp'
<1> DEFINE status == [q \in Ping |-> Status(q)]
           Of(a) == {p \in Ping : To[p] = a /\ status[p] = "told"}
<1>1. \A a : ToldPings(a) = Of(a)
  BY DEF ToldPings
<1>2. \A a \in Account : IsFiniteSet(Of(a)) /\ told[a] = Cardinality(Of(a))
  BY <1>1 DEF AddsUp
<1>3. \A a : ToldPings(a)' = Of(a)'
  BY DEF ToldPings
<1>4. told \in [Account -> Nat] /\ DOMAIN status = Ping
  BY DEF TypeOK
<1> SUFFICES ASSUME NEW a \in Account PROVE IsFiniteSet(Of(a)') /\ told'[a] = Cardinality(Of(a)')
  BY <1>3 DEF AddsUp
<1>5. CASE Of(a)' = Of(a) /\ told'[a] = told[a]
  BY <1>2, <1>5
<1>6. ASSUME NEW S \in SUBSET Ping, Ledger!Tell(a, S)
      PROVE  IsFiniteSet(Of(a)') /\ told'[a] = Cardinality(Of(a)')
  <2>1. /\ IsFiniteSet(S) /\ \A q \in S : status[q] = "waiting" /\ To[q] = a
        /\ status' = [q \in Ping |-> IF q \in S THEN "told" ELSE status[q]]
        /\ told' = [told EXCEPT ![a] = @ + Cardinality(S)]
    BY <1>6, LedgerCardinality, LedgerFinite DEF Ledger!Tell
  <2> HIDE DEF status
  <2>2. Of(a)' = Of(a) \cup S /\ Of(a) \cap S = {}
    BY <2>1
  <2> HIDE DEF Of
  <2>3. IsFiniteSet(Of(a)') /\ Cardinality(Of(a)') = Cardinality(Of(a)) + Cardinality(S)
    <3>1. /\ IsFiniteSet(Of(a) \cup S)
          /\ Cardinality(Of(a) \cup S) = Cardinality(Of(a)) + Cardinality(S) - Cardinality(Of(a) \cap S)
      BY <1>2, <2>1, FS_Union
    <3>2. Cardinality(Of(a) \cap S) = 0
      BY <2>2, FS_EmptySet
    <3>3. Cardinality(Of(a)) \in Nat /\ Cardinality(S) \in Nat
      BY <1>2, <2>1, FS_CardinalityType
    <3> QED
      BY <2>2, <3>1, <3>2, <3>3
  <2> QED
    BY <1>2, <1>4, <2>1, <2>3
<1>7. ASSUME NEW b \in Account \ {a}, NEW S \in SUBSET Ping, Ledger!Tell(b, S)
      PROVE  Of(a)' = Of(a) /\ told'[a] = told[a]
  <2>1. /\ \A q \in S : To[q] = b
        /\ status' = [q \in Ping |-> IF q \in S THEN "told" ELSE status[q]]
        /\ \E n : told' = [told EXCEPT ![b] = n]
    BY <1>7 DEF Ledger!Tell
  <2> HIDE DEF status
  <2> QED
    BY <1>4, <2>1
<1>8. ASSUME NEW S \in SUBSET Ping, Ledger!Lose(S)
      PROVE  Of(a)' = Of(a) /\ told'[a] = told[a]
  <2>1. /\ \A q \in S : status[q] = "waiting"
        /\ status' = [q \in Ping |-> IF q \in S THEN "lost" ELSE status[q]]
        /\ told' = told
    BY <1>8 DEF Ledger!Lose
  <2> HIDE DEF status
  <2> QED
    BY <2>1
<1>9. ASSUME NEW q \in Ping, Ledger!Accept(q) \/ Ledger!TurnAway(q)
      PROVE  Of(a)' = Of(a) /\ told'[a] = told[a]
  <2>1. /\ status[q] = "unsent" /\ told' = told
        /\ \E v \in {"waiting", "lost"} : status' = [status EXCEPT ![q] = v]
    BY <1>9 DEF Ledger!Accept, Ledger!TurnAway
  <2> HIDE DEF status
  <2> QED
    BY <1>4, <2>1
<1>10. CASE UNCHANGED Ledger!vars
  BY <1>5, <1>10 DEF Ledger!vars
<1> HIDE DEF Of, status
<1> QED
  BY <1>5, <1>6, <1>7, <1>8, <1>9, <1>10 DEF Ledger!Next

\* The number an account has been told, through /v1/pending and digests, is the
\* number of its pings that were delivered: no ping is told twice or forgotten in
\* the sum (GetAndClearPending, Flush, FlushAll, processJob).
THEOREM NumbersAddUp == Spec => []AddsUp
<1>1. Init => AddsUp
  <2> SUFFICES ASSUME Init, NEW a \in Account
               PROVE  IsFiniteSet(ToldPings(a)) /\ told[a] = Cardinality(ToldPings(a))
    BY DEF AddsUp
  <2>1. \A p \in Ping : fate[p] = "none" /\ p \notin arrived
    BY DEF Init
  <2>2. \A p \in Ping : Status(p) = "unsent"
    BY <2>1, Zenon DEF Status
  <2>3. ToldPings(a) = {} /\ told[a] = 0
    BY <2>2 DEF ToldPings, Init
  <2> QED
    BY <2>3, FS_EmptySet
<1>2. /\ TypeOK /\ OneJobEach /\ AllAddressed /\ Custody /\ AddsUp /\ [Next]_vars
      => AddsUp'
  BY LedgerSteps, LedgerAddsUp
<1> QED
  BY <1>1, <1>2, TypeCorrect, OneJobEachInv, AddressedInv, CustodyInv, PTL DEF Spec

\* A ping that has been told or lost stays told or lost: no retry, late worker or
\* shutdown decides it again (Pool.processJob, Assembly.Close).
THEOREM DecidedForGood ==
  Spec => [][\A p \in Ping : Status(p) \in {"told", "lost"} => Status(p)' = Status(p)]_vars
<1> DEFINE Final == \A p \in Ping : Status(p) \in {"told", "lost"} => Status(p)' = Status(p)
<1>1. /\ TypeOK /\ OneJobEach /\ AllAddressed /\ Custody /\ [Next]_vars
      => [Final]_vars
  BY LedgerSteps, LedgerFinal
<1> QED
  BY <1>1, TypeCorrect, OneJobEachInv, AddressedInv, CustodyInv, PTL DEF Spec
===============================================================================
