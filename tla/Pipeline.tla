------------------------------- MODULE Pipeline -------------------------------
(***************************************************************************)
(* The delivery pipeline of halpd, from the enqueue at the end of          *)
(* POST /v1/ping to the hand-over of a digest to the push dispatcher:      *)
(*                                                                         *)
(*   handlers -> Queue -> pump 1 -> Coalescer -> pump 2 -> Pool -> workers *)
(*                          |            |                                 *)
(*                          +-> hub      +-> GET /v1/pending               *)
(*                                                                         *)
(* together with the graceful shutdown of cmd/halpd and Assembly.Close.    *)
(*                                                                         *)
(* The accumulator of the code is a number.  Here it is the set of pings   *)
(* the number counts, so that "a ping is counted once" can be said at all; *)
(* the number of the code is the cardinality of that set.                  *)
(*                                                                         *)
(* Time is kept as ages, in ticks, saturating just above the largest value *)
(* the code compares them with, so that it is unbounded and still finite.  *)
(***************************************************************************)
EXTENDS Naturals, Sequences, FiniteSets

CONSTANTS Ping,           \* ping requests that reach the server
          Account,        \* recipient accounts
          To,             \* the recipient of each ping
          Worker,         \* goroutines of the push pool
          QueueCap,       \* queue.size
          MaxRecipients,  \* Coalescer.maxRecipients
          JobCap,         \* capacity of Pool.jobCh
          MaxAge,         \* dispatch.max_age, in ticks
          Window          \* digest.window_s, in ticks

ASSUME PipelineAssumption ==
  /\ To \in [Ping -> Account]
  /\ Worker # {}
  /\ QueueCap \in Nat \ {0}
  /\ MaxRecipients \in Nat \ {0}
  /\ JobCap \in Nat \ {0}
  /\ MaxAge \in Nat
  /\ Window \in Nat

VARIABLES
  phase,      \* how far the process has come on its way from running to exited
  late,       \* srv.Shutdown gave up waiting: handlers may outlive the listener
  handlers,   \* requests inside SendPing, before its Enqueue
  arrived,    \* requests that have entered SendPing (history)
  queue,      \* the ingress channel: a sequence of ping jobs
  pump1,      \* the goroutine that drains the queue
  step,       \* where the drain loop stands (pump 1, then Assembly.Close)
  held,       \* the job the drain loop has received
  reading,    \* how old AddAt's reading of the clock is
  pending,    \* the accumulators of the coalescer
  firstAge,   \* the time since an accumulator's firstSeen
  lag,        \* how old the clock reading an accumulator was made with was (history)
  pump2,      \* the goroutine that flushes the coalescer
  batch,      \* digests flushed and not yet offered to the pool
  jobs,       \* Pool.jobCh
  jobsClosed, \* Pool.Stop has closed jobCh
  cancelled,  \* Pool.ctx is cancelled: the drain deadline has passed
  worker,     \* what each worker is doing
  working,    \* the job of a busy worker
  fate,       \* what finally became of each ping (history)
  told,       \* how many pings each account has been told about (history)
  live,       \* pings broadcast to attached streams (history)
  dropped,    \* what Enqueue, AddAt, QueueJob and processJob add to
              \* halp_pings_dropped_total; what the guard and the hub add is left out
  quiet       \* the time since the last digest to each account (history)

ingress == <<handlers, arrived, queue>>
drain == <<pump1, step, held, reading>>
coalescer == <<pending, firstAge, lag, quiet>>
pool == <<jobs, jobsClosed, cancelled, worker, working>>
ledger == <<fate, told, live, dropped>>
vars == <<phase, late, ingress, drain, coalescer, pump2, batch, pool, ledger>>

-------------------------------------------------------------------------------
Phase == {"running", "draining", "cancelled", "drainqueue", "flushall", "stopping", "exited"}
Fate == {"none", "refused", "queue_full", "stale", "over_capacity", "read",
         "pool_full", "stale_digest", "abandoned", "pushed"}

\* What an accumulator can have counted.
PingSet == {S \in SUBSET Ping : IsFiniteSet(S)}

PingJob == [ping : Ping, age : 0 .. MaxAge + 1]
Digest == [to : Account, pings : PingSet, age : 0 .. MaxAge + 1]

\* One type invariant for the module.
TypeOK ==
  /\ phase \in Phase
  /\ late \in BOOLEAN
  /\ handlers \in SUBSET Ping
  /\ arrived \in SUBSET Ping
  /\ queue \in Seq(PingJob)
  /\ pump1 \in {"running", "exited"}
  /\ step \in {"idle", "judge", "add", "broadcast"}
  /\ held \in SUBSET PingJob
  /\ reading \in 0 .. Window
  /\ pending \in [Account -> PingSet]
  /\ firstAge \in [Account -> 0 .. Window]
  /\ lag \in [Account -> 0 .. Window]
  /\ pump2 \in {"running", "exited"}
  /\ batch \in SUBSET Digest
  /\ jobs \in Seq(Digest)
  /\ jobsClosed \in BOOLEAN
  /\ cancelled \in BOOLEAN
  /\ worker \in [Worker -> {"idle", "busy", "exited"}]
  /\ working \in [Worker -> SUBSET Digest]
  /\ \A w \in Worker : working[w] # {} => worker[w] = "busy"
  /\ fate \in [Ping -> Fate]
  /\ told \in [Account -> Nat]
  /\ live \in SUBSET Ping
  /\ dropped \in Nat
  /\ quiet \in [Account -> 0 .. Window]

Init ==
  /\ phase = "running"
  /\ late = FALSE
  /\ handlers = {}
  /\ arrived = {}
  /\ queue = <<>>
  /\ pump1 = "running"
  /\ step = "idle"
  /\ held = {}
  /\ reading = 0
  /\ pending = [a \in Account |-> {}]
  /\ firstAge = [a \in Account |-> 0]
  /\ lag = [a \in Account |-> 0]
  /\ pump2 = "running"
  /\ batch = {}
  /\ jobs = <<>>
  /\ jobsClosed = FALSE
  /\ cancelled = FALSE
  /\ worker = [w \in Worker |-> "idle"]
  /\ working = [w \in Worker |-> {}]
  /\ fate = [p \in Ping |-> "none"]
  /\ told = [a \in Account |-> 0]
  /\ live = {}
  /\ dropped = 0
  /\ quiet = [a \in Account |-> Window]

-------------------------------------------------------------------------------
(* Helpers.                                                                *)

AtMost(n, bound) == IF n < bound THEN n ELSE bound
Older(job) == [job EXCEPT !.age = AtMost(@ + 1, MaxAge + 1)]

\* Accounts that have an accumulator: the keys of Coalescer.items.
Items == {a \in Account : pending[a] # {}}

\* Handlers run while the server serves; once Shutdown has given up waiting
\* for them they may still run at any later point of the shutdown.
HandlersRun == phase \in {"running", "draining"} \/ (late /\ phase # "exited")

\* Assembly.cancel() has been called: pumps may take their ctx.Done branch.
CtxDone == phase \in {"cancelled", "drainqueue", "flushall", "stopping", "exited"}

Decide(S, f) == fate' = [p \in Ping |-> IF p \in S THEN f ELSE fate[p]]

\* Mutant: the window is compared one tick early.
DueEarly == {a \in Items : firstAge[a] + 1 >= Window}

\* Accumulators whose window has elapsed.
Due == {a \in Items : firstAge[a] >= Window}

\* The digest an accumulator turns into.
DigestOf(a) == [to |-> a, pings |-> pending[a], age |-> 0]

\* Mutant: the number is handed out and the accumulator stays.
TakeKeeps(A) == UNCHANGED <<pending, firstAge, lag>>

\* Taking the accumulators of the accounts in A out of the coalescer.
Take(A) ==
  /\ pending' = [a \in Account |-> IF a \in A THEN {} ELSE pending[a]]
  /\ firstAge' = [a \in Account |-> IF a \in A THEN 0 ELSE firstAge[a]]
  /\ lag' = [a \in Account |-> IF a \in A THEN 0 ELSE lag[a]]

-------------------------------------------------------------------------------
(* SendPing.  A request is refused with the same 202 as it is accepted     *)
(* with; which of the two is the guard's business, not this module's.      *)

Arrive(p) ==
  /\ phase = "running"
  /\ p \notin arrived
  /\ arrived' = arrived \cup {p}
  /\ handlers' = handlers \cup {p}
  /\ UNCHANGED <<phase, late, queue, drain, coalescer, pump2, batch, pool, ledger>>

\* The guard or the proof of work turns the request away.  What they count
\* under the same metric is theirs.
Refuse(p) ==
  /\ HandlersRun
  /\ p \in handlers
  /\ handlers' = handlers \ {p}
  /\ Decide({p}, "refused")
  /\ UNCHANGED <<phase, late, arrived, queue, drain, coalescer, pump2, batch, pool,
                 told, live, dropped>>

\* Mutant: the capacity test is off by one.
EnqueueOverfull(p) ==
  /\ HandlersRun
  /\ p \in handlers
  /\ handlers' = handlers \ {p}
  /\ Len(queue) <= QueueCap
  /\ queue' = Append(queue, [ping |-> p, age |-> 0])
  /\ UNCHANGED <<phase, late, arrived, drain, coalescer, pump2, batch, pool, ledger>>

\* Mutant: the counter goes up before the attempt.
EnqueueCountedFirst(p) ==
  /\ HandlersRun
  /\ p \in handlers
  /\ handlers' = handlers \ {p}
  /\ dropped' = dropped + 1
  /\ \/ /\ Len(queue) < QueueCap
        /\ queue' = Append(queue, [ping |-> p, age |-> 0])
        /\ UNCHANGED fate
     \/ /\ Len(queue) >= QueueCap
        /\ Decide({p}, "queue_full")
        /\ UNCHANGED queue
  /\ UNCHANGED <<phase, late, arrived, drain, coalescer, pump2, batch, pool, told, live>>

\* Queue.Enqueue never blocks: a full channel drops the job and counts it.
Enqueue(p) ==
  /\ HandlersRun
  /\ p \in handlers
  /\ handlers' = handlers \ {p}
  /\ \/ /\ Len(queue) < QueueCap
        /\ queue' = Append(queue, [ping |-> p, age |-> 0])
        /\ UNCHANGED <<fate, dropped>>
     \/ /\ Len(queue) >= QueueCap
        /\ Decide({p}, "queue_full")
        /\ dropped' = dropped + 1
        /\ UNCHANGED queue
  /\ UNCHANGED <<phase, late, arrived, drain, coalescer, pump2, batch, pool, told, live>>

-------------------------------------------------------------------------------
(* The drain loop: pump 1, and the loop of Assembly.Close after the pumps  *)
(* have exited.  Both receive, Add and Broadcast, ignoring Add's result.   *)

Draining == pump1 = "running" \/ phase = "drainqueue"

Receive ==
  /\ Draining
  /\ step = "idle"
  /\ queue # <<>>
  /\ held' = {Head(queue)}
  /\ queue' = Tail(queue)
  /\ step' = "judge"
  /\ UNCHANGED <<phase, late, handlers, arrived, pump1, reading, coalescer, pump2, batch, pool,
                 ledger>>

\* Coalescer.AddAt reads the clock and, before it takes the lock, drops and
\* counts a job that is too old by that reading.
Judge ==
  /\ step = "judge"
  /\ \E job \in held :
       \/ /\ job.age > MaxAge
          /\ step' = "broadcast"
          /\ Decide({job.ping}, "stale")
          /\ dropped' = dropped + 1
       \/ /\ job.age <= MaxAge
          /\ step' = "add"
          /\ UNCHANGED <<fate, dropped>>
  /\ UNCHANGED <<phase, late, ingress, pump1, held, reading, coalescer, pump2, batch, pool, told,
                 live>>

\* The critical section of AddAt: a job for one recipient too many is dropped
\* and counted; otherwise the recipient's number goes up by one, and a new
\* accumulator's firstSeen is the reading, however old it has become.
AddJob(job) ==
  LET a == To[job.ping]
  IN  \/ /\ a \notin Items
         /\ Cardinality(Items) >= MaxRecipients
         /\ Decide({job.ping}, "over_capacity")
         /\ dropped' = dropped + 1
         /\ UNCHANGED <<pending, firstAge, lag>>
      \/ /\ a \in Items \/ Cardinality(Items) < MaxRecipients
         /\ pending' = [pending EXCEPT ![a] = @ \cup {job.ping}]
         /\ firstAge' = [firstAge EXCEPT ![a] = IF a \in Items THEN @ ELSE reading]
         /\ lag' = [lag EXCEPT ![a] = IF a \in Items THEN @ ELSE reading]
         /\ UNCHANGED <<fate, dropped>>

Add ==
  /\ step = "add"
  /\ step' = "broadcast"
  /\ reading' = 0
  /\ \E job \in held : AddJob(job)
  /\ UNCHANGED <<phase, late, ingress, pump1, held, pump2, batch, pool, told, live, quiet>>

\* Hub.Broadcast(job.Recipient, 1), whatever AddAt did with the job.  StreamHub
\* models what a connection sees, and the slow streams the hub drops and counts.
Broadcast ==
  /\ step = "broadcast"
  /\ step' = "idle"
  /\ live' = live \cup {job.ping : job \in held}
  /\ held' = {}
  /\ UNCHANGED <<phase, late, ingress, pump1, reading, coalescer, pump2, batch, pool, fate, told,
                 dropped>>

Pump1Exit ==
  /\ CtxDone
  /\ pump1 = "running"
  /\ step = "idle"
  /\ pump1' = "exited"
  /\ UNCHANGED <<phase, late, ingress, step, held, reading, coalescer, pump2, batch, pool, ledger>>

-------------------------------------------------------------------------------
(* GET /v1/pending.                                                        *)

\* Mutant: the GET is a plain read and clears nothing.
ReadPendingPeek(a) ==
  /\ HandlersRun
  /\ a \in Items
  /\ Decide(pending[a], "read")
  /\ told' = [told EXCEPT ![a] = @ + Cardinality(pending[a])]
  /\ UNCHANGED <<phase, late, ingress, drain, coalescer, pump2, batch, pool, live, dropped>>

\* GetAndClearPending reads the number and deletes the accumulator.
ReadPending(a) ==
  /\ HandlersRun
  /\ a \in Items
  /\ Decide(pending[a], "read")
  /\ told' = [told EXCEPT ![a] = @ + Cardinality(pending[a])]
  /\ Take({a})
  /\ UNCHANGED <<phase, late, ingress, drain, pump2, batch, pool, live, dropped, quiet>>

-------------------------------------------------------------------------------
(* Pump 2.                                                                 *)

\* Coalescer.Flush on a tick: every accumulator whose window has elapsed.
Flush ==
  /\ pump2 = "running"
  /\ batch = {}
  /\ Due # {}
  /\ batch' = {DigestOf(a) : a \in Due}
  /\ quiet' = [a \in Account |-> IF a \in Due THEN 0 ELSE quiet[a]]
  /\ Take(Due)
  /\ UNCHANGED <<phase, late, ingress, drain, pump2, pool, ledger>>

\* Pool.QueueJob, called for each digest by pump 2 and by Assembly.Close.
\* A full channel drops the whole digest and counts one drop.
QueueJob(d) ==
  /\ batch' = batch \ {d}
  /\ \/ /\ Len(jobs) < JobCap
        /\ jobs' = Append(jobs, d)
        /\ UNCHANGED <<fate, dropped>>
     \/ /\ Len(jobs) >= JobCap
        /\ Decide(d.pings, "pool_full")
        /\ dropped' = dropped + 1
        /\ UNCHANGED jobs
  /\ UNCHANGED <<phase, late, ingress, drain, coalescer, pump2, jobsClosed, cancelled,
                 worker, working, told, live>>

\* Mutant: pump 2 waits for the pool to be stopped, and the pool for pump 2.
Pump2ExitAfterPool ==
  /\ jobsClosed
  /\ pump2 = "running"
  /\ batch = {}
  /\ pump2' = "exited"
  /\ UNCHANGED <<phase, late, ingress, drain, coalescer, batch, pool, ledger>>

Pump2Exit ==
  /\ CtxDone
  /\ pump2 = "running"
  /\ batch = {}
  /\ pump2' = "exited"
  /\ UNCHANGED <<phase, late, ingress, drain, coalescer, batch, pool, ledger>>

-------------------------------------------------------------------------------
(* The workers of the push pool.                                           *)

\* workerLoop receives the next job.
WorkerTake(w) ==
  /\ worker[w] = "idle"
  /\ jobs # <<>>
  /\ worker' = [worker EXCEPT ![w] = "busy"]
  /\ working' = [working EXCEPT ![w] = {Head(jobs)}]
  /\ jobs' = Tail(jobs)
  /\ UNCHANGED <<phase, late, ingress, drain, coalescer, pump2, batch, jobsClosed,
                 cancelled, ledger>>

\* processJob: a stale digest is dropped and counted once; a failed query
\* gives the job up without a trace; otherwise the digest goes to every
\* subscription of the account (PushDispatch models what happens there).
SendJob(d) ==
  \/ /\ d.age > MaxAge
     /\ Decide(d.pings, "stale_digest")
     /\ dropped' = dropped + 1
     /\ UNCHANGED told
  \/ /\ d.age <= MaxAge
     /\ Decide(d.pings, "abandoned")
     /\ UNCHANGED <<told, dropped>>
  \/ /\ d.age <= MaxAge
     /\ Decide(d.pings, "pushed")
     /\ told' = [told EXCEPT ![d.to] = @ + Cardinality(d.pings)]
     /\ UNCHANGED dropped

ProcessJob(w) ==
  /\ worker[w] = "busy"
  /\ worker' = [worker EXCEPT ![w] = "idle"]
  /\ working' = [working EXCEPT ![w] = {}]
  /\ \E d \in working[w] : SendJob(d)
  /\ UNCHANGED <<phase, late, ingress, drain, coalescer, pump2, batch, jobs, jobsClosed,
                 cancelled, live>>

\* Mutant: a worker that finds the channel empty for a moment goes home.
WorkerExitEarly(w) ==
  /\ worker[w] = "idle"
  /\ jobs = <<>>
  /\ worker' = [worker EXCEPT ![w] = "exited"]
  /\ UNCHANGED <<phase, late, ingress, drain, coalescer, pump2, batch, jobs, jobsClosed,
                 cancelled, working, ledger>>

\* Mutant: a worker looks at the context after it has taken a job, and returns.
WorkerExitHolding(w) ==
  /\ worker[w] \in {"idle", "busy"}
  /\ cancelled \/ (worker[w] = "idle" /\ jobsClosed /\ jobs = <<>>)
  /\ worker' = [worker EXCEPT ![w] = "exited"]
  /\ UNCHANGED <<phase, late, ingress, drain, coalescer, pump2, batch, jobs, jobsClosed,
                 cancelled, working, ledger>>

WorkerExit(w) ==
  /\ worker[w] = "idle"
  /\ cancelled \/ (jobsClosed /\ jobs = <<>>)
  /\ worker' = [worker EXCEPT ![w] = "exited"]
  /\ UNCHANGED <<phase, late, ingress, drain, coalescer, pump2, batch, jobs, jobsClosed,
                 cancelled, working, ledger>>

-------------------------------------------------------------------------------
(* Shutdown: main on SIGTERM, then Assembly.Close.                         *)

Goto(from, to) == phase = from /\ phase' = to

Sigterm ==
  /\ Goto("running", "draining")
  /\ UNCHANGED <<late, ingress, drain, coalescer, pump2, batch, pool, ledger>>

\* srv.Shutdown returns when no handler is left, or at its deadline; then
\* Assembly.Close cancels the context of the pumps.
ShutdownReturns ==
  /\ Goto("draining", "cancelled")
  /\ late' \in {handlers # {}, TRUE}
  /\ UNCHANGED <<ingress, drain, coalescer, pump2, batch, pool, ledger>>

\* Mutant: Close waits for pump 1 only.
PumpsWaitedHalf ==
  /\ Goto("cancelled", "drainqueue")
  /\ pump1 = "exited"
  /\ UNCHANGED <<late, ingress, drain, coalescer, pump2, batch, pool, ledger>>

\* wg.Wait returns once both pumps have exited.
PumpsWaited ==
  /\ Goto("cancelled", "drainqueue")
  /\ pump1 = "exited" /\ pump2 = "exited"
  /\ UNCHANGED <<late, ingress, drain, coalescer, pump2, batch, pool, ledger>>

\* Mutant: the coalescer is flushed without draining the queue into it.
FlushAllUndrained ==
  /\ Goto("drainqueue", "flushall")
  /\ step = "idle"
  /\ batch' = {DigestOf(a) : a \in Items}
  /\ quiet' = [a \in Account |-> IF a \in Items THEN 0 ELSE quiet[a]]
  /\ Take(Items)
  /\ UNCHANGED <<late, ingress, drain, pump2, pool, ledger>>

\* The drain loop finds the queue empty, and FlushAll empties the coalescer.
FlushAll ==
  /\ Goto("drainqueue", "flushall")
  /\ step = "idle"
  /\ queue = <<>>
  /\ batch' = {DigestOf(a) : a \in Items}
  /\ quiet' = [a \in Account |-> IF a \in Items THEN 0 ELSE quiet[a]]
  /\ Take(Items)
  /\ UNCHANGED <<late, ingress, drain, pump2, pool, ledger>>

\* Pool.Stop closes the job channel and waits for the workers.
StopPool ==
  /\ Goto("flushall", "stopping")
  /\ batch = {}
  /\ jobsClosed' = TRUE
  /\ UNCHANGED <<late, ingress, drain, coalescer, pump2, batch, jobs, cancelled, worker,
                 working, ledger>>

DrainTimeout ==
  /\ phase = "stopping"
  /\ ~cancelled
  /\ cancelled' = TRUE
  /\ UNCHANGED <<phase, late, ingress, drain, coalescer, pump2, batch, jobs, jobsClosed,
                 worker, working, ledger>>

Exit ==
  /\ Goto("stopping", "exited")
  /\ \A w \in Worker : worker[w] = "exited"
  /\ UNCHANGED <<late, ingress, drain, coalescer, pump2, batch, pool, ledger>>

-------------------------------------------------------------------------------
\* A tick of the clock ages everything that carries a time stamp.
Tick ==
  /\ phase # "exited"
  /\ queue' = [i \in DOMAIN queue |-> Older(queue[i])]
  /\ held' = {Older(job) : job \in held}
  /\ reading' = IF step = "add" THEN AtMost(reading + 1, Window) ELSE 0
  /\ firstAge' = [a \in Account |-> IF a \in Items THEN AtMost(firstAge[a] + 1, Window) ELSE 0]
  /\ batch' = {Older(d) : d \in batch}
  /\ jobs' = [i \in DOMAIN jobs |-> Older(jobs[i])]
  /\ working' = [w \in Worker |-> {Older(d) : d \in working[w]}]
  /\ quiet' = [a \in Account |-> AtMost(quiet[a] + 1, Window)]
  /\ UNCHANGED <<phase, late, handlers, arrived, pump1, step, pending, lag, pump2, jobsClosed,
                 cancelled, worker, ledger>>

\* The process is gone; the only state the system may rest in.
Terminated == phase = "exited" /\ UNCHANGED vars

Request == \E p \in Ping : Arrive(p) \/ Refuse(p) \/ Enqueue(p)
DrainLoop == Receive \/ Judge \/ Add \/ Broadcast
OfferDigest == \E d \in batch : QueueJob(d)
PoolWorker(w) == WorkerTake(w) \/ ProcessJob(w) \/ WorkerExit(w)
CloseStep == ShutdownReturns \/ PumpsWaited \/ FlushAll \/ StopPool \/ Exit

Next ==
  \/ Request
  \/ DrainLoop
  \/ Pump1Exit
  \/ \E a \in Account : ReadPending(a)
  \/ Flush
  \/ OfferDigest
  \/ Pump2Exit
  \/ \E w \in Worker : PoolWorker(w)
  \/ Sigterm
  \/ CloseStep
  \/ DrainTimeout
  \/ Tick
  \/ Terminated

\* The scheduler runs every goroutine that can run, srv.Shutdown returns by
\* its deadline, a handler finishes, and time passes.  Nothing makes requests
\* arrive, a client poll or a signal come.
Fairness ==
  /\ WF_vars(DrainLoop)
  /\ WF_vars(Pump1Exit)
  /\ WF_vars(Flush)
  /\ WF_vars(OfferDigest)
  /\ WF_vars(Pump2Exit)
  /\ \A w \in Worker : WF_vars(PoolWorker(w))
  /\ WF_vars(CloseStep)
  /\ WF_vars(DrainTimeout)
  /\ WF_vars(Tick)
  /\ \A p \in Ping : WF_vars(Refuse(p) \/ Enqueue(p))

Spec == Init /\ [][Next]_vars
FairSpec == Spec /\ Fairness

-------------------------------------------------------------------------------
(* Properties.                                                             *)

\* Every place a ping can be in, named so that two places differ.
Places(p) ==
  (IF p \in handlers THEN {<<"handler", 0>>} ELSE {})
    \cup {<<"queue", i>> : i \in {j \in DOMAIN queue : queue[j].ping = p}}
    \cup {<<"held", job>> : job \in {j \in held : step \in {"judge", "add"} /\ j.ping = p}}
    \cup {<<"pending", a>> : a \in {b \in Account : p \in pending[b]}}
    \cup {<<"batch", d>> : d \in {e \in batch : p \in e.pings}}
    \cup {<<"jobs", i>> : i \in {j \in DOMAIN jobs : p \in jobs[j].pings}}
    \cup {<<"worker", w>> : w \in {v \in Worker : \E d \in working[v] : p \in d.pings}}

\* A ping the server has taken in and not decided is in exactly one place, and
\* a decided one in none: no interleaving of handlers, pumps, polls, workers
\* and shutdown loses a ping from the books or counts it twice
\* (Coalescer.AddAt, GetAndClearPending, Flush, FlushAll, Pool.QueueJob).
Conservation ==
  \A p \in Ping : Cardinality(Places(p)) = IF p \in arrived /\ fate[p] = "none" THEN 1 ELSE 0

\* Every buffer of the pipeline stays within its configured capacity: the
\* ingress channel, the accumulators and the job channel.
Bounded ==
  /\ Len(queue) <= QueueCap
  /\ Cardinality(Items) <= MaxRecipients
  /\ Len(jobs) <= JobCap

\* Pool.Stop closes jobCh; a QueueJob after that would panic on a closed
\* channel.  Assembly.Close orders the pumps' exit, FlushAll and Stop so that
\* no digest is left to be offered by then.
NoSendOnClosed == jobsClosed => batch = {} /\ pump2 = "exited"

\* While the server serves, two digests to a recipient are a window apart, but
\* for the time the drain loop sat on the clock reading that the second one's
\* accumulator was made with: AddAt reads the clock before it takes the lock, a
\* flush may come between, and firstSeen then lies before it (Coalescer.AddAt,
\* Flush).
DigestSpacing ==
  [][(batch = {} /\ batch' # {} /\ phase \in {"running", "draining", "cancelled"})
       => \A d \in batch' : quiet[d.to] + lag[d.to] >= Window]_vars

\* An orderly shutdown, in which no handler outlived the listener and the pool
\* drained in time, leaves no ping undecided anywhere (main, Assembly.Close).
DrainComplete ==
  (phase = "exited" /\ ~late /\ ~cancelled) => \A p \in arrived : fate[p] # "none"

\* What the pipeline counts as dropped is what it has lost: no ping is counted
\* by two stages, none that is still on its way or was delivered, and none that
\* a full buffer or its age cost the recipient goes uncounted.  A ping alone
\* counts one; a digest counts one for all its pings, so that the pings lost in
\* digests count at least one for each recipient (Queue.Enqueue, AddAt,
\* QueueJob, processJob).  What processJob gives up after a failed query is
\* counted nowhere.
LostAlone == {p \in Ping : fate[p] \in {"queue_full", "stale", "over_capacity"}}
LostInDigest == {p \in Ping : fate[p] \in {"pool_full", "stale_digest"}}

DropsMatchLosses ==
  /\ Cardinality(LostAlone) + Cardinality({To[p] : p \in LostInDigest}) <= dropped
  /\ dropped <= Cardinality(LostAlone) + Cardinality(LostInDigest)

\* What a recipient is told through /v1/pending and digests is what the ledger
\* of PingLedger allows: each ping counted at most once, for its recipient.
Status(p) ==
  CASE fate[p] \in {"read", "pushed"} -> "told"
    [] fate[p] \notin {"read", "pushed", "none", "refused"} -> "lost"
    [] fate[p] = "none" /\ p \in arrived /\ p \notin handlers -> "waiting"
    [] OTHER -> "unsent"

Ledger == INSTANCE PingLedger WITH status <- [p \in Ping |-> Status(p)], told <- told
KeepsLedger == Ledger!Spec

\* Every ping that entered the server is decided, unless the process exits
\* first: no buffer keeps a ping for ever (pumps 1 and 2, Pool.workerLoop).
EventuallyDecided ==
  \A p \in Ping : p \in arrived ~> (fate[p] # "none" \/ phase = "exited")

\* After SIGTERM the process exits: main, the pumps, Close and the workers do
\* not wait for each other in a circle.
ShutdownCompletes == (phase = "draining") ~> (phase = "exited")
===============================================================================
