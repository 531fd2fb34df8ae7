# halpcheers, verified

TLA+ models of the halpcheers server, model-checked with TLC and proved about with TLAPS. Paths below
are relative to `src/`; `server/internal/` is abbreviated `…/`.

halpcheers delivers one kind of message, "somebody halped you", with a count and nothing else. A
`POST /v1/ping` is always answered 202; what decides whether the recipient learns of it are caches in front of
tables, and a chain of goroutines joined by bounded buffers. The correctness of the server is a matter of
hand-overs: between goroutines, between a cache and the table behind it, between a push service and a row that
may have changed meanwhile, between two devices of one person, between a running process and its shutdown.
Those are what is modelled here.

## 1. Inventory

### The path of a ping

| Component | State | Operations | Meets | Hard, and what makes it correct |
|---|---|---|---|---|
| Ping handler `…/http/ping.go` | none of its own | authenticate, proof of work, resolve, guard, enqueue | resolver, guard, queue | The enqueue happens after the answer is decided; a handler may outlive the listener when `srv.Shutdown` gives up. |
| Ingress queue `…/coalesce/queue.go` | a buffered channel | `Enqueue` (never blocks), receive | handlers, pump 1, `Close` | At capacity it must drop and count, not block or grow. |
| Coalescer `…/coalesce/coalesce.go` | one accumulator per recipient: a number, the time of its first ping | `AddAt`, `GetAndClearPending`, `Flush`, `FlushAll` | pump 1, pump 2, `GET /v1/pending`, `Close` | A poll, a flush and an add meet on one accumulator: each ping is counted once; one digest per window. |
| Pumps and shutdown `…/http/assemble.go`, `cmd/halpd/main.go` | context, wait group | pump 1 (queue to coalescer and hub), pump 2 (coalescer to pool), pump 3 (maintenance), `Close` | everything | The order of `Close`: nothing is sent on a closed channel, nothing left in a buffer, nobody waits in a circle. |
| Push pool `…/push/pool.go` | `jobCh`, workers, a context | `QueueJob`, `workerLoop`, `processJob`, `dispatchToSub`, `pruneSubscription`, `PruneAncientSubscriptions`, `Stop` | pump 2, `Close`, push services, the subscriptions table | Stale digests; a refusal that arrives after the device has registered again; days as the granularity. |
| Web Push `…/push/webpush/webpush.go` | a cache of shared secrets by endpoint | encrypt, look-up, fill, remove | workers | A cached secret can outlive the key it was made for. |
| Subscriptions `…/http/subscriptions.go` | the table | upsert, delete | workers, sweeps, account deletion | The upsert keeps id and `last_ok_day`. |
| SSE hub `…/stream/hub.go` | the registered connections, a channel each, a count | `ServeHTTP`, `register`, `unregister`, `Broadcast`, `Close` | pump 1, handlers | Count and ceiling under any order of drops, returns and `Close`; a slow consumer must not miss events silently. |

### What decides whether a ping may pass

| Component | State | Hard, and what makes it correct |
|---|---|---|
| Resolver `…/region/resolver.go`, `region.go`, `…/http/handles.go` | an LRU list and a map in front of handles and aliases; a cache of group memberships | The database is read outside the lock. A fill can overtake an invalidation. List and map have to agree for the bound to hold. |
| Block list `…/http/assemble.go`, `settings.go` | a cache in front of the blocks table | Writers that bypass the cache; expiry in the table and not in the cache. |
| Guard `…/guard/guard.go` | token buckets, pair cascade, suspensions, all in bounded maps | Several critical sections per ping, between which another ping, an eviction or midnight may fall: no token twice, no handle past the day's cap. |
| Groups `…/http/groups.go` | groups, members, invites; the resolver's two caches about them | Sequences of legal calls over cascading deletes: a group keeps one owner, an account one membership; what is remembered of a group follows its tables. |
| Accounts and sessions `…/auth/auth.go`, `…/http/account.go` | session store with two maps, limiter per address, the accounts table | Log-in racing deletion; ids that come back; eviction from full maps: a session is its owner's, the maps agree, attempts are limited. |
| Proof of work `…/auth/pow/pow.go` | the epoch last worked for and the challenges around it | A verification reads the clock, turns the epoch and looks up in three steps: honest work in time is accepted. |
| Settings `…/http/settings.go` | the mode of an account, blocks from reports | The resolver answers by the mode, from a cache nobody tells of a change. |

### Around it

| Component | State | Hard, and what makes it correct |
|---|---|---|
| Store `…/store/store.go` | a single writer goroutine and its queue | A caller whose context ends, and a write that commits all the same; `Close` against writers. |
| Contacts `…/http/contacts.go`, `web/core/src/contacts.ts`, `web/app/src/main.ts` | a versioned blob; each page's list | Optimistic concurrency between devices that do not wait for their own syncs: no put takes away another's, no contact added gets lost. |
| Transport `web/core/src/transport.ts` | stream, reconnect timer, poll timer | Timers and answers that arrive after a state change. |
| Configuration `…/config/config.go` | the current configuration | Reload against readers. |
| Public pages, router, middleware, errors, metrics, logging, core types, the user interfaces of the web app, the terminal client, the bot, the desktop app and the extension, the load harness | little or none that matters here | Not modelled. |

`PROJECT.json` lists every component with its files and status, and the hazards, each at its line.

## 2. Modules

```
the path of a ping                                    what may pass, and what is around it

PingLedger       a ping is told once, or lost         Groups          the tables and their handlers
   ^ implemented by                                      ^ implemented by
Pipeline         queue, pumps, pool, shutdown         GroupGate       with the two caches in front of them
   | hands digests to    | broadcasts through         ResolverCache   the LRU list of the resolver
PushDispatch     StreamHub                            Reachability    the rows behind it
                                                      Guard           block cache, buckets, pair cascade
                                                      ProofOfWork <- Accounts   sign-up, log-in, deletion
                                                      Contacts        pages, syncs, the blob
```

`XProofs` holds the proofs about `X`, `MCX` the constants of its runs that are functions, and the symmetry;
`PushDispatch` needs no instance module, and `MCGroups` instantiates `GroupGate`. Two modules of proofs are about
two components: `GroupGateProofs` about `Groups` first, and `ReachabilityProofs`, at its end, about `ResolverCache`.

### PingLedger: the abstract specification

A ping is `unsent`, `waiting`, `told` or `lost`; what an account has been told is a number. Telling takes any
set of waiting pings of one account and raises the number by their count; losing takes any set of waiting
pings. Nothing leaves `told` or `lost`. `Pipeline` implements it (`KeepsLedger`), with a ping's status read
off its fate and place.

### Pipeline

From `Enqueue` at the end of `SendPing` to the hand-over of a digest to the dispatcher, and from SIGTERM to
the exit of the process.

| Model | Code |
|---|---|
| `handlers`, `Arrive`, `Refuse`, `Enqueue` | requests inside `SendPing`; `Queue.Enqueue` with its `select … default` |
| `pump1`, `step`, `held`, `reading`, `Receive`, `Judge`, `Add`, `Broadcast`, `Pump1Exit` | pump 1 and, with `phase = "drainqueue"`, the drain loop of `Close`: receive, `Coalescer.Add`, `Hub.Broadcast`. `AddAt` reads the clock and judges the job's age (`Judge`) before it takes its lock (`Add`); `reading` is how old that reading is by then |
| `pending`, `firstAge`, `lag`, `AddJob`, `ReadPending`, `Flush`, `FlushAll` | the accumulators. The code keeps a number; the model keeps the set the number counts, so that "counted once" can be said |
| `batch`, `QueueJob` | the digests `Flush` has returned and the loop of `QueueJob` calls has not offered yet |
| `jobs`, `jobsClosed`, `cancelled`, `worker`, `working`, `WorkerTake`, `ProcessJob`, `WorkerExit` | `jobCh`, `Pool.Stop`, the drain deadline, `workerLoop`, `processJob` |
| `phase`, `late`, `Sigterm` … `Exit` | `main` after the signal and `Assembly.Close`, in the code's order; `late` says that `srv.Shutdown` gave up and handlers may run on |
| `fate`, `told`, `live`, `quiet`, `arrived` | history: what became of each ping, what each account was told |
| `dropped` | what `Enqueue`, `AddAt`, `QueueJob` and `processJob` add to `halp_pings_dropped_total`. Not what the guard and the verification of work add for a ping they refuse, nor the one `Hub.Broadcast` adds for each slow stream (`hub.go:182`) while the ping itself goes on its way |

Time is kept as ages in ticks, saturating just above the largest value the code compares them with: time is
unbounded and the state space finite. `lag` is history: how old the reading was that an accumulator's
`firstSeen` was made from. The wait group of `Close` has three pumps; the third touches nothing of a ping's,
ends with the context like the others, and is left out of the wait. Left out: quiet hours, minimum counts and
hourly caps, which the wiring in `assemble.go` never switches on.

### PushDispatch

The subscriptions table as a set of rows with the schema's two uniqueness constraints; `CreateSubscription` as
the upsert that replaces account, key and `created_day` and keeps id and `last_ok_day`; `DeleteSubscription`,
account deletion, the sweep. The day an upsert stamps is read before its transaction (`subscriptions.go:117`),
so that it may be the day before the write; `made`, history, is the day of the write. A worker reads the rows of
its recipient once (`StartJob`), then for each of them: `Dispatch` (the day is captured before the request
leaves; the payload is encrypted with the secret cached for the endpoint), `Answer` (the push service), `Settle`
(what `dispatchToSub` and `pruneSubscription` do with it). Everything the other side does may happen between any
two of these. Push services are external: they accept an endpoint from its registration until the device revokes
it. Keys are numbered by registration, so a key also names the registration.

### StreamHub

Handlers of `GET /v1/stream` at the grain of their `select`: take an event, heartbeat, demote, return; the write
is a state of its own because it can block. `Broadcast` offers its event to one connection after the other under
the read lock, and closes the connections that were full after the lock is gone: three kinds of step, with
handlers running in between. `Close` closes every connection and empties the map; only the hub's tests call it,
the server's shutdown does not. Clients (external) hang up, stop reading, and read again. An event is the number
of its broadcast. `seen` and `owed` are history.

### ResolverCache

`evictList` as a sequence of elements; `live` says that `items` still maps the target to this element. A look-up
is `ResolveHit`, or `ResolveMiss`, `ResolveQuery`, `ResolveFill` with the lock released in between. The handlers
come in the code's three orders: commit and then invalidate (`UpdateHandle`, `SetAlias`, the alias sweep),
invalidate and then delete (`BurnHandle`), and commit without a word to the cache (`ChangeSilently`:
`CreateHandle`, `DeleteAlias`, `UpdateSettings`, `DeleteAccount`). A handler of the first order whose request's
context ends may have committed and does not invalidate (`ChangeGiveUp`, `store.go:141`). A row is reduced to
its version, 0 for a row that does not exist; negative answers are cached like others, as in the code. `races`
counts fills that found their target filled already, `tainted` is the set of targets whose last invalidation was
overlapped by a fill, `missed` those whose last change was never invalidated; all three are history.

The request of `Reachability` and `GroupGate` starts from a cache that is a function; that the list behind
it behaves as one, but for meeting fills, is what `ResolverCache` is about.

### Groups

`groups`, `group_members` and the group handles, with every handler of `GroupsHandler` that changes them. Each
runs one transaction of the single writer, so each is one action; the cascades of the schema are part of it.
A group handle and the member's row are inserted and deleted together and are one function, `row`, from
handles numbered in the order of their insertion, which is the order of rowids. Succession goes by `joined_day`
first, and the day is read before the transaction (`groups.go:175`, `:452`), so that around midnight (`Midnight`)
the two orders differ. The query by which `JoinGroup` asks whether the account is a member already may fail, and
its error is thrown away (`groups.go:472`): the row let in then is not `checked`. Invite codes are `Code`,
any one that opens no group now. Ids of groups come back
(`INTEGER PRIMARY KEY` without `AUTOINCREMENT`). `BurnGroupHandle` is `DELETE /v1/handles/{handle}` for a group
handle, `DeleteAccount` the cascade from accounts. Names, notes and policies are left out, and with them the
handlers that read or set nothing else. `burnt` and a row's `checked` are history.

### GroupGate: Groups with what is remembered of them

The two answers the resolver keeps about groups: a handle with its size floor (`entry`) and a membership
(`known`). A ping is `Resolve`, `ReadRow`, `ReadCount`, `Fill`, `Recall`, `AskMember`, `KeepMember`, one step
for each critical section or query, and any query may fail: a count that fails is kept as "closed"
(`resolver.go:234`), the others end the request. Every handler of `Groups` is here a commit that leaves an
`InvalidateGroup` to do (`todo`), or, if the context of its request has ended by then, one that forgets
nothing. Handlers that invalidate nothing at all (`Create`, `Burn`, `Erase`) and everything that overtakes an
invalidation put the group into the history variable `astray`, from which an undisturbed `InvalidateGroup`
takes it again. That the handlers with their caches implement the handlers without is a theorem
(`GateImplementsGroups`), so that whatever holds of `Groups` holds here.

### Reachability

The rows an answer about a handle or an alias depends on (`owner`, `paused`, `alias`, the mode `open`), the
handlers that change them, in the code's order of commit and invalidation, and the resolver's cache. `Answer`
is what the two queries of `ResolveDetailed` return. A handler that commits and invalidates puts its target into
`pending`, from which `Invalidate` takes it, or `GiveUp`, when the context of the request has ended. What a handler
leaves unsaid is written out in its own action, `Leaves(S)`: `CreateHandle` its handle, `UpdateHandle` and
`BurnCommit` the aliases that point at the handle, `DeleteAlias`, `UpdateSettings` and `DeleteAccount` all they
change, `GiveUp` its target. Those go into `left`; targets that were answered from old rows past their invalidation
go into `raced`. So a handler that stops invalidating what it invalidates today violates `StaleOnlyBehind`: that is
its mutant. `SweepInactiveAliases` is modelled though nothing in the server calls it yet.

### Guard

`guard.Service.Allow`, one step for each critical section: the block cache (`QueryBlocked`, `KeepBlocked`), the
hourly, the daily and the target's bucket (`Look`, `Make`, `Take`: `BoundedMap.LoadOrStore` under its two locks,
then the bucket under its own), `HasSeenToday`, `AllowDistinct`, `AllowPair`. A bucket that has been evicted may
still be held by a request; buckets of a key are therefore numbered. A report is `ReportAbuse`, which asks the
sketch, and `Block`, the write; it and `SweepExpiredBlocks` change the table behind the cache. Bloom filters are
sets beside a constant set of false positives; `rotateIfNeeded` with a day read before or after midnight is a
choice between the two. Any sender let through may be the sketch's top sender.

### ProofOfWork and Accounts

`pow.Engine` keeps the challenges of the epoch last worked for. A verification is `ReadClock`, `EnsureEpoch`,
`GetChallenge`; other users of the engine turn the epoch in between (`OtherEnsures`), also back to the one
before. A challenge is named by its epoch. `Accounts` extends it: a sign-up needs an accepted verification;
log-in is `StartLogin` (limiter), `ReadAccount`, `CreateSession`; deletion is `AskDeletion` (the look-up of its
session), `DropSessions` and `EraseRow`, and several requests may delete one account at once. Account ids come
back. The zero challenge, which the engine accepts and the client uses, is one of the solutions a verification
may bring. `holder` says whose an id is, and a session records whom it was made for: that they agree is
`SpeaksForItsOwner`. Full maps evict what the code's map iteration may meet.

### Contacts

Pages with their lists, and the syncs they start after each edit without waiting for the one before:
`GetContacts` with the merge, `UpdateContacts` with `If-Match`, again after a 412 up to `MaxRetries`, then
`Synced`, which replaces the page's list (`main.ts:303`). Any request may fail for the page, and a put given up
may be done, be done later (`late`, `Store.Write` after its context has ended) or never. The copy a sync works
on shares the page's entry objects until its first merge, which `shared` says. `DeleteContacts` starts the
versions again. An entry is its day and whether it is a tombstone; nicknames, the seal and padding are left out.
A contact may be removed and added again: its entry then keeps its day, which is also its tombstone's. `added`
(the day of each contact last added on a page, until its sync fails or the blob is deleted) and `buried` (the
day of the latest tombstone made) are history.

## 3. Runs

| Run | Checks | Shows | Bounds |
|---|---|---|---|
| `pipeline_safety` | `TypeOK`, `Conservation`, `Bounded`, `NoSendOnClosed`, `DropsMatchLosses`, `DrainComplete`, `DigestSpacing`, `KeepsLedger` | Every undecided ping is in exactly one place; no buffer overflows; no send on the closed `jobCh`; what the pipeline counts as dropped is what it has lost, neither more nor less, but that a digest counts once; an orderly shutdown leaves nothing undecided; two digests are a window apart, less the age of the clock reading; the ledger is implemented | 3 pings to 2 recipients, 2 workers, every buffer of size 1, age 1, window 2 |
| `pipeline_live` | `EventuallyDecided`, `ShutdownCompletes` | Every ping is decided or the process exits; the shutdown terminates | 2 pings to 2 recipients, 2 workers |
| `dispatch_prune` | `TypeOK`, `PrunedWasRefused` | A send prunes only refused registrations, or those whose making took in the day of the send | 1 endpoint, 2 workers, 2 registrations, 3 days |
| `dispatch_rereg` | `ReRegistrationSurvives` | **violated**: finding 1 | 1 worker, 2 days |
| `hub` | `TypeOK`, `CountMatches`, `Bounded`, `NoSilentGap`, `SlowLeaves`, `CloseEndsStreams` | Exact count, bounded streams and buffers, no silent gap; dropped streams leave and `Close` ends them all | 2 requests for 1 slot, buffers of 1, 2 broadcasts |
| `resolver_safety` | `StaleOnlyIfMissed`, `BoundedByRaces` | When the cache may be stale, and by how much it may outgrow its capacity | 3 targets, 1 of which changes, room for 2, 2 requests, 2 versions, 2 meetings of two fills |
| `groups_gate` | `OwnersAgree`, `OneMembership`, `LedUnlessBurnt`, `Succession`, `GateTypeOK`, `MembersFresh`, `TargetsFresh` | One owner, known to both tables, and one membership, but for a failed check, through joins, departures, transfers, deletions; succession by rank, day and rowid; the caches follow the tables but for named races | 3 accounts, one of which pings one handle, 1 group id, 3 handles, 2 codes, 1 midnight, floor 2, 1 request |
| `reachability` | `TypeOK`, `StaleOnlyBehind` | A cached answer is what the rows say, but for an invalidation still due, a look-up overtaken by one, and what the last handler to change it leaves | 1 account, 2 handles, 1 alias, 1 request, 1 handler under way |
| `guard_allow` | `TypeOK`, `BlocksKnown`, `HourlyLimit`, `SprayCapped` | No token is spent twice, no group handle reached past the day's cap, a block nobody had asked about holds at once | 1 sender, 2 group handles, 2 requests, 1 midnight, 1 refill, 1 eviction |
| `guard_noise` | `NoiseStops` | **violated**: finding 2 | 1 sender, 1 handle, 1 request |
| `accounts` | `TypeOK`, `MapsAgree`, `SpeaksForItsOwner`, `AttemptsLimited`, `HonestAccepted` | The session maps agree, a session is its owner's, attempts are limited, honest work is accepted, each with its exceptions | 2 people, 2 log-ins, 2 deletions at once, 1 id given again, 2 sessions of 3 made, 2 addresses in a limiter of 1, 1 verification, 2 epochs |
| `contacts` | `NothingOverwritten`, `AddedStays` | A put takes nothing away; a contact added, or added again, is on its way to the blob or in it, and a tombstone only by a removal as late as itself; each with its exceptions | 2 pages, 2 syncs, 1 contact, 3 edits (add, remove, add again), 2 versions, 1 retry, 1 late put, 1 deletion |

Why the bounds are enough to be interesting: buffers, maps and limiters of size one or two are full and empty
within a few steps, so that every drop, eviction and wait occurs; three pings to two recipients give an
accumulator with two pings and one that finds no room; three days with a retention of one let a row age, be
renewed and be swept; two requests, log-ins or syncs suffice for one to overtake another; a single id or group
id is given again after every deletion; three accounts and three handles give a group an owner, an admin and a
member, someone who comes back after leaving, or one account twice after a failed check; two deletions, two
people and one id give the second deletion somebody else's row. Every constant that bounds something the code
does not bound carries the word "bound" where it is declared.

**Symmetry.** `resolver_safety` permutes the targets that do not change and requests; `groups_gate` the accounts
that do not ping and the codes; `guard_allow` requests; `reachability` the handles; `accounts` log-ins,
deletions, addresses and people (ids, tokens and epochs are numbers); `contacts` pages and syncs. No definition
tells two of them apart: each `CHOOSE` picks a value that is unique (a place in a list, the least handle). Only
safety is checked with it, and the action properties under it (`Succession`, `NothingOverwritten`) are
symmetric.

`CHECK_DEADLOCK FALSE` stands wherever bounds run out or the system may rest: all but the two runs of
`Pipeline`, whose only resting state is the exited process, which `Terminated` names.

### Fairness

`Pipeline`: weak fairness of the drain loop, the pumps, each worker, the steps of `Close`, the drain deadline,
the clock and of the end of each handler. Each is a goroutine the Go scheduler runs, a timer of the runtime,
or a `Shutdown` with a deadline. Nothing makes requests arrive, a client poll, or a signal come.

`StreamHub`: weak fairness of a broadcast under way and of writes to a client that reads (or has gone);
strong fairness of `Return(c)` and `Unregister(c)`. `Return` is a case of a `select` which Go chooses among
the ready ones at random, so one that is ready again and again is chosen in the end; `Unregister` needs the
write lock, and Go's `RWMutex` lets a waiting writer in before later readers. No fairness for clients: a
client that stops reading need not resume, which is why `SlowLeaves` and `CloseEndsStreams` except it. Its
handler sits in a write without a deadline; the server sets none.

The other modules are about safety and assume no fairness: nothing in them is promised to happen. A handler
that has committed may be followed by nothing for as long as one likes, and the exceptions of their properties
say for how long an answer may be stale, not that it will be forgotten.

## 4. Proofs

For every value of the constants: any number of pings, accounts, workers, requests, endpoints, days, handles,
groups, sessions, any capacities and limits. The only assumptions are the named `ASSUME`s of the modules: that
capacities and bounds are numbers, positive where the code needs them so, and that stand-ins such as `Nobody`
are not among what they stand beside. TLC evaluates each of them in a passing run.

| Module | Theorem | Says |
|---|---|---|
| `PipelineProofs` | `TypeCorrect`, `BuffersBounded`, `NeverSendsOnClosed` | `Spec => []TypeOK`, `[]Bounded`, `[]NoSendOnClosed` |
| | `PingsConserved`, `LossesCounted`, `OrderlyShutdownDrains` | `Spec => []Conservation`, `[]DropsMatchLosses`, `[]DrainComplete` |
| | `DigestsSpaced` | `Spec => DigestSpacing` |
| | `PipelineKeepsLedger` | `Spec => KeepsLedger`, which is the `Spec` of `PingLedger` |
| | `NumbersAddUp`, `DecidedForGood` | what an account has been told is the number of its pings delivered; told and lost are final |
| `StreamHubProofs` | `HubTypeCorrect`, `CountMatchesHolds`, `HubBounded`, `NothingMissed` | `Spec => []TypeOK`, `[]CountMatches`, `[]Bounded`, `[]NoSilentGap` |
| `PushDispatchProofs` | `DispatchTypeCorrect`, `PruningSound` | `Spec => []TypeOK`, `[]PrunedWasRefused` |
| `GroupGateProofs` | `GroupsTypeCorrect`, `OwnersAlwaysAgree`, `MembersOnce`, `GroupsAreLed`, `LimitsHold` | `Spec => []TypeOK`, `[]OwnersAgree`, `[]OneMembership`, `[]LedUnlessBurnt`, `[]WithinLimits` |
| | `SuccessionIsByRule` | `Spec => Succession` |
| | `GateTypeCorrect`, `MembershipIsFresh`, `FloorIsFresh` | `GateSpec => []GateTypeOK`, `[]MembersFresh`, `[]TargetsFresh` |
| | `GateImplementsGroups` | `GateSpec => Spec` of `Groups` |
| | `GateKeepsTheTables` | what is proved of `Groups`, of `GateSpec` |
| `ReachabilityProofs` | `ReachabilityTypeCorrect`, `OnlyStaleBehind` | `Spec => []TypeOK`, `[]StaleOnlyBehind` |
| | `StaleOnlyIfMissedHolds`, `BoundedByRacesHolds` | of `ResolverCache`: `CacheSpec => []StaleOnlyIfMissed`, `[](CacheTypeOK /\ BoundedByRaces)` |
| `GuardProofs` | `GuardTypeCorrect`, `BlocksAreKnown`, `HourlyLimitHolds`, `SprayIsCapped` | `Spec => []TypeOK`, `[]BlocksKnown`, `[]HourlyLimit`, `[]SprayCapped` |
| `AccountsProofs` | `AccountsTypeCorrect`, `MapsAlwaysAgree`, `SessionsSpeakForOwners`, `AttemptsAreLimited` | `Spec => []TypeOK`, `[]MapsAgree`, `[]SpeaksForItsOwner`, `[]AttemptsLimited` |
| | `HonestAreAccepted` | `Spec => []HonestAccepted` |
| `ContactsProofs` | `NothingIsOverwritten`, `AddedStaysHolds` | `Spec => NothingOverwritten`, `[]AddedStays` |

**Pipeline.** `TypeOK` is inductive with lemmas about ageing and taking. `Bounded` is inductive over it: the
number of accumulators grows only in `AddJob`, under the code's test. `NoSendOnClosed` is not inductive: that
no digest remains when `jobCh` is closed rests on the pumps having exited before `Close` goes on, which
`CloseOrder` records for each phase.

`Conservation` counts places, and no count is inductive. `Custody` says instead, place by place, that a ping is
once in each buffer (`Once`), in one buffer at most (`Exclusive`), and in one at all exactly while it is undecided
(`Accounted`). It needs that the drain loop and each worker hold one job (`OneJobEach`) and that a digest is of
pings of its recipient and not empty (`AllAddressed`). Each handler, pump, poll and worker has a lemma; that
`Custody` gives the count is `CustodyCounts`. From `Custody` also follow:

- `DropsMatchLosses`: a counted decision is about undecided pings, so that the counter grows by one where the set
  of pings lost alone grows by one, or where a digest's pings, which are of one recipient, join those lost in digests:
  the recipients of those grow by at most one, and the pings by at least one.
- `DrainComplete`, with `Orderly`: what each phase of the shutdown has emptied for good (no handlers once the
  context is done, unless the listener gave up; no queue and no accumulators from `flushall` on), and that a worker
  leaves only when the deadline has passed or the closed channel is empty.
- `KeepsLedger`: every decision is of a set of waiting pings of one account, hence one step of `PingLedger`, and any
  other step none (`LedgerSteps`). `NumbersAddUp` and `DecidedForGood` are then shown of the ledger's steps alone.

`DigestSpacing` rests on `Spaced`: no accumulator has been growing for longer than its owner's last digest is ago and
the clock reading it was made with was old (`firstAge <= quiet + lag`).

**StreamHub.** `CountMatches` alone says nothing about a closed hub, and an unregistration after `Close` may
or may not lower the count, depending on who else has registered since. `CountInv` adds what holds then: the
count is never below the number of streams. From it both the exact count of an open hub and the ceiling of a
closed one follow. `NoSilentGap` needs that a request which has not registered has neither been sent nor owed
anything (`Fresh`), and that a broadcast owes offers only while it holds the read lock (`Shape`); the rest is
three lemmas about concatenation, for taking, offering and starting. The number of requests is not assumed
finite; that the number of streams is follows, and with it that `active` is a number at all: `TypeOK` needs
`CountInv`, for an unregistration lowers it.

**PushDispatch.** When a refusal comes, every row of the endpoint is known to be refused; what appears between
the answer and the delete is written today or later (`Excused`). As the delete takes only rows not newer than
the send, what it takes was refused, or was stamped no later than the send and written no earlier. That the
table keeps its two uniqueness constraints although ids come back (`TypeOK`) needs that the id of a new row, the
largest and one, exists: `Numbered` bounds ids by the registrations made, so that the rows are finitely many,
and a set of numbers has a least upper bound (`LeastNatural`).

**Groups.** `Agreed` joins `TypeOK`, `OwnersAgree` and `OneMembership`: the agreement does not rest on single
memberships, since a transfer demotes every row the caller has in the group and a departing owner is succeeded by
another account; both follow from which rows a handler takes away, changes and adds (`FewerRows`). `Led` adds that
a group without an owner's row is `burnt`. Succession needs that the least of a set of rows by day and rowid exists
(`FirstIsLeast`, from the well-foundedness of finite subsets) and that the successor is another account.

**GroupGate.** `GateInv` is `TypeOK`, `Sound` (the caches are typed, a request has one sender and one target,
and knows its group once it has found one) and `Fresh`: an answer that is remembered or about to be is true,
or its group is excused. Whatever a handler
does, seen from the caches it is `TouchOnly(G)`: no member of another group comes or goes, and a handle that has
gone does not come back. One lemma per handler says that, one lemma (`HandlerKeeps`) that a step that touches
only excused groups keeps the invariant, and so the handlers need not be looked at twice.

**Reachability.** `Honest` joins `TypeOK` with: a request has one target (`OneTarget`), a cached answer differs
from the rows only where it is covered by one of the three exceptions (`Fresh`), and so does an answer that a request
carries and has not yet filled in (`FreshRequests`), without which the first is not inductive.

**ResolverCache.** The list is a sequence in which an element stays behind, dead, when two fills meet. Lemmas
say what `ResolveHit`, `Without`, `Evicted` and `Insert` do to the targets held (`Held`), to what live elements
say (`Says`) and to the number of dead ones: moving to the front and taking out add nothing, an insertion adds
one dead element only if its target was held. The invariant `Cached` is then about sets: `ListTyped` (no target
is live twice), `Truthful` (what is said, or about to be filled in, is what the row says, or its target is
tainted, missed or about to be invalidated) and `FewDead` (dead elements are no more than races, and the list no
longer than capacity and races). Trying to prove the types at `MaxVersion = 0` failed, rightly: rows begin at
version 1, and the assumption now says that there is one.

**Guard.** `GuardTyped` adds to `TypeOK` that a request is about one pair (`Single`), and that what has been evicted
and refilled in total is finite, as it has to be for the bounds of the model to bind. `BlocksKnown` needs `KeepKnows`:
an answer on its way to the cache is right, or the row has changed since. `HourlyLimit` is bookkeeping: `Booked` says
that the tokens a sender has spent are the ones missing from the buckets ever made for it, and what time has given
back (`Balanced`), that a bucket not yet made is full (`UnmadeFull`), and that every bucket in the map or in a
request's hands has been made (`Made`). At most a bucket's capacity is missing from each, and there is one more than
evictions. `SprayCapped` needs the request that has been charged for a group handle and has not filled its slot yet:
`Charges` says that handles reached or about to be are no more than the slots of the sender's day.

**Accounts.** `IInv` has four parts that do not disturb one another: `PowInv` (a verification at its look-up that
nobody has met finds the engine where it has turned it itself), `SessInv` (the maps agree, no
session outruns the tokens made, and the sessions of an id whose row some deletion is about to erase are all stray,
`Forsaken`, whoever has the id by then), `Roomy` (the session store) and `LimInv` (the
limiter, with the count of a running bucket beside the attempts).

**Contacts.** That nothing is overwritten rests on `Informed`: a put under the version the blob has, of the same
life of the blob, has merged what the blob holds. `AddedStays` needs `Kept`, which adds that a sync's list is
the page's own while it is shared (`Alias`), that no list and no blob has a tombstone later than the latest made
(`Tombs`), that what a sync has put and not yet told its page is in the blob (`Settled`), and the day half of
the property for every sync of the page (`Lasting`).

**Only model-checked**: the four liveness properties `EventuallyDecided`, `ShutdownCompletes`, `SlowLeaves` and
`CloseEndsStreams`, which rest on fairness and so on `ENABLED`, beyond the prover. Every invariant and every other
action or temporal property of a passing run is the property of a theorem. Induction over data is out of reach too,
in the form of the library's theorems with an operator as parameter; where a proof needs it, it takes the least
element of a set instead, from the well-foundedness of `<` or of finite subsets (`LeastNatural`, `FirstIsLeast`).

## 5. Where code and documents part

Two runs show it:

1. `dispatch_rereg`, `…/push/pool.go:388`: `created_day <= ?` deletes a registration renewed on the day of the
   send (`docs/DELIVERY.md:116`).
2. `guard_noise`, `…/http/settings.go:252`: `ReportAbuse` writes the blocks table, and the cache goes on
   answering "not blocked" for the sender that has just been let through (`docs/ABUSE.md:139`).

The models contain further places, which need no run of their own since one step or one comparison shows them:

- `…/http/assemble.go:319`: pump 1 broadcasts a job that `Coalescer.Add` has just dropped as stale
  (`docs/ARCHITECTURE.md:95`). `…/http/assemble.go:418`: `Close` offers all digests at once to a channel that
  may not have room for them (`docs/ARCHITECTURE.md:98`). `…/push/pool.go:294`: a digest whose query for
  subscriptions fails is given up (`abandoned`) and counted nowhere (`docs/OPEN-QUESTIONS.md:480`: drops are counted).
  `…/stream/hub.go:182`: a slow stream counts as a ping dropped for a full queue, though the ping is in the
  coalescer; the counter's sum over all reasons is therefore no number of pings.
- `…/push/webpush/webpush.go:180`: the secret cached for an endpoint survives a registration with a new key
  (`docs/OPEN-QUESTIONS.md:492`). `…/push/pool.go:416`: a subscription that never had a delivery is never
  swept (`docs/DELIVERY.md:121`).
- `…/region/region.go:145`: `BurnHandle` invalidates before it deletes, and a look-up in between caches the
  burned handle (`docs/IDENTITY.md:71`). Pausing a handle leaves the answers about its aliases, and deleting an
  alias, changing the mode and deleting an account invalidate nothing (`docs/ABUSE.md:124` calls pausing
  instant).
- `…/auth/auth.go:796`: the comment has the deletion invalidate the sessions; a log-in that has read the row
  before makes one afterwards. Two deletions of one account at once: the second erases the row of its id after
  the id has been given again, and with it somebody else's account, whose session lives on.
- `…/http/groups.go:600`: an owner who leaves is succeeded by an admin and else by any member.
  `docs/GROUPS.md:52-53` has a group without an admin archived after 30 days, and its table lets an owner not leave;
  `docs/OPEN-QUESTIONS.md:622` has the longest-standing member succeed whatever the role, and has an owner's deleted
  account hand the group over: `store.go:154` deletes the account, and the schema the group with all its members.
  The documents contradict each other; `Succession` states the code's order.
- `…/http/groups.go:472`: the error of the query for a membership is thrown away, so that a failing one lets a
  member in twice (`OneMembership`). `…/http/assemble.go:97` and `…/guard/guard.go:526`: a block query that fails
  lets its sender through once; it is not remembered.
- `…/guard/guard.go:127`: to `AllowDistinct` a false positive of the filter is a group handle already reached, so
  that it grants a further one, where the comment at `:152` and `docs/ABUSE.md:109-112` cap the number. `SprayCapped`
  excepts it, and `FalsePositive` is empty in the run.
- `…/auth/pow/pow.go:281`, `:311`: the zero challenge is accepted beside that of the epoch;
  `web/core/src/client.ts:113` works for it, and no route hands out another. Such work is bound to its epoch by
  name only.
- `…/auth/auth.go:492`: a log-in whose address is not known is not limited. The model has addresses only.
- `web/app/src/main.ts:303`: a contact whose own sync has failed is taken off the page by a sync begun before
  it was added. `web/app/src/main.ts:310`, `web/core/src/contacts.ts:135`: a contact removed and added again keeps
  its day, and so loses to its own tombstone in the blob, after a sync that succeeded. `contacts.ts:128-137`: the
  nickname of a contact is that of the entry merged later, when the days are the same. `docs/DISCOVERY.md:107`
  has nothing lost in a merge. The second is why `AddedStays` allows a tombstone where a removal of that day
  was made: it says that nothing else makes one, not that the contact comes back.

Others are stated as the exceptions of properties that hold, which is the most precise thing to say of them. An
exception is a piece of history the model keeps, set by the very action that is the cause: fills that overtake an
invalidation and changes that are never invalidated, by a handler that has no call for it or by one whose
`Store.Write` has returned with its context (`tainted`, `missed` in `StaleOnlyIfMissed`; `raced`, `left` in
`StaleOnlyBehind`); meeting fills (`BoundedByRaces`); a client that stops reading (`SlowLeaves`); a clock reading
grown old before its lock (`DigestSpacing`); a burned owner's handle, which leaves a group without an owner
(`LedUnlessBurnt`); a commit whose request has ended, and a failed count kept as an answer for everybody (`astray`
in `MembersFresh`, `TargetsFresh`); blocks written or swept under a cached answer (`behind` in `BlocksKnown`);
evicted buckets (`HourlyLimit`, `AttemptsLimited`); a count taken before midnight (`SprayCapped`); sessions made
under a deletion (`stray` in `SpeaksForItsOwner`); an epoch turned by another verification (`HonestAccepted`);
versions that start again after the blob was deleted (`NothingOverwritten`). What such a property shows is that
there is no other cause; that the named one does no harm it does not show.

## 6. Not modelled, and why

- Cryptography, hashing, parsing, rendering, logging, metrics, core types: no state. Public pages, router and
  middleware: none that outlives a request.
- The Bloom filters' and the sketch's error rates: probabilistic. A false positive is a possibility of the
  model. The adaptive difficulty: an average of floating point numbers over time. `SuspendAccount`, the guard's
  own `ReportAbuse` and `RecordBlock`: nothing calls them.
- Sign-ups per address: the limiter is the one of log-ins, which is modelled. `ExportAccount` only reads.
- The store's writer goroutine with its queue: its effect on a caller is modelled where it matters (a write that
  is late, that fails for its caller and stands, or is never done); `Close` against writers is not. Migrations and
  start-up are straight-line code. `Hub.Close` is modelled though only tests call it: `main` ends the streams by
  ending the process.
- The clients' transport (`transport.ts`), the reload of the configuration, the service worker, the bot: see the
  plan. The terminal client, the desktop app, the extension and the load harness talk to the public API; what the
  server may see of them are the arbitrary requests of the models.
- Composition: the ping handler's steps are modelled in `GroupGate`, `Reachability`, `Guard` and `Pipeline`, and
  not all at once; they share nothing but the order in which a request goes through them.

## 7. Plan

Done: everything above. What is left, in this order:

1. **Transport**: stream, reconnect timer, demotion and polling against `close()`.
2. **Store**: the writer goroutine, its queue and `Close`, as the specification `Contacts` and `GroupGate` assume.
3. **Configuration** reload against readers.
4. Proofs: that `ResolverCache` implements the cache that `Reachability` and `GroupGate` start from, but for
   fills that meet; that pages which have merged the same blob agree, but for nicknames (`Contacts`); the new
   modules' invariants.
