----------------------------- MODULE PushDispatch -----------------------------
(***************************************************************************)
(* Push subscriptions and what the workers of push.Pool do with them: the  *)
(* table of subscriptions, its registration and removal over HTTP, the     *)
(* sends of the workers and the answers of the push services, the pruning  *)
(* of refused and of ancient subscriptions, and the cache of shared        *)
(* secrets.  Pipeline models how a digest reaches a worker.                *)
(*                                                                         *)
(* Days are the granularity of everything the code stores (core.Day).      *)
(* Every registration by a device comes with a key of its own; keys are    *)
(* numbered in the order of registration, so that a key also names the     *)
(* registration.                                                           *)
(***************************************************************************)
EXTENDS Naturals, FiniteSets

CONSTANTS Account, Endpoint, Worker,
          PruneAfter,   \* subscriptions.prune_after_days
          MaxDay,       \* bound: the last day of a behaviour
          MaxReg        \* bound: the number of registrations

ASSUME DispatchAssumption ==
  /\ PruneAfter \in Nat \ {0}
  /\ MaxDay \in Nat
  /\ MaxReg \in Nat

VARIABLES
  day,       \* core.Today()
  subs,      \* the subscriptions table, a set of rows
  regs,      \* the number of registrations so far
  cache,     \* KeypairCache: the key each endpoint's secret was derived from
  accepts,   \* endpoints the push services accept (external)
  job,       \* what each worker is doing
  refused,   \* keys whose registration a push service has refused (history)
  pruned     \* registrations removed because of a refusal (history)

vars == <<day, subs, regs, cache, accepts, job, refused, pruned>>

Key == 1 .. MaxReg
Day == 0 .. MaxDay

\* ok is last_ok_day: the empty set is SQL's NULL.  made is the day the row was
\* written, which the table does not store (history).
Row == [id : Nat \ {0}, acct : Account, endpoint : Endpoint, key : Key,
        created : Day, made : Day, ok : SUBSET Day]

\* A worker: the digest it carries ("one" ping needs no payload, "many" do),
\* the rows it has read and not yet served, and the send it is in.
\* sent is sendStartDay, used the key the payload was encrypted for.
Job == [at : {"idle", "next", "sending", "ok", "gone", "failed"}, kind : {"one", "many"},
        rows : SUBSET Row, row : SUBSET Row, sent : Day, used : SUBSET Key]

Idle == [at |-> "idle", kind |-> "one", rows |-> {}, row |-> {}, sent |-> 0, used |-> {}]

\* The type invariant, with the two uniqueness constraints of the schema.
TypeOK ==
  /\ day \in Day
  /\ subs \in SUBSET Row
  /\ \A r, s \in subs : r.endpoint = s.endpoint \/ r.id = s.id => r = s
  /\ regs \in 0 .. MaxReg
  /\ cache \in [Endpoint -> SUBSET Key]
  /\ accepts \in SUBSET Endpoint
  /\ job \in [Worker -> Job]
  /\ refused \in SUBSET Key
  /\ pruned \in SUBSET [key : Key, created : Day, made : Day, sent : Day]

Init ==
  /\ day = 0
  /\ subs = {}
  /\ regs = 0
  /\ cache = [e \in Endpoint |-> {}]
  /\ accepts = {}
  /\ job = [w \in Worker |-> Idle]
  /\ refused = {}
  /\ pruned = {}

-------------------------------------------------------------------------------
(* The table.                                                              *)

\* id INTEGER PRIMARY KEY without AUTOINCREMENT: one more than the largest id
\* in the table, so that the id of a deleted row may come back.
FreshId == CHOOSE n \in 1 .. Cardinality(subs) + 1 + MaxReg :
             /\ \A r \in subs : r.id < n
             /\ n = 1 \/ \E r \in subs : r.id = n - 1

\* Mutant: a plain INSERT, whatever the table holds.
Inserted(a, e, d) ==
  subs \cup {[id |-> FreshId, acct |-> a, endpoint |-> e, key |-> regs + 1,
              created |-> d, made |-> day, ok |-> {}]}

\* INSERT ... ON CONFLICT(endpoint) DO UPDATE.  The update replaces account,
\* key and created_day; id and last_ok_day stay.
Upserted(a, e, d) ==
  LET old == {r \in subs : r.endpoint = e}
      new == [id |-> FreshId, acct |-> a, endpoint |-> e, key |-> regs + 1,
              created |-> d, made |-> day, ok |-> {}]
  IN  IF old = {} THEN subs \cup {new}
      ELSE (subs \ old) \cup {[r EXCEPT !.acct = a, !.key = regs + 1, !.created = d, !.made = day] : r \in old}

\* CreateSubscription.  The device has just been given the endpoint, so the
\* push service accepts it.  The handler has read the day before Store.Write:
\* midnight may have passed since.
CreateSubscription(a, e) ==
  /\ regs < MaxReg
  /\ regs' = regs + 1
  /\ accepts' = accepts \cup {e}
  /\ \E d \in Day : d <= day /\ d + 1 >= day /\ subs' = Upserted(a, e, d)
  /\ UNCHANGED <<day, cache, job, refused, pruned>>

\* DeleteSubscription: by id, and only for the account that owns the row.
DeleteSubscription(a, id) ==
  /\ \E r \in subs : r.id = id /\ r.acct = a
  /\ subs' = {r \in subs : ~(r.id = id /\ r.acct = a)}
  /\ UNCHANGED <<day, regs, cache, accepts, job, refused, pruned>>

\* ON DELETE CASCADE from accounts.
DeleteAccount(a) ==
  /\ \E r \in subs : r.acct = a
  /\ subs' = {r \in subs : r.acct # a}
  /\ UNCHANGED <<day, regs, cache, accepts, job, refused, pruned>>

\* PruneAncientSubscriptions, from the maintenance ticker.
PruneAncientSubscriptions ==
  /\ subs' = {r \in subs : ~ \E d \in r.ok : d + PruneAfter < day}
  /\ subs' # subs
  /\ UNCHANGED <<day, regs, cache, accepts, job, refused, pruned>>

-------------------------------------------------------------------------------
(* The push services, outside the program.                                 *)

\* A device drops its subscription, or its permission is revoked.
Revoke(e) ==
  /\ e \in accepts
  /\ accepts' = accepts \ {e}
  /\ UNCHANGED <<day, subs, regs, cache, job, refused, pruned>>

-------------------------------------------------------------------------------
(* The workers.                                                            *)

\* processJob reads the subscriptions of the recipient once, then serves them
\* one after the other.
StartJob(w, a, kind) ==
  /\ job[w].at = "idle"
  /\ \E r \in subs : r.acct = a
  /\ job' = [job EXCEPT ![w] = [Idle EXCEPT !.at = "next", !.kind = kind,
                                            !.rows = {r \in subs : r.acct = a}]]
  /\ UNCHANGED <<day, subs, regs, cache, accepts, refused, pruned>>

\* dispatchToSub up to the request: the day is captured before the request
\* leaves; a payload is encrypted with the secret cached for the endpoint, or
\* with a new one for the row's key, which is then cached.
Dispatch(w, r) ==
  /\ job[w].at = "next"
  /\ r \in job[w].rows
  /\ LET key == IF cache[r.endpoint] # {} THEN cache[r.endpoint] ELSE {r.key}
         used == IF job[w].kind = "many" THEN key ELSE {}
     IN  /\ job' = [job EXCEPT ![w] = [@ EXCEPT !.at = "sending", !.rows = job[w].rows \ {r},
                                                !.row = {r}, !.sent = day, !.used = used]]
         /\ cache' = IF job[w].kind = "many" THEN [cache EXCEPT ![r.endpoint] = key] ELSE cache
  /\ UNCHANGED <<day, subs, regs, accepts, refused, pruned>>

\* The push service answers: 2xx or a refusal (404, 410), or anything else
\* (400, 429, 5xx, a timeout, a failed connection).
Answer(w) ==
  /\ job[w].at = "sending"
  /\ \E r \in job[w].row :
       \/ /\ r.endpoint \in accepts
          /\ job' = [job EXCEPT ![w].at = "ok"]
          /\ UNCHANGED refused
       \/ /\ r.endpoint \notin accepts
          /\ job' = [job EXCEPT ![w].at = "gone"]
          /\ refused' = refused \cup {s.key : s \in {t \in subs : t.endpoint = r.endpoint}}
       \/ /\ job' = [job EXCEPT ![w].at = "failed"]
          /\ UNCHANGED refused
  /\ UNCHANGED <<day, subs, regs, cache, accepts, pruned>>

\* IsAuthoritativeRejection.
IsAuthoritativeRejection(at) == at = "gone"

\* Mutant: the day is read when the answer has come, not before the send.
SendStartDayLate(w) == day

\* sendStartDay, captured by Dispatch.
SendStartDay(w) == job[w].sent

\* dispatchToSub after the answer.  A refusal drops the cached secret and
\* deletes the row by endpoint unless it is newer than the send; a success
\* stamps the row by id.  The write may time out, and is not retried.
Settle(w) ==
  /\ job[w].at \in {"ok", "gone", "failed"}
  /\ job' = [job EXCEPT ![w] = IF job[w].rows = {} THEN Idle
                               ELSE [@ EXCEPT !.at = "next", !.row = {}, !.used = {}]]
  /\ \E r \in job[w].row :
       LET doomed == {s \in subs : s.endpoint = r.endpoint /\ s.created <= SendStartDay(w)}
       IN  \/ /\ IsAuthoritativeRejection(job[w].at)
              /\ cache' = [cache EXCEPT ![r.endpoint] = {}]
              /\ \/ /\ subs' = subs \ doomed
                    /\ pruned' = pruned \cup {[key |-> s.key, created |-> s.created, made |-> s.made,
                                               sent |-> job[w].sent] : s \in doomed}
                 \/ UNCHANGED <<subs, pruned>>
           \/ /\ job[w].at = "ok"
              /\ \/ subs' = {IF s.id = r.id THEN [s EXCEPT !.ok = {SendStartDay(w)}] ELSE s
                               : s \in subs}
                 \/ UNCHANGED subs
              /\ UNCHANGED <<cache, pruned>>
           \/ /\ job[w].at = "failed" /\ ~IsAuthoritativeRejection(job[w].at)
              /\ UNCHANGED <<subs, cache, pruned>>
  /\ UNCHANGED <<day, regs, accepts, refused>>

Midnight ==
  /\ day < MaxDay
  /\ day' = day + 1
  /\ UNCHANGED <<subs, regs, cache, accepts, job, refused, pruned>>

Api(a) ==
  \/ \E e \in Endpoint : CreateSubscription(a, e)
  \/ \E r \in subs : DeleteSubscription(a, r.id)
  \/ DeleteAccount(a)

WorkerStep(w) ==
  \/ \E a \in Account, kind \in {"one", "many"} : StartJob(w, a, kind)
  \/ \E r \in job[w].rows : Dispatch(w, r)
  \/ Answer(w)
  \/ Settle(w)

Next ==
  \/ \E a \in Account : Api(a)
  \/ PruneAncientSubscriptions
  \/ \E e \in Endpoint : Revoke(e)
  \/ \E w \in Worker : WorkerStep(w)
  \/ Midnight

Spec == Init /\ [][Next]_vars

-------------------------------------------------------------------------------
(* Properties.                                                             *)

\* A subscription disappears because of a send only when a push service has
\* refused that very registration, or when the day the send left is among those
\* the registration took, from the day it is stamped with to the day it was
\* written: never for a transient failure, and never for a refusal meant for an
\* earlier registration of the endpoint (dispatchToSub).
PrunedWasRefused ==
  \A h \in pruned : h.key \in refused \/ (h.created <= h.sent /\ h.sent <= h.made)

-------------------------------------------------------------------------------
(* What the documents say, and the code does not do.                       *)

\* docs/DELIVERY.md: the row is deleted only when created_day predates the
\* send, "otherwise a device that just re-subscribed gets silently
\* unsubscribed".  The code also deletes a row registered on the day itself.
ReRegistrationSurvives == \A h \in pruned : h.key \in refused
===============================================================================
