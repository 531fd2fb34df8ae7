----------------------------- MODULE Reachability ------------------------------
(***************************************************************************)
(* The rows behind the resolver: handles, aliases and the mode of an       *)
(* account, the handlers that change them (HandlesHandler, region.Service, *)
(* SettingsHandler, Store.DeleteAccount), and what the resolver's cache    *)
(* still says about them.  ResolverCache has the cache's list; here the    *)
(* cache is a function and an entry may be evicted at any time.            *)
(*                                                                         *)
(* An answer is the account and the handle a ping is for, or None for      *)
(* every reason to refuse it.  The row of an alias repeats the account of  *)
(* the handle it points at: SetAlias takes only the caller's handles, and  *)
(* a handle never changes hands.                                           *)
(***************************************************************************)
EXTENDS Naturals, FiniteSets

CONSTANTS Account,   \* account ids
          Nobody,    \* no account
          Handle,    \* personal, social and stream handles
          Alias,     \* with the @
          NoHandle,
          Request,   \* goroutines that resolve
          MaxChanges \* bound: handlers between their commit and their invalidation, or the reverse, and the sweep

ASSUME ReachAssumption ==
  /\ MaxChanges \in Nat
  /\ Nobody \notin Account /\ NoHandle \notin Handle
  /\ Handle \cap Alias = {}

VARIABLES
  owner,     \* account_id of each row of handles
  paused,    \* handles whose row is paused
  alias,     \* handle of each row of aliases
  open,      \* accounts whose mode is "all"; the two other modes refuse these handles
  asleep,    \* accounts that have not been seen for release_months
  burned,    \* burnedHandles, in memory
  cache,     \* the resolver's answers
  req,       \* what each request is doing
  pending,   \* targets committed and not yet invalidated
  burning,   \* handles invalidated and not yet deleted
  sweep,     \* aliases listed by the sweep, and where it stands
  left,      \* targets changed by a handler that did not invalidate them (history)
  raced      \* targets answered anew, from old rows, past their invalidation (history)

rows == <<owner, paused, alias, open, asleep>>
vars == <<rows, burned, cache, req, pending, burning, sweep, left, raced>>

Target == Handle \cup Alias
None == [to |-> Nobody, handle |-> NoHandle]
Answers == [to : Account, handle : Handle] \cup {None}
Uncached == [to |-> Nobody, handle |-> "uncached"]
Idle == [at |-> "idle", target |-> {}, answer |-> None]

\* One type invariant for the module; a row of aliases has its handle.
TypeOK ==
  /\ owner \in [Handle -> Account \cup {Nobody}]
  /\ paused \subseteq {h \in Handle : owner[h] # Nobody}
  /\ alias \in [Alias -> {h \in Handle : owner[h] # Nobody} \cup {NoHandle}]
  /\ open \subseteq Account /\ asleep \subseteq Account
  /\ burned \subseteq Handle
  /\ cache \in [Target -> Answers \cup {Uncached}]
  /\ req \in [Request -> [at : {"idle", "query", "fill"}, target : SUBSET Target, answer : Answers]]
  /\ pending \subseteq Target
  /\ burning \subseteq burned
  /\ sweep \in [at : {"idle", "listed", "deleted"}, list : SUBSET Alias]
  /\ left \subseteq Target /\ raced \subseteq Target

Init ==
  /\ owner = [h \in Handle |-> Nobody]
  /\ paused = {}
  /\ alias = [a \in Alias |-> NoHandle]
  /\ open = Account
  /\ asleep = {}
  /\ burned = {}
  /\ cache = [t \in Target |-> Uncached]
  /\ req = [r \in Request |-> Idle]
  /\ pending = {}
  /\ burning = {}
  /\ sweep = [at |-> "idle", list |-> {}]
  /\ left = {}
  /\ raced = {}

-------------------------------------------------------------------------------
(* What the database answers.                                              *)

HandleAnswer(h) ==
  IF h \in Handle /\ owner[h] # Nobody /\ h \notin paused /\ owner[h] \in open
  THEN [to |-> owner[h], handle |-> h] ELSE None

\* ResolveDetailed's two queries.
Answer(t) == HandleAnswer(IF t \in Alias THEN alias[t] ELSE t)

OwnerOf(a) == IF alias[a] = NoHandle THEN Nobody ELSE owner[alias[a]]
AliasesOf(S) == {a \in Alias : OwnerOf(a) \in S}

AliasesAt(h) == {a \in Alias : alias[a] = h}
TargetsOf(acc) == {h \in Handle : owner[h] = acc} \cup AliasesOf({acc})

\* The cache has an answer for t, or is about to get one it was given before.
Known(t) == cache[t] # Uncached \/ \E r \in Request : req[r].at = "fill" /\ t \in req[r].target

\* The handler changes targets of S and does not invalidate them, now or later.
Leaves(S) == left' = left \cup {t \in S : Known(t)} /\ UNCHANGED raced

-------------------------------------------------------------------------------
(* ResolveDetailed: an answer from the cache changes nothing here.         *)

Miss(r, t) ==
  /\ req[r].at = "idle"
  /\ cache[t] = Uncached
  /\ req' = [req EXCEPT ![r] = [at |-> "query", target |-> {t}, answer |-> None]]
  /\ UNCHANGED <<rows, burned, cache, pending, burning, sweep, left, raced>>

\* No row is an answer; an error is not cached.
Query(r) ==
  /\ req[r].at = "query"
  /\ \/ \E t \in req[r].target : req' = [req EXCEPT ![r] = [@ EXCEPT !.at = "fill", !.answer = Answer(t)]]
     \/ req' = [req EXCEPT ![r] = Idle]
  /\ UNCHANGED <<rows, burned, cache, pending, burning, sweep, left, raced>>

\* A request is about to cache an answer about t that is not what the rows say.
Overtaken(t) == \E r \in Request : req[r].at = "fill" /\ t \in req[r].target /\ req[r].answer # Answer(t)

\* Resolver.Invalidate(t).
Drop(t) ==
  /\ cache' = [cache EXCEPT ![t] = Uncached]
  /\ left' = left \ {t}
  /\ raced' = IF Overtaken(t) THEN raced \cup {t} ELSE raced \ {t}

\* Nothing old is left about t.
Cleared(t) ==
  /\ left' = IF Overtaken(t) THEN left ELSE left \ {t}
  /\ raced' = IF Overtaken(t) THEN raced ELSE raced \ {t}

Fill(r) ==
  /\ req[r].at = "fill"
  /\ \E t \in req[r].target :
       /\ cache' = [cache EXCEPT ![t] = req[r].answer]
       /\ Cleared(t)
  /\ req' = [req EXCEPT ![r] = Idle]
  /\ UNCHANGED <<rows, burned, pending, burning, sweep>>

\* Any entry may be the oldest of a full cache.
Evict(t) ==
  /\ cache[t] # Uncached
  /\ cache' = [cache EXCEPT ![t] = Uncached]
  /\ Cleared(t)
  /\ UNCHANGED <<rows, burned, req, pending, burning, sweep>>

-------------------------------------------------------------------------------
(* Handles.  A caller has a session, so its account has been seen.         *)

Awake == Account \ asleep
UnderWay == Cardinality(pending \cup burning) + IF sweep.at = "idle" THEN 0 ELSE 1
Room(t) == t \notin pending \cup burning /\ UnderWay < MaxChanges
Mine == {h \in Handle : owner[h] \in Awake}

\* MintHandle and the insert: never a handle in burnedHandles or in the table.
\* Somebody may have asked for it before; it is not invalidated.
CreateHandle(h, acc) ==
  /\ h \notin burned /\ owner[h] = Nobody /\ acc \in Awake
  /\ owner' = [owner EXCEPT ![h] = acc]
  /\ UNCHANGED <<paused, alias, open, asleep, burned, cache, req, pending, burning, sweep>>
  /\ Leaves({h})

\* Mutant: the handler forgets to invalidate.
UpdateHandleSilently(h) ==
  /\ h \in Mine /\ Room(h)
  /\ paused' = IF h \in paused THEN paused \ {h} ELSE paused \cup {h}
  /\ UNCHANGED <<owner, alias, open, asleep, burned, cache, req, pending, burning, sweep>>
  /\ Leaves(AliasesAt(h))

\* UpdateHandle commits paused; label and policy do not change the answer.  The
\* aliases that point at the handle are not invalidated.
UpdateHandle(h) ==
  /\ h \in Mine /\ Room(h)
  /\ paused' = IF h \in paused THEN paused \ {h} ELSE paused \cup {h}
  /\ pending' = pending \cup {h}
  /\ UNCHANGED <<owner, alias, open, asleep, burned, cache, req, burning, sweep>>
  /\ Leaves(AliasesAt(h))

\* The end of UpdateHandle and of SetAlias.
Invalidate(t) ==
  /\ t \in pending
  /\ pending' = pending \ {t}
  /\ Drop(t)
  /\ UNCHANGED <<rows, burned, req, burning, sweep>>

\* Or the request's context has ended: Store.Write returns its error although the
\* writer commits, and the handler returns without invalidating.
GiveUp(t) ==
  /\ t \in pending
  /\ pending' = pending \ {t}
  /\ Leaves({t})
  /\ UNCHANGED <<rows, burned, cache, req, burning, sweep>>

\* BurnHandle marks the handle and invalidates it, whoever asks.
BurnForget(h) ==
  /\ Room(h)
  /\ burned' = burned \cup {h}
  /\ burning' = burning \cup {h}
  /\ Drop(h)
  /\ UNCHANGED <<rows, req, pending, sweep>>

\* Mutant: the aliases that point at the handle stay.
BurnCommitAlone(h) ==
  /\ h \in burning
  /\ burning' = burning \ {h}
  /\ owner[h] # Nobody
  /\ owner' = [owner EXCEPT ![h] = Nobody]
  /\ paused' = paused \ {h}
  /\ left' = left \cup {a \in AliasesAt(h) : Known(a)}
  /\ raced' = IF Known(h) THEN raced \cup {h} ELSE raced
  /\ UNCHANGED <<alias, open, asleep, burned, cache, req, pending, sweep>>

\* The delete, with the aliases that point at the handle, which are not
\* invalidated; or the caller does not own it, or the write fails.  The handle is
\* invalidated already, so what was answered in between stays.
BurnCommit(h) ==
  /\ h \in burning
  /\ burning' = burning \ {h}
  /\ \/ /\ owner[h] # Nobody
        /\ owner' = [owner EXCEPT ![h] = Nobody]
        /\ paused' = paused \ {h}
        /\ alias' = [a \in Alias |-> IF alias[a] = h THEN NoHandle ELSE alias[a]]
        /\ left' = left \cup {a \in AliasesAt(h) : Known(a)}
        /\ raced' = IF Known(h) THEN raced \cup {h} ELSE raced
        /\ UNCHANGED <<open, asleep>>
     \/ UNCHANGED <<rows, left, raced>>
  /\ UNCHANGED <<burned, cache, req, pending, sweep>>

-------------------------------------------------------------------------------
(* Aliases.                                                                *)

\* The upsert takes the alias whoever has it; then it is invalidated.
SetAlias(a, h) ==
  /\ h \in Mine /\ Room(a)
  /\ alias' = [alias EXCEPT ![a] = h]
  /\ pending' = pending \cup {a}
  /\ UNCHANGED <<owner, paused, open, asleep, burned, cache, req, burning, sweep>>
  /\ UNCHANGED <<left, raced>>

Released(S) == alias' = [a \in Alias |-> IF OwnerOf(a) \in S THEN NoHandle ELSE alias[a]]

\* All aliases of the account; nothing is invalidated.
DeleteAlias(acc) ==
  /\ acc \in Awake
  /\ Released({acc})
  /\ UNCHANGED <<owner, paused, open, asleep, burned, cache, req, pending, burning, sweep>>
  /\ Leaves(AliasesOf({acc}))

\* SweepInactiveAliases reads the names, deletes, and invalidates the names read.
\* Nothing in the server calls it so far.
SweepList ==
  /\ sweep.at = "idle" /\ UnderWay < MaxChanges
  /\ sweep' = [at |-> "listed", list |-> AliasesOf(asleep)]
  /\ UNCHANGED <<rows, burned, cache, req, pending, burning, left, raced>>

\* The delete takes the aliases of whoever is asleep by now; or it fails.  An error
\* for a context that has ended is returned although the delete is committed, and
\* nothing is invalidated.
SweepDelete ==
  /\ sweep.at = "listed"
  /\ UNCHANGED <<owner, paused, open, asleep, burned, cache, req, pending, burning>>
  /\ \/ /\ sweep' = [sweep EXCEPT !.at = "deleted"]
        /\ Released(asleep)
        /\ Leaves(AliasesOf(asleep) \ sweep.list)
     \/ /\ sweep' = [at |-> "idle", list |-> {}]
        /\ Released(asleep)
        /\ Leaves(AliasesOf(asleep))
     \/ /\ sweep' = [at |-> "idle", list |-> {}]
        /\ UNCHANGED <<alias, left, raced>>

SweepInvalidate ==
  /\ sweep.at = "deleted"
  /\ \/ \E a \in sweep.list : Drop(a) /\ sweep' = [sweep EXCEPT !.list = @ \ {a}]
     \/ sweep.list = {} /\ sweep' = [sweep EXCEPT !.at = "idle"] /\ UNCHANGED <<cache, left, raced>>
  /\ UNCHANGED <<rows, burned, req, pending, burning>>

-------------------------------------------------------------------------------
(* The account.                                                            *)

\* UpdateSettings writes the mode; nothing is invalidated.
UpdateSettings(acc) ==
  /\ acc \in Awake
  /\ open' = IF acc \in open THEN open \ {acc} ELSE open \cup {acc}
  /\ UNCHANGED <<owner, paused, alias, asleep, burned, cache, req, pending, burning, sweep>>
  /\ Leaves(TargetsOf(acc))

\* DeleteAccount cascades; nothing is invalidated.  The id may be given again.
DeleteAccount(acc) ==
  /\ acc \in Awake
  /\ owner' = [h \in Handle |-> IF owner[h] = acc THEN Nobody ELSE owner[h]]
  /\ paused' = {h \in paused : owner[h] # acc}
  /\ Released({acc})
  /\ open' = open \cup {acc}
  /\ UNCHANGED <<asleep, burned, cache, req, pending, burning, sweep>>
  /\ Leaves(TargetsOf(acc))

\* A year passes, or the holder logs in.
Doze(acc) ==
  /\ asleep' = IF acc \in asleep THEN asleep \ {acc} ELSE asleep \cup {acc}
  /\ UNCHANGED <<owner, paused, alias, open, burned, cache, req, pending, burning, sweep, left, raced>>

Next ==
  \/ \E r \in Request : (\E t \in Target : Miss(r, t)) \/ Query(r) \/ Fill(r)
  \/ \E t \in Target : Evict(t) \/ Invalidate(t) \/ GiveUp(t)
  \/ \E h \in Handle :
       \/ UpdateHandle(h) \/ BurnForget(h) \/ BurnCommit(h)
       \/ \E acc \in Account : CreateHandle(h, acc)
       \/ \E a \in Alias : SetAlias(a, h)
  \/ SweepList \/ SweepDelete \/ SweepInvalidate
  \/ \E acc \in Account : DeleteAlias(acc) \/ UpdateSettings(acc) \/ DeleteAccount(acc) \/ Doze(acc)

Spec == Init /\ [][Next]_vars

-------------------------------------------------------------------------------
(* Properties.                                                             *)

\* Targets somebody is still going to invalidate.
ToInvalidate == pending \cup (IF sweep.at = "deleted" THEN sweep.list ELSE {})

\* What the cache says of a target is what the rows say, with three exceptions and
\* no other: an invalidation is still due; a request was past its query when the
\* target was invalidated, or asked between the invalidation and the delete of a
\* burned handle; or the last handler to change it is one that does not invalidate
\* it: a new handle, the aliases of a handle paused or burned, what DeleteAlias,
\* UpdateSettings and DeleteAccount change, and a write whose context has ended.
StaleOnlyBehind ==
  \A t \in Target :
    cache[t] # Uncached /\ cache[t] # Answer(t) => t \in ToInvalidate \cup raced \cup left
===============================================================================
