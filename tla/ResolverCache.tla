---------------------------- MODULE ResolverCache -----------------------------
(***************************************************************************)
(* The LRU cache in front of the handles and aliases tables                *)
(* (region.Resolver), filled by the request goroutines and invalidated by  *)
(* the handlers that change the tables.                                    *)
(*                                                                         *)
(* A look-up that misses drops the lock, reads the database and takes the  *)
(* lock again to insert, whatever happened meanwhile.  A row is reduced to *)
(* its version: 0 is a row that does not exist.                            *)
(*                                                                         *)
(* The list holds the elements of evictList, most recent first.  live says *)
(* that items maps the target to this very element; an element that is not *)
(* live has been replaced in items and forgotten in the list.              *)
(***************************************************************************)
EXTENDS Naturals, FiniteSets, SequencesExt

CONSTANTS Key,        \* handles and @aliases
          Changing,   \* bound: the targets whose rows change
          Caller,     \* goroutines that resolve
          Capacity,   \* ResolverCacheSize
          MaxVersion, \* bound: versions of a row
          MaxRaces    \* bound: fills of a target that has been filled meanwhile

ASSUME CacheAssumption ==
  /\ Changing \subseteq Key
  /\ Capacity \in Nat \ {0}
  /\ MaxVersion \in Nat \ {0}
  /\ MaxRaces \in Nat

VARIABLES
  row,      \* the version of each target's row in the database
  change,   \* where the handler that changes a row stands
  list,     \* evictList
  lookup,   \* what each caller is doing
  races,    \* how often a fill found its target filled already (history)
  tainted,  \* targets whose change a fill has overlapped (history)
  missed    \* targets changed by a handler that did not invalidate them (history)

cacheVars == <<row, change, list, lookup, races, tainted, missed>>

Version == 0 .. MaxVersion
Element == [target : Key, version : Version, live : BOOLEAN]
IdleCaller == [at |-> "idle", target |-> {}, version |-> 0]

\* One type invariant for the module; items is a map, so no target has two
\* live elements.
CacheTypeOK ==
  /\ row \in [Key -> Version]
  /\ change \in [Key -> {"none", "committed", "forgotten"}]
  /\ list \in Seq(Element)
  /\ \A i, j \in DOMAIN list :
       list[i].live /\ list[j].live /\ list[i].target = list[j].target => i = j
  /\ lookup \in [Caller -> [at : {"idle", "query", "fill"}, target : SUBSET Key, version : Version]]
  /\ races \in 0 .. MaxRaces
  /\ tainted \in SUBSET Key
  /\ missed \in SUBSET Key

CacheInit ==
  /\ row = [t \in Key |-> 1]
  /\ change = [t \in Key |-> "none"]
  /\ list = <<>>
  /\ lookup = [r \in Caller |-> IdleCaller]
  /\ races = 0
  /\ tainted = {}
  /\ missed = {}

-------------------------------------------------------------------------------
(* The list.                                                               *)

\* Places of live elements, and the targets items maps.
LivePlaces == {i \in DOMAIN list : list[i].live}
Items == {list[i].target : i \in LivePlaces}
PlaceOf(t) == CHOOSE i \in LivePlaces : list[i].target = t
VersionOf(t) == list[PlaceOf(t)].version

\* Taking target t out of items: its element stays in the list.
Forget(l, t) ==
  [i \in DOMAIN l |-> IF l[i].target = t THEN [l[i] EXCEPT !.live = FALSE] ELSE l[i]]

\* removeElementLocked takes the element out of the list and its target out of
\* items, whichever element items maps the target to.
RemoveElement(l, i) == RemoveAt(Forget(l, l[i].target), i)

\* Mutant: room is made when items has outgrown its capacity.
EvictedLate(l) ==
  IF Cardinality(Items) > Capacity /\ l # <<>> THEN RemoveElement(l, Len(l)) ELSE l

\* Room is made when items is full, by dropping the oldest element.
Evicted(l) ==
  IF Cardinality(Items) >= Capacity /\ l # <<>> THEN RemoveElement(l, Len(l)) ELSE l

\* PushFront and items[target] = elem.
Insert(l, t, v) ==
  <<[target |-> t, version |-> v, live |-> TRUE]>> \o Forget(Evicted(l), t)

-------------------------------------------------------------------------------
(* ResolveDetailed.                                                        *)

\* A fill of target t is under way with something else than version v.
Overlapped(t, v) ==
  \E r \in Caller : lookup[r].at = "fill" /\ t \in lookup[r].target /\ lookup[r].version # v

\* A hit moves the element to the front, under the lock.
ResolveHit(r, t) ==
  /\ lookup[r].at = "idle"
  /\ t \in Items
  /\ list' = <<list[PlaceOf(t)]>> \o RemoveAt(list, PlaceOf(t))
  /\ UNCHANGED <<row, change, lookup, races, tainted, missed>>

ResolveMiss(r, t) ==
  /\ lookup[r].at = "idle"
  /\ t \notin Items
  /\ lookup' = [lookup EXCEPT ![r] = [at |-> "query", target |-> {t}, version |-> 0]]
  /\ UNCHANGED <<row, change, list, races, tainted, missed>>

\* The query, outside the lock.  It may fail, and then nothing is cached; that
\* there is no row is an answer like another.
ResolveQuery(r) ==
  /\ lookup[r].at = "query"
  /\ \/ \E t \in lookup[r].target :
          lookup' = [lookup EXCEPT ![r] = [@ EXCEPT !.at = "fill", !.version = row[t]]]
     \/ lookup' = [lookup EXCEPT ![r] = IdleCaller]
  /\ UNCHANGED <<row, change, list, races, tainted, missed>>

\* A target filled with what the row says, and no older fill under way, is
\* missed no longer.
ResolveFill(r) ==
  /\ lookup[r].at = "fill"
  /\ lookup' = [lookup EXCEPT ![r] = IdleCaller]
  /\ \E t \in lookup[r].target :
       /\ list' = Insert(list, t, lookup[r].version)
       /\ t \in Items => races < MaxRaces
       /\ races' = IF t \in Items THEN races + 1 ELSE races
       /\ missed' = IF Overlapped(t, row[t]) THEN missed ELSE missed \ {t}
  /\ UNCHANGED <<row, change, tainted>>

-------------------------------------------------------------------------------
(* The handlers.  A target is changed by its owner, one request at a time. *)

\* Mutant: the handler forgets to invalidate.
WithoutNone(t) == list

\* Invalidate(target): the live element of the target goes.
Without(t) == IF t \in Items THEN RemoveElement(list, PlaceOf(t)) ELSE list

\* UpdateHandle, SetAlias and SweepInactiveAliases commit their write and
\* then invalidate the target.
ChangeCommit(t) ==
  /\ change[t] = "none"
  /\ row[t] < MaxVersion
  /\ row' = [row EXCEPT ![t] = @ + 1]
  /\ change' = [change EXCEPT ![t] = "committed"]
  /\ UNCHANGED <<list, lookup, races, tainted, missed>>

ChangeInvalidate(t) ==
  /\ change[t] = "committed"
  /\ change' = [change EXCEPT ![t] = "none"]
  /\ list' = Without(t)
  /\ missed' = missed \ {t}
  /\ tainted' = IF Overlapped(t, row[t]) THEN tainted \cup {t} ELSE tainted \ {t}
  /\ UNCHANGED <<row, lookup, races>>

\* Store.Write returns the error of a context that has ended, although the
\* writer commits: the handler returns and does not invalidate.
ChangeGiveUp(t) ==
  /\ change[t] = "committed"
  /\ change' = [change EXCEPT ![t] = "none"]
  /\ missed' = missed \cup {t}
  /\ UNCHANGED <<row, list, lookup, races, tainted>>

\* The handlers that change what is cached and invalidate nothing: CreateHandle
\* (a row where there was none), UpdateSettings (the mode), DeleteAlias and
\* DeleteAccount (no row).
ChangeSilently(t) ==
  /\ \/ row[t] < MaxVersion /\ row' = [row EXCEPT ![t] = @ + 1]
     \/ row[t] # 0 /\ row' = [row EXCEPT ![t] = 0]
  /\ missed' = missed \cup {t}
  /\ UNCHANGED <<change, list, lookup, races, tainted>>

\* BurnHandle invalidates first, and then deletes the row; the delete may find
\* that the caller does not own the handle, or fail.
BurnInvalidate(t) ==
  /\ change[t] = "none"
  /\ row[t] # 0
  /\ change' = [change EXCEPT ![t] = "forgotten"]
  /\ list' = Without(t)
  /\ missed' = missed \ {t}
  /\ tainted' = IF Overlapped(t, row[t]) THEN tainted \cup {t} ELSE tainted \ {t}
  /\ UNCHANGED <<row, lookup, races>>

BurnDelete(t) ==
  /\ change[t] = "forgotten"
  /\ change' = [change EXCEPT ![t] = "none"]
  /\ \/ /\ row' = [row EXCEPT ![t] = 0]
        /\ tainted' = IF t \in Items \/ Overlapped(t, 0) THEN tainted \cup {t} ELSE tainted
     \/ UNCHANGED <<row, tainted>>
  /\ UNCHANGED <<list, lookup, races, missed>>

CacheNext ==
  \/ \E r \in Caller :
       \/ \E t \in Key : ResolveHit(r, t) \/ ResolveMiss(r, t)
       \/ ResolveQuery(r) \/ ResolveFill(r)
  \/ \E t \in Changing :
       \/ ChangeCommit(t) \/ ChangeInvalidate(t) \/ ChangeGiveUp(t) \/ ChangeSilently(t)
       \/ BurnInvalidate(t) \/ BurnDelete(t)

CacheSpec == CacheInit /\ [][CacheNext]_cacheVars

-------------------------------------------------------------------------------
(* Properties.                                                             *)

\* What is cached is what the database says, with three exceptions and no other:
\* before the invalidation of a committed change; where a fill overlapped the
\* last invalidation; and where the last change was one that invalidates nothing
\* or whose handler gave up (UpdateHandle, SetAlias, BurnHandle, the sweep).
StaleOnlyIfMissed ==
  \A t \in Items : VersionOf(t) # row[t] => change[t] = "committed" \/ t \in tainted \cup missed

\* The list outgrows the capacity by no more than one element for each fill
\* that found its target filled already (removeElementLocked, ResolveDetailed).
BoundedByRaces == Len(list) <= Capacity + races
===============================================================================
