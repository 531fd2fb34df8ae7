------------------------------- MODULE Contacts --------------------------------
(***************************************************************************)
(* The contacts of an account: lists on its devices, one sealed blob with  *)
(* a version on the server (ContactsHandler), and the client's sync, which *)
(* fetches, merges, puts with If-Match and tries again on a conflict       *)
(* (contacts.ts, main.ts).                                                 *)
(*                                                                         *)
(* A page starts a sync after every edit and does not wait for the one     *)
(* before.  A request may fail for the client before or after the server   *)
(* has done its part, and a put given up may still be done later: the      *)
(* store's writer takes it from its queue when the caller has gone.        *)
(*                                                                         *)
(* An entry is a day and whether it is a tombstone; day 0 is no entry.     *)
(* Nicknames, the seal and its padding are left out.                       *)
(***************************************************************************)
EXTENDS Naturals, FiniteSets

CONSTANTS Device,     \* pages that share the account
          Sync,       \* bound: syncs under way at a time
          Nowhere,    \* the page of a sync that is not under way
          Handle,     \* contacts
          MaxRetries, \* maxRetries of syncContacts
          MaxDay,     \* bound: days
          MaxEdits,   \* bound: edits
          MaxVersion, \* bound: versions put
          MaxErased,  \* bound: deletions of the blob
          MaxLate     \* bound: puts given up and not yet done

ASSUME ContactsAssumption ==
  /\ Nowhere \notin Device
  /\ {MaxRetries, MaxDay, MaxEdits, MaxVersion, MaxErased, MaxLate} \subseteq Nat

VARIABLES
  today,
  local,     \* this.contacts of each page
  edits,     \* edits so far
  sync,      \* what each sync is doing
  row,       \* the row of contacts_blob; version 0 is no row
  erased,    \* deletions of the blob so far
  late,      \* puts whose caller has gone
  added,     \* day of each contact last added on each page, 0 when its sync failed; all 0
             \* once the blob has been deleted (history)
  buried     \* day of the latest tombstone made of each contact (history)

history == <<added, buried>>
vars == <<today, local, edits, sync, row, erased, late, history>>

NoEntry == [day |-> 0, gone |-> FALSE]
Empty == [h \in Handle |-> NoEntry]
Quiet == [at |-> "idle", on |-> Nowhere, work |-> Empty, version |-> 0, era |-> 0, tries |-> 0,
          shared |-> FALSE]

Init ==
  /\ today = 1
  /\ local = [d \in Device |-> Empty]
  /\ edits = 0
  /\ sync = [s \in Sync |-> Quiet]
  /\ row = [version |-> 0, blob |-> Empty]
  /\ erased = 0
  /\ late = {}
  /\ added = [d \in Device |-> [h \in Handle |-> 0]]
  /\ buried = [h \in Handle |-> 0]

-------------------------------------------------------------------------------
(* mergeContacts.                                                          *)

\* Mutant: the deletion wins, whichever is the later.
MergeEntryDeleted(e, f) ==
  [day |-> IF e.day > f.day THEN e.day ELSE f.day, gone |-> e.gone \/ f.gone]

\* The later day wins; on one day the deletion does.
MergeEntry(e, f) ==
  IF e.day > f.day THEN e
  ELSE IF f.day > e.day THEN f
  ELSE [day |-> e.day, gone |-> e.gone \/ f.gone]

Merge(m, n) == [h \in Handle |-> MergeEntry(m[h], n[h])]

\* n has all that m has.
Within(m, n) == \A h \in Handle : MergeEntry(m[h], n[h]) = n[h]

-------------------------------------------------------------------------------
(* A page.                                                                 *)

\* syncContacts copies the list; the entries in the copy are the page's own
\* objects until the first merge makes new ones.
Begun(d, list) == [Quiet EXCEPT !.at = "get", !.on = d, !.work = list, !.shared = TRUE]

\* An entry that is there is changed in place, a new one is pushed; then a sync
\* starts.  An entry made undead keeps its day, which is its tombstone's too.  Days
\* pass between edits.
Edit(s, d, h, gone) ==
  LET new == local[d][h] = NoEntry
      entry == [day |-> IF new THEN today' ELSE local[d][h].day, gone |-> gone]
      list == [local[d] EXCEPT ![h] = entry]
  IN  /\ edits < MaxEdits
      /\ sync[s].at = "idle"
      /\ edits' = edits + 1
      /\ today' \in today .. MaxDay
      /\ local' = [local EXCEPT ![d] = list]
      /\ sync' = [u \in Sync |->
           IF u = s THEN Begun(d, list)
           ELSE IF sync[u].on = d /\ sync[u].shared /\ sync[u].work[h] # NoEntry
                THEN [sync[u] EXCEPT !.work[h] = entry]
           ELSE sync[u]]
      /\ added' = IF gone \/ erased > 0 THEN added ELSE [added EXCEPT ![d][h] = entry.day]
      /\ buried' = IF gone /\ entry.day > buried[h] THEN [buried EXCEPT ![h] = entry.day] ELSE buried
      /\ UNCHANGED <<row, erased, late>>

\* addContact and removeContact; the page offers to remove what it shows.
AddContact(s, d, h) == Edit(s, d, h, FALSE)
RemoveContact(s, d, h) == local[d][h].day > 0 /\ ~local[d][h].gone /\ Edit(s, d, h, TRUE)

\* The page loads.
SyncContacts(s, d) ==
  /\ sync[s].at = "idle"
  /\ sync' = [sync EXCEPT ![s] = Begun(d, local[d])]
  /\ UNCHANGED <<today, local, edits, row, erased, late, history>>

\* GetContacts, with the merge that follows its answer: between the two only the
\* page's own entries may change, as they may before.
GetContacts(s) ==
  /\ sync[s].at = "get"
  /\ sync' = [sync EXCEPT ![s].at = "put", ![s].work = Merge(sync[s].work, row.blob),
                          ![s].version = row.version, ![s].era = erased, ![s].shared = FALSE]
  /\ UNCHANGED <<today, local, edits, row, erased, late, history>>

\* syncContacts throws, and nobody hears of it: what it had and the blob has not
\* is on the page alone.
Failed(s) ==
  /\ added' = [d \in Device |-> [h \in Handle |->
       IF d = sync[s].on /\ sync[s].work[h] # NoEntry /\ row.blob[h].day < added[d][h]
       THEN 0 ELSE added[d][h]]]
  /\ UNCHANGED buried

\* The request fails for the page.  A put given up may have been done, or be done
\* later, or never.
GiveUp(s) ==
  /\ sync[s].at # "idle"
  /\ sync' = [sync EXCEPT ![s] = Quiet]
  /\ Failed(s)
  /\ \/ UNCHANGED late
     \/ /\ sync[s].at = "put" /\ Cardinality(late) < MaxLate
        /\ late' = late \cup {[blob |-> sync[s].work, version |-> sync[s].version, era |-> sync[s].era]}
  /\ UNCHANGED <<today, local, edits, row, erased>>

\* this.contacts becomes what was put, whatever it is by now.
Synced(s) ==
  /\ sync[s].at = "ok"
  /\ local' = [local EXCEPT ![sync[s].on] = sync[s].work]
  /\ sync' = [u \in Sync |->
       IF u = s THEN Quiet
       ELSE IF sync[u].on = sync[s].on THEN [sync[u] EXCEPT !.shared = FALSE] ELSE sync[u]]
  /\ UNCHANGED <<today, edits, row, erased, late, history>>

-------------------------------------------------------------------------------
(* The server.                                                             *)

\* Mutant: the version is not compared.
MatchesAny(version) == TRUE

\* currentVersion = expectedVersion, in the transaction.
Matches(version) == row.version = version

\* The page has its answer.
Done(c) == [Quiet EXCEPT !.at = "ok", !.on = c.on, !.work = c.work]

Stored(blob) == row' = [version |-> row.version + 1, blob |-> blob]

\* From the start, with what has been merged so far.
Again(c) == [Quiet EXCEPT !.at = "get", !.on = c.on, !.work = c.work, !.tries = c.tries + 1]

\* The put is done, or is answered 412, and the page then tries again, maxRetries
\* times: nothing it depends on changes between the two.
UpdateContacts(s) ==
  /\ sync[s].at = "put"
  /\ \/ /\ Matches(sync[s].version)
        /\ row.version < MaxVersion
        /\ Stored(sync[s].work)
        /\ sync' = [sync EXCEPT ![s] = Done(sync[s])]
        /\ UNCHANGED history
     \/ /\ ~Matches(sync[s].version)
        /\ sync[s].tries < MaxRetries
        /\ sync' = [sync EXCEPT ![s] = Again(sync[s])]
        /\ UNCHANGED <<row, history>>
     \/ /\ ~Matches(sync[s].version)
        /\ sync[s].tries = MaxRetries
        /\ sync' = [sync EXCEPT ![s] = Quiet]
        /\ Failed(s)
        /\ UNCHANGED row
  /\ UNCHANGED <<today, local, edits, erased, late>>

UpdateLate(p) ==
  /\ p \in late
  /\ late' = late \ {p}
  /\ \/ Matches(p.version) /\ row.version < MaxVersion /\ Stored(p.blob)
     \/ ~Matches(p.version) /\ UNCHANGED row
  /\ UNCHANGED <<today, local, edits, sync, erased, history>>

\* The versions begin again.  Without a row nothing changes.
DeleteContacts ==
  /\ row.version > 0
  /\ erased < MaxErased
  /\ erased' = erased + 1
  /\ row' = [version |-> 0, blob |-> Empty]
  /\ added' = [d \in Device |-> [h \in Handle |-> 0]]
  /\ UNCHANGED <<today, local, edits, sync, late, buried>>

Next ==
  \/ \E s \in Sync :
       \/ \E d \in Device :
            \/ \E h \in Handle : AddContact(s, d, h) \/ RemoveContact(s, d, h)
            \/ SyncContacts(s, d)
       \/ GetContacts(s) \/ UpdateContacts(s)
       \/ GiveUp(s) \/ Synced(s)
  \/ \E p \in late : UpdateLate(p)
  \/ DeleteContacts

Spec == Init /\ [][Next]_vars

-------------------------------------------------------------------------------
(* Properties.                                                             *)

\* A put keeps what the blob had, unless somebody has deleted a blob since it was
\* prepared: it is told from one prepared after the deletion by its version alone.
PutKeeps ==
  row'.version > row.version =>
    \/ Within(row.blob, row'.blob)
    \/ \E s \in Sync : sync[s].at = "put" /\ sync'[s].at = "ok" /\ sync[s].era # erased
    \/ \E p \in late \ late' : p.era # erased

\* No put takes away what another page has put, an early, a late or a repeated
\* one: nothing is lost on the server.
NothingOverwritten == [][PutKeeps]_vars

\* What a contact of that day has become: nothing older, and not a tombstone unless
\* a page has made one of that day or a later one.
Keeps(e, h, day) == e.day >= day /\ (e.gone => buried[h] >= day)

\* A contact added on a page, or added again, is on its way to the blob or in it,
\* from the edit that added it on, and only a removal as late as itself can have
\* made a tombstone of it: an addition is not lost to another page, to a removal
\* of an earlier day, or to a sync that raced its own.  But for a contact whose sync
\* has failed before it was in the blob, which is on the page alone; and until the
\* blob is deleted, which ends the record.  A contact removed and added again has its tombstone's
\* day, and does lose to it: the property does not say it comes back.
AddedStays ==
  \A d \in Device : \A h \in Handle : added[d][h] > 0 =>
    \/ \E s \in Sync : sync[s].on = d /\ Keeps(sync[s].work[h], h, added[d][h])
    \/ Keeps(row.blob[h], h, added[d][h])
===============================================================================
