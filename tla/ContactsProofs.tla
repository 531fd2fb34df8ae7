---------------------------- MODULE ContactsProofs -----------------------------
(***************************************************************************)
(* Proofs about Contacts, for any pages, syncs, contacts, retries and      *)
(* days.                                                                   *)
(***************************************************************************)
EXTENDS Contacts, TLAPS

-------------------------------------------------------------------------------
(* mergeContacts.                                                          *)

Entry == {NoEntry} \cup [day : Nat \ {0}, gone : BOOLEAN]
List == [Handle -> Entry]

LEMMA EntryFields ==
  ASSUME NEW e \in Entry
  PROVE  e.day \in Nat /\ e.gone \in BOOLEAN /\ e = [day |-> e.day, gone |-> e.gone]
<1>1. CASE e = NoEntry
  <2>1. e.day = 0 /\ e.gone = FALSE
    BY <1>1 DEF NoEntry
  <2> QED
    BY <1>1, <2>1 DEF NoEntry
<1>2. CASE e \in [day : Nat \ {0}, gone : BOOLEAN]
  <2>1. e.day \in Nat /\ e = [day |-> e.day, gone |-> e.gone]
    BY <1>2
  <2>2. e.gone \in BOOLEAN
    BY <1>2, Zenon
  <2> QED
    BY <2>1, <2>2
<1> QED
  BY <1>1, <1>2 DEF Entry

\* A merge invents no day, forgets no entry and keeps what either side has.
LEMMA MergedEntry ==
  ASSUME NEW e \in Entry, NEW f \in Entry
  PROVE  /\ MergeEntry(e, f) \in Entry
         /\ MergeEntry(e, f) = NoEntry <=> e = NoEntry /\ f = NoEntry
         /\ MergeEntry(f, MergeEntry(e, f)) = MergeEntry(e, f)
<1>1. e.day \in Nat /\ f.day \in Nat /\ e.gone \in BOOLEAN /\ f.gone \in BOOLEAN
  BY EntryFields
<1>2. e = [day |-> e.day, gone |-> e.gone] /\ f = [day |-> f.day, gone |-> f.gone]
  BY EntryFields
<1>3. (e = NoEntry <=> e.day = 0) /\ (f = NoEntry <=> f.day = 0)
  BY DEF Entry, NoEntry
<1>4. CASE e.day > f.day
  BY <1>1, <1>2, <1>3, <1>4 DEF MergeEntry
<1>5. CASE f.day > e.day
  BY <1>1, <1>2, <1>3, <1>5 DEF MergeEntry
<1>6. CASE e.day = f.day
  <2>1. MergeEntry(e, f) = [day |-> e.day, gone |-> e.gone \/ f.gone]
    BY <1>1, <1>6 DEF MergeEntry
  <2>2. MergeEntry(f, [day |-> e.day, gone |-> e.gone \/ f.gone]) = [day |-> f.day, gone |-> f.gone \/ (e.gone \/ f.gone)]
    BY <1>1, <1>6 DEF MergeEntry
  <2>3. (f.gone \/ (e.gone \/ f.gone)) = (e.gone \/ f.gone)
    BY <1>1
  <2>4. CASE e.day = 0
    BY <1>1, <1>3, <1>6, <2>1, <2>2, <2>3, <2>4 DEF Entry, NoEntry
  <2>5. CASE e.day # 0
    BY <1>1, <1>3, <1>6, <2>1, <2>2, <2>3, <2>5 DEF Entry, NoEntry
  <2> QED
    BY <2>4, <2>5
<1> QED
  BY <1>1, <1>4, <1>5, <1>6

LEMMA Merged ==
  ASSUME NEW m \in List, NEW n \in List
  PROVE  /\ Merge(m, n) \in List
         /\ Within(n, Merge(m, n))
         /\ \A h \in Handle : Merge(m, n)[h] = NoEntry <=> m[h] = NoEntry /\ n[h] = NoEntry
  BY MergedEntry DEF Merge, Within, List

-------------------------------------------------------------------------------
(* The types of the state.                                                 *)

SyncRecord == [at : {"idle", "get", "put", "ok"}, on : Device \cup {Nowhere}, work : List,
               version : Nat, era : Nat, tries : Nat, shared : BOOLEAN]

Typed ==
  /\ today \in Nat \ {0}
  /\ local \in [Device -> List]
  /\ sync \in [Sync -> SyncRecord]
  /\ row \in [version : Nat, blob : List]
  /\ erased \in Nat
  /\ \A p \in late : p.blob \in List /\ p.version \in Nat /\ p.era \in Nat
  /\ \A s \in Sync : sync[s].at # "idle" => sync[s].on \in Device

LEMMA NothingIsTyped == NoEntry \in Entry /\ Empty \in List /\ Quiet \in SyncRecord
<1>1. NoEntry \in Entry /\ Empty \in List
  BY DEF Entry, Empty, List
<1> QED
  BY <1>1 DEF Quiet, SyncRecord

LEMMA BegunIsTyped ==
  ASSUME NEW d \in Device, NEW m \in List
  PROVE  Begun(d, m) \in SyncRecord /\ Begun(d, m).at = "get" /\ Begun(d, m).on = d /\ Begun(d, m).work = m
  BY DEF Begun, Quiet, SyncRecord

LEMMA DoneIsTyped ==
  ASSUME NEW c \in SyncRecord
  PROVE  Done(c) \in SyncRecord /\ Done(c).at = "ok" /\ Done(c).on = c.on /\ Done(c).work = c.work /\ ~Done(c).shared
<1>1. c.on \in Device \cup {Nowhere} /\ c.work \in List
  BY DEF SyncRecord
<1> QED
  BY <1>1 DEF Done, Quiet, SyncRecord

LEMMA AgainIsTyped ==
  ASSUME NEW c \in SyncRecord
  PROVE  Again(c) \in SyncRecord /\ Again(c).at = "get" /\ Again(c).on = c.on /\ Again(c).work = c.work /\ ~Again(c).shared
<1>1. ASSUME NEW d \in Device \cup {Nowhere}, NEW m \in List, NEW n \in Nat
      PROVE  [Quiet EXCEPT !.at = "get", !.on = d, !.work = m, !.tries = n] \in SyncRecord
  BY DEF Quiet, SyncRecord
<1>2. c.on \in Device \cup {Nowhere} /\ c.work \in List /\ c.tries + 1 \in Nat
  BY DEF SyncRecord
<1>3. Again(c) \in SyncRecord
  BY <1>1, <1>2 DEF Again
<1> QED
  BY <1>3 DEF Again, Quiet

LEMMA TypedInit == Init => Typed
  BY NothingIsTyped DEF Init, Typed, Quiet

LEMMA TypedNext == Typed /\ [Next]_vars => Typed'
<1> SUFFICES ASSUME Typed, [Next]_vars PROVE Typed'
  OBVIOUS
<1> USE NothingIsTyped
<1>1. ASSUME NEW s \in Sync, NEW d \in Device, NEW h \in Handle, NEW gone \in BOOLEAN, Edit(s, d, h, gone)
      PROVE  Typed'
  <2> DEFINE new == local[d][h] = NoEntry
             entry == [day |-> IF new THEN today' ELSE local[d][h].day, gone |-> gone]
             list == [local[d] EXCEPT ![h] = entry]
  <2>1. today' \in Nat \ {0}
    BY <1>1, ContactsAssumption DEF Edit, Typed
  <2>2. local[d] \in List /\ local[d][h] \in Entry
    BY DEF Typed, List
  <2>3. (IF new THEN today' ELSE local[d][h].day) \in Nat \ {0}
    BY <2>1, <2>2 DEF Entry
  <2>4. entry \in Entry
    BY <2>3 DEF Entry
  <2> HIDE DEF entry, new
  <2>5. list \in List
    BY <2>2, <2>4 DEF List
  <2>6. Begun(d, list) \in SyncRecord /\ Begun(d, list).at = "get" /\ Begun(d, list).on = d
    BY <2>5, BegunIsTyped
  <2> HIDE DEF list
  <2>7. local' = [local EXCEPT ![d] = list]
    BY <1>1 DEF Edit, list, entry, new
  <2>8. sync' = [u \in Sync |->
           IF u = s THEN Begun(d, list)
           ELSE IF sync[u].on = d /\ sync[u].shared /\ sync[u].work[h] # NoEntry
                THEN [sync[u] EXCEPT !.work[h] = entry]
           ELSE sync[u]]
    BY <1>1 DEF Edit, list, entry, new
  <2>9. ASSUME NEW u \in Sync PROVE sync'[u] \in SyncRecord /\ (sync'[u].at # "idle" => sync'[u].on \in Device)
    <3>1. sync[u] \in SyncRecord /\ sync[u].work \in List
      BY DEF Typed, SyncRecord
    <3>2. [sync[u].work EXCEPT ![h] = entry] \in List
      BY <3>1, <2>4 DEF List
    <3>3. [sync[u] EXCEPT !.work[h] = entry] \in SyncRecord
      BY <3>1, <3>2 DEF SyncRecord
    <3>4. [sync[u] EXCEPT !.work[h] = entry].at = sync[u].at /\ [sync[u] EXCEPT !.work[h] = entry].on = sync[u].on
      BY <3>1 DEF SyncRecord
    <3> QED
      BY <2>6, <2>8, <3>1, <3>3, <3>4 DEF Typed
  <2>10. sync' \in [Sync -> SyncRecord]
    BY <2>8, <2>9
  <2>11. UNCHANGED <<row, erased, late>>
    BY <1>1 DEF Edit
  <2> QED
    BY <2>1, <2>5, <2>7, <2>9, <2>10, <2>11 DEF Typed
<1>2. ASSUME NEW s \in Sync, NEW d \in Device, SyncContacts(s, d) PROVE Typed'
  BY <1>2, BegunIsTyped DEF SyncContacts, Typed
<1>3. ASSUME NEW s \in Sync, GetContacts(s) PROVE Typed'
  <2>1. sync[s] \in SyncRecord /\ sync[s].work \in List /\ row.blob \in List /\ row.version \in Nat /\ erased \in Nat
    BY DEF Typed, SyncRecord
  <2>2. Merge(sync[s].work, row.blob) \in List
    BY <2>1, Merged
  <2>3. sync'[s] = [at |-> "put", on |-> sync[s].on, work |-> Merge(sync[s].work, row.blob), version |-> row.version,
                    era |-> erased, tries |-> sync[s].tries, shared |-> FALSE]
    BY <1>3, <2>1 DEF GetContacts, SyncRecord, Typed
  <2>4. sync'[s] \in SyncRecord /\ sync'[s].on \in Device
    BY <1>3, <2>1, <2>2, <2>3 DEF SyncRecord, GetContacts, Typed
  <2>5. DOMAIN sync' = Sync /\ \A u \in Sync \ {s} : sync'[u] = sync[u]
    BY <1>3 DEF GetContacts, Typed
  <2>6. \A u \in Sync : sync'[u] \in SyncRecord /\ (sync'[u].at # "idle" => sync'[u].on \in Device)
    BY <2>4, <2>5 DEF Typed
  <2>7. sync' \in [Sync -> SyncRecord]
    <3>1. sync' = [u \in Sync |-> sync'[u]]
      BY <1>3 DEF GetContacts, Typed
    <3> QED
      BY <2>6, <3>1
  <2>8. UNCHANGED <<today, local, row, erased, late>>
    BY <1>3 DEF GetContacts
  <2> QED
    BY <2>6, <2>7, <2>8 DEF Typed
<1>4. ASSUME NEW s \in Sync, UpdateContacts(s) PROVE Typed'
  <2>1. sync[s] \in SyncRecord /\ sync[s].work \in List /\ row.version \in Nat
    BY DEF Typed, SyncRecord
  <2>2. CASE UpdateContacts(s)!2!1
    BY <1>4, <2>1, <2>2, DoneIsTyped DEF UpdateContacts, Stored, Typed
  <2>3. CASE UpdateContacts(s)!2!2
    <3>1. Again(sync[s]) \in SyncRecord /\ Again(sync[s]).on = sync[s].on
      BY <2>1, AgainIsTyped
    <3> QED
      BY <1>4, <2>3, <3>1 DEF UpdateContacts, Typed
  <2>4. CASE UpdateContacts(s)!2!3
    BY <1>4, <2>4 DEF UpdateContacts, Typed, Quiet
  <2> QED
    BY <1>4, <2>2, <2>3, <2>4 DEF UpdateContacts
<1>5. ASSUME NEW s \in Sync, GiveUp(s) PROVE Typed'
  <2>1. sync' = [sync EXCEPT ![s] = Quiet] /\ UNCHANGED <<today, local, row, erased>>
    BY <1>5 DEF GiveUp
  <2>2. \A p \in late' : p.blob \in List /\ p.version \in Nat /\ p.era \in Nat
    BY <1>5 DEF GiveUp, Typed, SyncRecord
  <2> QED
    BY <2>1, <2>2 DEF Typed, Quiet
<1>6. ASSUME NEW s \in Sync, Synced(s) PROVE Typed'
  <2>1. sync[s] \in SyncRecord /\ sync[s].work \in List
    BY DEF Typed, SyncRecord
  <2>2. local' \in [Device -> List]
    BY <1>6, <2>1 DEF Synced, Typed
  <2>3. ASSUME NEW u \in Sync PROVE sync'[u] \in SyncRecord /\ (sync'[u].at # "idle" => sync'[u].on \in Device)
    BY <1>6, <2>3 DEF Synced, Typed, SyncRecord, Quiet
  <2> QED
    BY <1>6, <2>2, <2>3 DEF Synced, Typed
<1>7. ASSUME NEW p \in late, UpdateLate(p) PROVE Typed'
  BY <1>7 DEF UpdateLate, Stored, Typed
<1>8. ASSUME DeleteContacts PROVE Typed'
  BY <1>8 DEF DeleteContacts, Typed
<1>9. CASE UNCHANGED vars
  BY <1>9 DEF vars, Typed
<1> QED
  BY <1>1, <1>2, <1>3, <1>4, <1>5, <1>6, <1>7, <1>8, <1>9 DEF Next, AddContact, RemoveContact

-------------------------------------------------------------------------------
(* Nothing is overwritten.  A put that read the blob after the last        *)
(* deletion carries all that the blob of its version had, and no other     *)
(* blob of this era has that version.                                      *)

Carries(c) ==
  c.era = erased =>
    /\ c.version <= row.version
    /\ c.version = row.version => Within(row.blob, c.blob)

PutOf(s) == [blob |-> sync[s].work, version |-> sync[s].version, era |-> sync[s].era]

Informed ==
  /\ Typed
  /\ \A s \in Sync : sync[s].at = "put" => sync[s].era <= erased /\ ~sync[s].shared /\ Carries(PutOf(s))
  /\ \A p \in late : p.era <= erased /\ Carries(p)

\* A put that is done leaves those of its version behind.
LEMMA StoredCarries ==
  ASSUME Typed, NEW blob, Stored(blob), erased' = erased, NEW c, c.version \in Nat, Carries(c)
  PROVE  Carries(c)'
  BY DEF Typed, Stored, Carries

LEMMA InformedNext == Informed /\ [Next]_vars => Informed'
<1> SUFFICES ASSUME Informed, [Next]_vars
             PROVE  /\ \A s \in Sync : sync'[s].at = "put" =>
                         sync'[s].era <= erased' /\ ~sync'[s].shared /\ Carries(PutOf(s))'
                    /\ \A p \in late' : p.era <= erased' /\ Carries(p)'
  BY TypedNext DEF Informed
<1> DEFINE Goal == /\ \A s \in Sync : sync'[s].at = "put" =>
                         sync'[s].era <= erased' /\ ~sync'[s].shared /\ Carries(PutOf(s))'
                   /\ \A p \in late' : p.era <= erased' /\ Carries(p)'
<1>a. Typed
  BY DEF Informed
<1>b. ASSUME NEW u \in Sync
      PROVE  sync[u] \in SyncRecord /\ sync[u].version \in Nat /\ sync[u].era \in Nat
  BY <1>a DEF Typed, SyncRecord
\* Steps of the pages other than a request's end leave the puts alone.
<1>c. ASSUME UNCHANGED <<row, erased, late>>,
             \A s \in Sync : sync'[s].at = "put" => sync'[s] = sync[s]
      PROVE  Goal
  BY <1>c DEF Informed, Carries, PutOf
<1>1. ASSUME NEW s \in Sync, NEW d \in Device, NEW h \in Handle, NEW gone \in BOOLEAN, Edit(s, d, h, gone)
      PROVE  Goal
  <2>1. UNCHANGED <<row, erased, late>>
    BY <1>1 DEF Edit
  <2>2. ASSUME NEW u \in Sync, sync'[u].at = "put" PROVE sync'[u] = sync[u]
    <3>1. CASE u = s
      BY <1>1, <2>2, <3>1 DEF Edit, Begun, Quiet
    <3>2. CASE u # s /\ ~(sync[u].on = d /\ sync[u].shared /\ sync[u].work[h] # NoEntry)
      BY <1>1, <3>2 DEF Edit
    <3>3. CASE u # s /\ sync[u].shared
      <4>1. sync'[u].at = sync[u].at
        BY <1>1, <3>3, <1>b DEF Edit, SyncRecord
      <4> QED
        BY <2>2, <3>3, <4>1 DEF Informed
    <3> QED
      BY <3>1, <3>2, <3>3
  <2> QED
    BY <2>1, <2>2, <1>c
<1>2. ASSUME NEW s \in Sync, NEW d \in Device, SyncContacts(s, d) PROVE Goal
  <2>1. \A u \in Sync : sync'[u].at = "put" => sync'[u] = sync[u]
    BY <1>2, <1>a DEF SyncContacts, Typed, Begun, Quiet
  <2> QED
    BY <1>2, <2>1, <1>c DEF SyncContacts
<1>3. ASSUME NEW s \in Sync, GetContacts(s) PROVE Goal
  <2>1. sync[s].work \in List /\ row.blob \in List /\ row.version \in Nat /\ erased \in Nat
    BY <1>a, <1>b DEF Typed, SyncRecord
  <2>2. /\ sync'[s].work = Merge(sync[s].work, row.blob) /\ sync'[s].version = row.version
        /\ sync'[s].era = erased /\ ~sync'[s].shared
    BY <1>3, <1>a, <1>b DEF GetContacts, SyncRecord, Typed
  <2>3. Within(row.blob, Merge(sync[s].work, row.blob))
    BY <2>1, Merged
  <2>4. UNCHANGED <<row, erased, late>> /\ \A u \in Sync : u # s => sync'[u] = sync[u]
    BY <1>3, <1>a DEF GetContacts, Typed
  <2>5. Carries(PutOf(s))'
    BY <2>1, <2>2, <2>3, <2>4 DEF Carries, PutOf
  <2> QED
    BY <2>1, <2>2, <2>4, <2>5 DEF Informed, Carries, PutOf
<1>4. ASSUME NEW s \in Sync, UpdateContacts(s) PROVE Goal
  <2>1. sync'[s].at # "put" /\ \A u \in Sync : u # s => sync'[u] = sync[u]
    <3>1. CASE UpdateContacts(s)!2!1
      BY <3>1, <1>a, <1>b, DoneIsTyped DEF Typed
    <3>2. CASE UpdateContacts(s)!2!2
      BY <3>2, <1>a, <1>b, AgainIsTyped DEF Typed
    <3>3. CASE UpdateContacts(s)!2!3
      BY <3>3, <1>a DEF Typed, Quiet
    <3> QED
      BY <1>4, <3>1, <3>2, <3>3 DEF UpdateContacts
  <2>2. UNCHANGED <<erased, late>>
    BY <1>4 DEF UpdateContacts
  <2>3. CASE row' = row
    BY <2>1, <2>2, <2>3, <1>c
  <2>4. CASE Stored(sync[s].work)
    <3>1. ASSUME NEW u \in Sync, sync'[u].at = "put" PROVE sync'[u] = sync[u] /\ Carries(PutOf(u))'
      BY <2>1, <2>2, <2>4, <3>1, <1>a, <1>b, StoredCarries DEF Informed, PutOf, Carries
    <3>2. ASSUME NEW p \in late PROVE Carries(p)'
      BY <2>2, <2>4, <3>2, <1>a, StoredCarries DEF Informed, Typed
    <3> QED
      BY <2>2, <3>1, <3>2 DEF Informed
  <2> QED
    BY <1>4, <2>3, <2>4 DEF UpdateContacts
<1>5. ASSUME NEW s \in Sync, GiveUp(s) PROVE Goal
  <2>1. sync'[s].at # "put" /\ \A u \in Sync : u # s => sync'[u] = sync[u]
    BY <1>5, <1>a DEF GiveUp, Typed, Quiet
  <2>2. UNCHANGED <<row, erased>> /\ \A p \in late' : p \in late \/ (sync[s].at = "put" /\ p = PutOf(s))
    BY <1>5 DEF GiveUp, PutOf
  <2>3. \A p \in late' : p.era <= erased /\ Carries(p)
    BY <2>2 DEF Informed, PutOf
  <2> QED
    BY <2>1, <2>2, <2>3 DEF Informed, Carries, PutOf
<1>6. ASSUME NEW s \in Sync, Synced(s) PROVE Goal
  <2>1. ASSUME NEW u \in Sync, sync'[u].at = "put" PROVE sync'[u] = sync[u]
    <3>1. u # s
      BY <1>6, <2>1 DEF Synced, Quiet
    <3>2. sync'[u] = (IF sync[u].on = sync[s].on THEN [sync[u] EXCEPT !.shared = FALSE] ELSE sync[u])
      BY <1>6, <3>1 DEF Synced
    <3>3. sync[u].at = "put"
      BY <2>1, <3>2, <1>b DEF SyncRecord
    <3>4. sync[u].shared = FALSE
      <4>1. sync[u].shared \in BOOLEAN /\ ~sync[u].shared
        BY <3>3, <1>b, Zenon DEF Informed, SyncRecord
      <4> QED
        BY <4>1, Zenon
    <3> QED
      BY <3>2, <3>4, <1>b DEF SyncRecord
  <2> QED
    BY <1>6, <2>1, <1>c DEF Synced
<1>7. ASSUME NEW p \in late, UpdateLate(p) PROVE Goal
  <2>1. UNCHANGED <<sync, erased>> /\ late' \subseteq late
    BY <1>7 DEF UpdateLate
  <2>2. CASE row' = row
    BY <2>1, <2>2 DEF Informed, Carries, PutOf
  <2>3. CASE Stored(p.blob)
    <3>1. ASSUME NEW u \in Sync, sync'[u].at = "put" PROVE Carries(PutOf(u))'
      BY <2>1, <2>3, <3>1, <1>a, <1>b, StoredCarries DEF Informed, PutOf, Carries
    <3>2. ASSUME NEW q \in late PROVE Carries(q)'
      BY <2>1, <2>3, <3>2, <1>a, StoredCarries DEF Informed, Typed
    <3> QED
      BY <2>1, <3>1, <3>2 DEF Informed
  <2> QED
    BY <1>7, <2>2, <2>3 DEF UpdateLate
\* Every put under way is of an earlier era now.
<1>8. ASSUME DeleteContacts PROVE Goal
  <2>1. erased' = erased + 1 /\ erased \in Nat /\ UNCHANGED <<sync, late>>
    BY <1>8, <1>a DEF DeleteContacts, Typed
  <2>2. ASSUME NEW s \in Sync, sync[s].at = "put" PROVE sync[s].era <= erased' /\ sync[s].era # erased'
    BY <2>1, <2>2, <1>b DEF Informed
  <2>3. ASSUME NEW p \in late PROVE p.era <= erased' /\ p.era # erased'
    BY <2>1, <1>a DEF Informed, Typed
  <2> QED
    BY <2>1, <2>2, <2>3 DEF Informed, Carries, PutOf
<1>9. CASE UNCHANGED vars
  BY <1>9, <1>c DEF vars
<1> QED
  BY <1>1, <1>2, <1>3, <1>4, <1>5, <1>6, <1>7, <1>8, <1>9 DEF Next, AddContact, RemoveContact

LEMMA InformedHolds == Spec => []Informed
<1>1. Init => Informed
  BY TypedInit DEF Init, Informed, Quiet
<1> QED
  BY <1>1, InformedNext, PTL DEF Spec

LEMMA PutKeepsNext == Informed /\ [Next]_vars => [PutKeeps]_vars
<1> SUFFICES ASSUME Informed, Next, row'.version > row.version PROVE PutKeeps
  BY DEF PutKeeps
<1>1. Typed /\ row.version \in Nat
  BY DEF Informed, Typed
<1>2. row' # row
  BY <1>1
<1>3. ASSUME NEW s \in Sync, UpdateContacts(s) PROVE PutKeeps
  <2>1. Stored(sync[s].work) /\ Matches(sync[s].version) /\ sync[s].at = "put" /\ sync'[s].at = "ok"
    BY <1>1, <1>2, <1>3, DoneIsTyped DEF UpdateContacts, Typed
  <2>2. sync[s].era = erased => Within(row.blob, row'.blob)
    BY <2>1 DEF Informed, Carries, PutOf, Matches, Stored
  <2> QED
    BY <2>1, <2>2 DEF PutKeeps
<1>4. ASSUME NEW p \in late, UpdateLate(p) PROVE PutKeeps
  <2>1. Stored(p.blob) /\ Matches(p.version) /\ p \in late \ late'
    BY <1>2, <1>4 DEF UpdateLate
  <2>2. p.era = erased => Within(row.blob, row'.blob)
    BY <2>1 DEF Informed, Carries, Matches, Stored
  <2> QED
    BY <2>1, <2>2 DEF PutKeeps
<1>5. CASE DeleteContacts
  BY <1>1, <1>5 DEF DeleteContacts
<1>6. ASSUME NEW s \in Sync, NEW d \in Device, NEW h \in Handle, NEW gone, Edit(s, d, h, gone) PROVE PutKeeps
  BY <1>2, <1>6 DEF Edit
<1>7. ASSUME NEW s \in Sync, NEW d \in Device, SyncContacts(s, d) PROVE PutKeeps
  BY <1>2, <1>7 DEF SyncContacts
<1>8. ASSUME NEW s \in Sync, GetContacts(s) \/ GiveUp(s) \/ Synced(s) PROVE PutKeeps
  BY <1>2, <1>8 DEF GetContacts, GiveUp, Synced
<1> QED
  BY <1>3, <1>4, <1>5, <1>6, <1>7, <1>8 DEF Next, AddContact, RemoveContact

\* However many pages put, fail and retry, a put loses nothing that another put.
THEOREM NothingIsOverwritten == Spec => NothingOverwritten
  BY InformedHolds, PutKeepsNext, PTL DEF Spec, NothingOverwritten

-------------------------------------------------------------------------------
(* Added contacts stay.  Days of entries never sink on their way from a    *)
(* page to the blob, and no tombstone is later than the latest a page has  *)
(* made; whether the page still shows the contact is another matter.       *)

Older(m, n) == \A h \in Handle : m[h].day <= n[h].day

\* No tombstone of m is later than b says.
Under(m, b) == \A h \in Handle : m[h].gone => m[h].day <= b[h]

HistoryTyped == added \in [Device -> [Handle -> Nat]] /\ buried \in [Handle -> Nat]

\* The copy of a sync has the page's own entries as long as it shares them.
Alias ==
  \A s \in Sync :
    /\ sync[s].shared => \A h \in Handle : sync[s].work[h] \in {NoEntry, local[sync[s].on][h]}
    /\ sync[s].shared => sync[s].at = "get"
    /\ sync[s].at = "idle" => sync[s].on = Nowhere

Tombs ==
  /\ \A d \in Device : Under(local[d], buried)
  /\ \A s \in Sync : Under(sync[s].work, buried)
  /\ Under(row.blob, buried)
  /\ \A p \in late : Under(p.blob, buried)

\* What has been put is in the blob.
Settled == \A s \in Sync : sync[s].at = "ok" /\ erased = 0 => Older(sync[s].work, row.blob)

InSync(d, h) == \E s \in Sync : sync[s].on = d /\ sync[s].work[h].day >= added[d][h]

Lasting ==
  \A d \in Device : \A h \in Handle : added[d][h] > 0 =>
    erased = 0 /\ (InSync(d, h) \/ row.blob[h].day >= added[d][h])

Kept == Informed /\ HistoryTyped /\ Alias /\ Tombs /\ Settled /\ Lasting

LEMMA Days ==
  ASSUME NEW m \in List, NEW h \in Handle
  PROVE  m[h] \in Entry /\ m[h].day \in Nat /\ m[h].gone \in BOOLEAN
  BY EntryFields DEF List

LEMMA MergedDays ==
  ASSUME NEW e \in Entry, NEW f \in Entry
  PROVE  /\ e.day <= MergeEntry(e, f).day /\ f.day <= MergeEntry(e, f).day
         /\ MergeEntry(e, f).gone =>
              (e.gone /\ e.day = MergeEntry(e, f).day) \/ (f.gone /\ f.day = MergeEntry(e, f).day)
<1>1. e.day \in Nat /\ f.day \in Nat /\ e.gone \in BOOLEAN /\ f.gone \in BOOLEAN
  BY EntryFields
<1>2. CASE e.day > f.day
  BY <1>1, <1>2 DEF MergeEntry
<1>3. CASE f.day > e.day
  BY <1>1, <1>3 DEF MergeEntry
<1>4. CASE e.day = f.day
  BY <1>1, <1>4 DEF MergeEntry
<1> QED
  BY <1>1, <1>2, <1>3, <1>4

LEMMA MergedList ==
  ASSUME NEW m \in List, NEW n \in List
  PROVE  /\ Older(m, Merge(m, n)) /\ Older(n, Merge(m, n))
         /\ \A b : Under(m, b) /\ Under(n, b) => Under(Merge(m, n), b)
<1>1. ASSUME NEW h \in Handle
      PROVE  Merge(m, n)[h] = MergeEntry(m[h], n[h]) /\ m[h] \in Entry /\ n[h] \in Entry
  BY Days DEF Merge
<1>2. Older(m, Merge(m, n)) /\ Older(n, Merge(m, n))
  BY <1>1, MergedDays DEF Older
<1>3. ASSUME NEW b, Under(m, b), Under(n, b) PROVE Under(Merge(m, n), b)
  BY <1>1, <1>3, MergedDays DEF Under
<1> QED
  BY <1>2, <1>3

\* A list that has all of another has no earlier day.
LEMMA WithinIsOlder ==
  ASSUME NEW m \in List, NEW n \in List, Within(m, n)
  PROVE  Older(m, n)
  BY MergedDays, Days DEF Within, Older

LEMMA EmptyIsUnder ==
  ASSUME NEW b \in [Handle -> Nat]
  PROVE  Under(Empty, b) /\ Under(Quiet.work, b)
  BY DEF Under, Empty, NoEntry, Quiet

LEMMA KeptInit == Init => Kept
<1> SUFFICES ASSUME Init PROVE Kept
  OBVIOUS
<1>1. Informed
  BY TypedInit DEF Init, Informed, Quiet
<1>2. HistoryTyped
  BY DEF Init, HistoryTyped
<1>3. Alias /\ Settled /\ Lasting
  BY DEF Init, Alias, Settled, Lasting, Quiet
<1>4. Tombs
  BY <1>2, EmptyIsUnder DEF Init, Tombs, HistoryTyped
<1> QED
  BY <1>1, <1>2, <1>3, <1>4 DEF Kept

-------------------------------------------------------------------------------
(* What an edit does, taken apart once for all the parts of Kept.          *)

EditedEntry(d, h, gone) ==
  [day |-> IF local[d][h] = NoEntry THEN today' ELSE local[d][h].day, gone |-> gone]
EditedList(d, h, gone) == [local[d] EXCEPT ![h] = EditedEntry(d, h, gone)]

LEMMA EditedSteps ==
  ASSUME Typed, HistoryTyped, Alias, NEW s \in Sync, NEW d \in Device, NEW h \in Handle, NEW gone \in BOOLEAN,
         Edit(s, d, h, gone)
  PROVE  LET entry == EditedEntry(d, h, gone)
             list == EditedList(d, h, gone)
         IN  /\ entry.day \in Nat \ {0} /\ entry.gone = gone
             /\ entry.day >= local[d][h].day
             /\ list[h] = entry /\ \A k \in Handle \ {h} : list[k] = local[d][k]
             /\ local' = [local EXCEPT ![d] = list]
             /\ sync'[s] = Begun(d, list) /\ sync[s].on = Nowhere
             /\ \A u \in Sync \ {s} :
                  \/ sync'[u] = sync[u] /\ ~(sync[u].on = d /\ sync[u].shared /\ sync[u].work[h] # NoEntry)
                  \/ /\ sync'[u] = [sync[u] EXCEPT !.work[h] = entry]
                     /\ sync[u].on = d /\ sync[u].shared /\ sync[u].work[h] = local[d][h]
             /\ added' = IF gone \/ erased > 0 THEN added ELSE [added EXCEPT ![d][h] = entry.day]
             /\ buried' = IF gone /\ entry.day > buried[h] THEN [buried EXCEPT ![h] = entry.day] ELSE buried
             /\ UNCHANGED <<row, erased, late>>
<1> DEFINE entry == EditedEntry(d, h, gone)
           list == EditedList(d, h, gone)
<1>1. today' \in Nat \ {0} /\ local[d] \in List /\ local[d][h] \in Entry /\ local[d][h].day \in Nat
  BY ContactsAssumption, Days DEF Edit, Typed
<1>2. entry.day = (IF local[d][h] = NoEntry THEN today' ELSE local[d][h].day) /\ entry.gone = gone
  BY DEF EditedEntry
<1> HIDE DEF entry, list
<1>3. entry.day \in Nat \ {0} /\ entry.day >= local[d][h].day
  <2>1. CASE local[d][h] = NoEntry
    BY <1>1, <1>2, <2>1 DEF NoEntry
  <2>2. CASE local[d][h] # NoEntry
    BY <1>1, <1>2, <2>2 DEF Entry
  <2> QED
    BY <2>1, <2>2
<1> USE DEF entry, list
<1>4. list[h] = entry /\ \A k \in Handle \ {h} : list[k] = local[d][k]
  BY <1>1 DEF EditedList, List
<1>5. local' = [local EXCEPT ![d] = list]
  BY DEF Edit, EditedList, EditedEntry
<1>6. sync' = [u \in Sync |->
           IF u = s THEN Begun(d, list)
           ELSE IF sync[u].on = d /\ sync[u].shared /\ sync[u].work[h] # NoEntry
                THEN [sync[u] EXCEPT !.work[h] = entry]
           ELSE sync[u]]
  BY DEF Edit, EditedList, EditedEntry
<1>7. added' = IF gone \/ erased > 0 THEN added ELSE [added EXCEPT ![d][h] = entry.day]
  BY DEF Edit, EditedEntry
<1>8. buried' = IF gone /\ entry.day > buried[h] THEN [buried EXCEPT ![h] = entry.day] ELSE buried
  BY DEF Edit, EditedEntry
<1>9. UNCHANGED <<row, erased, late>> /\ sync[s].on = Nowhere
  BY DEF Edit, Alias
<1>10. ASSUME NEW u \in Sync \ {s}
       PROVE  \/ sync'[u] = sync[u] /\ ~(sync[u].on = d /\ sync[u].shared /\ sync[u].work[h] # NoEntry)
              \/ /\ sync'[u] = [sync[u] EXCEPT !.work[h] = entry]
                 /\ sync[u].on = d /\ sync[u].shared /\ sync[u].work[h] = local[d][h]
  BY <1>6 DEF Alias
<1> HIDE DEF entry, list
<1>11. sync'[s] = Begun(d, list)
  BY <1>6
<1> QED
  BY <1>2, <1>3, <1>4, <1>5, <1>7, <1>8, <1>9, <1>10, <1>11 DEF entry, list

-------------------------------------------------------------------------------
(* The parts of Kept, one after the other.                                 *)

LEMMA AliasNext == Typed /\ HistoryTyped /\ Alias /\ [Next]_vars => Alias'
<1> SUFFICES ASSUME Typed, HistoryTyped, Alias, [Next]_vars PROVE Alias'
  OBVIOUS
<1> DEFINE Fits(u) ==
      /\ sync'[u].shared => \A h \in Handle : sync'[u].work[h] \in {NoEntry, local'[sync'[u].on][h]}
      /\ sync'[u].shared => sync'[u].at = "get"
      /\ sync'[u].at = "idle" => sync'[u].on = Nowhere
<1>a. (\A u \in Sync : Fits(u)) => Alias'
  BY DEF Alias
<1>b. ASSUME NEW u \in Sync
      PROVE  sync[u] \in SyncRecord /\ sync[u].work \in List /\ (sync[u].at # "idle" => sync[u].on \in Device)
  BY DEF Typed, SyncRecord
<1>c. ASSUME NEW u \in Sync, sync'[u] = Quiet PROVE Fits(u)
  BY <1>c DEF Quiet
<1>d. ASSUME NEW u \in Sync, sync'[u] = sync[u], UNCHANGED local PROVE Fits(u)
  BY <1>d DEF Alias
<1>1. ASSUME NEW s \in Sync, NEW d \in Device, NEW h \in Handle, NEW gone \in BOOLEAN, Edit(s, d, h, gone)
      PROVE  Alias'
  <2> DEFINE entry == EditedEntry(d, h, gone)
             list == EditedList(d, h, gone)
  <2>1. /\ list[h] = entry /\ \A k \in Handle \ {h} : list[k] = local[d][k]
        /\ local' = [local EXCEPT ![d] = list]
        /\ sync'[s] = Begun(d, list)
        /\ \A u \in Sync \ {s} :
             \/ sync'[u] = sync[u] /\ ~(sync[u].on = d /\ sync[u].shared /\ sync[u].work[h] # NoEntry)
             \/ /\ sync'[u] = [sync[u] EXCEPT !.work[h] = entry]
                /\ sync[u].on = d /\ sync[u].shared /\ sync[u].work[h] = local[d][h]
    BY <1>1, EditedSteps
  <2> HIDE DEF entry, list
  <2>2. local'[d] = list /\ \A e \in Device \ {d} : local'[e] = local[e]
    BY <2>1 DEF Typed
  <2>3. Fits(s)
    BY <2>1, <2>2 DEF Begun, Quiet
  <2>4. ASSUME NEW u \in Sync \ {s} PROVE Fits(u)
    <3>1. CASE sync'[u] = sync[u] /\ ~(sync[u].on = d /\ sync[u].shared /\ sync[u].work[h] # NoEntry)
      <4>1. CASE sync[u].shared /\ sync[u].on = d
        BY <3>1, <4>1, <2>1, <2>2 DEF Alias
      <4>2. CASE ~sync[u].shared
        BY <3>1, <4>2 DEF Alias
      <4>3. CASE sync[u].shared /\ sync[u].on # d
        <5>1. sync[u].on \in Device \ {d}
          BY <4>3, <1>b DEF Alias
        <5> QED
          BY <3>1, <4>3, <5>1, <2>2 DEF Alias
      <4> QED
        BY <4>1, <4>2, <4>3
    <3>2. CASE /\ sync'[u] = [sync[u] EXCEPT !.work[h] = entry]
               /\ sync[u].on = d /\ sync[u].shared /\ sync[u].work[h] = local[d][h]
      <4>1. /\ sync'[u].at = sync[u].at /\ sync'[u].on = sync[u].on
            /\ sync'[u].work[h] = entry /\ \A k \in Handle \ {h} : sync'[u].work[k] = sync[u].work[k]
        BY <3>2, <1>b DEF SyncRecord, List
      <4> QED
        BY <3>2, <4>1, <2>1, <2>2 DEF Alias
    <3> QED
      BY <2>1, <3>1, <3>2
  <2> QED
    BY <1>a, <2>3, <2>4
<1>2. ASSUME NEW s \in Sync, NEW d \in Device, SyncContacts(s, d) PROVE Alias'
  <2>1. sync'[s] = Begun(d, local[d]) /\ UNCHANGED local /\ \A u \in Sync \ {s} : sync'[u] = sync[u]
    BY <1>2 DEF SyncContacts, Typed
  <2>2. Fits(s)
    BY <2>1 DEF Begun, Quiet
  <2> QED
    BY <1>a, <1>d, <2>1, <2>2
<1>3. ASSUME NEW s \in Sync, GetContacts(s) PROVE Alias'
  <2>1. UNCHANGED local /\ (\A u \in Sync \ {s} : sync'[u] = sync[u]) /\ ~sync'[s].shared /\ sync'[s].at = "put"
    BY <1>3, <1>b DEF GetContacts, Typed, SyncRecord
  <2> QED
    BY <1>a, <1>d, <2>1
<1>4. ASSUME NEW s \in Sync, UpdateContacts(s) PROVE Alias'
  <2>1. UNCHANGED local /\ \A u \in Sync \ {s} : sync'[u] = sync[u]
    BY <1>4 DEF UpdateContacts, Typed
  <2>2. sync'[s] = Done(sync[s]) \/ sync'[s] = Again(sync[s]) \/ sync'[s] = Quiet
    BY <1>4 DEF UpdateContacts, Typed
  <2>3. Fits(s)
    <3>1. CASE sync'[s] = Done(sync[s])
      BY <3>1, <1>b, DoneIsTyped
    <3>2. CASE sync'[s] = Again(sync[s])
      BY <3>2, <1>b, AgainIsTyped
    <3> QED
      BY <2>2, <3>1, <3>2, <1>c
  <2> QED
    BY <1>a, <1>d, <2>1, <2>3
<1>5. ASSUME NEW s \in Sync, GiveUp(s) PROVE Alias'
  BY <1>5, <1>a, <1>c, <1>d DEF GiveUp, Typed
<1>6. ASSUME NEW s \in Sync, Synced(s) PROVE Alias'
  <2>1. sync'[s] = Quiet
    BY <1>6 DEF Synced
  <2>2. ASSUME NEW u \in Sync \ {s}, sync[u].on = sync[s].on PROVE Fits(u)
    <3>1. sync'[u] = [sync[u] EXCEPT !.shared = FALSE]
      BY <1>6, <2>2 DEF Synced
    <3>2. sync'[u].shared = FALSE /\ sync'[u].at = sync[u].at /\ sync'[u].on = sync[u].on
      BY <3>1, <1>b DEF SyncRecord
    <3> QED
      BY <3>2 DEF Alias
  <2>3. ASSUME NEW u \in Sync \ {s}, sync[u].on # sync[s].on PROVE Fits(u)
    <3>1. sync'[u] = sync[u] /\ \A e \in Device : e # sync[s].on => local'[e] = local[e]
      BY <1>6, <2>3 DEF Synced, Typed
    <3>2. sync[u].shared => sync[u].on \in Device
      BY <1>b DEF Alias
    <3> QED
      BY <2>3, <3>1, <3>2 DEF Alias
  <2> QED
    BY <1>a, <1>c, <2>1, <2>2, <2>3
<1>7. ASSUME NEW p \in late, UpdateLate(p) PROVE Alias'
  BY <1>7, <1>a, <1>d DEF UpdateLate
<1>8. CASE DeleteContacts
  BY <1>8, <1>a, <1>d DEF DeleteContacts
<1>9. CASE UNCHANGED vars
  BY <1>9, <1>a, <1>d DEF vars
<1> QED
  BY <1>1, <1>2, <1>3, <1>4, <1>5, <1>6, <1>7, <1>8, <1>9 DEF Next, AddContact, RemoveContact

\* No step but an edit makes a tombstone, and the edit enters its day.
LEMMA TombsNext ==
  Typed /\ HistoryTyped /\ Alias /\ Tombs /\ [Next]_vars => HistoryTyped' /\ Tombs'
<1> SUFFICES ASSUME Typed, HistoryTyped, Alias, Tombs, [Next]_vars PROVE HistoryTyped' /\ Tombs'
  OBVIOUS
<1>a. ASSUME NEW u \in Sync PROVE sync[u] \in SyncRecord /\ sync[u].work \in List /\ Under(sync[u].work, buried)
  BY DEF Typed, SyncRecord, Tombs
<1>b. row.blob \in List /\ Under(Quiet.work, buried) /\ Under(Empty, buried)
  BY EmptyIsUnder DEF Typed, HistoryTyped
<1>1. ASSUME NEW s \in Sync, NEW d \in Device, NEW h \in Handle, NEW gone \in BOOLEAN, Edit(s, d, h, gone)
      PROVE  HistoryTyped' /\ Tombs'
  <2> DEFINE entry == EditedEntry(d, h, gone)
             list == EditedList(d, h, gone)
  <2>1. /\ entry.day \in Nat \ {0} /\ entry.gone = gone
        /\ list[h] = entry /\ \A k \in Handle \ {h} : list[k] = local[d][k]
        /\ local' = [local EXCEPT ![d] = list]
        /\ sync'[s] = Begun(d, list)
        /\ \A u \in Sync \ {s} : sync'[u] = sync[u] \/ sync'[u] = [sync[u] EXCEPT !.work[h] = entry]
        /\ added' = IF gone \/ erased > 0 THEN added ELSE [added EXCEPT ![d][h] = entry.day]
        /\ buried' = IF gone /\ entry.day > buried[h] THEN [buried EXCEPT ![h] = entry.day] ELSE buried
        /\ UNCHANGED <<row, late>>
    BY <1>1, EditedSteps
  <2> HIDE DEF entry, list
  <2>2. HistoryTyped'
    BY <2>1 DEF HistoryTyped
  <2>3. (gone => entry.day <= buried'[h]) /\ \A k \in Handle : buried[k] <= buried'[k]
    BY <2>1 DEF HistoryTyped
  <2>4. ASSUME NEW m \in List, Under(m, buried) PROVE Under(m, buried')
    <3> SUFFICES ASSUME NEW k \in Handle, m[k].gone PROVE m[k].day <= buried'[k]
      BY DEF Under
    <3>1. m[k].day \in Nat /\ buried[k] \in Nat /\ buried'[k] \in Nat
      BY <2>2, Days DEF HistoryTyped
    <3>2. m[k].day <= buried[k]
      BY <2>4 DEF Under
    <3> QED
      BY <2>3, <3>1, <3>2
  <2>5. Under(list, buried')
    <3>1. local[d] \in List /\ Under(local[d], buried)
      BY DEF Typed, Tombs
    <3>2. Under(local[d], buried')
      BY <2>4, <3>1
    <3> QED
      BY <2>1, <2>3, <3>2 DEF Under
  <2>6. ASSUME NEW e \in Device PROVE Under(local'[e], buried')
    <3>1. local'[e] = (IF e = d THEN list ELSE local[e])
      BY <2>1 DEF Typed
    <3>2. local[e] \in List /\ Under(local[e], buried)
      BY DEF Typed, Tombs
    <3> QED
      BY <3>1, <3>2, <2>4, <2>5
  <2>7. ASSUME NEW u \in Sync PROVE Under(sync'[u].work, buried')
    <3>1. CASE u = s
      BY <2>1, <2>5, <3>1 DEF Begun, Quiet
    <3>2. Under(sync[u].work, buried')
      BY <1>a, <2>4
    <3>3. CASE u # s /\ sync'[u] = sync[u]
      BY <3>2, <3>3
    <3>4. CASE u # s /\ sync'[u] = [sync[u] EXCEPT !.work[h] = entry]
      <4>1. sync'[u].work[h] = entry /\ \A k \in Handle \ {h} : sync'[u].work[k] = sync[u].work[k]
        BY <3>4, <1>a DEF SyncRecord, List
      <4> QED
        BY <2>1, <2>3, <3>2, <4>1 DEF Under
    <3> QED
      BY <2>1, <3>1, <3>3, <3>4
  <2>8. Under(row'.blob, buried') /\ \A p \in late' : Under(p.blob, buried')
    BY <2>1, <2>4 DEF Typed, Tombs
  <2> QED
    BY <2>2, <2>6, <2>7, <2>8 DEF Tombs
<1>2. ASSUME NEW s \in Sync, NEW d \in Device, SyncContacts(s, d) PROVE HistoryTyped' /\ Tombs'
  <2>1. sync'[s].work = local[d] /\ UNCHANGED <<local, row, late, added, buried>>
        /\ \A u \in Sync \ {s} : sync'[u] = sync[u]
    BY <1>2 DEF SyncContacts, Typed, Begun, Quiet, history
  <2> QED
    BY <2>1 DEF Tombs, HistoryTyped
<1>3. ASSUME NEW s \in Sync, GetContacts(s) PROVE HistoryTyped' /\ Tombs'
  <2>1. sync'[s].work = Merge(sync[s].work, row.blob) /\ UNCHANGED <<local, row, late, added, buried>>
        /\ \A u \in Sync \ {s} : sync'[u] = sync[u]
    BY <1>3, <1>a DEF GetContacts, Typed, SyncRecord, history
  <2>2. Under(Merge(sync[s].work, row.blob), buried)
    BY <1>a, <1>b, MergedList DEF Tombs
  <2> QED
    BY <2>1, <2>2 DEF Tombs, HistoryTyped
<1>4. ASSUME NEW s \in Sync, UpdateContacts(s) PROVE HistoryTyped' /\ Tombs'
  <2>1. /\ sync'[s].work = sync[s].work \/ sync'[s] = Quiet
        /\ row' = row \/ row'.blob = sync[s].work
        /\ UNCHANGED <<local, late>> /\ \A u \in Sync \ {s} : sync'[u] = sync[u]
    BY <1>4, <1>a, AgainIsTyped, DoneIsTyped DEF UpdateContacts, Typed, Stored
  <2>2. HistoryTyped' /\ buried' = buried
    BY <1>4 DEF UpdateContacts, Failed, HistoryTyped, history
  <2> QED
    BY <1>a, <1>b, <2>1, <2>2 DEF Tombs
<1>5. ASSUME NEW s \in Sync, GiveUp(s) PROVE HistoryTyped' /\ Tombs'
  <2>1. /\ sync'[s] = Quiet /\ UNCHANGED <<local, row, buried>> /\ \A u \in Sync \ {s} : sync'[u] = sync[u]
        /\ \A p \in late' : p \in late \/ p.blob = sync[s].work
    BY <1>5 DEF GiveUp, Failed, Typed
  <2>2. HistoryTyped'
    BY <1>5 DEF GiveUp, Failed, HistoryTyped
  <2> QED
    BY <1>a, <1>b, <2>1, <2>2 DEF Tombs
<1>6. ASSUME NEW s \in Sync, Synced(s) PROVE HistoryTyped' /\ Tombs'
  <2>1. UNCHANGED <<row, late, added, buried>> /\ sync'[s] = Quiet
    BY <1>6 DEF Synced, history
  <2>2. ASSUME NEW e \in Device PROVE Under(local'[e], buried)
    BY <1>6, <1>a DEF Synced, Typed, Tombs
  <2>3. ASSUME NEW u \in Sync \ {s} PROVE sync'[u].work = sync[u].work
    BY <1>6, <1>a DEF Synced, SyncRecord
  <2> QED
    BY <1>a, <1>b, <2>1, <2>2, <2>3 DEF Tombs, HistoryTyped
<1>7. ASSUME NEW p \in late, UpdateLate(p) PROVE HistoryTyped' /\ Tombs'
  BY <1>7 DEF UpdateLate, Stored, Tombs, HistoryTyped, history
<1>8. CASE DeleteContacts
  BY <1>8, <1>b DEF DeleteContacts, Tombs, HistoryTyped
<1>9. CASE UNCHANGED vars
  BY <1>9 DEF vars, history, Tombs, HistoryTyped
<1> QED
  BY <1>1, <1>2, <1>3, <1>4, <1>5, <1>6, <1>7, <1>8, <1>9 DEF Next, AddContact, RemoveContact

LEMMA OlderChain ==
  ASSUME NEW m \in List, NEW n \in List, NEW l \in List, Older(m, n), Older(n, l)
  PROVE  Older(m, m) /\ Older(m, l)
<1>1. ASSUME NEW h \in Handle PROVE m[h].day \in Nat /\ n[h].day \in Nat /\ l[h].day \in Nat
  BY Days
<1> QED
  BY <1>1 DEF Older

\* No put of this era takes an entry away, or makes it older.
LEMMA BlobGrows == Informed /\ [Next]_vars /\ erased' = 0 => Older(row.blob, row'.blob)
<1> SUFFICES ASSUME Informed, [Next]_vars, erased' = 0 PROVE Older(row.blob, row'.blob)
  OBVIOUS
<1>1. Typed /\ Typed'
  BY TypedNext DEF Informed
<1>2. row.blob \in List /\ row'.blob \in List /\ erased \in Nat
  BY <1>1 DEF Typed
<1>3. Within(row.blob, row'.blob) => Older(row.blob, row'.blob)
  BY <1>2, WithinIsOlder
<1>4. CASE row' = row
  BY <1>2, <1>4, Days DEF Older
<1>5. ASSUME NEW s \in Sync, UpdateContacts(s) PROVE Older(row.blob, row'.blob)
  <2>1. erased = 0 /\ sync[s].era \in Nat
    BY <1>1, <1>5 DEF UpdateContacts, Typed, SyncRecord
  <2>2. sync[s].at = "put" /\ sync[s].era = erased /\ Carries(PutOf(s))
    BY <1>5, <2>1 DEF UpdateContacts, Informed
  <2>3. CASE Stored(sync[s].work) /\ Matches(sync[s].version)
    BY <1>3, <2>2, <2>3 DEF Carries, PutOf, Matches, Stored
  <2> QED
    BY <1>4, <1>5, <2>3 DEF UpdateContacts
<1>6. ASSUME NEW p \in late, UpdateLate(p) PROVE Older(row.blob, row'.blob)
  <2>1. erased = 0 /\ p.era = erased /\ Carries(p)
    BY <1>1, <1>6 DEF UpdateLate, Informed, Typed
  <2>2. CASE Stored(p.blob) /\ Matches(p.version)
    BY <1>3, <2>1, <2>2 DEF Carries, Matches, Stored
  <2> QED
    BY <1>4, <1>6, <2>2 DEF UpdateLate
<1>7. CASE DeleteContacts
  BY <1>2, <1>7 DEF DeleteContacts
<1>8. ASSUME NEW s \in Sync, NEW d \in Device, NEW h \in Handle, NEW gone, Edit(s, d, h, gone)
      PROVE  Older(row.blob, row'.blob)
  BY <1>4, <1>8 DEF Edit
<1>9. ASSUME NEW s \in Sync, NEW d \in Device, SyncContacts(s, d) PROVE Older(row.blob, row'.blob)
  BY <1>4, <1>9 DEF SyncContacts
<1>10. ASSUME NEW s \in Sync, GetContacts(s) \/ GiveUp(s) \/ Synced(s) PROVE Older(row.blob, row'.blob)
  BY <1>4, <1>10 DEF GetContacts, GiveUp, Synced
<1>11. CASE UNCHANGED vars
  BY <1>4, <1>11 DEF vars
<1> QED
  BY <1>5, <1>6, <1>7, <1>8, <1>9, <1>10, <1>11 DEF Next, AddContact, RemoveContact

\* A sync keeps what it has, or what it has is in the blob.
Passed(u) ==
  \/ sync'[u].on = sync[u].on /\ Older(sync[u].work, sync'[u].work)
  \/ sync[u].on = Nowhere
  \/ erased = 0 => Older(sync[u].work, row.blob)

\* A sync that has its answer had it before, or has just put what it has.
Answered(u) ==
  sync'[u].at = "ok" =>
    \/ sync[u].at = "ok" /\ sync'[u].work = sync[u].work
    \/ row'.blob = sync'[u].work

LEMMA SettledKept ==
  ASSUME Kept, [Next]_vars, \A u \in Sync : Answered(u), erased' = 0 => erased = 0
  PROVE  Settled'
<1>1. Typed /\ Typed' /\ Informed
  BY TypedNext DEF Kept, Informed
<1> SUFFICES ASSUME NEW u \in Sync, sync'[u].at = "ok", erased' = 0
             PROVE  Older(sync'[u].work, row'.blob)
  BY DEF Settled
<1>2. sync[u].work \in List /\ row.blob \in List /\ row'.blob \in List /\ Older(row.blob, row'.blob)
  BY <1>1, BlobGrows DEF Typed, SyncRecord
<1>3. CASE sync[u].at = "ok" /\ sync'[u].work = sync[u].work
  BY <1>2, <1>3, OlderChain DEF Kept, Settled
<1>4. CASE row'.blob = sync'[u].work
  BY <1>2, <1>4, Days DEF Older
<1> QED
  BY <1>3, <1>4 DEF Answered

Claim(d, h) == erased = 0 /\ (InSync(d, h) \/ row.blob[h].day >= added[d][h])

LEMMA ClaimKept ==
  ASSUME Kept, [Next]_vars, \A u \in Sync : Passed(u), UNCHANGED erased,
         NEW d \in Device, NEW h \in Handle, added[d][h] > 0, added'[d][h] = added[d][h]
  PROVE  Claim(d, h)'
<1>1. Typed /\ Typed' /\ Informed /\ HistoryTyped
  BY TypedNext DEF Kept, Informed
<1>2. Claim(d, h) /\ d # Nowhere
  BY ContactsAssumption DEF Kept, Lasting, Claim
<1>3. row.blob[h].day \in Nat /\ row'.blob[h].day \in Nat /\ row.blob[h].day <= row'.blob[h].day
  BY <1>1, <1>2, BlobGrows, Days DEF Typed, Older, Claim
<1>4. added[d][h] \in Nat
  BY <1>1 DEF HistoryTyped
<1>5. CASE row.blob[h].day >= added[d][h]
  BY <1>2, <1>3, <1>4, <1>5 DEF Claim
<1>6. ASSUME NEW u \in Sync, sync[u].on = d, sync[u].work[h].day >= added[d][h] PROVE Claim(d, h)'
  <2>1. sync[u].work[h].day \in Nat /\ sync'[u].work[h].day \in Nat
    BY <1>1, Days DEF Typed, SyncRecord
  <2>2. CASE sync'[u].on = sync[u].on /\ Older(sync[u].work, sync'[u].work)
    <3>1. sync'[u].on = d /\ sync'[u].work[h].day >= added'[d][h]
      BY <1>4, <1>6, <2>1, <2>2 DEF Older
    <3> QED
      BY <1>2, <3>1 DEF Claim, InSync
  <2>3. CASE erased = 0 => Older(sync[u].work, row.blob)
    BY <1>2, <1>3, <1>4, <1>5, <1>6, <2>1, <2>3 DEF Older, Claim
  <2> QED
    BY <1>2, <1>6, <2>2, <2>3 DEF Passed
<1> QED
  BY <1>2, <1>5, <1>6 DEF Claim, InSync

\* A sync that ends without having put ends the record of what the blob has not.
LEMMA FailingKeeps ==
  ASSUME Kept, NEW s \in Sync, Failed(s), \A u \in Sync \ {s} : sync'[u] = sync[u],
         UNCHANGED <<row, erased>>, NEW d \in Device, NEW h \in Handle, added'[d][h] > 0
  PROVE  Claim(d, h)'
<1>1. Typed /\ HistoryTyped
  BY DEF Kept, Informed
<1>2. added'[d][h] = added[d][h] /\ added[d][h] > 0
      /\ ~(d = sync[s].on /\ sync[s].work[h] # NoEntry /\ row.blob[h].day < added[d][h])
  BY DEF Failed
<1>3. Claim(d, h)
  BY <1>2 DEF Kept, Lasting, Claim
<1>4. CASE row.blob[h].day >= added[d][h]
  BY <1>2, <1>3, <1>4 DEF Claim
<1>5. ASSUME NEW u \in Sync, sync[u].on = d, sync[u].work[h].day >= added[d][h] PROVE Claim(d, h)'
  <2>1. added[d][h] \in Nat /\ row.blob[h].day \in Nat /\ sync[u].work[h] # NoEntry
    BY <1>1, <1>2, <1>5, Days DEF HistoryTyped, Typed, NoEntry
  <2>2. CASE u = s
    BY <1>2, <1>4, <1>5, <2>1, <2>2
  <2>3. CASE u # s
    BY <1>2, <1>3, <1>5, <2>3 DEF Claim, InSync
  <2> QED
    BY <2>2, <2>3
<1> QED
  BY <1>3, <1>4, <1>5 DEF Claim, InSync

LEMMA LastingNext == Kept /\ [Next]_vars => Settled' /\ Lasting'
<1> SUFFICES ASSUME Kept, [Next]_vars PROVE Settled' /\ Lasting'
  OBVIOUS
<1>a. Typed /\ Typed' /\ HistoryTyped /\ Alias
  BY TypedNext DEF Kept, Informed
<1>b. ASSUME NEW u \in Sync PROVE sync[u] \in SyncRecord /\ sync[u].work \in List /\ Older(sync[u].work, sync[u].work)
  <2>1. sync[u] \in SyncRecord /\ sync[u].work \in List
    BY <1>a DEF Typed, SyncRecord
  <2> QED
    BY <2>1, Days DEF Older
<1>c. (\A d \in Device : \A h \in Handle : added'[d][h] > 0 => Claim(d, h)') => Lasting'
  BY DEF Lasting, Claim, InSync
<1>d. ASSUME NEW d \in Device, NEW h \in Handle PROVE added[d][h] \in Nat
  BY <1>a DEF HistoryTyped
\* A sync that is as it was.
<1>e. ASSUME NEW u \in Sync, sync'[u] = sync[u] PROVE Passed(u) /\ Answered(u)
  BY <1>b, <1>e DEF Passed, Answered
<1>f. ASSUME \A u \in Sync : Passed(u) /\ Answered(u), UNCHANGED <<erased, added>> PROVE Settled' /\ Lasting'
  BY <1>c, <1>f, SettledKept, ClaimKept
<1>1. ASSUME NEW s \in Sync, NEW d \in Device, NEW h \in Handle, NEW gone \in BOOLEAN, Edit(s, d, h, gone)
      PROVE  Settled' /\ Lasting'
  <2> DEFINE entry == EditedEntry(d, h, gone)
             list == EditedList(d, h, gone)
  <2>1. /\ entry.day \in Nat \ {0} /\ entry.day >= local[d][h].day
        /\ list[h] = entry
        /\ sync'[s] = Begun(d, list) /\ sync[s].on = Nowhere
        /\ \A u \in Sync \ {s} :
             \/ sync'[u] = sync[u]
             \/ /\ sync'[u] = [sync[u] EXCEPT !.work[h] = entry]
                /\ sync[u].on = d /\ sync[u].shared /\ sync[u].work[h] = local[d][h]
        /\ added' = IF gone \/ erased > 0 THEN added ELSE [added EXCEPT ![d][h] = entry.day]
        /\ UNCHANGED <<row, erased, late>>
    BY <1>1, <1>a, EditedSteps
  <2> HIDE DEF entry, list
  <2>2. Passed(s) /\ Answered(s)
    BY <2>1 DEF Passed, Answered, Begun, Quiet
  <2>3. ASSUME NEW u \in Sync \ {s}, sync'[u] = [sync[u] EXCEPT !.work[h] = entry],
               sync[u].shared, sync[u].work[h] = local[d][h]
        PROVE  Passed(u) /\ Answered(u)
    <3>1. /\ sync'[u].at = sync[u].at /\ sync'[u].on = sync[u].on
          /\ sync'[u].work[h] = entry /\ \A k \in Handle \ {h} : sync'[u].work[k] = sync[u].work[k]
      BY <2>3, <1>b DEF SyncRecord, List
    <3>2. \A k \in Handle : sync[u].work[k].day \in Nat
      BY <1>b, Days
    <3>3. Older(sync[u].work, sync'[u].work)
      BY <2>1, <2>3, <3>1, <3>2 DEF Older
    <3>4. sync'[u].at # "ok"
      BY <2>3, <3>1, <1>a DEF Alias
    <3> QED
      BY <3>1, <3>3, <3>4 DEF Passed, Answered
  <2>4. \A u \in Sync : Passed(u) /\ Answered(u)
    BY <2>1, <2>2, <2>3, <1>e
  <2>5. ASSUME NEW e \in Device, NEW k \in Handle, added'[e][k] > 0 PROVE Claim(e, k)'
    <3>1. CASE added'[e][k] = added[e][k]
      BY <2>1, <2>4, <2>5, <3>1, ClaimKept
    <3>2. CASE added'[e][k] # added[e][k]
      <4>1. e = d /\ k = h /\ added'[d][h] = entry.day /\ ~(erased > 0)
        BY <2>1, <3>2, <1>a DEF HistoryTyped
      <4>2. sync'[s].on = d /\ sync'[s].work[h] = entry
        BY <2>1 DEF Begun, Quiet
      <4>3. erased' = 0
        BY <2>1, <4>1, <1>a DEF Typed
      <4> QED
        BY <2>1, <4>1, <4>2, <4>3 DEF Claim, InSync
    <3> QED
      BY <3>1, <3>2
  <2>6. Settled'
    BY <2>1, <2>4, SettledKept
  <2> QED
    BY <1>c, <2>5, <2>6
<1>2. ASSUME NEW s \in Sync, NEW d \in Device, SyncContacts(s, d) PROVE Settled' /\ Lasting'
  <2>1. /\ sync'[s] = Begun(d, local[d]) /\ sync[s].on = Nowhere /\ UNCHANGED <<erased, added>>
        /\ \A u \in Sync \ {s} : sync'[u] = sync[u]
    BY <1>2, <1>a DEF SyncContacts, Typed, history, Alias
  <2>2. Passed(s) /\ Answered(s)
    BY <2>1 DEF Passed, Answered, Begun, Quiet
  <2> QED
    BY <2>1, <2>2, <1>e, <1>f
<1>3. ASSUME NEW s \in Sync, GetContacts(s) PROVE Settled' /\ Lasting'
  <2>1. /\ sync'[s].at = "put" /\ sync'[s].on = sync[s].on /\ sync'[s].work = Merge(sync[s].work, row.blob)
        /\ UNCHANGED <<erased, added>> /\ \A u \in Sync \ {s} : sync'[u] = sync[u]
    BY <1>3, <1>a, <1>b DEF GetContacts, SyncRecord, Typed, history
  <2>2. Older(sync[s].work, Merge(sync[s].work, row.blob))
    BY <1>a, <1>b, MergedList DEF Typed
  <2>3. Passed(s) /\ Answered(s)
    BY <2>1, <2>2 DEF Passed, Answered
  <2> QED
    BY <2>1, <2>3, <1>e, <1>f
<1>4. ASSUME NEW s \in Sync, UpdateContacts(s) PROVE Settled' /\ Lasting'
  <2>1. UNCHANGED erased /\ \A u \in Sync \ {s} : sync'[u] = sync[u]
    BY <1>4, <1>a DEF UpdateContacts, Typed
  <2>2. CASE UpdateContacts(s)!2!1
    <3>1. sync'[s].on = sync[s].on /\ sync'[s].work = sync[s].work /\ row'.blob = sync[s].work /\ UNCHANGED added
      BY <2>2, <1>a, <1>b, DoneIsTyped DEF Typed, Stored, history
    <3>2. Passed(s) /\ Answered(s)
      BY <3>1, <1>b DEF Passed, Answered
    <3> QED
      BY <2>1, <3>1, <3>2, <1>e, <1>f
  <2>3. CASE UpdateContacts(s)!2!2
    <3>1. sync'[s].at = "get" /\ sync'[s].on = sync[s].on /\ sync'[s].work = sync[s].work /\ UNCHANGED added
      BY <2>3, <1>a, <1>b, AgainIsTyped DEF Typed, history
    <3>2. Passed(s) /\ Answered(s)
      BY <3>1, <1>b DEF Passed, Answered
    <3> QED
      BY <2>1, <3>1, <3>2, <1>e, <1>f
  <2>4. CASE UpdateContacts(s)!2!3
    <3>1. sync'[s] = Quiet /\ Failed(s) /\ UNCHANGED row
      BY <2>4, <1>a DEF Typed
    <3>2. Answered(s)
      BY <3>1 DEF Answered, Quiet
    <3>3. Settled'
      BY <2>1, <3>2, <1>e, SettledKept
    <3>4. \A d \in Device : \A h \in Handle : added'[d][h] > 0 => Claim(d, h)'
      BY <2>1, <3>1, FailingKeeps
    <3> QED
      BY <1>c, <3>3, <3>4
  <2> QED
    BY <1>4, <2>2, <2>3, <2>4 DEF UpdateContacts
<1>5. ASSUME NEW s \in Sync, GiveUp(s) PROVE Settled' /\ Lasting'
  <2>1. UNCHANGED <<row, erased>> /\ Failed(s) /\ sync'[s] = Quiet /\ \A u \in Sync \ {s} : sync'[u] = sync[u]
    BY <1>5, <1>a DEF GiveUp, Typed
  <2>2. Answered(s)
    BY <2>1 DEF Answered, Quiet
  <2>3. Settled'
    BY <2>1, <2>2, <1>e, SettledKept
  <2>4. \A d \in Device : \A h \in Handle : added'[d][h] > 0 => Claim(d, h)'
    BY <2>1, FailingKeeps
  <2> QED
    BY <1>c, <2>3, <2>4
<1>6. ASSUME NEW s \in Sync, Synced(s) PROVE Settled' /\ Lasting'
  <2>1. UNCHANGED <<erased, row, added>> /\ sync'[s] = Quiet /\ sync[s].at = "ok"
    BY <1>6 DEF Synced, history
  <2>2. Passed(s) /\ Answered(s)
    BY <2>1 DEF Passed, Answered, Quiet, Kept, Settled
  <2>3. ASSUME NEW u \in Sync \ {s} PROVE Passed(u) /\ Answered(u)
    <3>1. sync'[u].at = sync[u].at /\ sync'[u].on = sync[u].on /\ sync'[u].work = sync[u].work
      BY <1>6, <1>b DEF Synced, SyncRecord
    <3> QED
      BY <3>1, <1>b DEF Passed, Answered
  <2> QED
    BY <2>1, <2>2, <2>3, <1>f
<1>7. ASSUME NEW p \in late, UpdateLate(p) PROVE Settled' /\ Lasting'
  BY <1>7, <1>e, <1>f DEF UpdateLate, history
<1>8. CASE DeleteContacts
  <2>1. UNCHANGED sync /\ erased' # 0 /\ added' = [d \in Device |-> [h \in Handle |-> 0]]
    BY <1>8, <1>a DEF DeleteContacts, Typed
  <2>2. Settled' /\ \A d \in Device : \A h \in Handle : added'[d][h] = 0
    BY <2>1 DEF Settled
  <2> QED
    BY <1>c, <2>2
<1>9. CASE UNCHANGED vars
  BY <1>9, <1>e, <1>f DEF vars, history
<1> QED
  BY <1>1, <1>2, <1>3, <1>4, <1>5, <1>6, <1>7, <1>8, <1>9 DEF Next, AddContact, RemoveContact

LEMMA KeptNext == Kept /\ [Next]_vars => Kept'
<1> SUFFICES ASSUME Kept, [Next]_vars PROVE Kept'
  OBVIOUS
<1>1. Informed' /\ Settled' /\ Lasting'
  BY InformedNext, LastingNext DEF Kept
<1>2. Typed /\ HistoryTyped /\ Alias /\ Tombs
  BY DEF Kept, Informed
<1> QED
  BY <1>1, <1>2, AliasNext, TombsNext DEF Kept

\* Whatever fails, however often and in whatever order, a contact added on a page is
\* on its way to the blob or in it, and only a removal as late as itself can have made
\* a tombstone of it, but for syncs that fail and until the blob is deleted.
THEOREM AddedStaysHolds == Spec => []AddedStays
<1>1. Kept => AddedStays
  <2> SUFFICES ASSUME Kept, NEW d \in Device, NEW h \in Handle, added[d][h] > 0
               PROVE  \/ \E s \in Sync : sync[s].on = d /\ Keeps(sync[s].work[h], h, added[d][h])
                      \/ Keeps(row.blob[h], h, added[d][h])
    BY DEF AddedStays
  <2>1. added[d][h] \in Nat /\ buried[h] \in Nat /\ Typed
    BY DEF Kept, HistoryTyped, Informed
  <2>2. ASSUME NEW m \in List, Under(m, buried), m[h].day >= added[d][h] PROVE Keeps(m[h], h, added[d][h])
    BY <2>1, <2>2, Days DEF Under, Keeps
  <2>3. row.blob \in List /\ Under(row.blob, buried)
    BY <2>1 DEF Typed, Kept, Tombs
  <2>4. \A s \in Sync : sync[s].work \in List /\ Under(sync[s].work, buried)
    BY <2>1 DEF Typed, SyncRecord, Kept, Tombs
  <2>5. InSync(d, h) \/ row.blob[h].day >= added[d][h]
    BY DEF Kept, Lasting
  <2> QED
    BY <2>2, <2>3, <2>4, <2>5 DEF InSync
<1> QED
  BY <1>1, KeptInit, KeptNext, PTL DEF Spec
===============================================================================
