------------------------------- MODULE Accounts --------------------------------
(***************************************************************************)
(* Accounts, sessions and the limiter per address (auth.Service,           *)
(* auth.SessionStore, auth.BoundedIPLimiter), with the proof of work in    *)
(* front of a sign-up.                                                     *)
(*                                                                         *)
(* A log-in reads the account's row and makes the session in two steps; a  *)
(* deletion looks up the session it comes with, drops the sessions of the  *)
(* account and erases the row in three, and an account may be deleted by   *)
(* two requests at once.  Sessions and deletions name accounts by id, and  *)
(* the id of an erased account is given again.                             *)
(***************************************************************************)
EXTENDS ProofOfWork

CONSTANTS Person,      \* account keys, and who holds them
          Nobody,
          MaxSessions, \* capacity of the session store
          Login,       \* goroutines that log in
          Deleter,     \* goroutines that delete an account
          Address,     \* addresses log-ins come from
          MaxAddresses, \* capacity of the limiter
          AttemptLimit, \* attempts an address has in a window
          MaxId,       \* bound: account ids
          MaxToken,    \* bound: sessions made
          MaxAttempts  \* bound: attempts to log in

ASSUME AccountsAssumption ==
  /\ Nobody \notin Person
  /\ MaxSessions \in Nat \ {0}
  /\ MaxAddresses \in Nat \ {0}
  /\ AttemptLimit \in Nat \ {0}
  /\ MaxId \in Nat /\ MaxToken \in Nat /\ MaxAttempts \in Nat

VARIABLES
  holder,     \* rows of accounts: whose key_hash each id has
  byToken,    \* sessions by token
  byAccount,  \* tokens by account
  issued,     \* sessions made so far
  login,      \* where each log-in stands
  deletion,   \* where each deletion stands
  bucket,     \* the limiter's buckets
  tries,      \* attempts to log in so far
  attempts,   \* attempts let through in the running window (history)
  evictions,  \* running buckets evicted in the running window (history)
  stray       \* sessions made when a row of their id was about to be erased, or of
              \* an account that has gone since the log-in read it (history)

sessionVars == <<byToken, byAccount, issued, stray>>
limiterVars == <<bucket, tries, attempts, evictions>>
vars == <<powVars, holder, sessionVars, login, deletion, limiterVars>>

Id == 1 .. MaxId
Token == 1 .. MaxToken
NoSession == [id |-> 0, person |-> Nobody, expired |-> FALSE]
NoBucket == [count |-> 0, running |-> FALSE]
NoLogin == [at |-> "idle", id |-> 0, person |-> Nobody]
NoDeletion == [at |-> "idle", id |-> 0]

Live == {t \in Token : byToken[t] # NoSession}

\* One type invariant for the module; the maps' sizes are within capacity.
TypeOK ==
  /\ PowTypeOK
  /\ holder \in [Id -> Person \cup {Nobody}]
  /\ byToken \in [Token -> [id : Id, person : Person, expired : BOOLEAN] \cup {NoSession}]
  /\ Cardinality(Live) <= MaxSessions
  /\ byAccount \in [Id -> SUBSET Token]
  /\ issued \in 0 .. MaxToken
  /\ login \in [Login -> [at : {"idle", "read", "create"}, id : 0 .. MaxId, person : Person \cup {Nobody}]]
  /\ deletion \in [Deleter -> [at : {"drop", "erase"}, id : Id] \cup {NoDeletion}]
  /\ bucket \in [Address -> [count : Nat, running : BOOLEAN]]
  /\ Cardinality({a \in Address : bucket[a] # NoBucket}) <= MaxAddresses
  /\ tries \in 0 .. MaxAttempts
  /\ attempts \in [Address -> Nat]
  /\ evictions \in [Address -> Nat]
  /\ stray \in SUBSET Token

Init ==
  /\ PowInit
  /\ holder = [i \in Id |-> Nobody]
  /\ byToken = [t \in Token |-> NoSession]
  /\ byAccount = [i \in Id |-> {}]
  /\ issued = 0
  /\ login = [l \in Login |-> NoLogin]
  /\ deletion = [d \in Deleter |-> NoDeletion]
  /\ bucket = [a \in Address |-> NoBucket]
  /\ tries = 0
  /\ attempts = [a \in Address |-> 0]
  /\ evictions = [a \in Address |-> 0]
  /\ stray = {}

-------------------------------------------------------------------------------
(* Sign-up.                                                                *)

\* INTEGER PRIMARY KEY without AUTOINCREMENT.
NextId(i) ==
  /\ \A k \in Id : holder[k] # Nobody => k < i
  /\ i > 1 => holder[i - 1] # Nobody

\* A sign-up without a token asks for no proof.  With one it goes on after the
\* verification has accepted it.
Proved ==
  \/ UNCHANGED powVars
  \/ \E v \in Verifier :
       /\ check[v].at = "accepted"
       /\ check' = [check EXCEPT ![v].at = "used"]
       /\ UNCHANGED <<epoch, cached>>

\* The key is fresh: its holder has no account yet.
CreateAccount(i, p) ==
  /\ NextId(i)
  /\ p \notin {holder[k] : k \in Id}
  /\ Proved
  /\ holder' = [holder EXCEPT ![i] = p]
  /\ UNCHANGED <<sessionVars, login, deletion, limiterVars>>

-------------------------------------------------------------------------------
(* The limiter.                                                            *)

Kept == {a \in Address : bucket[a] # NoBucket}
Over == {a \in Kept : ~bucket[a].running}

\* At capacity a bucket goes: one whose window has ended if there is one, else
\* an arbitrary one.
Room(lost) ==
  IF Cardinality(Kept) < MaxAddresses THEN lost = {}
  ELSE /\ Cardinality(lost) = 1
       /\ lost \subseteq (IF Over # {} THEN Over ELSE Kept)

\* Mutant: the last attempt of the window is given twice.
WithinAfter(a) == bucket[a].count <= AttemptLimit

\* count < limit.
Within(a) == bucket[a].count < AttemptLimit

\* Allow for a running window, and for a new one.
Allowed(a) ==
  \/ /\ bucket[a].running
     /\ Within(a)
     /\ bucket' = [bucket EXCEPT ![a].count = @ + 1]
     /\ attempts' = [attempts EXCEPT ![a] = @ + 1]
     /\ UNCHANGED evictions
  \/ /\ ~bucket[a].running
     /\ \E lost \in SUBSET Kept :
          /\ Room(lost)
          /\ bucket' = [b \in Address |->
               IF b = a THEN [count |-> 1, running |-> TRUE]
               ELSE IF b \in lost THEN NoBucket ELSE bucket[b]]
          /\ evictions' = [b \in Address |->
               IF b \in lost /\ bucket[b].running THEN evictions[b] + 1 ELSE evictions[b]]
     /\ attempts' = [attempts EXCEPT ![a] = @ + 1]

Limited(a) == bucket[a].running /\ ~Within(a) /\ UNCHANGED <<bucket, attempts, evictions>>

\* The minute of an address is over.
WindowEnds(a) ==
  /\ attempts[a] > 0
  /\ bucket' = [bucket EXCEPT ![a].running = FALSE]
  /\ attempts' = [attempts EXCEPT ![a] = 0]
  /\ evictions' = [evictions EXCEPT ![a] = 0]
  /\ UNCHANGED <<powVars, holder, sessionVars, login, deletion, tries>>

-------------------------------------------------------------------------------
(* Log-in and log-out.                                                     *)

\* Every attempt counts, the good ones too; one too many ends like a wrong key.
StartLogin(l, a) ==
  /\ login[l].at = "idle"
  /\ tries < MaxAttempts
  /\ tries' = tries + 1
  /\ \/ Allowed(a) /\ login' = [login EXCEPT ![l].at = "read"]
     \/ Limited(a) /\ UNCHANGED login
  /\ UNCHANGED <<powVars, holder, sessionVars, deletion>>

\* The row of the key, if there is one.  The write of last_seen_day that follows
\* changes nothing else, and its error is ignored.
ReadAccount(l, i) ==
  /\ login[l].at = "read"
  /\ \/ /\ holder[i] # Nobody
        /\ login' = [login EXCEPT ![l] = [at |-> "create", id |-> i, person |-> holder[i]]]
     \/ login' = [login EXCEPT ![l] = NoLogin]
  /\ UNCHANGED <<powVars, holder, sessionVars, deletion, limiterVars>>

\* Mutant: a session that is ended stays in the index of its account.
SessionsWithoutToken(S) ==
  /\ byToken' = [t \in Token |-> IF t \in S THEN NoSession ELSE byToken[t]]
  /\ byAccount' = byAccount

\* Both maps lose the tokens of S.
SessionsWithout(S) ==
  /\ byToken' = [t \in Token |-> IF t \in S THEN NoSession ELSE byToken[t]]
  /\ byAccount' = [i \in Id |-> byAccount[i] \ S]

\* Mutant: a full store makes no room.
VictimNone(S) == S = {}

\* At capacity the scan takes the first expired session it meets, or else the
\* first of all.
Victim(S) ==
  IF Cardinality(Live) < MaxSessions THEN S = {}
  ELSE /\ Cardinality(S) = 1
       /\ LET old == {t \in Live : byToken[t].expired}
          IN  S \subseteq (IF old # {} THEN old ELSE Live)

\* The ids whose sessions a deletion has dropped and whose row it will erase.
Doomed == {deletion[d].id : d \in {e \in Deleter : deletion[e].at = "erase"}}

\* The session is made for the id that was read.
CreateSession(l) ==
  /\ login[l].at = "create"
  /\ issued < MaxToken
  /\ LET token == issued + 1
         i == login[l].id
     IN  /\ \E S \in SUBSET Live :
              /\ Victim(S)
              /\ byToken' = [t \in Token |->
                   IF t = token THEN [id |-> i, person |-> login[l].person, expired |-> FALSE]
                   ELSE IF t \in S THEN NoSession ELSE byToken[t]]
              /\ byAccount' = [k \in Id |->
                   IF k = i THEN (byAccount[k] \ S) \cup {token} ELSE byAccount[k] \ S]
              /\ stray' = IF i \in Doomed \/ holder[i] # login[l].person
                          THEN (stray \ S) \cup {token} ELSE stray \ S
  /\ issued' = issued + 1
  /\ login' = [login EXCEPT ![l] = NoLogin]
  /\ UNCHANGED <<powVars, holder, deletion, limiterVars>>

Expire(t) ==
  /\ t \in Live /\ ~byToken[t].expired
  /\ byToken' = [byToken EXCEPT ![t].expired = TRUE]
  /\ UNCHANGED <<powVars, holder, byAccount, issued, stray, login, deletion, limiterVars>>

\* Log-out, and the look-up of an expired session, delete it.
DeleteSession(t) ==
  /\ t \in Live
  /\ SessionsWithout({t})
  /\ stray' = stray \ {t}
  /\ UNCHANGED <<powVars, holder, issued, login, deletion, limiterVars>>

-------------------------------------------------------------------------------
(* Deletion of an account, asked for with one of its sessions.             *)

\* Lookup of the session.
AskDeletion(d, t) ==
  /\ deletion[d].at = "idle"
  /\ t \in Live /\ ~byToken[t].expired
  /\ deletion' = [deletion EXCEPT ![d] = [at |-> "drop", id |-> byToken[t].id]]
  /\ UNCHANGED <<powVars, holder, sessionVars, login, limiterVars>>

\* Mutant: only one session of the account is dropped.
DropSessionsOne(d) ==
  /\ deletion[d].at = "drop"
  /\ \E S \in SUBSET byAccount[deletion[d].id] :
       /\ Cardinality(S) <= 1
       /\ SessionsWithout(S)
       /\ stray' = stray \ S
  /\ deletion' = [deletion EXCEPT ![d].at = "erase"]
  /\ UNCHANGED <<powVars, holder, issued, login, limiterVars>>

\* DeleteSessionsForAccount.
DropSessions(d) ==
  /\ deletion[d].at = "drop"
  /\ SessionsWithout(byAccount[deletion[d].id])
  /\ stray' = stray \ byAccount[deletion[d].id]
  /\ deletion' = [deletion EXCEPT ![d].at = "erase"]
  /\ UNCHANGED <<powVars, holder, issued, login, limiterVars>>

\* The transaction that erases the row of that id commits, whether or not its
\* request still waits for it, or fails with the request.  Whose row it is by
\* then nobody asks; there may be none.
EraseRow(d) ==
  /\ deletion[d].at = "erase"
  /\ deletion' = [deletion EXCEPT ![d] = NoDeletion]
  /\ holder' \in {holder, [holder EXCEPT ![deletion[d].id] = Nobody]}
  /\ UNCHANGED <<powVars, sessionVars, login, limiterVars>>

Next ==
  \/ /\ \/ NextEpoch
        \/ \E cur \in 1 .. MaxEpoch : OtherEnsures(cur)
        \/ \E v \in Verifier :
             \/ \E e \in 1 .. MaxEpoch + 1, s \in Solution : ReadClock(v, e, s)
             \/ EnsureEpoch(v)
             \/ GetChallenge(v)
     /\ UNCHANGED <<holder, sessionVars, login, deletion, limiterVars>>
  \/ \E i \in Id, p \in Person : CreateAccount(i, p)
  \/ \E d \in Deleter :
       \/ \E t \in Token : AskDeletion(d, t)
       \/ DropSessions(d)
       \/ EraseRow(d)
  \/ \E l \in Login :
       \/ \E a \in Address : StartLogin(l, a)
       \/ \E i \in Id : ReadAccount(l, i)
       \/ CreateSession(l)
  \/ \E a \in Address : WindowEnds(a)
  \/ \E t \in Token : Expire(t) \/ DeleteSession(t)

Spec == Init /\ [][Next]_vars

-------------------------------------------------------------------------------
(* Properties.                                                             *)

\* The two maps of the session store name the same sessions: one missing from
\* byAccount would outlive the deletion of its account.
MapsAgree ==
  \A t \in Token, i \in Id : t \in byAccount[i] <=> t \in Live /\ byToken[t].id = i

\* A session speaks for whoever logged in, although ids are given again.  The
\* exceptions are the sessions made for an id whose row a deletion was about to
\* erase -- the second of two deletions of one account, even, when the id had
\* been given to somebody else in between -- and those of an account that had
\* gone after its log-in read it.
SpeaksForItsOwner ==
  \A t \in Live : t \notin stray => holder[byToken[t].id] = byToken[t].person

\* An address has its attempts in a window, and as many again for every time
\* its running bucket is evicted.
AttemptsLimited ==
  \A a \in Address : attempts[a] <= AttemptLimit * (1 + evictions[a])
===============================================================================
