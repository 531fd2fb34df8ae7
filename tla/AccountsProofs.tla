----------------------------- MODULE AccountsProofs -----------------------------
(***************************************************************************)
(* Proofs about Accounts and ProofOfWork, for any people, log-ins,         *)
(* addresses, epochs and capacities.                                       *)
(***************************************************************************)
EXTENDS Accounts, FiniteSetTheorems, TLAPS

-------------------------------------------------------------------------------
(* The proof of work.  A verification at its look-up that nobody has met   *)
(* finds the engine where it has turned it itself.                         *)

CheckRecord == [at : {"idle", "ensure", "look"} \cup Ended, token : 0 .. MaxEpoch + 1,
                solved : Solution, cur : Int, met : BOOLEAN]

PowTyped ==
  /\ epoch \in 1 .. MaxEpoch
  /\ cached \in 0 .. epoch
  /\ check \in [Verifier -> CheckRecord]
  /\ \A v \in Verifier : check[v].cur \in 0 .. epoch

Unmet == \A v \in Verifier : check[v].at = "look" /\ ~check[v].met => cached = check[v].cur

PowInv == PowTyped /\ Unmet /\ HonestAccepted

LEMMA MovedIsTyped ==
  ASSUME NEW c \in CheckRecord, NEW at \in {"idle", "ensure", "look", "accepted", "expired", "insufficient", "used"},
         NEW d, d = [c EXCEPT !.at = at]
  PROVE  /\ d \in CheckRecord /\ d.at = at /\ d.token = c.token /\ d.solved = c.solved
         /\ d.cur = c.cur /\ d.met = c.met
  BY DEF CheckRecord, Ended

LEMMA MetIsTyped ==
  ASSUME NEW c \in CheckRecord, NEW d, d = [c EXCEPT !.met = TRUE]
  PROVE  /\ d \in CheckRecord /\ d.met /\ d.at = c.at /\ d.token = c.token /\ d.solved = c.solved
         /\ d.cur = c.cur
  BY DEF CheckRecord

LEMMA PowTypes == PowTyped => PowTypeOK
<1> SUFFICES ASSUME PowTyped PROVE PowTypeOK
  OBVIOUS
<1>1. ASSUME NEW v \in Verifier
      PROVE  check[v] \in [at : {"idle", "ensure", "look"} \cup Ended, token : 0 .. MaxEpoch + 1,
                           solved : Solution, cur : 0 .. epoch, met : BOOLEAN]
  <2>1. check[v] \in CheckRecord /\ check[v].cur \in 0 .. epoch
    BY DEF PowTyped
  <2> QED
    BY <2>1 DEF CheckRecord
<1> QED
  BY <1>1 DEF PowTyped, PowTypeOK

LEMMA PowInvInit == PowInit => PowInv
<1> SUFFICES ASSUME PowInit PROVE PowInv
  OBVIOUS
<1>2. NoCheck \in CheckRecord
  BY PowAssumption DEF NoCheck, CheckRecord, Solution
<1> QED
  BY <1>2, PowAssumption DEF PowInit, PowInv, PowTyped, Unmet, HonestAccepted, Accepted, Ended, NoCheck

\* A verification that stands where it stood.
Stays(v) == check'[v] = check[v] \/ (check[v].at = "look" /\ check'[v] = [check[v] EXCEPT !.met = TRUE])

\* The property of a verification, which its own record decides.
Rightly(c) ==
  c.at \in Ended /\ c.solved = "server" /\ InTime(c) /\ ~c.met => c.at \in {"accepted", "used"}

LEMMA RightlyIs == HonestAccepted <=> \A v \in Verifier : Rightly(check[v])
  BY DEF HonestAccepted, Accepted, Rightly, Ended

LEMMA RightlyIsNext == (HonestAccepted <=> \A v \in Verifier : Rightly(check[v]))'
  BY DEF HonestAccepted, Accepted, Rightly, Ended

LEMMA StaysRightly == ASSUME PowInv, NEW v \in Verifier, Stays(v) PROVE Rightly(check'[v])
<1>1. Rightly(check[v]) /\ check[v] \in CheckRecord
  BY RightlyIs DEF PowInv, PowTyped
<1>2. CASE check'[v] = check[v]
  BY <1>1, <1>2
<1>3. CASE check[v].at = "look" /\ check'[v] = [check[v] EXCEPT !.met = TRUE]
  BY <1>1, <1>3, MetIsTyped DEF Rightly, Ended
<1> QED
  BY <1>2, <1>3 DEF Stays

LEMMA NextEpochKeeps == PowInv /\ NextEpoch => PowInv'
<1> SUFFICES ASSUME PowInv, NextEpoch PROVE PowInv'
  OBVIOUS
<1>1. PowTyped'
  BY PowAssumption DEF PowInv, PowTyped, NextEpoch
<1> QED
  BY <1>1 DEF PowInv, NextEpoch, Unmet, HonestAccepted, Accepted

LEMMA ReadClockKeeps ==
  ASSUME PowInv, NEW v \in Verifier, NEW e \in 1 .. MaxEpoch + 1, NEW s \in Solution, ReadClock(v, e, s)
  PROVE  PowInv'
<1> DEFINE c == [at |-> "ensure", token |-> e, solved |-> s, cur |-> epoch, met |-> FALSE]
<1>1. c \in CheckRecord
  BY PowAssumption DEF CheckRecord, PowInv, PowTyped
<1>2. \A w \in Verifier : check'[w] = IF w = v THEN c ELSE check[w]
  BY DEF ReadClock, PowInv, PowTyped
<1>3. PowTyped'
  BY <1>1, PowAssumption DEF ReadClock, PowInv, PowTyped
<1>4. Unmet'
  BY <1>2 DEF ReadClock, PowInv, Unmet
<1>5. \A w \in Verifier : Rightly(check'[w])
  BY <1>2, RightlyIs DEF PowInv, Rightly, Ended
<1> QED
  BY <1>3, <1>4, <1>5, RightlyIsNext DEF PowInv

\* A verification that another one's turn of the engine passes by.
Passed(w, cur) ==
  /\ Stays(w)
  /\ check'[w] \in CheckRecord /\ check'[w].cur = check[w].cur /\ check'[w].at = check[w].at
  /\ ~check'[w].met => ~check[w].met
  /\ check[w].at = "look" /\ ~check'[w].met => cached = cur

LEMMA MetStays ==
  ASSUME PowInv, NEW w \in Verifier, NEW cur,
         check'[w] = IF check[w].at = "look" /\ cached # cur THEN [check[w] EXCEPT !.met = TRUE] ELSE check[w]
  PROVE  Passed(w, cur)
<1>1. check[w] \in CheckRecord
  BY DEF PowInv, PowTyped
<1>2. CASE check[w].at = "look" /\ cached # cur
  <2>1. check'[w] = [check[w] EXCEPT !.met = TRUE]
    BY <1>2
  <2> QED
    BY <1>1, <1>2, <2>1, MetIsTyped DEF Stays, Passed
<1>3. CASE ~(check[w].at = "look" /\ cached # cur)
  BY <1>1, <1>3 DEF Stays, Passed
<1> QED
  BY <1>2, <1>3

LEMMA OtherEnsuresKeeps == ASSUME PowInv, NEW cur, OtherEnsures(cur) PROVE PowInv'
<1>1. cached' = cur /\ cur \in 1 .. epoch /\ epoch' = epoch /\ check' = Met(Verifier, cur)
  BY DEF OtherEnsures, Rotated
<1>2. ASSUME NEW w \in Verifier PROVE Passed(w, cur)
  BY <1>1, MetStays DEF Met
<1>3. PowTyped'
  <2>1. check' \in [Verifier -> CheckRecord]
    BY <1>1, <1>2 DEF Met, Passed
  <2> QED
    BY <1>1, <1>2, <2>1 DEF PowInv, PowTyped, Passed
<1>4. Unmet'
  BY <1>1, <1>2 DEF PowInv, Unmet, Passed
<1>5. \A w \in Verifier : Rightly(check'[w])
  BY <1>2, StaysRightly DEF Passed
<1> QED
  BY <1>3, <1>4, <1>5, RightlyIsNext DEF PowInv

LEMMA EnsureEpochKeeps == ASSUME PowInv, NEW v \in Verifier, EnsureEpoch(v) PROVE PowInv'
<1> DEFINE cur == check[v].cur
           M == Met(Verifier \ {v}, cur)
<1>1. cached' = cur /\ cur \in 0 .. epoch /\ epoch' = epoch /\ check' = [M EXCEPT ![v].at = "look"]
  BY DEF EnsureEpoch, Rotated, PowInv, PowTyped
<1>2. M = [w \in Verifier |-> M[w]]
  BY DEF Met
<1>3. ASSUME NEW w \in Verifier, w # v PROVE Passed(w, cur)
  <2>1. check'[w] = IF check[w].at = "look" /\ cached # cur THEN [check[w] EXCEPT !.met = TRUE] ELSE check[w]
    BY <1>1, <1>2, <1>3 DEF Met
  <2> HIDE DEF cur
  <2> QED
    BY <2>1, MetStays
<1>4. check'[v] \in CheckRecord /\ check'[v].at = "look" /\ check'[v].cur = cur
  <2>1. M[v] = check[v] /\ check[v] \in CheckRecord
    BY DEF Met, PowInv, PowTyped
  <2>2. check'[v] = [check[v] EXCEPT !.at = "look"]
    BY <1>1, <1>2, <2>1
  <2> QED
    BY <2>1, <2>2, MovedIsTyped
<1>5. PowTyped'
  <2>1. check' = [w \in Verifier |-> check'[w]]
    BY <1>1, <1>2
  <2>2. \A w \in Verifier : check'[w] \in CheckRecord /\ check'[w].cur \in 0 .. epoch
    BY <1>1, <1>3, <1>4 DEF PowInv, PowTyped, Passed
  <2>3. check' \in [Verifier -> CheckRecord]
    BY <2>1, <2>2
  <2> QED
    BY <1>1, <2>2, <2>3 DEF PowInv, PowTyped, Passed
<1>6. Unmet'
  <2> SUFFICES ASSUME NEW w \in Verifier, check'[w].at = "look", ~check'[w].met PROVE cached' = check'[w].cur
    BY DEF Unmet
  <2> QED
    BY <1>1, <1>3, <1>4 DEF PowInv, Unmet, Passed
<1>7. ASSUME NEW w \in Verifier PROVE Rightly(check'[w])
  <2>1. CASE w = v
    BY <1>4, <2>1 DEF Rightly, Ended
  <2>2. CASE w # v
    BY <1>3, <2>2, StaysRightly DEF Passed
  <2> QED
    BY <2>1, <2>2
<1> QED
  BY <1>5, <1>6, <1>7, RightlyIsNext DEF PowInv

LEMMA GetChallengeKeeps == ASSUME PowInv, NEW v \in Verifier, GetChallenge(v) PROVE PowInv'
<1>1. check[v] \in CheckRecord /\ check[v].at = "look" /\ cached \in Int /\ check[v].token \in Int /\ check[v].cur \in Int
  BY DEF GetChallenge, PowInv, PowTyped, CheckRecord
<1>2. Verdict(v) \in {"accepted", "expired", "insufficient"}
  BY DEF Verdict
<1>3. /\ check'[v] = [check[v] EXCEPT !.at = Verdict(v)]
      /\ \A w \in Verifier : w # v => check'[w] = check[w]
  BY DEF GetChallenge, PowInv, PowTyped
<1>4. /\ check'[v] \in CheckRecord /\ check'[v].at = Verdict(v) /\ check'[v].token = check[v].token
      /\ check'[v].solved = check[v].solved /\ check'[v].cur = check[v].cur /\ check'[v].met = check[v].met
  BY <1>1, <1>2, <1>3, MovedIsTyped DEF Ended
<1>5. PowTyped'
  BY <1>3, <1>4 DEF GetChallenge, PowInv, PowTyped
<1>6. Unmet'
  BY <1>2, <1>3, <1>4 DEF GetChallenge, PowInv, Unmet
<1>7. Rightly(check'[v])
  <2>1. Verdict(v) = "accepted" => InTime(check'[v])
    BY <1>4 DEF Verdict, InTolerance, InTime
  <2>2. ASSUME check[v].solved = "server", InTime(check[v]), ~check[v].met PROVE Verdict(v) = "accepted"
    <3>1. cached = check[v].cur
      BY <1>1, <2>2 DEF PowInv, Unmet
    <3>2. Found(v) = check[v].token
      BY <1>1, <3>1 DEF Found
    <3> QED
      BY <2>2, <3>2 DEF Verdict, InTolerance
  <2> QED
    BY <1>2, <1>4, <2>1, <2>2 DEF Rightly, InTime
<1>8. \A w \in Verifier : Rightly(check'[w])
  BY <1>3, <1>7, RightlyIs DEF PowInv
<1> QED
  BY <1>5, <1>6, <1>8, RightlyIsNext DEF PowInv

LEMMA ProvedKeeps == PowInv /\ Proved => PowInv'
<1> SUFFICES ASSUME PowInv, Proved PROVE PowInv'
  OBVIOUS
<1>1. CASE UNCHANGED powVars
  BY <1>1 DEF powVars, PowInv, PowTyped, Unmet, HonestAccepted, Accepted
<1>2. ASSUME NEW v \in Verifier, check[v].at = "accepted", check' = [check EXCEPT ![v].at = "used"],
             UNCHANGED <<epoch, cached>>
      PROVE  PowInv'
  <2>1. check[v] \in CheckRecord /\ check'[v] = [check[v] EXCEPT !.at = "used"]
    BY <1>2 DEF PowInv, PowTyped
  <2>2. /\ check'[v] \in CheckRecord /\ check'[v].at = "used" /\ check'[v].token = check[v].token
        /\ check'[v].solved = check[v].solved /\ check'[v].cur = check[v].cur /\ check'[v].met = check[v].met
    BY <2>1, MovedIsTyped DEF Ended
  <2>3. \A w \in Verifier : w # v => check'[w] = check[w]
    BY <1>2
  <2>4. PowTyped'
    BY <1>2, <2>2, <2>3 DEF PowInv, PowTyped
  <2>5. Unmet'
    BY <1>2, <2>2, <2>3 DEF PowInv, Unmet
  <2>6. \A w \in Verifier : Rightly(check'[w])
    BY <1>2, <2>2, <2>3, RightlyIs DEF PowInv, Rightly, InTime
  <2> QED
    BY <2>4, <2>5, <2>6, RightlyIsNext DEF PowInv
<1> QED
  BY <1>1, <1>2 DEF Proved

-------------------------------------------------------------------------------
(* Sessions.  The two maps agree at every step, so that dropping the       *)
(* sessions of an account leaves none; those made afterwards are stray,    *)
(* and an id is given again only when its row has been erased.             *)

SessionRecord == [id : Id, person : Person, expired : BOOLEAN]

SessionsTyped ==
  /\ holder \in [Id -> Person \cup {Nobody}]
  /\ byToken \in [Token -> SessionRecord \cup {NoSession}]
  /\ byAccount \in [Id -> SUBSET Token]
  /\ issued \in 0 .. MaxToken
  /\ login \in [Login -> [at : {"idle", "read", "create"}, id : 0 .. MaxId, person : Person \cup {Nobody}]]
  /\ deletion \in [Deleter -> [at : {"drop", "erase"}, id : Id] \cup {NoDeletion}]
  /\ stray \in SUBSET Token

\* A log-in about to make a session has read an account.
HasRead == \A l \in Login : login[l].at = "create" => login[l].id \in Id /\ login[l].person \in Person

\* Sessions of an id whose row is about to be erased are stray; no session has a
\* token that is yet to be made.
Forsaken ==
  \A t \in Live, d \in Deleter :
    deletion[d].at = "erase" /\ deletion[d].id = byToken[t].id => t \in stray
Made == \A t \in Live : t <= issued

SessInv == SessionsTyped /\ HasRead /\ MapsAgree /\ SpeaksForItsOwner /\ Forsaken /\ Made

accountVars == <<holder, sessionVars, login, deletion>>

LEMMA SessionIsNot == ASSUME NEW x \in SessionRecord PROVE x # NoSession /\ x.id \in Id /\ x.person \in Person
<1>1. x.id \in Id /\ x.person \in Person
  BY DEF SessionRecord
<1>2. NoSession.id = 0
  BY DEF NoSession
<1> QED
  BY <1>1, <1>2, AccountsAssumption DEF Id

LEMMA LiveIs ==
  ASSUME SessionsTyped
  PROVE  /\ Live \subseteq Token
         /\ \A t \in Live : byToken[t] \in SessionRecord /\ byToken[t].id \in Id /\ byToken[t].person \in Person
  BY SessionIsNot DEF SessionsTyped, Live

LEMMA SessInvInit == Init => SessInv
<1> SUFFICES ASSUME Init PROVE SessInv
  OBVIOUS
<1>1. SessionsTyped
  BY AccountsAssumption DEF Init, SessionsTyped, NoLogin, Id, Token
<1>2. Live = {}
  BY DEF Init, Live
<1> QED
  BY <1>1, <1>2 DEF Init, SessInv, HasRead, MapsAgree, SpeaksForItsOwner, Forsaken, Made, NoLogin

\* Steps that leave sessions alone.
LEMMA LoginKeeps ==
  ASSUME SessInv, UNCHANGED <<holder, sessionVars, deletion>>,
         login' \in [Login -> [at : {"idle", "read", "create"}, id : 0 .. MaxId, person : Person \cup {Nobody}]],
         HasRead'
  PROVE  SessInv'
<1>1. SessionsTyped' /\ Live' = Live
  BY DEF SessInv, SessionsTyped, sessionVars, Live, Token
<1> QED
  BY <1>1 DEF SessInv, MapsAgree, SpeaksForItsOwner, Forsaken, Made, sessionVars

\* Sessions S go, with those of every deletion that is about to erase a row and
\* was not before.
LEMMA WithoutKeeps ==
  ASSUME SessInv, NEW S \in SUBSET Token, SessionsWithout(S), stray' = stray \ S,
         UNCHANGED <<holder, issued, login>>,
         deletion' \in [Deleter -> [at : {"drop", "erase"}, id : Id] \cup {NoDeletion}],
         \A t \in Live \ S, d \in Deleter :
           deletion'[d].at = "erase" /\ deletion'[d].id = byToken[t].id => deletion[d] = deletion'[d]
  PROVE  SessInv'
<1>a. SessionsTyped
  BY DEF SessInv
<1>1. \A t \in Token : byToken'[t] = IF t \in S THEN NoSession ELSE byToken[t]
  BY DEF SessionsWithout
<1>2. \A i \in Id : byAccount'[i] = byAccount[i] \ S
  BY DEF SessionsWithout
<1>3. Live' = Live \ S /\ \A t \in Live' : byToken'[t] = byToken[t]
  BY <1>1 DEF Live
<1>4. SessionsTyped'
  BY <1>a DEF SessionsTyped, SessionsWithout
<1>5. MapsAgree'
  BY <1>2, <1>3 DEF SessInv, MapsAgree
<1>6. SpeaksForItsOwner' /\ Forsaken' /\ Made'
  BY <1>3 DEF SessInv, SpeaksForItsOwner, Forsaken, Made
<1> QED
  BY <1>4, <1>5, <1>6 DEF SessInv, HasRead

\* An id is given again only after its row, and so after its sessions.
LEMMA CreateAccountKeeps ==
  ASSUME SessInv, NEW i \in Id, NEW p \in Person, CreateAccount(i, p)
  PROVE  SessInv'
<1>1. holder[i] = Nobody /\ holder' = [holder EXCEPT ![i] = p] /\ UNCHANGED <<sessionVars, login, deletion>>
  <2>1. holder[i] # Nobody => i < i
    BY DEF CreateAccount, NextId
  <2> QED
    BY <2>1 DEF CreateAccount, Id
<1>2. SessionsTyped' /\ Live' = Live /\ HasRead' /\ MapsAgree' /\ Forsaken' /\ Made'
  BY <1>1 DEF SessInv, SessionsTyped, sessionVars, Live, Token, HasRead, MapsAgree, Forsaken, Made
<1>3. SpeaksForItsOwner'
  <2> SUFFICES ASSUME NEW t \in Live, t \notin stray PROVE holder'[byToken[t].id] = byToken[t].person
    BY <1>1, <1>2 DEF SpeaksForItsOwner, sessionVars
  <2>1. holder[byToken[t].id] = byToken[t].person /\ byToken[t].person # Nobody /\ byToken[t].id \in Id
    BY LiveIs, AccountsAssumption DEF SessInv, SpeaksForItsOwner
  <2> QED
    BY <1>1, <2>1 DEF SessInv, SessionsTyped
<1> QED
  BY <1>2, <1>3 DEF SessInv

LEMMA CreateSessionKeeps ==
  ASSUME SessInv, NEW l \in Login, CreateSession(l)
  PROVE  SessInv'
<1> DEFINE token == issued + 1
           i == login[l].id
           made == [id |-> i, person |-> login[l].person, expired |-> FALSE]
<1>a. SessionsTyped
  BY DEF SessInv
<1>1. i \in Id /\ login[l].person \in Person /\ token \in Token /\ issued \in Nat /\ token > issued
  BY AccountsAssumption DEF CreateSession, SessInv, SessionsTyped, HasRead, Token
<1>2. PICK S \in SUBSET Live :
        /\ byToken' = [t \in Token |->
             IF t = token THEN made ELSE IF t \in S THEN NoSession ELSE byToken[t]]
        /\ byAccount' = [k \in Id |-> IF k = i THEN (byAccount[k] \ S) \cup {token} ELSE byAccount[k] \ S]
        /\ stray' = IF i \in Doomed \/ holder[i] # login[l].person
                    THEN (stray \ S) \cup {token} ELSE stray \ S
  BY DEF CreateSession
<1>3. UNCHANGED <<holder, deletion>> /\ issued' = issued + 1 /\ issued' \in 0 .. MaxToken /\ login' = [login EXCEPT ![l] = NoLogin]
  BY <1>1 DEF CreateSession, Token
<1>4. made \in SessionRecord /\ made # NoSession
  BY <1>1, SessionIsNot DEF SessionRecord
<1>5. token \notin Live
  BY <1>1, LiveIs, <1>a DEF SessInv, Made, Token
<1>6. byToken'[token] = made /\ \A t \in Token : t # token => byToken'[t] = IF t \in S THEN NoSession ELSE byToken[t]
  BY <1>1, <1>2
<1>7. Live' = (Live \ S) \cup {token}
  BY <1>1, <1>4, <1>5, <1>6 DEF Live
<1>8. \A t \in Live \ S : byToken'[t] = byToken[t] /\ t # token /\ t \in Token
  BY <1>5, <1>6, <1>a, LiveIs
<1> HIDE DEF made
<1>9. made.id = i /\ made.person = login[l].person
  BY DEF made
<1>10. SessionsTyped' /\ HasRead'
  <2>1. byToken' \in [Token -> SessionRecord \cup {NoSession}]
    BY <1>2, <1>4, <1>a DEF SessionsTyped
  <2>2. byAccount' \in [Id -> SUBSET Token]
    BY <1>1, <1>2, <1>a DEF SessionsTyped
  <2>3. stray' \in SUBSET Token
    BY <1>1, <1>2, <1>a DEF SessionsTyped
  <2>4. NoLogin \in [at : {"idle", "read", "create"}, id : 0 .. MaxId, person : Person \cup {Nobody}] /\ NoLogin.at = "idle"
    BY AccountsAssumption DEF NoLogin
  <2> QED
    BY <1>3, <2>1, <2>2, <2>3, <2>4, <1>a DEF SessionsTyped, SessInv, HasRead
<1>11. MapsAgree'
  <2> SUFFICES ASSUME NEW t \in Token, NEW k \in Id PROVE t \in byAccount'[k] <=> t \in Live' /\ byToken'[t].id = k
    BY DEF MapsAgree
  <2>1. t \in byAccount[k] <=> t \in Live /\ byToken[t].id = k
    BY DEF SessInv, MapsAgree
  <2>2. CASE t = token
    BY <1>2, <1>5, <1>6, <1>7, <1>9, <2>1, <2>2
  <2>3. CASE t # token
    BY <1>2, <1>7, <1>8, <2>1, <2>3
  <2> QED
    BY <2>2, <2>3
<1>12. SpeaksForItsOwner' /\ Forsaken'
  <2> SUFFICES ASSUME NEW t \in Live'
               PROVE  /\ t \notin stray' => holder[byToken'[t].id] = byToken'[t].person
                      /\ \A d \in Deleter :
                           deletion[d].at = "erase" /\ deletion[d].id = byToken'[t].id => t \in stray'
    BY <1>3 DEF SpeaksForItsOwner, Forsaken
  <2>1. CASE t = token
    BY <1>2, <1>6, <1>9, <2>1 DEF Doomed
  <2>2. CASE t # token
    BY <1>2, <1>7, <1>8, <2>2 DEF SessInv, SpeaksForItsOwner, Forsaken
  <2> QED
    BY <2>1, <2>2
<1>13. Made'
  BY <1>1, <1>3, <1>7, <1>8 DEF SessInv, Made, Token
<1> QED
  BY <1>10, <1>11, <1>12, <1>13 DEF SessInv

LEMMA ExpireKeeps ==
  ASSUME SessInv, NEW t \in Token, Expire(t)
  PROVE  SessInv'
<1>a. SessionsTyped
  BY DEF SessInv
<1>1. t \in Live /\ byToken' = [byToken EXCEPT ![t].expired = TRUE]
      /\ UNCHANGED <<holder, byAccount, issued, stray, login, deletion>>
  BY DEF Expire
<1>2. byToken[t] \in SessionRecord
  BY <1>1, <1>a, LiveIs
<1>3. byToken'[t] = [byToken[t] EXCEPT !.expired = TRUE] /\ \A u \in Token : u # t => byToken'[u] = byToken[u]
  BY <1>1, <1>a DEF SessionsTyped
<1>4. byToken'[t] \in SessionRecord /\ byToken'[t].id = byToken[t].id /\ byToken'[t].person = byToken[t].person
  BY <1>2, <1>3 DEF SessionRecord
<1>5. Live' = Live
  BY <1>1, <1>3, <1>4, SessionIsNot DEF Live
<1>6. \A u \in Live : byToken'[u].id = byToken[u].id /\ byToken'[u].person = byToken[u].person
  BY <1>3, <1>4, <1>a, LiveIs
<1>7. SessionsTyped'
  BY <1>1, <1>4, <1>a DEF SessionsTyped
<1> QED
  BY <1>1, <1>5, <1>6, <1>7 DEF SessInv, HasRead, MapsAgree, SpeaksForItsOwner, Forsaken, Made

LEMMA AskDeletionKeeps ==
  ASSUME SessInv, NEW d \in Deleter, NEW t \in Token, AskDeletion(d, t)
  PROVE  SessInv'
<1>1. /\ UNCHANGED <<holder, sessionVars, login>>
      /\ deletion' = [deletion EXCEPT ![d] = [at |-> "drop", id |-> byToken[t].id]]
      /\ t \in Live
  BY DEF AskDeletion
<1>2. byToken[t].id \in Id
  BY <1>1, LiveIs DEF SessInv
<1>3. deletion' \in [Deleter -> [at : {"drop", "erase"}, id : Id] \cup {NoDeletion}]
  BY <1>1, <1>2 DEF SessInv, SessionsTyped
<1>4. \A e \in Deleter : deletion'[e].at = "erase" => deletion'[e] = deletion[e]
  BY <1>1 DEF SessInv, SessionsTyped
<1>5. SessionsTyped' /\ Live' = Live
  BY <1>1, <1>3 DEF SessInv, SessionsTyped, sessionVars, Live, Token
<1> QED
  BY <1>1, <1>4, <1>5 DEF SessInv, HasRead, MapsAgree, SpeaksForItsOwner, Forsaken, Made, sessionVars

LEMMA DropSessionsKeeps ==
  ASSUME SessInv, NEW d \in Deleter, DropSessions(d)
  PROVE  SessInv'
<1>a. SessionsTyped
  BY DEF SessInv
<1> DEFINE i == deletion[d].id
<1>1. deletion[d] \in [at : {"drop", "erase"}, id : Id] /\ deletion[d].at = "drop" /\ i \in Id
  BY <1>a DEF SessionsTyped, DropSessions, NoDeletion
<1>2. \A t \in Live : byToken[t].id = i => t \in byAccount[i]
  BY <1>1, <1>a, LiveIs DEF SessInv, MapsAgree
<1>3. byAccount[i] \in SUBSET Token
  BY <1>1, <1>a DEF SessionsTyped
<1>4. deletion' = [deletion EXCEPT ![d].at = "erase"]
  BY DEF DropSessions
<1>5. /\ deletion'[d] \in [at : {"drop", "erase"}, id : Id] /\ deletion'[d].id = i
      /\ \A e \in Deleter : e # d => deletion'[e] = deletion[e]
  BY <1>1, <1>4, <1>a DEF SessionsTyped
<1>6. deletion' \in [Deleter -> [at : {"drop", "erase"}, id : Id] \cup {NoDeletion}]
  BY <1>4, <1>5, <1>a DEF SessionsTyped
<1>7. \A t \in Live \ byAccount[i], e \in Deleter :
        deletion'[e].at = "erase" /\ deletion'[e].id = byToken[t].id => deletion[e] = deletion'[e]
  BY <1>2, <1>5
<1>8. SessionsWithout(byAccount[i]) /\ stray' = stray \ byAccount[i] /\ UNCHANGED <<holder, issued, login>>
  BY DEF DropSessions
<1> HIDE DEF i
<1> QED
  BY <1>3, <1>6, <1>7, <1>8, WithoutKeeps

LEMMA EraseRowKeeps ==
  ASSUME SessInv, NEW d \in Deleter, EraseRow(d)
  PROVE  SessInv'
<1> DEFINE i == deletion[d].id
<1>1. /\ UNCHANGED <<sessionVars, login>> /\ deletion' = [deletion EXCEPT ![d] = NoDeletion]
      /\ deletion[d].at = "erase" /\ holder' \in {holder, [holder EXCEPT ![i] = Nobody]}
  BY DEF EraseRow
<1>2. holder' \in [Id -> Person \cup {Nobody}] /\ \A k \in Id : k # i => holder'[k] = holder[k]
  BY <1>1 DEF SessInv, SessionsTyped
<1>3. /\ deletion' \in [Deleter -> [at : {"drop", "erase"}, id : Id] \cup {NoDeletion}]
      /\ \A e \in Deleter : deletion'[e].at = "erase" => deletion'[e] = deletion[e]
  BY <1>1 DEF SessInv, SessionsTyped, NoDeletion
<1>4. SessionsTyped' /\ Live' = Live
  BY <1>1, <1>2, <1>3 DEF SessInv, SessionsTyped, sessionVars, Live, Token
<1>5. HasRead' /\ MapsAgree' /\ Forsaken' /\ Made'
  BY <1>1, <1>3, <1>4 DEF SessInv, sessionVars, HasRead, MapsAgree, Forsaken, Made
<1>6. SpeaksForItsOwner'
  <2> SUFFICES ASSUME NEW t \in Live, t \notin stray PROVE holder'[byToken[t].id] = byToken[t].person
    BY <1>1, <1>4 DEF SpeaksForItsOwner, sessionVars
  <2>1. byToken[t].id # i /\ byToken[t].id \in Id
    BY <1>1, LiveIs DEF SessInv, Forsaken
  <2> QED
    BY <1>2, <2>1 DEF SessInv, SpeaksForItsOwner
<1> QED
  BY <1>4, <1>5, <1>6 DEF SessInv

LEMMA SessInvNext == SessInv /\ [Next]_vars => SessInv'
<1> SUFFICES ASSUME SessInv, [Next]_vars PROVE SessInv'
  OBVIOUS
<1>a. SessionsTyped
  BY DEF SessInv
<1>1. ASSUME UNCHANGED <<holder, sessionVars, login, deletion>> PROVE SessInv'
  BY <1>1, <1>a, LoginKeeps DEF SessInv, SessionsTyped, HasRead
<1>2. ASSUME NEW i \in Id, NEW p \in Person, CreateAccount(i, p) PROVE SessInv'
  BY <1>2, CreateAccountKeeps
<1>3. ASSUME NEW d \in Deleter, (\E t \in Token : AskDeletion(d, t)) \/ DropSessions(d) \/ EraseRow(d)
      PROVE  SessInv'
  BY <1>3, AskDeletionKeeps, DropSessionsKeeps, EraseRowKeeps
<1>4. ASSUME NEW l \in Login, NEW a \in Address, StartLogin(l, a) PROVE SessInv'
  <2>1. UNCHANGED <<holder, sessionVars, deletion>> /\ (UNCHANGED login \/ login' = [login EXCEPT ![l].at = "read"])
    BY <1>4 DEF StartLogin
  <2>2. HasRead' /\ login' \in [Login -> [at : {"idle", "read", "create"}, id : 0 .. MaxId, person : Person \cup {Nobody}]]
    BY <2>1, <1>a DEF SessionsTyped, SessInv, HasRead
  <2> QED
    BY <2>1, <2>2, LoginKeeps
<1>5. ASSUME NEW l \in Login, NEW i \in Id, ReadAccount(l, i) PROVE SessInv'
  <2>1. UNCHANGED <<holder, sessionVars, deletion>>
    BY <1>5 DEF ReadAccount
  <2>2. CASE holder[i] # Nobody /\ login' = [login EXCEPT ![l] = [at |-> "create", id |-> i, person |-> holder[i]]]
    <3>1. HasRead' /\ login' \in [Login -> [at : {"idle", "read", "create"}, id : 0 .. MaxId, person : Person \cup {Nobody}]]
      BY <2>2, <1>a, AccountsAssumption DEF SessionsTyped, SessInv, HasRead, Id
    <3> QED
      BY <2>1, <3>1, LoginKeeps
  <2>3. CASE login' = [login EXCEPT ![l] = NoLogin]
    <3>1. HasRead' /\ login' \in [Login -> [at : {"idle", "read", "create"}, id : 0 .. MaxId, person : Person \cup {Nobody}]]
      BY <2>3, <1>a, AccountsAssumption DEF SessionsTyped, SessInv, HasRead, NoLogin
    <3> QED
      BY <2>1, <3>1, LoginKeeps
  <2> QED
    BY <1>5, <2>2, <2>3 DEF ReadAccount
<1>6. ASSUME NEW l \in Login, CreateSession(l) PROVE SessInv'
  BY <1>6, CreateSessionKeeps
<1>7. ASSUME NEW t \in Token, Expire(t) PROVE SessInv'
  BY <1>7, ExpireKeeps
<1>8. ASSUME NEW t \in Token, DeleteSession(t) PROVE SessInv'
  <2>1. SessionsWithout({t}) /\ {t} \in SUBSET Token /\ stray' = stray \ {t} /\ UNCHANGED <<holder, issued, login, deletion>>
    BY <1>8 DEF DeleteSession
  <2>2. deletion' \in [Deleter -> [at : {"drop", "erase"}, id : Id] \cup {NoDeletion}]
    BY <2>1, <1>a DEF SessionsTyped
  <2> QED
    BY <2>1, <2>2, WithoutKeeps
<1>9. ASSUME NEW a \in Address, WindowEnds(a) PROVE SessInv'
  BY <1>1, <1>9 DEF WindowEnds
<1>10. CASE UNCHANGED vars
  BY <1>1, <1>10 DEF vars
<1> QED
  BY <1>1, <1>2, <1>3, <1>4, <1>5, <1>6, <1>7, <1>8, <1>9, <1>10 DEF Next

-------------------------------------------------------------------------------
(* The store's capacity.                                                   *)

LEMMA TokensAreFinite == \A S \in SUBSET Token : IsFiniteSet(S)
<1>1. IsFiniteSet(1 .. MaxToken)
  BY FS_Interval, AccountsAssumption
<1> QED
  BY <1>1, FS_Subset DEF Token

\* Room is made for one more, whatever gives way to it.
LEMMA OneMore ==
  ASSUME NEW T, IsFiniteSet(T), NEW n \in Nat \ {0}, Cardinality(T) <= n, NEW S \in SUBSET T, NEW x,
         IF Cardinality(T) < n THEN S = {} ELSE Cardinality(S) = 1
  PROVE  IsFiniteSet((T \ S) \cup {x}) /\ Cardinality((T \ S) \cup {x}) <= n
<1>1. Cardinality(T) \in Nat
  BY FS_CardinalityType
<1>2. IsFiniteSet(T \ S) /\ Cardinality(T \ S) < n
  <2>1. CASE Cardinality(T) < n
    BY <2>1
  <2>2. CASE ~(Cardinality(T) < n)
    <3>1. IsFiniteSet(S) /\ Cardinality(S) = 1
      BY <2>2, FS_Subset
    <3>2. PICK y : S = {y}
      BY <3>1, FS_Singleton
    <3>3. IsFiniteSet(T \ {y}) /\ Cardinality(T \ {y}) = Cardinality(T) - 1
      BY <3>2, FS_RemoveElement
    <3> QED
      BY <1>1, <2>2, <3>2, <3>3
  <2> QED
    BY <2>1, <2>2
<1>3. Cardinality(T \ S) \in Nat
  BY <1>2, FS_CardinalityType
<1>4. IsFiniteSet((T \ S) \cup {x}) /\ (Cardinality((T \ S) \cup {x}) = Cardinality(T \ S) + 1 \/ (T \ S) \cup {x} = T \ S)
  BY <1>2, FS_AddElement
<1> QED
  BY <1>2, <1>3, <1>4

Roomy == Cardinality(Live) <= MaxSessions

LEMMA RoomyNext == SessInv /\ Roomy /\ [Next]_vars => Roomy'
<1> SUFFICES ASSUME SessInv, Roomy, [Next]_vars PROVE Roomy'
  OBVIOUS
<1>a. IsFiniteSet(Live) /\ Cardinality(Live) \in Nat /\ Live \subseteq Token
  BY TokensAreFinite, FS_CardinalityType DEF Live
<1>1. ASSUME Live' \subseteq Live PROVE Roomy'
  <2>1. Cardinality(Live') <= Cardinality(Live) /\ Cardinality(Live') \in Nat
    BY <1>a, <1>1, FS_Subset, FS_CardinalityType
  <2> QED
    BY <1>a, <2>1, AccountsAssumption DEF Roomy
<1>2. ASSUME UNCHANGED byToken PROVE Roomy'
  BY <1>1, <1>2 DEF Live
<1>3. ASSUME NEW S, SessionsWithout(S) PROVE Roomy'
  <2>1. Live' \subseteq Live
    BY <1>3 DEF SessionsWithout, Live
  <2> QED
    BY <1>1, <2>1
<1>4. ASSUME NEW l \in Login, CreateSession(l) PROVE Roomy'
  <2>1. PICK S \in SUBSET Live :
          /\ Victim(S)
          /\ \A t \in Token : t # issued + 1 => byToken'[t] = IF t \in S THEN NoSession ELSE byToken[t]
    BY <1>4 DEF CreateSession
  <2>2. Live' \subseteq (Live \ S) \cup {issued + 1}
    BY <2>1 DEF Live
  <2>3. IsFiniteSet((Live \ S) \cup {issued + 1}) /\ Cardinality((Live \ S) \cup {issued + 1}) <= MaxSessions
    BY <1>a, <2>1, OneMore, AccountsAssumption DEF Victim, Roomy
  <2>4. Cardinality(Live') <= Cardinality((Live \ S) \cup {issued + 1})
    BY <2>2, <2>3, FS_Subset
  <2>5. Cardinality(Live') \in Nat /\ Cardinality((Live \ S) \cup {issued + 1}) \in Nat
    BY <2>2, <2>3, FS_Subset, FS_CardinalityType
  <2> QED
    BY <2>3, <2>4, <2>5, AccountsAssumption DEF Roomy
<1>5. ASSUME NEW t \in Token, Expire(t) PROVE Roomy'
  <2>1. Live' \subseteq Live
    BY <1>5 DEF Expire, Live, SessInv, SessionsTyped
  <2> QED
    BY <1>1, <2>1
<1>6. ASSUME NEW t \in Token, DeleteSession(t) PROVE Roomy'
  BY <1>3, <1>6 DEF DeleteSession
<1>7. ASSUME NEW d \in Deleter, DropSessions(d) PROVE Roomy'
  BY <1>3, <1>7 DEF DropSessions
<1>8. ASSUME \/ \E i \in Id, p \in Person : CreateAccount(i, p)
             \/ \E d \in Deleter : (\E t \in Token : AskDeletion(d, t)) \/ EraseRow(d)
      PROVE  Roomy'
  BY <1>2, <1>8 DEF CreateAccount, AskDeletion, EraseRow, sessionVars
<1>9. ASSUME NEW l \in Login, (\E a \in Address : StartLogin(l, a)) \/ (\E i \in Id : ReadAccount(l, i)) PROVE Roomy'
  BY <1>2, <1>9 DEF StartLogin, ReadAccount, sessionVars
<1>10. ASSUME NEW a \in Address, WindowEnds(a) PROVE Roomy'
  BY <1>2, <1>10 DEF WindowEnds, sessionVars
<1>11. CASE UNCHANGED vars
  BY <1>2, <1>11 DEF vars, sessionVars
<1>12. CASE UNCHANGED sessionVars
  BY <1>2, <1>12 DEF sessionVars
<1> QED
  BY <1>4, <1>5, <1>6, <1>7, <1>8, <1>9, <1>10, <1>11, <1>12 DEF Next

-------------------------------------------------------------------------------
(* The limiter.  The attempts of a window are those its bucket counts, if  *)
(* it still runs, and at most the limit for every bucket that was evicted. *)

BucketRecord == [count : Nat, running : BOOLEAN]

LimiterTyped ==
  /\ bucket \in [Address -> BucketRecord]
  /\ tries \in 0 .. MaxAttempts
  /\ attempts \in [Address -> Nat] /\ evictions \in [Address -> Nat]

Full == IsFiniteSet(Kept) /\ Cardinality(Kept) <= MaxAddresses

Counted(a) ==
  /\ bucket[a].count <= AttemptLimit
  /\ attempts[a] <= AttemptLimit * evictions[a] + IF bucket[a].running THEN bucket[a].count ELSE 0

LimInv == LimiterTyped /\ Full /\ \A a \in Address : Counted(a)

LEMMA BucketFields == ASSUME NEW b \in BucketRecord PROVE b.count \in Nat /\ b = [count |-> b.count, running |-> b.running]
  BY DEF BucketRecord

LEMMA LimInvInit == Init => LimInv
<1> SUFFICES ASSUME Init PROVE LimInv
  OBVIOUS
<1>1. LimiterTyped
  BY AccountsAssumption DEF Init, LimiterTyped, NoBucket, BucketRecord
<1>2. Kept = {}
  BY DEF Init, Kept
<1>3. Full
  BY <1>2, FS_EmptySet, AccountsAssumption DEF Full
<1>4. ASSUME NEW a \in Address PROVE Counted(a)
  BY AccountsAssumption DEF Init, Counted, NoBucket
<1> QED
  BY <1>1, <1>3, <1>4 DEF LimInv

LEMMA AllowedKeeps ==
  ASSUME LimInv, NEW a \in Address, Allowed(a), tries' \in 0 .. MaxAttempts
  PROVE  LimInv'
<1>a. LimiterTyped /\ bucket[a] \in BucketRecord /\ bucket[a].count \in Nat /\ attempts[a] \in Nat /\ evictions[a] \in Nat
      /\ AttemptLimit \in Nat
  BY BucketFields, AccountsAssumption DEF LimInv, LimiterTyped
<1>1. CASE /\ bucket[a].running /\ Within(a)
           /\ bucket' = [bucket EXCEPT ![a].count = @ + 1]
           /\ attempts' = [attempts EXCEPT ![a] = @ + 1]
           /\ UNCHANGED evictions
  <2>1. bucket'[a] = [bucket[a] EXCEPT !.count = bucket[a].count + 1]
    BY <1>1, <1>a DEF LimiterTyped
  <2>2. bucket'[a] \in BucketRecord /\ bucket'[a].count = bucket[a].count + 1 /\ (bucket'[a].running <=> bucket[a].running)
    BY <2>1, <1>a DEF BucketRecord
  <2>3. LimiterTyped'
    BY <1>1, <2>2, <1>a DEF LimiterTyped
  <2>4. Kept' = Kept
    <3>1. bucket[a] # NoBucket /\ bucket'[a] # NoBucket
      BY <1>1, <2>2 DEF NoBucket
    <3> QED
      BY <1>1, <3>1, <1>a DEF Kept, LimiterTyped
  <2>5. ASSUME NEW b \in Address PROVE Counted(b)'
    <3>1. CASE b = a
      BY <1>1, <2>2, <3>1, <1>a DEF LimInv, Counted, Within, LimiterTyped
    <3>2. CASE b # a
      BY <1>1, <3>2, <1>a DEF LimInv, Counted, LimiterTyped
    <3> QED
      BY <3>1, <3>2
  <2> QED
    BY <2>3, <2>4, <2>5 DEF LimInv, Full
<1>2. CASE /\ ~bucket[a].running
           /\ \E lost \in SUBSET Kept :
                /\ Room(lost)
                /\ bucket' = [b \in Address |->
                     IF b = a THEN [count |-> 1, running |-> TRUE]
                     ELSE IF b \in lost THEN NoBucket ELSE bucket[b]]
                /\ evictions' = [b \in Address |->
                     IF b \in lost /\ bucket[b].running THEN evictions[b] + 1 ELSE evictions[b]]
           /\ attempts' = [attempts EXCEPT ![a] = @ + 1]
  <2>1. PICK lost \in SUBSET Kept :
                /\ Room(lost)
                /\ bucket' = [b \in Address |->
                     IF b = a THEN [count |-> 1, running |-> TRUE]
                     ELSE IF b \in lost THEN NoBucket ELSE bucket[b]]
                /\ evictions' = [b \in Address |->
                     IF b \in lost /\ bucket[b].running THEN evictions[b] + 1 ELSE evictions[b]]
    BY <1>2
  <2>2. LimiterTyped'
    <3>1. NoBucket \in BucketRecord /\ [count |-> 1, running |-> TRUE] \in BucketRecord
      BY DEF NoBucket, BucketRecord
    <3> QED
      BY <1>2, <2>1, <3>1, <1>a DEF LimiterTyped
  <2>3. Full'
    <3>1. Kept' \subseteq (Kept \ lost) \cup {a}
      BY <2>1 DEF Kept
    <3>2. IF Cardinality(Kept) < MaxAddresses THEN lost = {} ELSE Cardinality(lost) = 1
      BY <2>1 DEF Room
    <3>3. IsFiniteSet((Kept \ lost) \cup {a}) /\ Cardinality((Kept \ lost) \cup {a}) <= MaxAddresses
      BY <3>2, OneMore, AccountsAssumption DEF LimInv, Full
    <3>4. /\ IsFiniteSet(Kept') /\ Cardinality(Kept') <= Cardinality((Kept \ lost) \cup {a})
          /\ Cardinality(Kept') \in Nat /\ Cardinality((Kept \ lost) \cup {a}) \in Nat
      BY <3>1, <3>3, FS_Subset, FS_CardinalityType
    <3> QED
      BY <3>3, <3>4, AccountsAssumption DEF Full
  <2>4. ASSUME NEW b \in Address PROVE Counted(b)'
    <3>a. bucket[b].count \in Nat /\ attempts[b] \in Nat /\ evictions[b] \in Nat /\ Counted(b)
      BY BucketFields DEF LimInv, LimiterTyped
    <3>1. CASE b = a
      <4>1. bucket'[a].count = 1 /\ bucket'[a].running /\ attempts'[a] = attempts[a] + 1 /\ evictions'[a] = evictions[a]
        BY <1>2, <2>1, <1>a DEF LimiterTyped
      <4> QED
        BY <1>2, <3>1, <3>a, <4>1, <1>a, AccountsAssumption DEF Counted
    <3>2. CASE b # a /\ b \in lost
      <4>1. bucket'[b].count = 0 /\ ~bucket'[b].running /\ attempts'[b] = attempts[b]
        BY <1>2, <2>1, <3>2, <1>a DEF LimiterTyped, NoBucket
      <4>2. CASE bucket[b].running
        <5>1. evictions'[b] = evictions[b] + 1
          BY <2>1, <3>2, <4>2
        <5>2. AttemptLimit * (evictions[b] + 1) = AttemptLimit * evictions[b] + AttemptLimit
          BY <3>a, <1>a
        <5>3. AttemptLimit * evictions[b] \in Nat
          BY <3>a, <1>a
        <5> QED
          BY <3>a, <4>1, <4>2, <5>1, <5>2, <5>3, <1>a DEF Counted
      <4>3. CASE ~bucket[b].running
        <5>1. evictions'[b] = evictions[b]
          BY <2>1, <3>2, <4>3
        <5> QED
          BY <3>a, <4>1, <4>3, <5>1, <1>a DEF Counted
      <4> QED
        BY <4>2, <4>3
    <3>3. CASE b # a /\ b \notin lost
      <4>1. bucket'[b] = bucket[b] /\ attempts'[b] = attempts[b] /\ evictions'[b] = evictions[b]
        BY <1>2, <2>1, <3>3, <1>a DEF LimiterTyped
      <4> QED
        BY <3>a, <4>1 DEF Counted
    <3> QED
      BY <3>1, <3>2, <3>3
  <2> QED
    BY <2>2, <2>3, <2>4 DEF LimInv
<1> QED
  BY <1>1, <1>2 DEF Allowed

LEMMA LimInvNext == LimInv /\ [Next]_vars => LimInv'
<1> SUFFICES ASSUME LimInv, [Next]_vars PROVE LimInv'
  OBVIOUS
<1>1. ASSUME UNCHANGED <<bucket, attempts, evictions>>, tries' \in 0 .. MaxAttempts PROVE LimInv'
  BY <1>1 DEF LimInv, LimiterTyped, Full, Kept, Counted
<1>2. ASSUME UNCHANGED limiterVars PROVE LimInv'
  BY <1>1, <1>2 DEF limiterVars, LimInv, LimiterTyped
<1>3. ASSUME NEW l \in Login, NEW a \in Address, StartLogin(l, a) PROVE LimInv'
  <2>1. tries' \in 0 .. MaxAttempts
    BY <1>3, AccountsAssumption DEF StartLogin, LimInv, LimiterTyped
  <2> QED
    BY <1>1, <1>3, <2>1, AllowedKeeps DEF StartLogin, Limited
<1>4. ASSUME NEW a \in Address, WindowEnds(a) PROVE LimInv'
  <2>a. bucket[a] \in BucketRecord /\ LimiterTyped
    BY DEF LimInv, LimiterTyped
  <2>1. bucket'[a] = [bucket[a] EXCEPT !.running = FALSE] /\ \A b \in Address : b # a => bucket'[b] = bucket[b]
    BY <1>4, <2>a DEF WindowEnds, LimiterTyped
  <2>2. bucket'[a] \in BucketRecord /\ bucket'[a].count = bucket[a].count /\ ~bucket'[a].running
    BY <2>1, <2>a DEF BucketRecord
  <2>3. LimiterTyped'
    BY <1>4, <2>2, <2>a DEF WindowEnds, LimiterTyped
  <2>4. Kept' \subseteq Kept
    <3>1. bucket[a] = NoBucket => bucket'[a] = NoBucket
      <4>1. ASSUME bucket[a] = NoBucket PROVE bucket'[a] = NoBucket
        <5>1. bucket[a].count = 0 /\ bucket'[a].running = FALSE
          BY <2>1, <4>1 DEF NoBucket
        <5>2. bucket'[a] = [count |-> bucket'[a].count, running |-> bucket'[a].running]
          BY <2>2, BucketFields
        <5> QED
          BY <2>2, <5>1, <5>2 DEF NoBucket
      <4> QED
        BY <4>1
    <3> QED
      BY <2>1, <3>1 DEF Kept
  <2>5. Full'
    <3>1. /\ IsFiniteSet(Kept') /\ Cardinality(Kept') <= Cardinality(Kept)
          /\ Cardinality(Kept') \in Nat /\ Cardinality(Kept) \in Nat
      BY <2>4, FS_Subset, FS_CardinalityType DEF LimInv, Full
    <3> QED
      BY <3>1, AccountsAssumption DEF LimInv, Full
  <2>6. ASSUME NEW b \in Address PROVE Counted(b)'
    <3>1. CASE b = a
      BY <1>4, <2>2, <2>a, <3>1, AccountsAssumption DEF WindowEnds, LimInv, Counted, LimiterTyped
    <3>2. CASE b # a
      BY <1>4, <2>1, <2>a, <3>2 DEF WindowEnds, LimInv, Counted, LimiterTyped
    <3> QED
      BY <3>1, <3>2
  <2> QED
    BY <2>3, <2>5, <2>6 DEF LimInv
<1>5. ASSUME \/ \E i \in Id, p \in Person : CreateAccount(i, p)
             \/ \E d \in Deleter : (\E t \in Token : AskDeletion(d, t)) \/ DropSessions(d) \/ EraseRow(d)
      PROVE  LimInv'
  BY <1>2, <1>5 DEF CreateAccount, AskDeletion, DropSessions, EraseRow
<1>6. ASSUME NEW l \in Login, (\E i \in Id : ReadAccount(l, i)) \/ CreateSession(l) PROVE LimInv'
  BY <1>2, <1>6 DEF ReadAccount, CreateSession
<1>7. ASSUME NEW t \in Token, Expire(t) \/ DeleteSession(t) PROVE LimInv'
  BY <1>2, <1>7 DEF Expire, DeleteSession
<1>8. CASE UNCHANGED vars
  BY <1>2, <1>8 DEF vars
<1> QED
  BY <1>2, <1>3, <1>4, <1>5, <1>6, <1>7, <1>8 DEF Next

-------------------------------------------------------------------------------
(* The theorems.                                                           *)

LEMMA PowInvNext == PowInv /\ [Next]_vars => PowInv'
<1> SUFFICES ASSUME PowInv, [Next]_vars PROVE PowInv'
  OBVIOUS
<1>1. ASSUME UNCHANGED powVars PROVE PowInv'
  BY <1>1, ProvedKeeps DEF Proved
<1>2. ASSUME NEW i \in Id, NEW p \in Person, CreateAccount(i, p) PROVE PowInv'
  BY <1>2, ProvedKeeps DEF CreateAccount
<1>3. ASSUME NEW d \in Deleter, (\E t \in Token : AskDeletion(d, t)) \/ DropSessions(d) \/ EraseRow(d)
      PROVE  PowInv'
  BY <1>1, <1>3 DEF AskDeletion, DropSessions, EraseRow
<1>4. ASSUME NEW l \in Login, NEW a \in Address, StartLogin(l, a) PROVE PowInv'
  BY <1>1, <1>4 DEF StartLogin
<1>5. ASSUME NEW l \in Login, (\E i \in Id : ReadAccount(l, i)) \/ CreateSession(l) PROVE PowInv'
  BY <1>1, <1>5 DEF ReadAccount, CreateSession
<1>6. ASSUME NEW t \in Token, Expire(t) \/ DeleteSession(t) PROVE PowInv'
  BY <1>1, <1>6 DEF Expire, DeleteSession
<1>7. ASSUME NEW a \in Address, WindowEnds(a) PROVE PowInv'
  BY <1>1, <1>7 DEF WindowEnds
<1>8. CASE UNCHANGED vars
  BY <1>1, <1>8 DEF vars
<1> QED
  BY <1>2, <1>3, <1>4, <1>5, <1>6, <1>7, <1>8,
     NextEpochKeeps, OtherEnsuresKeeps, ReadClockKeeps, EnsureEpochKeeps, GetChallengeKeeps DEF Next

IInv == PowInv /\ SessInv /\ Roomy /\ LimInv

LEMMA IInvHolds == Spec => []IInv
<1>1. Init => IInv
  <2> SUFFICES ASSUME Init PROVE IInv
    OBVIOUS
  <2>1. Live = {}
    BY DEF Init, Live
  <2>2. Roomy
    BY <2>1, FS_EmptySet, AccountsAssumption DEF Roomy
  <2> QED
    BY <2>2, PowInvInit, SessInvInit, LimInvInit DEF IInv, Init
<1>2. IInv /\ [Next]_vars => IInv'
  BY PowInvNext, SessInvNext, RoomyNext, LimInvNext DEF IInv
<1> QED
  BY <1>1, <1>2, PTL DEF Spec

\* The session store never holds more than its capacity, nor the limiter.
THEOREM AccountsTypeCorrect == Spec => []TypeOK
<1>1. IInv => TypeOK
  BY PowTypes DEF IInv, PowInv, SessInv, SessionsTyped, SessionRecord, Roomy, LimInv, LimiterTyped, BucketRecord, Full, Kept, TypeOK
<1> QED
  BY <1>1, IInvHolds, PTL

\* A session is in one map exactly when it is in the other.
THEOREM MapsAlwaysAgree == Spec => []MapsAgree
<1>1. IInv => MapsAgree
  BY DEF IInv, SessInv
<1> QED
  BY <1>1, IInvHolds, PTL

\* No session outlives its account to speak for the next one, but those made
\* while a row of their id was about to be erased, by another deletion of the
\* account before, perhaps, or by a log-in that the deletion overlapped.
THEOREM SessionsSpeakForOwners == Spec => []SpeaksForItsOwner
<1>1. IInv => SpeaksForItsOwner
  BY DEF IInv, SessInv
<1> QED
  BY <1>1, IInvHolds, PTL

\* An address gets its attempts in a window, and as many for every eviction.
THEOREM AttemptsAreLimited == Spec => []AttemptsLimited
<1>1. IInv => AttemptsLimited
  <2> SUFFICES ASSUME IInv, NEW a \in Address PROVE attempts[a] <= AttemptLimit * (1 + evictions[a])
    BY DEF AttemptsLimited
  <2>1. /\ bucket[a].count \in Nat /\ attempts[a] \in Nat /\ evictions[a] \in Nat /\ AttemptLimit \in Nat
        /\ Counted(a)
    BY BucketFields, AccountsAssumption DEF IInv, LimInv, LimiterTyped
  <2>2. AttemptLimit * (1 + evictions[a]) = AttemptLimit * evictions[a] + AttemptLimit /\ AttemptLimit * evictions[a] \in Nat
    BY <2>1
  <2> QED
    BY <2>1, <2>2 DEF Counted
<1> QED
  BY <1>1, IInvHolds, PTL

\* Work done for the server's challenge and presented in time is refused only by a
\* turn of the engine between its own turn and its look-up.
THEOREM HonestAreAccepted == Spec => []HonestAccepted
<1>1. IInv => HonestAccepted
  BY DEF IInv, PowInv
<1> QED
  BY <1>1, IInvHolds, PTL
===============================================================================
