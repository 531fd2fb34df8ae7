------------------------------ MODULE ProofOfWork ------------------------------
(***************************************************************************)
(* The epochs of the proof of work (pow.Engine): a challenge is derived    *)
(* from the epoch it belongs to, and the engine keeps those of the epoch   *)
(* it last worked for, the one before and the one after.                   *)
(*                                                                         *)
(* A verification reads the clock, makes the engine's epoch its own        *)
(* (ensureEpoch) and looks the challenge up, in three separate steps.  A   *)
(* challenge is named by its epoch; the hash is left out: a token was      *)
(* solved for the challenge of its epoch, or for the challenge of zeros,   *)
(* or was not solved.                                                      *)
(***************************************************************************)
EXTENDS Integers, FiniteSets

CONSTANTS Verifier, \* sign-ups that come with a token, each with one
          MaxEpoch  \* bound: epochs

ASSUME PowAssumption == MaxEpoch \in Nat \ {0}

VARIABLES
  epoch,    \* CurrentEpoch()
  cached,   \* cachedEpoch: the challenges kept are those around it
  check     \* where each verification stands

powVars == <<epoch, cached, check>>

Solution == {"server", "zeros", "none"}
Ended == {"accepted", "expired", "insufficient", "used"}
NoCheck == [at |-> "idle", token |-> 0, solved |-> "none", cur |-> 0, met |-> FALSE]

\* A type invariant.
PowTypeOK ==
  /\ epoch \in 1 .. MaxEpoch
  /\ cached \in 0 .. epoch
  /\ check \in [Verifier -> [at : {"idle", "ensure", "look"} \cup Ended, token : 0 .. MaxEpoch + 1,
                             solved : Solution, cur : 0 .. epoch, met : BOOLEAN]]

PowInit ==
  /\ epoch = 1
  /\ cached = 0
  /\ check = [v \in Verifier |-> NoCheck]

NextEpoch ==
  /\ epoch < MaxEpoch
  /\ epoch' = epoch + 1
  /\ UNCHANGED <<cached, check>>

\* A token with epoch e, solved for s, and the clock.
ReadClock(v, e, s) ==
  /\ check[v].at = "idle"
  /\ check' = [check EXCEPT ![v] =
       [at |-> "ensure", token |-> e, solved |-> s, cur |-> epoch, met |-> FALSE]]
  /\ UNCHANGED <<epoch, cached>>

\* Mutant: the engine's epoch only goes forward.
RotatedForward(cur) == IF cur > cached THEN cur ELSE cached

\* rotateChallenges, to an epoch that may be the one before.
Rotated(cur) == cur

\* Turning the engine to another epoch meets the verifications W that are between
\* their own turn and their look-up.
Met(W, cur) ==
  [w \in Verifier |->
     IF w \in W /\ check[w].at = "look" /\ cached # cur THEN [check[w] EXCEPT !.met = TRUE]
     ELSE check[w]]

EnsureEpoch(v) ==
  /\ check[v].at = "ensure"
  /\ cached' = Rotated(check[v].cur)
  /\ check' = [Met(Verifier \ {v}, check[v].cur) EXCEPT ![v].at = "look"]
  /\ UNCHANGED epoch

\* Another user of the engine, a ping's Verify or CurrentChallenge, that read the
\* clock in this epoch or the one before.
OtherEnsures(cur) ==
  /\ cur \in 1 .. epoch /\ cur >= epoch - 1
  /\ cached' = Rotated(cur)
  /\ check' = Met(Verifier, cur)
  /\ UNCHANGED epoch

InTime(c) == c.token \in c.cur - 1 .. c.cur + 1

\* The switch over cur - 1, cur and cur + 1.
InTolerance(v) == InTime(check[v])

\* The challenge found stands as far from the engine's epoch as the token's
\* epoch from the clock that was read.
Found(v) == cached + (check[v].token - check[v].cur)

Verdict(v) ==
  IF ~InTolerance(v) THEN "expired"
  ELSE IF \/ check[v].solved = "zeros"
          \/ check[v].solved = "server" /\ Found(v) = check[v].token
  THEN "accepted" ELSE "insufficient"

GetChallenge(v) ==
  /\ check[v].at = "look"
  /\ check' = [check EXCEPT ![v].at = Verdict(v)]
  /\ UNCHANGED <<epoch, cached>>

-------------------------------------------------------------------------------
(* Properties.                                                             *)

Accepted == {v \in Verifier : check[v].at \in {"accepted", "used"}}

\* Work done for the server's challenge and presented in time is refused only
\* when another verification, on the other side of a turn of the epoch, has
\* turned the engine in between.
HonestAccepted ==
  \A v \in Verifier :
    check[v].at \in Ended /\ check[v].solved = "server" /\ InTime(check[v]) /\ ~check[v].met
      => v \in Accepted
===============================================================================
