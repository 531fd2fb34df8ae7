------------------------------ MODULE PingLedger ------------------------------
(***************************************************************************)
(* What the delivery pipeline promises about one ping, with every queue,   *)
(* buffer and worker left out.  Delivery is best effort: a ping the server *)
(* has taken in may be lost (docs/ARCHITECTURE.md, "Loss policy"), but it  *)
(* is decided once and for all, it is told to its own recipient only, and  *)
(* the numbers a recipient is shown add up to the pings really sent.       *)
(* Pipeline implements this module.                                        *)
(***************************************************************************)
EXTENDS Naturals, FiniteSets

CONSTANTS Ping,      \* identities of pings (the code stores none: they are counted)
          Account,   \* recipients
          To         \* the recipient of each ping

VARIABLES status,    \* where each ping stands
          told       \* how many pings each recipient has been told about

vars == <<status, told>>

Status == {"unsent", "waiting", "told", "lost"}

TypeOK ==
  /\ status \in [Ping -> Status]
  /\ told \in [Account -> Nat]

Init ==
  /\ status = [p \in Ping |-> "unsent"]
  /\ told = [a \in Account |-> 0]

\* The server takes in a ping: from now on it owes the ping a decision.
Accept(p) ==
  /\ status[p] = "unsent"
  /\ status' = [status EXCEPT ![p] = "waiting"]
  /\ UNCHANGED told

\* A ping is turned away at the door, without ever waiting.
TurnAway(p) ==
  /\ status[p] = "unsent"
  /\ status' = [status EXCEPT ![p] = "lost"]
  /\ UNCHANGED told

\* Recipient a is told one number, which stands for the waiting pings S.
Tell(a, S) ==
  /\ S # {} /\ IsFiniteSet(S)
  /\ \A p \in S : status[p] = "waiting" /\ To[p] = a
  /\ status' = [p \in Ping |-> IF p \in S THEN "told" ELSE status[p]]
  /\ told' = [told EXCEPT ![a] = @ + Cardinality(S)]

\* Waiting pings are lost: a full buffer, a stale job, a shutdown.
Lose(S) ==
  /\ S # {}
  /\ \A p \in S : status[p] = "waiting"
  /\ status' = [p \in Ping |-> IF p \in S THEN "lost" ELSE status[p]]
  /\ UNCHANGED told

Next ==
  \/ \E p \in Ping : Accept(p) \/ TurnAway(p)
  \/ \E S \in SUBSET Ping : Lose(S) \/ \E a \in Account : Tell(a, S)

Spec == Init /\ [][Next]_vars
===============================================================================
