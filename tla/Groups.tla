-------------------------------- MODULE Groups ---------------------------------
(***************************************************************************)
(* The groups and their members (http.GroupsHandler).  Every handler runs  *)
(* one transaction of the single writer, so a handler's effect on the      *)
(* tables is one action.                                                   *)
(*                                                                         *)
(* Handles are numbered in the order they were inserted, which is the      *)
(* order of the members' rowids.  A group handle and its row in            *)
(* group_members are inserted together, and the row goes with the handle   *)
(* (ON DELETE CASCADE): the two tables are one function.  The day of a row *)
(* is read before its transaction, so that it may be the day before.       *)
(*                                                                         *)
(* Names, notes and policies are left out; a member is named by its        *)
(* handle, for display names are unique in their group.                    *)
(***************************************************************************)
EXTENDS Naturals, FiniteSets

CONSTANTS Account,
          Nobody,        \* stands where there is no account
          Code,          \* invite codes
          NoCode,        \* stands where there is no group
          MaxMembers,    \* groups.max_members
          MaxPerAccount, \* groups.max_per_account
          MaxGroup,      \* bound: group ids
          MaxHandle,     \* bound: handles minted
          MaxDay         \* bound: midnights

ASSUME GroupsAssumption ==
  /\ Nobody \notin Account
  /\ NoCode \notin Code
  /\ MaxMembers \in Nat \ {0}
  /\ MaxPerAccount \in Nat \ {0}
  /\ MaxGroup \in Nat
  /\ MaxHandle \in Nat
  /\ MaxDay \in Nat

VARIABLES
  alive,   \* rows of accounts
  owner,   \* owner_account_id of each group, Nobody where there is no group
  code,    \* the invite code of each group
  row,     \* the members, by handle
  minted,  \* handles inserted so far
  today,   \* core.Today
  burnt    \* groups whose owner has burned his handle (history)

groupVars == <<alive, owner, code, row, minted, today, burnt>>

GroupId == 1 .. MaxGroup
Handle == 1 .. MaxHandle
Role == {"owner", "admin", "member"}
\* What is kept of a row; checked says whether the account had no other row in
\* the group when this one was inserted (history).
Row == [group : GroupId, account : Account, role : Role, joined : 0 .. MaxDay, checked : BOOLEAN]
NoRow == [group |-> 0, account |-> Nobody, role |-> "none", joined |-> 0, checked |-> FALSE]

\* One type invariant for the module; the tables' foreign keys hold.
TypeOK ==
  /\ alive \in SUBSET Account
  /\ owner \in [GroupId -> Account \cup {Nobody}]
  /\ \A g \in GroupId : owner[g] \in alive \cup {Nobody}
  /\ code \in [GroupId -> Code \cup {NoCode}]
  /\ row \in [Handle -> Row \cup {NoRow}]
  /\ \A h \in Handle :
       row[h] # NoRow => /\ h <= minted
                         /\ owner[row[h].group] # Nobody
                         /\ row[h].account \in alive
  /\ minted \in 0 .. MaxHandle
  /\ today \in 0 .. MaxDay
  /\ burnt \in SUBSET GroupId

Init ==
  /\ alive = Account
  /\ owner = [g \in GroupId |-> Nobody]
  /\ code = [g \in GroupId |-> NoCode]
  /\ row = [h \in Handle |-> NoRow]
  /\ minted = 0
  /\ today = 0
  /\ burnt = {}

-------------------------------------------------------------------------------
(* The tables.                                                             *)

Live(g) == owner[g] # Nobody
Rows(g) == {h \in Handle : row[h].group = g}
RowsOf(a) == {h \in Handle : row[h].account = a}
Membership(a, g) == {h \in Handle : row[h].group = g /\ row[h].account = a}

\* The caller's row says owner or admin.
Leads(a, g) == \E h \in Membership(a, g) : row[h].role \in {"owner", "admin"}
Owns(a, g) == \E h \in Membership(a, g) : row[h].role = "owner"

\* DELETE FROM handles: the members' rows go with their handles.
Burned(S) == [h \in Handle |-> IF h \in S THEN NoRow ELSE row[h]]

\* INTEGER PRIMARY KEY without AUTOINCREMENT: one more than the largest id in
\* use, so the id of a deleted group may come back.
NextId(g) ==
  /\ ~Live(g)
  /\ \A k \in GroupId : Live(k) => k < g
  /\ g > 1 => Live(g - 1)

\* 128 random bits: never a code that opens a group now.
NewCode(g) ==
  \E c \in Code :
    /\ \A k \in GroupId : code[k] # c
    /\ code' = [code EXCEPT ![g] = c]

\* max_per_account, counted inside the transaction.
MayEnter(a) == Cardinality(RowsOf(a)) < MaxPerAccount

\* INSERT INTO handles and group_members.  The handler has read the day before
\* Store.Write: midnight may have passed since.
Insert(a, g, role, checked) ==
  /\ minted < MaxHandle
  /\ \E d \in 0 .. today :
       /\ d + 1 >= today
       /\ row' = [row EXCEPT ![minted + 1] =
                   [group |-> g, account |-> a, role |-> role, joined |-> d,
                    checked |-> checked]]
  /\ minted' = minted + 1

-------------------------------------------------------------------------------
(* The handlers.                                                           *)

\* A group with its owner's handle and row.
CreateGroup(a, g) ==
  /\ a \in alive
  /\ MayEnter(a)
  /\ NextId(g)
  /\ Insert(a, g, "owner", TRUE)
  /\ owner' = [owner EXCEPT ![g] = a]
  /\ NewCode(g)
  /\ burnt' = burnt \ {g}
  /\ UNCHANGED <<alive, today>>

\* Mutant: nobody asks whether the account is a member already.
JoinGroupTwice(a, c, g) ==
  /\ a \in alive
  /\ Live(g) /\ code[g] = c
  /\ MayEnter(a)
  /\ Cardinality(Rows(g)) < MaxMembers
  /\ Insert(a, g, "member", TRUE)
  /\ UNCHANGED <<alive, owner, code, today, burnt>>

\* Code c opens the group whose code it is.  The account is asked for a row it
\* has already, but the error of that query is thrown away: if it fails, there is
\* none, and the row is inserted unchecked.
JoinGroup(a, c, g) ==
  /\ a \in alive
  /\ Live(g) /\ code[g] = c
  /\ MayEnter(a)
  /\ Cardinality(Rows(g)) < MaxMembers
  /\ Insert(a, g, "member", Membership(a, g) = {})
  /\ UNCHANGED <<alive, owner, code, today, burnt>>

\* ORDER BY admins first, joined_day, rowid, among the others.
NoLater(h, k) ==
  \/ row[h].joined < row[k].joined
  \/ row[h].joined = row[k].joined /\ h <= k
First(S) == CHOOSE h \in S : \A k \in S : NoLater(h, k)
Others(a, g) == Rows(g) \ RowsOf(a)

\* Mutant: the longest-tenured member, whatever the role.
EldestOther(a, g) == First(Others(a, g))

Successor(a, g) ==
  LET admins == {h \in Others(a, g) : row[h].role = "admin"}
  IN  IF admins # {} THEN First(admins) ELSE First(Others(a, g))

\* A group goes with the rows and the handles of its members.
RowsWithout(G) == Burned({h \in Handle : row[h].group \in G})
DropGroups(G) ==
  /\ owner' = [g \in GroupId |-> IF g \in G THEN Nobody ELSE owner[g]]
  /\ code' = [g \in GroupId |-> IF g \in G THEN NoCode ELSE code[g]]
  /\ burnt' = burnt \ G

\* A member's handle is burned.  An owner is succeeded; the last to leave takes
\* the group along.
LeaveGroup(a, g) ==
  \E h \in Membership(a, g) :
    /\ \/ /\ row[h].role # "owner"
          /\ row' = Burned({h})
          /\ UNCHANGED <<owner, code, burnt>>
       \/ /\ row[h].role = "owner" /\ Others(a, g) # {}
          /\ LET next == Successor(a, g)
             IN  /\ row' = [k \in Handle |->
                             IF k = next THEN [row[k] EXCEPT !.role = "owner"]
                             ELSE Burned({h})[k]]
                 /\ owner' = [owner EXCEPT ![g] = row[next].account]
          /\ UNCHANGED <<code, burnt>>
       \/ /\ row[h].role = "owner" /\ Others(a, g) = {}
          /\ row' = RowsWithout({g})
          /\ DropGroups({g})
    /\ UNCHANGED <<alive, minted, today>>

\* Mutant: anyone can be removed, the owner too.
RemoveAnyone(a, g, h) ==
  /\ Leads(a, g)
  /\ h \in Rows(g)
  /\ row' = Burned({h})
  /\ UNCHANGED <<alive, owner, code, minted, today, burnt>>

\* Owner or admin; the owner cannot be removed.
RemoveMember(a, g, h) ==
  /\ Leads(a, g)
  /\ h \in Rows(g) /\ row[h].role # "owner"
  /\ row' = Burned({h})
  /\ UNCHANGED <<alive, owner, code, minted, today, burnt>>

RotateInvite(a, g) ==
  /\ Leads(a, g)
  /\ NewCode(g)
  /\ UNCHANGED <<alive, owner, row, minted, today, burnt>>

\* UPDATE group_members SET role ... WHERE role != 'owner' finds these.
NotOwning(g) == {h \in Rows(g) : row[h].role # "owner"}

\* Mutant: the former owner keeps the role.
UpdateGroupKeeping(a, g, named, role, heir) ==
  /\ Owns(a, g)
  /\ named \in NotOwning(g) \cup {0} /\ heir \in Rows(g) \cup {0}
  /\ named = 0 => role = "member"
  /\ row' = [k \in Handle |->
              IF k = heir THEN [row[k] EXCEPT !.role = "owner"]
              ELSE IF k = named THEN [row[k] EXCEPT !.role = role]
              ELSE row[k]]
  /\ owner' = IF heir = 0 THEN owner ELSE [owner EXCEPT ![g] = row[heir].account]
  /\ UNCHANGED <<alive, code, minted, today, burnt>>

\* The owner gives the role to the member named, and then the group to the heir:
\* every row of the caller becomes admin before the heir's becomes owner.  0
\* stands for a field left out, and for a named who is the owner or no member:
\* that changes nothing, nor does a role for no one.  An heir who is no member
\* undoes the whole update.  Without either field only name and policy change,
\* which an admin may do too.
UpdateGroup(a, g, named, role, heir) ==
  /\ Owns(a, g)
  /\ named \in NotOwning(g) \cup {0} /\ heir \in Rows(g) \cup {0}
  /\ named = 0 => role = "member"
  /\ row' = [k \in Handle |->
              IF k = heir THEN [row[k] EXCEPT !.role = "owner"]
              ELSE IF heir # 0 /\ k \in Membership(a, g) THEN [row[k] EXCEPT !.role = "admin"]
              ELSE IF k = named THEN [row[k] EXCEPT !.role = role]
              ELSE row[k]]
  /\ owner' = IF heir = 0 THEN owner ELSE [owner EXCEPT ![g] = row[heir].account]
  /\ UNCHANGED <<alive, code, minted, today, burnt>>

\* By owner_account_id, and not by the role of a row.
DeleteGroup(a, g) ==
  /\ a \in alive
  /\ owner[g] = a
  /\ DropGroups({g})
  /\ row' = RowsWithout({g})
  /\ UNCHANGED <<alive, minted, today>>

-------------------------------------------------------------------------------
(* What happens to the tables from elsewhere.                              *)

\* DELETE /v1/handles/{handle} burns a group handle like any other: the member
\* is out, nobody is promoted, and the group may be left without an owner or
\* without a member.
BurnGroupHandle(a, h) ==
  /\ row[h] # NoRow /\ row[h].account = a
  /\ row' = Burned({h})
  /\ burnt' = IF row[h].role = "owner" THEN burnt \cup {row[h].group} ELSE burnt
  /\ UNCHANGED <<alive, owner, code, minted, today>>

\* The groups of a deleted account go with it, whoever is in them, and so do
\* its handles.
DeleteAccount(a) ==
  /\ a \in alive
  /\ alive' = alive \ {a}
  /\ LET G == {g \in GroupId : owner[g] = a}
     IN  /\ DropGroups(G)
         /\ row' = Burned(RowsOf(a) \cup {h \in Handle : row[h].group \in G})
  /\ UNCHANGED <<minted, today>>

Midnight ==
  /\ today < MaxDay
  /\ today' = today + 1
  /\ UNCHANGED <<alive, owner, code, row, minted, burnt>>

Handler(a) ==
  \/ \E g \in GroupId :
       \/ CreateGroup(a, g)
       \/ \E c \in Code : JoinGroup(a, c, g)
       \/ LeaveGroup(a, g)
       \/ RotateInvite(a, g)
       \/ DeleteGroup(a, g)
       \/ \E h \in Handle : RemoveMember(a, g, h)
       \/ \E named, heir \in Rows(g) \cup {0}, role \in {"admin", "member"} :
            UpdateGroup(a, g, named, role, heir)
  \/ \E h \in Handle : BurnGroupHandle(a, h)
  \/ DeleteAccount(a)

Next ==
  \/ \E a \in Account : Handler(a)
  \/ Midnight

Spec == Init /\ [][Next]_groupVars

-------------------------------------------------------------------------------
(* Properties.                                                             *)

\* A group has at most one owner's row, and it is that of owner_account_id:
\* the two tables are written by four handlers and DeleteGroup believes one,
\* the other handlers the other.
OwnersAgree ==
  \A h \in Handle : row[h].role = "owner" =>
    /\ owner[row[h].group] = row[h].account
    /\ \A k \in Rows(row[h].group) : row[k].role = "owner" => k = h

\* An account is in a group once, but for the rows let in because the query
\* for an earlier one failed: no constraint of the schema says so, only
\* JoinGroup's check.
OneMembership ==
  \A h, k \in Handle :
    row[h] # NoRow /\ h < k /\ row[h].group = row[k].group /\ row[h].account = row[k].account
      => ~row[k].checked

\* The limits of a group and of an account.
WithinLimits ==
  /\ \A g \in GroupId : Cardinality(Rows(g)) <= MaxMembers
  /\ \A a \in Account : Cardinality(RowsOf(a)) <= MaxPerAccount

\* A group has an owner among its members as long as no owner has burned his
\* group handle: leaving, removal, transfer and deletion keep one.
LedUnlessBurnt ==
  \A g \in GroupId : Live(g) /\ g \notin burnt => \E h \in Rows(g) : row[h].role = "owner"

\* Group g has another owner than before.
PassedOn(g) == Live(g) /\ owner'[g] \notin {owner[g], Nobody}

\* The new owner was a member, and the former owner's row stays as an admin's (a
\* transfer) or is gone; then, among the rows of the other accounts, no admin
\* was passed over, nor anyone of the same rank who comes before in joined_day
\* and rowid.
PassedRightly(g) ==
  \E k, h \in Rows(g) :
    /\ row[k].role = "owner"
    /\ row[h].account = owner'[g] /\ row'[h].role = "owner"
    /\ \/ row'[k].role = "admin"
       \/ /\ row'[k] = NoRow
          /\ \A j \in Others(row[k].account, g) :
               /\ row[j].role = "admin" => row[h].role = "admin"
               /\ row[j].role = "admin" \/ row[h].role # "admin" => NoLater(h, j)

\* Groups change hands by the rule, in LeaveGroup and in UpdateGroup.
Succession == [][\A g \in GroupId : PassedOn(g) => PassedRightly(g)]_owner
===============================================================================
