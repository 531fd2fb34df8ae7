---------------------------- MODULE GroupGateProofs -----------------------------
(***************************************************************************)
(* Proofs about Groups, and then about GroupGate, which has the caches     *)
(* besides: for any accounts, handles, limits and requests.                *)
(***************************************************************************)
EXTENDS GroupGate, FiniteSetTheorems, TLAPS

-------------------------------------------------------------------------------
(* About the helpers.                                                      *)

LEMMA LeastOf ==
  ASSUME NEW S \in SUBSET Nat, S # {}
  PROVE  \E m \in S : \A k \in S : m <= k
<1> DEFINE T == {0 .. k : k \in S}
           F == FiniteSubsetsOf(Nat)
           R == StrictSubsetOrdering(Nat)
<1>1. ASSUME NEW k \in S PROVE 0 .. k \in F
  BY FS_Interval DEF FiniteSubsetsOf
<1>2. IsWellFoundedOn(R, F)
  BY FS_StrictSubsetOrderingWellFounded
<1> HIDE DEF R, F
<1>3. T \subseteq F /\ T # {}
  BY <1>1
<1>4. PICK x \in T : \A y \in T : ~(<<y, x>> \in R)
  BY <1>2, <1>3, WFMin
<1>5. PICK m \in S : x = 0 .. m
  OBVIOUS
<1>6. ASSUME NEW k \in S PROVE m <= k
  <2>1. <<0 .. k, x>> \notin R
    BY <1>4
  <2>2. k < m => (0 .. k) \subseteq (0 .. m) /\ (0 .. k) # (0 .. m)
    <3> SUFFICES ASSUME k < m PROVE (0 .. k) \subseteq (0 .. m) /\ m \in 0 .. m /\ m \notin 0 .. k
      OBVIOUS
    <3> QED
      OBVIOUS
  <2> QED
    BY <2>1, <2>2, <1>5 DEF R, StrictSubsetOrdering
<1> QED
  BY <1>6

LEMMA DaysAreNumbers == TypeOK => \A h \in Handle : row[h].joined \in Nat
  BY GroupsAssumption DEF TypeOK, Row, NoRow

\* ORDER BY joined_day, rowid LIMIT 1 finds a first among some rows.
LEMMA FirstIsFirst ==
  ASSUME TypeOK, NEW S \in SUBSET Handle, S # {}
  PROVE  First(S) \in S /\ \A k \in S : NoLater(First(S), k)
<1>1. \A h \in Handle : row[h].joined \in Nat
  BY DaysAreNumbers
<1>2. Handle \subseteq Nat
  BY GroupsAssumption DEF Handle
<1> DEFINE days == {row[h].joined : h \in S}
<1>3. PICK d \in days : \A e \in days : d <= e
  <2>1. days \in SUBSET Nat /\ days # {}
    BY <1>1
  <2> HIDE DEF days
  <2> QED
    BY <2>1, LeastOf
<1> DEFINE T == {h \in S : row[h].joined = d}
<1>4. PICK m \in T : \A k \in T : m <= k
  <2>1. T \in SUBSET Nat /\ T # {}
    BY <1>2, <1>3
  <2> QED
    BY <2>1, LeastOf
<1>5. ASSUME NEW k \in S PROVE NoLater(m, k)
  <2>1. row[m].joined = d /\ d <= row[k].joined /\ d \in Nat /\ row[k].joined \in Nat
    BY <1>1, <1>3, <1>4
  <2>2. CASE row[k].joined = d
    BY <1>4, <2>1, <2>2 DEF NoLater
  <2>3. CASE row[k].joined # d
    BY <2>1, <2>3 DEF NoLater
  <2> QED
    BY <2>2, <2>3
<1>6. m \in S
  OBVIOUS
<1> QED
  BY <1>5, <1>6 DEF First

\* A successor is a row of another account: an admin's if there is one, and the
\* first of its rank.
LEMMA SuccessorIsOther ==
  ASSUME TypeOK, NEW a, NEW g, Others(a, g) # {}
  PROVE  LET next == Successor(a, g)
         IN  /\ next \in Others(a, g)
             /\ \A j \in Others(a, g) :
                  /\ row[j].role = "admin" => row[next].role = "admin"
                  /\ row[j].role = "admin" \/ row[next].role # "admin" => NoLater(next, j)
<1> DEFINE others == Others(a, g)
           admins == {h \in others : row[h].role = "admin"}
<1>1. others \in SUBSET Handle
  BY DEF Others, Rows
<1>2. admins # {} => First(admins) \in admins /\ \A k \in admins : NoLater(First(admins), k)
  BY <1>1, FirstIsFirst
<1>3. First(others) \in others /\ \A k \in others : NoLater(First(others), k)
  BY <1>1, FirstIsFirst
<1>4. CASE admins # {}
  BY <1>2, <1>4 DEF Successor
<1>5. CASE admins = {}
  BY <1>3, <1>5 DEF Successor
<1> QED
  BY <1>4, <1>5

\* What is inserted is a row of its own.
LEMMA InsertIs ==
  ASSUME TypeOK, NEW a \in Account, NEW g \in GroupId, NEW role \in Role, NEW checked \in BOOLEAN,
         Insert(a, g, role, checked)
  PROVE  LET n == minted + 1
         IN  /\ n \in Handle /\ row[n] = NoRow /\ minted' = n
             /\ row'[n] \in Row /\ row'[n] # NoRow
             /\ row'[n].group = g /\ row'[n].account = a /\ row'[n].role = role
             /\ row'[n].checked = checked
             /\ \A h \in Handle : h # n => row'[h] = row[h]
             /\ row' \in [Handle -> Row \cup {NoRow}]
<1>1. minted \in Nat /\ minted + 1 \in Handle
  BY GroupsAssumption DEF Insert, TypeOK, Handle
<1>2. row[minted + 1] = NoRow
  BY <1>1 DEF TypeOK
<1>3. PICK d \in 0 .. today :
        row' = [row EXCEPT ![minted + 1] =
                 [group |-> g, account |-> a, role |-> role, joined |-> d, checked |-> checked]]
  BY DEF Insert
<1>4. d \in 0 .. MaxDay
  BY GroupsAssumption DEF TypeOK
<1> DEFINE new == [group |-> g, account |-> a, role |-> role, joined |-> d, checked |-> checked]
<1>5. new \in Row /\ new # NoRow
  BY <1>4, GroupsAssumption DEF Row, NoRow, GroupId
<1> HIDE DEF new
<1>6. row'[minted + 1] = new /\ \A h \in Handle : h # minted + 1 => row'[h] = row[h]
  BY <1>1, <1>3 DEF TypeOK, new
<1>7. row' \in [Handle -> Row \cup {NoRow}]
  BY <1>1, <1>3, <1>5 DEF TypeOK, new
<1>8. minted' = minted + 1
  BY DEF Insert
<1>9. new.group = g /\ new.account = a /\ new.role = role /\ new.checked = checked
  BY DEF new
<1> QED
  BY <1>1, <1>2, <1>5, <1>6, <1>7, <1>8, <1>9

LEMMA WithRole ==
  ASSUME NEW r \in Row, NEW x \in Role
  PROVE  LET new == [r EXCEPT !.role = x]
         IN  /\ new \in Row /\ new # NoRow /\ r # NoRow /\ new.role = x
             /\ new.group = r.group /\ new.account = r.account /\ new.checked = r.checked
<1> DEFINE new == [r EXCEPT !.role = x]
<1>1. new \in Row /\ new.role = x
  BY DEF Row
<1>2. \A s \in Row : s # NoRow
  BY GroupsAssumption DEF Row, NoRow, GroupId
<1>3. new.group = r.group /\ new.account = r.account /\ new.checked = r.checked
  BY DEF Row
<1> QED
  BY <1>1, <1>2, <1>3

\* What UpdateGroup makes of the rows: no member comes or goes.
NewRole(a, g, named, role, heir, k) ==
  IF k = heir THEN "owner"
  ELSE IF heir # 0 /\ k \in Membership(a, g) THEN "admin"
  ELSE IF k = named THEN role
  ELSE row[k].role

LEMMA UpdateGroupRows ==
  ASSUME TypeOK, NEW a \in Account, NEW g \in GroupId,
         NEW named \in Rows(g) \cup {0}, NEW heir \in Rows(g) \cup {0}, NEW role \in {"admin", "member"},
         UpdateGroup(a, g, named, role, heir)
  PROVE  /\ row' \in [Handle -> Row \cup {NoRow}]
         /\ \A k \in Handle :
              /\ row'[k].group = row[k].group /\ row'[k].account = row[k].account
              /\ row'[k].checked = row[k].checked
              /\ row'[k].role = NewRole(a, g, named, role, heir, k)
              /\ row'[k] = NoRow <=> row[k] = NoRow
<1>1. \A k \in Handle : row[k] = NoRow \/ row[k] \in Row
  BY DEF TypeOK
<1>2. ASSUME NEW k \in Rows(g) \cup Membership(a, g) PROVE k \in Handle /\ row[k] # NoRow
  BY GroupsAssumption DEF Rows, NoRow, Membership, GroupId
<1>3. row' = [k \in Handle |->
              IF k = heir THEN [row[k] EXCEPT !.role = "owner"]
              ELSE IF heir # 0 /\ k \in Membership(a, g) THEN [row[k] EXCEPT !.role = "admin"]
              ELSE IF k = named THEN [row[k] EXCEPT !.role = role]
              ELSE row[k]]
  BY DEF UpdateGroup
<1>4. 0 \notin Handle
  BY GroupsAssumption DEF Handle
<1>5. {"owner", "admin", role} \subseteq Role
  BY DEF Role
<1>6. ASSUME NEW k \in Handle
      PROVE  /\ row'[k] \in Row \cup {NoRow}
             /\ row'[k] = NoRow <=> row[k] = NoRow
             /\ row'[k].group = row[k].group /\ row'[k].account = row[k].account
             /\ row'[k].checked = row[k].checked
             /\ row'[k].role = NewRole(a, g, named, role, heir, k)
  <2>1. CASE k = heir
    <3>1. row[k] \in Row /\ row'[k] = [row[k] EXCEPT !.role = "owner"]
      BY <1>1, <1>2, <1>3, <1>4, <2>1
    <3> QED
      BY <3>1, <2>1, <1>5, WithRole DEF NewRole
  <2>2. CASE k # heir /\ heir # 0 /\ k \in Membership(a, g)
    <3>1. row[k] \in Row /\ row'[k] = [row[k] EXCEPT !.role = "admin"]
      BY <1>1, <1>2, <1>3, <2>2
    <3> QED
      BY <3>1, <2>2, <1>5, WithRole DEF NewRole
  <2>3. CASE k # heir /\ ~(heir # 0 /\ k \in Membership(a, g)) /\ k = named
    <3>1. row[k] \in Row /\ row'[k] = [row[k] EXCEPT !.role = role]
      BY <1>1, <1>2, <1>3, <1>4, <2>3
    <3> QED
      BY <3>1, <2>3, <1>5, WithRole DEF NewRole
  <2>4. CASE k # heir /\ ~(heir # 0 /\ k \in Membership(a, g)) /\ k # named
    <3>1. row'[k] = row[k]
      BY <1>3, <2>4
    <3> QED
      BY <3>1, <2>4, <1>1 DEF NewRole
  <2> QED
    BY <2>1, <2>2, <2>3, <2>4
<1> QED
  BY <1>3, <1>6

-------------------------------------------------------------------------------
(* The type invariant.                                                     *)

LEMMA TypeInit == Init => TypeOK
  BY GroupsAssumption DEF Init, TypeOK, GroupId, Handle

\* A change of roles or owner keeps the foreign keys: no member comes or goes.
LEMMA UpdateGroupTyped ==
  ASSUME TypeOK, NEW a \in Account, NEW g \in GroupId,
         NEW named \in Rows(g) \cup {0}, NEW heir \in Rows(g) \cup {0}, NEW role \in {"admin", "member"},
         UpdateGroup(a, g, named, role, heir)
  PROVE  TypeOK'
<1>1. \A k \in Rows(g) : k \in Handle /\ row[k] # NoRow
  BY GroupsAssumption DEF Rows, NoRow, GroupId
<1>2. heir # 0 => row[heir].account \in alive \cap Account
  BY <1>1 DEF TypeOK, Row
<1>3. /\ owner' \in [GroupId -> Account \cup {Nobody}]
      /\ \A k \in GroupId : owner'[k] \in alive \cup {Nobody} /\ (owner[k] # Nobody => owner'[k] # Nobody)
  BY <1>2, GroupsAssumption DEF UpdateGroup, TypeOK
<1>4. /\ row' \in [Handle -> Row \cup {NoRow}]
      /\ \A k \in Handle : row'[k].group = row[k].group /\ row'[k].account = row[k].account
                        /\ (row'[k] = NoRow <=> row[k] = NoRow)
  BY UpdateGroupRows
<1>5. UNCHANGED <<alive, code, minted, today, burnt>>
  BY DEF UpdateGroup
<1>6. ASSUME NEW k \in Handle, row'[k] # NoRow
      PROVE  k <= minted /\ owner'[row'[k].group] # Nobody /\ row'[k].account \in alive
  <2>1. row[k] \in Row /\ k <= minted /\ owner[row[k].group] # Nobody /\ row[k].account \in alive
    BY <1>4, <1>6 DEF TypeOK
  <2>2. row[k].group \in GroupId
    BY <2>1 DEF Row
  <2> QED
    BY <1>3, <1>4, <2>1, <2>2
<1> QED
  BY <1>3, <1>4, <1>5, <1>6 DEF TypeOK

\* What is left to show when no handle is minted and no day ends.
LEMMA TypedIf ==
  ASSUME TypeOK, minted' = minted, today' = today, alive' = alive, burnt' = burnt,
         code' \in [GroupId -> Code \cup {NoCode}],
         owner' \in [GroupId -> Account \cup {Nobody}],
         \A k \in GroupId : owner'[k] \in alive \cup {Nobody},
         row' \in [Handle -> Row \cup {NoRow}],
         \A k \in Handle : row'[k] # NoRow =>
           k <= minted /\ owner'[row'[k].group] # Nobody /\ row'[k].account \in alive
  PROVE  TypeOK'
  BY DEF TypeOK

LEMMA TypeNext == TypeOK /\ [Next]_groupVars => TypeOK'
<1> SUFFICES ASSUME TypeOK, [Next]_groupVars PROVE TypeOK'
  OBVIOUS
<1> USE GroupsAssumption DEF GroupId, Handle
<1>1. ASSUME NEW a \in Account, NEW g \in GroupId, CreateGroup(a, g) PROVE TypeOK'
  <2>1. "owner" \in Role /\ Insert(a, g, "owner", TRUE)
    BY <1>1 DEF CreateGroup, Role
  <2>2. /\ row' \in [Handle -> Row \cup {NoRow}] /\ minted' = minted + 1 /\ minted + 1 \in Handle
        /\ row'[minted + 1].group = g /\ row'[minted + 1].account = a
        /\ \A h \in Handle : h # minted + 1 => row'[h] = row[h]
    BY <2>1, InsertIs
  <2>3. code' \in [GroupId -> Code \cup {NoCode}]
    BY <1>1 DEF CreateGroup, NewCode, TypeOK
  <2>4. owner' = [owner EXCEPT ![g] = a] /\ a \in alive /\ burnt' \subseteq GroupId
        /\ UNCHANGED <<alive, today>>
    BY <1>1 DEF CreateGroup, TypeOK
  <2>5. \A h \in Handle : row'[h] # NoRow =>
          h <= minted + 1 /\ owner'[row'[h].group] # Nobody /\ row'[h].account \in alive
    <3> SUFFICES ASSUME NEW h \in Handle, row'[h] # NoRow
                 PROVE  h <= minted + 1 /\ owner'[row'[h].group] # Nobody /\ row'[h].account \in alive
      OBVIOUS
    <3>1. CASE h = minted + 1
      BY <3>1, <2>2, <2>4 DEF TypeOK
    <3>2. CASE h # minted + 1
      <4>1. row'[h] = row[h] /\ h <= minted /\ owner[row[h].group] # Nobody /\ row[h].account \in alive
            /\ row[h].group \in GroupId
        BY <3>2, <2>2 DEF TypeOK, Row
      <4> QED
        BY <4>1, <2>4 DEF TypeOK
    <3> QED
      BY <3>1, <3>2
  <2> QED
    BY <2>2, <2>3, <2>4, <2>5 DEF TypeOK
<1>2. ASSUME NEW a \in Account, NEW g \in GroupId, NEW c \in Code, JoinGroup(a, c, g) PROVE TypeOK'
  <2>1. "member" \in Role /\ Insert(a, g, "member", Membership(a, g) = {})
    BY <1>2 DEF JoinGroup, Role
  <2>2. /\ row' \in [Handle -> Row \cup {NoRow}] /\ minted' = minted + 1 /\ minted + 1 \in Handle
        /\ row'[minted + 1].group = g /\ row'[minted + 1].account = a
        /\ \A h \in Handle : h # minted + 1 => row'[h] = row[h]
    BY <2>1, InsertIs
  <2>3. a \in alive /\ owner[g] # Nobody /\ UNCHANGED <<alive, owner, code, today, burnt>>
    BY <1>2 DEF JoinGroup, Live
  <2>4. \A h \in Handle : row'[h] # NoRow =>
          h <= minted + 1 /\ owner[row'[h].group] # Nobody /\ row'[h].account \in alive
    BY <2>2, <2>3 DEF TypeOK
  <2> QED
    BY <2>2, <2>3, <2>4 DEF TypeOK
<1>3. ASSUME NEW a \in Account, NEW g \in GroupId, LeaveGroup(a, g) PROVE TypeOK'
  <2>1. PICK h \in Membership(a, g) : LeaveGroup(a, g)!(h)
    BY <1>3 DEF LeaveGroup
  <2>2. CASE LeaveGroup(a, g)!(h)!1!1
    BY <2>1, <2>2 DEF TypeOK, Row, NoRow, Burned
  <2>3. CASE LeaveGroup(a, g)!(h)!1!2
    <3> DEFINE next == Successor(a, g)
    <3>1. next \in Handle /\ row[next].group = g
      BY <2>3, SuccessorIsOther DEF Others, Rows
    <3> HIDE DEF next
    <3>2. row[next] \in Row /\ row[next] # NoRow
      BY <3>1 DEF TypeOK, NoRow
    <3>3. LET new == [row[next] EXCEPT !.role = "owner"]
          IN  new \in Row /\ new.group = row[next].group /\ new.account = row[next].account
      BY <3>2, WithRole DEF Role
    <3>4. row[next].account \in alive /\ row[next].account \in Account /\ next <= minted /\ owner[g] # Nobody
      BY <3>1, <3>2 DEF TypeOK, Row
    <3>5. /\ row' = [k \in Handle |-> IF k = next THEN [row[k] EXCEPT !.role = "owner"] ELSE Burned({h})[k]]
          /\ owner' = [owner EXCEPT ![g] = row[next].account]
          /\ UNCHANGED <<alive, code, minted, today, burnt>>
      BY <2>1, <2>3 DEF next
    <3>6. row' \in [Handle -> Row \cup {NoRow}]
      BY <3>3, <3>5 DEF TypeOK, Burned
    <3>7. ASSUME NEW k \in Handle, row'[k] # NoRow
          PROVE  k <= minted /\ owner'[row'[k].group] # Nobody /\ row'[k].account \in alive
      <4>1. CASE k = next
        BY <3>1, <3>3, <3>4, <3>5, <4>1 DEF TypeOK
      <4>2. CASE k # next
        <5>1. row'[k] = row[k]
          BY <3>5, <3>7, <4>2 DEF Burned
        <5> QED
          BY <3>4, <3>5, <3>7, <5>1 DEF TypeOK, Row
      <4> QED
        BY <4>1, <4>2
    <3>8. owner' \in [GroupId -> Account \cup {Nobody}] /\ \A k \in GroupId : owner'[k] \in alive \cup {Nobody}
      BY <3>4, <3>5 DEF TypeOK
    <3> QED
      <4>1. code' \in [GroupId -> Code \cup {NoCode}]
        BY <3>5 DEF TypeOK
      <4> QED
        BY <3>5, <3>6, <3>7, <3>8, <4>1, TypedIf
  <2>4. CASE LeaveGroup(a, g)!(h)!1!3
    BY <2>1, <2>4 DEF TypeOK, Row, NoRow, Burned, RowsWithout, DropGroups
  <2> QED
    BY <2>1, <2>2, <2>3, <2>4
<1>4. ASSUME NEW a \in Account, NEW g \in GroupId, RotateInvite(a, g) PROVE TypeOK'
  <2>1. code' \in [GroupId -> Code \cup {NoCode}]
    BY <1>4 DEF RotateInvite, NewCode, TypeOK
  <2>2. UNCHANGED <<alive, owner, row, minted, today, burnt>>
    BY <1>4 DEF RotateInvite
  <2>3. /\ owner' \in [GroupId -> Account \cup {Nobody}]
        /\ \A k \in GroupId : owner'[k] \in alive \cup {Nobody}
        /\ row' \in [Handle -> Row \cup {NoRow}]
        /\ \A k \in Handle : row'[k] # NoRow =>
             k <= minted /\ owner'[row'[k].group] # Nobody /\ row'[k].account \in alive
    BY <2>2 DEF TypeOK
  <2> QED
    BY <2>1, <2>2, <2>3, TypedIf
<1>5. ASSUME NEW a \in Account, NEW g \in GroupId, DeleteGroup(a, g) PROVE TypeOK'
  BY <1>5 DEF DeleteGroup, TypeOK, Row, NoRow, Burned, RowsWithout, DropGroups
<1>6. ASSUME NEW a \in Account, NEW g \in GroupId, NEW h \in Handle, RemoveMember(a, g, h) PROVE TypeOK'
  BY <1>6 DEF RemoveMember, TypeOK, Row, NoRow, Burned
<1>7. ASSUME NEW a \in Account, NEW g \in GroupId, NEW named \in Rows(g) \cup {0}, NEW heir \in Rows(g) \cup {0},
             NEW role \in {"admin", "member"}, UpdateGroup(a, g, named, role, heir)
      PROVE  TypeOK'
  BY <1>7, UpdateGroupTyped
<1>8. ASSUME NEW a \in Account, NEW h \in Handle, BurnGroupHandle(a, h) PROVE TypeOK'
  <2>1. row[h].group \in GroupId
    BY <1>8 DEF BurnGroupHandle, TypeOK, Row
  <2> QED
    BY <1>8, <2>1 DEF BurnGroupHandle, TypeOK, NoRow, Burned, Row
<1>9. ASSUME NEW a \in Account, DeleteAccount(a) PROVE TypeOK'
  <2>1. \A h \in Handle : row'[h] # NoRow =>
           row'[h] = row[h] /\ row[h].account # a /\ owner'[row[h].group] = owner[row[h].group]
    BY <1>9 DEF DeleteAccount, Burned, DropGroups, RowsOf, TypeOK, Row, NoRow
  <2>2. row' \in [Handle -> Row \cup {NoRow}]
    BY <1>9 DEF DeleteAccount, Burned, TypeOK
  <2>3. \A h \in Handle : row'[h] # NoRow => row'[h].account \in alive'
    BY <1>9, <2>1 DEF DeleteAccount, TypeOK
  <2>4. /\ owner' \in [GroupId -> Account \cup {Nobody}]
        /\ \A g \in GroupId : owner'[g] \in alive' \cup {Nobody}
    BY <1>9 DEF DeleteAccount, DropGroups, TypeOK
  <2>5. PICK G \in SUBSET GroupId : DropGroups(G)
    BY <1>9 DEF DeleteAccount
  <2>6. code' \in [GroupId -> Code \cup {NoCode}]
    BY <2>5 DEF DropGroups, TypeOK
  <2>7. burnt' \in SUBSET GroupId
    BY <2>5 DEF DropGroups, TypeOK
  <2>8. alive' \subseteq Account /\ UNCHANGED <<minted, today>>
    BY <1>9 DEF DeleteAccount, TypeOK
  <2>9. \A h \in Handle : row'[h] # NoRow => h <= minted /\ owner[row[h].group] # Nobody
    BY <2>1 DEF TypeOK
  <2>10. \A h \in Handle : row'[h] # NoRow => owner'[row'[h].group] # Nobody
    BY <2>1, <2>9
  <2> QED
    BY <2>2, <2>3, <2>4, <2>6, <2>7, <2>8, <2>9, <2>10 DEF TypeOK
<1>10. CASE UNCHANGED groupVars
  BY <1>10 DEF groupVars, TypeOK
<1>11. CASE Midnight
  BY <1>11 DEF Midnight, TypeOK
<1> QED
  BY <1>1, <1>2, <1>3, <1>4, <1>5, <1>6, <1>7, <1>8, <1>9, <1>10, <1>11 DEF Next, Handler

\* The type invariant, whose parts are the foreign keys of the tables.
THEOREM GroupsTypeCorrect == Spec => []TypeOK
  BY TypeInit, TypeNext, PTL DEF Spec

-------------------------------------------------------------------------------
(* The owners.                                                             *)

Agreed == TypeOK /\ OwnersAgree /\ OneMembership

\* Rows only go, and the groups of those that stay keep their owners.
LEMMA FewerRows ==
  ASSUME Agreed,
         \A h \in Handle :
           \/ row'[h] = NoRow
           \/ row'[h] = row[h] /\ owner'[row[h].group] = owner[row[h].group]
  PROVE  OwnersAgree' /\ OneMembership'
<1>1. OwnersAgree'
  BY DEF Agreed, OwnersAgree, Rows, NoRow
<1>2. ASSUME NEW h \in Handle, NEW k \in Handle, h < k,
             row'[h] # NoRow, row'[h].group = row'[k].group, row'[h].account = row'[k].account
      PROVE  ~row'[k].checked
  <2>1. row'[h] = row[h]
    BY <1>2
  <2>2. row[h].group # 0
    BY <1>2, <2>1, GroupsAssumption DEF Agreed, TypeOK, Row, GroupId
  <2>3. row'[k] = row[k]
    BY <1>2, <2>1, <2>2 DEF NoRow
  <2> QED
    BY <1>2, <2>1, <2>3 DEF Agreed, OneMembership
<1>3. OneMembership'
  BY <1>2 DEF OneMembership
<1> QED
  BY <1>1, <1>3

LEMMA AgreedNext == Agreed /\ [Next]_groupVars => Agreed'
<1> SUFFICES ASSUME Agreed, [Next]_groupVars PROVE OwnersAgree' /\ OneMembership'
  BY TypeNext DEF Agreed
<1> USE GroupsAssumption
<1>a. \A h \in Handle : row[h] = NoRow \/ row[h] \in Row
  BY DEF Agreed, TypeOK
<1>b. \A h \in Handle : row[h] # NoRow => owner[row[h].group] # Nobody /\ h <= minted
  BY DEF Agreed, TypeOK
<1>c. minted \in Nat /\ row = [h \in Handle |-> row[h]] /\ owner = [g \in GroupId |-> owner[g]]
  BY DEF Agreed, TypeOK
<1>1. ASSUME NEW a \in Account, NEW g \in GroupId, CreateGroup(a, g) PROVE OwnersAgree' /\ OneMembership'
  <2>1. \A h \in Handle : row[h].group # g
    BY <1>1, <1>a, <1>b DEF CreateGroup, NextId, Live, NoRow, GroupId
  <2>2. /\ minted + 1 \in Handle /\ row'[minted + 1].group = g
        /\ row'[minted + 1].account = a /\ row'[minted + 1].role = "owner"
        /\ \A h \in Handle : h # minted + 1 => row'[h] = row[h]
    BY <1>1, InsertIs DEF CreateGroup, Agreed, Role
  <2>3. \A k \in GroupId : owner'[k] = IF k = g THEN a ELSE owner[k]
    BY <1>1, <1>c DEF CreateGroup
  <2>4. OwnersAgree'
    <3> SUFFICES ASSUME NEW m \in Handle, row'[m].role = "owner"
                 PROVE  /\ owner'[row'[m].group] = row'[m].account
                        /\ \A k \in Handle : row'[k].group = row'[m].group /\ row'[k].role = "owner" => k = m
      BY DEF OwnersAgree, Rows
    <3>1. CASE m = minted + 1
      BY <2>1, <2>2, <2>3, <3>1
    <3>2. CASE m # minted + 1
      <4>1. row'[m] = row[m] /\ row[m].group # g /\ row[m].group \in GroupId
        BY <2>1, <2>2, <3>2, <1>a DEF Row, NoRow
      <4> QED
        BY <2>2, <2>3, <4>1 DEF Agreed, OwnersAgree, Rows
    <3> QED
      BY <3>1, <3>2
  <2>5. ASSUME NEW h \in Handle, NEW k \in Handle, row'[h] # NoRow, h < k,
               row'[h].group = row'[k].group, row'[h].account = row'[k].account
        PROVE  ~row'[k].checked
    <3>0. h # k
      BY <2>5 DEF Handle
    <3>1. h # minted + 1 /\ k # minted + 1
      BY <2>1, <2>2, <2>5, <3>0
    <3> QED
      BY <2>2, <2>5, <3>1 DEF Agreed, OneMembership
  <2> QED
    BY <2>4, <2>5 DEF OneMembership
<1>2. ASSUME NEW a \in Account, NEW g \in GroupId, NEW c \in Code, JoinGroup(a, c, g)
      PROVE  OwnersAgree' /\ OneMembership'
  <2>1. /\ minted + 1 \in Handle /\ row[minted + 1] = NoRow /\ row'[minted + 1].group = g
        /\ row'[minted + 1].account = a /\ row'[minted + 1].role = "member"
        /\ row'[minted + 1].checked = (Membership(a, g) = {})
        /\ \A h \in Handle : h # minted + 1 => row'[h] = row[h]
    BY <1>2, InsertIs DEF JoinGroup, Agreed, Role
  <2>2. OwnersAgree'
    BY <1>2, <2>1 DEF JoinGroup, Agreed, OwnersAgree, Rows
  <2>3. OneMembership'
    <3> SUFFICES ASSUME NEW h \in Handle, NEW k \in Handle, row'[h] # NoRow, h < k,
                        row'[h].group = row'[k].group, row'[h].account = row'[k].account
                 PROVE  ~row'[k].checked
      BY DEF OneMembership
    <3>1. h # minted + 1
      <4>1. h = minted + 1 => row'[k] = NoRow
        BY <1>b, <1>c, <2>1 DEF Handle
      <4>2. NoRow.group # g
        BY DEF NoRow, GroupId
      <4> QED
        BY <2>1, <4>1, <4>2
    <3>2. row'[h] = row[h]
      BY <2>1, <3>1
    <3>3. CASE k = minted + 1
      <4>1. h \in Membership(a, g)
        BY <2>1, <3>2, <3>3 DEF Membership, Rows, RowsOf
      <4> QED
        BY <2>1, <3>3, <4>1
    <3>4. CASE k # minted + 1
      BY <2>1, <3>2, <3>4 DEF Agreed, OneMembership
    <3> QED
      BY <3>3, <3>4
  <2> QED
    BY <2>2, <2>3
<1>3. ASSUME NEW a \in Account, NEW g \in GroupId, LeaveGroup(a, g) PROVE OwnersAgree' /\ OneMembership'
  <2>1. PICK h \in Membership(a, g) : LeaveGroup(a, g)!(h)
    BY <1>3 DEF LeaveGroup
  <2>2. CASE LeaveGroup(a, g)!(h)!1!1
    BY <2>1, <2>2, FewerRows DEF Burned
  <2>3. CASE LeaveGroup(a, g)!(h)!1!2
    <3> DEFINE next == Successor(a, g)
    <3>1. next \in Handle /\ row[next].group = g /\ row[next].account # a
      BY <2>3, SuccessorIsOther DEF Others, Rows, RowsOf, Agreed
    <3>2. /\ row' = [k \in Handle |-> IF k = next THEN [row[k] EXCEPT !.role = "owner"] ELSE Burned({h})[k]]
          /\ owner' = [owner EXCEPT ![g] = row[next].account]
      BY <2>3
    <3> HIDE DEF next
    <3>3. h \in Handle /\ row[h].group = g /\ row[h].account = a /\ row[h].role = "owner"
      BY <2>3 DEF Membership, Rows, RowsOf
    <3>4. row[next] \in Row
      BY <3>1, <1>a DEF NoRow, GroupId
    <3>5. /\ row'[next].group = g /\ row'[next].account = row[next].account /\ row'[next].role = "owner"
          /\ row'[next] # NoRow /\ row'[next].checked = row[next].checked
      <4>1. row'[next] = [row[next] EXCEPT !.role = "owner"]
        BY <3>1, <3>2
      <4>2. "owner" \in Role
        BY DEF Role
      <4> QED
        BY <3>1, <3>4, <4>1, <4>2, WithRole
    <3>6. \A k \in Handle : k # next => row'[k] = IF k = h THEN NoRow ELSE row[k]
      BY <3>2 DEF Burned
    <3>7. \A k \in GroupId : owner'[k] = IF k = g THEN row[next].account ELSE owner[k]
      BY <3>2, <1>c
    <3>8. \A k \in Rows(g) : row[k].role = "owner" => k = h
      BY <3>3 DEF Agreed, OwnersAgree
    <3>9. OwnersAgree'
      <4> SUFFICES ASSUME NEW m \in Handle, row'[m].role = "owner"
                   PROVE  /\ owner'[row'[m].group] = row'[m].account
                          /\ \A k \in Handle : row'[k].group = row'[m].group /\ row'[k].role = "owner" => k = m
        BY DEF OwnersAgree, Rows
      <4>1. CASE m = next
        BY <4>1, <3>1, <3>5, <3>6, <3>7, <3>8 DEF Rows, NoRow
      <4>2. CASE m # next
        <5>1. row'[m] = row[m] /\ row[m].role = "owner" /\ m # h
          BY <4>2, <3>6 DEF NoRow
        <5>2. row[m].group # g /\ row[m].group \in GroupId
          BY <5>1, <3>8, <1>a DEF Rows, Row, NoRow
        <5> QED
          BY <5>1, <5>2, <3>1, <3>5, <3>6, <3>7 DEF Agreed, OwnersAgree, Rows, NoRow
      <4> QED
        BY <4>1, <4>2
    <3>10. OneMembership'
      <4>1. \A k \in Handle : row'[k] # NoRow =>
               /\ row[k] # NoRow /\ row'[k].group = row[k].group
               /\ row'[k].account = row[k].account /\ row'[k].checked = row[k].checked
        <5>1. row[next] # NoRow
          BY <3>1, <3>4 DEF NoRow, GroupId
        <5> QED
          BY <3>1, <3>5, <3>6, <5>1
      <4>2. \A k \in Handle : row[k] # NoRow <=> row[k].group # 0
        <5>1. \A r \in Row : r.group # 0
          BY DEF Row, GroupId
        <5>2. NoRow.group = 0
          BY DEF NoRow
        <5> QED
          BY <1>a, <5>1, <5>2
      <4>3. NoRow.group = 0
        BY DEF NoRow
      <4>4. ASSUME NEW p \in Handle, NEW q \in Handle, row'[p] # NoRow, p < q,
                   row'[p].group = row'[q].group, row'[p].account = row'[q].account
            PROVE  ~row'[q].checked
        <5>1. row'[q] # NoRow
          BY <4>1, <4>2, <4>3, <4>4
        <5> QED
          BY <4>1, <4>4, <5>1 DEF Agreed, OneMembership
      <4> QED
        BY <4>4 DEF OneMembership
    <3> QED
      BY <3>9, <3>10
  <2>4. CASE LeaveGroup(a, g)!(h)!1!3
    <3>1. \A k \in Handle : row'[k] = NoRow \/ (row'[k] = row[k] /\ row[k].group # g)
      BY <2>4 DEF RowsWithout, Burned
    <3>2. \A k \in GroupId : k # g => owner'[k] = owner[k]
      BY <2>4 DEF DropGroups
    <3> QED
      BY <2>1, <3>1, <3>2, <1>a, FewerRows DEF Row
  <2> QED
    BY <2>1, <2>2, <2>3, <2>4
<1>4. ASSUME NEW a \in Account, NEW g \in GroupId, RotateInvite(a, g) PROVE OwnersAgree' /\ OneMembership'
  BY <1>4, FewerRows DEF RotateInvite
<1>5. ASSUME NEW a \in Account, NEW g \in GroupId, DeleteGroup(a, g) PROVE OwnersAgree' /\ OneMembership'
  <2>1. \A k \in Handle : row'[k] = NoRow \/ (row'[k] = row[k] /\ row[k].group # g)
    BY <1>5 DEF DeleteGroup, RowsWithout, Burned
  <2>2. \A k \in GroupId : k # g => owner'[k] = owner[k]
    BY <1>5 DEF DeleteGroup, DropGroups
  <2> QED
    BY <2>1, <2>2, <1>a, FewerRows DEF Row
<1>6. ASSUME NEW a \in Account, NEW g \in GroupId, NEW h \in Handle, RemoveMember(a, g, h)
      PROVE  OwnersAgree' /\ OneMembership'
  BY <1>6, FewerRows DEF RemoveMember, Burned
<1>7. ASSUME NEW a \in Account, NEW g \in GroupId, NEW named \in Rows(g) \cup {0}, NEW heir \in Rows(g) \cup {0},
             NEW role \in {"admin", "member"}, UpdateGroup(a, g, named, role, heir)
      PROVE  OwnersAgree' /\ OneMembership'
  <2>1. \A k \in Handle : /\ row'[k].group = row[k].group /\ row'[k].account = row[k].account
                          /\ row'[k].checked = row[k].checked
                          /\ row'[k].role = NewRole(a, g, named, role, heir, k)
                          /\ row'[k] = NoRow <=> row[k] = NoRow
    BY <1>7, UpdateGroupRows DEF Agreed
  <2>2. OneMembership'
    BY <2>1 DEF Agreed, OneMembership
  <2>3. PICK h \in Membership(a, g) : row[h].role = "owner"
    BY <1>7 DEF UpdateGroup, Owns
  <2>4. h \in Handle /\ row[h].group = g /\ row[h].account = a
    BY <2>3 DEF Membership, Rows, RowsOf
  <2>5. \A k \in Rows(g) : row[k].role = "owner" => k = h
    BY <2>3, <2>4 DEF Agreed, OwnersAgree
  <2>6. \A k \in Rows(g) : k \in Handle /\ row[k].group = g
    BY DEF Rows
  <2>7. 0 \notin Handle
    BY DEF Handle
  <2>8. OwnersAgree'
    <3> SUFFICES ASSUME NEW m \in Handle, row'[m].role = "owner"
                 PROVE  /\ owner'[row'[m].group] = row'[m].account
                        /\ \A k \in Handle : row'[k].group = row'[m].group /\ row'[k].role = "owner" => k = m
      BY DEF OwnersAgree, Rows
    <3>1. CASE heir = 0
      <4>1. \A k \in Handle : row'[k].role = "owner" => row[k].role = "owner"
        BY <3>1, <2>1, <2>7 DEF NewRole
      <4>2. owner' = owner
        BY <3>1, <1>7 DEF UpdateGroup
      <4> QED
        BY <4>1, <4>2, <2>1 DEF Agreed, OwnersAgree, Rows
    <3>2. CASE heir # 0
      <4>1. heir \in Rows(g) /\ heir \in Handle /\ row[heir].group = g
        BY <3>2, <2>6
      <4>2. \A k \in Rows(g) : row'[k].role = "owner" => k = heir
        BY <3>2, <2>1, <2>3, <2>5, <2>6 DEF NewRole
      <4>3. \A k \in Handle \ Rows(g) : row'[k].role = row[k].role
        BY <3>2, <2>1, <2>7, <4>1, <1>7 DEF NewRole, Membership, Rows
      <4>4. \A k \in GroupId : owner'[k] = IF k = g THEN row[heir].account ELSE owner[k]
        BY <3>2, <1>7, <1>c DEF UpdateGroup
      <4>5. CASE m \in Rows(g)
        BY <4>1, <4>2, <4>4, <4>5, <2>1, <2>6 DEF Rows
      <4>6. CASE m \notin Rows(g)
        <5>1. row[m].role = "owner" /\ row[m].group # g /\ row[m].group \in GroupId
          BY <4>3, <4>6, <1>a DEF Rows, Row, NoRow
        <5> QED
          BY <5>1, <4>3, <4>4, <2>1 DEF Agreed, OwnersAgree, Rows
      <4> QED
        BY <4>5, <4>6
    <3> QED
      BY <3>1, <3>2
  <2> QED
    BY <2>2, <2>8
<1>8. ASSUME NEW a \in Account, NEW h \in Handle, BurnGroupHandle(a, h) PROVE OwnersAgree' /\ OneMembership'
  BY <1>8, FewerRows DEF BurnGroupHandle, Burned
<1>9. ASSUME NEW a \in Account, DeleteAccount(a) PROVE OwnersAgree' /\ OneMembership'
  <2> DEFINE G == {g \in GroupId : owner[g] = a}
  <2>1. \A k \in Handle : row'[k] = NoRow \/ (row'[k] = row[k] /\ row[k].group \notin G)
    BY <1>9 DEF DeleteAccount, Burned
  <2>2. \A k \in GroupId : k \notin G => owner'[k] = owner[k]
    BY <1>9 DEF DeleteAccount, DropGroups
  <2> QED
    BY <2>1, <2>2, <1>a, FewerRows DEF Row
<1>10. CASE UNCHANGED groupVars
  <2>1. row' = row /\ owner' = owner
    BY <1>10 DEF groupVars
  <2> QED
    BY <2>1, FewerRows
<1>11. CASE Midnight
  BY <1>11, FewerRows DEF Midnight
<1>12. ASSUME NEW a \in Account, Handler(a) PROVE OwnersAgree' /\ OneMembership'
  BY <1>12, <1>1, <1>2, <1>3, <1>4, <1>5, <1>6, <1>7, <1>8, <1>9 DEF Handler
<1> QED
  BY <1>10, <1>11, <1>12 DEF Next

LEMMA AgreedInit == Init => Agreed
<1> SUFFICES ASSUME Init PROVE OwnersAgree /\ OneMembership
  BY TypeInit DEF Agreed
<1>1. \A h \in Handle : row[h] = NoRow
  BY DEF Init
<1> QED
  BY <1>1 DEF OwnersAgree, OneMembership, NoRow

LEMMA AgreedHolds == Spec => []Agreed
  BY AgreedInit, AgreedNext, PTL DEF Spec

\* The two tables agree about the owner of a group.
THEOREM OwnersAlwaysAgree == Spec => []OwnersAgree
<1>1. Agreed => OwnersAgree
  BY DEF Agreed
<1> QED
  BY <1>1, AgreedHolds, PTL

\* No account is in a group twice, but for a row that was let in because the
\* query for the earlier one failed (groups.go:472-476).
THEOREM MembersOnce == Spec => []OneMembership
<1>1. Agreed => OneMembership
  BY DEF Agreed
<1> QED
  BY <1>1, AgreedHolds, PTL

-------------------------------------------------------------------------------
(* Every group is led until its owner burns his handle.                    *)

LedAt(k) == \E h \in Handle : row[h].group = k /\ row[h].role = "owner"
Led == Agreed /\ LedUnlessBurnt

LEMMA LedHere == LedUnlessBurnt <=> \A k \in GroupId : Live(k) /\ k \notin burnt => LedAt(k)
  BY DEF LedUnlessBurnt, LedAt, Rows

\* The row of an owner that nobody touches goes on leading.
LEMMA KeepsLeading ==
  ASSUME Led, NEW k \in GroupId, owner[k] # Nobody, k \notin burnt,
         \A h \in Handle : row[h].group = k /\ row[h].role = "owner" => row'[h] = row[h]
  PROVE  LedAt(k)'
  BY LedHere DEF Led, LedAt, Live

LEMMA LedNext == Led /\ [Next]_groupVars => Led'
<1> SUFFICES ASSUME Led, [Next]_groupVars PROVE LedUnlessBurnt'
  BY AgreedNext DEF Led
<1> SUFFICES ASSUME NEW k \in GroupId, owner'[k] # Nobody, k \notin burnt' PROVE LedAt(k)'
  BY DEF LedUnlessBurnt, LedAt, Live, Rows
<1> USE GroupsAssumption
<1>a. \A h \in Handle : row[h] = NoRow \/ row[h] \in Row
  BY DEF Led, Agreed, TypeOK
<1>b. \A h, m \in Handle : row[h].role = "owner" /\ row[h].group = k =>
        owner[k] = row[h].account /\ (row[m].role = "owner" /\ row[m].group = k => m = h)
  BY DEF Led, Agreed, OwnersAgree, Rows
<1>c. minted \in Nat /\ row = [h \in Handle |-> row[h]] /\ owner = [g \in GroupId |-> owner[g]]
  BY DEF Led, Agreed, TypeOK
<1>d. \A h \in Handle : row[h] # NoRow => h <= minted
  BY DEF Led, Agreed, TypeOK
<1>1. ASSUME NEW a \in Account, NEW g \in GroupId, CreateGroup(a, g) PROVE LedAt(k)'
  <2>1. /\ minted + 1 \in Handle /\ row[minted + 1] = NoRow /\ row'[minted + 1].group = g
        /\ row'[minted + 1].role = "owner"
        /\ \A h \in Handle : h # minted + 1 => row'[h] = row[h]
    BY <1>1, InsertIs DEF CreateGroup, Led, Agreed, Role
  <2>2. CASE k = g
    BY <2>1, <2>2 DEF LedAt
  <2>3. CASE k # g
    <3>1. owner[k] # Nobody /\ k \notin burnt
      BY <1>1, <2>3, <1>c DEF CreateGroup
    <3> QED
      BY <2>1, <3>1, KeepsLeading DEF NoRow
  <2> QED
    BY <2>2, <2>3
<1>2. ASSUME NEW a \in Account, NEW g \in GroupId, NEW c \in Code, JoinGroup(a, c, g) PROVE LedAt(k)'
  <2>1. owner[k] # Nobody /\ k \notin burnt
    BY <1>2 DEF JoinGroup
  <2>2. /\ row[minted + 1] = NoRow
        /\ \A h \in Handle : h # minted + 1 => row'[h] = row[h]
    BY <1>2, InsertIs DEF JoinGroup, Led, Agreed, Role
  <2> QED
    BY <2>1, <2>2, KeepsLeading DEF NoRow
<1>3. ASSUME NEW a \in Account, NEW g \in GroupId, LeaveGroup(a, g) PROVE LedAt(k)'
  <2>1. PICK h \in Membership(a, g) : LeaveGroup(a, g)!(h)
    BY <1>3 DEF LeaveGroup
  <2>2. h \in Handle /\ row[h].group = g
    BY <2>1 DEF Membership, Rows, RowsOf
  <2>3. CASE LeaveGroup(a, g)!(h)!1!1
    <3>1. \A m \in Handle : m # h => row'[m] = row[m]
      BY <2>3 DEF Burned
    <3> QED
      BY <2>3, <3>1, KeepsLeading
  <2>4. CASE LeaveGroup(a, g)!(h)!1!2
    <3> DEFINE next == Successor(a, g)
    <3>1. next \in Handle /\ row[next].group = g
      BY <2>4, SuccessorIsOther DEF Others, Rows, Led, Agreed
    <3>2. row' = [m \in Handle |-> IF m = next THEN [row[m] EXCEPT !.role = "owner"] ELSE Burned({h})[m]]
      BY <2>4
    <3>3. row[next] \in Row
      BY <3>1, <1>a DEF NoRow, GroupId
    <3> HIDE DEF next
    <3>4. CASE k = g
      <4>1. row'[next].group = g /\ row'[next].role = "owner"
        BY <3>1, <3>2, <3>3 DEF Row
      <4> QED
        BY <3>1, <3>4, <4>1 DEF LedAt
    <3>5. CASE k # g
      <4>1. \A m \in Handle : row[m].group = k => row'[m] = row[m]
        BY <3>1, <3>2, <3>5, <2>2 DEF Burned
      <4>2. owner[k] # Nobody /\ k \notin burnt
        BY <2>4, <3>5, <1>c
      <4> QED
        BY <4>1, <4>2, KeepsLeading
    <3> QED
      BY <3>4, <3>5
  <2>5. CASE LeaveGroup(a, g)!(h)!1!3
    <3>1. k # g /\ owner[k] # Nobody /\ k \notin burnt
      BY <2>5 DEF DropGroups
    <3>2. \A m \in Handle : row[m].group = k => row'[m] = row[m]
      BY <2>5, <3>1 DEF RowsWithout, Burned
    <3> QED
      BY <3>1, <3>2, KeepsLeading
  <2> QED
    BY <2>1, <2>3, <2>4, <2>5
<1>4. ASSUME NEW a \in Account, NEW g \in GroupId, RotateInvite(a, g) PROVE LedAt(k)'
  BY <1>4, KeepsLeading DEF RotateInvite
<1>5. ASSUME NEW a \in Account, NEW g \in GroupId, DeleteGroup(a, g) PROVE LedAt(k)'
  <2>1. k # g /\ owner[k] # Nobody /\ k \notin burnt
    BY <1>5 DEF DeleteGroup, DropGroups
  <2>2. \A m \in Handle : row[m].group = k => row'[m] = row[m]
    BY <1>5, <2>1 DEF DeleteGroup, RowsWithout, Burned
  <2> QED
    BY <2>1, <2>2, KeepsLeading
<1>6. ASSUME NEW a \in Account, NEW g \in GroupId, NEW h \in Handle, RemoveMember(a, g, h) PROVE LedAt(k)'
  <2>1. \A m \in Handle : row[m].role = "owner" => row'[m] = row[m]
    BY <1>6 DEF RemoveMember, Burned
  <2> QED
    BY <1>6, <2>1, KeepsLeading DEF RemoveMember
<1>7. ASSUME NEW a \in Account, NEW g \in GroupId, NEW named \in Rows(g) \cup {0}, NEW heir \in Rows(g) \cup {0},
             NEW role \in {"admin", "member"}, UpdateGroup(a, g, named, role, heir)
      PROVE  LedAt(k)'
  <2>1. \A m \in Handle : /\ row'[m].group = row[m].group
                          /\ row'[m].role = NewRole(a, g, named, role, heir, m)
    BY <1>7, UpdateGroupRows DEF Led, Agreed
  <2>2. 0 \notin Handle /\ \A m \in Rows(g) : m \in Handle /\ row[m].group = g
    BY DEF Handle, Rows
  <2>3. CASE k = g /\ heir # 0
    BY <2>1, <2>2, <2>3 DEF LedAt, NewRole
  <2>4. CASE k # g \/ heir = 0
    <3>1. owner[k] # Nobody /\ k \notin burnt
      BY <1>7, <2>4, <1>c DEF UpdateGroup
    <3>2. PICK m \in Handle : row[m].group = k /\ row[m].role = "owner"
      BY <3>1, LedHere DEF Led, LedAt, Live
    <3>3. row'[m].role = "owner"
      BY <1>7, <2>1, <2>2, <2>4, <3>2 DEF UpdateGroup, NotOwning, NewRole, Membership, Rows
    <3> QED
      BY <2>1, <3>2, <3>3 DEF LedAt
  <2> QED
    BY <2>3, <2>4
<1>8. ASSUME NEW a \in Account, NEW h \in Handle, BurnGroupHandle(a, h) PROVE LedAt(k)'
  <2>1. owner[k] # Nobody /\ k \notin burnt /\ ~(row[h].role = "owner" /\ row[h].group = k)
    BY <1>8 DEF BurnGroupHandle
  <2>2. \A m \in Handle : m # h => row'[m] = row[m]
    BY <1>8 DEF BurnGroupHandle, Burned
  <2> QED
    BY <2>1, <2>2, KeepsLeading
<1>9. ASSUME NEW a \in Account, DeleteAccount(a) PROVE LedAt(k)'
  <2>1. owner[k] # Nobody /\ owner[k] # a /\ k \notin burnt
    BY <1>9 DEF DeleteAccount, DropGroups
  <2>2. ASSUME NEW m \in Handle, row[m].group = k, row[m].role = "owner" PROVE row'[m] = row[m]
    <3>1. row[m].account # a
      BY <2>1, <2>2, <1>b
    <3> QED
      BY <1>9, <2>1, <2>2, <3>1 DEF DeleteAccount, Burned, RowsOf
  <2> QED
    BY <2>1, <2>2, KeepsLeading
<1>10. CASE UNCHANGED groupVars
  BY <1>10, KeepsLeading DEF groupVars
<1>11. CASE Midnight
  BY <1>11, KeepsLeading DEF Midnight
<1>12. ASSUME NEW a \in Account, Handler(a) PROVE LedAt(k)'
  BY <1>12, <1>1, <1>2, <1>3, <1>4, <1>5, <1>6, <1>7, <1>8, <1>9 DEF Handler
<1> QED
  BY <1>10, <1>11, <1>12 DEF Next

\* Leaving, removal, transfer and the deletion of accounts leave no group
\* without an owner among its members.
THEOREM GroupsAreLed == Spec => []LedUnlessBurnt
<1>1. Init => LedUnlessBurnt
  BY DEF Init, LedUnlessBurnt, Live
<1>2. Led => LedUnlessBurnt
  BY DEF Led
<1> QED
  BY <1>1, <1>2, AgreedInit, LedNext, PTL DEF Spec, Led

-------------------------------------------------------------------------------
(* The limits.  Both are counted in the transaction that inserts a member; *)
(* no other handler adds a row.                                            *)

LEMMA HandlesFinite == \A S \in SUBSET Handle : IsFiniteSet(S) /\ Cardinality(S) \in Nat
<1>1. IsFiniteSet(Handle)
  BY GroupsAssumption, FS_Interval DEF Handle
<1>2. ASSUME NEW S \in SUBSET Handle PROVE IsFiniteSet(S) /\ Cardinality(S) \in Nat
  BY <1>1, FS_Subset, FS_CardinalityType
<1> QED
  BY <1>2

\* Where no row is new, there are no more rows of a group or of an account.
LEMMA NoNewRows ==
  ASSUME WithinLimits,
         \A h \in Handle : row'[h] # NoRow => row'[h].group = row[h].group /\ row'[h].account = row[h].account
  PROVE  WithinLimits'
<1>1. ASSUME NEW g \in GroupId PROVE Cardinality(Rows(g)') <= MaxMembers
  <2>1. Rows(g)' \in SUBSET Rows(g) /\ Rows(g) \in SUBSET Handle
    BY GroupsAssumption DEF Rows, NoRow, GroupId
  <2>2. Cardinality(Rows(g)') <= Cardinality(Rows(g))
    BY <2>1, HandlesFinite, FS_Subset
  <2>3. Cardinality(Rows(g)') \in Nat /\ Cardinality(Rows(g)) \in Nat
    BY <2>1, HandlesFinite
  <2> QED
    BY <2>2, <2>3, GroupsAssumption DEF WithinLimits
<1>2. ASSUME NEW a \in Account PROVE Cardinality(RowsOf(a)') <= MaxPerAccount
  <2>1. RowsOf(a)' \in SUBSET RowsOf(a) /\ RowsOf(a) \in SUBSET Handle
    BY GroupsAssumption DEF RowsOf, NoRow
  <2>2. Cardinality(RowsOf(a)') <= Cardinality(RowsOf(a))
    BY <2>1, HandlesFinite, FS_Subset
  <2>3. Cardinality(RowsOf(a)') \in Nat /\ Cardinality(RowsOf(a)) \in Nat
    BY <2>1, HandlesFinite
  <2> QED
    BY <2>2, <2>3, GroupsAssumption DEF WithinLimits
<1> QED
  BY <1>1, <1>2 DEF WithinLimits

\* One row more, of account a in group g, where both have room.
LEMMA OneNewRow ==
  ASSUME WithinLimits, NEW a \in Account, NEW g \in GroupId, NEW n \in Handle, row[n] = NoRow,
         Cardinality(Rows(g)) < MaxMembers, MayEnter(a),
         row'[n].group = g, row'[n].account = a,
         \A h \in Handle : h # n => row'[h] = row[h]
  PROVE  WithinLimits'
<1>1. ASSUME NEW k \in GroupId PROVE Cardinality(Rows(k)') <= MaxMembers
  <2>1. Rows(k)' = (IF k = g THEN Rows(k) \cup {n} ELSE Rows(k)) /\ n \notin Rows(k)
    BY GroupsAssumption DEF Rows, NoRow, GroupId
  <2>2. Rows(k) \in SUBSET Handle
    BY DEF Rows
  <2>3. IsFiniteSet(Rows(k)) /\ Cardinality(Rows(k)) \in Nat
    BY <2>2, HandlesFinite
  <2>4. Cardinality(Rows(k) \cup {n}) = Cardinality(Rows(k)) + 1
    BY <2>1, <2>3, FS_AddElement
  <2> QED
    BY <2>1, <2>3, <2>4, GroupsAssumption DEF WithinLimits
<1>2. ASSUME NEW b \in Account PROVE Cardinality(RowsOf(b)') <= MaxPerAccount
  <2>1. RowsOf(b)' = (IF b = a THEN RowsOf(b) \cup {n} ELSE RowsOf(b)) /\ n \notin RowsOf(b)
    BY GroupsAssumption DEF RowsOf, NoRow
  <2>2. RowsOf(b) \in SUBSET Handle
    BY DEF RowsOf
  <2>3. IsFiniteSet(RowsOf(b)) /\ Cardinality(RowsOf(b)) \in Nat
    BY <2>2, HandlesFinite
  <2>4. Cardinality(RowsOf(b) \cup {n}) = Cardinality(RowsOf(b)) + 1
    BY <2>1, <2>3, FS_AddElement
  <2> QED
    BY <2>1, <2>3, <2>4, GroupsAssumption DEF WithinLimits, MayEnter
<1> QED
  BY <1>1, <1>2 DEF WithinLimits

LEMMA LimitsNext == TypeOK /\ WithinLimits /\ [Next]_groupVars => WithinLimits'
<1> SUFFICES ASSUME TypeOK, WithinLimits, [Next]_groupVars PROVE WithinLimits'
  OBVIOUS
<1> USE GroupsAssumption
<1>a. \A h \in Handle : row[h] = NoRow \/ row[h] \in Row
  BY DEF TypeOK
<1>1. ASSUME NEW a \in Account, NEW g \in GroupId, CreateGroup(a, g) PROVE WithinLimits'
  <2>1. Rows(g) = {}
    <3>1. owner[g] = Nobody
      BY <1>1 DEF CreateGroup, NextId, Live
    <3>2. \A h \in Handle : row[h] # NoRow => owner[row[h].group] # Nobody
      BY DEF TypeOK
    <3>3. NoRow.group # g
      BY DEF NoRow, GroupId
    <3> QED
      BY <3>1, <3>2, <3>3 DEF Rows
  <2>2. Cardinality(Rows(g)) < MaxMembers
    BY <2>1, FS_EmptySet
  <2>3. MayEnter(a)
    BY <1>1 DEF CreateGroup
  <2>4. /\ minted + 1 \in Handle /\ row[minted + 1] = NoRow
        /\ row'[minted + 1].group = g /\ row'[minted + 1].account = a
        /\ \A h \in Handle : h # minted + 1 => row'[h] = row[h]
    BY <1>1, InsertIs DEF CreateGroup, Role
  <2> QED
    BY <2>2, <2>3, <2>4, OneNewRow
<1>2. ASSUME NEW a \in Account, NEW g \in GroupId, NEW c \in Code, JoinGroup(a, c, g) PROVE WithinLimits'
  <2>1. MayEnter(a) /\ Cardinality(Rows(g)) < MaxMembers
    BY <1>2 DEF JoinGroup
  <2>2. /\ minted + 1 \in Handle /\ row[minted + 1] = NoRow
        /\ row'[minted + 1].group = g /\ row'[minted + 1].account = a
        /\ \A h \in Handle : h # minted + 1 => row'[h] = row[h]
    BY <1>2, InsertIs DEF JoinGroup, Role
  <2> QED
    BY <2>1, <2>2, OneNewRow
<1>3. ASSUME NEW a \in Account, NEW g \in GroupId, LeaveGroup(a, g) PROVE WithinLimits'
  <2>1. PICK h \in Membership(a, g) : LeaveGroup(a, g)!(h)
    BY <1>3 DEF LeaveGroup
  <2>2. CASE LeaveGroup(a, g)!(h)!1!1
    BY <2>2, NoNewRows DEF Burned
  <2>3. CASE LeaveGroup(a, g)!(h)!1!2
    <3>1. row' = [k \in Handle |->
                   IF k = Successor(a, g) THEN [row[k] EXCEPT !.role = "owner"] ELSE Burned({h})[k]]
      BY <2>3
    <3>2. Successor(a, g) \in Handle /\ row[Successor(a, g)] \in Row
      BY <2>3, <1>a, SuccessorIsOther DEF Others, Rows, NoRow, GroupId
    <3> QED
      BY <3>1, <3>2, NoNewRows DEF Burned, Row
  <2>4. CASE LeaveGroup(a, g)!(h)!1!3
    BY <2>4, NoNewRows DEF RowsWithout, Burned
  <2> QED
    BY <2>1, <2>2, <2>3, <2>4
<1>4. ASSUME NEW a \in Account, NEW g \in GroupId, RotateInvite(a, g) PROVE WithinLimits'
  BY <1>4, NoNewRows DEF RotateInvite
<1>5. ASSUME NEW a \in Account, NEW g \in GroupId, DeleteGroup(a, g) PROVE WithinLimits'
  BY <1>5, NoNewRows DEF DeleteGroup, RowsWithout, Burned
<1>6. ASSUME NEW a \in Account, NEW g \in GroupId, NEW h \in Handle, RemoveMember(a, g, h) PROVE WithinLimits'
  BY <1>6, NoNewRows DEF RemoveMember, Burned
<1>7. ASSUME NEW a \in Account, NEW g \in GroupId, NEW named \in Rows(g) \cup {0}, NEW heir \in Rows(g) \cup {0},
             NEW role \in {"admin", "member"}, UpdateGroup(a, g, named, role, heir)
      PROVE  WithinLimits'
  BY <1>7, UpdateGroupRows, NoNewRows
<1>8. ASSUME NEW a \in Account, NEW h \in Handle, BurnGroupHandle(a, h) PROVE WithinLimits'
  BY <1>8, NoNewRows DEF BurnGroupHandle, Burned
<1>9. ASSUME NEW a \in Account, DeleteAccount(a) PROVE WithinLimits'
  BY <1>9, NoNewRows DEF DeleteAccount, Burned
<1>10. CASE UNCHANGED groupVars
  BY <1>10, NoNewRows DEF groupVars
<1>11. CASE Midnight
  BY <1>11, NoNewRows DEF Midnight
<1>12. ASSUME NEW a \in Account, Handler(a) PROVE WithinLimits'
  BY <1>12, <1>1, <1>2, <1>3, <1>4, <1>5, <1>6, <1>7, <1>8, <1>9 DEF Handler
<1> QED
  BY <1>10, <1>11, <1>12 DEF Next

\* Whatever the order of joins, transfers and departures, no group outgrows
\* groups.max_members and no account is in more than groups.max_per_account.
THEOREM LimitsHold == Spec => []WithinLimits
<1>1. Init => WithinLimits
  <2> SUFFICES ASSUME Init PROVE WithinLimits
    OBVIOUS
  <2>1. ASSUME NEW g \in GroupId PROVE Rows(g) = {}
    BY GroupsAssumption DEF Init, Rows, NoRow, GroupId
  <2>2. ASSUME NEW a \in Account PROVE RowsOf(a) = {}
    BY GroupsAssumption DEF Init, RowsOf, NoRow
  <2> QED
    BY <2>1, <2>2, FS_EmptySet, GroupsAssumption DEF WithinLimits
<1> QED
  BY <1>1, TypeInit, TypeNext, LimitsNext, PTL DEF Spec

-------------------------------------------------------------------------------
(* Succession.                                                             *)

LEMMA SuccessionNext ==
  ASSUME Agreed, [Next]_groupVars, NEW x \in GroupId, PassedOn(x)
  PROVE  PassedRightly(x)
<1> USE GroupsAssumption
<1>a. \A h \in Handle : row[h] = NoRow \/ row[h] \in Row
  BY DEF Agreed, TypeOK
<1>b. owner[x] # Nobody /\ owner'[x] # Nobody /\ owner'[x] # owner[x]
  BY DEF PassedOn, Live
<1>c. owner = [g \in GroupId |-> owner[g]]
  BY DEF Agreed, TypeOK
<1>1. ASSUME NEW a \in Account, NEW g \in GroupId, CreateGroup(a, g) PROVE FALSE
  BY <1>1, <1>b, <1>c DEF CreateGroup, NextId, Live
<1>3. ASSUME NEW a \in Account, NEW g \in GroupId, LeaveGroup(a, g) PROVE PassedRightly(x)
  <2>1. PICK h \in Membership(a, g) : LeaveGroup(a, g)!(h)
    BY <1>3 DEF LeaveGroup
  <2>2. LeaveGroup(a, g)!(h)!1!2
    BY <2>1, <1>b DEF DropGroups
  <2> DEFINE next == Successor(a, g)
  <2>3. /\ next \in Others(a, g)
        /\ \A j \in Others(a, g) :
             /\ row[j].role = "admin" => row[next].role = "admin"
             /\ row[j].role = "admin" \/ row[next].role # "admin" => NoLater(next, j)
    BY <2>2, SuccessorIsOther DEF Agreed
  <2>4. /\ row' = [k \in Handle |-> IF k = next THEN [row[k] EXCEPT !.role = "owner"] ELSE Burned({h})[k]]
        /\ owner' = [owner EXCEPT ![g] = row[next].account]
        /\ row[h].role = "owner"
    BY <2>2
  <2> HIDE DEF next
  <2>5. h \in Handle /\ row[h].group = g /\ row[h].account = a
    BY DEF Membership, Rows, RowsOf
  <2>6. x = g /\ owner'[g] = row[next].account
    BY <2>4, <1>b, <1>c
  <2>7. next \in Handle /\ row[next].group = g /\ row[next].account # a
    BY <2>3 DEF Others, Rows, RowsOf
  <2>8. row[next] \in Row
    BY <2>7, <1>a DEF NoRow, GroupId
  <2>9. row'[next].role = "owner"
    BY <2>4, <2>7, <2>8 DEF Row
  <2>10. row'[h] = NoRow
    BY <2>4, <2>5, <2>7 DEF Burned
  <2> QED
    BY <2>3, <2>4, <2>5, <2>6, <2>7, <2>9, <2>10 DEF PassedRightly, Rows
<1>5. ASSUME NEW a \in Account, NEW g \in GroupId, DeleteGroup(a, g) PROVE FALSE
  BY <1>5, <1>b DEF DeleteGroup, DropGroups
<1>7. ASSUME NEW a \in Account, NEW g \in GroupId, NEW named \in Rows(g) \cup {0}, NEW heir \in Rows(g) \cup {0},
             NEW role \in {"admin", "member"}, UpdateGroup(a, g, named, role, heir)
      PROVE  PassedRightly(x)
  <2>1. \A k \in Handle : row'[k].role = NewRole(a, g, named, role, heir, k)
    BY <1>7, UpdateGroupRows DEF Agreed
  <2>2. heir # 0 /\ x = g /\ owner'[g] = row[heir].account
    BY <1>7, <1>b, <1>c DEF UpdateGroup
  <2>3. PICK h \in Membership(a, g) : row[h].role = "owner"
    BY <1>7 DEF UpdateGroup, Owns
  <2>4. h \in Rows(g) /\ h \in Handle /\ row[h].account = a /\ row[h].group = g
    BY <2>3 DEF Membership, Rows, RowsOf
  <2>5. owner[g] = a
    BY <2>3, <2>4 DEF Agreed, OwnersAgree
  <2>6. heir \in Rows(g) /\ heir \in Handle /\ heir # h
    BY <2>2, <2>4, <2>5, <1>b DEF Rows
  <2>7. row'[heir].role = "owner" /\ row'[h].role = "admin"
    BY <2>1, <2>2, <2>3, <2>4, <2>6 DEF NewRole
  <2> QED
    BY <2>2, <2>3, <2>4, <2>6, <2>7 DEF PassedRightly
<1>9. ASSUME NEW a \in Account, DeleteAccount(a) PROVE FALSE
  BY <1>9, <1>b DEF DeleteAccount, DropGroups
<1>10. owner' # owner
  BY <1>b
<1>11. ~Midnight
  BY <1>10 DEF Midnight
<1>12. PICK a \in Account : Handler(a)
  BY <1>10, <1>11 DEF groupVars, Next
<1>13. CASE \E g \in GroupId : \E c \in Code : JoinGroup(a, c, g)
  BY <1>10, <1>13 DEF JoinGroup
<1>14. CASE \E g \in GroupId : RotateInvite(a, g)
  BY <1>10, <1>14 DEF RotateInvite
<1>15. CASE \E g \in GroupId : \E h \in Handle : RemoveMember(a, g, h)
  BY <1>10, <1>15 DEF RemoveMember
<1>16. CASE \E h \in Handle : BurnGroupHandle(a, h)
  BY <1>10, <1>16 DEF BurnGroupHandle
<1> QED
  BY <1>12, <1>1, <1>3, <1>5, <1>7, <1>9, <1>13, <1>14, <1>15, <1>16 DEF Handler

\* Groups are handed on by the rule of groups.go:608: to the member the owner
\* names, or else to the admin, or without one to the member, who comes first
\* in joined_day and rowid.
THEOREM SuccessionIsByRule == Spec => Succession
<1>1. Agreed /\ [Next]_groupVars =>
        [\A g \in GroupId : PassedOn(g) => PassedRightly(g)]_owner
  BY SuccessionNext
<1> QED
  BY <1>1, AgreedHolds, PTL DEF Spec, Succession

-------------------------------------------------------------------------------
(* What a handler does to the members, as the caches can tell: apart from  *)
(* the groups of G every handle is as it was, and a handle that has gone   *)
(* does not come back.                                                     *)

TouchOnly(G) ==
  /\ minted' >= minted
  /\ \A h \in Handle :
       \/ /\ row'[h].group = row[h].group /\ row'[h].account = row[h].account
          /\ row[h] = NoRow <=> row'[h] = NoRow
       \/ row[h] # NoRow /\ row[h].group \in G /\ row'[h] = NoRow
       \/ row[h] = NoRow /\ h > minted /\ row'[h] # NoRow /\ row'[h].group \in G

LEMMA NoRowIsNone == NoRow.group = 0 /\ NoRow.account = Nobody /\ 0 \notin GroupId /\ Nobody \notin Account
  BY GroupsAssumption DEF NoRow, GroupId

LEMMA RowIs == ASSUME TypeOK, NEW h \in Handle PROVE row[h] = NoRow \/ (row[h] \in Row /\ row[h] # NoRow /\ row[h].group \in GroupId /\ h <= minted)
  BY NoRowIsNone DEF TypeOK, Row

\* A group that is not touched has its members and its size.
LEMMA Untouched ==
  ASSUME TypeOK, TypeOK', NEW G, TouchOnly(G), NEW g \in GroupId \ G
  PROVE  /\ Rows(g)' = Rows(g)
         /\ \A s \in Account : IsMember(s, g)' <=> IsMember(s, g)
         /\ BigEnough(g)' <=> BigEnough(g)
<1>1. Rows(g)' = Rows(g)
  BY NoRowIsNone DEF TouchOnly, Rows
<1>2. ASSUME NEW s \in Account PROVE Membership(s, g)' = Membership(s, g)
  BY NoRowIsNone DEF TouchOnly, Rows, RowsOf, Membership
<1> QED
  BY <1>1, <1>2 DEF IsMember, BigEnough

LEMMA Inserted ==
  ASSUME TypeOK, NEW g \in GroupId, NEW a \in Account, NEW role \in Role, NEW checked \in BOOLEAN,
         Insert(a, g, role, checked)
  PROVE  TouchOnly({g})
<1>1. /\ minted + 1 \in Handle /\ row[minted + 1] = NoRow /\ minted' = minted + 1
      /\ row'[minted + 1] # NoRow /\ row'[minted + 1].group = g
      /\ \A h \in Handle : h # minted + 1 => row'[h] = row[h]
  BY InsertIs
<1>2. minted \in Nat
  BY DEF TypeOK
<1> QED
  BY <1>1, <1>2 DEF TouchOnly

LEMMA BurnedOnly ==
  ASSUME TypeOK, NEW S, NEW G, row' = Burned(S), minted' = minted,
         \A h \in S \cap Handle : row[h] # NoRow => row[h].group \in G
  PROVE  TouchOnly(G)
<1>1. minted \in Nat
  BY DEF TypeOK
<1>2. \A h \in Handle : row'[h] = IF h \in S THEN NoRow ELSE row[h]
  BY DEF Burned
<1> QED
  BY <1>1, <1>2 DEF TouchOnly

LEMMA LeaveTouches ==
  ASSUME TypeOK, NEW a \in Account, NEW g \in GroupId, LeaveGroup(a, g)
  PROVE  TouchOnly({g})
<1>1. PICK h \in Membership(a, g) : LeaveGroup(a, g)!(h)
  BY DEF LeaveGroup
<1>2. h \in Handle /\ row[h].group = g /\ minted' = minted /\ minted \in Nat
  BY <1>1 DEF Membership, Rows, TypeOK
<1>3. CASE row' = Burned({h})
  BY <1>2, <1>3, BurnedOnly
<1>4. CASE row' = RowsWithout({g})
  BY <1>2, <1>4, BurnedOnly DEF RowsWithout
<1>5. CASE LeaveGroup(a, g)!(h)!1!2
  <2> DEFINE next == Successor(a, g)
  <2>1. next \in Handle /\ row[next].group = g /\ next # h
    <3>1. next \in Others(a, g)
      BY <1>5, SuccessorIsOther
    <3> QED
      BY <1>1, <3>1 DEF Others, Rows, RowsOf, Membership
  <2> HIDE DEF next
  <2>2. row[next] \in Row
    BY <1>2, <2>1, RowIs, NoRowIsNone
  <2>3. row' = [k \in Handle |-> IF k = next THEN [row[k] EXCEPT !.role = "owner"] ELSE Burned({h})[k]]
    BY <1>5 DEF next
  <2>4. row'[next] # NoRow /\ row'[next].group = row[next].group /\ row'[next].account = row[next].account /\ row[next] # NoRow
    <3>1. row'[next] = [row[next] EXCEPT !.role = "owner"]
      BY <2>1, <2>3
    <3>2. row'[next].group = row[next].group /\ row'[next].account = row[next].account
      BY <2>2, <3>1 DEF Row
    <3> QED
      BY <1>2, <2>1, <3>2, NoRowIsNone
  <2>5. \A k \in Handle : k # next => row'[k] = IF k = h THEN NoRow ELSE row[k]
    BY <2>3 DEF Burned
  <2> QED
    BY <1>2, <2>1, <2>4, <2>5 DEF TouchOnly
<1> QED
  BY <1>1, <1>3, <1>4, <1>5

LEMMA ChangesTouch ==
  ASSUME TypeOK, NEW g \in GroupId, Changes(g)
  PROVE  TouchOnly({g}) /\ [Next]_groupVars
<1>1. ASSUME NEW a \in Account, NEW c \in Code, JoinGroup(a, c, g) PROVE TouchOnly({g})
  BY <1>1, Inserted DEF JoinGroup, Role
<1>2. ASSUME NEW a \in Account, LeaveGroup(a, g) PROVE TouchOnly({g})
  BY <1>2, LeaveTouches
<1>3. ASSUME NEW a \in Account, NEW h \in Handle, RemoveMember(a, g, h) PROVE TouchOnly({g})
  BY <1>3, BurnedOnly DEF RemoveMember, Rows
<1>4. ASSUME NEW a \in Account, DeleteGroup(a, g) PROVE TouchOnly({g})
  BY <1>4, BurnedOnly DEF DeleteGroup, RowsWithout
<1>5. TouchOnly({g})
  BY <1>1, <1>2, <1>3, <1>4 DEF Changes
<1>6. Next
  BY DEF Changes, Next, Handler
<1> QED
  BY <1>5, <1>6

LEMMA BurnTouches ==
  ASSUME TypeOK, NEW a \in Account, NEW h \in Handle, BurnGroupHandle(a, h)
  PROVE  TouchOnly({row[h].group})
  BY BurnedOnly DEF BurnGroupHandle

LEMMA DeleteAccountTouches ==
  ASSUME TypeOK, NEW a \in Account, DeleteAccount(a)
  PROVE  TouchOnly({row[h].group : h \in RowsOf(a)} \cup {g \in GroupId : owner[g] = a})
<1> DEFINE G == {g \in GroupId : owner[g] = a}
           S == RowsOf(a) \cup {h \in Handle : row[h].group \in G}
<1>1. row' = Burned(S) /\ minted' = minted
  BY DEF DeleteAccount
<1>2. \A h \in S \cap Handle : row[h].group \in {row[k].group : k \in RowsOf(a)} \cup G
  OBVIOUS
<1> HIDE DEF S, G
<1>3. TouchOnly({row[k].group : k \in RowsOf(a)} \cup G)
  BY <1>1, <1>2, BurnedOnly
<1> QED
  BY <1>3 DEF G

LEMMA AdministerTouches == ASSUME TypeOK, Administer PROVE TouchOnly({}) /\ [Next]_groupVars /\ UNCHANGED gateVars
<1>1. ASSUME NEW a \in Account, NEW g \in GroupId, RotateInvite(a, g) PROVE TouchOnly({})
  BY <1>1 DEF RotateInvite, TouchOnly, TypeOK
<1>2. ASSUME NEW a \in Account, NEW g \in GroupId,
             NEW named \in Rows(g) \cup {0}, NEW heir \in Rows(g) \cup {0}, NEW role \in {"admin", "member"},
             UpdateGroup(a, g, named, role, heir)
      PROVE  TouchOnly({})
  <2>1. minted' = minted /\ minted \in Nat
    BY <1>2 DEF UpdateGroup, TypeOK
  <2>2. \A k \in Handle : /\ row'[k].group = row[k].group /\ row'[k].account = row[k].account
                          /\ row'[k] = NoRow <=> row[k] = NoRow
    BY <1>2, UpdateGroupRows
  <2> QED
    BY <2>1, <2>2 DEF TouchOnly
<1>3. Next
  BY DEF Administer, Next, Handler
<1> QED
  BY <1>1, <1>2, <1>3 DEF Administer

-------------------------------------------------------------------------------
(* The types of the caches and the requests.                               *)

RequestRecord == [at : {"idle", "row", "count", "fill", "member", "ask", "keep"},
                  sender : SUBSET Sender, target : SUBSET Target, group : 0 .. MaxGroup, answer : BOOLEAN]

CachesTyped ==
  /\ entry \in [Target -> Answer \cup {Unknown}]
  /\ known \in [Sender \X GroupId -> {"unknown", "yes", "no"}]
  /\ req \in [Request -> RequestRecord]
  /\ todo \in [GroupId -> 0 .. MaxPending]
  /\ astray \in SUBSET GroupId

\* A request is one sender's, to a handle that has been minted, and knows the
\* group of what it has found.
Solo(r) ==
  req[r].at # "idle" =>
    \E s \in Sender, h \in Target : req[r].sender = {s} /\ req[r].target = {h} /\ h <= minted

Grouped(r) ==
  /\ req[r].at \in {"count", "member", "ask", "keep"} \/ (req[r].at = "fill" /\ req[r].answer) => req[r].group # 0
  /\ req[r].at = "row" => ~req[r].answer

Sound == /\ CachesTyped
         /\ \A r \in Request : Solo(r) /\ Grouped(r)
         /\ \A h \in Target : entry[h].state = "open" => entry[h].group # 0

LEMMA SoundTypes == TypeOK /\ Sound => GateTypeOK
  BY DEF Sound, CachesTyped, RequestRecord, Grouped, GateTypeOK

LEMMA RequestFields ==
  ASSUME NEW c \in RequestRecord
  PROVE  /\ c.at \in {"idle", "row", "count", "fill", "member", "ask", "keep"}
         /\ c.sender \in SUBSET Sender /\ c.target \in SUBSET Target /\ c.group \in 0 .. MaxGroup
         /\ c.answer \in BOOLEAN
  BY Zenon DEF RequestRecord

\* A request that moves on from what it knows.
LEMMA StepFields ==
  ASSUME CachesTyped, NEW r \in Request, NEW c \in RequestRecord, Step(r, c)
  PROVE  /\ req' \in [Request -> RequestRecord] /\ req'[r] = c
         /\ \A q \in Request : q # r => req'[q] = req[q]
  BY DEF CachesTyped, Step

LEMMA IdleIs == Idle \in RequestRecord /\ Idle.at = "idle"
  BY GroupsAssumption DEF Idle, RequestRecord

LEMMA MovedTo ==
  ASSUME NEW c \in RequestRecord, NEW at \in {"idle", "row", "count", "fill", "member", "ask", "keep"},
         NEW answer \in BOOLEAN, NEW group \in 0 .. MaxGroup
  PROVE  [at |-> at, sender |-> c.sender, target |-> c.target, group |-> group, answer |-> answer] \in RequestRecord
  BY RequestFields DEF RequestRecord

-------------------------------------------------------------------------------
(* What is remembered.  An answer that the tables no longer give belongs   *)
(* to a group that a handler has still to forget, or that has gone astray; *)
(* and so does an answer that a request is about to keep.                  *)

Excused(g) == todo[g] > 0 \/ g \in astray

LEMMA NotExcused == \A g : todo[g] = 0 /\ g \notin astray => ~Excused(g)
  BY DEF Excused

FreshCount(r) ==
  req[r].at = "count" =>
    \A h \in req[r].target : IF row[h] = NoRow THEN Excused(req[r].group) ELSE row[h].group = req[r].group

FreshFill(r) ==
  req[r].at = "fill" /\ req[r].group # 0 =>
    \A h \in req[r].target :
      /\ row[h] # NoRow => row[h].group = req[r].group
      /\ (req[r].answer <=> IsOpen(h)) \/ Excused(req[r].group)

FreshKeep(r) ==
  req[r].at = "keep" =>
    \A s \in req[r].sender : (req[r].answer <=> IsMember(s, req[r].group)) \/ Excused(req[r].group)

FreshRequest(r) == FreshCount(r) /\ FreshFill(r) /\ FreshKeep(r)

FreshEntry(h) ==
  entry[h].group # 0 =>
    /\ h <= minted
    /\ row[h] # NoRow => row[h].group = entry[h].group
    /\ (entry[h].state = "open" <=> IsOpen(h)) \/ Excused(entry[h].group)

FreshKnown(s, g) ==
  known[s, g] # "unknown" => (known[s, g] = "yes" <=> IsMember(s, g)) \/ Excused(g)

Fresh ==
  /\ \A r \in Request : FreshRequest(r)
  /\ \A h \in Target : FreshEntry(h)
  /\ \A s \in Sender, g \in GroupId : FreshKnown(s, g)

GateInv == TypeOK /\ Sound /\ Fresh

LEMMA EntryIs == ASSUME CachesTyped, NEW h \in Target PROVE entry[h].group \in 0 .. MaxGroup
<1>1. entry[h] \in Answer \cup {Unknown}
  BY DEF CachesTyped
<1> QED
  BY <1>1, GroupsAssumption DEF Answer, Unknown

\* A handle of a group that is not touched is as open as before.
LEMMA OpenKept ==
  ASSUME TypeOK, TypeOK', NEW G, TouchOnly(G), NEW h \in Handle, h <= minted,
         NEW g \in GroupId, row[h] # NoRow => row[h].group = g
  PROVE  /\ row'[h] # NoRow => row'[h].group = g
         /\ g \notin G => (row'[h] = NoRow <=> row[h] = NoRow) /\ (IsOpen(h)' <=> IsOpen(h))
<1>1. row[h] = NoRow \/ (row[h] # NoRow /\ row[h].group = g)
  OBVIOUS
<1>2. minted \in Nat /\ h \in Nat
  BY DEF TypeOK, Handle
<1>3. \/ /\ row'[h].group = row[h].group
         /\ row[h] = NoRow <=> row'[h] = NoRow
      \/ row[h] # NoRow /\ row[h].group \in G /\ row'[h] = NoRow
  BY <1>2 DEF TouchOnly
<1>4. g \notin G => (BigEnough(g)' <=> BigEnough(g))
  BY Untouched
<1>5. row'[h] # NoRow => row'[h].group = g
  BY <1>1, <1>3
<1>6. ASSUME g \notin G PROVE (row'[h] = NoRow <=> row[h] = NoRow) /\ (IsOpen(h)' <=> IsOpen(h))
  <2>1. row'[h] = NoRow <=> row[h] = NoRow
    BY <1>1, <1>3, <1>6
  <2>2. CASE row[h] = NoRow
    BY <2>1, <2>2 DEF IsOpen
  <2>3. CASE row[h] # NoRow
    <3>1. row[h].group = g /\ row'[h].group = g /\ row'[h] # NoRow
      BY <1>1, <1>5, <2>1, <2>3
    <3> QED
      BY <1>4, <1>6, <2>3, <3>1 DEF IsOpen, BigEnough
  <2> QED
    BY <2>1, <2>2, <2>3
<1> QED
  BY <1>5, <1>6

\* A handler that touches the groups of G, and leaves the requests and the
\* memberships alone.
LEMMA HandlerKeeps ==
  ASSUME GateInv, TypeOK', NEW G, TouchOnly(G), UNCHANGED <<known, req>>,
         CachesTyped',
         \A h \in Target : entry'[h] = entry[h] \/ entry'[h] = Unknown,
         \A g \in GroupId : g \in G \/ Excused(g) => Excused(g)'
  PROVE  Sound' /\ Fresh'
<1>a. TypeOK /\ CachesTyped /\ Target \subseteq Handle /\ Sender \subseteq Account /\ 0 .. MaxGroup = {0} \cup GroupId
  BY GroupsAssumption, GateAssumption DEF GateInv, Sound, GroupId
<1>b. minted' >= minted /\ minted \in Nat /\ minted' \in Nat /\ \A h \in Handle : h \in Nat
  BY <1>a DEF TouchOnly, TypeOK, Handle
<1>c. Unknown.group = 0 /\ Unknown.state = "unknown"
  BY DEF Unknown
<1>1. Sound'
  <2>1. ASSUME NEW r \in Request PROVE Solo(r)' /\ Grouped(r)'
    <3>1. Solo(r) /\ Grouped(r)
      BY DEF GateInv, Sound
    <3>2. Solo(r)'
      BY <1>a, <1>b, <3>1 DEF Solo
    <3> QED
      BY <3>1, <3>2 DEF Grouped
  <2> QED
    BY <1>c, <2>1 DEF GateInv, Sound
<1>2. ASSUME NEW r \in Request PROVE FreshRequest(r)'
  <2>a. req[r] \in RequestRecord /\ req[r].target \subseteq Target /\ req[r].sender \subseteq Sender /\ req[r].group \in 0 .. MaxGroup
    BY <1>a, RequestFields DEF CachesTyped
  <2>b. FreshRequest(r)
    BY DEF GateInv, Fresh
  <2>c. ASSUME req[r].at # "idle", NEW h \in req[r].target PROVE h \in Handle /\ h <= minted
    <3>1. Solo(r)
      BY DEF GateInv, Sound
    <3> QED
      BY <1>a, <2>a, <2>c, <3>1 DEF Solo
  <2>1. FreshCount(r)'
    <3> SUFFICES ASSUME req[r].at = "count", NEW h \in req[r].target
                 PROVE  IF row'[h] = NoRow THEN Excused(req[r].group)' ELSE row'[h].group = req[r].group
      BY DEF FreshCount, Excused
    <3> DEFINE g == req[r].group
    <3>1. g \in GroupId
      BY <1>a, <2>a DEF GateInv, Sound, Grouped
    <3>2. IF row[h] = NoRow THEN Excused(g) ELSE row[h].group = g
      BY <2>b DEF FreshRequest, FreshCount
    <3> HIDE DEF g
    <3>3. /\ row'[h] # NoRow => row'[h].group = g
          /\ g \notin G => (row'[h] = NoRow <=> row[h] = NoRow)
      BY <1>a, <2>c, <3>1, <3>2, OpenKept
    <3> QED
      BY <3>1, <3>2, <3>3 DEF g
  <2>2. FreshFill(r)'
    <3> SUFFICES ASSUME req[r].at = "fill", req[r].group # 0, NEW h \in req[r].target
                 PROVE  /\ row'[h] # NoRow => row'[h].group = req[r].group
                        /\ (req[r].answer <=> IsOpen(h)') \/ Excused(req[r].group)'
      BY DEF FreshFill, Excused, IsOpen
    <3> DEFINE g == req[r].group
    <3>1. g \in GroupId
      BY <1>a, <2>a
    <3>2. /\ row[h] # NoRow => row[h].group = g
          /\ (req[r].answer <=> IsOpen(h)) \/ Excused(g)
      BY <2>b DEF FreshRequest, FreshFill
    <3> HIDE DEF g
    <3>3. /\ row'[h] # NoRow => row'[h].group = g
          /\ g \notin G => (IsOpen(h)' <=> IsOpen(h))
      BY <1>a, <2>c, <3>1, <3>2, OpenKept
    <3> QED
      BY <3>1, <3>2, <3>3 DEF g
  <2>3. FreshKeep(r)'
    <3> SUFFICES ASSUME req[r].at = "keep"
                 PROVE  \A s \in req[r].sender : (req[r].answer <=> IsMember(s, req[r].group)') \/ Excused(req[r].group)'
      BY DEF FreshKeep, Excused, IsMember
    <3>1. PICK g \in GroupId : g = req[r].group
      BY <1>a, <2>a DEF GateInv, Sound, Grouped
    <3>2. ASSUME NEW s \in req[r].sender PROVE (req[r].answer <=> IsMember(s, g)') \/ Excused(g)'
      <4>1. s \in Account
        BY <1>a, <2>a
      <4>2. (req[r].answer <=> IsMember(s, g)) \/ Excused(g)
        BY <2>b, <3>1 DEF FreshRequest, FreshKeep
      <4>3. g \notin G => (IsMember(s, g)' <=> IsMember(s, g))
        BY <1>a, <4>1, Untouched
      <4> QED
        BY <4>2, <4>3
    <3> QED
      BY <3>1, <3>2
  <2> QED
    BY <2>1, <2>2, <2>3 DEF FreshRequest
<1>3. ASSUME NEW h \in Target PROVE FreshEntry(h)'
  <2> SUFFICES ASSUME entry'[h] = entry[h], entry[h].group # 0 PROVE FreshEntry(h)'
    BY <1>c DEF FreshEntry
  <2> DEFINE g == entry[h].group
  <2>1. g \in GroupId /\ h \in Handle
    BY <1>a, EntryIs
  <2>2. /\ h <= minted
        /\ row[h] # NoRow => row[h].group = g
        /\ (entry[h].state = "open" <=> IsOpen(h)) \/ Excused(g)
    BY DEF GateInv, Fresh, FreshEntry
  <2>3. entry'[h].group = g /\ h <= minted'
    BY <1>b, <2>1, <2>2
  <2> HIDE DEF g
  <2>4. /\ row'[h] # NoRow => row'[h].group = g
        /\ g \notin G => (IsOpen(h)' <=> IsOpen(h))
    BY <1>a, <2>1, <2>2, OpenKept
  <2> QED
    BY <2>1, <2>2, <2>3, <2>4 DEF FreshEntry
<1>4. ASSUME NEW s \in Sender, NEW g \in GroupId PROVE FreshKnown(s, g)'
  <2>1. g \notin G => (IsMember(s, g)' <=> IsMember(s, g))
    BY <1>a, Untouched
  <2> QED
    BY <2>1 DEF GateInv, Fresh, FreshKnown
<1> QED
  BY <1>1, <1>2, <1>3, <1>4 DEF Fresh

\* The tables stay as they are, and so does a group that is excused.
Still == UNCHANGED <<groupVars, todo>> /\ astray \subseteq astray' /\ astray' \in SUBSET GroupId

LEMMA StillKeeps ==
  Still => /\ \A h : IsOpen(h)' <=> IsOpen(h)
           /\ \A s, g : IsMember(s, g)' <=> IsMember(s, g)
           /\ \A g : Excused(g) => Excused(g)'
           /\ minted' = minted /\ row' = row
  BY DEF Still, groupVars, IsOpen, BigEnough, Rows, IsMember, Membership, RowsOf, Excused

LEMMA BystandersKeep ==
  ASSUME GateInv, Still, NEW q \in Request, req'[q] = req[q]
  PROVE  Solo(q)' /\ Grouped(q)' /\ FreshRequest(q)'
<1>1. Solo(q) /\ Grouped(q) /\ FreshRequest(q)
  BY DEF GateInv, Sound, Fresh
<1>2. Solo(q)' /\ Grouped(q)'
  BY <1>1, StillKeeps DEF Solo, Grouped
<1>3. FreshRequest(q)'
  BY <1>1, StillKeeps DEF FreshRequest, FreshCount, FreshFill, FreshKeep
<1> QED
  BY <1>2, <1>3

LEMMA EntriesKeep ==
  ASSUME GateInv, Still, NEW h \in Target, entry'[h] = entry[h] \/ entry'[h] = Unknown
  PROVE  FreshEntry(h)' /\ (entry'[h].state = "open" => entry'[h].group # 0)
<1>1. FreshEntry(h) /\ (entry[h].state = "open" => entry[h].group # 0)
  BY DEF GateInv, Sound, Fresh
<1>2. CASE entry'[h] = entry[h]
  BY <1>1, <1>2, StillKeeps DEF FreshEntry
<1>3. CASE entry'[h] = Unknown
  <2>1. entry'[h].group = 0 /\ entry'[h].state = "unknown"
    BY <1>3 DEF Unknown
  <2> QED
    BY <2>1 DEF FreshEntry
<1> QED
  BY <1>2, <1>3

LEMMA MembersKeep ==
  ASSUME GateInv, Still, NEW s \in Sender, NEW g \in GroupId, known'[s, g] = known[s, g] \/ known'[s, g] = "unknown"
  PROVE  FreshKnown(s, g)'
<1>1. FreshKnown(s, g)
  BY DEF GateInv, Fresh
<1> QED
  BY <1>1, StillKeeps DEF FreshKnown

\* One request moves on, to something that keeps the invariant.
LEMMA OneMoves ==
  ASSUME GateInv, Still, NEW r \in Request, NEW c \in RequestRecord, Step(r, c), UNCHANGED <<entry, known>>,
         Solo(r)', Grouped(r)', FreshRequest(r)'
  PROVE  Sound' /\ Fresh'
<1>1. CachesTyped' /\ \A q \in Request : q # r => req'[q] = req[q]
  BY StepFields DEF GateInv, Sound, CachesTyped, Still
<1>2. ASSUME NEW q \in Request PROVE Solo(q)' /\ Grouped(q)' /\ FreshRequest(q)'
  BY <1>1, <1>2, BystandersKeep
<1>3. ASSUME NEW h \in Target PROVE FreshEntry(h)' /\ (entry'[h].state = "open" => entry'[h].group # 0)
  BY <1>3, EntriesKeep
<1>4. ASSUME NEW s \in Sender, NEW g \in GroupId PROVE FreshKnown(s, g)'
  BY <1>4, MembersKeep
<1> QED
  BY <1>1, <1>2, <1>3, <1>4 DEF Sound, Fresh

LEMMA ResolveKeeps ==
  ASSUME GateInv, NEW r \in Request, NEW s \in Sender, NEW h \in Target, Resolve(r, s, h)
  PROVE  Sound' /\ Fresh'
<1> DEFINE at == IF entry[h].state = "open" THEN "member" ELSE "row"
           c == [Idle EXCEPT !.at = at, !.sender = {s}, !.target = {h}, !.group = entry[h].group]
<1>1. Still /\ UNCHANGED <<entry, known>> /\ h <= minted
  BY DEF Resolve, Still, GateInv, Sound, CachesTyped
<1>2. Step(r, c)
  BY DEF Resolve
<1>3. at \in {"member", "row"} /\ entry[h].group \in 0 .. MaxGroup /\ (at = "member" => entry[h].group # 0)
  BY EntryIs DEF GateInv, Sound
<1> HIDE DEF at
<1>4. c \in RequestRecord /\ c.at = at /\ c.sender = {s} /\ c.target = {h} /\ c.group = entry[h].group /\ ~c.answer
  BY <1>3 DEF Idle, RequestRecord
<1> HIDE DEF c
<1>5. req'[r] = c
  BY <1>2, <1>4, StepFields DEF GateInv, Sound
<1>6. minted' = minted
  BY <1>1, StillKeeps
<1>7. Solo(r)' /\ Grouped(r)' /\ FreshRequest(r)'
  BY <1>1, <1>3, <1>4, <1>5, <1>6 DEF Solo, Grouped, FreshRequest, FreshCount, FreshFill, FreshKeep
<1> QED
  BY <1>1, <1>2, <1>4, <1>7, OneMoves

\* A query has failed.
LEMMA GivesUp ==
  ASSUME GateInv, Still, NEW r \in Request, Step(r, Idle), UNCHANGED <<entry, known>>
  PROVE  Sound' /\ Fresh'
<1>1. req'[r] = Idle
  BY IdleIs, StepFields DEF GateInv, Sound
<1>2. Solo(r)' /\ Grouped(r)' /\ FreshRequest(r)'
  BY <1>1, IdleIs DEF Solo, Grouped, FreshRequest, FreshCount, FreshFill, FreshKeep
<1> QED
  BY <1>2, IdleIs, OneMoves

\* The fields of a request that is under way.
LEMMA UnderWay ==
  ASSUME GateInv, NEW r \in Request, req[r].at # "idle"
  PROVE  /\ req[r] \in RequestRecord /\ req[r].group \in 0 .. MaxGroup
         /\ \E s \in Sender, h \in Target : req[r].sender = {s} /\ req[r].target = {h} /\ h \in Handle /\ h <= minted
<1>1. Solo(r) /\ req[r] \in RequestRecord
  BY DEF GateInv, Sound, CachesTyped
<1> QED
  BY <1>1, RequestFields, GateAssumption DEF Solo

LEMMA ReadRowKeeps ==
  ASSUME GateInv, NEW r \in Request, ReadRow(r)
  PROVE  Sound' /\ Fresh'
<1>1. Still /\ UNCHANGED <<entry, known>> /\ req[r].at = "row"
  BY DEF ReadRow, Still, GateInv, Sound, CachesTyped
<1> SUFFICES ASSUME ~Step(r, Idle) PROVE Sound' /\ Fresh'
  BY <1>1, GivesUp
<1>2. PICK s \in Sender, h \in Target : req[r].sender = {s} /\ req[r].target = {h} /\ h \in Handle /\ h <= minted
  BY <1>1, UnderWay
<1> DEFINE at == IF row[h] = NoRow THEN "fill" ELSE "count"
           c == [req[r] EXCEPT !.at = at, !.group = row[h].group]
<1>3. Step(r, c)
  BY <1>2 DEF ReadRow
<1>4. row[h] = NoRow \/ row[h].group \in GroupId
  BY <1>2, RowIs DEF GateInv
<1>5. row[h].group \in 0 .. MaxGroup /\ (row[h] = NoRow => row[h].group = 0) /\ (row[h] # NoRow => row[h].group # 0)
  BY <1>4, NoRowIsNone, GroupsAssumption DEF GroupId
<1>6. /\ c \in RequestRecord /\ c.at = at /\ c.sender = {s} /\ c.target = {h} /\ c.group = row[h].group
      /\ c.answer = req[r].answer
  BY <1>1, <1>2, <1>5, UnderWay DEF RequestRecord
<1>7. req'[r] = c
  BY <1>3, <1>6, StepFields DEF GateInv, Sound
<1>8. minted' = minted /\ row' = row
  BY <1>1, StillKeeps
<1> HIDE DEF c
<1>9. Solo(r)'
  BY <1>2, <1>6, <1>7, <1>8 DEF Solo
<1>10. ~c.answer /\ c.group \in 0 .. MaxGroup
  BY <1>1, <1>5, <1>6 DEF GateInv, Sound, Grouped
<1>11. Grouped(r)' /\ FreshRequest(r)'
  <2>1. CASE row[h] = NoRow
    BY <1>5, <1>6, <1>7, <1>10, <2>1 DEF Grouped, FreshRequest, FreshCount, FreshFill, FreshKeep
  <2>2. CASE row[h] # NoRow
    BY <1>5, <1>6, <1>7, <1>8, <2>2 DEF Grouped, FreshRequest, FreshCount, FreshFill, FreshKeep
  <2> QED
    BY <2>1, <2>2
<1> QED
  BY <1>1, <1>3, <1>6, <1>9, <1>11, OneMoves

LEMMA ReadCountKeeps ==
  ASSUME GateInv, NEW r \in Request, ReadCount(r)
  PROVE  Sound' /\ Fresh'
<1>0. req[r].group \in GroupId /\ req[r].at = "count"
  <2>1. req[r].at = "count"
    BY DEF ReadCount
  <2>2. req[r].group # 0 /\ req[r].group \in 0 .. MaxGroup
    BY <2>1, UnderWay DEF GateInv, Sound, Grouped
  <2> QED
    BY <2>1, <2>2, GroupsAssumption DEF GroupId
<1>1. Still /\ UNCHANGED <<entry, known>> /\ req[r].at = "count"
  BY <1>0 DEF ReadCount, Still, GateInv, Sound, CachesTyped
<1>2. PICK s \in Sender, h \in Target : req[r].sender = {s} /\ req[r].target = {h} /\ h \in Handle /\ h <= minted
  BY <1>1, UnderWay
<1>3. PICK big \in BOOLEAN :
        /\ Step(r, [req[r] EXCEPT !.at = "fill", !.answer = big])
        /\ (big <=> BigEnough(req[r].group)) \/ req[r].group \in astray'
  <2>1. BigEnough(req[r].group) \in BOOLEAN
    BY DEF BigEnough
  <2> QED
    BY <2>1 DEF ReadCount
<1> DEFINE c == [req[r] EXCEPT !.at = "fill", !.answer = big]
<1>4. Step(r, c)
  BY <1>3
<1>5. req[r] \in RequestRecord /\ req[r].group # 0
  BY <1>1, UnderWay DEF GateInv, Sound, Grouped
<1>6. /\ c \in RequestRecord /\ c.at = "fill" /\ c.sender = {s} /\ c.target = {h} /\ c.group = req[r].group
      /\ c.answer = big
  BY <1>2, <1>3, <1>5 DEF RequestRecord
<1>7. req'[r] = c
  BY <1>4, <1>6, StepFields DEF GateInv, Sound
<1>8. minted' = minted /\ row' = row /\ (IsOpen(h)' <=> IsOpen(h))
  BY <1>1, StillKeeps
<1> HIDE DEF c
<1>9. Solo(r)' /\ Grouped(r)' /\ FreshCount(r)' /\ FreshKeep(r)'
  BY <1>2, <1>5, <1>6, <1>7, <1>8 DEF Solo, Grouped, FreshCount, FreshKeep
<1>10. IF row[h] = NoRow THEN Excused(req[r].group) ELSE row[h].group = req[r].group
  BY <1>1, <1>2 DEF GateInv, Fresh, FreshRequest, FreshCount
<1>11. /\ row[h] # NoRow => row[h].group = req[r].group
       /\ (big <=> IsOpen(h)) \/ Excused(req[r].group) \/ req[r].group \in astray'
  BY <1>3, <1>10 DEF IsOpen
<1>12. FreshFill(r)'
  <2> SUFFICES /\ row'[h] # NoRow => row'[h].group = req'[r].group
               /\ (req'[r].answer <=> IsOpen(h)') \/ Excused(req[r].group)'
    BY <1>6, <1>7 DEF FreshFill, Excused
  <2>1. Excused(req[r].group) \/ req[r].group \in astray' => Excused(req[r].group)'
    BY <1>1, <1>6, <1>7 DEF Excused, Still
  <2> QED
    BY <1>6, <1>7, <1>8, <1>11, <2>1
<1> QED
  BY <1>1, <1>4, <1>6, <1>9, <1>12, OneMoves DEF FreshRequest

LEMMA RecallKeeps ==
  ASSUME GateInv, NEW r \in Request, Recall(r)
  PROVE  Sound' /\ Fresh'
<1>1. Still /\ UNCHANGED <<entry, known>> /\ req[r].at = "member"
  BY DEF Recall, Still, GateInv, Sound, CachesTyped
<1>2. PICK s \in Sender, h \in Target : req[r].sender = {s} /\ req[r].target = {h} /\ h \in Handle /\ h <= minted
  BY <1>1, UnderWay
<1>3. minted' = minted
  BY <1>1, StillKeeps
<1>4. CASE Step(r, Idle)
  <2>1. req'[r] = Idle
    BY <1>4, IdleIs, StepFields DEF GateInv, Sound
  <2>2. Solo(r)' /\ Grouped(r)' /\ FreshRequest(r)'
    BY <2>1, IdleIs DEF Solo, Grouped, FreshRequest, FreshCount, FreshFill, FreshKeep
  <2> QED
    BY <1>1, <1>4, <2>2, IdleIs, OneMoves
<1>5. CASE Step(r, [req[r] EXCEPT !.at = "ask"])
  <2> DEFINE c == [req[r] EXCEPT !.at = "ask"]
  <2>1. c \in RequestRecord /\ c.at = "ask" /\ c.sender = {s} /\ c.target = {h} /\ c.group = req[r].group
    BY <1>1, <1>2, UnderWay DEF RequestRecord
  <2>2. req'[r] = c /\ Step(r, c)
    BY <1>5, <2>1, StepFields DEF GateInv, Sound
  <2>3. req[r].group # 0
    BY <1>1 DEF GateInv, Sound, Grouped
  <2> HIDE DEF c
  <2>4. Solo(r)' /\ Grouped(r)' /\ FreshRequest(r)'
    BY <1>2, <1>3, <2>1, <2>2, <2>3 DEF Solo, Grouped, FreshRequest, FreshCount, FreshFill, FreshKeep
  <2> QED
    BY <1>1, <2>1, <2>2, <2>4, OneMoves
<1>6. known[s, req[r].group] # "unknown" \/ known[s, req[r].group] = "unknown"
  OBVIOUS
<1> QED
  BY <1>2, <1>4, <1>5, <1>6 DEF Recall

LEMMA AskMemberKeeps ==
  ASSUME GateInv, NEW r \in Request, AskMember(r)
  PROVE  Sound' /\ Fresh'
<1>1. Still /\ UNCHANGED <<entry, known>> /\ req[r].at = "ask"
  BY DEF AskMember, Still, GateInv, Sound, CachesTyped
<1> SUFFICES ASSUME ~Step(r, Idle) PROVE Sound' /\ Fresh'
  BY <1>1, GivesUp
<1>2. PICK s \in Sender, h \in Target : req[r].sender = {s} /\ req[r].target = {h} /\ h \in Handle /\ h <= minted
  BY <1>1, UnderWay
<1>3. PICK in \in BOOLEAN : in <=> IsMember(s, req[r].group)
  OBVIOUS
<1> DEFINE c == [req[r] EXCEPT !.at = "keep", !.answer = in]
<1>4. Step(r, c)
  <2>1. IsMember(s, req[r].group) = in
    BY <1>3 DEF IsMember
  <2> QED
    BY <1>2, <2>1 DEF AskMember
<1>5. req[r] \in RequestRecord /\ req[r].group # 0
  BY <1>1, UnderWay DEF GateInv, Sound, Grouped
<1>6. /\ c \in RequestRecord /\ c.at = "keep" /\ c.sender = {s} /\ c.target = {h} /\ c.group = req[r].group
      /\ c.answer = in
  BY <1>2, <1>3, <1>5 DEF RequestRecord
<1>7. req'[r] = c
  BY <1>4, <1>6, StepFields DEF GateInv, Sound
<1>8. minted' = minted
  BY <1>1, StillKeeps
<1> HIDE DEF c
<1>9. Solo(r)' /\ Grouped(r)' /\ FreshCount(r)' /\ FreshFill(r)'
  BY <1>2, <1>5, <1>6, <1>7, <1>8 DEF Solo, Grouped, FreshCount, FreshFill
<1>10. FreshKeep(r)'
  <2>1. PICK g : g = req[r].group
    OBVIOUS
  <2>2. IsMember(s, g)' <=> IsMember(s, g)
    BY <1>1, StillKeeps
  <2> QED
    BY <1>3, <1>6, <1>7, <2>1, <2>2 DEF FreshKeep
<1> QED
  BY <1>1, <1>4, <1>6, <1>9, <1>10, OneMoves DEF FreshRequest

LEMMA FillKeeps ==
  ASSUME GateInv, NEW r \in Request, Fill(r)
  PROVE  Sound' /\ Fresh'
<1>1. Still /\ UNCHANGED known /\ req[r].at = "fill"
  BY DEF Fill, Still, GateInv, Sound, CachesTyped
<1>2. PICK s \in Sender, h \in Target : req[r].sender = {s} /\ req[r].target = {h} /\ h \in Handle /\ h <= minted
  BY <1>1, UnderWay
<1>3. req[r] \in RequestRecord /\ req[r].group \in 0 .. MaxGroup /\ req[r].answer \in BOOLEAN /\ (req[r].answer => req[r].group # 0)
  BY <1>1, UnderWay, RequestFields DEF GateInv, Sound, Grouped
<1> DEFINE e == [state |-> IF req[r].answer THEN "open" ELSE "closed", group |-> req[r].group]
<1>4. PICK lost \in SUBSET Target :
        entry' = [k \in Target |-> IF k = h THEN e ELSE IF k \in lost THEN Unknown ELSE entry[k]]
  BY <1>2 DEF Fill
<1>5. e \in Answer /\ e.group = req[r].group /\ (e.state = "open" <=> req[r].answer)
  BY <1>3 DEF Answer
<1> HIDE DEF e
<1>6. PICK c \in RequestRecord :
        /\ Step(r, c)
        /\ (c.at = "member" /\ c.sender = {s} /\ c.target = {h} /\ c.group = req[r].group /\ c.group # 0) \/ c.at = "idle"
  <2>1. CASE req[r].answer
    <3> DEFINE c == [req[r] EXCEPT !.at = "member", !.answer = FALSE]
    <3>1. c \in RequestRecord /\ c.at = "member" /\ c.sender = {s} /\ c.target = {h} /\ c.group = req[r].group
      BY <1>2, <1>3 DEF RequestRecord
    <3>2. Step(r, c)
      BY <2>1 DEF Fill
    <3> HIDE DEF c
    <3> QED
      BY <1>3, <2>1, <3>1, <3>2
  <2>2. CASE ~req[r].answer
    BY <2>2, IdleIs DEF Fill
  <2> QED
    BY <2>1, <2>2
<1>7. req' \in [Request -> RequestRecord] /\ req'[r] = c /\ \A q \in Request : q # r => req'[q] = req[q]
  BY <1>6, StepFields DEF GateInv, Sound
<1>8. minted' = minted /\ row' = row /\ (IsOpen(h)' <=> IsOpen(h))
  BY <1>1, StillKeeps
<1>9. Solo(r)' /\ Grouped(r)' /\ FreshRequest(r)'
  BY <1>2, <1>6, <1>7, <1>8 DEF Solo, Grouped, FreshRequest, FreshCount, FreshFill, FreshKeep
<1>10. \A q \in Request : Solo(q)' /\ Grouped(q)' /\ FreshRequest(q)'
  BY <1>1, <1>7, <1>9, BystandersKeep
<1>11. CachesTyped'
  <2>1. entry' \in [Target -> Answer \cup {Unknown}]
    BY <1>4, <1>5 DEF GateInv, Sound, CachesTyped
  <2> QED
    BY <1>1, <1>7, <2>1 DEF GateInv, Sound, CachesTyped, Still
<1>12. FreshEntry(h)' /\ (entry'[h].state = "open" => entry'[h].group # 0)
  <2>1. entry'[h] = e
    BY <1>4
  <2>2. ASSUME req[r].group # 0
        PROVE  /\ row[h] # NoRow => row[h].group = req[r].group
               /\ (req[r].answer <=> IsOpen(h)) \/ Excused(req[r].group)
    BY <1>1, <1>2, <2>2 DEF GateInv, Fresh, FreshRequest, FreshFill
  <2>3. PICK g : g = req[r].group
    OBVIOUS
  <2>4. Excused(g) => Excused(g)'
    BY <1>1, StillKeeps
  <2> QED
    BY <1>2, <1>3, <1>5, <1>8, <2>1, <2>2, <2>3, <2>4 DEF FreshEntry
<1>13. ASSUME NEW k \in Target PROVE FreshEntry(k)' /\ (entry'[k].state = "open" => entry'[k].group # 0)
  <2>1. CASE k = h
    BY <1>12, <2>1
  <2>2. CASE k # h
    BY <1>1, <1>4, <2>2, EntriesKeep
  <2> QED
    BY <2>1, <2>2
<1>14. ASSUME NEW t \in Sender, NEW g \in GroupId PROVE FreshKnown(t, g)'
  BY <1>1, MembersKeep
<1> QED
  BY <1>10, <1>11, <1>13, <1>14 DEF Sound, Fresh

LEMMA KeepMemberKeeps ==
  ASSUME GateInv, NEW r \in Request, KeepMember(r)
  PROVE  Sound' /\ Fresh'
<1>1. Still /\ UNCHANGED entry /\ req[r].at = "keep" /\ Step(r, Idle)
  BY DEF KeepMember, Still, GateInv, Sound, CachesTyped
<1>2. PICK s \in Sender : req[r].sender = {s}
  BY <1>1, UnderWay
<1>3. req[r].group \in 0 .. MaxGroup /\ req[r].group # 0 /\ req[r].answer \in BOOLEAN
  BY <1>1, UnderWay, RequestFields DEF GateInv, Sound, Grouped
<1>4. PICK g \in GroupId : g = req[r].group
  BY <1>3, GroupsAssumption DEF GroupId
<1>5. PICK lost \in SUBSET (Sender \X GroupId) :
        known' = [k \in Sender \X GroupId |->
            IF k = <<s, g>> THEN IF req[r].answer THEN "yes" ELSE "no"
            ELSE IF k \in lost THEN "unknown" ELSE known[k]]
  BY <1>2, <1>4 DEF KeepMember
<1>6. req' \in [Request -> RequestRecord] /\ req'[r] = Idle /\ \A q \in Request : q # r => req'[q] = req[q]
  BY <1>1, IdleIs, StepFields DEF GateInv, Sound
<1>7. Solo(r)' /\ Grouped(r)' /\ FreshRequest(r)'
  BY <1>6, IdleIs DEF Solo, Grouped, FreshRequest, FreshCount, FreshFill, FreshKeep
<1>8. \A q \in Request : Solo(q)' /\ Grouped(q)' /\ FreshRequest(q)'
  BY <1>1, <1>6, <1>7, BystandersKeep
<1>9. CachesTyped'
  <2>1. known' \in [Sender \X GroupId -> {"unknown", "yes", "no"}]
    BY <1>5 DEF GateInv, Sound, CachesTyped
  <2> QED
    BY <1>1, <1>6, <2>1 DEF GateInv, Sound, CachesTyped, Still
<1>10. ASSUME NEW h \in Target PROVE FreshEntry(h)' /\ (entry'[h].state = "open" => entry'[h].group # 0)
  BY <1>1, EntriesKeep
<1>11. ASSUME NEW t \in Sender, NEW k \in GroupId PROVE FreshKnown(t, k)'
  <2>0. <<t, k>> \in Sender \X GroupId
    OBVIOUS
  <2>1. CASE <<t, k>> = <<s, g>>
    <3>1. known'[<<s, g>>] = (IF req[r].answer THEN "yes" ELSE "no")
      BY <1>5, <2>0, <2>1
    <3>2. (req[r].answer <=> IsMember(s, g)) \/ Excused(g)
      BY <1>1, <1>2, <1>4 DEF GateInv, Fresh, FreshRequest, FreshKeep
    <3>3. (IsMember(s, g)' <=> IsMember(s, g)) /\ (Excused(g) => Excused(g)')
      BY <1>1, StillKeeps
    <3>4. t = s /\ k = g
      BY <2>1
    <3> QED
      BY <3>1, <3>2, <3>3, <3>4 DEF FreshKnown
  <2>2. CASE <<t, k>> # <<s, g>>
    <3>1. known'[<<t, k>>] = known[<<t, k>>] \/ known'[<<t, k>>] = "unknown"
      BY <1>5, <2>0, <2>2
    <3> QED
      BY <1>1, <3>1, MembersKeep
  <2> QED
    BY <2>1, <2>2
<1> QED
  BY <1>8, <1>9, <1>10, <1>11 DEF Sound, Fresh
-------------------------------------------------------------------------------
(* The handlers.                                                           *)

\* InvalidateGroup excuses its group no more; what was remembered of it is
\* gone, and a request that carries an old answer has led the group astray.
LEMMA InvalidateKeeps ==
  ASSUME GateInv, NEW g \in GroupId, InvalidateGroup(g)
  PROVE  Sound' /\ Fresh'
<1>1. /\ UNCHANGED <<groupVars, req>> /\ ForgetGroup(g) /\ todo[g] > 0 /\ todo' = [todo EXCEPT ![g] = @ - 1]
      /\ astray' = IF Outdated(g) THEN astray \cup {g} ELSE astray \ {g}
  BY DEF InvalidateGroup
<1>2. CachesTyped /\ TypeOK
  BY DEF GateInv, Sound
<1>3. /\ minted' = minted /\ row' = row
      /\ \A h : IsOpen(h)' <=> IsOpen(h)
      /\ \A s, k : IsMember(s, k)' <=> IsMember(s, k)
  BY <1>1 DEF groupVars, IsOpen, BigEnough, Rows, IsMember, Membership, RowsOf
<1>4. \A k : k # g => (Excused(k)' <=> Excused(k))
  BY <1>1, <1>2 DEF Excused, CachesTyped
<1>5. Outdated(g) => Excused(g)'
  BY <1>1 DEF Excused
<1>6. CachesTyped'
  <2>1. todo' \in [GroupId -> 0 .. MaxPending] /\ astray' \in SUBSET GroupId
    BY <1>1, <1>2, GateAssumption DEF CachesTyped
  <2>2. entry' \in [Target -> Answer \cup {Unknown}] /\ known' \in [Sender \X GroupId -> {"unknown", "yes", "no"}]
    BY <1>1, <1>2 DEF CachesTyped, ForgetGroup
  <2> QED
    BY <1>1, <1>2, <2>1, <2>2 DEF CachesTyped
<1>7. ASSUME NEW h \in Target
      PROVE  FreshEntry(h)' /\ (entry'[h].state = "open" => entry'[h].group # 0)
  <2>1. FreshEntry(h) /\ (entry[h].state = "open" => entry[h].group # 0)
    BY DEF GateInv, Sound, Fresh
  <2>2. CASE entry[h].group = g
    <3>1. entry'[h].group = 0 /\ entry'[h].state = "unknown"
      BY <1>1, <2>2 DEF ForgetGroup, Unknown
    <3> QED
      BY <3>1 DEF FreshEntry
  <2>3. CASE entry[h].group # g
    <3>1. PICK k : k = entry[h].group
      OBVIOUS
    <3>2. entry'[h] = entry[h]
      BY <1>1, <2>3 DEF ForgetGroup
    <3>3. Excused(k)' <=> Excused(k)
      BY <1>4, <2>3, <3>1
    <3> QED
      BY <1>3, <2>1, <3>1, <3>2, <3>3 DEF FreshEntry
  <2> QED
    BY <2>2, <2>3
<1>8. ASSUME NEW s \in Sender, NEW k \in GroupId PROVE FreshKnown(s, k)'
  <2>1. FreshKnown(s, k)
    BY DEF GateInv, Fresh
  <2>2. known'[<<s, k>>] = IF k = g THEN "unknown" ELSE known[<<s, k>>]
    <3>1. <<s, k>> \in Sender \X GroupId /\ <<s, k>>[2] = k
      OBVIOUS
    <3> QED
      BY <1>1, <3>1 DEF ForgetGroup
  <2>3. CASE k = g
    BY <2>2, <2>3 DEF FreshKnown
  <2>4. CASE k # g
    BY <1>3, <1>4, <2>1, <2>2, <2>4 DEF FreshKnown
  <2> QED
    BY <2>3, <2>4
<1>9. ASSUME NEW r \in Request PROVE Solo(r)' /\ Grouped(r)' /\ FreshRequest(r)'
  <2>0. req' = req
    BY <1>1
  <2>1. Solo(r) /\ Grouped(r) /\ FreshRequest(r)
    BY DEF GateInv, Sound, Fresh
  <2>2. Solo(r)' /\ Grouped(r)'
    BY <1>3, <2>0, <2>1 DEF Solo, Grouped
  <2>3. PICK k : k = req[r].group
    OBVIOUS
  <2>4. Excused(k) => Excused(k)' \/ (k = g /\ ~Outdated(g))
    BY <1>4, <1>5
  <2>5. req[r] \in RequestRecord
    BY <1>2 DEF CachesTyped
  <2>6. req[r].answer \in BOOLEAN
    BY <2>5, RequestFields
  <2>7. FreshCount(r)'
    <3>1. k = g /\ ~Outdated(g) /\ req[r].at = "count" => \A h \in req[r].target : row[h] # NoRow
      BY <2>3 DEF Outdated
    <3> QED
      BY <1>3, <2>0, <2>1, <2>3, <2>4, <3>1 DEF FreshRequest, FreshCount
  <2>8. FreshFill(r)'
    <3>1. k = g /\ ~Outdated(g) /\ req[r].at = "fill" => \A h \in req[r].target : req[r].answer <=> IsOpen(h)
      BY <2>3, <2>6 DEF Outdated, IsOpen, BigEnough
    <3> QED
      BY <1>3, <2>0, <2>1, <2>3, <2>4, <3>1 DEF FreshRequest, FreshFill
  <2>9. FreshKeep(r)'
    <3>1. k = g /\ ~Outdated(g) /\ req[r].at = "keep" => \A s \in req[r].sender : req[r].answer <=> IsMember(s, g)
      BY <2>3, <2>6 DEF Outdated, IsMember
    <3> QED
      BY <1>3, <2>0, <2>1, <2>3, <2>4, <3>1 DEF FreshRequest, FreshKeep
  <2> QED
    BY <2>2, <2>7, <2>8, <2>9 DEF FreshRequest
<1> QED
  BY <1>6, <1>7, <1>8, <1>9 DEF Sound, Fresh

LEMMA ChangeGroupKeeps ==
  ASSUME GateInv, TypeOK', NEW g \in GroupId, ChangeGroup(g)
  PROVE  Sound' /\ Fresh'
<1>1. TouchOnly({g})
  BY ChangesTouch DEF ChangeGroup, GateInv
<1>2. UNCHANGED <<entry, known, req>>
  BY DEF ChangeGroup
<1>3. CachesTyped
  BY DEF GateInv, Sound
<1>4. CachesTyped' /\ \A k \in GroupId : k \in {g} \/ Excused(k) => Excused(k)'
  <2>1. CASE /\ todo[g] < MaxPending
             /\ todo' = [todo EXCEPT ![g] = @ + 1]
             /\ UNCHANGED astray
    <3>1. todo' \in [GroupId -> 0 .. MaxPending] /\ todo'[g] > 0 /\ \A k \in GroupId : k # g => todo'[k] = todo[k]
      BY <1>3, <2>1, GateAssumption DEF CachesTyped
    <3> QED
      BY <1>2, <1>3, <2>1, <3>1 DEF CachesTyped, Excused
  <2>2. CASE astray' = astray \cup {g} /\ UNCHANGED todo
    BY <1>2, <1>3, <2>2 DEF CachesTyped, Excused
  <2> QED
    BY <2>1, <2>2 DEF ChangeGroup, Owes
<1> QED
  BY <1>1, <1>2, <1>4, HandlerKeeps

LEMMA CreateKeeps ==
  ASSUME GateInv, TypeOK', Create
  PROVE  Sound' /\ Fresh'
<1>1. PICK a \in Account, g \in GroupId :
        CreateGroup(a, g) /\ astray' = astray \cup {g} /\ UNCHANGED <<entry, known, req, todo>>
  BY DEF Create
<1>2. TouchOnly({g})
  BY <1>1, Inserted DEF CreateGroup, GateInv, Role
<1>3. CachesTyped' /\ \A k \in GroupId : k \in {g} \/ Excused(k) => Excused(k)'
  BY <1>1 DEF GateInv, Sound, CachesTyped, Excused
<1> QED
  BY <1>1, <1>2, <1>3, HandlerKeeps

LEMMA BurnKeeps ==
  ASSUME GateInv, TypeOK', Burn
  PROVE  Sound' /\ Fresh'
<1>1. PICK a \in Account, h \in Handle : Burn!(a, h)
  BY DEF Burn
<1>2. BurnGroupHandle(a, h) /\ astray' = astray \cup {row[h].group} /\ UNCHANGED <<known, req, todo>>
  BY <1>1
<1>3. TouchOnly({row[h].group})
  BY <1>2, BurnTouches DEF GateInv
<1>4. row[h].group \in GroupId
  BY <1>2, RowIs DEF GateInv, BurnGroupHandle
<1>5. CachesTyped
  BY DEF GateInv, Sound
<1>6. \A k \in Target : entry'[k] = entry[k] \/ entry'[k] = Unknown
  BY <1>1
<1>7. entry' \in [Target -> Answer \cup {Unknown}]
  BY <1>1, <1>5 DEF CachesTyped
<1>8. CachesTyped' /\ \A k \in GroupId : k \in {row[h].group} \/ Excused(k) => Excused(k)'
  BY <1>2, <1>4, <1>5, <1>7 DEF CachesTyped, Excused
<1> QED
  BY <1>2, <1>3, <1>6, <1>8, HandlerKeeps

LEMMA EraseKeeps ==
  ASSUME GateInv, TypeOK', Erase
  PROVE  Sound' /\ Fresh'
<1>1. PICK a \in Account : Erase!(a)
  BY DEF Erase
<1> DEFINE G == {row[h].group : h \in RowsOf(a)} \cup {g \in GroupId : owner[g] = a}
<1>2. DeleteAccount(a) /\ astray' = astray \cup G /\ UNCHANGED <<entry, known, req, todo>>
  BY <1>1
<1>3. TouchOnly(G)
  BY <1>2, DeleteAccountTouches DEF GateInv
<1>4. G \subseteq GroupId
  <2>1. ASSUME NEW h \in RowsOf(a) PROVE row[h].group \in GroupId
    BY RowIs, NoRowIsNone DEF RowsOf, GateInv
  <2> QED
    BY <2>1
<1> HIDE DEF G
<1>5. CachesTyped' /\ \A k \in GroupId : k \in G \/ Excused(k) => Excused(k)'
  BY <1>2, <1>4 DEF GateInv, Sound, CachesTyped, Excused
<1> QED
  BY <1>2, <1>3, <1>5, HandlerKeeps

LEMMA AdministerKeeps ==
  ASSUME GateInv, TypeOK', Administer
  PROVE  Sound' /\ Fresh'
<1>1. TouchOnly({}) /\ UNCHANGED <<entry, known, req, todo, astray>>
  BY AdministerTouches DEF GateInv, gateVars
<1>2. CachesTyped' /\ \A k \in GroupId : k \in {} \/ Excused(k) => Excused(k)'
  BY <1>1 DEF GateInv, Sound, CachesTyped, Excused
<1> QED
  BY <1>1, <1>2, HandlerKeeps

LEMMA NewDayKeeps ==
  ASSUME GateInv, TypeOK', NewDay
  PROVE  Sound' /\ Fresh'
<1>1. UNCHANGED <<row, minted, entry, known, req, todo, astray>>
  BY DEF NewDay, Midnight, gateVars
<1>2. TouchOnly({})
  BY <1>1 DEF TouchOnly, GateInv, TypeOK
<1>3. CachesTyped' /\ \A k \in GroupId : k \in {} \/ Excused(k) => Excused(k)'
  BY <1>1 DEF GateInv, Sound, CachesTyped, Excused
<1> QED
  BY <1>1, <1>2, <1>3, HandlerKeeps

-------------------------------------------------------------------------------
(* The invariant.                                                          *)

\* The tables move as in Groups.
LEMMA GateMovesGroups == GateInv /\ [GateNext]_vars => [Next]_groupVars
<1> SUFFICES ASSUME GateInv, [GateNext]_vars PROVE [Next]_groupVars
  OBVIOUS
<1>1. ASSUME NEW r \in Request, NEW s \in Sender, NEW h \in Target, Resolve(r, s, h) PROVE UNCHANGED groupVars
  BY <1>1 DEF Resolve
<1>2. ASSUME NEW r \in Request,
             ReadRow(r) \/ ReadCount(r) \/ Fill(r) \/ Recall(r) \/ AskMember(r) \/ KeepMember(r)
      PROVE  UNCHANGED groupVars
  BY <1>2 DEF ReadRow, ReadCount, Fill, Recall, AskMember, KeepMember
<1>3. ASSUME NEW g \in GroupId, ChangeGroup(g) PROVE [Next]_groupVars
  BY <1>3, ChangesTouch DEF ChangeGroup, GateInv
<1>4. ASSUME NEW g \in GroupId, InvalidateGroup(g) PROVE UNCHANGED groupVars
  BY <1>4 DEF InvalidateGroup
<1>5. CASE Create
  BY <1>5 DEF Create, Next, Handler
<1>6. CASE Burn
  BY <1>6 DEF Burn, Next, Handler
<1>7. CASE Erase
  BY <1>7 DEF Erase, Next, Handler
<1>8. CASE Administer
  BY <1>8, AdministerTouches DEF GateInv
<1>9. CASE NewDay
  BY <1>9 DEF NewDay, Next
<1>10. CASE UNCHANGED vars
  BY <1>10 DEF vars
<1> QED
  BY <1>1, <1>2, <1>3, <1>4, <1>5, <1>6, <1>7, <1>8, <1>9, <1>10 DEF GateNext

LEMMA GateInvInit == GateInit => GateInv
<1> SUFFICES ASSUME GateInit PROVE GateInv
  OBVIOUS
<1>1. TypeOK
  BY TypeInit DEF GateInit
<1>2. CachesTyped
  BY IdleIs, GateAssumption DEF GateInit, CachesTyped
<1>3. \A r \in Request : req[r].at = "idle"
  BY IdleIs DEF GateInit
<1>4. \A h \in Target : entry[h].group = 0 /\ entry[h].state = "unknown"
  BY DEF GateInit, Unknown
<1>5. \A s \in Sender, g \in GroupId : known[s, g] = "unknown"
  BY DEF GateInit
<1>6. Sound
  BY <1>2, <1>3, <1>4 DEF Sound, Solo, Grouped
<1>7. Fresh
  BY <1>3, <1>4, <1>5 DEF Fresh, FreshRequest, FreshCount, FreshFill, FreshKeep, FreshEntry, FreshKnown
<1> QED
  BY <1>1, <1>6, <1>7 DEF GateInv

LEMMA GateInvNext == GateInv /\ [GateNext]_vars => GateInv'
<1> SUFFICES ASSUME GateInv, [GateNext]_vars PROVE GateInv'
  OBVIOUS
<1>1. TypeOK'
  BY GateMovesGroups, TypeNext DEF GateInv
<1>2. ASSUME NEW r \in Request, NEW s \in Sender, NEW h \in Target, Resolve(r, s, h) PROVE Sound' /\ Fresh'
  BY <1>2, ResolveKeeps
<1>3. ASSUME NEW r \in Request,
             ReadRow(r) \/ ReadCount(r) \/ Fill(r) \/ Recall(r) \/ AskMember(r) \/ KeepMember(r)
      PROVE  Sound' /\ Fresh'
  BY <1>3, ReadRowKeeps, ReadCountKeeps, FillKeeps, RecallKeeps, AskMemberKeeps, KeepMemberKeeps
<1>4. ASSUME NEW g \in GroupId, ChangeGroup(g) \/ InvalidateGroup(g) PROVE Sound' /\ Fresh'
  BY <1>1, <1>4, ChangeGroupKeeps, InvalidateKeeps
<1>5. ASSUME Create \/ Burn \/ Erase \/ Administer \/ NewDay PROVE Sound' /\ Fresh'
  BY <1>1, <1>5, CreateKeeps, BurnKeeps, EraseKeeps, AdministerKeeps, NewDayKeeps
<1>6. ASSUME UNCHANGED vars PROVE Sound' /\ Fresh'
  <2>1. Still /\ UNCHANGED <<entry, known, req>>
    BY <1>6 DEF vars, gateVars, Still, GateInv, Sound, CachesTyped
  <2>2. CachesTyped'
    BY <2>1 DEF GateInv, Sound, CachesTyped, Still
  <2>3. ASSUME NEW r \in Request PROVE Solo(r)' /\ Grouped(r)' /\ FreshRequest(r)'
    BY <2>1, BystandersKeep
  <2>4. ASSUME NEW h \in Target PROVE FreshEntry(h)' /\ (entry'[h].state = "open" => entry'[h].group # 0)
    BY <2>1, EntriesKeep
  <2>5. ASSUME NEW s \in Sender, NEW g \in GroupId PROVE FreshKnown(s, g)'
    BY <2>1, MembersKeep
  <2> QED
    BY <2>2, <2>3, <2>4, <2>5 DEF Sound, Fresh
<1>7. Sound' /\ Fresh'
  BY <1>2, <1>3, <1>4, <1>5, <1>6 DEF GateNext
<1> QED
  BY <1>1, <1>7 DEF GateInv

LEMMA GateInvHolds == GateSpec => []GateInv
  BY GateInvInit, GateInvNext, PTL DEF GateSpec

\* Rows, answers and requests have their types, and a request that has found a
\* handle knows the group of it, which resolver.go:225-283 asks about next.
THEOREM GateTypeCorrect == GateSpec => []GateTypeOK
<1>1. GateInv => GateTypeOK
  BY SoundTypes DEF GateInv
<1> QED
  BY <1>1, GateInvHolds, PTL

\* What IsGroupMember remembers is what group_members says, but for a handler
\* that has still to call InvalidateGroup and for groups gone astray.
THEOREM MembershipIsFresh == GateSpec => []MembersFresh
<1>1. GateInv => MembersFresh
  <2> SUFFICES ASSUME GateInv, NEW s \in Sender, NEW g \in GroupId,
                      known[s, g] # "unknown", todo[g] = 0, g \notin astray
               PROVE  (known[s, g] = "yes") = IsMember(s, g)
    BY DEF MembersFresh
  <2>1. FreshKnown(s, g)
    BY DEF GateInv, Fresh
  <2>2. ~Excused(g)
    BY NotExcused
  <2> QED
    BY <2>1, <2>2 DEF FreshKnown, IsMember
<1> QED
  BY <1>1, GateInvHolds, PTL

\* Likewise the size floor that ResolveDetailed remembers of a group handle.
THEOREM FloorIsFresh == GateSpec => []TargetsFresh
<1>1. GateInv => TargetsFresh
  <2> SUFFICES ASSUME GateInv, NEW h \in Target,
                      entry[h].group # 0, todo[entry[h].group] = 0, entry[h].group \notin astray
               PROVE  (entry[h].state = "open") = IsOpen(h)
    BY DEF TargetsFresh
  <2>1. FreshEntry(h) /\ ~Excused(entry[h].group)
    BY DEF GateInv, Fresh, Excused
  <2>2. entry[h].state = "open" <=> IsOpen(h)
    BY <2>1 DEF FreshEntry
  <2> QED
    BY <2>2 DEF IsOpen, BigEnough
<1> QED
  BY <1>1, GateInvHolds, PTL

\* The caches change nothing of what the handlers promise: without them the
\* behaviours are those of Groups, handler by handler.
THEOREM GateImplementsGroups == GateSpec => Spec
<1>1. GateInit => Init
  BY DEF GateInit
<1>2. GateInv /\ [GateNext]_vars => [Next]_groupVars
  BY GateMovesGroups
<1> QED
  BY <1>1, <1>2, GateInvHolds, PTL DEF GateSpec, Spec

\* So the properties of the tables hold while pings are answered from memory.
THEOREM GateKeepsTheTables ==
  GateSpec => []OwnersAgree /\ []OneMembership /\ []LedUnlessBurnt /\ Succession
BY GateImplementsGroups, OwnersAlwaysAgree, MembersOnce, GroupsAreLed, SuccessionIsByRule, PTL
===============================================================================
