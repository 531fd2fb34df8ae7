------------------------------- MODULE GroupGate -------------------------------
(***************************************************************************)
(* Pings to group handles: the resolver's answers about the groups         *)
(* (ResolveDetailed's size floor, IsGroupMember) kept in memory, beside    *)
(* the handlers of Groups that change the tables and then forget the       *)
(* answers (InvalidateGroup).                                              *)
(*                                                                         *)
(* The entries of the LRU cache are kept for the handles of Target and the *)
(* membership cache for the accounts of Sender: entries do not depend on   *)
(* one another but for the eviction of a full cache, which here may take   *)
(* any of them.                                                            *)
(***************************************************************************)
EXTENDS Groups

CONSTANTS Sender,    \* bound: the accounts that ping
          Target,    \* bound: the handles they ping
          Request,   \* ping requests
          MinSize,   \* groups.min_size
          MaxPending \* bound: handlers between their commit and InvalidateGroup

ASSUME GateAssumption ==
  /\ Sender \subseteq Account
  /\ Target \subseteq Handle
  /\ MinSize \in Nat \ {0}
  /\ MaxPending \in Nat \ {0}

VARIABLES
  entry,  \* the cached answer for each handle
  known,  \* memberCache
  req,    \* where each request stands
  todo,   \* handlers that have still to call InvalidateGroup
  astray  \* groups whose answers may have gone stale for good (history)

gateVars == <<entry, known, req, todo, astray>>
vars == <<groupVars, gateVars>>

Unknown == [state |-> "unknown", group |-> 0]
Answer == [state : {"closed", "open"}, group : 0 .. MaxGroup]
Idle == [at |-> "idle", sender |-> {}, target |-> {}, group |-> 0, answer |-> FALSE]

\* One type invariant for the module and the one it extends: a request that has
\* found a handle knows its group.
GateTypeOK ==
  /\ TypeOK
  /\ entry \in [Target -> Answer \cup {Unknown}]
  /\ known \in [Sender \X GroupId -> {"unknown", "yes", "no"}]
  /\ req \in [Request -> [at : {"idle", "row", "count", "fill", "member", "ask", "keep"},
                          sender : SUBSET Sender, target : SUBSET Target,
                          group : 0 .. MaxGroup, answer : BOOLEAN]]
  /\ \A r \in Request : req[r].at \in {"count", "member", "ask", "keep"} => req[r].group # 0
  /\ todo \in [GroupId -> 0 .. MaxPending]
  /\ astray \in SUBSET GroupId

GateInit ==
  /\ Init
  /\ entry = [h \in Target |-> Unknown]
  /\ known = [k \in Sender \X GroupId |-> "unknown"]
  /\ req = [r \in Request |-> Idle]
  /\ todo = [g \in GroupId |-> 0]
  /\ astray = {}

-------------------------------------------------------------------------------
(* What the tables say.                                                    *)

IsMember(s, g) == Membership(s, g) # {}
BigEnough(g) == Cardinality(Rows(g)) >= MinSize
IsOpen(h) == row[h] # NoRow /\ BigEnough(row[h].group)

\* The request r moves on.
Step(r, fields) == req' = [req EXCEPT ![r] = fields]

-------------------------------------------------------------------------------
(* A ping: ResolveDetailed, and IsGroupMember if that says yes.            *)

\* Handles are random and handed out after the commit: nobody asks for one
\* before.  An entry that says no ends the request at once; one that says yes
\* leads to the question of membership.
Resolve(r, s, h) ==
  /\ req[r].at = "idle"
  /\ h <= minted
  /\ entry[h].state # "closed"
  /\ Step(r, [Idle EXCEPT !.at = IF entry[h].state = "open" THEN "member" ELSE "row",
                          !.sender = {s}, !.target = {h}, !.group = entry[h].group])
  /\ UNCHANGED <<groupVars, entry, known, todo, astray>>

\* Mutant: no rows is not told from a row.
ReadRowAnyway(r) ==
  /\ req[r].at = "row"
  /\ \E h \in req[r].target : Step(r, [req[r] EXCEPT !.at = "count", !.group = row[h].group])
  /\ UNCHANGED <<groupVars, entry, known, todo, astray>>

\* The first query, outside the lock: a handle that is not there has no group.
\* A query that fails ends the request.
ReadRow(r) ==
  /\ req[r].at = "row"
  /\ \/ \E h \in req[r].target :
          Step(r, [req[r] EXCEPT !.at = IF row[h] = NoRow THEN "fill" ELSE "count",
                                 !.group = row[h].group])
     \/ Step(r, Idle)
  /\ UNCHANGED <<groupVars, entry, known, todo, astray>>

\* The second query counts the members of that group; one that fails, for the
\* sender has hung up, say, closes the handle, and that is kept for everybody.
ReadCount(r) ==
  /\ req[r].at = "count"
  /\ \/ /\ Step(r, [req[r] EXCEPT !.at = "fill", !.answer = BigEnough(req[r].group)])
        /\ UNCHANGED astray
     \/ /\ Step(r, [req[r] EXCEPT !.at = "fill", !.answer = FALSE])
        /\ astray' = astray \cup {req[r].group}
  /\ UNCHANGED <<groupVars, entry, known, todo>>

\* Under the lock; a full cache forgets another entry.
Fill(r) ==
  /\ req[r].at = "fill"
  /\ \E h \in req[r].target, lost \in SUBSET Target :
       /\ Cardinality(lost) <= 1
       /\ entry' = [k \in Target |->
            IF k = h THEN [state |-> IF req[r].answer THEN "open" ELSE "closed",
                           group |-> req[r].group]
            ELSE IF k \in lost THEN Unknown
            ELSE entry[k]]
  /\ Step(r, IF req[r].answer THEN [req[r] EXCEPT !.at = "member", !.answer = FALSE] ELSE Idle)
  /\ UNCHANGED <<groupVars, known, todo, astray>>

\* A remembered answer lets the ping through or drops it.
Recall(r) ==
  /\ req[r].at = "member"
  /\ \E s \in req[r].sender :
       Step(r, IF known[s, req[r].group] # "unknown" THEN Idle ELSE [req[r] EXCEPT !.at = "ask"])
  /\ UNCHANGED <<groupVars, entry, known, todo, astray>>

\* A question that fails drops the ping and is not remembered.
AskMember(r) ==
  /\ req[r].at = "ask"
  /\ \/ \E s \in req[r].sender :
          Step(r, [req[r] EXCEPT !.at = "keep", !.answer = IsMember(s, req[r].group)])
     \/ Step(r, Idle)
  /\ UNCHANGED <<groupVars, entry, known, todo, astray>>

KeepMember(r) ==
  /\ req[r].at = "keep"
  /\ \E s \in req[r].sender, lost \in SUBSET (Sender \X GroupId) :
       /\ Cardinality(lost) <= 1
       /\ known' = [k \in Sender \X GroupId |->
            IF k = <<s, req[r].group>> THEN IF req[r].answer THEN "yes" ELSE "no"
            ELSE IF k \in lost THEN "unknown"
            ELSE known[k]]
  /\ Step(r, Idle)
  /\ UNCHANGED <<groupVars, entry, todo, astray>>

-------------------------------------------------------------------------------
(* The handlers.                                                           *)

\* After its commit a handler goes on to forget what is known of group g; if
\* the context of its request has ended meanwhile, Store.Write returns an
\* error, although the transaction stands, and nothing is forgotten.
Owes(g) ==
  \/ /\ todo[g] < MaxPending
     /\ todo' = [todo EXCEPT ![g] = @ + 1]
     /\ UNCHANGED astray
  \/ /\ astray' = astray \cup {g}
     /\ UNCHANGED todo

\* The group that a join, a leave, a removal or a deletion touches.
Changes(g) ==
  \E a \in Account :
    \/ \E c \in Code : JoinGroup(a, c, g)
    \/ LeaveGroup(a, g)
    \/ \E h \in Handle : RemoveMember(a, g, h)
    \/ DeleteGroup(a, g)

ChangeGroup(g) ==
  /\ Changes(g)
  /\ Owes(g)
  /\ UNCHANGED <<entry, known, req>>

\* The answer a request is about to keep differs from what the tables say now,
\* or the handle it has found is gone.
Outdated(g) ==
  \E r \in Request : req[r].group = g /\
    \/ req[r].at = "count" /\ \E h \in req[r].target : row[h] = NoRow
    \/ req[r].at = "fill" /\ \E h \in req[r].target : req[r].answer # IsOpen(h)
    \/ req[r].at = "keep" /\ \E s \in req[r].sender : req[r].answer # IsMember(s, g)

\* Mutant: only the entries of the handles are forgotten.
ForgetHandles(g) ==
  /\ entry' = [h \in Target |-> IF entry[h].group = g THEN Unknown ELSE entry[h]]
  /\ UNCHANGED known

\* Mutant: only the memberships are forgotten.
ForgetMembers(g) ==
  /\ known' = [k \in Sender \X GroupId |-> IF k[2] = g THEN "unknown" ELSE known[k]]
  /\ UNCHANGED entry

\* What InvalidateGroup removes under the lock.
ForgetGroup(g) ==
  /\ entry' = [h \in Target |-> IF entry[h].group = g THEN Unknown ELSE entry[h]]
  /\ known' = [k \in Sender \X GroupId |-> IF k[2] = g THEN "unknown" ELSE known[k]]

\* The handler's Invalidate of the burned handles comes just before and removes
\* no other entry: they are entries of the group.
InvalidateGroup(g) ==
  /\ todo[g] > 0
  /\ todo' = [todo EXCEPT ![g] = @ - 1]
  /\ ForgetGroup(g)
  /\ astray' = IF Outdated(g) THEN astray \cup {g} ELSE astray \ {g}
  /\ UNCHANGED <<groupVars, req>>

\* CreateGroup forgets nothing, though the id may have been used before.
Create ==
  \E a \in Account, g \in GroupId :
    /\ CreateGroup(a, g)
    /\ astray' = astray \cup {g}
    /\ UNCHANGED <<entry, known, req, todo>>

\* BurnHandle invalidates the handle before it deletes it, so that a resolution
\* in between may have put the entry back; and it invalidates no group.
Burn ==
  \E a \in Account, h \in Handle :
    /\ BurnGroupHandle(a, h)
    /\ \/ entry' = [k \in Target |-> IF k = h THEN Unknown ELSE entry[k]]
       \/ UNCHANGED entry
    /\ astray' = astray \cup {row[h].group}
    /\ UNCHANGED <<known, req, todo>>

\* Nothing at all is invalidated for a deleted account.
Erase ==
  \E a \in Account :
    /\ DeleteAccount(a)
    /\ astray' = astray \cup {row[h].group : h \in RowsOf(a)} \cup {g \in GroupId : owner[g] = a}
    /\ UNCHANGED <<entry, known, req, todo>>

\* The handlers that neither admit nor remove anyone.
Administer ==
  /\ \E a \in Account, g \in GroupId :
       \/ RotateInvite(a, g)
       \/ Owns(a, g) /\ \E named, heir \in Rows(g) \cup {0}, role \in {"admin", "member"} :
            UpdateGroup(a, g, named, role, heir)
  /\ UNCHANGED gateVars

\* Between a handler's reading of the day and its transaction, say.
NewDay ==
  /\ Midnight
  /\ UNCHANGED gateVars

GateNext ==
  \/ \E r \in Request :
       \/ \E s \in Sender, h \in Target : Resolve(r, s, h)
       \/ ReadRow(r) \/ ReadCount(r) \/ Fill(r)
       \/ Recall(r) \/ AskMember(r) \/ KeepMember(r)
  \/ \E g \in GroupId : ChangeGroup(g) \/ InvalidateGroup(g)
  \/ Create \/ Burn \/ Erase \/ Administer \/ NewDay

GateSpec == GateInit /\ [][GateNext]_vars

-------------------------------------------------------------------------------
(* Properties.                                                             *)

\* "Removing a member is instant" and "leaving is revocation": what is
\* remembered of a group's members is what the table says, except between a
\* commit and its InvalidateGroup, and for groups that have gone astray: by a
\* question that overlapped InvalidateGroup, a commit whose request had ended,
\* a count that failed, a burned handle, a deleted account, or an id that came back.
MembersFresh ==
  \A s \in Sender, g \in GroupId :
    known[s, g] # "unknown" /\ todo[g] = 0 /\ g \notin astray
      => (known[s, g] = "yes") = IsMember(s, g)

\* The size floor and the existence of a handle, in the same way: no group that
\* has shrunk below the floor is pinged on an old answer.
TargetsFresh ==
  \A h \in Target :
    entry[h].group # 0 /\ todo[entry[h].group] = 0 /\ entry[h].group \notin astray
      => (entry[h].state = "open") = IsOpen(h)
===============================================================================
