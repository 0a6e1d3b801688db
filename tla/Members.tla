------------------------------- MODULE Members -------------------------------
(***************************************************************************)
(* The people of one bank and the work they own: identity/members_logic.py *)
(* and tenants/reassignment.py, with the writes that name an owner         *)
(* (cases/actions.py) or change what a role grants (identity/roles_logic). *)
(*                                                                         *)
(* A request is one transaction reading committed rows, so it is two or    *)
(* three steps here: the reads its answer rests on, and the commit.  Only  *)
(* the removal locks the membership; a write to an item locks the item.    *)
(*                                                                         *)
(* A work item is an action or a case: it always has one owner, a person.  *)
(***************************************************************************)
EXTENDS Integers, FiniteSets

CONSTANTS People,
          Items,
          Requests,    \* the requests that may run at the same time
          RoleEdits,   \* whether the bank's own role is edited in this instance
          MaxCommits   \* bound: committed requests

ASSUME MembersAssumption == RoleEdits \in BOOLEAN /\ MaxCommits \in Nat

VARIABLES active,   \* people whose membership is not deactivated
          roles,    \* each membership's roles among those that may carry members.manage
          customManages,  \* whether the bank's own role carries members.manage
          owner, open,    \* each item's owner, and whether it is still to be done
          request,  \* what each running request has read and holds
          commits

bank == <<active, roles, customManages, owner, open>>
vars == <<bank, request, commits>>

AdminRoles == {"administrator", "custom"}

-----------------------------------------------------------------------------
\* permissions_of(roles) holds members.manage, with the bank's own role as `custom` says.
Grants(rs, custom) == "administrator" \in rs \/ ("custom" \in rs /\ custom)

Admins == {u \in active : Grants(roles[u], customManages)}

\* mutant: a role change counts as keeping the permission
AlwaysAllowed(u, keeps) == TRUE

\* assert_not_last_admin: passes unless u holds the permission, would lose it,
\* and no other active member holds it.
NotLastAdmin(u, keeps) == u \in Admins /\ ~keeps => Admins \ {u} # {}

\* owned_work: the open items a person owns.
OwnedWork(u) == {i \in Items : owner[i] = u /\ open[i]}

NoRequest == [kind |-> "none"]

Init ==
  /\ active = People
  /\ roles \in [People -> SUBSET AdminRoles]
  /\ customManages = TRUE
  /\ Admins # {}
  /\ owner \in [Items -> People] /\ open \in [Items -> BOOLEAN]
  /\ request = [r \in Requests |-> NoRequest]
  /\ commits = 0

\* Rows locked FOR UPDATE by a running request.
HeldItems == UNION {request[r].items : r \in {q \in Requests : request[q].kind \in {"assign", "remove"}}}
HeldMemberships == {request[r].who : r \in {q \in Requests : request[q].kind = "remove"}}

\* since: how many commits the request's reads have seen.
Begin(r, read) ==
  /\ request[r] = NoRequest
  /\ request' = [request EXCEPT ![r] = read]
  /\ UNCHANGED <<bank, commits>>

Commit(r) ==
  /\ commits < MaxCommits
  /\ commits' = commits + 1
  /\ request' = [request EXCEPT ![r] = NoRequest]

-----------------------------------------------------------------------------
\* mutant: the action is read without its lock
BeginAssignUnlocked(r, i, u) ==
  /\ u \in active
  /\ Begin(r, [kind |-> "assign", since |-> commits, items |-> {i}, who |-> u])

\* A person is named as an item's owner: the item locked, then _member, an
\* unlocked read.  An item nobody has planned yet is one that is not open.
BeginAssign(r, i, u) ==
  /\ i \notin HeldItems /\ u \in active
  /\ Begin(r, [kind |-> "assign", since |-> commits, items |-> {i}, who |-> u])

Assign(r) ==
  /\ request[r].kind = "assign"
  /\ owner' = [i \in Items |-> IF i \in request[r].items THEN request[r].who ELSE owner[i]]
  /\ open' = [i \in Items |-> i \in request[r].items \/ open[i]]
  /\ Commit(r)
  /\ UNCHANGED <<active, roles, customManages>>

Finish(r, i) ==
  /\ request[r] = NoRequest /\ i \notin HeldItems /\ open[i]
  /\ open' = [open EXCEPT ![i] = FALSE]
  /\ Commit(r)
  /\ UNCHANGED <<active, roles, customManages, owner>>

\* update_action with done = false, restoring a case: the owner is whoever it was.
Reopen(r, i) ==
  /\ request[r] = NoRequest /\ i \notin HeldItems /\ ~open[i]
  /\ open' = [open EXCEPT ![i] = TRUE]
  /\ Commit(r)
  /\ UNCHANGED <<active, roles, customManages, owner>>

-----------------------------------------------------------------------------
\* update_member with new roles: the check, then the rows.
BeginRoles(r, u, rs) ==
  /\ Admins # {} /\ u \in active
  /\ NotLastAdmin(u, Grants(rs, customManages))
  /\ Begin(r, [kind |-> "roles", since |-> commits, who |-> u, set |-> rs])

\* The new role rows reference the membership, so they wait for a removal's lock.
ChangeRoles(r) ==
  /\ request[r].kind = "roles" /\ request[r].who \notin HeldMemberships
  /\ roles' = [roles EXCEPT ![request[r].who] = request[r].set]
  /\ Commit(r)
  /\ UNCHANGED <<active, customManages, owner, open>>

\* update_role: a role that is not a system role takes the permissions asked for.
UpdateRole(r, manages) ==
  /\ RoleEdits /\ request[r] = NoRequest
  /\ customManages' = manages
  /\ Commit(r)
  /\ UNCHANGED <<active, roles, owner, open>>

-----------------------------------------------------------------------------

\* deactivate_member as the plain removal calls it: nothing held, not the last admin.
BeginDeactivate(r, u) ==
  /\ Admins # {} /\ u \in active
  /\ OwnedWork(u) = {}
  /\ NotLastAdmin(u, FALSE)
  /\ Begin(r, [kind |-> "deactivate", since |-> commits, who |-> u])

\* The write waits for a removal that holds the row.
Deactivate(r) ==
  /\ request[r].kind = "deactivate" /\ request[r].who \notin HeldMemberships
  /\ active' = active \ {request[r].who}
  /\ Commit(r)
  /\ UNCHANGED <<roles, customManages, owner, open>>

\* remove_member: the membership locked, the new owner another active member.
BeginRemove(r, u, v) ==
  /\ Admins # {} /\ u \in active \ HeldMemberships /\ v \in active \ {u}
  /\ Begin(r, [kind |-> "remove", since |-> commits, who |-> u, to |-> v, items |-> {}, moved |-> FALSE])

\* Its open items are locked and moved, what is left is counted again (nothing:
\* the transaction sees its own moves) and the last-admin check is made.
MoveWork(r) ==
  /\ request[r].kind = "remove" /\ ~request[r].moved
  /\ OwnedWork(request[r].who) \cap HeldItems = {}
  /\ NotLastAdmin(request[r].who, FALSE)
  /\ request' = [request EXCEPT ![r].items = OwnedWork(request[r].who), ![r].moved = TRUE]
  /\ UNCHANGED <<bank, commits>>

Remove(r) ==
  /\ request[r].kind = "remove" /\ request[r].moved
  /\ owner' = [i \in Items |-> IF i \in request[r].items THEN request[r].to ELSE owner[i]]
  /\ active' = active \ {request[r].who}
  /\ Commit(r)
  /\ UNCHANGED <<roles, customManages, open>>

\* Any check that fails: the request answers an error and its locks go.
Refuse(r) ==
  /\ request[r] # NoRequest
  /\ request' = [request EXCEPT ![r] = NoRequest]
  /\ UNCHANGED <<bank, commits>>

\* accept_invitation by somebody removed: back in, with the invitation's roles.
Rejoin(r, u, rs) ==
  /\ request[r] = NoRequest /\ u \notin active /\ u \notin HeldMemberships
  /\ active' = active \cup {u}
  /\ roles' = [roles EXCEPT ![u] = rs]
  /\ Commit(r)
  /\ UNCHANGED <<customManages, owner, open>>

Next ==
  \E r \in Requests :
    \/ \E i \in Items, u \in People : BeginAssign(r, i, u)
    \/ Assign(r)
    \/ \E i \in Items : Finish(r, i) \/ Reopen(r, i)
    \/ \E u \in People, rs \in SUBSET AdminRoles : BeginRoles(r, u, rs) \/ Rejoin(r, u, rs)
    \/ ChangeRoles(r)
    \/ \E manages \in BOOLEAN : UpdateRole(r, manages)
    \/ \E u \in People : BeginDeactivate(r, u)
    \/ Deactivate(r)
    \/ \E u, v \in People : BeginRemove(r, u, v)
    \/ MoveWork(r)
    \/ Remove(r)
    \/ Refuse(r)

Spec == Init /\ [][Next]_vars

-----------------------------------------------------------------------------
Reads ==
  {NoRequest}
  \cup [kind : {"assign"}, since : 0..MaxCommits, items : SUBSET Items, who : People]
  \cup [kind : {"roles"}, since : 0..MaxCommits, who : People, set : SUBSET AdminRoles]
  \cup [kind : {"deactivate"}, since : 0..MaxCommits, who : People]
  \cup [kind : {"remove"}, since : 0..MaxCommits, who : People, to : People, items : SUBSET Items, moved : BOOLEAN]

\* No two running requests hold the same row.
TypeOK ==
  /\ active \subseteq People /\ roles \in [People -> SUBSET AdminRoles] /\ customManages \in BOOLEAN
  /\ owner \in [Items -> People] /\ open \in [Items -> BOOLEAN]
  /\ request \in [Requests -> Reads] /\ commits \in 0..MaxCommits
  /\ \A r, q \in Requests :
       r # q /\ request[r].kind = "remove" /\ request[q].kind = "remove" => request[r].who # request[q].who

\* "A tenant always keeps one member holding members.manage (ID-S19)"
\* (members_logic.py): whatever is removed or changed, somebody can still
\* administer the bank.
KeepsOneAdmin == Admins # {}

\* A request that commits before anything else has, since it read.
ReadsAreCurrent(r) ==
  /\ request[r] # NoRequest /\ request'[r] = NoRequest
  /\ commits' # commits /\ request[r].since = commits

\* The last-administrator check and the count of work held are enough for a
\* request whose reads are still current when it commits: from any state,
\* whichever change it is, it leaves an administrator if there was one, and
\* "No plain removal leaves an owner who cannot sign in" (deactivate_member):
\* whoever stops being a member owns no open item from that moment.
AloneKeepsTheBank ==
  [][\A r \in Requests : ReadsAreCurrent(r) =>
       /\ Admins # {} => Admins' # {}
       /\ \A u \in active \ active', i \in Items : ~(owner'[i] = u /\ open'[i])]_vars

\* A removal hands over exactly what it locked: no owner named while it ran is
\* overwritten, nothing finished meanwhile comes back to life, and all of it
\* reaches the person named.
HandsOverWhatItLocked ==
  [][\A r \in Requests :
       request[r].kind = "remove" /\ request[r].who \in active \ active' =>
         \A i \in request[r].items :
           /\ owner[i] = request[r].who /\ open[i]
           /\ owner'[i] = request[r].to /\ open'[i]]_vars
=============================================================================
