----------------------------- MODULE AdminGuard -----------------------------
(***************************************************************************)
(* Who administers the system: the accounts, the groups and their members, *)
(* and the three requests that refuse to remove the last administrator,    *)
(* deleteUser and deleteUsers of services/user.service.ts and              *)
(* removeMembers of services/group.service.ts.  Each counts the active     *)
(* administrators in queries of its own and writes afterwards; nothing     *)
(* holds the counts still in between.  A restart runs the seeders of       *)
(* database/seeder before the server listens.                              *)
(*                                                                         *)
(* A step is one query.  An id is never given out twice; the account of    *)
(* the default administrator may come back, because it is found by email,  *)
(* and no request that knew the old id outlives the restart.               *)
(***************************************************************************)
EXTENDS FiniteSets, Integers

CONSTANTS
    Users,          \* the accounts that may ever exist
    Groups,         \* the groups that may ever exist
    OtherNames,     \* the names of groups besides "admin"
    DefaultAdmin,   \* the account of ADMIN_EMAIL
    Requests,       \* the guarded requests that may be under way together
    RenameSystem    \* whether updateGroup is used to rename a system group

\* The operations that delete accounts; that of removeMembers is named by its group.
Deletions == {"deleteUser", "deleteUsers"}

ASSUME AdminAssumption ==
    /\ IsFiniteSet(Users)
    /\ DefaultAdmin \in Users
    /\ Groups \cap (Deletions \cup {"none"}) = {}
    /\ "admin" \notin OtherNames
    /\ RenameSystem \in BOOLEAN

VARIABLES
    user,     \* user[u]: "unborn", "pending", "active" or "deleted"
    group,    \* group[g]: its name and isSystem; the name says whether it exists
    member,   \* the rows of user_group
    server,   \* where the start of the server stands, "up" once it listens
    task      \* task[r]: the request r, what it has counted and its next query

vars == <<user, group, member, server, task>>

Names == {"admin"} \cup OtherNames

Exists(u) == user[u] \in {"pending", "active"}

GroupExists(g) == group[g].name \in Names

NamedAdmin(u) == \E g \in Groups : group[g].name = "admin" /\ <<u, g>> \in member

\* countActiveAdmins and countActiveAdminsByIds go by the group's name.
ActiveAdmins == {u \in Users : user[u] = "active" /\ NamedAdmin(u)}

Tasks == [op : Deletions \cup {"none"} \cup Groups,
          step : {"idle", "total", "removing", "write"},
          users : SUBSET Users,
          total : 0 .. Cardinality(Users)]

Idle == [op |-> "none", step |-> "idle", users |-> {}, total |-> 0]

Init ==
    /\ user = [u \in Users |-> "unborn"]
    /\ group = [g \in Groups |-> [name |-> "unborn", system |-> FALSE]]
    /\ member = {}
    /\ server = "down"
    /\ task = [r \in Requests |-> Idle]

-----------------------------------------------------------------------------
(* Start and crash.                                                        *)

\* seedGroups: a missing admin group is made, as a system group without members.
SeedGroups ==
    /\ server = "down"
    /\ \/ /\ \E g \in Groups : group[g].name = "admin"
          /\ UNCHANGED group
       \/ /\ \A g \in Groups : group[g].name # "admin"
          /\ \E g \in Groups :
                /\ group[g].name = "unborn"
                /\ group' = [group EXCEPT ![g] = [name |-> "admin", system |-> TRUE]]
    /\ server' = "seeding"
    /\ UNCHANGED <<user, member, task>>

Grant(u) == member' = member \cup {<<u, g>> : g \in {h \in Groups : group[h].name = "admin"}}

SeededMutant == NamedAdmin(DefaultAdmin)

\* countUsers of the admin group: pending members count.
Seeded == \E u \in Users : NamedAdmin(u)

\* seedAdmin: an admin group with members is left alone; otherwise the account of
\* ADMIN_EMAIL joins it as it is, or is created active and joins with a second query.
SeedAdmin ==
    /\ server = "seeding"
    /\ \/ /\ Seeded
          /\ server' = "up"
          /\ UNCHANGED <<user, member>>
       \/ /\ ~Seeded /\ Exists(DefaultAdmin)
          /\ Grant(DefaultAdmin)
          /\ server' = "up"
          /\ UNCHANGED user
       \/ /\ ~Seeded /\ ~Exists(DefaultAdmin)
          /\ user' = [user EXCEPT ![DefaultAdmin] = "active"]
          /\ server' = "granting"
          /\ UNCHANGED member
    /\ UNCHANGED <<group, task>>

SeedGrant ==
    /\ server = "granting"
    /\ Grant(DefaultAdmin)
    /\ server' = "up"
    /\ UNCHANGED <<user, group, task>>

Crash ==
    /\ server # "down"
    /\ server' = "down"
    /\ task' = [r \in Requests |-> Idle]
    /\ UNCHANGED <<user, group, member>>

-----------------------------------------------------------------------------
(* Requests that guard nothing; each writes with one query.                *)

\* createUser of the administrator, or registerUser: the account is not active.
CreateUser(u) ==
    /\ server = "up"
    /\ user[u] = "unborn"
    /\ user' = [user EXCEPT ![u] = "pending"]
    /\ UNCHANGED <<group, member, server, task>>

\* createMany with skipDuplicates.
Join(users, groups) == member' = member \cup (users \X groups)

\* deleteMany of one group.
Leave(users, g) == member' = member \ (users \X {g})

\* verifyOtp, or the password set through the invitation.
Activate(u) ==
    /\ server = "up"
    /\ user[u] = "pending"
    /\ user' = [user EXCEPT ![u] = "active"]
    /\ UNCHANGED <<group, member, server, task>>

\* An unknown user or group refuses the whole request; the foreign keys refuse what has
\* gone since.
AssignGroups(u, groups) ==
    /\ server = "up"
    /\ Exists(u)
    /\ \A g \in groups : GroupExists(g)
    /\ Join({u}, groups)
    /\ UNCHANGED <<user, group, server, task>>

AddMembers(g, users) ==
    /\ server = "up"
    /\ GroupExists(g)
    /\ \A u \in users : Exists(u)
    /\ Join(users, {g})
    /\ UNCHANGED <<user, group, server, task>>

NameIsFree(name) == \A g \in Groups : group[g].name # name

CreateGroup(g, name) ==
    /\ server = "up"
    /\ group[g].name = "unborn" /\ NameIsFree(name)
    /\ group' = [group EXCEPT ![g] = [name |-> name, system |-> FALSE]]
    /\ UNCHANGED <<user, member, server, task>>

\* updateGroup renames any group, system groups included.
RenameGroup(g, name) ==
    /\ server = "up"
    /\ GroupExists(g) /\ NameIsFree(name)
    /\ group[g].system => RenameSystem
    /\ group' = [group EXCEPT ![g].name = name]
    /\ UNCHANGED <<user, member, server, task>>

\* Memberships go with their groups.
Drop(groups) ==
    /\ group' = [g \in Groups |-> IF g \in groups THEN [group[g] EXCEPT !.name = "deleted"] ELSE group[g]]
    /\ member' = {m \in member : m[2] \notin groups}

DeleteGroup(g) ==
    /\ server = "up"
    /\ GroupExists(g) /\ ~group[g].system
    /\ Drop({g})
    /\ UNCHANGED <<user, server, task>>

\* One system group among them refuses the whole request; ids of no group are left out.
DeleteGroups(groups) ==
    /\ server = "up"
    /\ \A g \in groups : GroupExists(g) => ~group[g].system
    /\ Drop({g \in groups : GroupExists(g)})
    /\ UNCHANGED <<user, server, task>>

-----------------------------------------------------------------------------
(* The guarded requests.  The operators named ...Mutant are faulty variants *)
(* of the operator that follows them; no specification uses them.          *)

GoTo(r, step) == task' = [task EXCEPT ![r].step = step]

End(r) == task' = [task EXCEPT ![r] = Idle]

Begin(r, op, users, step) ==
    /\ server = "up"
    /\ task[r] = Idle
    /\ task' = [task EXCEPT ![r] = [op |-> op, step |-> step, users |-> users, total |-> 0]]
    /\ UNCHANGED <<user, group, member, server>>

\* deleteUser finds the user, then asks first whether it is an active administrator.
DeleteUser(r) == \E u \in Users : Exists(u) /\ Begin(r, "deleteUser", {u}, "removing")

\* deleteUsers keeps the ids that exist, then counts everybody.
DeleteUsers(r) ==
    \E users \in SUBSET {u \in Users : Exists(u)} :
        users # {} /\ Begin(r, "deleteUsers", users, "total")

\* removeMembers counts for the system group that is named admin.
Guarded(g) == group[g].name = "admin" /\ group[g].system

\* removeMembers from the group counted as admin; from another group it just writes.
RemoveMembers(r) ==
    \E g \in Groups, users \in SUBSET {u \in Users : Exists(u)} :
        /\ GroupExists(g) /\ users # {}
        /\ IF Guarded(g)
           THEN Begin(r, g, users, "total")
           ELSE Begin(r, g, users, "write")

\* deleteUser was told it removes an administrator, and counts them all.
LastUserMutant(total) == total < 1

LastUser(total) == total <= 1

CountTotal(r) ==
    /\ task[r].step = "total"
    /\ LET total == Cardinality(ActiveAdmins) IN
       IF task[r].op = "deleteUser"
       THEN IF LastUser(total) THEN End(r) ELSE GoTo(r, "write")
       ELSE task' = [task EXCEPT ![r].step = "removing", ![r].total = total]
    /\ UNCHANGED <<user, group, member, server>>

\* The refusal of deleteUsers and of removeMembers, once both counts are known.
NoneLeft(op, total, removing) ==
    /\ op = "deleteUsers" => removing > 0
    /\ total - removing < 1

CountRemoving(r) ==
    /\ task[r].step = "removing"
    /\ LET removing == Cardinality(ActiveAdmins \cap task[r].users) IN
       IF task[r].op = "deleteUser"
       THEN GoTo(r, IF removing > 0 THEN "total" ELSE "write")
       ELSE IF NoneLeft(task[r].op, task[r].total, removing)
            THEN End(r) ELSE GoTo(r, "write")
    /\ UNCHANGED <<user, group, member, server>>

KeptWithoutMutant(users) == member

\* Deleting an account cascades to its memberships.
KeptWithout(users) == {m \in member : m[1] \notin users}

\* The delete: of the accounts, with their memberships, or of the memberships alone.
Write(r) ==
    /\ task[r].step = "write"
    /\ LET users == task[r].users IN
       IF task[r].op \in Groups
       THEN /\ Leave(users, task[r].op)
            /\ UNCHANGED user
       ELSE /\ user' = [u \in Users |-> IF u \in users THEN "deleted" ELSE user[u]]
            /\ member' = KeptWithout(users)
    /\ End(r)
    /\ UNCHANGED <<group, server>>

Next ==
    \/ SeedGroups \/ SeedAdmin \/ SeedGrant \/ Crash
    \/ \E u \in Users : CreateUser(u) \/ Activate(u)
    \/ \E u \in Users, groups \in SUBSET Groups : AssignGroups(u, groups)
    \/ \E g \in Groups, users \in SUBSET Users : AddMembers(g, users)
    \/ \E g \in Groups, name \in Names : CreateGroup(g, name) \/ RenameGroup(g, name)
    \/ \E g \in Groups : DeleteGroup(g)
    \/ \E groups \in SUBSET Groups : DeleteGroups(groups)
    \/ \E r \in Requests :
          \/ DeleteUser(r) \/ DeleteUsers(r) \/ RemoveMembers(r)
          \/ CountTotal(r) \/ CountRemoving(r) \/ Write(r)

Spec == Init /\ [][Next]_vars

-----------------------------------------------------------------------------
(* Properties.                                                             *)

\* Every variable has its type; memberships join an account and a group that exist.
TypeOK ==
    /\ user \in [Users -> {"unborn", "pending", "active", "deleted"}]
    /\ group \in [Groups -> [name : Names \cup {"unborn", "deleted"}, system : BOOLEAN]]
    /\ member \subseteq {u \in Users : Exists(u)} \X {g \in Groups : GroupExists(g)}
    /\ server \in {"down", "seeding", "granting", "up"}
    /\ task \in [Requests -> Tasks]

\* While the server listens somebody can administer it: an active account is in the
\* group named admin.  This is what 'Cannot delete the last admin user' is for.
AdminRemains == server = "up" => ActiveAdmins # {}

\* A start of the server gives the admin group a member only when nobody, active or
\* not, was in it: restarting never hands administration to the default account
\* behind the back of the people who hold it.
RestartGrantsNobody ==
    [][server # "up" /\ (\E u \in Users : NamedAdmin(u)) => member' = member]_vars

=============================================================================
