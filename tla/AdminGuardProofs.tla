--------------------------- MODULE AdminGuardProofs ---------------------------
(***************************************************************************)
(* What is proved of AdminGuard, for any accounts, groups and names.       *)
(* TypeCorrect and RestartIsHarmless hold for any number of requests;      *)
(* AdminStays for one guarded request at a time, and when updateGroup      *)
(* renames no system group.                                                *)
(*                                                                         *)
(* AdminStays rests on what the guards count and why it still stands when  *)
(* they write: there is one group named admin, it is a system group and    *)
(* stays (OneAdminGroup); every step but the write of a guarded request    *)
(* only adds active administrators (Grows); so a request that was let pass *)
(* leaves one of those it counted (Counted).                               *)
(***************************************************************************)
EXTENDS AdminGuard, FiniteSetTheorems, TLAPS

USE AdminAssumption DEF AdminAssumption

\* The start of the server is alone: no request is under way, and a default account that
\* is about to join the empty admin group is there.
Starting ==
    /\ server # "up" => \A r \in Requests : task[r] = Idle
    /\ server = "granting" => user[DefaultAdmin] = "active" /\ ~Seeded

TInv == TypeOK /\ Starting

-----------------------------------------------------------------------------
(* Type correctness, and what a restart grants.                            *)

Rows == {u \in Users : Exists(u)} \X {g \in Groups : GroupExists(g)}

UserStates == {"unborn", "pending", "active", "deleted"}

GroupRecords == [name : Names \cup {"unborn", "deleted"}, system : BOOLEAN]

LEMMA TypeParts ==
  /\ TypeOK <=> /\ user \in [Users -> UserStates] /\ group \in [Groups -> GroupRecords]
                /\ member \subseteq Rows
                /\ server \in {"down", "seeding", "granting", "up"}
                /\ task \in [Requests -> Tasks]
  /\ TypeOK' <=> /\ user' \in [Users -> UserStates] /\ group' \in [Groups -> GroupRecords]
                 /\ member' \subseteq Rows'
                 /\ server' \in {"down", "seeding", "granting", "up"}
                 /\ task' \in [Requests -> Tasks]
  BY DEF TypeOK, Rows, UserStates, GroupRecords

LEMMA CountType ==
  \A S \in SUBSET Users : IsFiniteSet(S) /\ Cardinality(S) \in 0 .. Cardinality(Users)
<1> TAKE S \in SUBSET Users
<1>1. IsFiniteSet(S) /\ Cardinality(S) <= Cardinality(Users)
  BY FS_Subset
<1>2. Cardinality(S) \in Nat /\ Cardinality(Users) \in Nat
  BY <1>1, FS_CardinalityType
<1> QED
  BY <1>1, <1>2

LEMMA IdleType == Idle \in Tasks
<1>1. 0 \in 0 .. Cardinality(Users)
  BY FS_CardinalityType
<1> QED
  BY <1>1 DEF Idle, Tasks

LEMMA AdminsAreUsers == ActiveAdmins \subseteq Users
  BY DEF ActiveAdmins

LEMMA TypeInit == Init => TInv
<1> SUFFICES ASSUME Init PROVE TInv
  OBVIOUS
<1>1. task \in [Requests -> Tasks]
  BY IdleType DEF Init
<1>2. user \in [Users -> UserStates] /\ group \in [Groups -> GroupRecords]
  BY DEF Init, UserStates, GroupRecords
<1>3. member \subseteq Rows
  BY DEF Init
<1>4. Starting
  BY DEF Init, Starting
<1> QED
  BY <1>1, <1>2, <1>3, <1>4, TypeParts DEF Init, TInv

\* The start of the server and its end.
StartStep == SeedGroups \/ SeedAdmin \/ SeedGrant \/ Crash

\* The requests that guard nothing.
PlainStep ==
    \/ \E u \in Users : CreateUser(u) \/ Activate(u)
    \/ \E u \in Users, groups \in SUBSET Groups : AssignGroups(u, groups)
    \/ \E g \in Groups, users \in SUBSET Users : AddMembers(g, users)
    \/ \E g \in Groups, name \in Names : CreateGroup(g, name) \/ RenameGroup(g, name)
    \/ \E g \in Groups : DeleteGroup(g)
    \/ \E groups \in SUBSET Groups : DeleteGroups(groups)

\* The steps of a guarded request before it writes.
CountStep(r) ==
    DeleteUser(r) \/ DeleteUsers(r) \/ RemoveMembers(r) \/ CountTotal(r) \/ CountRemoving(r)

LEMMA NextSteps == Next <=> StartStep \/ PlainStep \/ \E r \in Requests : CountStep(r) \/ Write(r)
  BY DEF Next, StartStep, PlainStep, CountStep

\* Rows stay rows when accounts and groups stay.
LEMMA RowsGrow ==
  ASSUME \A u \in Users : Exists(u) => Exists(u)',
         \A g \in Groups : GroupExists(g) => GroupExists(g)'
  PROVE  Rows \subseteq Rows'
  BY DEF Rows

LEMMA StartType ==
  ASSUME TInv, StartStep
  PROVE  TInv'
<1>t. /\ user \in [Users -> UserStates] /\ group \in [Groups -> GroupRecords]
      /\ member \subseteq Rows /\ server \in {"down", "seeding", "granting", "up"}
      /\ task \in [Requests -> Tasks] /\ Starting
  BY TypeParts DEF TInv
<1>1. CASE SeedGroups
  <2>1. group' \in [Groups -> GroupRecords]
    <3>1. [name |-> "admin", system |-> TRUE] \in GroupRecords
      BY DEF GroupRecords, Names
    <3> QED
      BY <1>1, <1>t, <3>1 DEF SeedGroups
  <2>2. Rows \subseteq Rows'
    <3>1. \A u \in Users : Exists(u) => Exists(u)'
      BY <1>1 DEF SeedGroups, Exists
    <3>2. \A g \in Groups : GroupExists(g) => GroupExists(g)'
      BY <1>1, <1>t DEF SeedGroups, GroupExists, Names, GroupRecords
    <3> QED
      BY <3>1, <3>2, RowsGrow
  <2> QED
    BY <1>1, <1>t, <2>1, <2>2, TypeParts DEF SeedGroups, TInv, Starting
<1>2. CASE SeedAdmin
  <2>1. UNCHANGED <<group, task>> /\ server = "seeding" /\ server' \in {"up", "granting"}
    BY <1>2 DEF SeedAdmin
  <2>2. user' \in [Users -> UserStates]
    BY <1>2, <1>t DEF SeedAdmin, UserStates
  <2>3. Rows \subseteq Rows'
    <3>1. \A u \in Users : Exists(u) => Exists(u)'
      BY <1>2, <1>t DEF SeedAdmin, Exists
    <3> QED
      BY <2>1, <3>1, RowsGrow DEF GroupExists, Names
  <2>4. member' \subseteq Rows'
    BY <1>2, <1>t, <2>1, <2>3 DEF SeedAdmin, Grant, Rows, GroupExists, Names, Exists
  <2>5. Starting'
    BY <1>2, <1>t, <2>1 DEF SeedAdmin, Starting, Seeded, NamedAdmin
  <2> QED
    BY <1>t, <2>1, <2>2, <2>4, <2>5, TypeParts DEF TInv
<1>3. CASE SeedGrant
  <2>1. member' \subseteq Rows'
    BY <1>3, <1>t DEF SeedGrant, Starting, Grant, Rows, Exists, GroupExists, Names
  <2> QED
    BY <1>3, <1>t, <2>1, TypeParts DEF SeedGrant, TInv, Starting
<1>4. CASE Crash
  <2>1. task' \in [Requests -> Tasks] /\ \A r \in Requests : task'[r] = Idle
    BY <1>4, IdleType DEF Crash
  <2>2. Rows' = Rows
    BY <1>4 DEF Crash, Rows, Exists, GroupExists
  <2> QED
    BY <1>4, <1>t, <2>1, <2>2, TypeParts DEF Crash, TInv, Starting
<1> QED
  BY <1>1, <1>2, <1>3, <1>4 DEF StartStep

LEMMA PlainType ==
  ASSUME TInv, PlainStep
  PROVE  TInv'
<1>t. /\ user \in [Users -> UserStates] /\ group \in [Groups -> GroupRecords]
      /\ member \subseteq Rows /\ server \in {"down", "seeding", "granting", "up"}
      /\ task \in [Requests -> Tasks] /\ Starting
  BY TypeParts DEF TInv
<1>u. UNCHANGED <<server, task>> /\ server = "up"
  BY DEF PlainStep, CreateUser, Activate, AssignGroups, AddMembers, CreateGroup, RenameGroup,
         DeleteGroup, DeleteGroups
<1>s. Starting'
  BY <1>t, <1>u DEF Starting
<1>1. ASSUME NEW u \in Users, CreateUser(u) \/ Activate(u) PROVE TInv'
  <2>1. user' \in [Users -> UserStates] /\ UNCHANGED <<group, member>>
    BY <1>1, <1>t DEF CreateUser, Activate, UserStates
  <2>2. Rows \subseteq Rows'
    <3>1. \A v \in Users : Exists(v) => Exists(v)'
      BY <1>1, <1>t DEF CreateUser, Activate, Exists
    <3> QED
      BY <2>1, <3>1, RowsGrow DEF GroupExists, Names
  <2> QED
    BY <1>t, <1>u, <1>s, <2>1, <2>2, TypeParts DEF TInv
<1>2. ASSUME NEW users \in SUBSET Users, NEW groups \in SUBSET Groups,
             \A u \in users : Exists(u), \A g \in groups : GroupExists(g),
             Join(users, groups), UNCHANGED <<user, group>>
      PROVE  TInv'
  <2>1. Rows' = Rows /\ member' \subseteq Rows
    BY <1>2, <1>t DEF Join, Rows, Exists, GroupExists, Names
  <2> QED
    BY <1>2, <1>t, <1>u, <1>s, <2>1, TypeParts DEF TInv
<1>3. ASSUME NEW u \in Users, NEW groups \in SUBSET Groups, AssignGroups(u, groups) PROVE TInv'
  BY <1>2, <1>3 DEF AssignGroups
<1>4. ASSUME NEW g \in Groups, NEW users \in SUBSET Users, AddMembers(g, users) PROVE TInv'
  BY <1>2, <1>4 DEF AddMembers
<1>5. ASSUME NEW g \in Groups, NEW name \in Names, CreateGroup(g, name) \/ RenameGroup(g, name)
      PROVE  TInv'
  <2>1. UNCHANGED <<user, member>> /\ group' \in [Groups -> GroupRecords]
    <3>1. CASE CreateGroup(g, name)
      <4>1. [name |-> name, system |-> FALSE] \in GroupRecords
        BY DEF GroupRecords
      <4> QED
        BY <3>1, <4>1, <1>t DEF CreateGroup
    <3>2. CASE RenameGroup(g, name)
      <4>1. [group[g] EXCEPT !.name = name] \in GroupRecords
        BY <1>t DEF GroupRecords
      <4>2. group' = [group EXCEPT ![g] = [group[g] EXCEPT !.name = name]]
        BY <3>2, <1>t DEF RenameGroup
      <4> QED
        BY <3>2, <4>1, <4>2, <1>t DEF RenameGroup
    <3> QED
      BY <1>5, <3>1, <3>2
  <2>2. Rows \subseteq Rows'
    <3>1. \A h \in Groups : GroupExists(h) => GroupExists(h)'
      BY <1>5, <1>t DEF CreateGroup, RenameGroup, GroupExists, GroupRecords
    <3> QED
      BY <2>1, <3>1, RowsGrow DEF Exists
  <2> QED
    BY <1>t, <1>u, <1>s, <2>1, <2>2, TypeParts DEF TInv
<1>6. ASSUME NEW groups \in SUBSET Groups, Drop(groups), UNCHANGED user PROVE TInv'
  <2>1. group' \in [Groups -> GroupRecords]
    <3>1. \A g \in Groups : [group[g] EXCEPT !.name = "deleted"] \in GroupRecords
      BY <1>t DEF GroupRecords
    <3> QED
      BY <1>6, <3>1, <1>t DEF Drop
  <2>2. \A g \in Groups \ groups : group'[g] = group[g]
    BY <1>6 DEF Drop
  <2>3. member' \subseteq Rows'
    <3>1. ASSUME NEW m \in member' PROVE m \in Rows'
      <4>1. m \in Rows /\ m[2] \notin groups
        BY <1>6, <3>1, <1>t DEF Drop
      <4>2. PICK u \in Users, g \in Groups : m = <<u, g>> /\ Exists(u) /\ GroupExists(g)
        BY <4>1 DEF Rows
      <4>3. Exists(u)' /\ GroupExists(g)'
        BY <1>6, <2>2, <4>1, <4>2 DEF Exists, GroupExists, Names
      <4> QED
        BY <4>2, <4>3 DEF Rows
    <3> QED
      BY <3>1
  <2> QED
    BY <1>6, <1>t, <1>u, <1>s, <2>1, <2>3, TypeParts DEF TInv
<1>7. ASSUME NEW g \in Groups, DeleteGroup(g) PROVE TInv'
  BY <1>6, <1>7 DEF DeleteGroup
<1>8. ASSUME NEW groups \in SUBSET Groups, DeleteGroups(groups) PROVE TInv'
  <2>1. {g \in groups : GroupExists(g)} \in SUBSET Groups
    OBVIOUS
  <2> QED
    BY <1>6, <1>8, <2>1 DEF DeleteGroups
<1> QED
  BY <1>1, <1>3, <1>4, <1>5, <1>7, <1>8 DEF PlainStep

LEMMA CountStepType ==
  ASSUME TInv, NEW r \in Requests, CountStep(r)
  PROVE  TInv'
<1>t. task \in [Requests -> Tasks] /\ Starting
  BY TypeParts DEF TInv
<1>b. ASSUME NEW op \in Deletions \cup Groups, NEW users \in SUBSET Users,
             NEW step \in {"total", "removing", "write"}, Begin(r, op, users, step)
      PROVE  task' \in [Requests -> Tasks]
  <2>1. [op |-> op, step |-> step, users |-> users, total |-> 0] \in Tasks
    BY FS_CardinalityType DEF Tasks
  <2> QED
    BY <1>b, <1>t, <2>1 DEF Begin
<1>g. ASSUME NEW step \in {"total", "removing", "write"}, GoTo(r, step)
      PROVE  task' \in [Requests -> Tasks]
  BY <1>g, <1>t DEF GoTo, Tasks
<1>e. End(r) => task' \in [Requests -> Tasks]
  BY <1>t, IdleType DEF End
<1>1. CASE DeleteUser(r)
  <2>1. PICK u \in Users : Begin(r, "deleteUser", {u}, "removing")
    BY <1>1 DEF DeleteUser
  <2> QED
    BY <2>1, <1>b, <1>t, TypeParts DEF Begin, TInv, Starting, Deletions, Rows, Exists, GroupExists
<1>2. CASE DeleteUsers(r)
  <2>1. PICK users \in SUBSET Users : Begin(r, "deleteUsers", users, "total")
    BY <1>2 DEF DeleteUsers
  <2> QED
    BY <2>1, <1>b, <1>t, TypeParts DEF Begin, TInv, Starting, Deletions, Rows, Exists, GroupExists
<1>3. CASE RemoveMembers(r)
  <2>1. PICK g \in Groups, users \in SUBSET Users, step \in {"total", "write"} :
          Begin(r, g, users, step)
    BY <1>3 DEF RemoveMembers
  <2> QED
    BY <2>1, <1>b, <1>t, TypeParts DEF Begin, TInv, Starting, Rows, Exists, GroupExists
<1>4. CASE CountTotal(r)
  <2>1. Cardinality(ActiveAdmins) \in 0 .. Cardinality(Users)
    BY CountType, AdminsAreUsers
  <2>2. [task EXCEPT ![r].step = "removing", ![r].total = Cardinality(ActiveAdmins)]
           \in [Requests -> Tasks]
    BY <2>1, <1>t DEF Tasks
  <2>3. task' \in [Requests -> Tasks]
    BY <1>4, <2>2, <1>e, <1>g DEF CountTotal
  <2>4. server = "up"
    BY <1>4, <1>t DEF CountTotal, Starting, Idle, TInv
  <2> QED
    BY <1>4, <1>t, <2>3, <2>4, TypeParts
       DEF CountTotal, TInv, Starting, Rows, Exists, GroupExists
<1>5. CASE CountRemoving(r)
  <2>3. task' \in [Requests -> Tasks]
    BY <1>5, <1>e, <1>g DEF CountRemoving
  <2>4. server = "up"
    BY <1>5, <1>t DEF CountRemoving, Starting, Idle, TInv
  <2> QED
    BY <1>5, <1>t, <2>3, <2>4, TypeParts
       DEF CountRemoving, TInv, Starting, Rows, Exists, GroupExists
<1> QED
  BY <1>1, <1>2, <1>3, <1>4, <1>5 DEF CountStep

\* Where the memberships of deleted accounts go.
LEMMA WriteType ==
  ASSUME TInv, NEW r \in Requests, Write(r)
  PROVE  TInv'
<1>t. /\ user \in [Users -> UserStates] /\ member \subseteq Rows /\ task \in [Requests -> Tasks]
      /\ Starting
  BY TypeParts DEF TInv
<1>1. task' \in [Requests -> Tasks] /\ server = "up" /\ UNCHANGED <<server, group>>
  BY <1>t, IdleType DEF Write, End, Starting, Idle
<1>2. CASE task[r].op \in Groups
  <2>1. UNCHANGED user /\ member' \subseteq member
    BY <1>2 DEF Write, Leave
  <2> QED
    BY <1>1, <1>t, <2>1, TypeParts DEF TInv, Starting, Rows, Exists, GroupExists
<1>3. CASE task[r].op \notin Groups
  <2> DEFINE users == task[r].users
  <2>1. /\ user' = [u \in Users |-> IF u \in users THEN "deleted" ELSE user[u]]
        /\ member' = KeptWithout(users)
    BY <1>3 DEF Write
  <2>2. user' \in [Users -> UserStates]
    BY <2>1, <1>t DEF UserStates
  <2>3. ASSUME NEW m \in member' PROVE m \in Rows'
    <3>1. m \in Rows /\ m[1] \notin users
      BY <2>1, <2>3, <1>t DEF KeptWithout
    <3>2. PICK u \in Users, g \in Groups : m = <<u, g>> /\ Exists(u) /\ GroupExists(g)
      BY <3>1 DEF Rows
    <3>3. Exists(u)' /\ GroupExists(g)'
      BY <1>1, <2>1, <3>1, <3>2 DEF Exists, GroupExists, Names
    <3> QED
      BY <3>2, <3>3 DEF Rows
  <2> QED
    BY <1>1, <1>t, <2>2, <2>3, TypeParts DEF TInv, Starting
<1> QED
  BY <1>2, <1>3

LEMMA TypeStep == TInv /\ [Next]_vars => TInv'
<1> SUFFICES ASSUME TInv, [Next]_vars PROVE TInv'
  OBVIOUS
<1>1. CASE UNCHANGED vars
  BY <1>1 DEF vars, TInv, TypeOK, Starting, Exists, GroupExists, Seeded, NamedAdmin
<1> QED
  BY <1>1, NextSteps, StartType, PlainType, CountStepType, WriteType

\* Whatever starts, crashes and races, memberships join accounts and groups that exist, and
\* the requests have their types.
THEOREM TypeCorrect == Spec => []TypeOK
<1>1. TInv => TypeOK
  BY DEF TInv
<1> QED
  BY <1>1, TypeInit, TypeStep, PTL DEF Spec

\* No start of the server, complete or broken off, makes anybody a member of an admin group
\* that has one, however many requests and crashes came before.
THEOREM RestartIsHarmless == Spec => RestartGrantsNobody
<1>1. TInv /\ [Next]_vars
      => [server # "up" /\ (\E u \in Users : NamedAdmin(u)) => member' = member]_vars
  <2> SUFFICES ASSUME TInv, Next, server # "up", \E u \in Users : NamedAdmin(u)
               PROVE  member' = member
    BY DEF vars
  <2>1. \A r \in Requests : task[r] = Idle
    BY DEF TInv, Starting
  <2>2. CASE StartStep
    BY <2>2 DEF StartStep, SeedGroups, SeedAdmin, SeedGrant, Crash, Seeded, TInv, Starting
  <2>3. ~PlainStep
    BY DEF PlainStep, CreateUser, Activate, AssignGroups, AddMembers, CreateGroup,
           RenameGroup, DeleteGroup, DeleteGroups
  <2>4. \A r \in Requests : ~CountStep(r) /\ ~Write(r)
    BY <2>1 DEF CountStep, DeleteUser, DeleteUsers, RemoveMembers, Begin, CountTotal,
                CountRemoving, Write, Idle
  <2> QED
    BY <2>2, <2>3, <2>4, NextSteps
<1> QED
  BY <1>1, TypeInit, TypeStep, PTL DEF Spec, RestartGrantsNobody

-----------------------------------------------------------------------------
(* One guarded request at a time leaves an administrator.                  *)

\* The assumptions of the run.
OneAtATime == ~RenameSystem /\ \A r, s \in Requests : r = s

\* The group named admin is there once the seeders were, is the only one of its name, and
\* nobody may delete it.
OneAdminGroup ==
    /\ server # "down" => \E g \in Groups : group[g].name = "admin"
    /\ \A g \in Groups : group[g].name = "admin" => group[g].system
    /\ \A g, h \in Groups : group[g].name = "admin" /\ group[h].name = "admin" => g = h

\* Until there is an active administrator the only account is that of the seeder.
Served ==
    \/ ActiveAdmins # {}
    \/ /\ server # "up"
       /\ \A u \in Users : user[u] = "unborn" \/ (user[u] = "active" /\ u = DefaultAdmin)

\* What a request under way has counted still stands, and the one about to write leaves an
\* administrator or another group's members alone.
Counted(r) ==
    /\ task[r].op = "deleteUser" => \E u \in Users : task[r].users = {u}
    /\ task[r].step = "removing" /\ task[r].op # "deleteUser" =>
          task[r].total <= Cardinality(ActiveAdmins)
    /\ task[r].step = "write" =>
          \/ ActiveAdmins \ task[r].users # {}
          \/ task[r].op \in Groups /\ group[task[r].op].name # "admin"

IInv ==
    /\ TInv
    /\ OneAdminGroup
    /\ Served
    /\ \A r \in Requests : Counted(r)

LEMMA AdminInit == Init => IInv
<1> SUFFICES ASSUME Init PROVE IInv
  OBVIOUS
<1>1. OneAdminGroup /\ Served /\ \A r \in Requests : Counted(r)
  BY DEF Init, OneAdminGroup, Served, Counted, Idle
<1> QED
  BY <1>1, TypeInit DEF IInv

LEMMA AdminCount == Cardinality(ActiveAdmins) \in Nat
  BY CountType, AdminsAreUsers, FS_CardinalityType

\* Active administrators stay where the admin group, the active accounts and the group's
\* members stay.
LEMMA Grows ==
  ASSUME \A g \in Groups : group[g].name = "admin" => group'[g].name = "admin",
         \A u \in Users : user[u] = "active" => user'[u] = "active",
         \A u \in Users, g \in Groups :
            <<u, g>> \in member /\ group[g].name = "admin" => <<u, g>> \in member'
  PROVE  /\ ActiveAdmins \subseteq ActiveAdmins'
         /\ Cardinality(ActiveAdmins) <= Cardinality(ActiveAdmins')
<1>1. ActiveAdmins \subseteq ActiveAdmins'
  BY DEF ActiveAdmins, NamedAdmin
<1>2. ActiveAdmins' \in SUBSET Users
  BY DEF ActiveAdmins
<1>3. IsFiniteSet(ActiveAdmins')
  BY <1>2, CountType
<1> QED
  BY <1>1, <1>3, FS_Subset

\* More administrators do no harm to what was counted.
LEMMA CountedGrows ==
  ASSUME NEW r \in Requests, Counted(r), TInv, task'[r] = task[r],
         ActiveAdmins \subseteq ActiveAdmins',
         Cardinality(ActiveAdmins) <= Cardinality(ActiveAdmins'),
         \A g \in Groups : group[g].name # "admin" => group'[g].name # "admin"
  PROVE  Counted(r)'
<1>1. task[r].total \in Int /\ Cardinality(ActiveAdmins) \in Int
  BY AdminCount, FS_CardinalityType DEF TInv, TypeOK, Tasks
<1>2. ActiveAdmins' \in SUBSET Users
  BY DEF ActiveAdmins
<1>3. Cardinality(ActiveAdmins') \in Int
  BY <1>2, CountType, FS_CardinalityType
<1> QED
  BY <1>1, <1>3 DEF Counted

LEMMA StartAdmin ==
  ASSUME IInv, StartStep
  PROVE  OneAdminGroup' /\ Served' /\ \A r \in Requests : Counted(r)'
<1>t. /\ user \in [Users -> UserStates] /\ group \in [Groups -> GroupRecords]
      /\ member \subseteq Rows /\ server \in {"down", "seeding", "granting", "up"}
      /\ Starting /\ OneAdminGroup /\ Served
  BY TypeParts DEF IInv, TInv
<1>c. \A r \in Requests : task'[r] = Idle
  BY <1>t DEF StartStep, SeedGroups, SeedAdmin, SeedGrant, Crash, Starting
<1>d. \A r \in Requests : Counted(r)'
  BY <1>c DEF Counted, Idle
<1>1. CASE SeedGroups
  <2>1. OneAdminGroup'
    BY <1>1, <1>t DEF SeedGroups, OneAdminGroup
  <2>2. \A g \in Groups : group[g].name = "admin" => group'[g].name = "admin"
    BY <1>1, <1>t DEF SeedGroups
  <2>3. ActiveAdmins \subseteq ActiveAdmins'
    BY <1>1, <2>2, Grows DEF SeedGroups
  <2>4. Served'
    BY <1>1, <1>t, <2>3 DEF SeedGroups, Served
  <2> QED
    BY <1>d, <2>1, <2>4
<1>2. CASE SeedAdmin
  <2>1. OneAdminGroup'
    BY <1>2, <1>t DEF SeedAdmin, OneAdminGroup
  <2>2. UNCHANGED group /\ server = "seeding"
    BY <1>2 DEF SeedAdmin
  <2>3. CASE Seeded
    <3>1. PICK u \in Users : NamedAdmin(u)
      BY <2>3 DEF Seeded
    <3>2. Exists(u)
      BY <1>t, <3>1 DEF NamedAdmin, Rows
    <3>3. ActiveAdmins # {}
      BY <1>t, <2>2, <3>1, <3>2 DEF Served, Exists, ActiveAdmins
    <3>4. ActiveAdmins' = ActiveAdmins
      BY <1>2, <2>3 DEF SeedAdmin, ActiveAdmins, NamedAdmin
    <3> QED
      BY <1>d, <2>1, <3>3, <3>4 DEF Served
  <2>4. CASE ~Seeded /\ Exists(DefaultAdmin)
    <3>1. ActiveAdmins = {}
      BY <2>4 DEF Seeded, ActiveAdmins
    <3>2. user[DefaultAdmin] = "active"
      BY <1>t, <2>4, <3>1 DEF Served, Exists
    <3>3. UNCHANGED user /\ Grant(DefaultAdmin)
      BY <1>2, <2>4 DEF SeedAdmin
    <3>4. PICK g \in Groups : group[g].name = "admin"
      BY <1>t, <2>2 DEF OneAdminGroup
    <3>5. DefaultAdmin \in ActiveAdmins'
      BY <2>2, <3>2, <3>3, <3>4 DEF Grant, ActiveAdmins, NamedAdmin
    <3> QED
      BY <1>d, <2>1, <3>5 DEF Served
  <2>5. CASE ~Seeded /\ ~Exists(DefaultAdmin)
    <3>1. ActiveAdmins = {}
      BY <2>5 DEF Seeded, ActiveAdmins
    <3>2. user' = [user EXCEPT ![DefaultAdmin] = "active"] /\ server' = "granting"
      BY <1>2, <2>5 DEF SeedAdmin
    <3>3. \A u \in Users : user'[u] = "unborn" \/ (user'[u] = "active" /\ u = DefaultAdmin)
      BY <1>t, <3>1, <3>2 DEF Served
    <3> QED
      BY <1>d, <2>1, <3>2, <3>3 DEF Served
  <2> QED
    BY <2>3, <2>4, <2>5
<1>3. CASE SeedGrant
  <2>1. UNCHANGED <<user, group>> /\ Grant(DefaultAdmin) /\ server = "granting"
    BY <1>3 DEF SeedGrant
  <2>2. OneAdminGroup'
    BY <1>3, <1>t DEF SeedGrant, OneAdminGroup
  <2>3. PICK g \in Groups : group[g].name = "admin"
    BY <1>t, <2>1 DEF OneAdminGroup
  <2>4. user[DefaultAdmin] = "active"
    BY <1>t, <2>1 DEF Starting
  <2>5. DefaultAdmin \in ActiveAdmins'
    BY <2>1, <2>3, <2>4 DEF Grant, ActiveAdmins, NamedAdmin
  <2> QED
    BY <1>d, <2>2, <2>5 DEF Served
<1>4. CASE Crash
  <2>1. UNCHANGED <<user, group, member>> /\ server' = "down"
    BY <1>4 DEF Crash
  <2>2. ActiveAdmins' = ActiveAdmins
    BY <2>1 DEF ActiveAdmins, NamedAdmin
  <2> QED
    BY <1>t, <1>d, <2>1, <2>2 DEF OneAdminGroup, Served
<1> QED
  BY <1>1, <1>2, <1>3, <1>4 DEF StartStep

\* A plain request takes nobody out of the admin group, which no one can delete or rename
\* and whose name is taken.
LEMMA PlainAdmin ==
  ASSUME IInv, OneAtATime, PlainStep
  PROVE  OneAdminGroup' /\ Served' /\ \A r \in Requests : Counted(r)'
<1>t. /\ user \in [Users -> UserStates] /\ group \in [Groups -> GroupRecords]
      /\ member \subseteq Rows /\ OneAdminGroup /\ Served
      /\ TInv
  BY TypeParts DEF IInv, TInv
<1>u. UNCHANGED <<server, task>> /\ server = "up"
  BY DEF PlainStep, CreateUser, Activate, AssignGroups, AddMembers, CreateGroup, RenameGroup,
         DeleteGroup, DeleteGroups
<1>a. PICK a \in Groups : group[a].name = "admin" /\ group[a].system
  BY <1>t, <1>u DEF OneAdminGroup
<1>b. \A g \in Groups : group[g].name = "admin" <=> g = a
  BY <1>t, <1>a DEF OneAdminGroup
\* It is enough that the admin group stays the only one, with its members.
<1>1. ASSUME \A g \in Groups : group'[g].name = "admin" <=> g = a, group'[a].system,
             \A u \in Users : user[u] = "active" => user'[u] = "active",
             \A u \in Users : <<u, a>> \in member => <<u, a>> \in member'
      PROVE  OneAdminGroup' /\ Served' /\ \A r \in Requests : Counted(r)'
  <2>1. OneAdminGroup'
    BY <1>1, <1>a DEF OneAdminGroup
  <2>2. /\ ActiveAdmins \subseteq ActiveAdmins'
        /\ Cardinality(ActiveAdmins) <= Cardinality(ActiveAdmins')
    BY <1>1, <1>b, Grows
  <2>3. Served'
    BY <1>t, <1>u, <2>2 DEF Served
  <2>4. ASSUME NEW r \in Requests PROVE Counted(r)'
    BY <1>1, <1>b, <1>t, <1>u, <2>2, CountedGrows DEF IInv
  <2> QED
    BY <2>1, <2>3, <2>4
<1>2. ASSUME NEW u \in Users, CreateUser(u) \/ Activate(u)
      PROVE  OneAdminGroup' /\ Served' /\ \A r \in Requests : Counted(r)'
  BY <1>1, <1>2, <1>a, <1>b, <1>t DEF CreateUser, Activate
<1>3. ASSUME NEW u \in Users, NEW groups \in SUBSET Groups, AssignGroups(u, groups)
      PROVE  OneAdminGroup' /\ Served' /\ \A r \in Requests : Counted(r)'
  BY <1>1, <1>3, <1>a, <1>b DEF AssignGroups, Join
<1>4. ASSUME NEW g \in Groups, NEW users \in SUBSET Users, AddMembers(g, users)
      PROVE  OneAdminGroup' /\ Served' /\ \A r \in Requests : Counted(r)'
  BY <1>1, <1>4, <1>a, <1>b DEF AddMembers, Join
<1>5. ASSUME NEW g \in Groups, NEW name \in Names, CreateGroup(g, name) \/ RenameGroup(g, name)
      PROVE  OneAdminGroup' /\ Served' /\ \A r \in Requests : Counted(r)'
  <2>1. g # a /\ name # "admin" /\ UNCHANGED <<user, member>>
    BY <1>5, <1>a, <1>b DEF CreateGroup, RenameGroup, OneAtATime, NameIsFree
  <2>2. /\ \A h \in Groups \ {g} : group'[h] = group[h]
        /\ group'[g].name = name
    BY <1>5, <1>t DEF CreateGroup, RenameGroup, GroupRecords
  <2> QED
    BY <1>1, <1>a, <1>b, <2>1, <2>2
<1>6. ASSUME NEW groups \in SUBSET Groups, Drop(groups), a \notin groups, UNCHANGED user
      PROVE  OneAdminGroup' /\ Served' /\ \A r \in Requests : Counted(r)'
  <2>1. \A g \in Groups : group'[g].name = (IF g \in groups THEN "deleted" ELSE group[g].name)
    BY <1>6, <1>t DEF Drop, GroupRecords
  <2>2. group'[a] = group[a]
    BY <1>6 DEF Drop
  <2>3. \A u \in Users : <<u, a>> \in member => <<u, a>> \in member'
    BY <1>6 DEF Drop
  <2> QED
    BY <1>1, <1>6, <1>a, <1>b, <2>1, <2>2, <2>3
<1>7. ASSUME NEW g \in Groups, DeleteGroup(g)
      PROVE  OneAdminGroup' /\ Served' /\ \A r \in Requests : Counted(r)'
  BY <1>6, <1>7, <1>a DEF DeleteGroup
<1>8. ASSUME NEW groups \in SUBSET Groups, DeleteGroups(groups)
      PROVE  OneAdminGroup' /\ Served' /\ \A r \in Requests : Counted(r)'
  <2>1. {g \in groups : GroupExists(g)} \in SUBSET Groups /\ GroupExists(a)
    BY <1>a DEF GroupExists, Names
  <2>2. a \notin {g \in groups : GroupExists(g)}
    BY <1>8, <1>a, <2>1 DEF DeleteGroups
  <2> QED
    BY <1>6, <1>8, <2>1, <2>2 DEF DeleteGroups
<1> QED
  BY <1>2, <1>3, <1>4, <1>5, <1>7, <1>8 DEF PlainStep

\* Of the administrators counted, those to be removed leave the rest.
LEMMA Remaining ==
  ASSUME NEW users \in SUBSET Users
  PROVE  /\ Cardinality(ActiveAdmins \cap users) \in Nat
         /\ Cardinality(ActiveAdmins) > Cardinality(ActiveAdmins \cap users)
            => ActiveAdmins \ users # {}
         /\ Cardinality(ActiveAdmins \cap users) = 0 => ActiveAdmins \ users = ActiveAdmins
<1>1. IsFiniteSet(ActiveAdmins \cap users)
  BY CountType, AdminsAreUsers
<1>2. Cardinality(ActiveAdmins \cap users) \in Nat
  BY <1>1, FS_CardinalityType
<1>3. ASSUME ActiveAdmins \ users = {}
      PROVE  Cardinality(ActiveAdmins) = Cardinality(ActiveAdmins \cap users)
  <2>1. ActiveAdmins \cap users = ActiveAdmins
    BY <1>3
  <2> QED
    BY <2>1
<1>4. Cardinality(ActiveAdmins \cap users) = 0 => ActiveAdmins \cap users = {}
  BY <1>1, FS_EmptySet
<1> QED
  BY <1>2, <1>3, <1>4

LEMMA CountAdmin ==
  ASSUME IInv, OneAtATime, NEW r \in Requests, CountStep(r)
  PROVE  OneAdminGroup' /\ Served' /\ Counted(r)'
<1>t. task \in [Requests -> Tasks] /\ OneAdminGroup /\ Served /\ Counted(r) /\ Starting
  BY TypeParts DEF IInv, TInv
<1>u. UNCHANGED <<user, group, member, server>>
  BY DEF CountStep, DeleteUser, DeleteUsers, RemoveMembers, CountTotal, CountRemoving, Begin
<1>a. ActiveAdmins' = ActiveAdmins
  BY <1>u DEF ActiveAdmins, NamedAdmin
<1>o. OneAdminGroup' /\ Served'
  BY <1>t, <1>u, <1>a DEF OneAdminGroup, Served
<1>n. Cardinality(ActiveAdmins) \in Nat
  BY AdminCount
<1>e. End(r) => Counted(r)'
  BY <1>t DEF End, Counted, Idle
<1>d. "deleteUser" \notin Groups /\ "deleteUsers" \notin Groups
  BY DEF Deletions
<1>1. CASE DeleteUser(r)
  <2>1. PICK u \in Users : Begin(r, "deleteUser", {u}, "removing")
    BY <1>1 DEF DeleteUser
  <2>2. task'[r] = [op |-> "deleteUser", step |-> "removing", users |-> {u}, total |-> 0]
    BY <2>1, <1>t DEF Begin
  <2> QED
    BY <1>o, <2>2 DEF Counted
<1>2. CASE DeleteUsers(r)
  <2>1. PICK users \in SUBSET Users : Begin(r, "deleteUsers", users, "total")
    BY <1>2 DEF DeleteUsers
  <2>2. task'[r] = [op |-> "deleteUsers", step |-> "total", users |-> users, total |-> 0]
    BY <2>1, <1>t DEF Begin
  <2> QED
    BY <1>o, <2>2 DEF Counted
<1>3. CASE RemoveMembers(r)
  <2>1. PICK g \in Groups, users \in SUBSET Users :
          IF Guarded(g) THEN Begin(r, g, users, "total") ELSE Begin(r, g, users, "write")
    BY <1>3 DEF RemoveMembers
  <2>2. ~Guarded(g) => group[g].name # "admin"
    BY <1>t DEF Guarded, OneAdminGroup
  <2>3. /\ task'[r].op = g
        /\ task'[r].step = (IF Guarded(g) THEN "total" ELSE "write")
    BY <2>1, <1>t DEF Begin
  <2> QED
    BY <1>o, <1>u, <1>d, <2>2, <2>3 DEF Counted
<1>4. CASE CountTotal(r)
  <2>1. CASE task[r].op = "deleteUser"
    <3>1. ASSUME ~LastUser(Cardinality(ActiveAdmins)), GoTo(r, "write") PROVE Counted(r)'
      <4>1. PICK u \in Users : task[r].users = {u}
        BY <1>t, <2>1 DEF Counted
      <4>2. Cardinality(ActiveAdmins) > 1
        BY <1>n, <3>1 DEF LastUser
      <4>3. Cardinality({u}) = 1
        BY FS_Singleton
      <4>4. ActiveAdmins \ {u} # {}
        <5>1. IsFiniteSet({u}) /\ (ActiveAdmins \subseteq {u} =>
                Cardinality(ActiveAdmins) <= Cardinality({u}))
          BY FS_Singleton, FS_Subset
        <5> QED
          BY <1>n, <4>2, <4>3, <5>1
      <4>5. task'[r].users = {u} /\ task'[r].step = "write" /\ task'[r].op = "deleteUser"
        BY <1>t, <2>1, <3>1, <4>1 DEF GoTo, Tasks
      <4> QED
        BY <1>a, <4>4, <4>5 DEF Counted
    <3> QED
      BY <1>4, <1>e, <1>o, <2>1, <3>1 DEF CountTotal
  <2>2. CASE task[r].op # "deleteUser"
    <3>1. task'[r].step = "removing" /\ task'[r].op = task[r].op
          /\ task'[r].total = Cardinality(ActiveAdmins)
      BY <1>4, <1>t, <2>2 DEF CountTotal, Tasks
    <3> QED
      BY <1>a, <1>n, <1>o, <2>2, <3>1 DEF Counted
  <2> QED
    BY <2>1, <2>2
<1>5. CASE CountRemoving(r)
  <2> DEFINE removing == Cardinality(ActiveAdmins \cap task[r].users)
  <2>s. task[r].users \in SUBSET Users /\ task[r].total \in Nat
    BY <1>t, FS_CardinalityType DEF Tasks
  <2>n. server = "up" /\ ActiveAdmins # {}
    BY <1>5, <1>t DEF CountRemoving, Starting, Idle, Served
  <2>r. /\ removing \in Nat
        /\ Cardinality(ActiveAdmins) > removing => ActiveAdmins \ task[r].users # {}
        /\ removing = 0 => ActiveAdmins \ task[r].users = ActiveAdmins
    BY <2>s, Remaining
  <2> HIDE DEF removing
  <2>1. ASSUME GoTo(r, "write"), ActiveAdmins \ task[r].users # {} PROVE Counted(r)'
    <3>1. task'[r].step = "write" /\ task'[r].users = task[r].users /\ task'[r].op = task[r].op
      BY <1>t, <2>1 DEF GoTo, Tasks
    <3> QED
      BY <1>a, <1>t, <2>1, <3>1 DEF Counted
  <2>2. CASE task[r].op = "deleteUser"
    <3>1. GoTo(r, IF removing > 0 THEN "total" ELSE "write")
      BY <1>5, <2>2 DEF CountRemoving, removing
    <3>2. CASE removing > 0
      <4>1. task'[r].step = "total" /\ task'[r].users = task[r].users /\ task'[r].op = task[r].op
        BY <1>t, <3>1, <3>2 DEF GoTo, Tasks
      <4> QED
        BY <1>o, <1>t, <4>1 DEF Counted
    <3>3. CASE ~(removing > 0)
      <4>1. ActiveAdmins \ task[r].users # {}
        BY <2>n, <2>r, <3>3
      <4>2. GoTo(r, "write")
        BY <3>1, <3>3
      <4> QED
        BY <1>o, <2>1, <4>1, <4>2
    <3> QED
      BY <3>2, <3>3
  <2>3. CASE task[r].op # "deleteUser"
    <3>1. IF NoneLeft(task[r].op, task[r].total, removing) THEN End(r) ELSE GoTo(r, "write")
      BY <1>5, <2>3 DEF CountRemoving, removing
    <3>2. task[r].total <= Cardinality(ActiveAdmins)
      BY <1>5, <1>t, <2>3 DEF CountRemoving, Counted
    <3>3. ASSUME ~NoneLeft(task[r].op, task[r].total, removing)
          PROVE  ActiveAdmins \ task[r].users # {}
      <4>1. removing = 0 \/ Cardinality(ActiveAdmins) > removing
        BY <1>n, <2>s, <2>r, <3>2, <3>3 DEF NoneLeft
      <4> QED
        BY <2>n, <2>r, <4>1
    <3> QED
      BY <1>e, <1>o, <2>1, <3>1, <3>3
  <2> QED
    BY <2>2, <2>3
<1> QED
  BY <1>1, <1>2, <1>3, <1>4, <1>5 DEF CountStep

LEMMA WriteAdmin ==
  ASSUME IInv, OneAtATime, NEW r \in Requests, Write(r)
  PROVE  OneAdminGroup' /\ Served' /\ Counted(r)'
<1>t. /\ user \in [Users -> UserStates] /\ member \subseteq Rows
      /\ task \in [Requests -> Tasks] /\ OneAdminGroup /\ Served /\ Counted(r) /\ Starting
  BY TypeParts DEF IInv, TInv
<1>u. UNCHANGED <<group, server>> /\ server = "up" /\ ActiveAdmins # {}
  BY <1>t DEF Write, Starting, Idle, Served
<1>o. OneAdminGroup'
  BY <1>t, <1>u DEF OneAdminGroup
<1>e. Counted(r)'
  BY <1>t DEF Write, End, Counted, Idle
<1>1. CASE task[r].op \in Groups /\ group[task[r].op].name # "admin"
  <2>1. UNCHANGED user /\ member' = member \ (task[r].users \X {task[r].op})
    BY <1>1 DEF Write, Leave
  <2>2. ActiveAdmins' = ActiveAdmins
    BY <1>1, <1>u, <2>1 DEF ActiveAdmins, NamedAdmin
  <2> QED
    BY <1>o, <1>e, <1>u, <2>2 DEF Served
<1>2. CASE ActiveAdmins \ task[r].users # {}
  <2>1. PICK u \in ActiveAdmins : u \notin task[r].users
    BY <1>2
  <2>2. u \in Users /\ user[u] = "active"
        /\ \E g \in Groups : group[g].name = "admin" /\ <<u, g>> \in member
    BY DEF ActiveAdmins, NamedAdmin
  <2>3. user'[u] = "active"
    BY <2>1, <2>2 DEF Write
  <2>4. \A g \in Groups : <<u, g>> \in member => <<u, g>> \in member'
    BY <2>1 DEF Write, Leave, KeptWithout
  <2>5. u \in ActiveAdmins'
    BY <1>u, <2>2, <2>3, <2>4 DEF ActiveAdmins, NamedAdmin
  <2> QED
    BY <1>o, <1>e, <2>5 DEF Served
<1> QED
  BY <1>1, <1>2, <1>t DEF Write, Counted

LEMMA AdminStep ==
  ASSUME OneAtATime, IInv, [Next]_vars
  PROVE  IInv'
<1>1. TInv'
  BY TypeStep DEF IInv
<1>2. CASE UNCHANGED vars
  <2>1. ActiveAdmins' = ActiveAdmins
    BY <1>2 DEF vars, ActiveAdmins, NamedAdmin
  <2> QED
    BY <1>1, <1>2, <2>1 DEF vars, IInv, OneAdminGroup, Served, Counted
<1>3. CASE StartStep
  BY <1>1, <1>3, StartAdmin DEF IInv
<1>4. CASE PlainStep
  BY <1>1, <1>4, PlainAdmin DEF IInv
<1>5. ASSUME NEW r \in Requests, CountStep(r) \/ Write(r) PROVE IInv'
  <2>1. OneAdminGroup' /\ Served' /\ Counted(r)'
    BY <1>5, CountAdmin, WriteAdmin
  <2>2. \A s \in Requests : s = r
    BY DEF OneAtATime
  <2>3. \A s \in Requests : Counted(s)'
    BY <2>1, <2>2
  <2> QED
    BY <1>1, <2>1, <2>3 DEF IInv
<1> QED
  BY <1>2, <1>3, <1>4, <1>5, NextSteps

\* The inductive invariant: one admin group that stays, and counts that still stand.
THEOREM Inductive == ASSUME OneAtATime PROVE Spec => []IInv
<1>1. IInv /\ [Next]_vars => IInv'
  BY AdminStep
<1> QED
  BY <1>1, AdminInit, PTL DEF Spec

\* With one guarded request at a time, and system groups keeping their names, no sequence of
\* requests, crashes and restarts leaves the listening server without an active administrator.
THEOREM AdminStays == ASSUME OneAtATime PROVE Spec => []AdminRemains
<1>1. IInv => AdminRemains
  BY DEF IInv, Served, AdminRemains
<1> QED
  BY <1>1, Inductive, PTL

=============================================================================
