----------------------------- MODULE GroupAccess -----------------------------
(***************************************************************************)
(* Accounts, group memberships and the groups themselves, as the pages     *)
(* Settings > Users and Groups & Labels change them.  Every request is a   *)
(* series of statements on the database with no transaction around them:   *)
(* it reads, decides, writes whole rows, and another request or the end of *)
(* the process may come between any two.                                   *)
(***************************************************************************)
EXTENDS Naturals

CONSTANTS
    Users, Groups,
    Absent,        \* where there is no account or no group
    Handlers,      \* requests under way at once
    RoleSets,      \* the sets of group roles that the forms submit
    Selectors,     \* the selectors that the forms submit: label -> value
    Collectors,    \* the ownership labels that a collector may have
    MaxRequests,   \* bound on requests
    MaxFaults      \* bound on restarts and failed statements

GroupRoles == {"group_owner", "configuration_editor", "deployment_approver",
               "deployment_operator", "auditor", "viewer"}
Roles      == {"admin", "group_owner", "operator", "viewer"}

Account == [role : Roles, enabled : BOOLEAN, groups : SUBSET Groups]
Row     == [owners : SUBSET Users, enabled : BOOLEAN, selector : Selectors]

ASSUME GroupAccessAssumption ==
    /\ RoleSets \subseteq SUBSET GroupRoles
    /\ Absent \notin Account /\ Absent \notin Row /\ Absent \notin Selectors
    /\ MaxRequests \in Nat /\ MaxFaults \in Nat

\* The roles of a user in each of their groups.
Memberships == UNION {[G -> SUBSET GroupRoles] : G \in SUBSET Groups}

VARIABLES
    users,      \* the accounts; groups is the column group_ids
    members,    \* the tables group_memberships and group_membership_roles
    groups,     \* the rows of the groups
    proc,       \* the locals of each request
    requests, faults,
    halfMade,   \* history: the accounts whose creation failed half way
    crossed     \* history: the pairs of groups that were not compared as they are

history == <<halfMade, crossed>>
vars == <<users, members, groups, proc, requests, faults, history>>

\* at: the next statement; user, role and next: the account, its role and the
\* memberships to write; new: whether the request creates the account; group
\* and row: the group and the row to write; rows: the groups as they were read;
\* selected: the groups the user is to own.
Idle == [at |-> "idle"]
Places == {"idle", "role", "replace", "update_role", "set_enabled", "memberships",
           "list", "write", "overlap", "save", "save_owners"}

Exists(u) == users[u] # Absent
IsAdmin(u) == Exists(u) /\ users[u].role = "admin" /\ users[u].enabled

Goto(h, s) == proc' = [proc EXCEPT ![h] = s]
Return(h) == Goto(h, Idle)

(* A page's administrator starts a request.                                  *)
Request(h) ==
    /\ proc[h].at = "idle" /\ requests < MaxRequests
    /\ requests' = requests + 1

LegacyRole(S) ==
    IF S \cap {"group_owner", "deployment_approver"} # {} THEN "group_owner"
    ELSE IF S \cap {"configuration_editor", "deployment_operator"} # {} THEN "operator"
    ELSE "viewer"
AllRoles(m) == UNION {m[g] : g \in DOMAIN m}

---------------------------------------------------------------------------
(* Accounts.                                                                 *)

With(m, g, S)  == [x \in DOMAIN m \cup {g} |-> IF x = g THEN S ELSE m[x]]
Without(m, g) == [x \in DOMAIN m \ {g} |-> m[x]]

NewAdmin == [role |-> "admin", enabled |-> TRUE, groups |-> {}]
Member(G, role) == [role |-> role, enabled |-> TRUE, groups |-> G]

(* create: the account is inserted with its group_ids, the memberships come  *)
(* after.                                                                    *)
CreateUser(h, u, G, S) ==
    /\ Request(h) /\ ~Exists(u) /\ \E a \in Users : IsAdmin(a)
    /\ G # {} /\ S # {} /\ \A g \in G : groups[g] # Absent
    /\ users' = [users EXCEPT ![u] = Member(G, LegacyRole(S))]
    /\ Goto(h, [at |-> "replace", user |-> u, role |-> LegacyRole(S),
                next |-> [g \in G |-> S], new |-> TRUE])
    /\ UNCHANGED <<members, groups, faults, history>>

CreateAdmin(h, u) ==
    /\ Request(h) /\ ~Exists(u) /\ \E a \in Users : IsAdmin(a)
    /\ users' = [users EXCEPT ![u] = NewAdmin]
    /\ Goto(h, [at |-> "replace", user |-> u, role |-> "admin", next |-> << >>, new |-> TRUE])
    /\ UNCHANGED <<members, groups, faults, history>>

(* membership: one group of the user is set or removed.                      *)
SetMembership(h, u, g, S) ==
    /\ Request(h) /\ Exists(u) /\ groups[g] # Absent /\ S # {}
    /\ \E a \in Users : IsAdmin(a)
    /\ Goto(h, [at |-> "role", user |-> u, next |-> With(members[u], g, S)])
    /\ UNCHANGED <<users, members, groups, faults, history>>

RemoveMembership(h, u, g) ==
    /\ Request(h) /\ Exists(u) /\ groups[g] # Absent
    /\ \E a \in Users : IsAdmin(a)
    /\ Goto(h, [at |-> "role", user |-> u, next |-> Without(members[u], g)])
    /\ UNCHANGED <<users, members, groups, faults, history>>

ReadRole(h) ==
    /\ proc[h].at = "role"
    /\ LET u == proc[h].user
           m == proc[h].next
       IN IF users[u].role # "admin" /\ DOMAIN m = {}
          THEN Return(h)
          ELSE Goto(h, [at |-> "replace", user |-> u, role |-> users[u].role, next |-> m,
                        new |-> FALSE])
    /\ UNCHANGED <<users, members, groups, requests, faults, history>>

(* groups: every membership of the user is replaced.                         *)
SetGroups(h, u, G, S) ==
    /\ Request(h) /\ Exists(u) /\ \A g \in G : groups[g] # Absent
    /\ \E a \in Users : IsAdmin(a)
    /\ users[u].role = "admin" \/ (G # {} /\ S # {})
    /\ Goto(h, [at |-> "replace", user |-> u, role |-> users[u].role,
                next |-> [g \in G |-> S], new |-> FALSE])
    /\ UNCHANGED <<users, members, groups, faults, history>>

\* Mutant: the column keeps what it was.
KeepGroupIDs(u, m) == users
SetGroupIDs(u, m)  == [users EXCEPT ![u].groups = DOMAIN m]

(* ReplaceMemberships is one transaction: both tables and the column.  What  *)
(* the role becomes follows from the role read before.                       *)
Replace(h) ==
    /\ proc[h].at = "replace"
    /\ LET u == proc[h].user
           m == proc[h].next
           role == IF proc[h].role = "admin" THEN "admin" ELSE LegacyRole(AllRoles(m))
       IN /\ members' = [members EXCEPT ![u] = m]
          /\ users' = SetGroupIDs(u, m)
          /\ Goto(h, [at |-> IF role = proc[h].role THEN "memberships" ELSE "update_role",
                      user |-> u, role |-> role])
          /\ halfMade' = halfMade \ {u}
    /\ UNCHANGED <<groups, requests, faults, crossed>>

(* role: the actor may not take the role from themselves, and a scoped role  *)
(* needs a group.                                                            *)
SetRole(h, u, r) ==
    /\ Request(h) /\ Exists(u) /\ users[u].role # r
    /\ \E a \in Users : IsAdmin(a) /\ (a # u \/ r = "admin")
    /\ r = "admin" \/ users[u].groups # {}
    /\ Goto(h, [at |-> "update_role", user |-> u, role |-> r])
    /\ UNCHANGED <<users, members, groups, faults, history>>

\* Mutant: one administrator is enough, be it the one who goes.
SomeAdmin(u) == \E a \in Users : IsAdmin(a)
AnotherAdmin(u) == \E a \in Users : IsAdmin(a) /\ a # u

(* UpdateRole counts and writes in one transaction.                          *)
UpdateRole(h) ==
    /\ proc[h].at = "update_role"
    /\ LET u == proc[h].user
           r == proc[h].role
       IN IF IsAdmin(u) /\ r # "admin" /\ ~AnotherAdmin(u)
          THEN Return(h) /\ UNCHANGED users
          ELSE /\ users' = [users EXCEPT ![u].role = r]
               /\ Goto(h, [at |-> "memberships", user |-> u, role |-> r])
    /\ UNCHANGED <<members, groups, requests, faults, history>>

(* status: nobody disables themselves; SetEnabled counts and writes in one    *)
(* transaction.                                                              *)
SetStatus(h, u, e) ==
    /\ Request(h) /\ Exists(u)
    /\ \E a \in Users : IsAdmin(a) /\ (a # u \/ e)
    /\ Goto(h, [at |-> "set_enabled", user |-> u, enabled |-> e])
    /\ UNCHANGED <<users, members, groups, faults, history>>

SetEnabled(h) ==
    /\ proc[h].at = "set_enabled"
    /\ LET u == proc[h].user
           e == proc[h].enabled
       IN users' = IF IsAdmin(u) /\ ~e /\ ~AnotherAdmin(u)
                   THEN users
                   ELSE [users EXCEPT ![u].enabled = e]
    /\ Return(h)
    /\ UNCHANGED <<members, groups, requests, faults, history>>

---------------------------------------------------------------------------
(* syncGroupOwnership: the owners in the rows of the groups follow the       *)
(* memberships of one user.                                                  *)

OwnedBy(u) == {g \in DOMAIN members[u] : "group_owner" \in members[u][g]}
Selected(u, role) ==
    IF DOMAIN members[u] = {} /\ role = "group_owner" THEN users[u].groups ELSE OwnedBy(u)

ReadMemberships(h) ==
    /\ proc[h].at = "memberships"
    /\ Goto(h, [at |-> "list", user |-> proc[h].user,
                selected |-> Selected(proc[h].user, proc[h].role)])
    /\ UNCHANGED <<users, members, groups, requests, faults, history>>

OwnersWith(O, u, owns) == IF owns THEN O \cup {u} ELSE O \ {u}

Misowned(rows, u, S) ==
    {g \in Groups : rows[g] # Absent /\ OwnersWith(rows[g].owners, u, g \in S) # rows[g].owners}

ListGroups(h) ==
    /\ proc[h].at = "list"
    /\ LET u == proc[h].user
           S == proc[h].selected
       IN IF Misowned(groups, u, S) = {}
          THEN Return(h)
          ELSE Goto(h, [at |-> "write", user |-> u, selected |-> S, rows |-> groups,
                        todo |-> Misowned(groups, u, S)])
    /\ UNCHANGED <<users, members, groups, requests, faults, history>>

\* Where an active group reaches; two groups share collectors only when both
\* reach some.
Reach(row) == IF row = Absent \/ ~row.enabled THEN Absent ELSE row.selector

\* The pairs of groups that nobody compared, once the row of g is written back
\* unasked: all of its own when the row takes back what g reaches.
Pairs(g) == {{g, x} : x \in Groups \ {g}}
Restored(g, row) ==
    IF Reach(groups[g]) = Reach(row) THEN crossed ELSE crossed \cup Pairs(g)

(* The whole row is written back as it was read.                             *)
WriteOwners(h, g) ==
    /\ proc[h].at = "write" /\ g \in proc[h].todo
    /\ LET u == proc[h].user
           row == proc[h].rows[g]
           todo == proc[h].todo \ {g}
       IN /\ groups' = [groups EXCEPT
                 ![g] = [row EXCEPT !.owners = OwnersWith(row.owners, u, g \in proc[h].selected)]]
          /\ crossed' = Restored(g, row)
          /\ IF todo = {} THEN Return(h) ELSE Goto(h, [proc[h] EXCEPT !.todo = todo])
    /\ UNCHANGED <<users, members, requests, faults, halfMade>>

---------------------------------------------------------------------------
(* Groups.                                                                   *)

(* The page of an administrator reads the row, changes a part of it and      *)
(* writes it whole.                                                          *)
Edit(h, at, g, row) ==
    /\ Request(h) /\ \E a \in Users : IsAdmin(a)
    /\ Goto(h, [at |-> at, group |-> g, row |-> row, rows |-> groups])
    /\ UNCHANGED <<users, members, groups, faults, history>>

CreateGroup(h, g, sel) ==
    /\ groups[g] = Absent
    /\ Edit(h, "overlap", g, [owners |-> {}, enabled |-> TRUE, selector |-> sel])

UpdateSelector(h, g, sel) ==
    /\ groups[g] # Absent
    /\ Edit(h, "overlap", g, [groups[g] EXCEPT !.selector = sel])

Enable(h, g, e) ==
    /\ groups[g] # Absent
    /\ Edit(h, "overlap", g, [groups[g] EXCEPT !.enabled = e])

SetOwners(h, g, O) ==
    /\ groups[g] # Absent
    /\ \A u \in O : Exists(u) /\ users[u].enabled /\ users[u].role = "group_owner"
    /\ Edit(h, "save_owners", g, [groups[g] EXCEPT !.owners = O])

\* Mutant: two selectors overlap only when they are the same.
SameSelector(s, t) == s = t
SelectorsOverlap(s, t) ==
    /\ DOMAIN s # {} /\ DOMAIN t # {}
    /\ \A k \in DOMAIN s \cap DOMAIN t : s[k] = t[k]

Overlaps(g, row) ==
    \E x \in Groups \ {g} :
        /\ groups[x] # Absent /\ groups[x].enabled
        /\ SelectorsOverlap(row.selector, groups[x].selector)

(* validateGroupOverlap: a disabled group is not looked at.                  *)
CheckOverlap(h) ==
    /\ proc[h].at = "overlap"
    /\ IF proc[h].row.enabled /\ Overlaps(proc[h].group, proc[h].row)
       THEN Return(h)
       ELSE LET g == proc[h].group
            IN Goto(h, [proc[h] EXCEPT !.at = "save",
                                       !.rows = [groups EXCEPT ![g] = proc[h].rows[g]]])
    /\ UNCHANGED <<users, members, groups, requests, faults, history>>

\* The same once g is written after a comparison with the groups of before: the
\* groups that reach elsewhere by now.
Compared(g, before) ==
    (crossed \ Pairs(g)) \cup
        {{g, x} : x \in {y \in Groups \ {g} : Reach(groups[y]) # Reach(before[y])}}

(* Create conflicts when the group is there already.                         *)
Save(h) ==
    /\ proc[h].at \in {"save", "save_owners"}
    /\ LET g == proc[h].group
           row == proc[h].row
           before == proc[h].rows
       IN IF before[g] = Absent /\ groups[g] # Absent
          THEN UNCHANGED <<groups, crossed>>
          ELSE /\ groups' = [groups EXCEPT ![g] = row]
               /\ crossed' = IF proc[h].at = "save" THEN Compared(g, before)
                                                    ELSE Restored(g, row)
    /\ Return(h)
    /\ UNCHANGED <<users, members, requests, faults, halfMade>>

---------------------------------------------------------------------------
(* The next statement of a request fails: the store is busy, or the browser  *)
(* is gone and the request cancelled.  The request returns and leaves what   *)
(* it wrote; only syncGroupOwnership goes on without the memberships that it *)
(* could not read.                                                           *)
Fails(h) ==
    /\ proc[h].at # "idle"
    /\ faults < MaxFaults /\ faults' = faults + 1
    /\ \/ Return(h)
       \/ /\ proc[h].at = "memberships"
          /\ LET u == proc[h].user
             IN Goto(h, [at |-> "list", user |-> u,
                         selected |-> IF proc[h].role = "group_owner" THEN users[u].groups ELSE {}])
    /\ halfMade' = IF proc[h].at = "replace" /\ proc[h].new
                   THEN halfMade \cup {proc[h].user} ELSE halfMade
    /\ UNCHANGED <<users, members, groups, requests, crossed>>

(* The process ends, and the next one migrates what the last one left: a     *)
(* membership for every group of the column, and in every membership the     *)
(* group roles that stand for the user's role.                               *)

GroupRolesOf(role) ==
    CASE role = "group_owner" -> {"group_owner"}
      [] role = "operator"    -> {"configuration_editor", "deployment_operator"}
      [] role = "viewer"      -> {"viewer"}
      [] role = "admin"       -> {}

\* Mutant: the memberships are not made from the column.
MigrateRoles(u) ==
    [g \in DOMAIN members[u] |-> members[u][g] \cup GroupRolesOf(users[u].role)]
Migrate(u) ==
    [g \in DOMAIN members[u] \cup users[u].groups |->
        (IF g \in DOMAIN members[u] THEN members[u][g] ELSE {}) \cup GroupRolesOf(users[u].role)]

Restart ==
    /\ faults < MaxFaults /\ faults' = faults + 1
    /\ proc' = [h \in Handlers |-> Idle]
    /\ members' = [u \in Users |-> IF Exists(u) THEN Migrate(u) ELSE members[u]]
    /\ halfMade' = {}
    /\ UNCHANGED <<users, groups, requests, crossed>>

---------------------------------------------------------------------------
\* The part of MatchesIdentity that a selector decides: a collector that a
\* dynamic rule takes into a group may be in another group as well.
SelectorMatches(labels, s) ==
    DOMAIN s # {} /\ \A k \in DOMAIN s : k \in DOMAIN labels /\ labels[k] = s[k]

Aligned ==
    \A u \in Users, g \in Groups :
        groups[g] # Absent => (u \in groups[g].owners <=> g \in OwnedBy(u))

Exclusive(g, x) ==
    Reach(groups[g]) # Absent /\ Reach(groups[x]) # Absent =>
        \A c \in Collectors :
            ~(SelectorMatches(c, groups[g].selector) /\ SelectorMatches(c, groups[x].selector))

(* FleetAMP is set up: there are administrators, accounts that were created, *)
(* and groups, each made by a request that nothing disturbed.  A group that  *)
(* was disabled since is one without owners: the others are reached from     *)
(* these by one request.                                                     *)
Init ==
    /\ members \in [Users -> UNION {[G -> RoleSets \ {{}}] : G \in SUBSET Groups}]
    /\ \E A \in (SUBSET Users) \ {{}} :
          /\ \A u \in A : members[u] = << >>
          /\ users = [u \in Users |->
                IF u \in A THEN NewAdmin
                ELSE IF members[u] = << >> THEN Absent
                ELSE Member(DOMAIN members[u], LegacyRole(AllRoles(members[u])))]
    /\ groups \in [Groups -> {Absent} \cup {r \in Row : r.enabled \/ r.owners = {}}]
    /\ \A u \in Users : \A g \in DOMAIN members[u] : groups[g] # Absent
    /\ Aligned /\ \A g, x \in Groups : g # x => Exclusive(g, x)
    /\ proc = [h \in Handlers |-> Idle]
    /\ requests = 0 /\ faults = 0 /\ halfMade = {} /\ crossed = {}

UserRequest(h) ==
    \E u \in Users :
        \/ \E G \in SUBSET Groups, S \in RoleSets : CreateUser(h, u, G, S) \/ SetGroups(h, u, G, S)
        \/ CreateAdmin(h, u)
        \/ \E g \in Groups, S \in RoleSets : SetMembership(h, u, g, S)
        \/ \E g \in Groups : RemoveMembership(h, u, g)
        \/ \E r \in Roles : SetRole(h, u, r)
        \/ \E e \in BOOLEAN : SetStatus(h, u, e)

GroupRequest(h) ==
    \E g \in Groups :
        \/ \E s \in Selectors : CreateGroup(h, g, s) \/ UpdateSelector(h, g, s)
        \/ \E e \in BOOLEAN : Enable(h, g, e)
        \/ \E O \in SUBSET Users : SetOwners(h, g, O)

Step(h) ==
    \/ ReadRole(h) \/ Replace(h) \/ UpdateRole(h) \/ SetEnabled(h)
    \/ ReadMemberships(h) \/ ListGroups(h) \/ (\E g \in Groups : WriteOwners(h, g))
    \/ CheckOverlap(h) \/ Save(h) \/ Fails(h)

Next ==
    \/ \E h \in Handlers : UserRequest(h) \/ GroupRequest(h) \/ Step(h)
    \/ Restart

Spec == Init /\ [][Next]_vars

---------------------------------------------------------------------------
(* The states the program can be in.                                         *)
TypeOK ==
    /\ users \in [Users -> Account \cup {Absent}]
    /\ members \in [Users -> Memberships]
    /\ groups \in [Groups -> Row \cup {Absent}]
    /\ \A h \in Handlers : proc[h].at \in Places
    /\ requests \in 0 .. MaxRequests /\ faults \in 0 .. MaxFaults
    /\ halfMade \subseteq Users /\ crossed \subseteq SUBSET Groups

(* Somebody can always administer FleetAMP: administrators who disable and   *)
(* demote one another at the same time, also by a membership whose request   *)
(* read a role that has changed since, leave one of them.                    *)
AdministratorRemains == \E u \in Users : IsAdmin(u)

(* The membership tables never say more of a user than the column group_ids, *)
(* and they say the same, whatever requests change them at once: less they   *)
(* say only while the account is being created, or when its creation failed  *)
(* half way.  What is left then, also by a process that ended in between, is *)
(* repaired by the next process or by the next change of the user's groups.  *)
Creating(u) ==
    \E h \in Handlers : proc[h].at = "replace" /\ proc[h].user = u /\ proc[h].new
Unfinished(u) == Creating(u) \/ u \in halfMade
GroupIDsMatch ==
    \A u \in Users :
        Exists(u) => /\ DOMAIN members[u] \subseteq users[u].groups
                     /\ users[u].groups = DOMAIN members[u] \/ Unfinished(u)

(* The selectors of two active groups share no collector unless these two    *)
(* crossed: one came to reach other labels between the comparison and the    *)
(* write of the other, or its row was taken back by a write that compares    *)
(* nothing.  That race is real: the two stay active together until one of    *)
(* them is saved again.  For every other pair the comparison misses no label *)
(* set that satisfies both selectors, every way to activate a group asks it, *)
(* and races of other groups do not matter.                                  *)
OverlapNeedsRace ==
    \A g, x \in Groups : g # x /\ {g, x} \notin crossed => Exclusive(g, x)
=============================================================================
