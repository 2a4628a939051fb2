-------------------------- MODULE GroupAccessProofs --------------------------
(***************************************************************************)
(* What holds of accounts, memberships and groups for any number of users, *)
(* groups and requests under way: an administrator remains, the column     *)
(* group_ids says what the membership tables say, and the selectors of two *)
(* active groups share collectors only when these two crossed.             *)
(***************************************************************************)
EXTENDS GroupAccess, TLAPS

USE GroupAccessAssumption

---------------------------------------------------------------------------
(* The invariant.                                                            *)

UserSteps == {"role", "replace", "update_role", "set_enabled", "memberships", "list", "write"}
GroupSteps == {"overlap", "save", "save_owners"}
Rows == [Groups -> Row \cup {Absent}]

\* What a request carries from one of its statements to the next, beside the
\* accounts of table U.
Local(U, p) ==
    /\ p.at \in Places
    /\ p.at \in UserSteps => p.user \in Users /\ U[p.user] \in Account
    /\ p.at \in {"role", "replace"} => p.next \in Memberships
    /\ p.at \in {"replace", "update_role", "memberships"} => p.role \in Roles
    /\ p.at = "replace" => p.new \in BOOLEAN
    /\ p.at = "set_enabled" => p.enabled \in BOOLEAN
    /\ p.at = "write" => /\ p.rows \in Rows /\ p.todo \subseteq Groups
                         /\ \A g \in p.todo : p.rows[g] \in Row
    /\ p.at \in GroupSteps => p.group \in Groups /\ p.row \in Row /\ p.rows \in Rows

\* What the overlap check leaves behind: no other active group of those that
\* were read overlaps; and what a change of owners writes: a row that reaches
\* where the row read did.
Apart(rows, g, row) ==
    \A x \in Groups \ {g} :
        Reach(rows[x]) # Absent => ~SelectorsOverlap(row.selector, rows[x].selector)

Cleared(p) ==
    p.at = "save" /\ p.row.enabled => Apart(p.rows, p.group, p.row)

\* Nobody has memberships without an account.
Columns == \A u \in Users : ~Exists(u) => DOMAIN members[u] = {}

Histories == halfMade \subseteq Users /\ crossed \subseteq SUBSET Groups

Typed ==
    /\ users \in [Users -> Account \cup {Absent}]
    /\ members \in [Users -> Memberships]
    /\ groups \in Rows
    /\ proc = [h \in Handlers |-> proc[h]]
    /\ \A h \in Handlers : Local(users, proc[h])
    /\ requests \in 0 .. MaxRequests /\ faults \in 0 .. MaxFaults
    /\ Histories

---------------------------------------------------------------------------
(* Lemmas about the definitions.                                             *)

LEMMA MembershipsDomain ==
    ASSUME NEW m \in Memberships
    PROVE  DOMAIN m \subseteq Groups /\ m \in [DOMAIN m -> SUBSET GroupRoles]
  BY DEF Memberships

LEMMA FunctionMembership ==
    ASSUME NEW G \in SUBSET Groups, NEW m \in [G -> SUBSET GroupRoles]
    PROVE  m \in Memberships
  BY DEF Memberships

LEMMA WithType ==
    ASSUME NEW m \in Memberships, NEW g \in Groups, NEW S \in SUBSET GroupRoles
    PROVE  With(m, g, S) \in Memberships
  <1>1. With(m, g, S) \in [DOMAIN m \cup {g} -> SUBSET GroupRoles]
    BY MembershipsDomain DEF With
  <1> QED BY <1>1, MembershipsDomain, FunctionMembership

LEMMA WithoutType ==
    ASSUME NEW m \in Memberships, NEW g
    PROVE  Without(m, g) \in Memberships
  <1>1. Without(m, g) \in [DOMAIN m \ {g} -> SUBSET GroupRoles]
    BY MembershipsDomain DEF Without
  <1> QED BY <1>1, MembershipsDomain, FunctionMembership

LEMMA EmptyMembership == << >> \in Memberships /\ DOMAIN << >> = {}
  <1>1. << >> \in [{} -> SUBSET GroupRoles]
    OBVIOUS
  <1> QED BY <1>1, FunctionMembership

LEMMA RoleTypes ==
    /\ "admin" \in Roles
    /\ \A S : LegacyRole(S) \in Roles
    /\ \A role \in Roles : GroupRolesOf(role) \in SUBSET GroupRoles
  BY DEF Roles, LegacyRole, GroupRolesOf, GroupRoles

\* Where selectors do not overlap, no label set satisfies both.
NoCommon(s, t) == \A c \in Collectors : ~(SelectorMatches(c, s) /\ SelectorMatches(c, t))

LEMMA NoCommonLabels ==
    ASSUME NEW s, NEW t, ~SelectorsOverlap(s, t)
    PROVE  NoCommon(s, t)
  BY DEF SelectorsOverlap, SelectorMatches, NoCommon

LEMMA NoCommonSymmetric == \A s, t : NoCommon(s, t) <=> NoCommon(t, s)
  BY DEF NoCommon

\* What a row reaches is its selector.
LEMMA Reached ==
    ASSUME NEW row \in Row \cup {Absent}, Reach(row) # Absent
    PROVE  row \in Row /\ row.enabled /\ Reach(row) = row.selector
  BY DEF Reach

\* Accounts stay accounts: what the other requests carry stays what it was.
KeepAccounts == \A u \in Users : users[u] \in Account => users'[u] \in Account

\* And the histories stay histories.
LEMMA SameHistories == Histories /\ UNCHANGED history => Histories'
  BY Zenon DEF Histories, history

LEMMA Goes ==
    ASSUME Typed, NEW h \in Handlers, NEW s, Goto(h, s), Local(users', s), KeepAccounts
    PROVE  /\ proc'[h] = s
           /\ \A k \in Handlers \ {h} : proc'[k] = proc[k]
           /\ proc' = [k \in Handlers |-> proc'[k]]
           /\ \A k \in Handlers : Local(users', proc'[k])
  <1>1. /\ proc'[h] = s
        /\ \A k \in Handlers \ {h} : proc'[k] = proc[k]
        /\ proc' = [k \in Handlers |-> proc'[k]]
    BY DEF Goto, Typed
  <1>2. ASSUME NEW k \in Handlers \ {h} PROVE Local(users', proc[k])
    BY Zenon DEF Typed, Local, KeepAccounts
  <1> QED BY <1>1, <1>2

LEMMA IdleLocal == ASSUME NEW U PROVE Local(U, Idle)
  BY DEF Local, Idle, Places, UserSteps, GroupSteps

LEMMA SameAccounts == ASSUME UNCHANGED users PROVE KeepAccounts
  BY DEF KeepAccounts

LEMMA Returns ==
    ASSUME Typed, NEW h \in Handlers, Return(h), KeepAccounts
    PROVE  /\ proc'[h] = Idle
           /\ \A k \in Handlers \ {h} : proc'[k] = proc[k]
           /\ proc' = [k \in Handlers |-> proc'[k]]
           /\ \A k \in Handlers : Local(users', proc'[k])
  BY Goes, IdleLocal, Zenon DEF Return

---------------------------------------------------------------------------
(* Types, and what requests carry.                                           *)

LEMMA TypedInit == Init => Typed
  <1> SUFFICES ASSUME Init PROVE Typed
    OBVIOUS
  <1>1. members \in [Users -> Memberships]
    <2> SUFFICES ASSUME NEW u \in Users PROVE members[u] \in Memberships
      BY DEF Init
    <2>1. PICK G \in SUBSET Groups : members[u] \in [G -> RoleSets \ {{}}]
      BY DEF Init
    <2>2. members[u] \in [G -> SUBSET GroupRoles]
      BY <2>1
    <2> QED BY <2>2, FunctionMembership
  <1>2. users \in [Users -> Account \cup {Absent}]
    <2>1. NewAdmin \in Account
      BY DEF NewAdmin, Account, Roles
    <2>2. ASSUME NEW u \in Users
          PROVE  Member(DOMAIN members[u], LegacyRole(AllRoles(members[u]))) \in Account
      BY <1>1, MembershipsDomain, RoleTypes DEF Member, Account
    <2>3. PICK A \in SUBSET Users :
             users = [u \in Users |->
                IF u \in A THEN NewAdmin
                ELSE IF members[u] = << >> THEN Absent
                ELSE Member(DOMAIN members[u], LegacyRole(AllRoles(members[u])))]
      BY DEF Init
    <2> QED BY <2>1, <2>2, <2>3
  <1>3. groups \in Rows
    BY DEF Init, Rows
  <1>4. /\ proc = [h \in Handlers |-> proc[h]]
        /\ \A h \in Handlers : Local(users, proc[h])
    BY IdleLocal DEF Init
  <1>5. requests \in 0 .. MaxRequests /\ faults \in 0 .. MaxFaults /\ Histories
    <2>1. requests = 0 /\ faults = 0 /\ halfMade = {} /\ crossed = {}
      BY Zenon DEF Init
    <2>2. 0 \in 0 .. MaxRequests /\ 0 \in 0 .. MaxFaults /\ (halfMade = {} /\ crossed = {} => Histories)
      BY DEF Histories
    <2> QED BY <2>1, <2>2, Zenon
  <1> QED BY <1>1, <1>2, <1>3, <1>4, <1>5, Zenon DEF Typed

\* What is left to show of a request's step: the rows it writes, and the local
\* it goes on with.
LEMMA StepTyped ==
    ASSUME Typed, NEW h \in Handlers, NEW s, Goto(h, s), Local(users', s), KeepAccounts,
           users' \in [Users -> Account \cup {Absent}], members' \in [Users -> Memberships],
           groups' \in Rows, requests' \in 0 .. MaxRequests, faults' \in 0 .. MaxFaults,
           Histories'
    PROVE  Typed'
  BY Goes, Zenon DEF Typed

LEMMA RequestCounts ==
    ASSUME Typed, NEW h, Request(h)
    PROVE  requests' \in 0 .. MaxRequests
  BY DEF Request, Typed

\* A request that only begins.
LEMMA BeginTyped ==
    ASSUME Typed, NEW h \in Handlers, NEW s, Goto(h, s), Local(users, s), Request(h),
           UNCHANGED <<users, members, groups, faults, history>>
    PROVE  Typed'
  <1>1. Local(users', s) /\ KeepAccounts
    BY SameAccounts, Zenon
  <1>2. requests' \in 0 .. MaxRequests
    BY RequestCounts
  <1> QED BY <1>1, <1>2, SameHistories, StepTyped, Zenon DEF Typed

\* A request that goes on without writing.
LEMMA ReadTyped ==
    ASSUME Typed, NEW h \in Handlers, NEW s, Goto(h, s), Local(users, s),
           UNCHANGED <<users, members, groups, requests, faults, history>>
    PROVE  Typed'
  <1>1. Local(users', s) /\ KeepAccounts
    BY SameAccounts, Zenon
  <1> QED BY <1>1, SameHistories, StepTyped, Zenon DEF Typed

LEMMA UserRequestTyped ==
    ASSUME Typed, NEW h \in Handlers, UserRequest(h)
    PROVE  Typed'
  <1> USE DEF Local, Places, UserSteps, GroupSteps
  <1>1. ASSUME NEW u \in Users, NEW G \in SUBSET Groups, NEW S \in RoleSets,
               CreateUser(h, u, G, S)
        PROVE  Typed'
    <2>1. Member(G, LegacyRole(S)) \in Account
      BY RoleTypes DEF Member, Account
    <2>2. KeepAccounts /\ users' \in [Users -> Account \cup {Absent}] /\ users'[u] \in Account
      BY <1>1, <2>1 DEF CreateUser, Typed, KeepAccounts
    <2>3. [g \in G |-> S] \in Memberships
      BY FunctionMembership
    <2> DEFINE s == [at |-> "replace", user |-> u, role |-> LegacyRole(S),
                     next |-> [g \in G |-> S], new |-> TRUE]
    <2>4. Goto(h, s)
      BY <1>1 DEF CreateUser
    <2>5. Local(users', s)
      BY <2>2, <2>3, RoleTypes
    <2>6. requests' \in 0 .. MaxRequests
      BY <1>1, RequestCounts DEF CreateUser
    <2> HIDE DEF s
    <2> QED BY <1>1, <2>2, <2>4, <2>5, <2>6, SameHistories, StepTyped DEF CreateUser, Typed
  <1>2. ASSUME NEW u \in Users, CreateAdmin(h, u)
        PROVE  Typed'
    <2>1. NewAdmin \in Account
      BY RoleTypes DEF NewAdmin, Account
    <2>2. KeepAccounts /\ users' \in [Users -> Account \cup {Absent}] /\ users'[u] \in Account
      BY <1>2, <2>1 DEF CreateAdmin, Typed, KeepAccounts
    <2> DEFINE s == [at |-> "replace", user |-> u, role |-> "admin", next |-> << >>, new |-> TRUE]
    <2>4. Goto(h, s)
      BY <1>2 DEF CreateAdmin
    <2>5. Local(users', s)
      BY <2>2, EmptyMembership, RoleTypes
    <2>6. requests' \in 0 .. MaxRequests
      BY <1>2, RequestCounts DEF CreateAdmin
    <2> HIDE DEF s
    <2> QED BY <1>2, <2>2, <2>4, <2>5, <2>6, SameHistories, StepTyped DEF CreateAdmin, Typed
  <1>3. ASSUME NEW u \in Users, NEW g \in Groups, NEW S \in RoleSets, SetMembership(h, u, g, S)
        PROVE  Typed'
    <2> DEFINE s == [at |-> "role", user |-> u, next |-> With(members[u], g, S)]
    <2>1. Local(users, s)
      BY <1>3, WithType DEF SetMembership, Typed, Exists
    <2>2. Goto(h, s)
      BY <1>3 DEF SetMembership
    <2> HIDE DEF s
    <2> QED BY <1>3, <2>1, <2>2, BeginTyped, Zenon DEF SetMembership
  <1>4. ASSUME NEW u \in Users, NEW g \in Groups, RemoveMembership(h, u, g)
        PROVE  Typed'
    <2> DEFINE s == [at |-> "role", user |-> u, next |-> Without(members[u], g)]
    <2>1. Local(users, s)
      BY <1>4, WithoutType DEF RemoveMembership, Typed, Exists
    <2>2. Goto(h, s)
      BY <1>4 DEF RemoveMembership
    <2> HIDE DEF s
    <2> QED BY <1>4, <2>1, <2>2, BeginTyped, Zenon DEF RemoveMembership
  <1>5. ASSUME NEW u \in Users, NEW G \in SUBSET Groups, NEW S \in RoleSets, SetGroups(h, u, G, S)
        PROVE  Typed'
    <2> DEFINE s == [at |-> "replace", user |-> u, role |-> users[u].role,
                     next |-> [g \in G |-> S], new |-> FALSE]
    <2>1. users[u] \in Account /\ users[u].role \in Roles
      BY <1>5 DEF SetGroups, Typed, Exists, Account
    <2>2. [g \in G |-> S] \in Memberships
      BY FunctionMembership
    <2>3. Local(users, s)
      BY <2>1, <2>2
    <2>4. Goto(h, s)
      BY <1>5 DEF SetGroups
    <2> HIDE DEF s
    <2> QED BY <1>5, <2>3, <2>4, BeginTyped, Zenon DEF SetGroups
  <1>6. ASSUME NEW u \in Users, NEW r \in Roles, SetRole(h, u, r)
        PROVE  Typed'
    <2> DEFINE s == [at |-> "update_role", user |-> u, role |-> r]
    <2>1. Local(users, s)
      BY <1>6 DEF SetRole, Typed, Exists
    <2>2. Goto(h, s)
      BY <1>6 DEF SetRole
    <2> HIDE DEF s
    <2> QED BY <1>6, <2>1, <2>2, BeginTyped, Zenon DEF SetRole
  <1>7. ASSUME NEW u \in Users, NEW e \in BOOLEAN, SetStatus(h, u, e)
        PROVE  Typed'
    <2> DEFINE s == [at |-> "set_enabled", user |-> u, enabled |-> e]
    <2>1. Local(users, s)
      BY <1>7 DEF SetStatus, Typed, Exists
    <2>2. Goto(h, s)
      BY <1>7 DEF SetStatus
    <2> HIDE DEF s
    <2> QED BY <1>7, <2>1, <2>2, BeginTyped, Zenon DEF SetStatus
  <1> QED BY <1>1, <1>2, <1>3, <1>4, <1>5, <1>6, <1>7 DEF UserRequest

\* The rows a group page reads and writes.
LEMMA EditTyped ==
    ASSUME Typed, NEW h \in Handlers, NEW at \in GroupSteps, NEW g \in Groups, NEW row \in Row,
           Edit(h, at, g, row)
    PROVE  Typed'
  <1> DEFINE s == [at |-> at, group |-> g, row |-> row, rows |-> groups]
  <1>1. Local(users, s)
    BY DEF Local, Places, UserSteps, GroupSteps, Typed
  <1>2. Goto(h, s)
    BY DEF Edit
  <1> HIDE DEF s
  <1> QED BY <1>1, <1>2, BeginTyped, Zenon DEF Edit

LEMMA GroupRequestTyped ==
    ASSUME Typed, NEW h \in Handlers, GroupRequest(h)
    PROVE  Typed'
  <1>1. PICK g \in Groups :
           \/ \E s \in Selectors : CreateGroup(h, g, s) \/ UpdateSelector(h, g, s)
           \/ \E e \in BOOLEAN : Enable(h, g, e)
           \/ \E O \in SUBSET Users : SetOwners(h, g, O)
    BY DEF GroupRequest
  <1>2. groups[g] # Absent => groups[g] \in Row
    BY DEF Typed, Rows
  <1>3. ASSUME NEW s \in Selectors, CreateGroup(h, g, s) PROVE Typed'
    <2>1. [owners |-> {}, enabled |-> TRUE, selector |-> s] \in Row
      BY DEF Row
    <2> QED BY <1>3, <2>1, EditTyped DEF CreateGroup, GroupSteps
  <1>4. ASSUME NEW s \in Selectors, UpdateSelector(h, g, s) PROVE Typed'
    <2>1. [groups[g] EXCEPT !.selector = s] \in Row
      BY <1>2, <1>4 DEF Row, UpdateSelector
    <2> QED BY <1>4, <2>1, EditTyped DEF UpdateSelector, GroupSteps
  <1>5. ASSUME NEW e \in BOOLEAN, Enable(h, g, e) PROVE Typed'
    <2>1. [groups[g] EXCEPT !.enabled = e] \in Row
      BY <1>2, <1>5 DEF Row, Enable
    <2> QED BY <1>5, <2>1, EditTyped DEF Enable, GroupSteps
  <1>6. ASSUME NEW O \in SUBSET Users, SetOwners(h, g, O) PROVE Typed'
    <2>1. [groups[g] EXCEPT !.owners = O] \in Row
      BY <1>2, <1>6 DEF Row, SetOwners
    <2> QED BY <1>6, <2>1, EditTyped DEF SetOwners, GroupSteps
  <1> QED BY <1>1, <1>3, <1>4, <1>5, <1>6

LEMMA ReturnTyped ==
    ASSUME Typed, NEW h \in Handlers, Return(h), KeepAccounts,
           users' \in [Users -> Account \cup {Absent}], members' \in [Users -> Memberships],
           groups' \in Rows, Histories', UNCHANGED <<requests, faults>>
    PROVE  Typed'
  BY Returns, Zenon DEF Typed

LEMMA UserStepTyped ==
    ASSUME Typed, NEW h \in Handlers,
           ReadRole(h) \/ Replace(h) \/ UpdateRole(h) \/ SetEnabled(h)
               \/ ReadMemberships(h) \/ ListGroups(h)
    PROVE  Typed'
  <1> DEFINE p == proc[h]
             u == p.user
  <1>1. Local(users, p)
    BY DEF Typed
  <1>2. p.at \in UserSteps => u \in Users /\ users[u] \in Account /\ users[u].role \in Roles
    BY <1>1 DEF Local, Account
  <1>3. CASE ReadRole(h)
    <2>1. CASE Return(h)
      BY <1>3, <2>1, SameHistories, ReturnTyped, SameAccounts, Zenon DEF ReadRole, Typed
    <2>2. CASE Goto(h, [at |-> "replace", user |-> u, role |-> users[u].role, next |-> p.next,
                     new |-> FALSE])
      <3> DEFINE s == [at |-> "replace", user |-> u, role |-> users[u].role, next |-> p.next,
                     new |-> FALSE]
      <3>1. Local(users, s)
        BY <1>1, <1>2, <1>3 DEF ReadRole, Local, Places, UserSteps, GroupSteps
      <3> HIDE DEF s
      <3> QED BY <1>3, <2>2, <3>1, ReadTyped, Zenon DEF s, ReadRole
    <2> QED BY <1>3, <2>1, <2>2, Zenon DEF ReadRole
  <1>4. CASE Replace(h)
    <2> DEFINE role == IF p.role = "admin" THEN "admin" ELSE LegacyRole(AllRoles(p.next))
               s == [at |-> IF role = p.role THEN "memberships" ELSE "update_role",
                     user |-> u, role |-> role]
    <2>1. u \in Users /\ users[u] \in Account /\ p.next \in Memberships
      BY <1>1, <1>4 DEF Replace, Local, UserSteps
    <2>2. users' = [users EXCEPT ![u].groups = DOMAIN p.next]
          /\ members' = [members EXCEPT ![u] = p.next]
      BY <1>4 DEF Replace, SetGroupIDs
    <2>3. DOMAIN p.next \subseteq Groups
      BY <2>1, MembershipsDomain
    <2>4. [users[u] EXCEPT !.groups = DOMAIN p.next] \in Account
      BY <2>1, <2>3 DEF Account
    <2>5. /\ KeepAccounts /\ users' \in [Users -> Account \cup {Absent}] /\ users'[u] \in Account
          /\ members' \in [Users -> Memberships]
      BY <2>1, <2>2, <2>4 DEF Typed, KeepAccounts
    <2>6. role \in Roles
      BY RoleTypes
    <2>7. Local(users', s)
      BY <2>1, <2>5, <2>6 DEF Local, Places, UserSteps, GroupSteps
    <2>8. Goto(h, s)
      BY <1>4 DEF Replace
    <2> HIDE DEF s
    <2>9. Histories'
      BY <1>4 DEF Replace, Typed, Histories
    <2> QED BY <1>4, <2>5, <2>7, <2>8, <2>9, StepTyped DEF Replace, Typed
  <1>5. CASE UpdateRole(h)
    <2>1. u \in Users /\ users[u] \in Account /\ p.role \in Roles
      BY <1>1, <1>5 DEF UpdateRole, Local, UserSteps
    <2>2. CASE Return(h) /\ UNCHANGED users
      BY <1>5, <2>2, SameHistories, ReturnTyped, SameAccounts, Zenon DEF UpdateRole, Typed
    <2>3. CASE /\ users' = [users EXCEPT ![u].role = p.role]
               /\ Goto(h, [at |-> "memberships", user |-> u, role |-> p.role])
      <3> DEFINE s == [at |-> "memberships", user |-> u, role |-> p.role]
      <3>1. [users[u] EXCEPT !.role = p.role] \in Account
        BY <2>1 DEF Account
      <3>2. KeepAccounts /\ users' \in [Users -> Account \cup {Absent}] /\ users'[u] \in Account
        BY <2>1, <2>3, <3>1 DEF Typed, KeepAccounts
      <3>3. Local(users', s)
        BY <2>1, <3>2 DEF Local, Places, UserSteps, GroupSteps
      <3> HIDE DEF s
      <3>4. Goto(h, s)
        BY <2>3 DEF s
      <3> QED BY <1>5, <3>2, <3>3, <3>4, SameHistories, StepTyped DEF UpdateRole, Typed
    <2> QED BY <1>5, <2>2, <2>3, Zenon DEF UpdateRole
  <1>6. CASE SetEnabled(h)
    <2>1. u \in Users /\ users[u] \in Account /\ p.enabled \in BOOLEAN
      BY <1>1, <1>6 DEF SetEnabled, Local, UserSteps
    <2>2. [users[u] EXCEPT !.enabled = p.enabled] \in Account
      BY <2>1 DEF Account
    <2>3. users' = users \/ users' = [users EXCEPT ![u].enabled = p.enabled]
      BY <1>6 DEF SetEnabled
    <2>4. KeepAccounts /\ users' \in [Users -> Account \cup {Absent}]
      BY <2>1, <2>2, <2>3 DEF Typed, KeepAccounts
    <2> QED BY <1>6, <2>4, SameHistories, ReturnTyped DEF SetEnabled, Typed
  <1>7. CASE ReadMemberships(h)
    <2> DEFINE s == [at |-> "list", user |-> u, selected |-> Selected(u, p.role)]
    <2>1. Local(users, s)
      BY <1>1, <1>7 DEF ReadMemberships, Local, Places, UserSteps, GroupSteps
    <2>2. Goto(h, s)
      BY <1>7 DEF ReadMemberships
    <2> HIDE DEF s
    <2> QED BY <1>7, <2>1, <2>2, ReadTyped, Zenon DEF ReadMemberships
  <1>8. CASE ListGroups(h)
    <2>1. CASE Return(h)
      BY <1>8, <2>1, SameHistories, ReturnTyped, SameAccounts, Zenon DEF ListGroups, Typed
    <2>2. CASE ~Return(h)
      <3> DEFINE S == p.selected
                 s == [at |-> "write", user |-> u, selected |-> S, rows |-> groups,
                       todo |-> Misowned(groups, u, S)]
      <3>1. /\ Misowned(groups, u, S) \subseteq Groups
            /\ \A g \in Misowned(groups, u, S) : groups[g] \in Row
        BY DEF Misowned, Typed, Rows
      <3>2. Local(users, s)
        BY <1>1, <1>8, <3>1 DEF ListGroups, Local, Places, UserSteps, GroupSteps, Typed
      <3>3. Goto(h, s)
        BY <1>8, <2>2 DEF ListGroups
      <3> HIDE DEF s
      <3> QED BY <1>8, <3>2, <3>3, ReadTyped, Zenon DEF ListGroups
    <2> QED BY <2>1, <2>2
  <1> QED BY <1>3, <1>4, <1>5, <1>6, <1>7, <1>8

LEMMA GroupStepTyped ==
    ASSUME Typed, NEW h \in Handlers,
           (\E g \in Groups : WriteOwners(h, g)) \/ CheckOverlap(h) \/ Save(h)
    PROVE  Typed'
  <1> DEFINE p == proc[h]
  <1>1. Local(users, p)
    BY DEF Typed
  <1>2. ASSUME NEW g \in Groups, WriteOwners(h, g) PROVE Typed'
    <2> DEFINE row == p.rows[g]
               todo == p.todo \ {g}
               written == [row EXCEPT !.owners = OwnersWith(row.owners, p.user, g \in p.selected)]
    <2>1. p.at = "write" /\ p.user \in Users /\ users[p.user] \in Account /\ row \in Row
          /\ p.rows \in Rows /\ todo \subseteq Groups /\ \A x \in todo : p.rows[x] \in Row
      BY <1>1, <1>2 DEF WriteOwners, Local, UserSteps
    <2>2. written \in Row
      BY <2>1 DEF Row, OwnersWith
    <2>3. groups' = [groups EXCEPT ![g] = written]
          /\ crossed' = Restored(g, row) /\ halfMade' = halfMade
      BY <1>2 DEF WriteOwners
    <2> HIDE DEF written
    <2>4. groups' \in Rows /\ Histories'
      BY <2>2, <2>3 DEF Rows, Typed, Histories, Restored, Pairs
    <2>5. CASE Return(h)
      BY <1>2, <2>4, <2>5, ReturnTyped, SameAccounts, Zenon DEF WriteOwners, Typed
    <2>6. CASE Goto(h, [p EXCEPT !.todo = todo])
      <3> DEFINE s == [p EXCEPT !.todo = todo]
      <3>1. /\ s.at = p.at /\ s.user = p.user /\ s.rows = p.rows
            /\ s.todo = todo \/ s.todo = p.todo
        OBVIOUS
      <3>2. \A x \in p.todo : p.rows[x] \in Row
        BY <1>1, <2>1 DEF Local
      <3>3. p.todo \subseteq Groups
        BY <1>1, <2>1 DEF Local
      <3> HIDE DEF s
      <3>4. Local(users, s)
        BY <2>1, <3>1, <3>2, <3>3 DEF Local, Places, UserSteps, GroupSteps
      <3>5. Local(users', s) /\ KeepAccounts /\ UNCHANGED <<users, members, requests, faults, halfMade>>
        BY <1>2, <3>4, SameAccounts, Zenon DEF WriteOwners
      <3>6. Goto(h, s)
        BY <2>6 DEF s
      <3> QED BY <2>4, <3>5, <3>6, StepTyped, Zenon DEF Typed
    <2> QED BY <1>2, <2>5, <2>6, Zenon DEF WriteOwners
  <1>3. CASE CheckOverlap(h)
    <2>1. CASE Return(h)
      BY <1>3, <2>1, SameHistories, ReturnTyped, SameAccounts, Zenon DEF CheckOverlap, Typed
    <2>2. CASE ~Return(h)
      <3> DEFINE rows == [groups EXCEPT ![p.group] = p.rows[p.group]]
                 s == [p EXCEPT !.at = "save", !.rows = rows]
      <3>1. p.group \in Groups /\ p.row \in Row /\ p.rows \in Rows
        BY <1>1, <1>3 DEF CheckOverlap, Local, GroupSteps
      <3>2. rows \in Rows
        BY <3>1 DEF Rows, Typed
      <3>3. s.at \in {p.at, "save"} /\ s.group = p.group /\ s.row = p.row /\ s.rows \in {p.rows, rows}
        OBVIOUS
      <3>4. p.at = "overlap" /\ Goto(h, s)
        BY <1>3, <2>2, Zenon DEF CheckOverlap
      <3> HIDE DEF s, rows
      <3>5. Local(users, s)
        BY <3>1, <3>2, <3>3, <3>4 DEF Local, Places, UserSteps, GroupSteps
      <3> QED BY <1>3, <3>4, <3>5, ReadTyped, Zenon DEF CheckOverlap
    <2> QED BY <2>1, <2>2
  <1>4. CASE Save(h)
    <2>1. p.group \in Groups /\ p.row \in Row
      BY <1>1, <1>4 DEF Save, Local, GroupSteps
    <2>2. groups' \in Rows
      BY <1>4, <2>1 DEF Save, Rows, Typed
    <2>3. Compared(p.group, p.rows) \subseteq SUBSET Groups
          /\ Restored(p.group, p.row) \subseteq SUBSET Groups
      BY <2>1 DEF Compared, Restored, Pairs, Typed, Histories
    <2>4. Histories'
      <3>1. crossed' \in {crossed, Compared(p.group, p.rows), Restored(p.group, p.row)}
            /\ halfMade' = halfMade
        BY <1>4, Zenon DEF Save
      <3> QED BY <2>3, <3>1 DEF Typed, Histories
    <2> QED BY <1>4, <2>2, <2>4, ReturnTyped, SameAccounts, Zenon DEF Save, Typed
  <1> QED BY <1>2, <1>3, <1>4

LEMMA FailsTyped ==
    ASSUME Typed, NEW h \in Handlers, Fails(h)
    PROVE  Typed'
  <1> DEFINE p == proc[h]
             u == p.user
             s == [at |-> "list", user |-> u,
                   selected |-> IF p.role = "group_owner" THEN users[u].groups ELSE {}]
  <1>1. faults' \in 0 .. MaxFaults
    BY DEF Fails, Typed
  <1>2. Histories'
    <2>1. p.at = "replace" => u \in Users
      BY DEF Typed, Local, UserSteps
    <2> QED BY <2>1, Zenon DEF Fails, Typed, Histories
  <1>3. KeepAccounts
    BY SameAccounts, Zenon DEF Fails
  <1>4. CASE Return(h)
    BY <1>1, <1>2, <1>3, <1>4, IdleLocal, StepTyped, Zenon DEF Fails, Return, Typed
  <1>5. CASE p.at = "memberships" /\ Goto(h, s)
    <2>1. u \in Users /\ users[u] \in Account
      BY <1>5 DEF Typed, Local, UserSteps
    <2>2. Local(users, s)
      BY <2>1 DEF Local, Places, UserSteps, GroupSteps
    <2> HIDE DEF s
    <2>3. Local(users', s)
      BY <2>2, Zenon DEF Fails
    <2> QED BY <1>1, <1>2, <1>3, <1>5, <2>3, StepTyped, Zenon DEF Fails, Typed
  <1> QED BY <1>4, <1>5, Zenon DEF Fails

LEMMA MigrateType ==
    ASSUME Typed, NEW u \in Users, Exists(u)
    PROVE  Migrate(u) \in Memberships /\ DOMAIN Migrate(u) = DOMAIN members[u] \cup users[u].groups
  <1>1. users[u] \in Account /\ members[u] \in Memberships
    BY DEF Typed, Exists
  <1>2. /\ users[u].groups \subseteq Groups /\ DOMAIN members[u] \subseteq Groups
        /\ members[u] \in [DOMAIN members[u] -> SUBSET GroupRoles]
        /\ GroupRolesOf(users[u].role) \in SUBSET GroupRoles
    BY <1>1, MembershipsDomain, RoleTypes DEF Account
  <1>3. Migrate(u) \in [DOMAIN members[u] \cup users[u].groups -> SUBSET GroupRoles]
    BY <1>2 DEF Migrate
  <1> QED BY <1>2, <1>3, FunctionMembership

LEMMA RestartTyped ==
    ASSUME Typed, Restart
    PROVE  Typed'
  <1>1. members' \in [Users -> Memberships]
    BY MigrateType DEF Restart, Typed
  <1>2. \A h \in Handlers : Local(users', proc'[h])
    BY IdleLocal DEF Restart
  <1>3. faults' \in 0 .. MaxFaults /\ proc' = [h \in Handlers |-> proc'[h]]
    BY DEF Restart, Typed
  <1>4. Histories'
    BY Zenon DEF Restart, Typed, Histories
  <1> QED BY <1>1, <1>2, <1>3, <1>4, Zenon DEF Restart, Typed

LEMMA StutterTyped == Typed /\ UNCHANGED vars => Typed'
  BY SameHistories, Zenon DEF Typed, vars

LEMMA NextTyped == Typed /\ [Next]_vars => Typed'
  BY UserRequestTyped, GroupRequestTyped, UserStepTyped, GroupStepTyped, RestartTyped,
     FailsTyped, StutterTyped, Zenon DEF Next, Step

---------------------------------------------------------------------------
(* Who writes accounts and memberships.                                      *)

Writes ==
    \/ \E h \in Handlers, u \in Users, G \in SUBSET Groups, S \in RoleSets : CreateUser(h, u, G, S)
    \/ \E h \in Handlers, u \in Users : CreateAdmin(h, u)
    \/ \E h \in Handlers : Replace(h) \/ UpdateRole(h) \/ SetEnabled(h)

LEMMA UserRequestWrites ==
    ASSUME NEW h \in Handlers, UserRequest(h)
    PROVE  Writes \/ UNCHANGED <<users, members>>
  <1>1. PICK u \in Users :
           \/ \E G \in SUBSET Groups, S \in RoleSets : CreateUser(h, u, G, S) \/ SetGroups(h, u, G, S)
           \/ CreateAdmin(h, u)
           \/ \E g \in Groups, S \in RoleSets : SetMembership(h, u, g, S)
           \/ \E g \in Groups : RemoveMembership(h, u, g)
           \/ \E r \in Roles : SetRole(h, u, r)
           \/ \E e \in BOOLEAN : SetStatus(h, u, e)
    BY Zenon DEF UserRequest
  <1>2. ASSUME NEW G \in SUBSET Groups, NEW S \in RoleSets,
               CreateUser(h, u, G, S) \/ SetGroups(h, u, G, S)
        PROVE  Writes \/ UNCHANGED <<users, members>>
    BY <1>2, Zenon DEF Writes, SetGroups
  <1>3. CASE CreateAdmin(h, u)
    BY <1>3, Zenon DEF Writes
  <1> QED BY <1>1, <1>2, <1>3, Zenon DEF SetMembership, RemoveMembership, SetRole, SetStatus

LEMMA GroupRequestWrites ==
    ASSUME NEW h \in Handlers, GroupRequest(h)
    PROVE  UNCHANGED <<users, members>>
  BY Zenon DEF GroupRequest, CreateGroup, UpdateSelector, Enable, SetOwners, Edit

LEMMA StepWrites ==
    ASSUME NEW h \in Handlers, Step(h)
    PROVE  Writes \/ UNCHANGED <<users, members>>
  BY Zenon DEF Step, Writes, ReadRole, ReadMemberships, ListGroups, WriteOwners, CheckOverlap, Save, Fails

LEMMA WhoWrites ==
    ASSUME [Next]_vars
    PROVE  Writes \/ (Restart /\ UNCHANGED users) \/ UNCHANGED <<users, members>>
  <1>1. CASE Restart
    BY <1>1, Zenon DEF Restart
  <1>2. CASE UNCHANGED vars
    BY <1>2, Zenon DEF vars
  <1> QED BY <1>1, <1>2, UserRequestWrites, GroupRequestWrites, StepWrites, Zenon DEF Next

---------------------------------------------------------------------------
(* An administrator remains.                                                 *)

\* An account that is created, or whose groups change, takes nothing away.
LEMMA AdministratorKept ==
    ASSUME Typed, Typed', AdministratorRemains, [Next]_vars
    PROVE  AdministratorRemains'
  <1> USE DEF IsAdmin, Exists
  <1>1. PICK a \in Users : IsAdmin(a)
    BY DEF AdministratorRemains
  <1>2. SUFFICES \E b \in Users : IsAdmin(b)'
    BY DEF AdministratorRemains
  <1>3. users[a] \in Account /\ users[a].role = "admin" /\ users[a].enabled
    BY <1>1 DEF Typed
  <1>4. ASSUME users'[a] = users[a] PROVE IsAdmin(a)'
    BY <1>1, <1>4
  <1>5. CASE UNCHANGED users
    BY <1>4, <1>5
  <1>6. ASSUME NEW h \in Handlers, NEW u \in Users, NEW G \in SUBSET Groups, NEW S,
               CreateUser(h, u, G, S)
        PROVE  IsAdmin(a)'
    BY <1>1, <1>4, <1>6 DEF CreateUser, Typed
  <1>7. ASSUME NEW h \in Handlers, NEW u \in Users, CreateAdmin(h, u)
        PROVE  IsAdmin(a)'
    BY <1>1, <1>4, <1>7 DEF CreateAdmin, Typed
  <1>8. ASSUME NEW h \in Handlers, Replace(h)
        PROVE  IsAdmin(a)'
    <2> DEFINE u == proc[h].user
               m == proc[h].next
    <2>1. u \in Users /\ users' = [users EXCEPT ![u].groups = DOMAIN m]
      BY <1>8 DEF Replace, SetGroupIDs, Typed, Local, UserSteps
    <2>2. users'[a] \in Account \cup {Absent}
      BY DEF Typed
    <2>3. CASE a = u
      <3>1. users'[a] = [users[a] EXCEPT !.groups = DOMAIN m]
        BY <2>1, <2>3 DEF Typed
      <3>2. [users[a] EXCEPT !.groups = DOMAIN m] \in Account
        <4>1. m \in Memberships
          BY <1>8 DEF Replace, Typed, Local
        <4> QED BY <4>1, <1>3, MembershipsDomain DEF Account
      <3>3. users'[a].role = "admin" /\ users'[a].enabled
        BY <3>1, <1>3 DEF Account
      <3> QED BY <3>1, <3>2, <3>3
    <2>4. CASE a # u
      BY <2>1, <2>4, <1>4 DEF Typed
    <2> QED BY <2>3, <2>4
  <1>9. ASSUME NEW h \in Handlers, UpdateRole(h)
        PROVE  \E b \in Users : IsAdmin(b)'
    <2> DEFINE u == proc[h].user
               r == proc[h].role
    <2>1. u \in Users /\ users[u] \in Account /\ r \in Roles
      BY <1>9 DEF UpdateRole, Typed, Local, UserSteps
    <2>2. CASE IsAdmin(u) /\ r # "admin" /\ ~AnotherAdmin(u)
      BY <1>9, <2>2, <1>5 DEF UpdateRole
    <2>3. CASE ~(IsAdmin(u) /\ r # "admin" /\ ~AnotherAdmin(u))
      <3>1. users' = [users EXCEPT ![u].role = r]
        BY <1>9, <2>3 DEF UpdateRole
      <3>2. CASE r = "admin" /\ a = u
        <4>1. users'[a] = [users[a] EXCEPT !.role = "admin"]
          BY <3>1, <3>2 DEF Typed
        <4>2. users'[a] \in Account /\ users'[a].role = "admin" /\ users'[a].enabled
          BY <4>1, <1>3 DEF Account
        <4> QED BY <4>2
      <3>3. CASE a # u
        BY <3>1, <3>3, <1>4 DEF Typed
      <3>4. CASE r # "admin" /\ a = u
        <4>1. PICK b \in Users : IsAdmin(b) /\ b # u
          BY <1>1, <2>3, <3>4 DEF AnotherAdmin
        <4>2. users'[b] = users[b]
          BY <3>1, <4>1 DEF Typed
        <4> QED BY <4>1, <4>2
      <3> QED BY <3>2, <3>3, <3>4
    <2> QED BY <2>2, <2>3
  <1>10. ASSUME NEW h \in Handlers, SetEnabled(h)
         PROVE  \E b \in Users : IsAdmin(b)'
    <2> DEFINE u == proc[h].user
               e == proc[h].enabled
    <2>1. u \in Users /\ users[u] \in Account /\ e \in BOOLEAN
      BY <1>10 DEF SetEnabled, Typed, Local, UserSteps
    <2>2. CASE IsAdmin(u) /\ ~e /\ ~AnotherAdmin(u)
      BY <1>10, <2>2, <1>5 DEF SetEnabled
    <2>3. CASE ~(IsAdmin(u) /\ ~e /\ ~AnotherAdmin(u))
      <3>1. users' = [users EXCEPT ![u].enabled = e]
        BY <1>10, <2>3 DEF SetEnabled
      <3>2. CASE e /\ a = u
        <4>1. users'[a] = [users[a] EXCEPT !.enabled = e]
          BY <3>1, <3>2 DEF Typed
        <4>2. users'[a] \in Account /\ users'[a].role = "admin" /\ users'[a].enabled
          BY <4>1, <1>3, <2>1, <3>2 DEF Account
        <4> QED BY <4>2
      <3>3. CASE a # u
        BY <3>1, <3>3, <1>4 DEF Typed
      <3>4. CASE ~e /\ a = u
        <4>1. PICK b \in Users : IsAdmin(b) /\ b # u
          BY <1>1, <2>3, <3>4 DEF AnotherAdmin
        <4>2. users'[b] = users[b]
          BY <3>1, <4>1 DEF Typed
        <4> QED BY <4>1, <4>2
      <3> QED BY <3>2, <3>3, <3>4, <2>1
    <2> QED BY <2>2, <2>3
  <1> QED BY <1>5, <1>6, <1>7, <1>8, <1>9, <1>10, WhoWrites, Zenon DEF Writes

---------------------------------------------------------------------------
(* The column and the tables.                                                *)

\* A request that goes on from elsewhere than the replacement.
Elsewhere(h) == proc[h].at # "replace" /\ (\E s : Goto(h, s)) /\ UNCHANGED halfMade

LEMMA RequestElsewhere ==
    ASSUME NEW h \in Handlers, UserRequest(h) \/ GroupRequest(h)
    PROVE  Elsewhere(h)
  <1>1. CASE UserRequest(h)
    <2>1. PICK u \in Users :
             \/ \E G \in SUBSET Groups, S \in RoleSets : CreateUser(h, u, G, S) \/ SetGroups(h, u, G, S)
             \/ CreateAdmin(h, u)
             \/ \E g \in Groups, S \in RoleSets : SetMembership(h, u, g, S)
             \/ \E g \in Groups : RemoveMembership(h, u, g)
             \/ \E r \in Roles : SetRole(h, u, r)
             \/ \E e \in BOOLEAN : SetStatus(h, u, e)
      BY <1>1, Zenon DEF UserRequest
    <2>2. Request(h)
      BY <2>1, Zenon DEF CreateUser, SetGroups, CreateAdmin, SetMembership, RemoveMembership,
                         SetRole, SetStatus
    <2>3. (\E s : Goto(h, s)) /\ UNCHANGED halfMade
      BY <2>1, Zenon DEF CreateUser, SetGroups, CreateAdmin, SetMembership, RemoveMembership,
                         SetRole, SetStatus, history
    <2>4. proc[h].at # "replace"
      BY <2>2 DEF Request
    <2> QED BY <2>3, <2>4, Zenon DEF Elsewhere
  <1>2. CASE GroupRequest(h)
    <2>1. PICK g \in Groups : \E at, row : Edit(h, at, g, row)
      BY <1>2, Zenon DEF GroupRequest, CreateGroup, UpdateSelector, Enable, SetOwners
    <2> QED BY <2>1, Zenon DEF Edit, Request, Elsewhere, history
  <1> QED BY <1>1, <1>2

LEMMA StepElsewhere ==
    ASSUME NEW h \in Handlers, Step(h)
    PROVE  Replace(h) \/ Fails(h) \/ Elsewhere(h)
  <1> USE DEF Return
  <1>1. CASE ReadRole(h)
    <2>1. proc[h].at # "replace"
      BY <1>1 DEF ReadRole
    <2> QED BY <1>1, <2>1, Zenon DEF ReadRole, Elsewhere, history
  <1>2. CASE UpdateRole(h)
    <2>1. proc[h].at # "replace"
      BY <1>2 DEF UpdateRole
    <2> QED BY <1>2, <2>1, Zenon DEF UpdateRole, Elsewhere, history
  <1>3. CASE SetEnabled(h)
    <2>1. proc[h].at # "replace"
      BY <1>3 DEF SetEnabled
    <2> QED BY <1>3, <2>1, Zenon DEF SetEnabled, Elsewhere, history
  <1>4. CASE ReadMemberships(h)
    <2>1. proc[h].at # "replace"
      BY <1>4 DEF ReadMemberships
    <2> QED BY <1>4, <2>1, Zenon DEF ReadMemberships, Elsewhere, history
  <1>5. CASE ListGroups(h)
    <2>1. proc[h].at # "replace"
      BY <1>5 DEF ListGroups
    <2> QED BY <1>5, <2>1, Zenon DEF ListGroups, Elsewhere, history
  <1>6. ASSUME NEW g \in Groups, WriteOwners(h, g) PROVE Elsewhere(h)
    <2>1. proc[h].at # "replace"
      BY <1>6 DEF WriteOwners
    <2> QED BY <1>6, <2>1, Zenon DEF WriteOwners, Elsewhere, history
  <1>7. CASE CheckOverlap(h)
    <2>1. proc[h].at # "replace"
      BY <1>7 DEF CheckOverlap
    <2> QED BY <1>7, <2>1, Zenon DEF CheckOverlap, Elsewhere, history
  <1>8. CASE Save(h)
    <2>1. proc[h].at # "replace"
      BY <1>8 DEF Save
    <2> QED BY <1>8, <2>1, Zenon DEF Save, Elsewhere, history
  <1> QED BY <1>1, <1>2, <1>3, <1>4, <1>5, <1>6, <1>7, <1>8, Zenon DEF Step

\* The replacement of somebody else leaves the creation of an account as it is,
\* and so does every other step but a restart.
LEMMA UnfinishedOther ==
    ASSUME Typed, NEW k \in Handlers, Replace(k), NEW u, Unfinished(u), proc[k].user # u
    PROVE  Unfinished(u)'
  <1>1. \A h \in Handlers : proc[h].user = u => proc'[h] = proc[h]
    BY DEF Replace, Goto, Typed
  <1>2. halfMade' = halfMade \ {proc[k].user}
    BY DEF Replace
  <1> QED BY <1>1, <1>2 DEF Unfinished, Creating

LEMMA UnfinishedKept ==
    ASSUME Typed, [Next]_vars, NEW u, Unfinished(u), ~Restart, \A h \in Handlers : ~Replace(h)
    PROVE  Unfinished(u)'
  <1>1. CASE UNCHANGED vars
    BY <1>1 DEF vars, history, Unfinished, Creating
  <1>2. ASSUME NEW k \in Handlers, Elsewhere(k) PROVE Unfinished(u)'
    <2>1. ASSUME NEW h \in Handlers, proc[h].at = "replace" PROVE proc'[h] = proc[h]
      BY <1>2, <2>1 DEF Elsewhere, Goto, Typed
    <2> QED BY <1>2, <2>1 DEF Elsewhere, Unfinished, Creating
  <1>3. ASSUME NEW k \in Handlers, Fails(k) PROVE Unfinished(u)'
    <2>1. \A h \in Handlers \ {k} : proc'[h] = proc[h]
      BY <1>3 DEF Fails, Return, Goto, Typed
    <2>2. halfMade \subseteq halfMade'
          /\ (proc[k].at = "replace" /\ proc[k].new => proc[k].user \in halfMade')
      BY <1>3 DEF Fails
    <2> QED BY <2>1, <2>2 DEF Unfinished, Creating
  <1>4. CASE \E k \in Handlers : UserRequest(k) \/ GroupRequest(k) \/ Step(k)
    BY <1>2, <1>3, <1>4, RequestElsewhere, StepElsewhere, Zenon
  <1> QED BY <1>1, <1>4 DEF Next

Matching == Columns /\ GroupIDsMatch

LEMMA MatchingInit == Init => Matching
  <1> SUFFICES ASSUME Init PROVE Matching
    OBVIOUS
  <1>1. PICK A \in SUBSET Users :
           /\ \A u \in A : members[u] = << >>
           /\ users = [u \in Users |->
                IF u \in A THEN NewAdmin
                ELSE IF members[u] = << >> THEN Absent
                ELSE Member(DOMAIN members[u], LegacyRole(AllRoles(members[u])))]
    BY DEF Init
  <1>2. ASSUME NEW u \in Users
        PROVE  /\ Exists(u) => users[u].groups = DOMAIN members[u]
               /\ ~Exists(u) => DOMAIN members[u] = {}
    <2>1. CASE u \in A
      BY <1>1, <2>1, EmptyMembership, TypedInit DEF NewAdmin, Exists, Account, Roles
    <2>2. CASE u \notin A /\ members[u] = << >>
      BY <1>1, <2>2, EmptyMembership DEF Exists
    <2>3. CASE u \notin A /\ members[u] # << >>
      <3>1. users[u] = Member(DOMAIN members[u], LegacyRole(AllRoles(members[u])))
        BY <1>1, <2>3
      <3>2. users[u] \in Account
        BY <3>1, TypedInit, MembershipsDomain, RoleTypes DEF Member, Account, Typed
      <3>3. users[u].groups = DOMAIN members[u]
        BY <3>1 DEF Member
      <3> QED BY <3>2, <3>3 DEF Exists
    <2> QED BY <2>1, <2>2, <2>3
  <1> QED BY <1>2 DEF Matching, Columns, GroupIDsMatch

LEMMA MatchingNext ==
    ASSUME Typed, Typed', Matching, [Next]_vars
    PROVE  Matching'
  <1> USE DEF Exists
  <1> DEFINE Right(u) == /\ Exists(u) => DOMAIN members[u] \subseteq users[u].groups
                         /\ ~Exists(u) => DOMAIN members[u] = {}
                         /\ Exists(u) /\ ~Unfinished(u) => users[u].groups = DOMAIN members[u]
  <1>1. \A u \in Users : Right(u)
    BY DEF Matching, Columns, GroupIDsMatch
  <1>2. SUFFICES ASSUME NEW v \in Users PROVE Right(v)'
    BY DEF Matching, Columns, GroupIDsMatch
  <1>3. CASE Restart
    <2>1. users'[v] = users[v]
      BY <1>3 DEF Restart
    <2>2. CASE Exists(v)
      <3>1. members'[v] = Migrate(v)
        BY <1>3, <2>2 DEF Restart
      <3>2. DOMAIN members'[v] = users[v].groups
        BY <1>1, <2>2, <3>1, MigrateType
      <3> QED BY <2>1, <2>2, <3>2
    <2>3. CASE ~Exists(v)
      BY <1>1, <1>3, <2>1, <2>3 DEF Restart
    <2> QED BY <2>2, <2>3
  <1>4. ASSUME NEW h \in Handlers, Replace(h) PROVE Right(v)'
    <2> DEFINE u == proc[h].user
               m == proc[h].next
    <2>1. /\ u \in Users /\ users[u] \in Account /\ m \in Memberships
          /\ members' = [members EXCEPT ![u] = m]
          /\ users' = [users EXCEPT ![u].groups = DOMAIN m]
      BY <1>4 DEF Replace, SetGroupIDs, Typed, Local, UserSteps
    <2>2. CASE v = u
      <3>1. members'[v] = m /\ users'[v] = [users[v] EXCEPT !.groups = DOMAIN m]
        BY <2>1, <2>2 DEF Typed
      <3>2. users'[v].groups = DOMAIN m /\ users'[v] \in Account
        BY <2>1, <2>2, <3>1, MembershipsDomain DEF Account
      <3> QED BY <3>1, <3>2
    <2>3. CASE v # u
      <3>1. members'[v] = members[v] /\ users'[v] = users[v]
        BY <2>1, <2>3 DEF Typed
      <3>2. Unfinished(v) => Unfinished(v)'
        BY <1>4, <2>3, UnfinishedOther
      <3> QED BY <1>1, <3>1, <3>2
    <2> QED BY <2>2, <2>3
  <1>5. ASSUME ~Restart, \A h \in Handlers : ~Replace(h)
        PROVE  Unfinished(v) => Unfinished(v)'
    BY <1>5, UnfinishedKept
  <1>6. ASSUME NEW h \in Handlers, NEW u \in Users, NEW G \in SUBSET Groups, NEW S \in RoleSets,
               CreateUser(h, u, G, S), Unfinished(v) => Unfinished(v)'
        PROVE  Right(v)'
    <2>1. CASE v = u
      <3>1. DOMAIN members'[v] = {} /\ users'[v] = Member(G, LegacyRole(S))
        BY <1>1, <1>6, <2>1 DEF CreateUser, Typed
      <3>2. Member(G, LegacyRole(S)) \in Account
        BY RoleTypes DEF Member, Account
      <3>3. proc'[h] = [at |-> "replace", user |-> u, role |-> LegacyRole(S),
                        next |-> [g \in G |-> S], new |-> TRUE]
        BY <1>6 DEF CreateUser, Goto, Typed
      <3>4. Unfinished(v)'
        BY <2>1, <3>3 DEF Unfinished, Creating
      <3> QED BY <3>1, <3>2, <3>4
    <2>2. CASE v # u
      <3>1. members'[v] = members[v] /\ users'[v] = users[v]
        BY <1>6, <2>2 DEF CreateUser, Typed
      <3> QED BY <1>1, <1>6, <3>1
    <2> QED BY <2>1, <2>2
  <1>7. ASSUME NEW h \in Handlers, NEW u \in Users, CreateAdmin(h, u), Unfinished(v) => Unfinished(v)'
        PROVE  Right(v)'
    <2>1. CASE v = u
      <3>1. DOMAIN members'[v] = {} /\ users'[v] = NewAdmin
        BY <1>1, <1>7, <2>1 DEF CreateAdmin, Typed
      <3> QED BY <3>1 DEF NewAdmin
    <2>2. CASE v # u
      <3>1. members'[v] = members[v] /\ users'[v] = users[v]
        BY <1>7, <2>2 DEF CreateAdmin, Typed
      <3> QED BY <1>1, <1>7, <3>1
    <2> QED BY <2>1, <2>2
  <1>8. ASSUME NEW h \in Handlers, UpdateRole(h) \/ SetEnabled(h), Unfinished(v) => Unfinished(v)'
        PROVE  Right(v)'
    <2> DEFINE u == proc[h].user
    <2>1. u \in Users /\ users[u] \in Account /\ members' = members
      BY <1>8 DEF UpdateRole, SetEnabled, Typed, Local, UserSteps
    <2>3. ASSUME NEW r \in Roles, users' = [users EXCEPT ![u].role = r], v = u
          PROVE  users'[v] \in Account /\ users'[v].groups = users[v].groups
      <3>1. users'[v] = [users[v] EXCEPT !.role = r]
        BY <2>3 DEF Typed
      <3> QED BY <2>1, <2>3, <3>1 DEF Account
    <2>4. ASSUME NEW e \in BOOLEAN, users' = [users EXCEPT ![u].enabled = e], v = u
          PROVE  users'[v] \in Account /\ users'[v].groups = users[v].groups
      <3>1. users'[v] = [users[v] EXCEPT !.enabled = e]
        BY <2>4 DEF Typed
      <3> QED BY <2>1, <2>4, <3>1 DEF Account
    <2>5. CASE UpdateRole(h)
      <3>1. proc[h].role \in Roles
        BY <2>5 DEF UpdateRole, Typed, Local
      <3>2. users' = users \/ users' = [users EXCEPT ![u].role = proc[h].role]
        BY <2>5, Zenon DEF UpdateRole
      <3>3. v # u => users'[v] = users[v]
        BY <3>2 DEF Typed
      <3> QED BY <1>1, <1>8, <2>1, <2>3, <3>1, <3>2, <3>3
    <2>6. CASE SetEnabled(h)
      <3>1. proc[h].enabled \in BOOLEAN
        BY <2>6 DEF SetEnabled, Typed, Local
      <3>2. users' = users \/ users' = [users EXCEPT ![u].enabled = proc[h].enabled]
        BY <2>6, Zenon DEF SetEnabled
      <3>3. v # u => users'[v] = users[v]
        BY <3>2 DEF Typed
      <3> QED BY <1>1, <1>8, <2>1, <2>4, <3>1, <3>2, <3>3
    <2> QED BY <1>8, <2>5, <2>6
  <1>9. ASSUME UNCHANGED <<users, members>>, Unfinished(v) => Unfinished(v)'
        PROVE  Right(v)'
    BY <1>1, <1>9
  <1> HIDE DEF Right
  <1> QED BY <1>3, <1>4, <1>5, <1>6, <1>7, <1>8, <1>9, WhoWrites, Zenon DEF Writes

---------------------------------------------------------------------------
(* Active groups.                                                            *)

AllCleared == \A h \in Handlers : Cleared(proc[h])
Separate == AllCleared /\ OverlapNeedsRace

\* A row that shares nothing with the groups it did not cross keeps them apart.
LEMMA ExclusivePut ==
    ASSUME groups \in Rows, OverlapNeedsRace, NEW g \in Groups, NEW row \in Row,
           groups' = [groups EXCEPT ![g] = row], crossed \ Pairs(g) \subseteq crossed',
           \A x \in Groups \ {g} :
               {g, x} \notin crossed' /\ Reach(row) # Absent /\ Reach(groups[x]) # Absent
                   => NoCommon(row.selector, groups[x].selector)
    PROVE  OverlapNeedsRace'
  <1> SUFFICES ASSUME NEW a \in Groups, NEW b \in Groups, a # b, {a, b} \notin crossed',
                      Reach(groups'[a]) # Absent, Reach(groups'[b]) # Absent
               PROVE  NoCommon(groups'[a].selector, groups'[b].selector)
    BY DEF OverlapNeedsRace, Exclusive, NoCommon, Reach
  <1>1. groups'[g] = row /\ \A x \in Groups \ {g} : groups'[x] = groups[x]
    BY DEF Rows
  <1>2. CASE a = g
    BY <1>1, <1>2
  <1>3. CASE b = g
    <2>1. {g, a} = {a, b}
      BY <1>3
    <2> QED BY <1>1, <1>3, <2>1, NoCommonSymmetric
  <1>4. CASE a # g /\ b # g
    <2>1. {a, b} \notin Pairs(g)
      BY <1>4 DEF Pairs
    <2>2. {a, b} \notin crossed
      BY <2>1
    <2>3. Exclusive(a, b)
      BY <2>2 DEF OverlapNeedsRace
    <2> QED BY <1>1, <1>4, <2>3 DEF Exclusive, NoCommon
  <1> QED BY <1>2, <1>3, <1>4

\* A row that goes back unasked, as one that was read.
LEMMA RestoredApart ==
    ASSUME groups \in Rows, OverlapNeedsRace, NEW g \in Groups, NEW row \in Row,
           groups' = [groups EXCEPT ![g] = row], crossed' = Restored(g, row)
    PROVE  OverlapNeedsRace'
  <1>1. crossed \subseteq crossed'
    BY DEF Restored
  <1>2. ASSUME NEW x \in Groups \ {g}, {g, x} \notin crossed',
               Reach(row) # Absent, Reach(groups[x]) # Absent
        PROVE  NoCommon(row.selector, groups[x].selector)
    <2>1. {g, x} \in Pairs(g)
      BY DEF Pairs
    <2>2. Reach(groups[g]) = Reach(row) /\ {g, x} \notin crossed
      BY <1>2, <2>1 DEF Restored
    <2>3. groups[g].selector = row.selector
      BY <1>2, <2>2, Reached DEF Rows
    <2>4. Exclusive(g, x)
      BY <2>2 DEF OverlapNeedsRace
    <2> QED BY <1>2, <2>2, <2>3, <2>4 DEF Exclusive, NoCommon
  <1> QED BY <1>1, <1>2, ExclusivePut

\* A row that was compared with the groups as they were.
LEMMA ComparedApart ==
    ASSUME groups \in Rows, OverlapNeedsRace, NEW g \in Groups, NEW row \in Row,
           NEW before \in Rows, row.enabled => Apart(before, g, row),
           groups' = [groups EXCEPT ![g] = row], crossed' = Compared(g, before)
    PROVE  OverlapNeedsRace'
  <1>1. crossed \ Pairs(g) \subseteq crossed'
    BY DEF Compared
  <1>2. ASSUME NEW x \in Groups \ {g}, {g, x} \notin crossed',
               Reach(row) # Absent, Reach(groups[x]) # Absent
        PROVE  NoCommon(row.selector, groups[x].selector)
    <2>1. Reach(before[x]) = Reach(groups[x])
      BY <1>2 DEF Compared
    <2>2. before[x].selector = groups[x].selector
      BY <1>2, <2>1, Reached DEF Rows
    <2>3. ~SelectorsOverlap(row.selector, before[x].selector)
      BY <1>2, <2>1, Reached DEF Apart
    <2> QED BY <2>2, <2>3, NoCommonLabels
  <1> QED BY <1>1, <1>2, ExclusivePut

LEMMA OverlapNext ==
    ASSUME Typed, Separate, [Next]_vars
    PROVE  OverlapNeedsRace'
  <1> USE DEF Separate
  <1>1. groups \in Rows
    BY DEF Typed
  <1>2. ASSUME UNCHANGED <<groups, crossed>> PROVE OverlapNeedsRace'
    BY <1>2 DEF OverlapNeedsRace, Exclusive
  <1>3. ASSUME NEW h \in Handlers, NEW g \in Groups, WriteOwners(h, g) PROVE OverlapNeedsRace'
    <2> DEFINE p == proc[h]
               row == p.rows[g]
               written == [row EXCEPT !.owners = OwnersWith(row.owners, p.user, g \in p.selected)]
    <2>1. groups' = [groups EXCEPT ![g] = written] /\ crossed' = Restored(g, row)
      BY <1>3 DEF WriteOwners
    <2>2. row \in Row /\ p.user \in Users
      BY <1>3 DEF WriteOwners, Typed, Local, UserSteps
    <2>3. written \in Row /\ written.enabled = row.enabled /\ written.selector = row.selector
      BY <2>2 DEF Row, OwnersWith
    <2> HIDE DEF written
    <2>4. Reach(written) = Reach(row)
      BY <2>2, <2>3 DEF Reach
    <2>5. crossed' = Restored(g, written)
      BY <2>1, <2>4 DEF Restored
    <2> QED BY <1>1, <2>1, <2>3, <2>5, RestoredApart
  <1>4. ASSUME NEW h \in Handlers, Save(h) PROVE OverlapNeedsRace'
    <2> DEFINE p == proc[h]
    <2>1. p.group \in Groups /\ p.row \in Row /\ p.rows \in Rows
      BY <1>4 DEF Save, Typed, Local, GroupSteps
    <2>2. CASE UNCHANGED <<groups, crossed>>
      BY <1>2, <2>2
    <2>3. CASE groups' = [groups EXCEPT ![p.group] = p.row] /\ p.at = "save"
               /\ crossed' = Compared(p.group, p.rows)
      <3>1. p.row.enabled => Apart(p.rows, p.group, p.row)
        BY <2>3 DEF AllCleared, Cleared
      <3> QED BY <1>1, <2>1, <2>3, <3>1, ComparedApart
    <2>4. CASE groups' = [groups EXCEPT ![p.group] = p.row]
               /\ crossed' = Restored(p.group, p.row)
      BY <1>1, <2>1, <2>4, RestoredApart
    <2> QED BY <1>4, <2>2, <2>3, <2>4, Zenon DEF Save
  <1>5. ASSUME NEW h \in Handlers, UserRequest(h) PROVE UNCHANGED <<groups, crossed>>
    BY <1>5, Zenon DEF UserRequest, CreateUser, SetGroups, CreateAdmin, SetMembership,
                       RemoveMembership, SetRole, SetStatus, history
  <1>6. ASSUME NEW h \in Handlers, GroupRequest(h) PROVE UNCHANGED <<groups, crossed>>
    BY <1>6, Zenon DEF GroupRequest, CreateGroup, UpdateSelector, Enable, SetOwners, Edit, history
  <1>7. ASSUME NEW h \in Handlers, Step(h), ~Save(h), \A g \in Groups : ~WriteOwners(h, g)
        PROVE  UNCHANGED <<groups, crossed>>
    BY <1>7, Zenon DEF Step, ReadRole, Replace, UpdateRole, SetEnabled, ReadMemberships,
                       ListGroups, CheckOverlap, Fails, history
  <1>8. Restart \/ UNCHANGED vars => UNCHANGED <<groups, crossed>>
    BY Zenon DEF Restart, vars, history
  <1> QED BY <1>2, <1>3, <1>4, <1>5, <1>6, <1>7, <1>8, Zenon DEF Next

\* A request that goes on with a row that is cleared, or with none to save.
Clear(h) == \E s : Goto(h, s) /\ Cleared(s)

LEMMA NothingToSave ==
    ASSUME NEW h, NEW s, Goto(h, s), s.at # "save"
    PROVE  Clear(h)
  BY DEF Clear, Cleared

LEMMA ReturnClear == ASSUME NEW h, Return(h) PROVE Clear(h)
  <1>1. Idle.at # "save"
    BY DEF Idle
  <1> QED BY <1>1, NothingToSave DEF Return

LEMMA UserRequestClear ==
    ASSUME NEW h \in Handlers, UserRequest(h)
    PROVE  Clear(h)
  <1>1. PICK u \in Users :
           \/ \E G \in SUBSET Groups, S \in RoleSets : CreateUser(h, u, G, S) \/ SetGroups(h, u, G, S)
           \/ CreateAdmin(h, u)
           \/ \E g \in Groups, S \in RoleSets : SetMembership(h, u, g, S)
           \/ \E g \in Groups : RemoveMembership(h, u, g)
           \/ \E r \in Roles : SetRole(h, u, r)
           \/ \E e \in BOOLEAN : SetStatus(h, u, e)
    BY Zenon DEF UserRequest
  <1>2. ASSUME NEW G, NEW S, CreateUser(h, u, G, S) PROVE Clear(h)
    BY <1>2, NothingToSave DEF CreateUser
  <1>3. ASSUME NEW G, NEW S, SetGroups(h, u, G, S) PROVE Clear(h)
    BY <1>3, NothingToSave DEF SetGroups
  <1>4. CASE CreateAdmin(h, u)
    BY <1>4, NothingToSave DEF CreateAdmin
  <1>5. ASSUME NEW g, NEW S, SetMembership(h, u, g, S) PROVE Clear(h)
    BY <1>5, NothingToSave DEF SetMembership
  <1>6. ASSUME NEW g, RemoveMembership(h, u, g) PROVE Clear(h)
    BY <1>6, NothingToSave DEF RemoveMembership
  <1>7. ASSUME NEW r, SetRole(h, u, r) PROVE Clear(h)
    BY <1>7, NothingToSave DEF SetRole
  <1>8. ASSUME NEW e, SetStatus(h, u, e) PROVE Clear(h)
    BY <1>8, NothingToSave DEF SetStatus
  <1> QED BY <1>1, <1>2, <1>3, <1>4, <1>5, <1>6, <1>7, <1>8, Zenon

LEMMA GroupRequestClear ==
    ASSUME NEW h \in Handlers, GroupRequest(h)
    PROVE  Clear(h)
  <1>1. ASSUME NEW at, at # "save", NEW g, NEW row, Edit(h, at, g, row) PROVE Clear(h)
    BY <1>1, NothingToSave DEF Edit
  <1>2. "overlap" # "save" /\ "save_owners" # "save"
    OBVIOUS
  <1> QED BY <1>1, <1>2, Zenon DEF GroupRequest, CreateGroup, UpdateSelector, Enable, SetOwners

LEMMA StepClear ==
    ASSUME Typed, NEW h \in Handlers, Step(h)
    PROVE  Clear(h)
  <1> DEFINE p == proc[h]
             u == p.user
  <1>1. CASE ReadRole(h)
    BY <1>1, NothingToSave, ReturnClear DEF ReadRole
  <1>2. CASE Replace(h)
    BY <1>2, NothingToSave DEF Replace
  <1>3. CASE UpdateRole(h)
    BY <1>3, NothingToSave, ReturnClear DEF UpdateRole
  <1>4. CASE SetEnabled(h)
    BY <1>4, ReturnClear DEF SetEnabled
  <1>5. CASE ReadMemberships(h)
    BY <1>5, NothingToSave DEF ReadMemberships
  <1>6. CASE ListGroups(h)
    BY <1>6, NothingToSave, ReturnClear DEF ListGroups
  <1>7. ASSUME NEW g \in Groups, WriteOwners(h, g) PROVE Clear(h)
    <2> DEFINE s == [p EXCEPT !.todo = p.todo \ {g}]
    <2>1. s.at = p.at /\ p.at = "write"
      BY <1>7 DEF WriteOwners
    <2>2. Return(h) \/ Goto(h, s)
      BY <1>7, Zenon DEF WriteOwners
    <2> HIDE DEF s
    <2> QED BY <2>1, <2>2, NothingToSave, ReturnClear
  <1>8. CASE CheckOverlap(h)
    <2> DEFINE g == p.group
               rows == [groups EXCEPT ![g] = p.rows[g]]
               s == [p EXCEPT !.at = "save", !.rows = rows]
    <2>1. CASE Return(h)
      BY <2>1, ReturnClear
    <2>2. CASE ~Return(h)
      <3>1. Goto(h, s) /\ ~(p.row.enabled /\ Overlaps(g, p.row))
        BY <1>8, <2>2, Zenon DEF CheckOverlap
      <3>2. g \in Groups /\ \A x \in Groups \ {g} : rows[x] = groups[x]
        BY <1>8 DEF CheckOverlap, Typed, Local, GroupSteps, Rows
      <3>3. p.row.enabled => Apart(rows, g, p.row)
        BY <3>1, <3>2, Zenon DEF Overlaps, Apart, Reach
      <3>4. s.group = g /\ s.row = p.row /\ (s.at = "save" => s.rows = rows)
        <4>1. Local(users, p) /\ p.at = "overlap"
          BY <1>8 DEF CheckOverlap, Typed
        <4> QED BY <4>1
      <3> HIDE DEF s, rows
      <3>5. Cleared(s)
        BY <3>3, <3>4 DEF Cleared
      <3> QED BY <3>1, <3>5 DEF Clear
    <2> QED BY <2>1, <2>2
  <1>9. CASE Save(h)
    BY <1>9, ReturnClear DEF Save
  <1>10. CASE Fails(h)
    BY <1>10, NothingToSave, ReturnClear DEF Fails
  <1> QED BY <1>1, <1>2, <1>3, <1>4, <1>5, <1>6, <1>7, <1>8, <1>9, <1>10, Zenon DEF Step

LEMMA ClearedNext ==
    ASSUME Typed, AllCleared, [Next]_vars
    PROVE  AllCleared'
  <1>1. SUFFICES ASSUME NEW k \in Handlers PROVE Cleared(proc'[k])
    BY DEF AllCleared, Cleared
  <1>2. ASSUME NEW h \in Handlers, Clear(h) PROVE Cleared(proc'[k])
    <2>1. PICK s : Goto(h, s) /\ Cleared(s)
      BY <1>2 DEF Clear
    <2>2. proc'[k] = IF k = h THEN s ELSE proc[k]
      BY <2>1 DEF Goto, Typed
    <2> QED BY <2>1, <2>2 DEF AllCleared
  <1>3. CASE Restart
    BY <1>3 DEF Restart, Cleared, Idle
  <1>4. CASE UNCHANGED vars
    BY <1>4 DEF vars, AllCleared
  <1> QED BY <1>2, <1>3, <1>4, UserRequestClear, GroupRequestClear, StepClear, Zenon DEF Next

---------------------------------------------------------------------------
(* The theorems.                                                             *)

Inv == Typed /\ AdministratorRemains /\ Matching /\ Separate

LEMMA InitInv == Init => Inv
  <1> SUFFICES ASSUME Init PROVE Inv
    OBVIOUS
  <1>1. AdministratorRemains
    <2>1. PICK A \in (SUBSET Users) \ {{}} :
             users = [u \in Users |->
                IF u \in A THEN NewAdmin
                ELSE IF members[u] = << >> THEN Absent
                ELSE Member(DOMAIN members[u], LegacyRole(AllRoles(members[u])))]
      BY DEF Init
    <2>2. PICK a \in A : TRUE
      BY <2>1
    <2>3. users[a] = NewAdmin /\ NewAdmin \in Account
      BY <2>1, <2>2, RoleTypes DEF NewAdmin, Account
    <2> QED BY <2>1, <2>3 DEF AdministratorRemains, IsAdmin, Exists, NewAdmin
  <1>2. Separate
    <2>1. /\ \A g, x \in Groups : g # x => Exclusive(g, x)
          /\ proc = [h \in Handlers |-> Idle]
      BY Zenon DEF Init
    <2> QED BY <2>1 DEF Separate, AllCleared, OverlapNeedsRace, Cleared, Idle
  <1> QED BY <1>1, <1>2, TypedInit, MatchingInit DEF Inv

LEMMA NextInv == Inv /\ [Next]_vars => Inv'
  <1> SUFFICES ASSUME Inv, [Next]_vars PROVE Inv'
    OBVIOUS
  <1>1. Typed'
    BY NextTyped DEF Inv
  <1>2. AdministratorRemains'
    BY <1>1, AdministratorKept DEF Inv
  <1>3. Matching'
    BY <1>1, MatchingNext DEF Inv
  <1>4. Separate'
    <2>1. OverlapNeedsRace'
      BY OverlapNext DEF Inv
    <2>2. AllCleared'
      BY ClearedNext DEF Inv, Separate
    <2> QED BY <2>1, <2>2 DEF Separate
  <1> QED BY <1>1, <1>2, <1>3, <1>4 DEF Inv

LEMMA Invariance == Spec => []Inv
  <1> QED BY InitInv, NextInv, PTL DEF Spec

(* Accounts, memberships and groups keep the types of their columns.         *)
THEOREM TypesHold == Spec => []TypeOK
  <1>1. Inv => TypeOK
    <2>1. Typed => \A h \in Handlers : proc[h].at \in Places
      BY Zenon DEF Typed, Local
    <2> QED BY <2>1, Zenon DEF Inv, Typed, TypeOK, Rows, Histories
  <1> QED BY <1>1, Invariance, PTL

(* Somebody can always administer FleetAMP, whatever requests of the Users   *)
(* page (users.go) run at once: each write counts the others in its own      *)
(* transaction (auth_store.go).                                              *)
THEOREM AnAdministratorRemains == Spec => []AdministratorRemains
  <1>1. Inv => AdministratorRemains
    BY DEF Inv
  <1> QED BY <1>1, Invariance, PTL

(* The membership tables never say more than the column group_ids, and less  *)
(* only of an account whose creation is under way or failed half way         *)
(* (users.go, createUser; membership_store.go, ReplaceMemberships).          *)
THEOREM ColumnsMatch == Spec => []GroupIDsMatch
  <1>1. Inv => GroupIDsMatch
    BY DEF Inv, Matching
  <1> QED BY <1>1, Invariance, PTL

(* The selectors of two active groups share no collector unless these two    *)
(* crossed, whatever races other groups had (validateGroupOverlap,           *)
(* groups.go).                                                               *)
THEOREM ComparedGroupsExclusive == Spec => []OverlapNeedsRace
  <1>1. Inv => OverlapNeedsRace
    BY DEF Inv, Separate
  <1> QED BY <1>1, Invariance, PTL
=============================================================================
