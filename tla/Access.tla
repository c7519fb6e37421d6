-------------------------------- MODULE Access --------------------------------
(***************************************************************************)
(* Who may do what in which organisation: direct assignments and access    *)
(* groups (server/app/database.py), the questions asked of them (auth.py)  *)
(* and the endpoints that change them (main.py).                            *)
(*                                                                         *)
(* Every endpoint is one write transaction on these tables, whatever it has *)
(* looked up before; it is an operator from tables to tables, and what is   *)
(* stated below holds for any contents, in which every sequence of them is  *)
(* included.  A write that refers to a row that has gone is refused by the  *)
(* foreign keys.                                                            *)
(***************************************************************************)
EXTENDS Naturals, FiniteSets

CONSTANTS
  Users, Orgs, Groups,
  OtherRoles,         \* texts given as a role that are none of those the code knows
  Permissions,        \* those of ALL_PERMISSIONS that the instance looks at
  NoRow               \* no row of a table; the organisation of a global resource

\* OrgUserRequest and AccessGroupOrgRequest take any text for a role, also none.
Roles == {"viewer", "member", "admin", ""} \cup OtherRoles
Effects == {"allow", "deny"}

ASSUME NoRowAssumption == NoRow \notin Roles \cup Effects \cup Orgs
ASSUME PermissionsAssumption ==
  Permissions \subseteq {"terminal", "scripts", "power", "wol", "device_delete",
                         "agent_delete"}

\* The tables: organizations, access_groups, org_users, access_group_members,
\* access_group_orgs and access_group_perms.
Tables ==
  [orgs : SUBSET Orgs, groups : SUBSET Groups,
   direct : [Users \X Orgs -> Roles \cup {NoRow}],
   member : SUBSET (Groups \X Users),
   grant : [Groups \X Orgs -> Roles \cup {NoRow}],
   perm : [Groups \X Orgs \X Permissions -> Effects \cup {NoRow}]]

\* The foreign keys.
Sound(t) ==
  /\ \A u \in Users, o \in Orgs : t.direct[u, o] # NoRow => o \in t.orgs
  /\ \A m \in t.member : m[1] \in t.groups
  /\ \A g \in Groups, o \in Orgs :
       /\ t.grant[g, o] # NoRow => g \in t.groups /\ o \in t.orgs
       /\ \A p \in Permissions :
            t.perm[g, o, p] # NoRow => g \in t.groups /\ o \in t.orgs

-----------------------------------------------------------------------------
(* The questions.                                                          *)

GroupsOf(t, u) == {g \in Groups : <<g, u>> \in t.member}

Rank(role) ==
  CASE role = "admin" -> 3 [] role = "member" -> 2 [] role = "viewer" -> 1 [] OTHER -> 0

\* user_effective_role: the best of the direct assignment, unless its role is an
\* empty text, and of the groups'; of two that are as good the direct one, or the
\* one whose row comes first, in no order that the query asks for.
user_effective_role(t, u, o) ==
  LET direct == IF t.direct[u, o] = "" THEN NoRow ELSE t.direct[u, o]
      roles == ({direct} \cup {t.grant[g, o] : g \in GroupsOf(t, u)}) \ {NoRow}
      best == {r \in roles : \A other \in roles : Rank(other) <= Rank(r)}
  IN  CASE roles = {} -> NoRow
        [] direct \in best -> direct
        [] OTHER -> CHOOSE r \in best : TRUE

\* Mutant of orgs_for_user: as it was before there were groups.
orgs_direct_only(t, u, admin) ==
  IF admin THEN t.orgs ELSE {o \in t.orgs : t.direct[u, o] # NoRow}

\* orgs_for_user
orgs_for_user(t, u, admin) ==
  IF admin THEN t.orgs
  ELSE {o \in t.orgs : \/ t.direct[u, o] # NoRow
                       \/ \E g \in GroupsOf(t, u) : t.grant[g, o] # NoRow}

RoleAllows(role) ==
  CASE role = "admin" -> Permissions
    [] role = "member" -> Permissions \cap {"terminal", "scripts", "power", "wol"}
    [] OTHER -> {}

\* user_effective_perms: the permissions with effect "allow"
user_effective_perms(t, u, o) ==
  LET role == user_effective_role(t, u, o)
      By(p, effect) == {g \in GroupsOf(t, u) : t.perm[g, o, p] = effect}
  IN {p \in Permissions :
        /\ role # NoRow
        /\ By(p, "deny") = {}
        /\ By(p, "allow") # {} \/ p \in RoleAllows(role)}

\* require_org and require_scope (NoRow is a global resource)
MayEnter(t, u, admin, o) ==
  admin \/ (o # NoRow /\ user_effective_role(t, u, o) # NoRow)

\* check_permission
check_permission(t, u, admin, o, p) == admin \/ p \in user_effective_perms(t, u, o)

\* _sso_identity: what a companion app is told, through a key confined to the
\* organisation "scope" or to none
sso_orgs(t, u, admin, scope) ==
  [o \in {o \in orgs_for_user(t, u, admin) : scope \in {NoRow, o}} |->
     LET role == user_effective_role(t, u, o)
     IN  IF role \notin {NoRow, ""} THEN role ELSE IF admin THEN "admin" ELSE "member"]

-----------------------------------------------------------------------------
(* The endpoints.                                                          *)

\* create_org, its maker becomes its administrator
CreateOrg(t, u, o) ==
  [t EXCEPT !.orgs = @ \cup {o}, !.direct = [@ EXCEPT ![<<u, o>>] = "admin"]]

\* delete_org, ON DELETE CASCADE
DeleteOrg(t, o) ==
  [t EXCEPT !.orgs = @ \ {o},
            !.direct = [k \in DOMAIN @ |-> IF k[2] = o THEN NoRow ELSE @[k]],
            !.grant = [k \in DOMAIN @ |-> IF k[2] = o THEN NoRow ELSE @[k]],
            !.perm = [k \in DOMAIN @ |-> IF k[2] = o THEN NoRow ELSE @[k]]]

\* delete_user: takes none of these rows with it, and whoever has an account of
\* that name next has what they give.
RemoveAccount(t, u) == t

\* add_org_user: INSERT OR REPLACE
AddOrgUser(t, o, u, role) ==
  IF o \in t.orgs THEN [t EXCEPT !.direct = [@ EXCEPT ![<<u, o>>] = role]] ELSE t

CreateGroup(t, g) == [t EXCEPT !.groups = @ \cup {g}]

DeleteGroup(t, g) ==
  [t EXCEPT !.groups = @ \ {g},
            !.member = {m \in @ : m[1] # g},
            !.grant = [k \in DOMAIN @ |-> IF k[1] = g THEN NoRow ELSE @[k]],
            !.perm = [k \in DOMAIN @ |-> IF k[1] = g THEN NoRow ELSE @[k]]]

AddMember(t, g, u) ==
  IF g \in t.groups THEN [t EXCEPT !.member = @ \cup {<<g, u>>}] ELSE t

RemoveMember(t, g, u) == [t EXCEPT !.member = @ \ {<<g, u>>}]

SetGroupOrg(t, g, o, role) ==
  IF g \in t.groups /\ o \in t.orgs THEN [t EXCEPT !.grant = [@ EXCEPT ![<<g, o>>] = role]] ELSE t

\* remove_access_group_org: the permissions go with it
RemoveGroupOrg(t, g, o) ==
  [t EXCEPT !.grant = [@ EXCEPT ![<<g, o>>] = NoRow],
            !.perm = [k \in DOMAIN @ |-> IF k[1] = g /\ k[2] = o THEN NoRow ELSE @[k]]]

\* set_access_group_perm, also without a row in access_group_orgs
SetPerm(t, g, o, p, effect) ==
  IF g \in t.groups /\ o \in t.orgs THEN [t EXCEPT !.perm = [@ EXCEPT ![<<g, o, p>>] = effect]] ELSE t

RemovePerm(t, g, o, p) == [t EXCEPT !.perm = [@ EXCEPT ![<<g, o, p>>] = NoRow]]

\* What the endpoints can make of the tables.
Changed(t) ==
  UNION {
    {RemoveAccount(t, u) : u \in Users},
    UNION {{CreateOrg(t, u, o), DeleteOrg(t, o)} \cup {AddOrgUser(t, o, u, r) : r \in Roles}
           : u \in Users, o \in Orgs},
    UNION {{CreateGroup(t, g), DeleteGroup(t, g)} : g \in Groups},
    UNION {{AddMember(t, g, u), RemoveMember(t, g, u)} : g \in Groups, u \in Users},
    UNION {{RemoveGroupOrg(t, g, o)} \cup {SetGroupOrg(t, g, o, r) : r \in Roles}
           : g \in Groups, o \in Orgs},
    UNION {{RemovePerm(t, g, o, p)} \cup {SetPerm(t, g, o, p, e) : e \in Effects}
           : g \in Groups, o \in Orgs, p \in Permissions}}

-----------------------------------------------------------------------------
(* Properties.                                                             *)

\* The organisation is a person's by an empty role only, which one query takes
\* for an assignment and the other for none.
NoRoleAtAll(t, u, o) ==
  t.direct[u, o] = "" /\ \A g \in GroupsOf(t, u) : t.grant[g, o] = NoRow

\* Whatever the tables hold, the questions the server asks of them agree, but for
\* roles that are empty texts: a person is let in where the organisation is shown
\* to them, unless it is by an empty direct role only; has a permission only where
\* they are let in; and a companion app is told the role that the server itself
\* goes by, "member" for an empty one.
QuestionsAgree(t) ==
  \A u \in Users, o \in t.orgs, admin \in BOOLEAN :
    /\ MayEnter(t, u, admin, o) <=>
         o \in orgs_for_user(t, u, admin) /\ (admin \/ ~NoRoleAtAll(t, u, o))
    /\ \A p \in Permissions :
         check_permission(t, u, admin, o, p) => MayEnter(t, u, admin, o)
    /\ MayEnter(t, u, FALSE, o) =>
         LET role == user_effective_role(t, u, o)
         IN  sso_orgs(t, u, FALSE, NoRow)[o] = IF role = "" THEN "member" ELSE role

\* Whatever contents an endpoint can find in the tables, it leaves contents of
\* which the questions agree, and through which nobody has access by an
\* organisation or a group that has been deleted.  (By the name of an account that
\* has been deleted its successor does: RemoveAccount.)
TablesAreConsistent ==
  \A t \in {s \in Tables : Sound(s)} :
    /\ QuestionsAgree(t)
    /\ \A s \in Changed(t) : Sound(s)
=============================================================================
