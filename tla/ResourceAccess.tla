---------------------------- MODULE ResourceAccess ----------------------------
(***************************************************************************)
(* Who may do what with a resource (a workflow, a chat agent, ...).  The   *)
(* question is answered in four places of the service: by the middleware   *)
(* before a handler runs (check_permissions), by the permissions handler   *)
(* (check_user_permission), by the my_permission field of a response, for  *)
(* one resource or in bulk (permission_resolver), and by the query of a    *)
(* list (list_workflows and its like).  A resource's member table is a     *)
(* function from principals to the one role each has (the table is unique  *)
(* on resource and principal).                                             *)
(***************************************************************************)
EXTENDS Integers, FiniteSetsExt

CONSTANTS
  Users,           \* IDENTITY_USER principals
  GroupIds,        \* identity and custom groups
  GroupsOf,        \* user.groups: user -> groups
  TenantRolesOf,   \* user.tenants: user -> roles on the resource's tenant
  OrgRolesOf,      \* request.state.organization_context: user -> roles
  NoRole           \* no row, no permission

Principals == Users \cup GroupIds
Levels == {"READ", "WRITE", "ADMIN"}
AdminRoles == {"TENANT_GLOBAL_ADMIN", "RESOURCE_ADMIN"}
OrgBypassRoles == {"ORGANISATION_GLOBAL_ADMIN", "ORGANISATION_TENANT_ADMIN"}

ASSUME AccessConstants ==
  /\ GroupsOf \in [Users -> SUBSET GroupIds]
  /\ \A u \in Users : IsFiniteSet(GroupsOf[u])
  /\ DOMAIN TenantRolesOf = Users /\ DOMAIN OrgRolesOf = Users
  /\ NoRole \notin Levels

Members == [Principals -> Levels \cup {NoRole}]

PrincipalIds(u) == {u} \cup GroupsOf[u]
RolesHeld(u, member) == {member[p] : p \in PrincipalIds(u)} \ {NoRole}
IsAdmin(u) == TenantRolesOf[u] \cap AdminRoles # {}

-----------------------------------------------------------------------------
(* check_permissions: the lowest of the required levels decides.           *)
AllowedRoles(required) ==
  CASE "READ" \in required -> {"READ", "WRITE", "ADMIN"}
    [] "READ" \notin required /\ "WRITE" \in required -> {"WRITE", "ADMIN"}
    [] required = {"ADMIN"} -> {"ADMIN"}
    [] OTHER -> {}

CheckPermissions(u, required, member) ==
  \/ OrgRolesOf[u] \cap OrgBypassRoles # {}
  \/ IsAdmin(u)
  \/ \E p \in PrincipalIds(u) : member[p] \in AllowedRoles(required)

(* ResourcePermissionsHandler                                              *)
GetAllowedRoles(level) ==
  CASE level = "READ" -> {"READ", "WRITE", "ADMIN"}
    [] level = "WRITE" -> {"WRITE", "ADMIN"}
    [] OTHER -> {level}

CheckUserPermission(u, level, member) ==
  IsAdmin(u) \/ RolesHeld(u, member) \cap GetAllowedRoles(level) # {}

(* permission_resolver                                                     *)
Hierarchy(role) ==
  CASE role = "ADMIN" -> 3 [] role = "WRITE" -> 2 [] role = "READ" -> 1 [] OTHER -> 0

(* Mutated: the last of the levels the user holds, in alphabetical order.  *)
ResolveMyPermissionLast(u, member) ==
  LET roles == RolesHeld(u, member) IN
  CASE IsAdmin(u) -> "ADMIN"
    [] ~IsAdmin(u) /\ roles = {} -> NoRole
    [] OTHER -> IF "WRITE" \in roles THEN "WRITE" ELSE IF "READ" \in roles THEN "READ" ELSE "ADMIN"
ResolveMyPermission(u, member) ==
  LET roles == RolesHeld(u, member) IN
  CASE IsAdmin(u) -> "ADMIN"
    [] ~IsAdmin(u) /\ roles = {} -> NoRole
    [] OTHER -> CHOOSE r \in roles : \A s \in roles : Hierarchy(s) <= Hierarchy(r)

(* Mutated: the last row read wins.                                        *)
LastRead(p, best, member) == IF member[p] # NoRole THEN member[p] ELSE best
(* resolve_my_permissions_bulk keeps, row by row, the higher of the two.   *)
Higher(p, best, member) ==
  IF Hierarchy(member[p]) > Hierarchy(best) THEN member[p] ELSE best
BulkPermission(u, member) ==
  IF IsAdmin(u) THEN "ADMIN"
  ELSE FoldSet(LAMBDA p, best : Higher(p, best, member), NoRole, PrincipalIds(u))

(* list_workflows: an administrator sees every resource, another user      *)
(* those it has a row for.                                                 *)
Listed(u, member) == IsAdmin(u) \/ \E p \in PrincipalIds(u) : member[p] # NoRole

-----------------------------------------------------------------------------
(* A user is admitted at a level exactly if my_permission says so.         *)
Effective(u, member) ==
  \A level \in Levels :
    CheckPermissions(u, {level}, member) <=>
      Hierarchy(ResolveMyPermission(u, member)) >= Hierarchy(level)

(* Neither way of checking, of resolving or of listing disagrees with the  *)
(* middleware, for a user without a role in the organization.              *)
Agreement(u, member) ==
  /\ Effective(u, member)
  /\ \A level \in Levels :
       CheckUserPermission(u, level, member) <=> CheckPermissions(u, {level}, member)
  /\ \A required \in SUBSET Levels :
       CheckPermissions(u, required, member) <=>
         IsAdmin(u) \/ \E level \in required : CheckPermissions(u, {level}, member)
  /\ Listed(u, member) <=> CheckPermissions(u, {"READ"}, member)
===============================================================================
