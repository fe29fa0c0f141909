------------------------- MODULE TenantAccessHistory -------------------------
(***************************************************************************)
(* TenantAccess with the memory its handlers do not have: every role row   *)
(* and every group membership that was ever committed.  The two history    *)
(* variables only record; they constrain no step.                          *)
(***************************************************************************)
EXTENDS TenantAccess

VARIABLES
  granted,   \* rows tenant_members has ever held
  joined     \* rows custom_group_members has ever held

hvars == <<vars, granted, joined>>

HInit == Init /\ granted = members /\ joined = groupMembers
Record == granted' = granted \cup members' /\ joined' = joined \cup groupMembers'
HNext == Next /\ Record
HSpec == HInit /\ [][HNext]_hvars
HIndivisibleSpec == HInit /\ [][HNext /\ Undisturbed]_hvars

EverGroups(u) == {g \in CustomGroups : <<g, u>> \in joined}

(* However requests and handlers interleave, a cached role was once        *)
(* committed for a principal that the user is, or belongs to in the        *)
(* identity provider, or was once a member of: no entry holds a role of    *)
(* another user or of a group the user never joined                        *)
(* (get_user_tenants_with_permissions, ContextIdentityUser.groups).        *)
CachedRolesHaveASource ==
  \A u \in Users : Holds(rolesCache, u) =>
    \A r \in rolesCache[u] :
      \E p \in PrincipalsOf(u, EverGroups(u)) : <<p, r>> \in granted

(* With no write handler in progress, a cached role comes from a principal *)
(* the user still acts through: nothing is remembered through a group the  *)
(* user has left (delete_member, clear_cache_for_user).                    *)
NoRoleThroughFormerGroup ==
  Quiet => \A u \in Users : Holds(rolesCache, u) =>
    \A r \in rolesCache[u] :
      \E p \in PrincipalsOf(u, GroupsOf(u)) : <<p, r>> \in granted
=============================================================================
