------------------------------ MODULE MCResources ------------------------------
EXTENDS Resources, TLC

CONSTANTS admin, guest

MCGroupsOf == [u \in Users |-> {}]
MCTenantRolesOf == [u \in Users |-> IF u = admin THEN {"TENANT_GLOBAL_ADMIN"} ELSE {"RESOURCE_CREATOR"}]
MCOrgRolesOf == [u \in Users |-> {}]
(* Lists and details are the work of a handler of each kind; members and   *)
(* tags and favourites that of one handler for all kinds.                  *)
MCWatched ==
  [k \in DOMAIN Routes |->
     CASE k = "tenants" -> {"list"}
       [] k \in {"workflows", "conversations"} -> {"list", "detail", "permissions"}
       [] k \in {"chat_agents", "ai_models"} -> {"list", "detail", "tags"}
       [] k = "chat_widgets" -> {"list", "detail", "favorites"}
       [] OTHER -> {"list", "detail"}]
(* An entry that invalidate_tenant_cache is meant to delete.               *)
MCTenantDetail == [tenants |-> {"detail"}]
(* An entry that a change of tags is meant to delete (README, deviations). *)
MCTaggedDetail == [ai_models |-> {"detail"}]
===============================================================================
