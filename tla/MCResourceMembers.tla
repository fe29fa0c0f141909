-------------------------- MODULE MCResourceMembers --------------------------
EXTENDS ResourceMembers

CONSTANTS alice, bob, team, dept

(* alice creates the resource; bob acts for himself and through two groups. *)
MCGroupsOf == [u \in Users |-> IF u = bob THEN GroupIds ELSE {}]
MCTenantRoles == [u \in Users |-> {}]
MCAdmins == [u \in Users |-> IF u = alice THEN {"RESOURCE_ADMIN"} ELSE {"READER"}]
MCOrgNone == [u \in Users |-> {}]
MCOrgAdmin == [u \in Users |-> IF u = bob THEN {"ORGANISATION_TENANT_ADMIN"} ELSE {}]
==============================================================================
