------------------------ MODULE MCTenantAccessHistory ------------------------
EXTENDS TenantAccessHistory, Naturals, TLC

CONSTANTS admin, user, team, dept, owner

MCIdp == [u \in Users |-> IF u = user THEN {dept} ELSE {}]
MCIdpNone == [u \in Users |-> {}]

WorkersAlike == Permutations(Workers)
(* Besides the first administrator's, one role row is ever granted, and    *)
(* the administrator, who creates the group, stays in it.                  *)
OneGrant ==
  /\ Cardinality(granted) <= 2
  /\ \A g \in CustomGroups : Live(g) => <<g, Admin>> \in groupMembers
=============================================================================
