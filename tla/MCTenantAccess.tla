--------------------------- MODULE MCTenantAccess ---------------------------
EXTENDS TenantAccess, TLC

CONSTANTS admin, user, team, dept, owner

MCIdp == [u \in Users |-> IF u = user THEN {dept} ELSE {}]
MCIdpNone == [u \in Users |-> {}]
=============================================================================
