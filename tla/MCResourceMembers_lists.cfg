SPECIFICATION Spec
CONSTANTS
  alice = alice
  bob = bob
  team = team
  dept = dept
  Users = {alice, bob}
  GroupIds = {}
  CustomGroups = {}
  GroupsOf <- MCGroupsOf
  TenantRolesOf <- MCTenantRoles
  OrgRolesOf <- MCOrgNone
  Workers = {w1, w2}
  Creator = alice
  Operations = {"set", "delete", "drop", "list"}
  Ids = {i1, i2, i3, i4, i5}
  NoId = NoId
  NoRole = NoRole
  NoEntry = NoEntry
  Faults = FALSE
  Indivisible = TRUE
INVARIANTS TypeOK IdsNameRows ListCoherent
