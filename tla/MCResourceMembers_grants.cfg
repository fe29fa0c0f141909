SPECIFICATION Spec
CONSTANTS
  alice = alice
  bob = bob
  team = team
  dept = dept
  Users = {alice, bob}
  GroupIds = {team}
  CustomGroups = {team}
  GroupsOf <- MCGroupsOf
  TenantRolesOf <- MCAdmins
  OrgRolesOf <- MCOrgNone
  Workers = {w1, w2}
  Creator = alice
  Operations = {"set", "drop"}
  Ids = {i1, i2, i3, i4}
  NoId = NoId
  NoRole = NoRole
  NoEntry = NoEntry
  Faults = TRUE
  Indivisible = FALSE
INVARIANTS PermissionsAgree BulkAgrees
PROPERTIES GrantsAreAtomic
