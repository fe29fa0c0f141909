SPECIFICATION Spec
CONSTANTS
  admin = admin
  guest = guest
  Users = {admin, guest}
  GroupIds = {}
  GroupsOf <- MCGroupsOf
  TenantRolesOf <- MCTenantRolesOf
  OrgRolesOf <- MCOrgRolesOf
  NoRole = NoRole
  Workers = {1, 2}
  Viewer = guest
  Watched <- MCTenantDetail
  MaxChanges = 2
  Grants = {"WRITE"}
  FaultyKinds = {}
  NoEntry = NoEntry
  NoJob = NoJob
INVARIANTS StaleOnlyByRace
CHECK_DEADLOCK FALSE
