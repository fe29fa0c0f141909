SPECIFICATION FairSpec
CONSTANTS
  admin = admin
  guest = guest
  Users = {admin, guest}
  GroupIds = {}
  GroupsOf <- MCGroupsOf
  TenantRolesOf <- MCTenantRolesOf
  OrgRolesOf <- MCOrgRolesOf
  NoRole = NoRole
  Workers = {1, 2}
  Viewer = guest
  Watched <- MCWatched
  MaxChanges = 2
  Grants = {"WRITE"}
  FaultyKinds = {"chat_agents", "credentials", "workflows"}
  NoEntry = NoEntry
  NoJob = NoJob
INVARIANTS TypeOK StaleOnlyByRace StaleOnlyIfOvertaken RoutesAgree
PROPERTIES RefusedChangesNothing EventuallyFresh
CHECK_DEADLOCK FALSE
