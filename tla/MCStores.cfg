SPECIFICATION StoresSpec
CONSTANTS
  apiKey = apiKey
  basicAuth = basicAuth
  s1 = s1
  s2 = s2
  b1 = b1
  r1 = r1
  r2 = r2
  r3 = r3
  sys = sys
  ann = ann
  o1 = o1
  o2 = o2
  Ids = {c1}
  Workers = {1, 2}
  Types = {apiKey, basicAuth}
  Values = {s1, s2, b1}
  FormatOf <- MCFormatOf
  NoType = NoType
  NoSecret = NoSecret
  Resources = {r1, r2, r3}
  MaxVisits = 1
  MaxBatch = 2
  MaxSyncs = 2
  People = {sys, ann}
  Organizations = {o1, o2}
  HomeOf <- MCHomeOf
  SystemAdmins = {sys}
  Given = {"ORGANISATION_GLOBAL_ADMIN", "ORGANISATION_TENANT_CREATOR"}
  Viewer = ann
  MaxWrites = 2
  NoJob = NoJob
  NoVisit = NoVisit
  NoEntry = NoEntry
  Nobody = Nobody
  PinnedUri = FALSE
  Retyping = TRUE
  Faults = TRUE
INVARIANTS
  StoresTypeOK RowsNameStoredSecrets LiveCredentialsAreUsable
  DeletedCredentialsLeaveNothing ReadSecretsFit
  RowsHaveTheirObject MissingOnlyIfDeleted NothingLeftNorLost
  VisitsBounded ListedAreLatest AuthorityStaysInOrganization
PROPERTIES OrganizationsRecover DeletedTenantsForgotten
CHECK_DEADLOCK FALSE
