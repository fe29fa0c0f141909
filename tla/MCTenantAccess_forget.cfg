SPECIFICATION ApartSpec
CONSTANTS
  admin = admin
  user = user
  team = team
  dept = dept
  owner = owner
  Users = {user}
  CustomGroups = {team}
  IdentityGroups = {}
  Roles = {owner}
  Workers = {w1, w2}
  Admin = user
  AdminRole = owner
  IdpGroupsOf <- MCIdpNone
  Faults = FALSE
  NoValue = NoValue
INVARIANTS DeletedGroupsForgotten
