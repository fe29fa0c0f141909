SPECIFICATION FairSpec
CONSTANTS
  admin = admin
  user = user
  team = team
  dept = dept
  owner = owner
  Users = {user}
  CustomGroups = {team}
  IdentityGroups = {dept}
  Roles = {owner}
  Workers = {w1, w2}
  Admin = user
  AdminRole = owner
  IdpGroupsOf <- MCIdp
  Faults = TRUE
  NoValue = NoValue
PROPERTIES EventuallyCoherent
