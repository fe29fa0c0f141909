SPECIFICATION ApartSpec
CONSTANTS
  admin = admin
  user = user
  team = team
  dept = dept
  owner = owner
  Users = {admin, user}
  CustomGroups = {team}
  IdentityGroups = {dept}
  Roles = {owner}
  Workers = {w1, w2}
  Admin = admin
  AdminRole = owner
  IdpGroupsOf <- MCIdp
  Faults = FALSE
  NoValue = NoValue
INVARIANTS TypeOK QuietCoherence StaleOnlyWhilePending
