SPECIFICATION IndivisibleSpec
CONSTANTS
  admin = admin
  user = user
  team = team
  dept = dept
  owner = owner
  Users = {admin, user}
  CustomGroups = {}
  IdentityGroups = {}
  Roles = {owner}
  Workers = {w1, w2}
  Admin = admin
  AdminRole = owner
  IdpGroupsOf <- MCIdpNone
  Faults = FALSE
  NoValue = NoValue
INVARIANTS QuietCoherence
