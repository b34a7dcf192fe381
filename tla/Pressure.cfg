CONSTANTS
  p0 = p0
  d0 = d0
  d1 = d1
  u0 = u0
  Workers = {p0, d0, d1, u0}
  RoleOf <- MCRoleOf
  r1 = r1
  r2 = r2
  Requests = {r1, r2}
  Lists <- MCLists
  Sustain = 2
  Cooldown = 3
  HotLevel = 2
  MaxLevel = 2
SYMMETRY RequestSymmetry
SPECIFICATION Spec
INVARIANT InflightBalanced
INVARIANT AbsorbedByUnified
PROPERTY Earned
INVARIANT CalmSettles
