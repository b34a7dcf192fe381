CONSTANTS
  p0 = p0
  d0 = d0
  d1 = d1
  u0 = u0
  r1 = r1
  r2 = r2
  Workers = {p0, d0, d1, u0}
  Base = {p0, d0, u0}
  RoleOf <- MCRoleOf
  MaxWorkers <- MCMaxWorkers
  Requests = {r1, r2}
  Sustain = 1
  Cooldown = 2
  MaxGap = 2
  AllowScaleUp = TRUE
  AllowScaleDown = TRUE
  DryRun = FALSE
  RebalanceFaults <- OneFault
SPECIFICATION Spec
INVARIANT InflightExact
INVARIANT RoleKept
INVARIANT RemovesDrained
INVARIANT DrainWaits
INVARIANT DrainSettles
SYMMETRY RequestSymmetry
