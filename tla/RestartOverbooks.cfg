CONSTANTS
  n1 = n1
  n2 = n2
  ga = ga
  gb = gb
  gs = gs
  a = a
  b = b
  c = c
  d = d
  m = m
  s = s
  w = w
  x = x
  y = y
  z = z
  gang1 = gang1
  NoGang = NoGang
  Jobs = {a, b, c, d, m, s, w, x, y, z}
  JobSpec <- AllJobs
  GPUs = {ga, gb, gs}
  MPSGPUs = {gs}
  NodeOf <- MCNodeOf
  Index <- MCIndex
  Total <- One
  Preemption = TRUE
  MaxRetries = 1
  PriorityBoost = 10
  GangSize <- OneGang
  Scenarios <- CrashScene
CHECK_DEADLOCK FALSE
SPECIFICATION Spec
INVARIANT ExclusiveOccupancy
