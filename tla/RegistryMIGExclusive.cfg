CONSTANTS
  n1 = n1
  n2 = n2
  ga = ga
  gs = gs
  gb = gb
  m1 = m1
  p1 = p1
  p2 = p2
  p3 = p3
  p4 = p4
  Pods = {p2, p3}
  GPUs = {ga, gb}
  MIGs = {m1}
  Nodes = {n1, n2}
  MPSGPUs = {}
  MaxMem = 1
  MaxEntries = 3
  NodeOf <- MCNodeOf
  Total <- MCTotal
  Parent <- MCParent
  MIGMem <- MCMIGMem
  MemIO <- MCMemIO
  MemOther <- MCMemOther
  SharedPods = {p3}
  GPUCount <- MCGPUCount
  NoRelease = NoRelease
  NoChoice = NoChoice
  NoAnnotation = NoAnnotation
SPECIFICATION Spec
INVARIANT ExclusiveMIG
