CONSTANTS
  n1 = n1
  n2 = n2
  ga = ga
  gs = gs
  gb = gb
  m1 = m1
  p1 = p1
  p2 = p2
  p3 = p3
  p4 = p4
  Pods = {p1, p2, p3, p4}
  GPUs = {ga, gs, gb}
  MIGs = {m1}
  Nodes = {n1, n2}
  MPSGPUs = {gs}
  MaxMem = 1
  MaxEntries = 2
  NodeOf <- MCNodeOf
  Total <- MCTotal
  Parent <- MCParent
  MIGMem <- MCMIGMem
  MemIO <- MCMemIO
  MemOther <- MCMemOther
  SharedPods = {p3, p4}
  GPUCount <- MCGPUCount
  NoRelease = NoRelease
  NoChoice = NoChoice
  NoAnnotation = NoAnnotation
SPECIFICATION Spec
INVARIANT TypeOK
INVARIANT Accounting
INVARIANT WithinTotal
INVARIANT ExclusiveGPU
INVARIANT ChoiceFits
INVARIANT MIGNotLeaked
CONSTRAINT OneScene
PROPERTY ImplementsLedger
