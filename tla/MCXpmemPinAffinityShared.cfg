CONSTANTS
  t1 = t1
  t2 = t2
  c0 = c0
  c1 = c1
  NoCPU = NoCPU
  Threads <- MCTwo
  CPUs <- MCCPUs
  Node <- MCNode
SPECIFICATION Spec
INVARIANT AffinityRestored
