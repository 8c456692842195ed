CONSTANTS
  f1 = f1
  f2 = f2
  k1 = k1
  w1 = w1
  d1 = d1
  NoThread = NoThread
  NoVma = NoVma
  VmaOf <- MCVmaOfHole
  WritableVmas <- MCWritableVmas
  XpmemVmas <- MCXpmemVmas
  Faulters <- MCOneFaulter
  Recallers <- MCRecallers
  Writers <- MCWriters
  Destroyers <- MCDestroyers
  NPages = 2
  MaxBatch = 2
  PTRS_PER_PTE = 2
  MaxForks = 2
SPECIFICATION Spec
INVARIANT NothingPinnedAfterRemoval
PROPERTY RecallTerminates
