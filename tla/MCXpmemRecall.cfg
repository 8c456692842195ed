CONSTANTS
  f1 = f1
  f2 = f2
  k1 = k1
  w1 = w1
  c1 = c1
  NoThread = NoThread
  Faulters <- MCFaulters
  Forkers <- MCForkers
  Writers <- MCWriters
  Closers <- MCClosers

SPECIFICATION Spec

INVARIANT TypeOK
INVARIANT CounterAccounts

PROPERTY GateSpec
PROPERTY NoLostWakeup
\* Once the thread group is DESTROYING, a faulter asleep on
\* block_recall_PFNs_wq may never be woken (run recall_teardown shows it),
\* so the system may stop.
CHECK_DEADLOCK FALSE
