CONSTANTS
  f1 = f1
  f2 = f2
  k1 = k1
  w1 = w1
  c1 = c1
  NoThread = NoThread
  Faulters <- MCFaulters
  Forkers <- MCForkers
  Writers <- MCNone
  Closers <- MCClosers
SPECIFICATION Spec
PROPERTY SleepingFaulterWoken
\* The faulters' hang is the behaviour this run exhibits as a violation of
\* SleepingFaulterWoken; TLC would otherwise report it as a deadlock first.
CHECK_DEADLOCK FALSE
