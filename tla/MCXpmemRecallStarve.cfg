CONSTANTS
  f1 = f1
  f2 = f2
  k1 = k1
  w1 = w1
  c1 = c1
  NoThread = NoThread
  Faulters <- MCFaulters
  Forkers <- MCForkers
  Writers <- MCWriters
  Closers <- MCNone
SPECIFICATION Spec
PROPERTY RecallerProgress
