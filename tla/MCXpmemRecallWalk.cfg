CONSTANTS
  s1 = s1
  s2 = s2
  s3 = s3
  w1 = w1
  NoThread = NoThread
  Segs <- MCSegs
  InitList <- MCInitList
  Walker = w1
SPECIFICATION Spec
INVARIANT TypeOK
INVARIANT RecallsEveryLiveSegment
PROPERTY WalkTerminates
\* One walk: once it has returned and the removals that began have ended,
\* the threads have nothing left to do.
CHECK_DEADLOCK FALSE
