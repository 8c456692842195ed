CONSTANTS
  PAGE_SIZE = 2
  PMD_SIZE = 4
  PUD_SIZE = 8
  P4D_SIZE = 16
  PGDIR_SIZE = 32
  TASK_SIZE = 32
  FIRST_PFN = 1
  P4Ds <- MCP4Ds
  Starts <- MCStarts
  Sizes <- MCSizes
SPECIFICATION Spec
INVARIANT TypeOK
INVARIANT UnpinsExactlyPresent
PROPERTY UnpinTerminates
CHECK_DEADLOCK FALSE
