CONSTANTS
  Trampoline = 19
  KernelEnd = 3
  MaxPids = 5
SPECIFICATION Spec
INVARIANTS PidsPartitioned NoPidPanic StacksFollowProcesses StacksIsolated PidsAreDense
PROPERTY ImplementsPool
