CONSTANTS
  EKernel = 3
  MemoryEnd = 9
  DmaPages = 2
SPECIFICATION Spec
INVARIANTS TypeOK NoFrameLostOrShared NoAllocatorPanic
PROPERTY ImplementsPool
