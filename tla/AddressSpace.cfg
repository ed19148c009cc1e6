CONSTANTS
  Procs = {p1, p2}
  InitProc = p1
  Frames = {1, 2, 3, 4, 5, 6, 7, 8, 9}
  PageSize = 2
  VPages = 9
  StackPages = 1
  Apps = {1, 2}
  InitApp = 1
  StorePages = {2, 3, 4}
  MmapCalls <- MCMmapCalls
  MunmapCalls <- MCMunmapCalls
  SbrkSizes <- MCSbrkSizes
SPECIFICATION Spec
INVARIANTS TypeOK PageTableMatchesAreas FramesOwnedOnce HeapShape
PROPERTIES MemoryIsolated NewPagesClean
VIEW UpToFrames
