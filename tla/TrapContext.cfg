CONSTANTS
  Procs = {p1, p2}
  InitProc = p1
  Frames = {f1, f2, f3}
  Pcs = {0, 4}
  Entry = 0
  ArgA0 = {0, 9}
  Pid = 1
  Failed = 7
  None = None
SPECIFICATION Spec
INVARIANTS ResumeExact KernelEntrySound
