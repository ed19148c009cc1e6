CONSTANTS
  Tasks = {init, a, b}
  InitProc = init
  NoTask = NoTask
  BigStride = 6
  DefaultPrio = 3
  Prios = {1, 2, 6}
  UsizeMax = 100
  MaxStride = 8
SPECIFICATION Spec
INVARIANTS TypeOK StrideLag
PROPERTIES NoStarvation ImplementsScheduler
CHECK_DEADLOCK FALSE
