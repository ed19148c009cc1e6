CONSTANTS
  Tasks = {init, a, b}
  InitProc = init
  NoTask = NoTask
  BigStride = 6
  DefaultPrio = 3
  Prios = {2, 7}
  UsizeMax = 100
  MaxStride = 8
SPECIFICATION Spec
PROPERTY NoStarvation
CHECK_DEADLOCK FALSE
