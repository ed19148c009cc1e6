CONSTANTS
  Tasks = {init, p1, p2, p3}
  InitProc = init
  NoTask = NoTask
  AnyPid = AnyPid
  ExitCodes = {zero, one}
  Zero = zero
  InitProcExits = FALSE
SPECIFICATION Spec
INVARIANTS TypeOK QueuedIffReady OneParent RootedTree NoPanic IdleHasWork
PROPERTIES OrphansReaped ZombieIsFinal ImplementsScheduler
