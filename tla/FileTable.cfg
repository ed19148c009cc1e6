CONSTANTS
  Procs = {p1, p2}
  InitProc = p1
  Handles = {h1, h2}
  Names = {a}
  FlagSets = {{}, {"WRONLY", "CREATE"}}
  Lengths = {1}
  MaxFds = 4
  MaxSize = 2
  None = None
  Stdin = Stdin
  Stdout = Stdout
SPECIFICATION Spec
INVARIANTS SharedOffset
PROPERTY DescriptorsStable
