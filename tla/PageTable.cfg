CONSTANTS
  Frames = {1, 2, 3, 4, 5, 6, 7}
  Tables = {t1, t2}
  Fan = 2
  PpnSpan = 16
  MapVpns = {1, 3}
  MapFlags = {22}
  Junk = 2049
  None = None
SYMMETRY TableSymmetry
SPECIFICATION Spec
INVARIANT OwnTree
PROPERTY ImplementsFlat
