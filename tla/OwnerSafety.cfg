SPECIFICATION Spec
CONSTANTS
  Windows = {w1, w2}
  NoWindow = NoWindow
  Services = {s1, s2}
  NoService = NoService
  MaxFaults = 1
  MaxCrashes = 1
  MaxReopens = 1
SYMMETRY Symmetry
INVARIANTS
  TypeOK
  OneOwner
  OneService
CHECK_DEADLOCK FALSE
