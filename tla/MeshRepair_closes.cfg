CONSTANTS
  Meshes <- Brought
  Tolerances <- Widths
  MaxPasses = 12
  MaxDamage = 2
SPECIFICATION Spec
INVARIANTS
  RepairCloses
  SilentRepairsChangeNothing
  PolyhedronSound
PROPERTIES
  StripKeepsClosed
