SPECIFICATION Spec
CONSTANTS
  Hosts = {"repl", "gui", "plain"}
  Procs <- MCProcs
  Main = "main"
  Kind <- MCKind
  Body <- MCBody
  Chunk <- MCChunk
  MainFile = "m"
  BreakLocs <- MCBreakLocs
  Poll = 3
  Nodes = 2
  Off = Off
  MaxRuns = 2
  MaxEdits = 1
INVARIANTS
  StopsExact
  SessionSound
PROPERTIES
  CancelHonoured
  PauseHonoured
  EditsReachEvaluator
CHECK_DEADLOCK FALSE
