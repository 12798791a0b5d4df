SPECIFICATION Spec
CONSTANTS
  Library <- MCLibrary
  MainParams <- MCMainParams
  Call <- MCCall
  Globals <- MCGlobals
  DollarNames <- MCDollarNames
  CForLimit = 4
  Programs <- MCPrograms
INVARIANTS
  EnginesAgree
  FramesClean
PROPERTIES
  Terminates
