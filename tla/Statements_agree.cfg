SPECIFICATION Spec
CONSTANTS
  Library <- None
  MainParams <- None
  Globals <- None
  DollarNames <- MCDollarNames
  CForLimit = 4
  Modules <- MCModules
  Files <- MCFiles
INVARIANTS
  StatementsAgree
  FramesBalanced
  BlocksStayLexical
