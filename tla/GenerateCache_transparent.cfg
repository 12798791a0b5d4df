CONSTANTS
  Evaluators = {"e1", "e2"}
  Nodes <- MCNodes
  Kind <- MCKind
  Kids <- MCKids
  Height <- MCHeight
  Param <- MCParam
  Drawn <- MCDrawn
  HasClosure <- MCHasClosure
  Tainted = {}
  Warns <- MCWarns
  Scripts <- TransparentScripts
  Measured <- TransparentMeasured
  Shown <- TransparentShown
  None = None
  MaxIds = 8
SPECIFICATION Spec
VIEW LiveState
INVARIANTS
  PassesTransparent
  PartsClickable
  AbortsLeaveNothing
