\* Every kind of call, tail call, block and exception; the host stops one
\* evaluation at a body entry, and another follows.
CONSTANTS
  Functions <- MCFunctions
  Literals <- MCLiterals
  Modules <- MCModules
  Compiled <- MCCompiled
  Encloses <- MCEncloses
  Stops <- MCStops
  MaxStops = 1
  MaxCallsAfterStop = 1
  MaxUserCallDepth = 2
  MaxModuleCallDepth = 2
  MaxVmCallStackDepth = 2
  MaxDriveVmNativeDepth = 2
  TcoIterationCap = 1
  MaxBlocks = 1
  MaxWraps = 2
  MaxActive = 1

SPECIFICATION Spec
INVARIANTS
  CallsAccounted
  BracketsBalanced
  IdleClean
PROPERTIES
  NoRunaway
