CONSTANTS
  Trees <- MCTrees
  Leaves <- MCLeaves
  Maps <- MCMaps
  KeepModes = {TRUE, FALSE}
SPECIFICATION Spec
INVARIANTS
  MemoryTrue
  ExportFaithful
PROPERTIES
  GeometryDenoted
  PaintersOrder
  NamesAccounted
