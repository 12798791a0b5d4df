CONSTANTS
  Names = {x}
  Plain = {p}
  Views = {v1, v2, v3, v4}
  NoView = NoView
  Undef = Undef
  MaxLevel = 4
  MaxFrames = 3
  MaxEntries = 2
SPECIFICATION Spec
SYMMETRY Symmetry
INVARIANTS
  StorageSound
PROPERTIES
  BindingsKept
  ImplementsLexicalScoping
