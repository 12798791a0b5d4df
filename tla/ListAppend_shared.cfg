SPECIFICATION Spec
CONSTANTS
  Lists = {l1, l2, l3}
  Elems = {1, 2}
  Threads = {t1, t2}
  Literals <- MCLiterals
  Extras <- MCExtras
  Spares <- MCSpares
  MaxSize = 5
  Width = 3
  None = None
SYMMETRY ListSymmetry
INVARIANTS
  BuffersAlive
PROPERTIES
  ImplementsImmutableLists
