SPECIFICATION Spec
CONSTANTS
  Names = {"$fn", "$children"}
  Children = "$children"
  Values = {1}
  Unset = Unset
  Scopes = {s1, s2, s3, s4, s5}
  MaxFrames = 5
  MaxChain = 2
  Seed <- MCSeed
SYMMETRY Symmetry
INVARIANTS
  TrailSound
PROPERTIES
  ImplementsDynamicScoping
