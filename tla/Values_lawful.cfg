CONSTANTS
  Digits = 2
  Precision = 11
  Rendering = 5
  LeadZeros = 1
  IntBits = 4
  WideBits = 5
  Epsilon <- MCEpsilon
  CountCap = 12
  CountLimit = 6
  CodeBits = 22
  SeedBits = 5
  MantissaBits = 8
  MaxResults = 8
  HalfMax = 50
  MaxAngle = 1440
  Tolerance <- MCTolerance
  CallStack <- MCCallStack
  Evaluators <- Evals
  Scripts <- MCScripts
  Spelling <- MCSpelling
  Features <- MCFeatures
  Samples <- MCSamples
  Meaning <- MCMeaning
SPECIFICATION Spec
INVARIANTS
  OperatorsLawful
  BuiltinsRight
  TextExact
  IterationExact
  DrawsRepeat
