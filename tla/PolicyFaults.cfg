SPECIFICATION Spec
CONSTANTS
  a = a
  b = b
  c = c
  Torn = Torn
  NoFile = NoFile
  NoPolicy = NoPolicy
  Feature <- MCFeature
  Deployments <- MCDeployments
  MaxDimension = 2
  Persistent = TRUE
  Autosave = 2
  MaxUpdates = 4
  MaxFailures = 2
INVARIANTS
  PolicyInv
  PolicyTypeOK
  WeightsNeverMix
  ShapesAgree
  NoGrowthLearnsNothing
  CrashLosesTheCounted
  LossIsBounded
SYMMETRY Symmetric
