CONSTANTS
  Algorithms <- MCAlgorithms
  Variants <- MCVariants
  Dates <- MCDates
  Sizes <- MCSizes
  IntBits = 4
  PropertyValues <- MCPropertyValues
SPECIFICATION Spec
INVARIANT ParamsVerdictMatchesConjunction
