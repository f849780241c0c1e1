CONSTANTS
  Inputs <- ListAndObject
  HasProperty = TRUE  HasArrayObject = FALSE
  MaxLead = 2
SPECIFICATION FairSpec
INVARIANTS TypeOK SkippedOnlyPastCounter InvokedOnlyIfGood
PROPERTIES RequestEnds
