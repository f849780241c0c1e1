CONSTANTS
  Inputs <- NumberLast
  HasProperty = FALSE  HasArrayObject = FALSE
  MaxLead = 1
SPECIFICATION FairSpec
PROPERTIES RequestEnds
