CONSTANTS
  x = x  y = y
  Names <- TwoNames
  Files <- SomeFiles
  MaxProps = 1  MaxActions = 2  MaxInputs = 2  MaxEvents = 1  MaxTerms = 1
  TermNames <- TwoNames  MaxAnswers = 3
  MaxFunctions = 1  Chosen <- SomeTypes
SPECIFICATION Spec
INVARIANTS PortIsAsked
CHECK_DEADLOCK FALSE
