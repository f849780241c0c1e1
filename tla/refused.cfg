CONSTANTS
  x = x  y = y  NoName = noname  NoValue = novalue
  Names <- TwoNames  Values <- TwoValues
  NameLen <- LongLong  ValueLen <- OneDigit
  NumEvents = 2  Offered <- Some  SlotSize = 16  MaxTerms = 2
SPECIFICATION Spec
INVARIANTS MatchingIsAccepted
