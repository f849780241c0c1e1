CONSTANTS
  a1 = a1  a2 = a2  a3 = a3  zero = zero  s1 = s1  none = none
  Addr <- AllAddr  IPs <- TwoIPs  ZeroIP = zero
  ClientMax = 2
  NumEvents = 1  Schemas <- OneShape  NoSchema = none
  SubSchema <- OneSchema  CanSchema <- OneSchema
  NumProps = 1  NumWsActions = 1  NumActions = 1
  NoInput <- NoneYet  Trigger <- OnlyFirst
  MidLoss = TRUE  MaxPerIP = 1  MaxEntries = 2
SPECIFICATION Spec
INVARIANTS RegistriesAgree
SYMMETRY PairSymmetry
