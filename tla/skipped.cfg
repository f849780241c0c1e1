CONSTANTS
  a1 = a1  a2 = a2  a3 = a3  zero = zero  s1 = s1  none = none
  Addr <- AllAddr  IPs <- TwoIPs  ZeroIP = zero
  ClientMax = 2
  NumEvents = 2  Schemas <- OneShape  NoSchema = none
  SubSchema <- SchemaFirst  CanSchema <- SchemaFirst
  NumProps = 1  NumWsActions = 1  NumActions = 2
  NoInput <- InputFirst  Trigger <- EventEach
  MidLoss = FALSE  MaxPerIP = 2  MaxEntries = 4
SPECIFICATION Spec
INVARIANTS EverySubscriberNotified
