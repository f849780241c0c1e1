CONSTANTS
  c1 = c1  c2 = c2
  Clients <- TwoClients  ByHand <- FirstAsks
  ClientMax = 2
  PoolSize = 20  SlotSize = 1  NumKeySize = 1  EventSize = 1
  MidLoss = FALSE  MaxValue = 1  MaxSent = 1
SPECIFICATION FairSpec
INVARIANTS TypeOK EntriesOfOpenSlots RecordedOnce MissedOnlyBehindGap ConfirmedIsRecorded
PROPERTIES NotifiedWasConfirmed SubscriptionsHeal
