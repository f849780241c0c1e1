CONSTANTS
  Consumers = {c1, c2}  Nobody = nobody
  MaxLines = 1  MaxValue = 3
SPECIFICATION FairSpec
INVARIANTS TypeOK
PROPERTIES AnswerIsToRequest NotificationsAreSteps EverybodyIsServed
