SPECIFICATION FairSpec
CONSTANTS
  c1 = c1
  c2 = c2
  i1 = i1
  i2 = i2
  Nil = Nil
  Channels <- MCChannels
  Interactions <- MCInteractions
  MaxQueue = 2
  MaxChunks = 2
  MaxLog = 2
CHECK_DEADLOCK FALSE
INVARIANTS
  TypeOK
  OneOriginalThenFollowups
  EveryInteractionAnswered
  DrainedAtDestruction
PROPERTIES
  WorkerFinishes
  DeliversInOrder
