SPECIFICATION FairSpec
CONSTANTS
  Beats <- MCBeats
  MaxAttempts = 2
  LateAnswers = {TRUE, FALSE}
  SlowTurns = FALSE
CHECK_DEADLOCK FALSE
INVARIANTS
  TypeOK
  ContextOutlivesUsers
  OneHeartbeat
  NothingLeftAtExit
  HeartbeatCovers
PROPERTIES
  RunEnds
