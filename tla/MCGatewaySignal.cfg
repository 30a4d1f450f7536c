SPECIFICATION FairSpec
CONSTANTS
  Beats <- MCBeats
  MaxAttempts = 2
  LateAnswers = {FALSE}
  SlowTurns = FALSE
CHECK_DEADLOCK FALSE
PROPERTIES
  SignalShutsDown
