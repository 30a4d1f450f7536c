SPECIFICATION Spec
CONSTANTS
  Players = {1, 2}
  Nobody = Nobody
  Tick = Tick
  Starting = 10
  InitialTreasury = 5
  InitialWelfare = 2
  WalletCap = 20
  Awards = {5}
  Stipend = 3
  Fines = {11, 14}
  Sentences = {2}
  BailCost = 4
  FilingFee = 4
  Welfare <- MCWelfare
  PoorBelow = 8
  BigTransfer = 8
  MinWorks = 1
  Cooldown <- MCCooldown
  PollsOpen = 1
  Term = 2
  MaxItems = 1
  Amounts = {9}
  Quantities = {1}
  Moves <- MCMoves
  DebtDue = 1
  MaxTime = 5
  MaxCalls = 5
  SavesFail = TRUE
CONSTRAINT MCBound
CHECK_DEADLOCK FALSE
INVARIANTS
  TypeOK
  CashConserved
  MemoryIsDisk
  ElectionInOrder
PROPERTIES
  BookKept
  MayorByElection
