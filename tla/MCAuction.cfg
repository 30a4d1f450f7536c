SPECIFICATION Spec
CONSTANTS
  g1 = g1
  g2 = g2
  p1 = p1
  p2 = p2
  p3 = p3
  Accounts <- MCAccounts
  Tick = Tick
  Nobody = Nobody
  LegacyRelics <- MCLegacyRelics
  LegacyHomes <- MCLegacyHomes
  Debtors <- MCDebtors
  InitialWallet <- MCInitialWallet
  InitialChecking = 0
  WalletCap = 1900
  Spared = 300
  HomePrices = {1000}
  RelicPrices = {100}
  Rent = 10
  MinPayment = 300
  MinLateFee = 80
  MinStep = 100
  Upkeep = 20
  MaxHoldings = 1
  MaxListings = 2
  MaxPeriods = 7
  MaxRentDays = 30
  MaxMissed = 3
  Quantities = {1}
  Reserves = {850}
  Buyouts = {990}
  Bids = {850, 960}
  Durations = {2}
  MaxTime = 4
  MaxCalls = 5
  MaxHomes = 1
  MaxRelics = 1
  SavesFail = TRUE
CHECK_DEADLOCK FALSE
INVARIANTS
  TypeOK
  CashKept
  EscrowAgrees
  LegacyHomeOnce
