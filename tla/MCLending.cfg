SPECIFICATION Spec
CONSTANTS
  p1 = p1
  p2 = p2
  Players = {p1, p2}
  Banks = {1, 2}
  Owners = {p1}
  Tick = Tick
  InitialWallet <- MCInitialWallet
  InitialTill = 500
  InitialSavings = 600
  StartCost = 11000
  UpgradeCost = 1000
  MaxLevel = 2
  BankruptFrom = 6000
  Spared = 5000
  Insured = 500
  MinPayment = 500
  MinLateFee = 250
  MinCompanyPayment = 1000
  MinCompanyLateFee = 500
  MaxPeriods = 1
  MaxCompanyPeriods = 2
  MaxAgreementPeriods = 1
  MaxMissed = 2
  MaxAgreements = 10
  MaxContracts = 20
  DebtLimit = 12000
  CompanyLimit = 12000
  Amounts = {6000}
  Days = {2}
  Profits <- MCProfits
  MaxTime = 3
  MaxCalls = 4
  SavesFail = TRUE
CHECK_DEADLOCK FALSE
INVARIANTS
  TypeOK
  CashConserved
  PartnerHasCompany
  ScheduleFollowsDebt
  CaughtUp
