SPECIFICATION Spec
CONSTANTS
  p1 = p1
  p2 = p2
  tick = tick
  Tick = tick
  Players <- MCPlayers
  InitialWallet = 500
  InitialPrice = 120
  MinPrice = 50
  MaxPrice = 1000000000
  RelistPrice = 500
  SplitAt = 200000
  MinFee = 25
  SpreadBasis = 100
  WalletCap = 1000000
  MaxShares = 100
  MaxOrders = 2
  Liquidity = 2
  Pressures <- MCPressures
  Impacts = {}
  Quantities = {1, 3}
  Limits = {80, 128}
  MaxHours = 1
  MaxCalls = 3
  SavesFail = TRUE
SYMMETRY MCSymmetry
CHECK_DEADLOCK FALSE
PROPERTIES
  NothingCommitted
