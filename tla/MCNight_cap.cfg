SPECIFICATION Spec
CONSTANTS
  People <- MCPeople
  Opening <- MCOpening
  Baskets <- MCBaskets
  Files <- MCFiles
  Ranges <- MCRanges
  Params <- MCParams
  Methods = {"MBWAY", "CASH"}
  Cash = "CASH"
  AlcoholLimit = 2
  MaxQty = 4
  PinTicks = 1
  MaxTick = 1
  MaxSales = 2
  Extra = {10}
  MaxRequests = 3
  MaxScored = 2
  MinUnits = 1
  TopSize = 1
  MaxNumber = 120
CHECK_DEADLOCK FALSE
INVARIANT AlcoholCapHolds
