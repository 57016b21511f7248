SPECIFICATION Spec
CONSTANTS
  MaxTick = 1
  MaxPrice = 1
  MAX_PER_PRODUCT = 1
  MaxQuotes = 1
  MaxPeople = 1
  Drink = {beer, cola}
  Alcoholic = {beer}
  MaxSales = 1
  Voucher = {v1}
  Bought <- MCBought
  MaxLookups = 1
  Organiser = {o1}
  Dial = {demand, reversion}
  Level = {0, 1}
  DEFAULT_ENGINE_PARAMS <- MCParams
  Unset = Unset
  MaxSaves = 1
INVARIANT
  ConfirmedFaceToFace
