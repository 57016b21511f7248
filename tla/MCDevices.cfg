SPECIFICATION Spec
CONSTANTS
  MaxTick = 3
  MaxPrice = 1
  MAX_PER_PRODUCT = 1
  MaxQuotes = 2
  MaxPeople = 2
  Drink = {beer, cola}
  Alcoholic = {beer}
  MaxSales = 2
  Voucher = {v1, v2}
  Bought <- MCBought
  MaxLookups = 3
  Organiser = {o1, o2}
  Dial = {demand, reversion}
  Level = {0, 1}
  DEFAULT_ENGINE_PARAMS <- MCParams
  Unset = Unset
  MaxSaves = 2
INVARIANTS
  NeverAcrossGap
  ChargedWhatWasShown
  AlcoholAfterAgeCheck
  OneFormsParams
PROPERTY
  WaitingEnds
