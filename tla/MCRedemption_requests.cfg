CONSTANTS
  ana = ana
  rui = rui
  anaGin = anaGin
  anaBeer = anaBeer
  ruiBeer = ruiBeer
  gin = gin
  beer = beer
  s1 = s1
  s2 = s2
  Product = {gin, beer}
  Voucher = {ana, rui}
  Line = {anaGin, anaBeer, ruiBeer}
  OwnerOf <- MCOwnerOf
  ProductOf <- MCProductOf
  Qty <- MCQty
  MaxQty = 2
  SoldBefore <- MCSold
  Total <- MCTotal
  Handler = {s1, s2}
  Claims <- MCClaims
  Amounts = {}
  StatusTargets = {"FINISHED"}
  MaxCrashes = 1
  NoVoucher = NoVoucher
SPECIFICATION LiveSpec
INVARIANTS TypeOK HandedWithinQty RedeemedMeansHanded HandedWereSold RedeemedWhenDone
PROPERTIES EveryRequestEnds LedgerSpec
CHECK_DEADLOCK FALSE
