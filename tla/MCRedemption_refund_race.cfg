CONSTANTS
  ana = ana
  rui = rui
  anaGin = anaGin
  anaBeer = anaBeer
  ruiBeer = ruiBeer
  gin = gin
  beer = beer
  s1 = s1
  s2 = s2
  Product = {gin, beer}
  Voucher = {ana, rui}
  Line = {anaGin, anaBeer, ruiBeer}
  OwnerOf <- MCOwnerOf
  ProductOf <- MCProductOf
  Qty <- MCQty
  MaxQty = 2
  SoldBefore <- MCSold
  Total <- MCTotal
  Handler = {s1, s2}
  Claims <- MCClaims
  Amounts = {2}
  StatusTargets = {}
  MaxCrashes = 0
  NoVoucher = NoVoucher
SPECIFICATION Spec
INVARIANT OnlyUnhandedGoesBack
CHECK_DEADLOCK FALSE
