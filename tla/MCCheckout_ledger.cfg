CONSTANTS
  phone = phone
  till = till
  gin = gin
  beer = beer
  r1 = r1
  r2 = r2
  j1 = j1
  Product = {gin, beer}
  Quote = {phone, till}
  NoQuote = NoQuote
  Request = {r1, r2}
  Job = {j1}
  TillQuotes = {till}
  Stock <- MCStock
  MaxQty = 2
  Basket <- MCBasket
  ChargeReplies = {"PENDING", "PAID"}
  GatewayErrors = TRUE
  MaxCrashes = 1
  StatusTargets = {}
  Archivable = {gin}
  Adjustments <- MCCorrections
  MaxStock = 2
SPECIFICATION Spec
INVARIANTS TypeOK StockConserved QuoteEndsOnce PaidIsFulfilled VoucherMeansMoney LedgerExact VoucherMeansPaidOrder SettleNeverAborts
PROPERTIES OrderFollowsLifecycle LedgerSpec
SYMMETRY RequestSymmetry
CHECK_DEADLOCK FALSE
