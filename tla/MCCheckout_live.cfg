CONSTANTS
  phone = phone
  till = till
  gin = gin
  beer = beer
  r1 = r1
  r2 = r2
  j1 = j1
  Product = {gin, beer}
  Quote = {phone, till}
  NoQuote = NoQuote
  Request = {r1}
  Job = {j1}
  TillQuotes = {till}
  Stock <- MCPlenty
  MaxQty = 2
  Basket <- MCBasket
  ChargeReplies = {"PENDING", "PAID", "FAILED"}
  GatewayErrors = TRUE
  MaxCrashes = 1
  StatusTargets = {"CLOSED_SALES"}
  Archivable = {}
  Adjustments = {}
  MaxStock = 2
SPECIFICATION LiveSpec
PROPERTIES ReservationEndsOrIsStranded PaidInTimeGetsVoucher
CHECK_DEADLOCK FALSE
