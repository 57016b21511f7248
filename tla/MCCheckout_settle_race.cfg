CONSTANTS
  phone = phone
  till = till
  gin = gin
  beer = beer
  r1 = r1
  r2 = r2
  j1 = j1
  Product = {gin, beer}
  Quote = {phone, till}
  NoQuote = NoQuote
  Request = {r1, r2}
  Job = {j1}
  TillQuotes = {till}
  Stock <- MCPlenty
  MaxQty = 2
  Basket <- MCBasket
  ChargeReplies = {"PENDING"}
  GatewayErrors = FALSE
  MaxCrashes = 0
  StatusTargets = {}
  Archivable = {}
  Adjustments = {}
  MaxStock = 2
SPECIFICATION LiveSpec
PROPERTY ReservationEnds
CHECK_DEADLOCK FALSE
