CONSTANTS
  o1 = o1
  o2 = o2
  o3 = o3
  w1 = w1
  w2 = w2
  Order = {o1, o2, o3}
  Worker = {w1, w2}
  MaxAttempts = 2
  BatchSize = 2
  MaxCrashes = 1
  NoOrder = NoOrder
SPECIFICATION LiveSpec
INVARIANTS AttemptsDiffer IssuedMeansDocument FailedMeansGivenUp
PROPERTIES EveryInvoiceIsTried
CHECK_DEADLOCK FALSE
