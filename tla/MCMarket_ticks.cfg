CONSTANTS
  beer = beer
  gin = gin
  w1 = w1
  w2 = w2
  s1 = s1
  Products = {beer, gin}
  NewProducts = {gin}
  Workers = {w1, w2}
  Sales = {s1}
  None = None
  TickSeconds = {1}
  MaxTick = 2
  MaxRequests = 1
  MaxFaults = 1
  Opening <- MCOpening
  Ranges <- MCRanges
  Modes <- MCModes
SPECIFICATION Spec
INVARIANTS OneWriterPerTick CountedOnce StoppedMeansStopped
PROPERTIES TheMarketMoves
CHECK_DEADLOCK FALSE
