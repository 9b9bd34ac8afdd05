SPECIFICATION Spec
CONSTANTS
  MaxLevels = 2
  BidPrices = {1, 2, 3}
  AskPrices = {4}
  BidQuantities = {0, 1}
  AskQuantities = {0, 1, 2}
  MaxBatch = 2
INVARIANTS BookMatchesQuotes 
