SPECIFICATION FairSpec
CONSTANTS
  btc = btc
  es = es
  nq = nq
  Crypto = {btc}
  Futures = {es, nq}
  MaxRuns = 2
INVARIANT FeedsItsCollector
PROPERTIES  StartEnds
