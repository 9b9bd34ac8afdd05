SPECIFICATION FairSpec
CONSTANTS
  Threads = {p1, p2}
  Ticks = {t1, t2, t3}
  Books = {b1}
  BadRows = {t3}
  BufferSize = 2
  MaxSpin = 1
  MaxOutages = 1
INVARIANTS  WritersOutliveInsert CleanRunStoresAll
  
