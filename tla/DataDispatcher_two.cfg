\* Shard 0: the parser thread and the Rithmic receiver share its queues.
CONSTANTS
  Parser = parser
  Producers = {parser, receiver}
  Capacity = 2
  MaxOffers = 2
  MaxMessages = 1
  NoItem = NoItem
  Fields = {delay}
  MaxWrites = 1
  MaxLevels = 2
  Now = 99
  None = None
SPECIFICATION SharedSpec
PROPERTY CountersMonotonic
