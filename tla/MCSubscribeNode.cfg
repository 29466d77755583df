SPECIFICATION MCSpec
CONSTANTS
  Symbols = {a, b}
  Configs = {{}, {a}}
  MaxInst = 3
  MaxStale = 1
  NoSymbol = NoSymbol
  Names = {a, b}
  MaxQueue = 3
  MaxVersion = 3
  MaxDrains = 2
CONSTRAINT StaleMatters
INVARIANTS
  TypeOK
  RecordServesLiveNode
  ActiveIsSubscribed
  RemovedLeavesNoRecord
  QueueDelivers
