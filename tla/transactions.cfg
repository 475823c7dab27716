SPECIFICATION MCSpec
CONSTANTS
  Transactions = {1, 2, 3}
  Nobody = Nobody
INVARIANTS
  TransactionsTypeOK
  NothingCollides
  EventsNamePreference
  EpochsDistinct
  ConflictTellsActive
PROPERTIES
  TransactionsImplementEventLog
  EveryTransactionEnds
CHECK_DEADLOCK FALSE
