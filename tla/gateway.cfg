SPECIFICATION Spec
CONSTANTS
  turnA = turnA
  turnB = turnB
  retryA = retryA
  prefA = prefA
  prefB = prefB
  prefRetry = prefRetry
  intA = intA
  intRetry = intRetry
  a = a
  b = b
  Requests = {turnA, retryA, prefA, prefB, prefRetry, intA, intRetry}
  Kind <- MCKind
  ClientIds = {a, b}
  ClientId <- MCClientId
  Publishers = {}
  Agents = {}
  Workers = {}
  BatchLimit = 1
  MaxFaults = 0
  MaxManual = 0
INVARIANTS
  LogGapFree
  ContextAuthored
  IdempotentAnswers
  NoLostPatch
CHECK_DEADLOCK FALSE
