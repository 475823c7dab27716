SPECIFICATION Spec
CONSTANTS
  turnA = turnA
  turnB = turnB
  retryA = retryA
  prefA = prefA
  prefB = prefB
  prefRetry = prefRetry
  intA = intA
  intRetry = intRetry
  a = a
  b = b
  Requests = {turnA}
  Kind <- MCKind
  ClientIds = {a, b}
  ClientId <- MCClientId
  Publishers = {p1, p2}
  Agents = {a1}
  Workers = {w1}
  BatchLimit = 3
  MaxFaults = 0
  MaxManual = 0
INVARIANTS
  OneTaskPerPlan
CHECK_DEADLOCK FALSE
