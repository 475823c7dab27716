SPECIFICATION RetrySpec
CONSTANTS
  Tabs = {t1}
  Attempts = {a1, a2}
  None = None
  MaxEpoch = 3
  MaxFaults = 0
PROPERTIES
  VoiceRetryable
CHECK_DEADLOCK FALSE
