SPECIFICATION FairSpec
CONSTANTS
  Tabs = {t1}
  Attempts = {a1, a2}
  None = None
  MaxEpoch = 3
  MaxFaults = 1
INVARIANTS
  VoiceTypeOK
  GrantsInOrder
  MicrophoneShown
  LinkShown
CHECK_DEADLOCK FALSE
PROPERTIES
  VoiceConnects
  VoiceSettles
