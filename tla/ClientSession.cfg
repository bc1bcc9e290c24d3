SPECIFICATION FairSpec
CONSTANTS
  User = {alice, bob}
  MaxHttp = 2
  Nobody = Nobody
INVARIANTS
  AccountData
  NoStalePointer
PROPERTIES
  OfflineIsOffline
  DialogAnswers
CHECK_DEADLOCK FALSE
