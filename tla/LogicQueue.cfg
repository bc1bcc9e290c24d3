SPECIFICATION FairSpec
CONSTANTS
  Worker = {w1, w2, w3}
  Poster = {t1, t2}
  MaxMsgs = 3
  Nobody = Nobody
INVARIANTS
  OrderPerWorker
  NothingLeftBehind
PROPERTIES
  EveryMessageHandled
  ShutdownEnds
CHECK_DEADLOCK FALSE
