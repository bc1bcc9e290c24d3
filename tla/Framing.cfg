SPECIFICATION FramingFairSpec
CONSTANTS
  MaxSendQue = 1
  MaxSends = 3
  BodyLen <- Lens
  Text = 3
  SaidLen = {1, 3, 4}
  MaxSaid = 2
  MaxLength = 2
  ShortMax = 3
INVARIANTS
  PostedIsSaid
  HeardIsSentUntilMuddled
PROPERTIES
  ImplementsChannel
  EveryMessageLeaves
  EverythingRead
CHECK_DEADLOCK FALSE
