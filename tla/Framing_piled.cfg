SPECIFICATION FramingFairSpec
CONSTANTS
  MaxSendQue = 1
  MaxSends = 2
  BodyLen <- Lens
  Text = 3
  SaidLen = {}
  MaxSaid = 0
  MaxLength = 2
  ShortMax = 3
INVARIANT HeardIsSent
CHECK_DEADLOCK FALSE
