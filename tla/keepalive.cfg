SPECIFICATION FairSpec
CONSTANTS
  c1 = c1
  Global = Global
  NoChannel = NoChannel
  Channel <- OneChannel
  Interval = 3
  CountMax = 2
  ReplyLag = 1
  Cap = 1
INVARIANTS DetectionBound ClosedTickerIsSilent OpenChansExact
PROPERTIES PromptPeerSurvives NoKillWithoutProbe StalledPeerDropped ClosedConnTearsDown ClosedChannelPruned
CHECK_DEADLOCK FALSE
