SPECIFICATION FairSpec
CONSTANTS
  Menu <- LiveMenu
  Id <- LiveIds
  Temperatures <- Sensorless
  Events <- LiveEvents
  MaxTickets = 2
  QueueMax = 1
  RecentMax = 1
  SettledTicks = 1
  AcquireTimeout = 2
  SettleTicks = 1
  DisconnectHold = 1
  Speech <- TwoUtterances
  NoSpeech = NoSpeech
  NoRequest = NoRequest
  NoId = NoId
PROPERTIES
  EveryCommandIsAnswered
  EverySoundTurnEnds
  AnchorIsReleased
CHECK_DEADLOCK FALSE
