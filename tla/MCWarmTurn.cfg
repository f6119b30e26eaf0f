SPECIFICATION Spec
CONSTANTS
  Menu <- AwayMenu
  Id <- AwayIds
  Temperatures <- AllBands
  Events <- NoEvent
  MaxTickets = 3
  QueueMax = 1
  RecentMax = 3
  SettledTicks = 1
  AcquireTimeout = 2
  SettleTicks = 1
  DisconnectHold = 2
  Speech <- TwoUtterances
  NoSpeech = NoSpeech
  NoRequest = NoRequest
  NoId = NoId
INVARIANT
  WarmShoulderDoesNotTurn
CHECK_DEADLOCK FALSE
