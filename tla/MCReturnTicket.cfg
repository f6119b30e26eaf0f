SPECIFICATION Spec
CONSTANTS
  Menu <- AwayMenu
  Id <- AwayIds
  Temperatures <- Sensorless
  Events <- NoEvent
  MaxTickets = 4
  QueueMax = 1
  RecentMax = 4
  SettledTicks = 1
  AcquireTimeout = 2
  SettleTicks = 1
  DisconnectHold = 2
  Speech <- TwoUtterances
  NoSpeech = NoSpeech
  NoRequest = NoRequest
  NoId = NoId
INVARIANT
  ReturnTicketIsCurrent
CHECK_DEADLOCK FALSE
