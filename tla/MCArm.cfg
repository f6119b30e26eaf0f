SPECIFICATION Spec
CONSTANTS
  Menu <- ArmMenu
  Id <- ArmIds
  Temperatures <- AllBands
  Events <- Losses
  MaxTickets = 2
  QueueMax = 2
  RecentMax = 1
  SettledTicks = 2
  AcquireTimeout = 1
  SettleTicks = 1
  DisconnectHold = 1
  Speech <- TwoUtterances
  NoSpeech = NoSpeech
  NoRequest = NoRequest
  NoId = NoId
INVARIANTS
  WarmShoulderRests
  SafeWaitIsQuiet
  TrackingIsLeased
  TurnIsInProgress
PROPERTIES
  TurnKeepsItsAnchor
  AutonomousReturnIsFree
CHECK_DEADLOCK FALSE
