SPECIFICATION Spec
CONSTANTS
  Menu <- MailboxMenu
  Id <- MailboxIds
  Temperatures <- Sensorless
  Events <- AnyEvent
  MaxTickets = 3
  QueueMax = 1
  RecentMax = 1
  SettledTicks = 1
  AcquireTimeout = 1
  SettleTicks = 1
  DisconnectHold = 1
  Speech <- TwoUtterances
  NoSpeech = NoSpeech
  NoRequest = NoRequest
  NoId = NoId
INVARIANTS
  OneHolder
  BegunIsWaitedFor
  ExecutedOnce
  EndedAnswersAll
PROPERTIES
  LocalsAwaitTheOwner
  ImplementsLifecycle
CHECK_DEADLOCK FALSE
