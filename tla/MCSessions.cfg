SPECIFICATION FairSpec
CONSTANTS
  Remote = {r1, r2}
  Local = {l1, l2}
  NoConn = NoConn
  PendingMax = 1
  Menu <- SharedMenu
  Id <- SharedIds
  NoRequest = NoRequest
  MaxTickets = 1
  RecentMax = 1
INVARIANTS
  SoleOwner
  WaitingIsHeld
  LostSessionLeavesNothing
  ParkedIsStill
PROPERTIES
  LastHolderInvalidates
  ShutdownCompletes
CHECK_DEADLOCK FALSE
