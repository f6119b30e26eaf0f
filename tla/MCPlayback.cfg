SPECIFICATION Spec
CONSTANTS
  Turns = 2
  MaxFaults = 1
INVARIANTS
  TypeOK
  OwnedPlayback
  OnePlayback
  IdleIsSilent
PROPERTIES
  FramesOfOwnTurn
  NeverBusy
CHECK_DEADLOCK FALSE
