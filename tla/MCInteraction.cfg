SPECIFICATION Spec
CONSTANTS
  MaxSpeech = 2
  MaxAsked = 2
  MaxCenters = 1
INVARIANTS
  AwayIsAlone
  OneMotion
  CenterSparesTurn
  OldOffIsRepaired
PROPERTIES
  SoundTurnIsUnclaimed
