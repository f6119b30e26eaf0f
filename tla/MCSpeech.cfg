SPECIFICATION FairSpec
CONSTANTS
  MaxSpeech = 2
  Window = 2
  QueueMax = 2
  MaxFaults = 1
  Modulus = 8
  PreRoll = 1
  Kept = 1
INVARIANTS
  TypeOK
  IntervalIsHeard
  OneDecision
PROPERTIES
  EverySpeechIsDecided
