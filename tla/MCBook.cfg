SPECIFICATION Spec
CONSTANTS
  MaxSpeech = 1
  MaxAsked = 2
  MaxCenters = 1
INVARIANTS
  CenterSparesBook
