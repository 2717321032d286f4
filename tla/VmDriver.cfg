SPECIFICATION MainSpec
CONSTANTS
  N = 3
  Codes <- MCCodes
  Polls = 3
INVARIANTS MainInv OldAreTold FailureStopsOwn ReadyIsLeftAlone
PROPERTIES KeepsSession MainEnds FailureGone Advances
