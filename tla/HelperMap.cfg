SPECIFICATION FairSpec
CONSTANTS
  Purecap = TRUE
  Values <- MCValues
  Cases <- MCTwoCases
INVARIANTS IInv NoFalseAlarm NeverStuck
PROPERTIES KeepsPromise SuiteTerminates Advances
