SPECIFICATION FairSpec
CONSTANTS
  Values <- MCValues
  Cases <- MCTwoCases
INVARIANTS IInv NoFalseAlarm
PROPERTIES KeepsPromise SuiteTerminates
