SPECIFICATION FairSpec
CONSTANTS
  Suites <- MCSuites
  RightSuites <- MCRightSuites
  Analyse <- MCAnalyse
INVARIANTS IInv NoForgedAccess ContextReadOnly RowsRight SuiteSound
PROPERTIES NoFalseAlarm SuiteTerminates Advances
