SPECIFICATION FairSpec
CONSTANT Cases <- MCCases
INVARIANTS JitInv EntryReady VariantsWork
PROPERTIES MainReturns Advances
