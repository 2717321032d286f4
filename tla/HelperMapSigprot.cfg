SPECIFICATION Spec
CONSTANTS
  Purecap = TRUE
  Values <- MCValues
  Cases <- MCTwoCases
INVARIANTS TrapIsSigprot
