SPECIFICATION Spec
CONSTANTS
  Values <- MCValues
  Cases <- MCTwoCases
INVARIANTS TrapDuringExecution
