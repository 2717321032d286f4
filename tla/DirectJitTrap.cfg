SPECIFICATION Spec
CONSTANT Cases <- MCTrap
INVARIANTS PassIsTheTrap
