SPECIFICATION Spec
CONSTANTS
  Programs <- MCPrograms
INVARIANTS IInv TailCallABI OnlyForeignFailures
PROPERTIES KeepsPromise
