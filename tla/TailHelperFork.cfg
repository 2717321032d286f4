SPECIFICATION Spec
CONSTANTS
  Programs <- MCPrograms
INVARIANTS MatchedMeansLoaded
