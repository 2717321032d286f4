SPECIFICATION FairSpec
INVARIANTS SetupInv CommandAtShell SaidIsTheShells
PROPERTIES SetupCompletes
