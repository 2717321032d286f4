SPECIFICATION Spec
INVARIANTS InstalledWhenSaid
