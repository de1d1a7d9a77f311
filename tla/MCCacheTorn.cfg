SPECIFICATION Spec
CONSTANTS
    Procs = {p1, p2}
    MaxRuns = 2
    Crashes = FALSE
INVARIANTS
    StoresAreAtomic
