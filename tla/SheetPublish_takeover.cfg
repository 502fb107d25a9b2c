SPECIFICATION Spec
CONSTANTS
    Technical = {t}
    Workbook = {w}
    MaxChunks = 2
    MaxCrashes = 1
    Overrun = FALSE
    RunId = {r1, r2, r3, r4, r5, r6}
    Null = Null
INVARIANTS
    MutualExclusion
