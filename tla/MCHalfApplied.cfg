SPECIFICATION Spec
CONSTANTS
    j1 = j1
    j2 = j2
    Jobs = {j1, j2}
    Release = j1
    Content <- MCContent
    Tables <- MCTables
    Refs <- MCRefs
    None = None
    MaxFaults = 2
INVARIANTS
    ChecksumStandsForFile
CHECK_DEADLOCK FALSE
