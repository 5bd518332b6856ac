CONSTANTS
    Key <- ThreeKeys
    Ttl = 1
    Bounds <- OneOrTwo
    FileBacked = TRUE
    MaxTime = 1
    Absent = Absent
    Nothing = Nothing
SPECIFICATION Spec
PROPERTIES WritesRestoreBound SetEvictsOldestOnly ImplementsStore
