SPECIFICATION Spec
CONSTANTS
    Proc = {p1, p2}
    Attachment = {a1, a2}
    Path = {g1, g2}
    File = {f1, f2, f3}
    None = None
    Part = Part
    UserId = {102, 55297}
    BatchSize = 2
    KeepFor = 8
    ValidFor = 10
    Release = {21, 22, 23, 24, 25}
    Script <- Scripts
    Repeatable <- RepeatableScripts
    Normalized = 22
    Legacy = {21, 22}
SYMMETRY Symmetry
INVARIANTS
    Inductive
    CacheFollowsTable
    OneFirstHost
    RowsHaveFiles
    NeverExpired
    VersionNotAhead
    ServedSchemaFits
    FailsOnlyTornOrOld
PROPERTIES
    ServedIsOwn
    PassReachesAll
