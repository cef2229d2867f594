SPECIFICATION Spec
CONSTANTS
    Proc = {p1, p2}
    Ref = {r1, r2, r3}
    None = None
    DriverFails = TRUE
    Item = {i1, i2}
    Url = {u1, u2}
    Unknown = Unknown
    Length = {0, 2}
    DefaultContentLengthLimit = 1
SYMMETRY Symmetry
INVARIANT Inductive
PROPERTIES
    AnswersFollowCalls
    SavedAsAllowed
