SPECIFICATION Spec
CONSTANTS
    Proc = {p1, p2}
    Memo = {m1, m2}
    File = {f1, f2}
    None = None
    Loose = Loose
    Listed = 1
    MaxIds = 3
    DriverFails = TRUE
SYMMETRY Symmetry
INVARIANTS
    Inductive
    NoCircle
    NoticesLead
PROPERTIES
    DeleteLeavesNoTrace
    UpdateTakesEffect
    OnlyOwnFilesDropped
