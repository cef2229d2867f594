SPECIFICATION Spec
CONSTANTS
    Proc = {p1, p2}
    Memo = {m1, m2}
    Tag = {t1, t2}
    Place = {}
    Fold <- FoldToOne
    None = None
SYMMETRY Symmetry
INVARIANT Inductive
PROPERTY PartedByLocationOnly
PROPERTY DeletedStaysDeleted
PROPERTY TagRequestsReach
