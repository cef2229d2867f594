SPECIFICATION Spec
CONSTANTS
    Proc = {p1, p2}
    Memo = {m1}
    Tag = {t1, t2}
    Place = {l1}
    Fold <- FoldToNone
    None = None
SYMMETRY Symmetry
INVARIANT PayloadMatchesContent
