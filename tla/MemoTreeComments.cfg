SPECIFICATION Spec
CONSTANTS
    Proc = {p1}
    Memo = {m1, m2}
    File = {}
    None = None
    Loose = Loose
    Listed = 1
    MaxIds = 2
    DriverFails = FALSE
INVARIANT CommentsStayComments
