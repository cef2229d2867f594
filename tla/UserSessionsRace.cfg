SPECIFICATION Spec
CONSTANTS
    Proc = {p1, p2}
    Ref = {r1, r2, r3}
    Session = {s1}
    None = None
    DriverFails = TRUE
    Window = 0
    MaxClock = 1
SYMMETRY Symmetry
INVARIANT Inductive
PROPERTIES
    RevokedStayRevoked
    ActiveSessionAccepted
    IdleSessionRefused
