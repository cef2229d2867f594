SPECIFICATION Spec
CONSTANTS
    Proc = {p1}
    Ref = {r1, r2}
    Session = {s1, s2}
    None = None
    DriverFails = FALSE
    Window = 1
    MaxClock = 3
PROPERTY ImplementsLedger
