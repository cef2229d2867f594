SPECIFICATION Spec
CONSTANTS
    Proc = {p1, p2}
    Ref = {r1, r2, r3}
    Session = {s1}
    None = None
    DriverFails = FALSE
    Window = 0
    MaxClock = 0
SYMMETRY Symmetry
PROPERTY OnlySignInAdds
