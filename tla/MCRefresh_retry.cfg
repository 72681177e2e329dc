SPECIFICATION Spec
CONSTANTS
    Sessions = {s1, s2}
    Paths = {p1, p2}
    Contents = {c1, c2}
    Nothing = Nothing
    MaxEdits = 2
    MaxCalls = 2
    MaxFaults = 0
SYMMETRY Symmetric
PROPERTY RereadsBeforeRefusing
