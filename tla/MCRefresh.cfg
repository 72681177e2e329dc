SPECIFICATION FairSpec
CONSTANTS
    Sessions = {s1, s2}
    Paths = {p1, p2}
    Contents = {c1, c2}
    Nothing = Nothing
    MaxEdits = 2
    MaxCalls = 2
    MaxFaults = 1
INVARIANTS TypeOK BindingNamesCurrent
PROPERTIES ExactIsCurrent CallsReturn
