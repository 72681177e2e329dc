CONSTANTS
    Sessions = {s1, s2}
    Tokens = {t1, t2, t3}
    NoToken = NoToken
    NoSession = NoSession
    Grace = 3
    Operations = {"refresh", "query", "build"}
    Mortal = {s1, s2}
    Revert = FALSE
    Apart = TRUE
    Prompt = TRUE
    MaxSpan = 1
SPECIFICATION Spec
INVARIANTS CurrentNeverDangles
SYMMETRY Symmetry
