CONSTANTS
    Sessions = {s1, s2, s3}
    Tokens = {t1, t2, t3}
    NoToken = NoToken
    NoSession = NoSession
    Grace = 1
    Operations = {"refresh"}
    Mortal = {s1, s2, s3}
    Revert = TRUE
    Apart = FALSE
    Prompt = TRUE
    MaxSpan = 3
SPECIFICATION Spec
INVARIANTS TypeOK CurrentNeverDangles OvertakenOnceKeepsLoading
SYMMETRY Symmetry
