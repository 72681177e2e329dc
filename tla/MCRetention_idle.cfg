CONSTANTS
    Sessions = {s1, s2}
    Tokens = {t1, t2}
    NoToken = NoToken
    NoSession = NoSession
    Grace = 1
    Operations = {"refresh", "query"}
    Mortal = {}
    Revert = TRUE
    Apart = FALSE
    Prompt = TRUE
    MaxSpan = 1
SPECIFICATION Spec
INVARIANTS ConvergencePruneIsSafe
