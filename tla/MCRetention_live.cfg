CONSTANTS
    Sessions = {s1, s2}
    Tokens = {t1, t2, t3}
    NoToken = NoToken
    NoSession = NoSession
    Grace = 1
    Operations = {"query", "gc"}
    Mortal = {}
    Revert = TRUE
    Apart = FALSE
    Prompt = TRUE
    MaxSpan = 1
SPECIFICATION FairSpec
PROPERTIES Converges
