CONSTANTS
    b1 = b1
    b2 = b2
    p1 = p1
    p2 = p2
    Builders = {b1, b2}
    Processes = {p1}
    ProcessOf <- SameProcess
    Tokens = {t1, t2}
    NoToken = NoToken
    NoBuilder = NoBuilder
    NoUndo = NoUndo
SPECIFICATION Spec
INVARIANTS TypeOK SelectedIsIntact SurvivesPowerLoss MutexReleased
PROPERTIES PublishedIsDurable CompareAndSwap RollBackUndoesOwn ImplementsPointer
