CONSTANTS
    MaxCalls = 2
    MaxChildren = 2
SPECIFICATION HookSpec
INVARIANTS HookTypeOK AnswersOwnRequest NoOrphan WritesServedOnce RetriesOnFreshChild IdleChildHasTimer
PROPERTIES StaleTimerSpares CallsEnd ChildrenEnd
