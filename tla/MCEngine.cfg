CONSTANTS
    Files <- ManyFiles
    Language <- LanguageOfName
    DirectoryReason <- ReasonOfName
    GeneratedNames = {}
    BareNames = {"pkg", "vendor"}
    Contents = {"cut", "binary", "link"}
    MaxEdits = 3
    Nodes <- SomeNodes
    Folders <- SomeFolders
    Order <- SomeOrder
    RuleFiles <- SomeRules
    PrunedFolders <- SomePruned
    Observations = 5
    MaxChanges = 2
    Alphabet <- SomeAlphabet
    Lower <- SomeLower
    Tokens <- SomeTokens
    ShortName <- SomeShortName
    Dotted = {"x.load"}
    Length <- SomeLength
    MaximumGroups = 2
    Words <- SomeWords
    StartingWith <- BegunBy
    Containing <- HeldBy
    EditDistance <- Edits
    LongWords <- Long
    Multiplier = 1
    DirectoryOf <- SomeDirectory
    MacroOf <- SomeMacroOf
    TestFiles = {}
    MaximumInferred = 2
    Segments <- SomeSegments
    EntryNames = {"b.go"}
    Readmes = {}
    MaximumDepth = 2
    SplitRatio <- TwoFifths
    FrameText = 6
    FrameBytes = 20
    Warnings <- SomeWarnings
SPECIFICATION EngineSpec
INVARIANTS
    EngineTypeOK
    UpdateIsLikeBuild
    CatalogueAgrees
    CompleteIsOneMoment
    RulesComeFirst
    FileKeepsIndex
    MemorySnapshotIsDisk
    FileHasOneReading
    SearchIsScan
    ViewsAreScans
    OverviewIsSound
    RelationsMirror
    AnswersFit
    WarningsAreBounded
