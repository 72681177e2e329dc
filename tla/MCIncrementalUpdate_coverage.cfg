CONSTANTS
    Files <- NoteFiles
    Language <- LanguageOfName
    DirectoryReason <- ReasonOfName
    GeneratedNames = {}
    BareNames = {"pkg", "vendor"}
    Contents = {"other", "broken"}
    MaxEdits = 3
SPECIFICATION Spec
PROPERTIES UpdateCoversLikeBuild
