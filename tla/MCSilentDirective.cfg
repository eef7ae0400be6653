SPECIFICATION Spec
CONSTANTS
    Files <- MCFiles
    Language <- MCLanguage
    Length <- MCLength
    Texts <- MCTexts
    Directives <- MCDirectives
    InitialManifests <- MCInitialManifests
    Commands <- MCCommands
    MaxEdits = 3
INVARIANTS DirectivesAnswered
