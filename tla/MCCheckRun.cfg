SPECIFICATION Spec
CONSTANTS
    Rules <- MCRules
    Severity <- MCSeverity
    NFiles = 6
    Languages <- MCLanguages
    Language <- MCLanguage
    Loadable <- MCLoadable
    InTests <- MCInTests
    Directory <- MCDirectory
    Hits <- MCHits
    Declares <- MCDeclares
    Commands <- MCCommands
    NoCommand <- MCNoCommand
    Configs <- MCConfigs
    InitialTrees <- MCInitialTrees
    MaxEdits = 2
INVARIANTS TypeOK CleanMeansClean RefusalMeansUnread AMeansClean EntryIsNarrower
