SPECIFICATION Spec
CONSTANTS
    Rules <- MCRules
    Severity <- MCSeverity
    OverlapPair <- MCOverlapPair
    FirstOnly <- MCFirstOnly
    ProjectRules <- MCProjectRules
    Paths <- MCPaths
    Roots <- MCRoots
    Texts <- MCTexts
    Directives <- MCDirectives
    Marks <- MCMarks
    Silences <- MCSilences
    Canonical <- MCCanonical
    Opens <- MCOpens
    Closes <- MCCloses
    MaxLines = 2
    MaxOrder = 1
    NoPath <- MCNoPath
    NoSnippet <- MCNoSnippet
    NoFeature = "none"
    InitialFiles <- MCInitialFiles
    EditTexts <- MCEditTexts
    Toggles <- MCToggles
    FailOns <- MCFailOns
    MaxEdits = 2
INVARIANTS TypeOK VerdictIsExcess NothingSlipsThrough NewIsNewCode GoneIsGone
PROPERTY ImplementsRatchet
