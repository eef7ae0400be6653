SPECIFICATION Spec
CONSTANTS
    Rules <- MCRules
    Severity <- MCSeverity
    OverlapPair <- MCOverlapPair
    FirstOnly <- MCFirstOnly
    ProjectRules <- MCProjectRules
    Paths <- MCPaths
    Roots <- TopOnly
    Texts <- MCTexts
    Directives <- MCDirectives
    Marks <- MCMarks
    Silences <- MCSilences
    Canonical <- MCCanonical
    Opens <- MCOpens
    Closes <- MCCloses
    MaxLines = 2
    MaxOrder = 1
    NoPath <- MCNoPath
    NoSnippet <- MCNoSnippet
    NoFeature = "none"
    InitialFiles <- MergedFile
    EditTexts <- NoTexts
    Toggles <- MCToggles
    FailOns <- MCFailOns
    MaxEdits = 1
INVARIANT FixingNeverBlocks
