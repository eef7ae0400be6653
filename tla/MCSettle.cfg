SPECIFICATION Spec
CONSTANTS
    Rules <- MCRules
    Severity <- MCSeverity
    Order <- MCOrder
    Annotating = {"R008", "R018"}
    Rewriting = {"R017"}
    HeaderToo = {"R007"}
    MindsBrackets = {"R009"}
    MindsBodies = {"R009"}
    MindsStrings = {"R017"}
    StripsImports = {"R009"}
    Echoing = {"R009"}
    NFiles = 2
    Python = {1, 2}
    ProjectWide = {"R008"}
    Safe = {"R017"}
    Commands <- MCCommands
    NoCommand <- MCNoCommand
    Configs <- MCConfigs
    InitialDisks <- RootsOnly
    Drafts <- MCDrafts
    MaxLines = 6
    MaxEdits = 0
    MaxKills = 0
INVARIANT FixersSettle
