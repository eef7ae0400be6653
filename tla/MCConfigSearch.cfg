SPECIFICATION Spec
CONSTANTS
    Depth = 3
    Rules <- MCRules
    RuleIds <- MCRuleIds
    Entries <- MCEntries
    Levels <- MCLevels
    InitialLevels <- MCInitialLevels
    MaxEdits = 1
INVARIANTS TypeOK InsideRepo NearestDecides EveryEntryAnswered
PROPERTY SearchEnds
