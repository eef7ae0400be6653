SPECIFICATION Spec
CONSTANTS
    Stems <- MCStems
    Spelling <- MCSpelling
    Repos <- MCRepos
    Shape <- MCShape
    Holds <- MCHolds
    Contents <- MCContents
    Registries <- MCRegistries
    Scan <- MCScan
    Jobs = {1, 2}
    MaxEdits = 2
    MaxElsewhere = 1
    MaxOutages = 1
    MaxRegrades = 1
INVARIANTS NoBlipConvicts OnlyHonestListed BadgesHonest PagesCount EveryEntryJudged
PROPERTIES PushIsCurrent Settles
CHECK_DEADLOCK FALSE
