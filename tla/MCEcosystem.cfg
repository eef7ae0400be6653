SPECIFICATION Spec
CONSTANTS
    Repos <- MCRepos
    Pages <- MCPages
    Worlds <- MCWorlds
    Seeds = {1, 2}
    Sample <- MCSample
    CrawlEvery = 2
    SaveEvery = 2
    Workers = 2
    Hourly = 3
    MaxKills = 1
    MaxOutages = 1
    MaxLosses = 1
INVARIANTS PopulationWhole DeadIsDead EveryRepoAccounted ClaimsAddUp
PROPERTIES DoneStaysDone Arrives
