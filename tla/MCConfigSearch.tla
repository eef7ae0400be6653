--------------------------- MODULE MCConfigSearch ---------------------------
(***************************************************************************)
(* Three folders: the filesystem root, a project below it, its src/.       *)
(***************************************************************************)
EXTENDS ConfigSearch

MCRules   == {"R001", "R008"}
MCRuleIds == MCRules \cup {"R099"}

Top(key, value)  == [table |-> "top", key |-> key, value |-> value]
Rule(key, value) == [table |-> "rules", key |-> key, value |-> value]

\* A `rules` that is no table and a misspelt `skip`; rules that do not exist or
\* are not rules, an oddity, and both spellings of include-tests; a rule off, a
\* no-op, a good `skip`, an empty `baseline` and a rule that strayed to the top.
Strays  == {Top("rules", "blank"), Top("skp", "set")}
Ghostly == {Rule("R099", "set"), Rule("all", "set"), Rule("R008", "odd"),
            Top("include-tests", "default"), Top("include_tests", "set")}
Mixed   == {Rule("R008", "set"), Rule("R001", "default"), Top("skip", "set"),
            Top("baseline", "blank"), Top("R001", "set")}

MCEntries == Strays \cup Ghostly \cup Mixed

Absent     == [kind |-> "absent", says |-> {}]
Locked     == [kind |-> "locked", says |-> {}]
Broken     == [kind |-> "broken", says |-> {}]
Askew      == [kind |-> "askew", says |-> Strays]
Toml(says) == [kind |-> "toml", says |-> says]

MCLevels ==
    [pyproject : {Absent, Broken, Askew, Toml({}), Toml(Strays), Toml(Ghostly)},
     standalone : {Absent, Locked, Toml({}), Toml(Mixed)}, git : BOOLEAN]

Level(pyproject, standalone, git) ==
    [pyproject |-> pyproject, standalone |-> standalone, git |-> git]

MCInitialLevels ==
    {Level(Absent, Absent, FALSE), Level(Absent, Absent, TRUE),
     Level(Toml({}), Toml(Mixed), FALSE), Level(Absent, Toml({}), FALSE),
     Level(Toml(Strays), Absent, TRUE), Level(Absent, Toml(Mixed), TRUE),
     Level(Toml(Ghostly), Absent, FALSE)}
=============================================================================
