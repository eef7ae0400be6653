----------------------------- MODULE MCCheckRun -----------------------------
(***************************************************************************)
(* A small project for CheckRun: a TypeScript file, a generated JavaScript *)
(* client, a Go file, a Python server, a stub and a test, and one rule of  *)
(* each severity.                                                          *)
(***************************************************************************)
EXTENDS CheckRun

MCRules    == {"R001", "R005", "R007"}
MCSeverity == [R001 |-> "breaking", R005 |-> "advisory", R007 |-> "deprecated"]
MCDeclares == [R001 |-> {"python", "typescript", "javascript"},
               R005 |-> {"python", "typescript"},
               R007 |-> {"python", "typescript"}]

\* app.ts, gen/client.js, main.go, server.py, stub.pyi, tests/test_server.py
MCLanguage  == <<"typescript", "javascript", "go", "python", "python", "python">>
MCDirectory == <<".", "gen", ".", ".", ".", "tests">>
MCHits      == <<{"R005", "R007"}, {"R001"}, {}, {"R005", "R007"}, {}, {"R001", "R007"}>>
MCLoadable  == {1, 2, 4, 6}
MCInTests   == {6}
MCLanguages == {"python", "typescript", "javascript", "go"}

Run(verb, rules, tests, failOn, write) ==
    [verb |-> verb, exists |-> TRUE, rules |-> rules, tests |-> tests,
     failOn |-> failOn, write |-> write]

MCNoCommand == Run("check", {}, FALSE, "never", FALSE)

MCCommands ==
    {Run("check", rules, tests, failOn, FALSE) :
        rules \in {{}, {"R007"}}, tests \in BOOLEAN, failOn \in {"breaking", "advisory"}}
    \cup {Run("check", rules, FALSE, "breaking", TRUE) : rules \in {{}, {"R001"}}}
    \cup {Run("hook", {}, FALSE, "breaking", FALSE), Run("entry", {}, FALSE, "breaking", FALSE),
          [Run("check", {}, FALSE, "breaking", FALSE) EXCEPT !.exists = FALSE]}

MCConfigs ==
    {[skip |-> {}, tests |-> FALSE, disabled |-> off] : off \in {{}, {"R007"}, MCRules}}
    \cup {[skip |-> {"gen"}, tests |-> TRUE, disabled |-> {}]}

\* Every tree of one or two files, and the whole project.
MCInitialTrees == {T \in SUBSET (1..6) : Cardinality(T) <= 2} \cup {1..6}

OneTree == {{4, 6}, {5}}
=============================================================================
