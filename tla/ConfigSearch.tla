---------------------------- MODULE ConfigSearch ----------------------------
(***************************************************************************)
(* How a run finds its project config, and what it makes of it: from the   *)
(* folder it was pointed at upwards, a file at a time, while others edit   *)
(* those files and `git init` or remove a repository.                      *)
(*                                                                         *)
(* Folders on the way up are levels; the filesystem root is level Depth.   *)
(* An entry of a config says a known setting differently from its default  *)
(* ("set"), says the default in so many words ("default": `on`, false, an  *)
(* empty list), is ill-typed ("odd"), or is ill-typed and falsy ("blank").  *)
(***************************************************************************)
EXTENDS Naturals, FiniteSets

CONSTANTS
    Depth,          \* levels
    Rules,          \* registered rules
    RuleIds,        \* what has the form of a rule id, registered or not
    Entries,        \* entries in use
    Levels,         \* what a level may hold
    InitialLevels,  \* what a level may hold at first
    MaxEdits        \* bound: changes to the disk

Known == {"skip", "include-tests", "include_tests", "rules", "baseline"}

Entry == [table : {"top", "rules"}, key : STRING, value : {"set", "default", "odd", "blank"}]

\* TOML takes no key twice.
Sayings == {E \in SUBSET Entries : \A d, e \in E : d.table = e.table /\ d.key = e.key => d = e}

(***************************************************************************)
(* A file is "broken" if it is not TOML, "locked" if it cannot be read.    *)
(* `says` are the entries of the tool's section in a pyproject.toml (under *)
(* the dash spelling of the section if both are there), and all entries of *)
(* a standalone file.  In an "askew" pyproject.toml that section is no      *)
(* table, as in [[tool.mcp-migrate]].                                      *)
(***************************************************************************)
Document == [kind : {"absent", "locked", "broken", "askew", "toml"}, says : Sayings]

ASSUME SearchAssumption ==
    /\ Depth \in Nat \ {0} /\ MaxEdits \in Nat
    /\ Rules \subseteq RuleIds
    /\ Entries \in SUBSET Entry
    /\ Levels \in SUBSET [pyproject : Document, standalone : Document, git : BOOLEAN]
    /\ InitialLevels \in SUBSET Levels

VARIABLES
    disk,       \* the levels
    pc,         \* where the run is
    root,       \* the level it was pointed at
    at,         \* the level it has come to
    source,     \* the level whose file it parsed, 0 if none
    inForce,    \* entries it goes by
    warned,     \* entries it warns about
    unread,     \* whether it warns of a file it could not read or parse
    form,       \* the form its output has, once it is out
    told,       \* the entries that output warns about
    steady,     \* history: levels nobody changed since the run began
    edits       \* bound counter

config == <<source, inForce, warned, unread>>
output == <<form, told>>
vars   == <<disk, pc, root, at, config, output, steady, edits>>

\* The three formats of `check`, of which text is a mere checklist for an SDK,
\* and the two other commands.
Forms == {"text", "checklist", "json", "sarif", "entry", "fix"}

-----------------------------------------------------------------------------
(***************************************************************************)
(* What the parser makes of a set of entries.                              *)
(***************************************************************************)

DashGiven(E) == \E d \in E : d.table = "top" /\ d.key = "include-tests"

\* Of the two spellings of include-tests one is looked at.
Read(E) == {e \in E : ~(e.table = "top" /\ e.key = "include_tests" /\ DashGiven(E))}

Understood(e) == /\ e.value \in {"set", "default"}
                 /\ IF e.table = "rules" THEN e.key \in RuleIds ELSE e.key \in Known

InForce(E) == {e \in Read(E) : Understood(e) /\ e.value = "set"}

\* `skip = ""` and `rules = false` pass for a list and a table of nothing.
Shrugged(e) == e.table = "top" /\ e.key \in {"skip", "rules"} /\ e.value = "blank"

\* Mutant: a key the parser does not consume falls off the end in silence.
WarnedKnown(E) == {e \in Read(E) : /\ ~Understood(e) /\ ~Shrugged(e)
                                   /\ e.table = "top" => e.key \in Known}

Warned(E) == {e \in Read(E) : ~Understood(e) /\ ~Shrugged(e)}

\* Rules switched off that no rule answers to.
Ghosts(E) == {e \in E : e.table = "rules" /\ e.key \notin Rules}

\* A pyproject.toml without a section, or with one that is no table, leaves the
\* question open; a standalone file answers it even when it is empty.
Decides(level) ==
    LET kind == level.pyproject.kind IN
    \/ kind = "absent" /\ level.standalone.kind # "absent"
    \/ kind \in {"locked", "broken"}
    \/ kind = "toml" /\ level.pyproject.says # {}

-----------------------------------------------------------------------------
(***************************************************************************)
(* The search.                                                             *)
(***************************************************************************)

Init ==
    /\ disk \in [1..Depth -> InitialLevels]
    /\ pc = "idle" /\ root = 1 /\ at = 1
    /\ source = 0 /\ inForce = {} /\ warned = {} /\ unread = FALSE
    /\ form = "none" /\ told = {}
    /\ steady = {} /\ edits = 0

Start(r) ==
    /\ pc \in {"idle", "done"}
    /\ pc' = "pyproject"
    /\ root' = r /\ at' = r
    /\ source' = 0 /\ inForce' = {} /\ warned' = {} /\ unread' = FALSE
    /\ form' = "none" /\ told' = {}
    /\ steady' = 1..Depth
    /\ UNCHANGED <<disk, edits>>

SeekPyproject ==
    /\ pc = "pyproject"
    /\ pc' = IF disk[at].pyproject.kind = "absent" THEN "standalone" ELSE "open pyproject"
    /\ UNCHANGED <<disk, root, at, config, output, steady, edits>>

\* A file that went since it was seen, is locked or broken ends the search
\* with a warning and no config.
GiveUp ==
    /\ pc' = "validate"
    /\ unread' = TRUE
    /\ UNCHANGED <<source, inForce, warned>>

Parse(E) ==
    /\ pc' = "validate"
    /\ source' = at
    /\ inForce' = InForce(E) /\ warned' = Warned(E)
    /\ UNCHANGED unread

\* Mutant: a pyproject.toml that does not mention the tool ends the search.
OpenPyprojectFirst ==
    /\ pc = "open pyproject"
    /\ LET d == disk[at].pyproject IN
          IF d.kind \notin {"askew", "toml"} THEN GiveUp ELSE Parse(d.says)
    /\ UNCHANGED <<disk, root, at, output, steady, edits>>

OpenPyproject ==
    /\ pc = "open pyproject"
    /\ LET d == disk[at].pyproject IN
          IF d.kind \notin {"askew", "toml"} THEN GiveUp
          ELSE IF d.kind = "toml" /\ d.says # {} THEN Parse(d.says)
          ELSE pc' = "ceiling" /\ UNCHANGED config
    /\ UNCHANGED <<disk, root, at, output, steady, edits>>

SeekStandalone ==
    /\ pc = "standalone"
    /\ pc' = IF disk[at].standalone.kind = "absent" THEN "ceiling" ELSE "open standalone"
    /\ UNCHANGED <<disk, root, at, config, output, steady, edits>>

OpenStandalone ==
    /\ pc = "open standalone"
    /\ LET d == disk[at].standalone IN
          IF d.kind # "toml" THEN GiveUp ELSE Parse(d.says)
    /\ UNCHANGED <<disk, root, at, output, steady, edits>>

\* The filesystem root is its own parent.
Parent(level) == IF level = Depth THEN level ELSE level + 1

\* Mutant: the search goes on above the repository.
AtCeilingTop(level) == level = Depth

\* Mutant: only a repository ends the search.
AtCeilingGit(level) == disk[level].git

AtCeiling(level) == disk[level].git \/ level = Depth

Climb ==
    /\ pc = "ceiling"
    /\ IF AtCeiling(at) THEN pc' = "validate" /\ UNCHANGED at
                        ELSE pc' = "pyproject" /\ at' = Parent(at)
    /\ UNCHANGED <<disk, root, config, output, steady, edits>>

\* Mutant: an unknown rule is neither dropped nor mentioned.
ValidateNothing ==
    /\ pc = "validate"
    /\ pc' = "report"
    /\ UNCHANGED <<disk, root, at, config, output, steady, edits>>

Validate ==
    /\ pc = "validate"
    /\ pc' = "report"
    /\ inForce' = inForce \ Ghosts(inForce)
    /\ warned' = warned \cup Ghosts(inForce)
    /\ UNCHANGED <<disk, root, at, source, unread, output, steady, edits>>

\* What an output warns of: JSON has all warnings in every outcome; text prints
\* them with a grade and without one, but not in an SDK's checklist; `fix`
\* prints them first.
Told(f) == IF f \in {"text", "json", "fix"} THEN warned ELSE {}

Report ==
    /\ pc = "report"
    /\ pc' = "done"
    /\ \E f \in Forms : form' = f /\ told' = Told(f)
    /\ UNCHANGED <<disk, root, at, config, steady, edits>>

\* Somebody writes, removes or re-permissions a config file, or makes or
\* removes a repository.
Edit(l, level) ==
    /\ edits < MaxEdits /\ edits' = edits + 1
    /\ disk' = [disk EXCEPT ![l] = level]
    /\ steady' = steady \ {l}
    /\ UNCHANGED <<pc, root, at, config, output>>

Search == \/ SeekPyproject \/ OpenPyproject \/ SeekStandalone \/ OpenStandalone
          \/ Climb \/ Validate \/ Report

Next == \/ \E r \in 1..Depth : Start(r)
        \/ Search
        \/ \E l \in 1..Depth, level \in Levels : Edit(l, level)

\* The process goes on; it waits for nobody.
Spec == Init /\ [][Next]_vars /\ WF_vars(Search)

-----------------------------------------------------------------------------

\* The variables have their types, and at the end no unregistered rule is
\* among those switched off (_validate_configured_rules).
TypeOK ==
    /\ disk \in [1..Depth -> Levels]
    /\ pc \in {"idle", "pyproject", "open pyproject", "standalone", "open standalone",
               "ceiling", "validate", "report", "done"}
    /\ root \in 1..Depth /\ at \in root..Depth
    /\ source \in {0, at}
    /\ inForce \in SUBSET Entries /\ warned \in SUBSET Entries
    /\ unread \in BOOLEAN
    /\ form \in Forms \cup {"none"} /\ told \in SUBSET Entries
    /\ steady \in SUBSET (1..Depth)
    /\ edits \in 0..MaxEdits
    /\ pc = "done" => Ghosts(inForce) = {}

\* A run never so much as looks above a repository that was there all along:
\* "a stray file in a parent directory outside the repo must never quietly
\* change someone's grade" (load_config).
InsideRepo == \A l \in steady : root <= l /\ disk[l].git => at <= l

\* The config a level gives when it decides: what the run goes by, what it
\* warns about, or the warning that the file could not be used.
Deciding(level) == IF level.pyproject.kind = "absent" THEN level.standalone ELSE level.pyproject

\* The nearest level that decides is the one obeyed: no level that decides,
\* and no repository, was passed over, and the search ended at a level for a
\* reason that level gives.  Levels that changed meanwhile are exempt, one by
\* one (load_config, _load_config_at).
NearestDecides ==
    pc = "done" =>
        /\ \A l \in steady : root <= l /\ l < at => ~Decides(disk[l]) /\ ~disk[l].git
        /\ at \in steady =>
              IF ~Decides(disk[at])
                  THEN source = 0 /\ ~unread /\ (disk[at].git \/ at = Depth)
                  ELSE IF Deciding(disk[at]).kind = "toml" THEN source = at /\ ~unread
                                                           ELSE source = 0 /\ unread

\* Two entries that speak of one setting.
SameSetting(d, e) ==
    /\ d.table = e.table
    /\ \/ d.key = e.key
       \/ d.table = "top" /\ {d.key, e.key} = {"include-tests", "include_tests"}

\* The entry gives way to the other spelling of its setting.
Overruled(e, E) == e.table = "top" /\ e.key = "include_tests" /\ DashGiven(E)

\* Every entry of the config that was found is in force, or the user is told
\* that it is not, or it says no more than the default and is not contradicted;
\* but for an ill-typed `skip` or `rules` that is falsy, for include_tests
\* beside include-tests, and for the outputs that print no warnings: SARIF,
\* `entry` and the checklist of an SDK.  A setting "that never applied leaves
\* the published grade different from the configured one, with no output that
\* differs to reveal it" (_parse_table, _validate_configured_rules,
\* _report_config).
EveryEntryAnswered ==
    pc = "done" /\ source \in steady /\ form \notin {"sarif", "entry", "checklist"} =>
        \A e \in Deciding(disk[source]).says :
            \/ e \in inForce \/ e \in told
            \/ e.value = "default" /\ ~\E d \in inForce : SameSetting(d, e)
            \/ Shrugged(e)
            \/ Overruled(e, Deciding(disk[source]).says)

\* A run that looks for its config comes to an end, repository or not
\* (the filesystem root as the backstop).
SearchEnds == pc \notin {"idle", "done"} ~> pc = "done"
=============================================================================
