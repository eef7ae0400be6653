------------------------------ MODULE CheckRun ------------------------------
(***************************************************************************)
(* One `mcp-migrate` command after another over a tree that others are     *)
(* changing: `check`, the pre-commit hook around it, and `entry`.  A run   *)
(* looks at the disk four times - the config, the files one by one, the    *)
(* survey of languages, the SDK test - and combines what it saw into an    *)
(* exit code and, if it may, a grade.                                      *)
(*                                                                         *)
(* A file is its number in the order of paths and never changes content;   *)
(* what a rule reports of it is Hits.  Suppression, the merge and the      *)
(* baseline are BaselineGate's subject.                                    *)
(***************************************************************************)
EXTENDS Grading

CONSTANTS
    NFiles,         \* bound: files the tree may hold
    Languages,      \* languages the survey has a name for
    Language,       \* Language[f], by extension
    Loadable,       \* files with an extension the scanner reads: no .pyi, no .d.ts
    InTests,        \* files that look like test code
    Directory,      \* Directory[f]: the directory f is in
    Hits,           \* Hits[f]: the rules with something to report in f
    Declares,       \* Declares[r]: the languages rule r reads
    Commands,       \* command lines in use
    NoCommand,
    Configs,        \* project configs in use
    InitialTrees,   \* sets of files the tree may start with
    MaxEdits        \* bound: changes to the disk

Files     == 1..NFiles
Supported == {"python"}
Partial   == {"typescript", "javascript"}

Config  == [skip : SUBSET {Directory[f] : f \in Files}, tests : BOOLEAN,
            disabled : SUBSET Rules]
Command == [verb : {"check", "hook", "entry"}, exists : BOOLEAN,
            rules : SUBSET Rules, tests : BOOLEAN, failOn : Thresholds,
            write : BOOLEAN]

ASSUME CheckAssumption ==
    /\ NFiles \in Nat /\ MaxEdits \in Nat
    /\ Language \in [Files -> Languages]
    /\ Loadable \in SUBSET Files /\ InTests \in SUBSET Files
    /\ Hits \in [Files -> SUBSET Rules]
    /\ Declares \in [Rules -> SUBSET Languages]
    /\ Supported \cup Partial \subseteq Languages
    /\ Commands \in SUBSET Command /\ NoCommand \in Command
    /\ \A c \in Commands : c.verb = "entry" => c.rules = {} /\ ~c.tests /\ ~c.write
    /\ Configs \in SUBSET Config /\ Configs # {}
    /\ InitialTrees \in SUBSET SUBSET Files

VARIABLES
    tree,       \* the files on disk
    locked,     \* files that cannot be opened
    conf,       \* the project config on disk
    sdk,        \* whether the manifest on disk names a protocol SDK
    pc,         \* where the running command is
    cmd,        \* its command line; `rules` = {} when --rule is not given
    cfg,        \* the config it loaded
    todo,       \* files it listed and has not come to yet
    loaded,     \* files it read
    checked,    \* languages some rule that ran declares
    findings,
    counts,     \* files per language the survey saw
    isSdk,      \* what detect_sdk said
    exit, grade,
    steady,     \* history: files that stayed readable since the run began
    edits       \* bound counter

disk == <<tree, locked, conf, sdk>>
run  == <<pc, cmd, cfg, todo, loaded, checked, findings, counts, isSdk, exit, grade>>
vars == <<disk, run, steady, edits>>

NoCounts == [l \in Languages |-> 0]
NoGrade  == "none"

-----------------------------------------------------------------------------
(***************************************************************************)
(* What a run makes of what it saw.                                        *)
(***************************************************************************)

\* --rule with --write-baseline is refused before anything runs.
Refused(c) == c.rules # {} /\ c.write

\* A flag beats config, and config can only turn tests on.
TestsToo == cmd.tests \/ cfg.tests

Eligible(f) == /\ f \in Loadable
               /\ Directory[f] \notin cfg.skip
               /\ f \in InTests => TestsToo

Active == (IF cmd.rules = {} THEN Rules ELSE cmd.rules) \ cfg.disabled

Reads(r, f) == Language[f] \in Declares[r]

\* Mutant: a language view is built, and rules run on it, only once.
OneRulePerLanguage(F) ==
    {x \in [rule : Active, file : F] :
        /\ Reads(x.rule, x.file) /\ x.rule \in Hits[x.file]
        /\ \A r \in Active : Reads(r, x.file) => Rank(x.rule) <= Rank(r)}

Report(F) == {x \in [rule : Active, file : F] :
                 Reads(x.rule, x.file) /\ x.rule \in Hits[x.file]}

Gradable == \E f \in loaded : Language[f] \in Supported

\* Why no grade may be given: unscannable_reason.
Reason ==
    CASE Gradable                                      -> "none"
      [] ~Gradable /\ counts = NoCounts                -> "empty"
      [] ~Gradable /\ \E l \in Partial : counts[l] > 0 -> "partial"
      [] ~Gradable /\ (\A l \in Partial : counts[l] = 0)
           /\ counts["python"] > 0                     -> IF TestsToo THEN "unread" ELSE "tests"
      [] OTHER                                         -> "unknown"

CheckedSomething == \E f \in loaded : Language[f] \in checked

ExitFindings == IF cmd.write THEN {} ELSE findings

\* Mutant: the tree is refused whenever it gets no grade.
CheckExitStrict ==
    IF isSdk THEN 0 ELSE IF Reason # "none" THEN 2 ELSE ExitFor(ExitFindings, cmd.failOn)

CheckExit ==
    IF isSdk THEN 0
    ELSE IF Reason # "none" /\ ~CheckedSomething THEN 2
    ELSE ExitFor(ExitFindings, cmd.failOn)

CheckGrade ==
    IF isSdk \/ Reason # "none" \/ cmd.rules # {} THEN NoGrade
    ELSE Letter(Score(findings))

\* The language most files are in, a tie going to one that carries a grade.
MostlySupported ==
    \E l \in Supported : counts[l] > 0 /\ \A k \in Languages : counts[k] <= counts[l]

\* Mutant: `entry` goes by the survey alone.
EntryPrintsSurveyed == ~isSdk /\ MostlySupported

EntryPrints == ~isSdk /\ Reason = "none" /\ MostlySupported

Outcome ==
    IF cmd.verb = "entry"
        THEN IF EntryPrints THEN [exit |-> 0, grade |-> Letter(Score(findings))]
                            ELSE [exit |-> 2, grade |-> NoGrade]
        ELSE [exit  |-> IF cmd.verb = "hook" /\ CheckExit = 2 THEN 0 ELSE CheckExit,
              grade |-> CheckGrade]

-----------------------------------------------------------------------------
(***************************************************************************)
(* The run.                                                                *)
(***************************************************************************)

Fresh ==
    /\ todo' = {} /\ loaded' = {} /\ checked' = {} /\ findings' = {}
    /\ counts' = NoCounts /\ isSdk' = FALSE /\ grade' = NoGrade

\* The path must exist, then the config is read, then the flags must be
\* compatible.
Start(c) ==
    /\ pc = "idle"
    /\ cmd' = c
    /\ cfg' = IF c.exists THEN conf ELSE cfg
    /\ IF ~c.exists \/ Refused(c)
           THEN pc' = "done" /\ exit' = IF c.verb = "hook" THEN 0 ELSE 2
           ELSE pc' = "listing" /\ exit' = 0
    /\ Fresh
    /\ steady' = tree \ locked
    /\ UNCHANGED <<disk, edits>>

ListFiles ==
    /\ pc = "listing"
    /\ pc' = "reading"
    /\ todo' = tree
    /\ UNCHANGED <<disk, cmd, cfg, loaded, checked, findings, counts, isSdk, exit,
                   grade, steady, edits>>

ReadFile ==
    /\ pc = "reading"
    /\ \E f \in todo :
          /\ \A g \in todo : f <= g
          /\ todo' = todo \ {f}
          /\ loaded' = IF f \in tree \ locked /\ Eligible(f) THEN loaded \cup {f} ELSE loaded
    /\ UNCHANGED <<disk, pc, cmd, cfg, checked, findings, counts, isSdk, exit, grade,
                   steady, edits>>

RunRules ==
    /\ pc = "reading" /\ todo = {}
    /\ pc' = "surveying"
    /\ findings' = Report(loaded)
    /\ checked' = UNION {Declares[r] : r \in Active}
    /\ UNCHANGED <<disk, cmd, cfg, todo, loaded, counts, isSdk, exit, grade, steady, edits>>

\* Counts every extension it knows: .pyi, .d.ts and test files too, and files
\* that cannot be opened.
Survey ==
    /\ pc = "surveying"
    /\ pc' = "classifying"
    /\ counts' = [l \in Languages |->
                    Cardinality({f \in tree : Language[f] = l /\ Directory[f] \notin cfg.skip})]
    /\ UNCHANGED <<disk, cmd, cfg, todo, loaded, checked, findings, isSdk, exit, grade,
                   steady, edits>>

DetectSdk ==
    /\ pc = "classifying"
    /\ pc' = "reporting"
    /\ isSdk' = sdk
    /\ UNCHANGED <<disk, cmd, cfg, todo, loaded, checked, findings, counts, exit, grade,
                   steady, edits>>

Finish ==
    /\ pc = "reporting"
    /\ pc' = "done"
    /\ exit' = Outcome.exit
    /\ grade' = Outcome.grade
    /\ UNCHANGED <<disk, cmd, cfg, todo, loaded, checked, findings, counts, isSdk,
                   steady, edits>>

Return ==
    /\ pc = "done"
    /\ pc' = "idle" /\ cmd' = NoCommand /\ exit' = 0
    /\ Fresh
    /\ steady' = {}
    /\ UNCHANGED <<disk, cfg, edits>>

-----------------------------------------------------------------------------
(***************************************************************************)
(* Everyone else who has the directory open.                               *)
(***************************************************************************)

Edit == edits < MaxEdits /\ edits' = edits + 1 /\ UNCHANGED run

Disturbed(f) == steady' = steady \ {f}

Appear(f) == /\ f \notin tree /\ tree' = tree \cup {f} /\ Disturbed(f)
             /\ Edit /\ UNCHANGED <<locked, conf, sdk>>

Vanish(f) == /\ f \in tree /\ tree' = tree \ {f} /\ Disturbed(f)
             /\ Edit /\ UNCHANGED <<locked, conf, sdk>>

Relock(f) == /\ locked' = IF f \in locked THEN locked \ {f} ELSE locked \cup {f}
             /\ Disturbed(f)
             /\ Edit /\ UNCHANGED <<tree, conf, sdk>>

Reconfigure(c) == conf' = c /\ Edit /\ UNCHANGED <<tree, locked, sdk, steady>>

RenamePackage == sdk' = ~sdk /\ Edit /\ UNCHANGED <<tree, locked, conf, steady>>

-----------------------------------------------------------------------------
Init ==
    /\ tree \in InitialTrees /\ locked = {} /\ conf \in Configs /\ sdk = FALSE
    /\ pc = "idle" /\ cmd = NoCommand /\ cfg = conf
    /\ todo = {} /\ loaded = {} /\ checked = {} /\ findings = {}
    /\ counts = NoCounts /\ isSdk = FALSE /\ exit = 0 /\ grade = NoGrade
    /\ steady = {} /\ edits = 0

RunNext ==
    \/ \E c \in Commands : Start(c)
    \/ ListFiles \/ ReadFile \/ RunRules \/ Survey \/ DetectSdk \/ Finish \/ Return

DiskNext ==
    \/ \E f \in Files : Appear(f) \/ Vanish(f) \/ Relock(f)
    \/ \E c \in Configs : Reconfigure(c)
    \/ RenamePackage

Next == RunNext \/ DiskNext

Spec == Init /\ [][Next]_vars

-----------------------------------------------------------------------------
(***************************************************************************)
(* Properties.                                                             *)
(***************************************************************************)

\* Every variable holds a value of its kind; the exit code is one of the
\* three the program documents, and a file is never loaded while it is still
\* to be read.
TypeOK ==
    /\ tree \in SUBSET Files /\ locked \in SUBSET Files
    /\ conf \in Config /\ sdk \in BOOLEAN
    /\ pc \in {"idle", "listing", "reading", "surveying", "classifying", "reporting", "done"}
    /\ cmd \in Command /\ cfg \in Config
    /\ todo \in SUBSET Files /\ loaded \in SUBSET Files
    /\ checked \in SUBSET Languages
    /\ findings \in SUBSET [rule : Rules, file : Files]
    /\ counts \in [Languages -> Nat]
    /\ isSdk \in BOOLEAN
    /\ exit \in 0..2
    /\ grade \in Letters \cup {NoGrade}
    /\ steady \in SUBSET Files
    /\ edits \in 0..MaxEdits

Completed == pc = "done" /\ cmd.exists /\ ~Refused(cmd)

\* What makes the properties below inductive: no undisturbed file the run is
\* meant to read falls between the list and the reading, and the findings are
\* what the active rules report of everything read.
NothingMissed ==
    /\ pc = "listing" => steady \subseteq tree \ locked
    /\ pc = "reading" =>
          /\ steady \subseteq tree \ locked
          /\ \A f \in steady : Eligible(f) => f \in todo \cup loaded
    /\ pc \in {"surveying", "classifying", "reporting"} \/ Completed =>
          \A f \in steady : Eligible(f) => f \in loaded

Scanned ==
    pc \in {"surveying", "classifying", "reporting"} \/ Completed =>
        /\ findings = Report(loaded)
        /\ checked = UNION {Declares[r] : r \in Active}

Concluded == Completed => exit = Outcome.exit /\ grade = Outcome.grade

OnlyEligible == \A f \in loaded : Eligible(f)

EntryTakesNoFlags == pc # "idle" /\ cmd.verb = "entry" => cmd.rules = {}

Consistent == NothingMissed /\ OnlyEligible /\ EntryTakesNoFlags /\ Scanned /\ Concluded

\* A clean exit means the code is clean: a run of `check` or of the hook that
\* exits 0 leaves no finding at or above --fail-on in any file that was there
\* to be read from start to finish, whatever else changed meanwhile
\* (run_check_detailed, load_project, _exit_for, precommit.main).
CleanMeansClean ==
    Completed /\ cmd.verb \in {"check", "hook"} /\ exit = 0 /\ ~isSdk /\ ~cmd.write =>
        \A f \in steady : Eligible(f) =>
            \A r \in Active \cap Hits[f] : Reads(r, f) => ~Blocking(r, cmd.failOn)

\* "Could not check" is never said of a tree that was checked: exit 2 of
\* `check` means no undisturbed file was in a language that carries a grade or
\* that any rule of this run reads (_checked_something, unscannable_reason).
RefusalMeansUnread ==
    Completed /\ cmd.verb = "check" /\ exit = 2 =>
        \A f \in steady : Eligible(f) =>
            Language[f] \notin Supported /\ \A r \in Active : ~Reads(r, f)

\* A grade is a claim about the code: an A, shown by `check` or published by
\* `entry`, is of a tree where no enabled rule above advisory fires in an
\* undisturbed file (score, letter, and the gates of cmd_check and cmd_entry).
AMeansClean ==
    Completed /\ grade = "A" =>
        \A f \in steady : Eligible(f) =>
            \A r \in Hits[f] \ cfg.disabled : Reads(r, f) => Severity[r] = "advisory"

\* `entry` "refuses far more readily than check does" (cmd_entry): what it
\* publishes, `check` would have graded, and with the same letter, from at
\* least one Python file that was read.
EntryIsNarrower ==
    Completed /\ cmd.verb = "entry" /\ exit = 0 =>
        grade = CheckGrade /\ \E f \in loaded : Language[f] = "python" /\ Eligible(f)
=============================================================================
