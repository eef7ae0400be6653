------------------------------- MODULE FixRun -------------------------------
(***************************************************************************)
(* One `mcp-migrate fix` after another over files that developers edit     *)
(* meanwhile.  A run reads the files one by one, works out all edits in    *)
(* memory, and with --write replaces the files in place, so a kill between *)
(* opening a file and filling it leaves that file empty.                   *)
(***************************************************************************)
EXTENDS Fixers

CONSTANTS
    NFiles,         \* bound: files of the tree
    Python,         \* those that are Python; the others are TypeScript
    ProjectWide,    \* rules that report the tree, not a line: R008
    Safe,           \* fixers with confidence "safe"
    Commands,       \* command lines in use
    NoCommand,
    Configs,        \* sets of rules the project config may switch off
    InitialDisks,   \* trees to start with
    Drafts,         \* what a developer may save a file as
    MaxLines,       \* bound: a writing run starts on files this short
    MaxEdits,       \* bound: saves
    MaxKills        \* bound: kills

Files == 1..NFiles

\* `faithful`: its bytes are what reading and writing it as UTF-8 with \n line
\* ends gives back.
Content == [lines : Text, faithful : BOOLEAN]

Command == [exists : BOOLEAN, clash : BOOLEAN, rules : SUBSET Rules, safeOnly : BOOLEAN,
            write : BOOLEAN]

ASSUME FixAssumption ==
    /\ NFiles \in Nat /\ MaxLines \in Nat /\ MaxEdits \in Nat /\ MaxKills \in Nat
    /\ Python \subseteq Files
    /\ ProjectWide \subseteq Rules \ Echoing /\ Safe \subseteq HasFixer
    /\ Commands \subseteq Command /\ NoCommand \in Command
    /\ Configs \subseteq SUBSET Rules
    /\ InitialDisks \subseteq [Files -> Content]
    /\ Drafts \subseteq Content

VARIABLES
    disk,       \* the files
    conf,       \* rules the project config switches off
    pc,         \* where the running command is
    cmd,        \* its flags; `rules` = {} when --rule is not given
    cfg,        \* the disabled rules it loaded
    todo,       \* files it has not read yet
    read,       \* what it read
    plan,       \* the text it wants each file to have
    refused,    \* files it will not touch although it has edits for them
    queue,      \* files it has yet to write
    exit,
    touched,    \* history: files saved by someone else since they were read
    emptied,    \* history: files a run opened and never filled
    kills,      \* history: kills so far, bounded
    edits       \* bound counter

run  == <<pc, cmd, cfg, todo, read, plan, refused, queue, exit>>
vars == <<disk, conf, run, touched, emptied, kills, edits>>

Empty == [lines |-> <<>>, faithful |-> TRUE]
Unread == [f \in Files |-> Empty]

Least(S) == CHOOSE f \in S : \A g \in S : f <= g

-----------------------------------------------------------------------------
(***************************************************************************)
(* What a run decides.                                                     *)
(***************************************************************************)

\* _select_fixers.
Selected == {r \in HasFixer : /\ cmd.rules # {} => r \in cmd.rules
                              /\ cmd.safeOnly => r \in Safe
                              /\ r \notin cfg}

SameLanguage(f, g) == f \in Python <=> g \in Python

\* Mutant: suppressed findings open the gate too.
ReportsLoudly(r, text) == \E i \in DOMAIN text : r \in text[i].flags

\* Rule r has a finding in the text that no directive suppresses.
Reports(r, text) == \E i \in DOMAIN text : r \in text[i].flags \ text[i].ignore

\* A project-wide rule has cause in some file of the language and evidence
\* against it in none; no directive suppresses it.
ReportsTree(r, f) ==
    /\ \E g \in Files : SameLanguage(f, g) /\ \E i \in DOMAIN read[g].lines : r \in read[g].lines[i].flags
    /\ \A g \in Files : SameLanguage(f, g) => \A i \in DOMAIN read[g].lines : r \notin read[g].lines[i].clears

\* _flagged_files, for file f.
Flagged(f) == {r \in Selected : IF r \in ProjectWide THEN ReportsTree(r, f)
                                                    ELSE Reports(r, read[f].lines)}

Wanted(f) == Chained(Flagged(f), f \in Python, read[f].lines)

Changed == {f \in Files : Wanted(f) # read[f].lines}

\* Mutant: the check is made only for files that did not parse before.
BreaksBroken(f, new) == f \in Python /\ ~Parses(read[f].lines) /\ ~Parses(new)

\* _would_break_python: a file that was broken already is not held against us.
Breaks(f, new) == f \in Python /\ Parses(read[f].lines) /\ ~Parses(new)

Refusals == {f \in Changed : Breaks(f, Wanted(f))}

\* Mutant: a refusal is forgotten once another file was fixed.
FinalExitLenient == IF refused # {} /\ \A f \in Files : f \in refused \/ plan[f] = read[f].lines
                        THEN 1 ELSE 0

FinalExit == IF refused = {} THEN 0 ELSE 1

\* Mutant: every file is opened before the first is filled.
OpenedAll == queue

\* The files the next write opens.
Opened == {Least(queue)}

-----------------------------------------------------------------------------
(***************************************************************************)
(* The run.                                                                *)
(***************************************************************************)

Forget == /\ todo' = {} /\ read' = Unread /\ plan' = [f \in Files |-> <<>>]
          /\ refused' = {} /\ queue' = {} /\ touched' = {}

\* --write and --dry-run clash, a path that does not exist, no fixer left by
\* the filters: the run is over before it reads a file.
Start(c) ==
    /\ pc = "idle"
    /\ c.write => \A f \in Files : Len(disk[f].lines) <= MaxLines
    /\ cmd' = c
    /\ cfg' = conf
    /\ Forget
    /\ IF c.clash \/ ~c.exists THEN pc' = "done" /\ exit' = 2
                               ELSE pc' = "selecting" /\ exit' = 0
    /\ UNCHANGED <<disk, conf, emptied, kills, edits>>

Select ==
    /\ pc = "selecting"
    /\ IF Selected = {} THEN pc' = "done" /\ todo' = {}
                        ELSE pc' = "reading" /\ todo' = Files
    /\ UNCHANGED <<disk, conf, cmd, cfg, read, plan, refused, queue, exit, touched,
                   emptied, kills, edits>>

ReadFile ==
    /\ pc = "reading" /\ todo # {}
    /\ LET f == Least(todo) IN
          /\ todo' = todo \ {f}
          /\ read' = [read EXCEPT ![f] = disk[f]]
    /\ UNCHANGED <<disk, conf, pc, cmd, cfg, plan, refused, queue, exit, touched,
                   emptied, kills, edits>>

Plan ==
    /\ pc = "reading" /\ todo = {}
    /\ pc' = "writing"
    /\ plan' = [f \in Files |-> Wanted(f)]
    /\ refused' = Refusals
    /\ queue' = IF cmd.write THEN Changed \ Refusals ELSE {}
    /\ UNCHANGED <<disk, conf, cmd, cfg, todo, read, exit, touched, emptied, kills, edits>>

\* Path.write_text truncates the file before it writes to it.
OpenFile ==
    /\ pc = "writing" /\ queue # {}
    /\ pc' = "filling"
    /\ disk' = [f \in Files |-> IF f \in Opened THEN Empty ELSE disk[f]]
    /\ emptied' = emptied \cup Opened
    /\ UNCHANGED <<conf, cmd, cfg, todo, read, plan, refused, queue, exit, touched,
                   kills, edits>>

FillFile ==
    /\ pc = "filling"
    /\ pc' = "writing"
    /\ LET f == Least(queue) IN
          /\ disk' = [disk EXCEPT ![f] = [lines |-> plan[f], faithful |-> TRUE]]
          /\ emptied' = emptied \ {f}
          /\ queue' = queue \ {f}
    /\ UNCHANGED <<conf, cmd, cfg, todo, read, plan, refused, exit, touched, kills, edits>>

Finish ==
    /\ pc = "writing" /\ queue = {}
    /\ pc' = "done"
    /\ exit' = FinalExit
    /\ UNCHANGED <<disk, conf, cmd, cfg, todo, read, plan, refused, queue, touched,
                   emptied, kills, edits>>

Rest == pc' = "idle" /\ cmd' = NoCommand /\ cfg' = {} /\ exit' = 0 /\ Forget

Return == pc = "done" /\ Rest /\ UNCHANGED <<disk, conf, emptied, kills, edits>>

Kill == /\ pc \notin {"idle", "done"} /\ kills < MaxKills
        /\ kills' = kills + 1
        /\ Rest
        /\ UNCHANGED <<disk, conf, emptied, edits>>

\* A developer saves file f.
Save(f, c) ==
    /\ edits < MaxEdits
    /\ edits' = edits + 1
    /\ disk' = [disk EXCEPT ![f] = c]
    /\ touched' = IF pc \notin {"idle", "selecting"} /\ f \notin todo
                      THEN touched \cup {f} ELSE touched
    /\ emptied' = emptied \ {f}
    /\ UNCHANGED <<conf, run, kills>>

Reconfigure(off) ==
    /\ edits < MaxEdits
    /\ edits' = edits + 1
    /\ conf' = off
    /\ UNCHANGED <<disk, run, touched, emptied, kills>>

-----------------------------------------------------------------------------
Init ==
    /\ disk \in InitialDisks /\ conf \in Configs
    /\ pc = "idle" /\ cmd = NoCommand /\ cfg = {}
    /\ todo = {} /\ read = Unread /\ plan = [f \in Files |-> <<>>]
    /\ refused = {} /\ queue = {} /\ exit = 0
    /\ touched = {} /\ emptied = {} /\ kills = 0 /\ edits = 0

Next ==
    \/ \E c \in Commands : Start(c)
    \/ Select \/ ReadFile \/ Plan \/ OpenFile \/ FillFile \/ Finish \/ Return \/ Kill
    \/ \E f \in Files, c \in Drafts : Save(f, c)
    \/ \E off \in Configs : Reconfigure(off)

Spec == Init /\ [][Next]_vars

-----------------------------------------------------------------------------
(***************************************************************************)
(* Properties.                                                             *)
(***************************************************************************)

\* Every variable holds a value of its kind; no comment is left that a rule
\* or a fixer still matches.
TypeOK ==
    /\ disk \in [Files -> Content] /\ read \in [Files -> Content]
    /\ plan \in [Files -> Text]
    /\ conf \in SUBSET Rules /\ cfg \in SUBSET Rules
    /\ pc \in {"idle", "selecting", "reading", "writing", "filling", "done"}
    /\ cmd \in Command
    /\ \A s \in {todo, refused, queue, touched, emptied} : s \subseteq Files
    /\ exit \in 0..2
    /\ kills \in 0..MaxKills /\ edits \in 0..MaxEdits

\* A run that read the tree and came to its end.
Completed == pc = "done" /\ exit # 2 /\ Selected # {}

\* What makes the properties below inductive.  While a run reads, its copy of
\* a file nobody saved since is what is on disk; once it has planned, each such
\* file is as read or as planned, by where the run is in its queue.
Current == IF pc = "filling" THEN {Least(queue)} ELSE {}

Judged == pc \in {"writing", "filling"} \/ Completed

Shaped == /\ disk = [f \in Files |-> disk[f]] /\ read = [f \in Files |-> read[f]]
          /\ IsFiniteSet(emptied) /\ kills \in Nat
          /\ pc = "filling" => queue # {}
          /\ pc \notin {"writing", "filling"} => queue = {}

Snapshot == pc = "reading" => \A f \in Files \ (todo \cup touched) : disk[f] = read[f]

Planned == Judged =>
    /\ todo = {} /\ plan = [f \in Files |-> Wanted(f)] /\ refused = Refusals
    /\ queue \subseteq IF cmd.write THEN Changed \ Refusals ELSE {}

Written(f) == cmd.write /\ f \in Changed \ Refusals /\ f \notin queue

Progress == Judged =>
    \A f \in Files \ (touched \cup Current) :
        disk[f] = IF Written(f) THEN [lines |-> Wanted(f), faithful |-> TRUE] ELSE read[f]

Concluded == Completed => queue = {} /\ exit = FinalExit

Spared == Cardinality(emptied \ Current) <= kills

Consistent == Shaped /\ Snapshot /\ Planned /\ Progress /\ Concluded /\ Spared

\* `fix --write` never leaves a file that parsed unparseable, whatever the
\* fixers do to it one after another (_would_break_python, and the test named
\* "must never leave a parseable file unparseable").
NothingBroken ==
    Completed =>
        \A f \in Python \ touched : Parses(read[f].lines) => Parses(disk[f].lines)

\* A file the run changes has, for a fixer of this run, a finding `check`
\* would not suppress, in itself or in the tree of its language, of a rule the
\* config leaves on; a dry run changes none (_flagged_files, cmd_fix).
OnlyFlagged ==
    Completed =>
        \A f \in Files \ touched : disk[f] # read[f] =>
            /\ cmd.write
            /\ \E r \in HasFixer \ cfg :
                  /\ cmd.rules # {} => r \in cmd.rules
                  /\ IF r \in ProjectWide THEN ReportsTree(r, f)
                     ELSE \E i \in DOMAIN read[f].lines :
                             r \in read[f].lines[i].flags \ read[f].lines[i].ignore

\* The exit code tells whether everything on offer was done: 0 after --write
\* means every file now is what the fixers make of it, 1 that some file was
\* declined and is as it was (_partition_unparseable, cmd_fix).
ExitTellsAll ==
    Completed /\ cmd.write =>
        IF exit = 0 THEN \A f \in Files \ touched : disk[f].lines = Wanted(f)
        ELSE \E f \in Files : Wanted(f) # read[f].lines /\ (f \notin touched => disk[f] = read[f])

\* A TODO that landed in a template, where the rule it is for reports it.
Echo(l) == l.form = "template" /\ l.note \in Echoing

\* Findings of rule r in a text that are not suppressed, but for such TODOs.
Findings(r, text) == {i \in DOMAIN text : r \in text[i].flags \ text[i].ignore /\ ~Echo(text[i])}

\* A file of f's language gives rule r cause, or is evidence against it.
Like(f) == {g \in Files : SameLanguage(f, g)}
Caused(r, f, tree)   == \E g \in Like(f) : \E i \in DOMAIN tree[g].lines : r \in tree[g].lines[i].flags
Answered(r, f, tree) == \E g \in Like(f) : \E i \in DOMAIN tree[g].lines : r \in tree[g].lines[i].clears

\* Fixing does not add to what `check` reports.  No rule has more unsuppressed
\* findings in a file than before the run (the TODOs, the commented lines and
\* the rewrites of every fixer, chained), but for the TODOs that land inside a
\* template literal; and a rule that reports the tree starts to only if a line
\* that answered it is one of those a fixer comments out.
NeverWorse ==
    Completed =>
        /\ \A f \in Files \ touched, r \in Rules :
              Cardinality(Findings(r, disk[f].lines)) <= Cardinality(Findings(r, read[f].lines))
        /\ \A f \in Files, r \in ProjectWide :
              /\ touched = {}
              /\ Caused(r, f, disk) /\ ~Answered(r, f, disk)
              /\ ~(Caused(r, f, read) /\ ~Answered(r, f, read))
              => \E g \in Like(f) : \E i \in DOMAIN read[g].lines :
                    r \in read[g].lines[i].clears /\ read[g].lines[i].edits \cap Retiring # {}

\* Whole means for a file that Python still accepts it.
Intact(f, c) == f \in Python => Parses(c.lines)

\* The files the run has decided to write, and what they shall hold.
Replacing == {f \in Files : /\ pc \in {"writing", "filling"} /\ cmd.write
                           /\ plan[f] # read[f].lines /\ f \notin refused}

Planning(f) == [lines |-> plan[f], faithful |-> TRUE]

\* The file a run is filling counts as filled: what others save meanwhile is
\* overwritten, and a kill then loses it.
Shown == [f \in Files |-> IF f \in Current THEN Planning(f) ELSE disk[f]]

Stage == CASE pc = "reading"                -> "looking"
           [] pc \in {"writing", "filling"} -> "replacing"
           [] OTHER                         -> "rest"

Seen == [f \in IF Stage = "rest" THEN {} ELSE Files \ todo |-> read[f]]

Goals == [f \in Replacing |-> Planning(f)]

Atomic == INSTANCE AtomicFix WITH
              Contents <- Content,
              Whole    <- Intact,
              text     <- Shown,
              phase    <- Stage,
              seen     <- Seen,
              goal     <- Goals,
              due      <- queue \ Current,
              saves    <- edits

\* A run replaces what it decided to replace after it has read all files, each
\* file at once and at most once, never a file that parsed by one that does
\* not; a kill costs at most one file it has replaced, and every other change
\* is somebody's save (cmd_fix reads and plans first, writes file by file).
ImplementsAtomicFix == Atomic!Spec

\* Interrupting a run costs at most the one file it was writing: files are
\* written one after another, each in place.
OneFilePerKill == Cardinality(emptied) <= kills + (IF pc = "filling" THEN 1 ELSE 0)

\* "every fixer is idempotent (running it twice changes nothing the second
\* time)" (tests/test_fixers.py:7): none of the fixers that just ran would
\* change what the run left.
FixersSettle ==
    Completed /\ cmd.write /\ exit = 0 =>
        \A f \in Files \ touched : \A r \in Flagged(f) :
            Fixed(r, f \in Python, disk[f].lines) = disk[f].lines
=============================================================================
