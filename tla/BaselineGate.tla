---------------------------- MODULE BaselineGate ----------------------------
(***************************************************************************)
(* A working tree, the baseline file kept beside it, and one `mcp-migrate  *)
(* check` process after another: cli.cmd_check with --baseline and/or      *)
(* --write-baseline, step by step, while developers edit the tree, switch  *)
(* rules off in the config and touch the baseline file by hand.  A process *)
(* may be killed between any two steps; the baseline file is written in    *)
(* place, so a kill between opening it and finishing the write leaves it   *)
(* torn.                                                                   *)
(***************************************************************************)
EXTENDS Findings

CONSTANTS
    InitialFiles,   \* contents a file may start with
    EditTexts,      \* texts a developer may type
    Toggles,        \* rules whose config switch a developer may flip
    FailOns,        \* values of --fail-on in use
    MaxEdits        \* bound: changes made from outside `check`

ASSUME GateAssumption ==
    /\ InitialFiles \in SUBSET File
    /\ EditTexts \in SUBSET Texts
    /\ Toggles \in SUBSET Rules
    /\ FailOns \in SUBSET Thresholds
    /\ Roots # {}
    /\ MaxEdits \in Nat

VARIABLES
    tree,       \* the files on disk
    disabled,   \* rules the project config switches off
    file,       \* the baseline file on disk
    pc,         \* where the running check is
    cmd,        \* its flags
    cfg,        \* the disabled rules it loaded
    findings,   \* after suppression and the merge
    loaded,     \* the baseline entries it read
    fresh,      \* findings the baseline did not absorb
    stale,      \* entries it reports as gone
    exit,       \* its exit code
    seen,       \* history: the unsuppressed matches it could have reported
    origin,     \* history: the run behind the entries on disk
    edits       \* bound counter

run  == <<pc, cmd, cfg, findings, loaded, fresh, stale, exit, seen>>
vars == <<tree, disabled, file, run, origin, edits>>

Commands == [root : Roots, baseline : BOOLEAN, write : BOOLEAN, failOn : FailOns]
NoCommand == [root |-> CHOOSE r \in Roots : TRUE, baseline |-> FALSE,
              write |-> FALSE, failOn |-> "never"]

NoEntries == EmptyBag
Absent    == [state |-> "absent",  entries |-> NoEntries]
Torn      == [state |-> "torn",    entries |-> NoEntries]
Written(entries) == [state |-> "written", entries |-> entries]

NoOrigin == [root |-> NoPath, cfg |-> {}, matches |-> NoEntries]

\* The matches a reader of the tree would count: every line that carries one
\* and no directive against it, whatever the config switches off, before any
\* rule stops at its first hit and before the merge.
Unsuppressed(root, t) ==
    Tally(Kept(Matches(root, t, Rules) \cup ProjectFindings(root, t, Rules)))

-----------------------------------------------------------------------------
(***************************************************************************)
(* The check process.                                                      *)
(***************************************************************************)

Idle ==
    /\ pc' = "idle" /\ cmd' = NoCommand /\ cfg' = {} /\ findings' = {}
    /\ loaded' = NoEntries /\ fresh' = {} /\ stale' = NoEntries /\ exit' = 0
    /\ seen' = NoEntries

Invoke(c) ==
    /\ pc = "idle"
    /\ pc' = "invoked"
    /\ cmd' = c
    /\ cfg' = disabled
    /\ UNCHANGED <<tree, disabled, file, findings, loaded, fresh, stale, exit,
                   seen, origin, edits>>

\* load_project, the rules, suppression and the merge.
Scan ==
    /\ pc = "invoked"
    /\ pc' = "scanned"
    /\ findings' = Dedupe(Kept(RawFindings(cmd.root, tree, Rules \ cfg)))
    /\ seen' = Unsuppressed(cmd.root, tree)
    /\ UNCHANGED <<tree, disabled, file, cmd, cfg, loaded, fresh, stale, exit,
                   origin, edits>>

\* baseline.load: a missing, unreadable or torn file is an empty baseline.
Load(f) == IF f.state = "written" THEN f.entries ELSE NoEntries

ApplyBaseline ==
    /\ pc = "scanned"
    /\ pc' = IF cmd.write THEN "recording" ELSE "deciding"
    /\ loaded' = IF cmd.baseline THEN Load(file) ELSE NoEntries
    /\ fresh'  = NewFindings(findings, loaded')
    /\ stale'  = StaleEntries(findings, loaded')
    /\ UNCHANGED <<tree, disabled, file, cmd, cfg, findings, exit, seen, origin,
                   edits>>

\* Path.write_text truncates the file before it writes to it.
OpenBaseline ==
    /\ pc = "recording"
    /\ pc' = "opened"
    /\ file' = Torn
    /\ origin' = NoOrigin
    /\ UNCHANGED <<tree, disabled, cmd, cfg, findings, loaded, fresh, stale,
                   exit, seen, edits>>

\* Mutants: the new entries are merged into the ones already there; only the
\* findings the gate would block on are recorded.
RecordedMerged  == Tally(findings) (+) loaded
RecordedBlocking == Tally({f \in findings : Blocking(f.rule, cmd.failOn)})

Recorded == Tally(findings)

FillBaseline ==
    /\ pc = "opened"
    /\ pc' = "deciding"
    /\ file' = Written(Recorded)
    /\ origin' = [root |-> cmd.root, cfg |-> cfg, matches |-> seen]
    /\ UNCHANGED <<tree, disabled, cmd, cfg, findings, loaded, fresh, stale,
                   exit, seen, edits>>

\* Mutant: the flag is not passed on.
ExitFindingsUnaware == fresh

\* _exit_findings: nothing is new right after the baseline was written.
ExitFindings == IF cmd.write THEN {} ELSE fresh

Decide ==
    /\ pc = "deciding"
    /\ pc' = "done"
    /\ exit' = ExitFor(ExitFindings, cmd.failOn)
    /\ UNCHANGED <<tree, disabled, file, cmd, cfg, findings, loaded, fresh,
                   stale, seen, origin, edits>>

Return ==
    /\ pc = "done"
    /\ Idle
    /\ UNCHANGED <<tree, disabled, file, origin, edits>>

Kill ==
    /\ pc \notin {"idle", "done"}
    /\ Idle
    /\ UNCHANGED <<tree, disabled, file, origin, edits>>

-----------------------------------------------------------------------------
(***************************************************************************)
(* The developers.                                                         *)
(***************************************************************************)

TypedLines == [text : EditTexts, ignore : Directives]

WithLine(f, i, l)  == SubSeq(f, 1, i) \o <<l>> \o SubSeq(f, i + 1, Len(f))
WithoutLine(f, i) == SubSeq(f, 1, i - 1) \o SubSeq(f, i + 1, Len(f))

EditTree(p) ==
    /\ edits < MaxEdits
    /\ \/ /\ Len(tree[p]) < MaxLines
          /\ \E i \in 0..Len(tree[p]), l \in TypedLines :
                tree' = [tree EXCEPT ![p] = WithLine(tree[p], i, l)]
       \/ \E i \in 1..Len(tree[p]) :
             tree' = [tree EXCEPT ![p] = WithoutLine(tree[p], i)]
    /\ edits' = edits + 1
    /\ UNCHANGED <<disabled, file, run, origin>>

ToggleRule(r) ==
    /\ edits < MaxEdits
    /\ disabled' = IF r \in disabled THEN disabled \ {r} ELSE disabled \cup {r}
    /\ edits' = edits + 1
    /\ UNCHANGED <<tree, file, run, origin>>

\* B with one copy of k less.
Without(B, k) == B (-) SetToBag({k})

\* An entry is pruned by hand, or damaged so that `load` skips it: the
\* developer no longer accepts it.  Between runs, since a run reads the file
\* once and a later hand edit is one it does not see.
LoseEntry(k) ==
    /\ pc = "idle"
    /\ edits < MaxEdits
    /\ file.state = "written"
    /\ file' = Written(Without(file.entries, k))
    /\ origin' = [origin EXCEPT !.matches = Without(@, k)]
    /\ edits' = edits + 1
    /\ UNCHANGED <<tree, disabled, run>>

-----------------------------------------------------------------------------
Init ==
    /\ tree \in [Paths -> InitialFiles]
    /\ disabled = {}
    /\ file = Absent
    /\ pc = "idle" /\ cmd = NoCommand /\ cfg = {} /\ findings = {}
    /\ loaded = NoEntries /\ fresh = {} /\ stale = NoEntries /\ exit = 0
    /\ seen = NoEntries
    /\ origin = NoOrigin
    /\ edits = 0

CheckNext ==
    \/ \E c \in Commands : Invoke(c)
    \/ Scan \/ ApplyBaseline \/ OpenBaseline \/ FillBaseline \/ Decide \/ Return
    \/ Kill

DeveloperNext ==
    \/ \E p \in Paths : EditTree(p)
    \/ \E r \in Toggles : ToggleRule(r)
    \/ \E k \in DOMAIN file.entries : LoseEntry(k)

Next == CheckNext \/ DeveloperNext

Spec == Init /\ [][Next]_vars

-----------------------------------------------------------------------------
(***************************************************************************)
(* Properties.                                                             *)
(***************************************************************************)

\* Every variable holds a value of its kind; in particular the exit code of
\* findings alone is 0 or 1, and a baseline file is absent, torn or a bag of
\* finding keys.
TypeOK ==
    /\ tree \in [Paths -> File]
    /\ disabled \in SUBSET Rules
    /\ file.state \in {"absent", "torn", "written"}
    /\ file = [state |-> file.state, entries |-> file.entries]
    /\ BagOver(Keys, file.entries)
    /\ file.state # "written" => file.entries = NoEntries
    /\ pc \in {"idle", "invoked", "scanned", "recording", "opened",
               "deciding", "done"}
    /\ cmd \in Commands \cup {NoCommand}
    /\ cfg \in SUBSET Rules
    /\ findings \in SUBSET Finding /\ IsFiniteSet(findings)
    /\ BagOver(Keys, loaded)
    /\ fresh \in SUBSET Finding
    /\ BagOver(Keys, stale)
    /\ exit \in {0, 1}
    /\ BagOver(Keys, seen)
    /\ origin = [root |-> origin.root, cfg |-> origin.cfg, matches |-> origin.matches]
    /\ origin.cfg \in SUBSET Rules
    /\ BagOver(Keys, origin.matches)
    /\ edits \in 0..MaxEdits

\* What makes the properties below inductive.  A rule with one finding per
\* match has as many findings as matches, and as many entries as it had
\* matches when they were recorded; a run judges with the entries that are on
\* disk until it opens the file itself; its verdict is a function of one scan
\* and one reading.
Faithful(B, off, matches) ==
    \A k \in Keys : k[1] \notin Representative =>
        Copies(k, B) = IF k[1] \in off THEN 0 ELSE Copies(k, matches)

EntriesFaithful == Faithful(file.entries, origin.cfg, origin.matches)

ScanFaithful == pc \notin {"idle", "invoked"} => Faithful(Tally(findings), cfg, seen)

OnlyWritersRecord == pc \in {"recording", "opened"} => cmd.write

BasisOnDisk ==
    pc = "recording" \/ (pc \in {"deciding", "done"} /\ ~cmd.write) =>
        loaded = IF cmd.baseline THEN file.entries ELSE NoEntries

Matched ==
    pc \in {"recording", "opened", "deciding", "done"} =>
        /\ fresh = NewFindings(findings, loaded)
        /\ stale = StaleEntries(findings, loaded)

Decided == pc = "done" => exit = ExitFor(ExitFindings, cmd.failOn)

Quiet == pc \in {"idle", "invoked"} => findings = {} /\ loaded = NoEntries /\ exit = 0

Consistent == /\ Quiet /\ EntriesFaithful /\ ScanFaithful /\ OnlyWritersRecord
              /\ BasisOnDisk /\ Matched /\ Decided

\* The verdict is a comparison of multisets: without --write-baseline a run
\* fails exactly when, for some key at or above the --fail-on severity, it
\* found more occurrences than the baseline it read has entries
\* (baseline.apply, _exit_findings, _exit_for).
VerdictIsExcess ==
    pc = "done" /\ ~cmd.write =>
        (exit = 1 <=> \E k \in {Key(f) : f \in findings} :
                           /\ Blocking(k[1], cmd.failOn)
                           /\ CountOf(findings, k) > Copies(k, loaded))

\* What the team accepted for key k, as a count of matches.
Accepted(k) ==
    IF cmd.baseline /\ k[1] \notin origin.cfg THEN Copies(k, origin.matches) ELSE 0

\* A passing run hides nothing: of every gating rule that reports each of its
\* matches, the scanned tree holds no more unsuppressed matches of a key than
\* it held when the baseline was recorded - through torn files, killed
\* writes, hand-pruned entries and config changes.
NothingSlipsThrough ==
    pc = "done" /\ ~cmd.write /\ exit = 0 =>
        \A k \in DOMAIN seen :
            (Blocking(k[1], cmd.failOn) /\ k[1] \notin cfg \cup Representative)
                => seen[k] <= Accepted(k)

\* A finding reported new is new: its rule was off when the baseline was
\* recorded, or the tree has more matches of its key than it had then - or
\* the rule is one whose report stands for several matches, where fixing the
\* reported one surfaces the next.
NewIsNewCode ==
    pc \in {"deciding", "done"} /\ cmd.baseline /\ ~cmd.write =>
            \A f \in fresh : \/ f.rule \in Representative \cup origin.cfg
                             \/ Copies(Key(f), seen) > Copies(Key(f), origin.matches)

\* An entry reported "no longer present" is gone: matches of its key have
\* been removed since the baseline was recorded - or its rule is switched
\* off now, or its report stands for several matches.
GoneIsGone ==
    pc \in {"deciding", "done"} /\ ~cmd.write =>
        \A k \in DOMAIN stale : \/ k[1] \in Representative \cup cfg
                               \/ Copies(k, seen) < Copies(k, origin.matches)

\* The gate is a ratchet over a multiset of debt: whatever the interleaving of
\* runs, kills, edits and damage, accepted debt is replaced only by a completed
\* write of exactly what that run found, shrinks otherwise, and a verdict
\* compares one scan with one reading of the accepted debt.
Phase ==
    CASE pc \in {"idle", "invoked"}         -> "rest"
      [] pc = "scanned"                     -> "looked"
      [] pc \in {"recording", "opened"}     -> "read"
      [] pc = "deciding" /\ cmd.write       -> "accepted"
      [] pc = "deciding" /\ ~cmd.write      -> "read"
      [] OTHER                              -> "judged"

Gated == [failOn \in FailOns \cup {"never"} |-> {k \in Keys : Blocking(k[1], failOn)}]

Debt == INSTANCE Ratchet WITH
            Gates    <- Gated,
            NoBar    <- "never",
            accepted <- Load(file),
            phase    <- Phase,
            bar      <- cmd.failOn,
            debt     <- Tally(findings),
            basis    <- loaded,
            verdict  <- exit

ImplementsRatchet == Debt!Spec

\* "it just stops blocking every unrelated PR on debt that predates the
\* tool" (README.md:278), and when one instance is fixed "zero are `new`"
\* (baseline.py:25): a tree whose matches are among those it had when the
\* baseline was recorded, under the same config, passes.
FixingNeverBlocks ==
    pc = "done" /\ cmd.baseline /\ origin.root = cmd.root /\ origin.cfg = cfg
        /\ (\A k \in DOMAIN seen : seen[k] <= Copies(k, origin.matches)) => exit = 0
=============================================================================
