------------------------------ MODULE Regrade ------------------------------
(***************************************************************************)
(* scripts/regrade_board.py: clone every pinned commit once, scan every    *)
(* entry of it, and tell which no longer get the grade they record.        *)
(***************************************************************************)
EXTENDS Registry

CONSTANT Scan          \* what the scanner says, per release, repo and path:
                       \* a grade and a score, "refused", or "missing" (no such path)

ASSUME RegradeAssumption ==
    Scan \in [1..2 -> [Repos -> [{"", "sub"} ->
                [kind : {"graded"}, grade : Letters, score : 0..100] \cup [kind : {"refused", "missing"}]]]]

VARIABLES
    release,           \* the scanner in the checkout
    regrade            \* the run: pc, its registry, what is left, what it found

NoRun == [pc |-> "off", reg |-> [f \in Stems |-> NoFile], asked |-> {}, left |-> {}, drifts |-> {},
          problems |-> {}]

\* load_entries: a mapping with every field of its type, or ValueError.  It
\* loads every file, whichever entries are asked for.
Loads(c) == c.kind = "entry" /\ c.score <= 100 /\ c.sha # "none" /\ Shape[c.repo] # "untyped"

Key(e) == <<e.repo, e.sha>>

\* group_entries: the entries of one clone.
Clone(reg, asked, f) == {g \in asked : Key(reg[g]) = Key(reg[f])}

\* main, up to find_drifts.
StartRegrade(reg, asked) ==
    /\ regrade.pc \in {"off", "done", "failed"}
    /\ asked # {} /\ asked \subseteq Entries(reg)
    /\ regrade' = [NoRun EXCEPT !.pc = IF \A f \in Present(reg) : Loads(reg[f]) THEN "clone" ELSE "failed",
                                !.reg = reg, !.asked = asked, !.left = asked]
    /\ UNCHANGED release

Verdict(e) == Scan[release][e.repo][e.path]

\* Mutant: a clone that fails ends the loop.
FailedClone(group) == [regrade EXCEPT !.problems = @ \cup group, !.left = {}]

FailClone(group) == [regrade EXCEPT !.problems = @ \cup group, !.left = @ \ group]

\* scan_entry for each entry of the clone, as find_drifts compares them.
ScanGroup(group) ==
    [regrade EXCEPT
        !.left = @ \ group,
        !.problems = @ \cup {f \in group : Verdict(regrade.reg[f]).kind # "graded"},
        !.drifts = @ \cup {f \in group : LET e == regrade.reg[f]  v == Verdict(e) IN
                             v.kind = "graded" /\ <<v.grade, v.score>> # <<e.grade, e.score>>}]

\* One group, in the order of repo and sha.  An abbreviated sha cannot be
\* fetched, nor anything without the network.
RegradeGroup(online) ==
    /\ regrade.pc = "clone" /\ regrade.left # {}
    /\ \E f \in regrade.left :
          LET group == Clone(regrade.reg, regrade.asked, f) IN
             regrade' = IF online /\ regrade.reg[f].sha = "full" THEN ScanGroup(group)
                                                                 ELSE FailClone(group)
    /\ UNCHANGED release

EndRegrade ==
    /\ regrade.pc = "clone" /\ regrade.left = {}
    /\ regrade' = [regrade EXCEPT !.pc = IF regrade.drifts = {} /\ regrade.problems = {}
                                            THEN "done" ELSE "failed"]
    /\ UNCHANGED release

\* What the printed patches make of an entry.
Patched(e) == LET v == Verdict(e) IN [e EXCEPT !.grade = v.grade, !.score = v.score, !.version = release]
=============================================================================
