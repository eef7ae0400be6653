------------------------------ MODULE Grading -------------------------------
(***************************************************************************)
(* What a finding is worth: the exit code of findings alone                *)
(* (cli._exit_for) and the score and letter of a scan (grade.py).          *)
(***************************************************************************)
EXTENDS Integers, FiniteSets

CONSTANTS
    Rules,          \* rule ids
    Severity        \* Severity[r]: what a finding of rule r is worth

Severities   == {"breaking", "deprecated", "advisory"}
SeverityRank == [breaking |-> 0, deprecated |-> 1, advisory |-> 2]
Thresholds   == Severities \cup {"never"}

ASSUME GradingAssumption ==
    /\ IsFiniteSet(Rules)
    /\ Severity \in [Rules -> Severities]

Rank(r) == SeverityRank[Severity[r]]

Blocking(r, failOn) ==
    failOn # "never" /\ Rank(r) <= SeverityRank[failOn]

\* Mutant: the number of blocking findings as the exit code.
ExitCount(F, failOn) == Cardinality({f \in F : Blocking(f.rule, failOn)})

ExitFor(F, failOn) == IF \E f \in F : Blocking(f.rule, failOn) THEN 1 ELSE 0

-----------------------------------------------------------------------------
Weight == [breaking |-> 25, deprecated |-> 8, advisory |-> 3]

\* The rules of one severity that fired.  The cap is one firing
\* (CAP_MULTIPLE = 1), so a rule costs its weight once however often it fires.
Fired(F, severity) == {r \in {f.rule : f \in F} : Severity[r] = severity}

Penalty(F) == LET Cost(s) == Weight[s] * Cardinality(Fired(F, s))
              IN  Cost("breaking") + Cost("deprecated") + Cost("advisory")

Score(F) == IF Penalty(F) >= 100 THEN 0 ELSE 100 - Penalty(F)

\* Mutant: the boundary of an A is that of a B.
GenerousLetter(value) ==
    CASE value >= 80 -> "A"
      [] value >= 60 /\ value < 80 -> "C"
      [] value >= 40 /\ value < 60 -> "D"
      [] OTHER       -> "F"

Letter(value) ==
    CASE value >= 95 -> "A"
      [] value >= 80 /\ value < 95 -> "B"
      [] value >= 60 /\ value < 80 -> "C"
      [] value >= 40 /\ value < 60 -> "D"
      [] OTHER       -> "F"

Letters == {"A", "B", "C", "D", "F"}
=============================================================================
