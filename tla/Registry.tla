------------------------------ MODULE Registry ------------------------------
(***************************************************************************)
(* registry/servers/*.yaml and scripts/validate_registry.py.  A registry   *)
(* maps file stems to what the files hold.                                 *)
(***************************************************************************)
EXTENDS Naturals, Sequences, FiniteSets, FiniteSetsExt

CONSTANTS
    Stems,             \* file stems, numbered in the order of the glob
    Spelling,          \* of each stem: two dots in a row; "unknown" itself; or any other
    Repos,             \* values of `repo`
    Shape,             \* how each is spelt; "untyped": a value that is no string
    Holds,             \* the languages GitHub reports for each; none: 404, or empty
    Contents           \* what an edit may put into a file

Letters == {"A", "B", "C", "D", "F"}
Languages == {"python", "typescript", "other"}

\* `named`: the name is the stem.  `grade` "E" stands for any other string,
\* `score` 101 for what is not an int of 0..100, `rest` for the checks of the
\* other fields.  `off` counts disabled rules, `version` is checked_with.
Entry == [kind : {"entry"}, named : BOOLEAN, repo : Repos, language : Languages,
          grade : Letters \cup {"E"}, score : 0..101, rest : BOOLEAN,
          sha : {"full", "short", "none"}, path : {"", "sub"}, off : 0..1,
          owner : BOOLEAN, version : 1..2]

\* No file; a file that is not YAML; one whose top level is no mapping.
NoFile == [kind |-> "none"]
Other  == {NoFile, [kind |-> "broken"], [kind |-> "list"]}

ASSUME RegistryAssumption ==
    /\ IsFiniteSet(Stems) /\ Stems \subseteq Nat
    /\ Spelling \in [Stems -> {"plain", "dots", "unknown"}]
    /\ Shape \in [Repos -> {"plain", "dotted", "odd", "untyped"}]
    /\ Holds \in [Repos -> SUBSET Languages]
    /\ Contents \subseteq Entry \cup Other

Present(reg) == {f \in Stems : reg[f].kind # "none"}

\* What the renderers list: mappings only.
Entries(reg) == {f \in Stems : reg[f].kind = "entry"}

\* validate: no error.  A dot is fine in a repo, a missing sha is fine too, and of
\* a repo that is no string nothing is asked.
Validates(c) ==
    /\ c.kind = "entry" /\ c.named /\ c.rest
    /\ c.grade \in Letters /\ c.score <= 100 /\ Shape[c.repo] # "odd"

\* Mutant: GitHub not being there is taken for an empty answer.
BlipConvicts(c, online) ==
    Shape[c.repo] = "untyped" \/ c.language = "other" \/ (online /\ c.language \in Holds[c.repo])

\* Mutant: an empty answer is taken for none.
EmptyPasses(c, online) ==
    \/ Shape[c.repo] = "untyped" \/ c.language = "other" \/ ~online
    \/ Holds[c.repo] = {} \/ c.language \in Holds[c.repo]

\* validate_language: no error.  GitHub is asked only about strings.
LanguagePasses(c, online) ==
    \/ Shape[c.repo] = "untyped"
    \/ c.language = "other"
    \/ ~online
    \/ c.language \in Holds[c.repo]

\* One turn of main's loop.  The language is not asked for after a schema error.
FilePasses(c, online) == Validates(c) /\ LanguagePasses(c, online)

\* An entry in order but for its repository.
InOrder(c) ==
    c.kind = "entry" /\ c.named /\ c.rest /\ c.grade \in Letters /\ c.score \in 0..100

\* One whose repository is no string, of which both halves of the validator
\* leave it to the other to say so.
Untyped(c) == InOrder(c) /\ Shape[c.repo] = "untyped"

\* An entry that belongs on the board.
Honest(c) ==
    /\ InOrder(c)
    /\ Shape[c.repo] \in {"plain", "dotted"}
    /\ c.language # "other" => c.language \in Holds[c.repo]
=============================================================================
