------------------------------ MODULE Findings ------------------------------
(***************************************************************************)
(* What a scan of a working tree reports: rule matches, inline             *)
(* suppression, the merge of the overlapping rule pair, and the keys a     *)
(* baseline file is matched on.  No variables: BaselineGate is built from  *)
(* these operators.                                                        *)
(*                                                                         *)
(* A line of source is abstracted to a "text" (what the rules can tell     *)
(* about it) together with the rule ids its `mcp-migrate: ignore[...]`     *)
(* comment names.  The comment is part of the line, so it is part of the   *)
(* snippet a finding carries.  Whitespace is not represented: baseline     *)
(* matching collapses it.                                                  *)
(***************************************************************************)
EXTENDS Grading, Sequences, Bags

CONSTANTS
    OverlapPair,    \* the two rules known to describe one fact (R007, R018)
    FirstOnly,      \* rules that report only the first match in a file
    ProjectRules,   \* rules whose finding is about the tree, not a file
    Paths,          \* files, each a sequence of path segments
    Roots,          \* directories `check` is run on, as segment prefixes
    Texts,          \* what a line can say, as far as the rules can tell
    Directives,     \* rule-id sets an ignore comment in the tree may name
    Marks,          \* Marks[t]: the matches a line with text t produces
    Silences,       \* Silences[t]: rules a line with text t turns off in its file
    Canonical,      \* Canonical[feature]: the key the merge groups on
    Opens, Closes,  \* texts that raise, and that answer, a project rule
    MaxLines,       \* bound: lines in a file
    MaxOrder,       \* bound: matches of one rule on one line
    NoPath, NoSnippet, NoFeature

Features   == DOMAIN Canonical
Mark       == [rule : Rules, feature : Features \cup {NoFeature}, order : 1..MaxOrder]
Line       == [text : Texts, ignore : Directives]
File       == {f \in Seq(Line) : Len(f) <= MaxLines}

\* The directory prefix of p is `root`.
Under(root) == {p \in Paths : /\ Len(root) < Len(p)
                              /\ SubSeq(p, 1, Len(root)) = root}

\* Finding.path is relative to the directory `check` was given (scan.py).
Relative(root, p) == SubSeq(p, Len(root) + 1, Len(p))

RelPaths == {Relative(root, p) : root \in Roots, p \in Paths}

Finding == [rule    : Rules,
            path    : RelPaths \cup {NoPath},
            line    : 0..MaxLines,
            snippet : Line \cup {NoSnippet},
            feature : Features \cup {NoFeature},
            order   : 1..MaxOrder]

Keys == Rules \X (RelPaths \cup {NoPath}) \X (Line \cup {NoSnippet})

\* Rules whose reported findings are not one per match: the merged pair, and
\* the rules that stop at the first hit in a file.
Representative == OverlapPair \cup FirstOnly

ASSUME FindingsAssumption ==
    /\ IsFiniteSet(Paths)
    /\ \A p \in Paths \cup Roots : p \in Seq({p[i] : i \in DOMAIN p})
    /\ OverlapPair \in SUBSET Rules
    /\ FirstOnly \in SUBSET Rules
    /\ ProjectRules \in SUBSET Rules
    /\ Directives \in SUBSET (SUBSET Rules)
    /\ Marks \in [Texts -> SUBSET Mark]
    /\ \A t \in Texts : IsFiniteSet(Marks[t])
    /\ \A t \in Texts : \A m, n \in Marks[t] :
          m.rule = n.rule /\ m.order = n.order => m = n
    /\ \A r, s \in OverlapPair : Severity[r] = Severity[s] => r = s
    /\ Silences \in [Texts -> SUBSET Rules]
    /\ MaxLines \in Nat /\ MaxOrder \in Nat \ {0}
    /\ NoPath \notin RelPaths
    /\ NoSnippet \notin Line
    /\ NoFeature \notin Features

-----------------------------------------------------------------------------
(***************************************************************************)
(* Running the rules.                                                      *)
(***************************************************************************)

Match(root, p, i, l, m) ==
    [rule |-> m.rule, path |-> Relative(root, p), line |-> i, snippet |-> l,
     feature |-> m.feature, order |-> m.order]

\* Rules with nothing to say about file f: another line of it does what they
\* ask for (R005's `extensions`, R003's routing headers).
Silenced(f) == UNION {Silences[f[i].text] : i \in DOMAIN f}

\* Every match of an active rule on a line under `root`.
Matches(root, tree, active) ==
    UNION {UNION {{Match(root, p, i, tree[p][i], m) :
                      m \in {m \in Marks[tree[p][i].text] :
                                m.rule \in active \ Silenced(tree[p])}}
                  : i \in DOMAIN tree[p]}
           : p \in Under(root)}

\* g is reported no later than f, among findings of one rule in one file.
NotAfter(g, f) == \/ g.line < f.line
                  \/ g.line = f.line /\ g.order <= f.order

\* A rule that stops at its first hit in a file (R003, R005) reports that one.
Reported(M) ==
    {f \in M : f.rule \in FirstOnly =>
        \A g \in M : g.rule = f.rule /\ g.path = f.path => NotAfter(f, g)}

TextsUnder(root, tree) ==
    UNION {{tree[p][i].text : i \in DOMAIN tree[p]} : p \in Under(root)}

\* R008: tracing is used somewhere and the header is read nowhere.  The
\* finding carries no path, no line and no snippet.
ProjectFindings(root, tree, active) ==
    {[rule |-> r, path |-> NoPath, line |-> 0, snippet |-> NoSnippet,
      feature |-> NoFeature, order |-> 1] :
        r \in {r \in ProjectRules \cap active :
                 /\ TextsUnder(root, tree) \cap Opens # {}
                 /\ TextsUnder(root, tree) \cap Closes = {}}}

RawFindings(root, tree, active) ==
    Reported(Matches(root, tree, active)) \cup ProjectFindings(root, tree, active)

-----------------------------------------------------------------------------
(***************************************************************************)
(* Suppression: a directive on the finding's own line that names its rule. *)
(* A finding without a line is never suppressed.                           *)
(***************************************************************************)

Kept(F) == {f \in F : f.path = NoPath \/ f.rule \notin f.snippet.ignore}

-----------------------------------------------------------------------------
(***************************************************************************)
(* The merge of the overlapping pair.                                      *)
(***************************************************************************)

GroupKey(f) == IF f.feature # NoFeature THEN <<"feature", Canonical[f.feature]>>
                                        ELSE <<"line", f.line>>

Participants(F, f) ==
    {g \in F : g.path = f.path /\ GroupKey(g) = GroupKey(f) /\ g.rule \in OverlapPair}

\* Both rules of the pair are present in f's group, and f is of the pair.
Merges(F, f) ==
    /\ f.path # NoPath
    /\ f.rule \in OverlapPair
    /\ {g.rule : g \in Participants(F, f)} = OverlapPair

\* Most severe rule first, then the earliest line; the two rules of the pair
\* differ in severity, so the rule-id tie-break of the code never decides.
Beats(f, g) == \/ Rank(f.rule) < Rank(g.rule)
               \/ Rank(f.rule) = Rank(g.rule) /\ NotAfter(f, g)

\* One finding survives of each merged group: the winner, at its own place.
Dedupe(F) ==
    {f \in F : Merges(F, f) => \A g \in Participants(F, f) : Beats(f, g)}

-----------------------------------------------------------------------------
(***************************************************************************)
(* Baseline matching.  The entries of a baseline file are a bag of keys:   *)
(* its line numbers are for a human reader and never matched on.           *)
(***************************************************************************)

Key(f) == <<f.rule, f.path, f.snippet>>

OfKey(F, k) == {f \in F : Key(f) = k}

CountOf(F, k) == Cardinality(OfKey(F, k))

\* What `write` records of the findings F.
Tally(F) == [k \in {Key(f) : f \in F} |-> CountOf(F, k)]

\* B is a bag of members of S.
BagOver(S, B) == DOMAIN B \subseteq S /\ B \in [DOMAIN B -> Nat \ {0}]

\* How many copies of k the bag B holds.
Copies(k, B) == IF k \in DOMAIN B THEN B[k] ELSE 0

\* Mutant: a set instead of a multiset, one entry absorbs every finding of its key.
KnownAsSet(F, entries) == {f \in F : Key(f) \in DOMAIN entries}

\* A finding is known while entries of its key last, earliest line first.
KnownFindings(F, entries) ==
    {f \in F : Cardinality({g \in OfKey(F, Key(f)) : NotAfter(g, f)})
                   <= Copies(Key(f), entries)}

NewFindings(F, entries) == F \ KnownFindings(F, entries)

\* Mutant: an off-by-one, entries that were just used up are reported too.
StaleOffByOne(F, entries) ==
    [k \in {k \in DOMAIN entries : entries[k] >= CountOf(F, k)}
        |-> entries[k] - CountOf(F, k) + 1]

\* The entries no finding used up.
StaleEntries(F, entries) ==
    [k \in {k \in DOMAIN entries : entries[k] > CountOf(F, k)}
        |-> entries[k] - CountOf(F, k)]
=============================================================================
