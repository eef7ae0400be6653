------------------------------- MODULE Report -------------------------------
(***************************************************************************)
(* What `check` tells of the ignore comments it met, and of the one rule   *)
(* about the absence of something, R010: its finding has no line, cannot   *)
(* be suppressed, and still needs a place in the SARIF document.           *)
(*                                                                         *)
(* Somebody edits a tree, checks it with all rules or with some, and       *)
(* deletes the ignore comments the check called unused.                    *)
(*                                                                         *)
(* R001 stands for the rules that report lines.  The merge of findings,    *)
(* which does not concern these two rules, is Findings' subject.           *)
(***************************************************************************)
EXTENDS Manifest, FiniteSets

CONSTANTS
    Files,          \* 1..n, in the order they are read
    Language,       \* Language[f]
    Length,         \* Length[f]: bound: lines of f
    Texts,          \* what lines may say
    Directives,     \* ignore comments in use
    InitialManifests,
    Commands,       \* what may be asked of check: a choice of rules and a form
    MaxEdits        \* bound: changes to the tree

Rules == {"R001", "R010"}

\* What the rules see in a line, in the code or only in a comment.
\* "keyword": on_list_tools= in a call of Server( that began in an earlier
\* line; "decorator", "general": a decorator or call named tool, resource or prompt;
\* "evidence": FastMCP or MCPServer in Python, the SDK's import in TypeScript;
\* "discover string": the wire name; "unparsed": what is no Python but a
\* sequence of its tokens; "broken": what not even the tokenizer takes.
Text == [says : {"nothing", "session id", "handler", "call", "keyword", "decorator", "general",
                 "evidence", "discover", "discover string", "unparsed", "broken"},
         comment : BOOLEAN]

PythonOnly == {"call", "keyword", "decorator", "unparsed", "broken"}

\* An ignore comment as DIRECTIVE_RX and BARE_RX tell them apart: a list of
\* rules in brackets and nothing behind it but a separated reason ("list"), no
\* list ("bare"), a list with something else behind it ("unseparated").
\* `wrong`: the list names what is not a rule id, too.
Directive == [form : {"none", "list", "bare", "unseparated"},
              ids : SUBSET Rules, wrong : BOOLEAN, reason : BOOLEAN]
NoDirective == [form |-> "none", ids |-> {}, wrong |-> FALSE, reason |-> FALSE]

\* How the outcome is shown: as text, graded or not (an SDK, or a tree that is
\* refused a grade), or in one of the machine-readable formats.
Forms   == {"text", "ungraded", "json", "sarif"}
Command == [rules : (SUBSET Rules) \ {{}}, form : Forms]

\* A line is a file and a number.
Lines == UNION {{f} \X (1..Length[f]) : f \in Files}

ASSUME ReportAssumption ==
    /\ Files \in SUBSET Nat
    /\ Language \in [Files -> {"python", "typescript"}] /\ Length \in [Files -> Nat]
    /\ Texts \in SUBSET Text
    /\ Directives \in SUBSET Directive /\ Commands \in SUBSET Command
    /\ \A m \in InitialManifests : m \in Manifests
    /\ MaxEdits \in Nat

VARIABLES
    text,           \* text[s]: what line s says
    ignore,         \* ignore[s]: its ignore comment
    manifest,
    report,         \* of the last check, if nothing has changed since but
                    \* ignore comments it called unused
    edits

vars == <<text, ignore, manifest, report, edits>>

-----------------------------------------------------------------------------
(***************************************************************************)
(* R010 and what it searches the files of one language for.  Python that   *)
(* does not tokenize is searched comments and all; calls are walked only   *)
(* where it parses.                                                        *)
(***************************************************************************)

View(language) == {s \in Lines : Language[s[1]] = language}

Broken(f) == Language[f] = "python" /\ \E i \in 1..Length[f] : text[<<f, i>>].says = "broken"

Parsed(f) == Language[f] = "python" => \A i \in 1..Length[f] : text[<<f, i>>].says \notin {"unparsed", "broken"}

Search(language, what) ==
    {s \in View(language) : text[s].says \in what /\ (text[s].comment => Broken(s[1]))}

\* Mutant: the regular expression over lines that the walk over calls replaced.
OneLineCalls == Search("python", {"call"})

\* Where a call of Server is passed a handler; a file that does not parse is
\* searched line by line.
ServerCallKeywords ==
    {s \in Search("python", {"call", "keyword"}) : text[s].says = "keyword" => Parsed(s[1])}

HasRequestHandlers(language) ==
    \/ Search(language, {"handler"}) # {}
    \/ language = "python" /\ ServerCallKeywords # {}
    \/ Search(language, {"evidence"}) # {} /\ Search(language, {"decorator", "general"}) # {}

HasDiscover(language) == Search(language, {"discover", "discover string"}) # {}

FirstOf(lines) ==
    CHOOSE s \in lines : \A t \in lines : s[1] < t[1] \/ (s[1] = t[1] /\ s[2] <= t[2])

\* Nothing but general names is left when the others are not found.
FirstHandlerRegistration(language) ==
    LET tries == <<Search(language, {"handler"}),
                   IF language = "python" THEN ServerCallKeywords ELSE {},
                   Search(language, {"decorator"}),
                   Search(language, {"decorator", "general"})>>
        hit   == CHOOSE i \in 1..4 : tries[i] # {} /\ \A j \in 1..(i - 1) : tries[j] = {}
    IN  FirstOf(tries[hit])

\* The findings of R010 are those languages that miss server/discover; each is
\* about the tree, with a line that shows why.
ServerDiscoverMissing ==
    {[rule |-> "R010", path |-> "(project)", language |-> l, line |-> FirstHandlerRegistration(l)] :
        l \in {k \in {"python", "typescript"} :
                  /\ HasRequestHandlers(k) /\ ~HasDiscover(k)
                  /\ k = "python" => FloorBelow(manifest, 2)}}

SessionIdRemoved ==
    {[rule |-> "R001", path |-> "file", language |-> Language[s[1]], line |-> s] :
        s \in Search("python", {"session id"}) \cup Search("typescript", {"session id"})}

-----------------------------------------------------------------------------
(***************************************************************************)
(* Ignore comments.                                                        *)
(***************************************************************************)

\* parse_file: the rules a directive turns off, and whether it is a problem.
Obeyed(d) == IF d.form = "list" THEN d.ids ELSE {}

\* Mutant: a list of nothing but wrong names is passed over.
ProblemIfObeyed(d) == d.form = "bare" \/ (d.form = "list" /\ d.ids # {} /\ (d.wrong \/ ~d.reason))

Problem(d) == d.form = "bare" \/ (d.form = "list" /\ (d.ids = {} \/ d.wrong \/ ~d.reason))

\* apply: a finding without a line is kept, whatever the line of its evidence.
Matches(f) == f.path # "(project)" /\ f.rule \in Obeyed(ignore[f.line])

\* Mutant: every rule a directive names has to match for it to be of use.
WhollyUsed(s, suppressed) == \A r \in Obeyed(ignore[s]) : \E f \in suppressed : f.line = s /\ f.rule = r

Used(s, suppressed) == \E f \in suppressed : f.line = s /\ f.rule \in Obeyed(ignore[s])

Unused(suppressed) == {s \in Lines : Obeyed(ignore[s]) # {} /\ ~Used(s, suppressed)}

\* One result of the SARIF document: a finding without a path is shown where
\* its evidence is.
Result(f) == [rule |-> f.rule, line |-> f.line]

\* A check with some of the rules.
Findings(rules) == {f \in SessionIdRemoved \cup ServerDiscoverMissing : f.rule \in rules}

\* Only the text of a graded tree tells of the problems, that and JSON of the
\* unused comments; places are what a SARIF document has.
TellsProblems(form) == form = "text"
TellsUnused(form)   == form \in {"text", "json"}

ReportOf(rules, form) ==
    LET found      == Findings(rules)
        suppressed == {f \in found : Matches(f)}
    IN  [rules |-> rules, form |-> form, kept |-> found \ suppressed, suppressed |-> suppressed,
         problems |-> {s \in Lines : TellsProblems(form) /\ Problem(ignore[s])},
         unused   |-> {s \in Unused(suppressed) : TellsUnused(form)},
         results  |-> {Result(f) : f \in {g \in found \ suppressed : form = "sarif"}}]

NoReport == [rules |-> {}]

-----------------------------------------------------------------------------

Init ==
    /\ text = [s \in Lines |-> [says |-> "nothing", comment |-> FALSE]]
    /\ ignore = [s \in Lines |-> NoDirective]
    /\ manifest \in InitialManifests
    /\ report = NoReport
    /\ edits = 0

Edited == edits < MaxEdits /\ edits' = edits + 1 /\ report' = NoReport

Write(s) ==
    /\ Edited
    /\ \E t \in Texts : /\ Language[s[1]] = "python" \/ t.says \notin PythonOnly
                       /\ text' = [text EXCEPT ![s] = t]
    /\ UNCHANGED <<ignore, manifest>>

Annotate(s) ==
    /\ Edited
    /\ \E d \in Directives : ignore' = [ignore EXCEPT ![s] = d]
    /\ UNCHANGED <<text, manifest>>

Check(c) ==
    /\ report' = ReportOf(c.rules, c.form)
    /\ UNCHANGED <<text, ignore, manifest, edits>>

\* Somebody deletes the ignore comments that were reported as unused.
Tidy ==
    /\ report # NoReport /\ report.unused # {}
    /\ ignore' = [s \in Lines |-> IF s \in report.unused THEN NoDirective ELSE ignore[s]]
    /\ report' = [report EXCEPT !.unused = {}]
    /\ UNCHANGED <<text, manifest, edits>>

Next ==
    \/ \E s \in Lines : Write(s) \/ Annotate(s)
    \/ \E c \in Commands : Check(c)
    \/ Tidy

Spec == Init /\ [][Next]_vars

-----------------------------------------------------------------------------

Reported == report # NoReport

\* Deleting the ignore comments a check called unused changes nothing for the
\* rules of that check: what they find, and what of it is suppressed, stays
\* (suppress.unused).  Of other rules nothing is known: a check with --rule
\* calls the comments for them unused as well.
TidyKeepsVerdict ==
    Reported => LET now == ReportOf(report.rules, report.form)
                IN  now.kept = report.kept /\ now.suppressed = report.suppressed

\* The ignore comment of line s suppresses a finding there, or is told of.
Answered(s) ==
    \/ s \in report.problems \cup report.unused
    \/ \E f \in report.suppressed : f.line = s

\* What is suppressed has a comment on its line that names its rule; what is
\* about the whole tree never is.
Warranted == \A f \in report.suppressed : f.path # "(project)" /\ f.rule \in ignore[f.line].ids

\* No ignore comment is without effect in silence in the text of a graded tree:
\* one that was written on a line either suppresses a finding there, or is
\* reported as unused or as a problem (parse_file, apply, unused).
DirectivesAnswered ==
    Reported /\ report.form = "text" => \A s \in Lines : ignore[s].form # "none" => Answered(s)

\* The same, without those that go on behind the list without a separator.
\* JSON answers those it obeys: of the others nothing but the text of a graded
\* tree tells, and of none the other outputs.  And in all of them what is
\* suppressed has a comment on its line that names it.
DirectivesAccounted ==
    Reported =>
        /\ report.form = "text" =>
              \A s \in Lines : ignore[s].form \notin {"none", "unseparated"} => Answered(s)
        /\ report.form = "json" =>
              \A s \in Lines : ignore[s].form = "list" /\ ignore[s].ids # {} => Answered(s)
        /\ Warranted

\* R010 is reported of a language only if a line of it, in the code unless a
\* file does not tokenize, registers a handler, and that is the line SARIF
\* shows; if no line implements server/discover; and, of Python, if an SDK without
\* it may be installed.  And it is reported where the code has a handler and no
\* server/discover, if of Python such an SDK is what the manifest asks for.
\* A tree that only mentions server/discover in comments gets it as well.
DiscoverHonest ==
    Reported /\ "R010" \in report.rules =>
        \A l \in {"python", "typescript"} :
            LET found == {f \in report.kept : f.rule = "R010" /\ f.language = l}
                code(s, what) == text[s].says \in what /\ ~text[s].comment
                has(what) == \E s \in View(l) : code(s, what)
                intact == \A s \in View(l) : ~Broken(s[1])
            IN  /\ \A f \in found :
                      /\ f.line \in View(l)
                      /\ text[f.line].says \in {"handler", "call", "keyword", "decorator", "general"}
                      /\ intact => ~text[f.line].comment
                      /\ report.form = "sarif" => [rule |-> "R010", line |-> f.line] \in report.results
                /\ found # {} =>
                      /\ ~has({"discover", "discover string"})
                      /\ l = "python" /\ ReadAsMeant(manifest) => AcceptsBelow(manifest, 2)
                /\ (/\ intact /\ ~has({"discover", "discover string"})
                    /\ \/ has({"handler", "call"})
                       \/ has({"evidence"}) /\ has({"decorator", "general"})
                       \/ \E s \in View(l) : code(s, {"keyword"}) /\ Parsed(s[1])
                    /\ l = "python" => (/\ ReadAsMeant(manifest) /\ NothingOptional(manifest)
                                        /\ Bounded(manifest) /\ AcceptsBelow(manifest, 2)))
                      => found # {}
=============================================================================
