------------------------------- MODULE Fixers -------------------------------
(***************************************************************************)
(* What the fixers do to the text of one file.  A text is a sequence of    *)
(* lines; of a line the model keeps its place in the block structure, the  *)
(* rules that report it, the fixers whose pattern matches it, and the      *)
(* fixer whose TODO it is.                                                 *)
(*                                                                         *)
(* The fixers come in three families: those that put a TODO above a line,  *)
(* those that also comment the line out where they judge it safe, and      *)
(* those that rewrite the line so that neither rule nor fixer matches it.  *)
(***************************************************************************)
EXTENDS Grading, Sequences

CONSTANTS
    Order,          \* the rules that have a fixer, in the order fixers run
    Annotating,     \* fixers that only add a TODO: R002, R008, R016, R018, R020
    Rewriting,      \* fixers that edit in place: R003, R004, R005, R006, R017, R021
    HeaderToo,      \* retiring fixers that annotate block headers: R007
    MindsBrackets,  \* retiring fixers that ask cross_line_bracket_lines
    MindsBodies,    \* retiring fixers that ask sole_function_body_lines
    MindsStrings,   \* fixers that ask string_lines
    StripsImports,  \* retiring fixers that call strip_import_members
    Echoing         \* retiring fixers whose TODO says what they match: R009, R012, R013, R019

HasFixer == {Order[i] : i \in DOMAIN Order}
Retiring == HasFixer \ (Annotating \cup Rewriting)

NoNote == "none"

ASSUME FixersAssumption ==
    /\ Order \in Seq(Rules)
    /\ \A i, j \in DOMAIN Order : Order[i] = Order[j] => i = j
    /\ Annotating \cup Rewriting \cup MindsStrings \subseteq HasFixer
    /\ Annotating \cap Rewriting = {}
    /\ HeaderToo \cup MindsBrackets \cup MindsBodies \subseteq Retiring
    /\ StripsImports \cup Echoing \subseteq Retiring
    /\ NoNote \notin Rules

\* A statement; a function header; another block header; a statement whose
\* bracket stays open, at its end or before it; the end of one; a one-line
\* parenthesised import of one name per fixer that matches it; a line inside a
\* triple-quoted string, or inside a template literal; a quote that nothing
\* closes; a comment.
Strings == {"string", "template"}
Forms == {"plain", "def", "block", "open", "reach", "close", "import", "stray", "comment"} \cup Strings

\* `clears` are the project-wide rules the line is evidence against.  No fixer
\* matches the line of a stray quote.
Line == {l \in [form : Forms, depth : Nat, flags : SUBSET Rules, edits : SUBSET HasFixer,
                ignore : SUBSET Rules, clears : SUBSET Rules, note : HasFixer \cup {NoNote}] :
            /\ l.form = "comment" => l.flags = {}
            /\ l.form \in {"comment", "stray"} => l.edits = {}}

Text == Seq(Line)

-----------------------------------------------------------------------------
(***************************************************************************)
(* The shape of a file.                                                    *)
(***************************************************************************)

Live(l)   == l.form # "comment"
Header(l) == l.form \in {"def", "block"}
Opens(l)  == l.form \in {"open", "reach"}
Closes(l) == l.form = "close"

\* OpenAfter(text)[i]: the brackets open after i lines.
OpenAfter(text) ==
    LET open[i \in 0..Len(text)] ==
            IF i = 0 THEN 0
            ELSE open[i - 1] + (IF Opens(text[i]) THEN 1 ELSE 0)
                             - (IF Closes(text[i]) THEN 1 ELSE 0)
    IN open

Balanced(text) == /\ \A i \in DOMAIN text : OpenAfter(text)[i] >= 0
                  /\ OpenAfter(text)[Len(text)] = 0

Strays(text) == \E i \in DOMAIN text : text[i].form = "stray"

\* ast.parse accepts it: brackets balance, a header starts a statement and has
\* a block below it, and nothing else does.
Parses(text) ==
    LET code   == SelectSeq(text, Live)
        starts == {i \in DOMAIN code : OpenAfter(code)[i - 1] = 0}
        follows(i, j) == i < j /\ \A k \in (i + 1)..(j - 1) : k \notin starts
    IN  /\ Balanced(code) /\ ~Strays(text)
        /\ code # <<>> => code[1].depth = 0
        /\ \A i \in DOMAIN code : Header(code[i]) => i \in starts /\ i + 1 \in starts
        /\ \A i, j \in starts : follows(i, j) =>
              IF Header(code[i]) THEN code[j].depth = code[i].depth + 1
                                 ELSE code[j].depth <= code[i].depth

\* cross_line_bracket_lines: either end of a bracket pair that crosses lines,
\* or every line if they do not pair up or a quote is stray.
BracketLines(text) ==
    IF Balanced(text) /\ ~Strays(text) THEN {i \in DOMAIN text : Opens(text[i]) \/ Closes(text[i])}
                                       ELSE DOMAIN text

\* string_lines: every line of a text the scanner of the language cannot read.
\* That of Python is its tokenizer, which brackets that do not pair up stop.
StringLines(text, python) ==
    IF Strays(text) \/ (python /\ ~Balanced(text)) THEN DOMAIN text
    ELSE {i \in DOMAIN text : text[i].form \in Strings}

\* The live lines below header i, down to the next one no deeper than it.
Body(text, i) ==
    {j \in (i + 1)..Len(text) :
        /\ Live(text[j])
        /\ \A k \in (i + 1)..j : Live(text[k]) => text[k].depth > text[i].depth}

\* sole_function_body_lines: the only live line of a function, if it is code;
\* none of a text that cannot be read.
SoleLines(text) ==
    UNION {Body(text, i) : i \in {i \in DOMAIN text :
               text[i].form = "def" /\ Cardinality(Body(text, i)) = 1}} \ StringLines(text, TRUE)

-----------------------------------------------------------------------------
(***************************************************************************)
(* The fixers.                                                             *)
(***************************************************************************)

Bare(form, depth) == [form |-> form, depth |-> depth, flags |-> {}, edits |-> {},
                      ignore |-> {}, clears |-> {}, note |-> NoNote]

\* Mutant: a TODO that is no comment in the file's language, and names what r
\* matches.
NoteLive(r, l) == [Bare("plain", l.depth) EXCEPT !.note = r, !.flags = {r}]

\* What line l is once a comment marker precedes it: none inside a string.
Marked(l) == IF l.form \in Strings THEN l.form ELSE "comment"

\* The TODO of r above line l.  In a template it is text, which r's own rule
\* reports if it says what the rule matches: search_wire skips comments and
\* Python's triple-quoted strings only.
Note(r, l) == [Bare(Marked(l), l.depth)
                 EXCEPT !.note = r, !.flags = IF l.form = "template" /\ r \in Echoing THEN {r} ELSE {}]

Without(r, l) == [l EXCEPT !.flags = @ \ {r}, !.edits = @ \ {r}]

\* What is left of line l once r's name has left the import it is, or has
\* taken it along.
StrippedLine(r, l) ==
    IF l.form # "import" \/ r \notin l.edits THEN <<l>>
    ELSE <<Note(r, l)>> \o (IF l.edits = {r} THEN <<>> ELSE <<Without(r, l)>>)

\* strip_import_members, line by line.
Stripped(r, text) ==
    LET out[i \in 0..Len(text)] ==
            IF i = 0 THEN <<>> ELSE out[i - 1] \o StrippedLine(r, text[i])
    IN out[Len(text)]

\* Mutant: the commented line still matches, as it would without is_commented.
CommentedLoosely(l) == [l EXCEPT !.form = Marked(l), !.flags = {}, !.clears = {}]

\* The line as a comment, which says nothing to rules and fixers; in a string
\* it still says to rules what it said.
Commented(l) == [l EXCEPT !.form = Marked(l), !.edits = {},
                          !.flags = IF l.form \in Strings THEN @ ELSE {},
                          !.clears = IF l.form \in Strings THEN @ ELSE {}]

\* A line commented out, with a `pass` where it was all of a function.
Retired(l, alone) == <<Commented(l)>> \o (IF alone THEN <<Bare("plain", l.depth)>> ELSE <<>>)

\* Where the fixer r looks into a text `now` that was `before` until it
\* stripped imports: brackets and strings are located before, the line numbers
\* they are compared with are those of now.
Commentable(r, l, i, before) ==
    /\ ~Header(l) /\ l.form # "open"
    /\ r \in MindsBrackets => i \notin BracketLines(before)

Hits(r, python, now, i, before) ==
    /\ r \in now[i].edits /\ Live(now[i])
    /\ r \in MindsStrings => i \notin StringLines(before, python)
    /\ r \in Retiring \ HeaderToo => ~Header(now[i])

\* The TODO of r, unless the line above already is it.
Todo(r, l, above) ==
    IF above # <<>> /\ above[Len(above)].note = r THEN <<>> ELSE <<Note(r, l)>>

\* Line i of `now` as the family of r leaves it below the lines `above`.
FixedLine(r, python, now, i, before, sole, above) ==
    LET l == now[i] IN
    CASE ~Hits(r, python, now, i, before) -> <<l>>
      [] Hits(r, python, now, i, before) /\ r \in Rewriting  -> <<Without(r, l)>>
      [] Hits(r, python, now, i, before) /\ r \in Annotating -> Todo(r, l, above) \o <<l>>
      [] Hits(r, python, now, i, before) /\ r \in Retiring   ->
           Todo(r, l, above) \o
           IF Commentable(r, l, i, before) THEN Retired(l, i \in sole) ELSE <<l>>

\* The fixer of r on a file, Python or not, line by line.
Fixed(r, python, before) ==
    LET now  == IF r \in StripsImports /\ python THEN Stripped(r, before) ELSE before
        sole == IF r \in MindsBodies /\ python THEN SoleLines(now) ELSE {}
        out[i \in 0..Len(now)] ==
            IF i = 0 THEN <<>>
            ELSE out[i - 1] \o FixedLine(r, python, now, i, before, sole, out[i - 1])
    IN out[Len(now)]

\* The fixers of rs one after another.
Chained(rs, python, text) ==
    LET c[i \in 0..Len(Order)] ==
            IF i = 0 THEN text
            ELSE IF Order[i] \in rs THEN Fixed(Order[i], python, c[i - 1])
            ELSE c[i - 1]
    IN c[Len(Order)]
=============================================================================
