------------------------------ MODULE Scanners ------------------------------
(***************************************************************************)
(* The scanners that tell code from comments and strings in TypeScript:    *)
(* _ts_spans, twice, behind search_code and search_wire (rules/base.py),   *)
(* and the three that tell the fixers which lines to leave alone           *)
(* (fixers/_textedit.py).  All five were written separately.               *)
(*                                                                         *)
(* They read one text side by side, a character at a time; the text is not *)
(* kept but chosen as it is read.  `seen` is the reference: what one that  *)
(* knows the grammar finds, a character at a time, at the true position.   *)
(* Where the code steps over two characters, `skip` is set for the second. *)
(* One kind of ordinary quote stands for both; one kind of bracket that    *)
(* opens, and another kind's closing one, for the three.                   *)
(***************************************************************************)
EXTENDS Naturals, Sequences, FiniteSets

CONSTANTS
    MaxRow, MaxCol,    \* bounds: lines of the text, characters of a line
    MaxDepth           \* bound: brackets open at a time

ASSUME ScannersAssumption == {MaxRow, MaxCol, MaxDepth} \subseteq Nat \ {0}

Chars == {"/", "*", "quote", "tick", "escape", "newline", "(", ")", "]", "x"}
Quotes == {"quote", "tick"}
Closers == {")", "]"}

VARIABLES
    ch, nxt,           \* the character to read and the one after it; "end" past the last
    seen,              \* the reference
    spans, prose,      \* _ts_spans with prose_only False and True
    comments,          \* _ts_comment_spans
    brackets,          \* _ts_cross_line_bracket_lines
    templates          \* _ts_string_lines

vars == <<ch, nxt, seen, spans, prose, comments, brackets, templates>>

Here(row, col) == <<row, col>>
None == <<>>
Span(from, to) == <<from, to>>

\* The state of a scanner of spans: its mode ("code", "line", "block" or the
\* quote it is in), where the span under way began, its idea of the position,
\* the span that ended last.
Fresh == [mode |-> "code", start |-> None, row |-> 1, col |-> 0, skip |-> FALSE, last |-> None]

\* One character forward.
Advance(s, c) == IF c = "newline" THEN [s EXCEPT !.row = @ + 1, !.col = 0] ELSE [s EXCEPT !.col = @ + 1]

\* Two characters forward, of which the second is not looked at.
Pair(s) == [s EXCEPT !.col = @ + 2, !.skip = TRUE]

Enter(s, mode, start) == [s EXCEPT !.mode = mode, !.start = start]

\* The span under way, if one is recorded, ends where s is.
Leave(s) == [s EXCEPT !.mode = "code", !.start = None,
                      !.last = IF s.start = None THEN @ ELSE Span(s.start, Here(s.row, s.col))]

-----------------------------------------------------------------------------
(***************************************************************************)
(* _ts_spans.                                                              *)
(***************************************************************************)

\* Mutant: a line comment is left with its last character, not the newline.
LineToo(s, c, n) ==
    IF s.mode = "line" THEN (IF n = "newline" THEN Leave(Advance(s, c)) ELSE Advance(s, c))
    ELSE IF c = "*" /\ n = "/" THEN Leave(Pair(s)) ELSE Advance(s, c)

\* In a comment.
InTsComment(s, c, n) ==
    CASE s.mode = "line"  -> Advance(IF c = "newline" THEN Leave(s) ELSE s, c)
      [] s.mode = "block" -> IF c = "*" /\ n = "/" THEN Leave(Pair(s)) ELSE Advance(s, c)

\* In a string: an escape takes the next character with it, whatever it is.
InTsString(s, c) ==
    IF c = "escape" THEN Pair(s)
    ELSE IF c = s.mode THEN Leave(Advance(s, c))
    ELSE IF c = "newline" /\ s.mode # "tick" THEN Advance(Leave(s), c)
    ELSE Advance(s, c)

TsSpans(s, c, n, proseOnly) ==
    LET here == Here(s.row, s.col)
        t    == [s EXCEPT !.last = None]
    IN  CASE s.skip                                       -> [s EXCEPT !.skip = FALSE]
          [] ~s.skip /\ s.mode = "code" /\ c = "/" /\ n = "/" -> Enter(Pair(t), "line", here)
          [] ~s.skip /\ s.mode = "code" /\ c = "/" /\ n = "*" -> Enter(Pair(t), "block", here)
          [] ~s.skip /\ s.mode = "code" /\ c \in Quotes   ->
                Enter(Advance(t, c), c, IF proseOnly THEN None ELSE here)
          [] ~s.skip /\ s.mode \in {"line", "block"}      -> InTsComment(t, c, n)
          [] ~s.skip /\ s.mode \in Quotes                 -> InTsString(t, c)
          [] OTHER                                        -> Advance(t, c)

-----------------------------------------------------------------------------
(***************************************************************************)
(* _ts_comment_spans and _ts_cross_line_bracket_lines skip comments and    *)
(* strings alike, and give up on what does not end where it should.        *)
(***************************************************************************)

Strict == [scan |-> Fresh, failed |-> FALSE, stack |-> <<>>, crossed |-> {}]

GiveUp == [Strict EXCEPT !.failed = TRUE]

\* A string that the line cuts, or an escape with nothing after it.
Cut(s, c, n) ==
    s.mode \in Quotes /\ ((c = "newline" /\ s.mode # "tick") \/ (c = "escape" /\ n = "end"))

InStrictString(s, c) ==
    IF c = "escape" THEN Pair(s)
    ELSE IF c = s.mode THEN [Advance(s, c) EXCEPT !.mode = "code"]
    ELSE Advance(s, c)

\* What both do with a character that is not code.
StrictSkip(s, c, n) ==
    LET here == Here(s.row, s.col) IN
    CASE s.mode = "line"   -> Advance(IF c = "newline" THEN Leave(s) ELSE s, c)
      [] s.mode = "block"  -> IF c = "*" /\ n = "/" THEN Leave(Pair(s)) ELSE Advance(s, c)
      [] s.mode \in Quotes -> InStrictString(s, c)
      [] s.mode = "code" /\ c = "/"  -> Enter(Pair(s), IF n = "/" THEN "line" ELSE "block", here)
      [] s.mode = "code" /\ c \in Quotes -> [Advance(s, c) EXCEPT !.mode = c]

Skips(s, c, n) == s.mode # "code" \/ c \in Quotes \/ (c = "/" /\ n \in {"/", "*"})

TsCommentSpans(s, c, n) ==
    LET t == [s.scan EXCEPT !.last = None] IN
    IF s.failed THEN s
    ELSE IF t.skip THEN [s EXCEPT !.scan = [s.scan EXCEPT !.skip = FALSE]]
    ELSE IF Cut(t, c, n) THEN GiveUp
    ELSE IF Skips(t, c, n) THEN [s EXCEPT !.scan = StrictSkip(t, c, n)]
    ELSE [s EXCEPT !.scan = Advance(t, c)]

\* Mutant: only the line of the bracket that closes is marked.
CloseHalf(s, c, row) ==
    IF s.stack = <<>> \/ c # ")" THEN GiveUp
    ELSE [s EXCEPT !.stack = Tail(@), !.crossed = IF Head(s.stack) < row THEN @ \cup {row} ELSE @]

CloseBracket(s, c, row) ==
    IF s.stack = <<>> \/ c # ")" THEN GiveUp
    ELSE [s EXCEPT !.stack = Tail(@), !.crossed = IF Head(s.stack) < row THEN @ \cup {Head(s.stack), row} ELSE @]

TsBracketLines(s, c, n) ==
    LET t  == [s.scan EXCEPT !.last = None]
        on == [s EXCEPT !.scan = Advance(t, c)]
    IN  IF s.failed THEN s
        ELSE IF t.skip THEN [s EXCEPT !.scan = [s.scan EXCEPT !.skip = FALSE]]
        ELSE IF Cut(t, c, n) THEN GiveUp
        ELSE IF Skips(t, c, n) THEN [s EXCEPT !.scan = StrictSkip(t, c, n)]
        ELSE IF c = "(" THEN [on EXCEPT !.stack = <<t.row>> \o @]
        ELSE IF c \in Closers THEN CloseBracket(on, c, t.row)
        ELSE on

\* Past the last character: what is still open cannot be relied on.
StrictFails(s) == s.failed \/ s.scan.mode \in {"block"} \cup Quotes

-----------------------------------------------------------------------------
(***************************************************************************)
(* _ts_string_lines looks for backticks alone.                             *)
(***************************************************************************)

NoTemplate == [in |-> FALSE, row |-> 1, skip |-> FALSE, lines |-> {}]

TsStringLines(s, c) ==
    LET t == [s EXCEPT !.row = IF c = "newline" THEN @ + 1 ELSE @] IN
    CASE s.skip -> [t EXCEPT !.skip = FALSE]
      [] ~s.skip /\ ~s.in /\ c = "tick" -> [s EXCEPT !.in = TRUE, !.lines = @ \cup {s.row}]
      [] ~s.skip /\ ~s.in /\ c # "tick" -> t
      [] ~s.skip /\ s.in -> [t EXCEPT !.lines = @ \cup {s.row}, !.skip = c = "escape", !.in = c # "tick"]

-----------------------------------------------------------------------------
(***************************************************************************)
(* The reference.  `mode` as after the last character; `was` and `began`:  *)
(* where the last character stood, and the comment or string under way.    *)
(* `bad`: a quote left open at the end of a line.  `continued`: an escaped *)
(* newline in a string.  `stray`: a backtick in a comment or a string.     *)
(*                                                                         *)
(* It knows the regular expression literals and the substitutions of the   *)
(* templates, which none of the five scanners does.  A template counts as  *)
(* one string with its substitutions.  Whether a slash begins a literal or *)
(* divides, whether one inside is the last, and where a substitution       *)
(* begins and ends, takes a grammar to tell: `sense` answers, either way.  *)
(* `misled`: the text held something in a literal or a substitution that   *)
(* looks like a quote or a comment out of place (base.py's "known gap");   *)
(* `bracketed`: a literal held a bracket.                                  *)
(***************************************************************************)

Reference == [mode |-> "code", row |-> 1, col |-> 0, was |-> None, began |-> None, last |-> None,
              kind |-> "code", bad |-> FALSE, continued |-> FALSE, stray |-> FALSE,
              misled |-> FALSE, bracketed |-> FALSE,
              stack |-> <<>>, wrong |-> FALSE, pairs |-> {}, templates |-> {}]

InComment  == {"line", "block", "star"}
InTemplate == {"tick", "tick escape", "subst", "subst escape"}
InString   == {"quote", "quote escape"} \cup InTemplate
InRegex    == {"regex", "regex escape", "regex slash", "regex end"}

Senses == {"delimits", "plain"}

\* After a character of a regular expression literal.
RegexAfter(c, sense) ==
    CASE c = "escape"  -> "regex escape"
      [] c = "newline" -> "code"
      [] c = "/"       -> IF sense = "delimits" THEN "regex end" ELSE "regex slash"
      [] OTHER         -> "regex"

\* After a character of code.
CodeAfter(c) == CASE c = "/" -> "slash" [] c \in Quotes -> c [] OTHER -> "code"

ModeAfter(mode, c, sense) ==
    CASE mode \in {"code", "regex end"} -> CodeAfter(c)
      [] mode = "slash" /\ c = "/"        -> "line"
      [] mode = "slash" /\ c = "*"        -> "block"
      [] mode = "slash" /\ c \notin {"/", "*"} -> IF sense = "delimits" THEN RegexAfter(c, sense) ELSE CodeAfter(c)
      [] mode \in {"regex", "regex slash"} -> RegexAfter(c, sense)
      [] mode = "regex escape" -> IF c = "/" THEN "regex slash" ELSE IF c = "newline" THEN "code" ELSE "regex"
      [] mode = "line"   -> IF c = "newline" THEN "code" ELSE "line"
      [] mode = "block"  -> IF c = "*" THEN "star" ELSE "block"
      [] mode = "star"   -> IF c = "/" THEN "code" ELSE IF c = "*" THEN "star" ELSE "block"
      [] mode = "quote"  -> IF c = "escape" THEN "quote escape" ELSE IF c \in {"quote", "newline"} THEN "code" ELSE "quote"
      [] mode = "quote escape" -> "quote"
      [] mode = "tick"   -> IF c = "escape" THEN "tick escape" ELSE IF c = "tick" THEN "code"
                            ELSE IF c = "x" /\ sense = "delimits" THEN "subst" ELSE "tick"
      [] mode = "tick escape"  -> "tick"
      [] mode = "subst"  -> IF c = "escape" THEN "subst escape" ELSE IF c = "]" /\ sense = "delimits" THEN "tick" ELSE "subst"
      [] mode = "subst escape" -> "subst"

\* What the character may be the beginning, the middle or the end of.
Readings(mode, c) == {ModeAfter(mode, c, sense) : sense \in Senses}

Inside(mode) == mode \in InComment \cup InString

\* The character c, that leaves the reference in `after`, is one that only a
\* scanner which knows of literals and substitutions can place.
Misleads(mode, c, after) ==
    \/ after \in InRegex /\ c \in Quotes
    \/ mode \in {"regex slash", "regex end"} /\ c \in {"/", "*"}
    \/ mode \in {"subst", "subst escape"} /\ c = "tick"

Look(r, c, after) ==
    LET here  == Here(r.row, r.col)
        opens == ~Inside(r.mode) /\ Inside(after)
        ends  == Inside(r.mode) /\ after = "code"
        code  == ~Inside(r.mode) /\ ~opens /\ after \notin InRegex
        row   == IF c = "newline" THEN r.row + 1 ELSE r.row
        col   == IF c = "newline" THEN 0 ELSE r.col + 1
        close == code /\ c = ")" /\ r.stack # <<>>
    IN  [mode  |-> after, row |-> row, col |-> col, was |-> here,
         began |-> IF ends THEN None ELSE IF ~opens THEN r.began
                   ELSE IF after \in InComment THEN r.was ELSE here,
         last  |-> IF ~ends THEN None ELSE IF c = "newline" THEN Span(r.began, here)
                   ELSE Span(r.began, Here(row, col)),
         kind  |-> IF r.mode \in InComment THEN "comment" ELSE "string",
         bad   |-> r.bad \/ (r.mode = "quote" /\ c = "newline"),
         continued |-> r.continued \/ (c = "newline" /\ r.mode \in {"quote escape", "tick escape", "subst escape"}),
         stray |-> r.stray \/ (c = "tick" /\ r.mode \in InComment \cup {"quote", "quote escape"}),
         misled |-> r.misled \/ Misleads(r.mode, c, after),
         bracketed |-> r.bracketed \/ (after \in InRegex /\ c \in {"("} \cup Closers),
         templates |-> IF r.mode \in InTemplate \/ after = "tick" THEN r.templates \cup {r.row} ELSE r.templates,
         wrong |-> r.wrong \/ (code /\ (c = "]" \/ (c = ")" /\ r.stack = <<>>))),
         stack |-> IF code /\ c = "(" THEN <<r.row>> \o r.stack
                   ELSE IF close THEN Tail(r.stack) ELSE r.stack,
         pairs |-> IF close /\ Head(r.stack) < r.row THEN r.pairs \cup {Head(r.stack), r.row} ELSE r.pairs]

-----------------------------------------------------------------------------

Init ==
    /\ ch \in Chars /\ nxt \in Chars \cup {"end"}
    /\ seen = Reference
    /\ spans = Fresh /\ prose = Fresh
    /\ comments = Strict /\ brackets = Strict /\ templates = NoTemplate

\* The texts that are read: within the bounds, and no further than a character
\* that misleads, past which the properties claim nothing.
Fits(c, n) ==
    /\ ~seen.misled
    /\ seen.row + (IF c = "newline" THEN 1 ELSE 0) <= MaxRow
    /\ seen.col < MaxCol \/ c = "newline"
    /\ n = "(" => Len(brackets.stack) + (IF c = "(" THEN 1 ELSE 0) < MaxDepth

Read ==
    /\ ch # "end" /\ Fits(ch, nxt)
    /\ ch' = nxt
    /\ nxt' \in (IF nxt = "end" THEN {"end"} ELSE Chars \cup {"end"})
    /\ \E after \in Readings(seen.mode, ch) : seen' = Look(seen, ch, after)
    /\ spans' = TsSpans(spans, ch, nxt, FALSE)
    /\ prose' = TsSpans(prose, ch, nxt, TRUE)
    /\ comments' = TsCommentSpans(comments, ch, nxt)
    /\ brackets' = TsBracketLines(brackets, ch, nxt)
    /\ templates' = TsStringLines(templates, ch)

Next == Read
Spec == Init /\ [][Next]_vars

-----------------------------------------------------------------------------

\* Both settings of _ts_spans end a span exactly where a comment (or, for
\* search_code, a string) ends, and it began where that began, also the one
\* the text ends in: a match is ignored if and only if it starts inside one.
\* Of base.py's own known gap, and of a template's substitutions, which are no
\* different, it says nothing.
SpansMatch ==
    /\ ~spans.skip => spans.last = seen.last
    /\ ~prose.skip => prose.last = IF seen.kind = "comment" THEN seen.last ELSE None
    /\ ~spans.skip /\ Inside(seen.mode) => spans.start = seen.began
SpansExact == ~seen.misled => SpansMatch

\* The same, of texts without a string that is continued on the next line.
SpansHonest == ~seen.continued => SpansExact

\* What the fixers leave alone.  The comments they are told of are those of the
\* text.  A text is left alone as a whole exactly if it ends inside a string or
\* a block comment, has a string cut by the line, or (for the brackets) closes
\* what is not open; else the lines of the brackets that end on another line
\* are marked, unless a regular expression holds one, and so are the lines of
\* the templates, unless a backtick in a comment or a string misleads; one that
\* does not end marks the whole text.
FixersKeepOut ==
    ~seen.continued /\ ~seen.misled =>
       /\ ~comments.failed /\ ~comments.scan.skip =>
             comments.scan.last = IF seen.kind = "comment" THEN seen.last ELSE None
       /\ ch = "end" =>
             LET cut == seen.bad \/ seen.mode \in {"block", "star"} \cup InString IN
             /\ StrictFails(comments) <=> cut
             /\ ~seen.bracketed => /\ StrictFails(brackets) <=> (cut \/ seen.wrong)
                                    /\ ~StrictFails(brackets) => brackets.crossed = seen.pairs
             /\ ~seen.stray => /\ templates.in <=> seen.mode \in InTemplate
                                /\ templates.lines = seen.templates
=============================================================================
