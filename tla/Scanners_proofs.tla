-------------------------- MODULE Scanners_proofs --------------------------
(***************************************************************************)
(* Theorems about Scanners, for texts of every length and nesting.         *)
(*                                                                         *)
(* The scanners keep no memory of their own.  What one of them holds is a  *)
(* function of what the reference has found and of the character both read *)
(* next: SpansOf, StrictOf, TemplateOf.  The inductive invariant says so,  *)
(* and the properties are read off it.                                     *)
(***************************************************************************)
EXTENDS Scanners, TLAPS

Modes == {"code", "slash", "line", "block", "star", "quote", "tick", "quote escape", "tick escape"}
Escapes == {"quote escape", "tick escape"}

\* Truth values the provers pass around by name.
No  == FALSE
Yes == TRUE

\* A scanner of spans, field by field.
Scan(mode, start, row, col, skip, last) ==
    [mode |-> mode, start |-> start, row |-> row, col |-> col, skip |-> skip, last |-> last]

\* What _ts_spans holds, with or without strings among its spans, when c comes
\* next: it has stepped over c if c ends what the reference is in the middle of.
SpansOf(r, c, strings) ==
    LET from == IF strings THEN r.began ELSE None
        last == IF strings \/ r.kind = "comment" THEN r.last ELSE None
    IN  IF r.mode = "slash" THEN
             IF c = "/" THEN Scan("line", r.was, r.row, r.col + 1, Yes, None)
             ELSE IF c = "*" THEN Scan("block", r.was, r.row, r.col + 1, Yes, None)
             ELSE Scan("code", None, r.row, r.col, No, last)
        ELSE IF r.mode = "star" THEN
             IF c = "/" THEN Scan("code", None, r.row, r.col + 1, Yes, Span(r.began, Here(r.row, r.col + 1)))
             ELSE Scan("block", r.began, r.row, r.col, No, last)
        ELSE IF r.mode = "quote escape" THEN Scan("quote", from, r.row, r.col + 1, Yes, None)
        ELSE IF r.mode = "tick escape" THEN Scan("tick", from, r.row, r.col + 1, Yes, None)
        ELSE IF r.mode = "code" THEN Scan("code", None, r.row, r.col, No, last)
        ELSE Scan(r.mode, IF r.mode \in Quotes THEN from ELSE r.began, r.row, r.col, No, last)

\* What the two scanners hold that give up, while they have not.
Strictly(scan, stack, crossed) ==
    [scan |-> scan, failed |-> No, stack |-> stack, crossed |-> crossed]

StrictOf(r, c, stack, crossed) == Strictly(SpansOf(r, c, No), stack, crossed)

\* What _ts_string_lines holds.
Lines(in, row, skip, lines) == [in |-> in, row |-> row, skip |-> skip, lines |-> lines]

TemplateOf(r) == IF r.mode = "tick escape" THEN Lines(Yes, r.row, Yes, r.templates)
                 ELSE IF r.mode = "tick" THEN Lines(Yes, r.row, No, r.templates)
                 ELSE Lines(No, r.row, No, r.templates)

\* Where the character after c stands.
RowPast(row, c) == IF c = "newline" THEN row + 1 ELSE row
ColPast(col, c) == IF c = "newline" THEN 0 ELSE col + 1

-----------------------------------------------------------------------------
(***************************************************************************)
(* The reference as one would have it that knows of no literals and no     *)
(* substitutions: what it finds is what the reference finds, with the      *)
(* modes it does not have taken for those it has, until a character        *)
(* misleads.  The scanners are compared with it.                           *)
(***************************************************************************)

Plain(mode) ==
    IF mode \in {"regex", "regex escape"} THEN "code"
    ELSE IF mode \in {"regex slash", "regex end"} THEN "slash"
    ELSE IF mode = "subst" THEN "tick" ELSE IF mode = "subst escape" THEN "tick escape"
    ELSE mode

PlainAfter(mode, c) ==
    CASE mode = "line"  -> IF c = "newline" THEN "code" ELSE "line"
      [] mode = "block" -> IF c = "*" THEN "star" ELSE "block"
      [] mode = "star"  -> IF c = "/" THEN "code" ELSE IF c = "*" THEN "star" ELSE "block"
      [] mode = "quote" -> IF c = "escape" THEN "quote escape" ELSE IF c \in {"quote", "newline"} THEN "code" ELSE "quote"
      [] mode = "tick"  -> IF c = "escape" THEN "tick escape" ELSE IF c = "tick" THEN "code" ELSE "tick"
      [] mode = "quote escape" -> "quote"
      [] mode = "tick escape"  -> "tick"
      [] mode = "slash" /\ c = "/" -> "line"
      [] mode = "slash" /\ c = "*" -> "block"
      [] mode = "code" /\ c = "/"  -> "slash"
      [] mode \in {"code", "slash"} /\ c \in Quotes -> c
      [] OTHER -> "code"

PlainLook(r, c) ==
    LET here  == Here(r.row, r.col)
        after == PlainAfter(r.mode, c)
        opens == ~Inside(r.mode) /\ Inside(after)
        ends  == Inside(r.mode) /\ after = "code"
        code  == ~Inside(r.mode) /\ ~opens
        row   == IF c = "newline" THEN r.row + 1 ELSE r.row
        col   == IF c = "newline" THEN 0 ELSE r.col + 1
        close == code /\ c = ")" /\ r.stack # <<>>
    IN  [mode  |-> after, row |-> row, col |-> col, was |-> here,
         began |-> IF ends THEN None ELSE IF ~opens THEN r.began
                   ELSE IF after \in InComment THEN r.was ELSE here,
         last  |-> IF ~ends THEN None ELSE IF c = "newline" THEN Span(r.began, here)
                   ELSE Span(r.began, Here(row, col)),
         kind  |-> IF r.mode \in InComment THEN "comment" ELSE "string",
         bad   |-> r.bad \/ (r.mode = "quote" /\ c = "newline"),
         continued |-> r.continued \/ (c = "newline" /\ r.mode \in {"quote escape", "tick escape"}),
         stray |-> r.stray \/ (c = "tick" /\ r.mode \in InComment \cup {"quote", "quote escape"}),
         templates |-> IF r.mode \in {"tick", "tick escape"} \/ after = "tick"
                          THEN r.templates \cup {r.row} ELSE r.templates,
         wrong |-> r.wrong \/ (code /\ (c = "]" \/ (c = ")" /\ r.stack = <<>>))),
         stack |-> IF code /\ c = "(" THEN <<r.row>> \o r.stack
                   ELSE IF close THEN Tail(r.stack) ELSE r.stack,
         pairs |-> IF close /\ Head(r.stack) < r.row THEN r.pairs \cup {Head(r.stack), r.row} ELSE r.pairs]

\* What the reference has found, in plain modes.
Flat(r) ==
    [mode |-> Plain(r.mode), row |-> r.row, col |-> r.col, was |-> r.was, began |-> r.began,
     last |-> r.last, kind |-> r.kind, bad |-> r.bad, continued |-> r.continued, stray |-> r.stray,
     templates |-> r.templates, wrong |-> r.wrong, stack |-> r.stack, pairs |-> r.pairs]

-----------------------------------------------------------------------------
(***************************************************************************)
(* The reference.                                                          *)
(***************************************************************************)

\* After a character, the reference is in one of its modes.
LEMMA ModesStay ==
    ASSUME NEW mode \in Modes, NEW c \in Chars
    PROVE  PlainAfter(mode, c) \in Modes
BY DEF PlainAfter, Modes, Chars, Quotes

\* What the reference keeps of a character.
LEMMA Looked ==
    ASSUME NEW r, NEW c
    PROVE  LET q == PlainLook(r, c)
               after == PlainAfter(r.mode, c)
               ends  == Inside(r.mode) /\ after = "code"
               opens == ~Inside(r.mode) /\ Inside(after)
               code  == ~Inside(r.mode) /\ ~opens
           IN /\ q.mode = after
              /\ q.row = RowPast(r.row, c) /\ q.col = ColPast(r.col, c)
              /\ q.was = Here(r.row, r.col)
              /\ q.began = IF ends THEN None ELSE IF ~opens THEN r.began
                           ELSE IF after \in InComment THEN r.was ELSE Here(r.row, r.col)
              /\ q.last = IF ~ends THEN None ELSE IF c = "newline" THEN Span(r.began, Here(r.row, r.col))
                          ELSE Span(r.began, Here(q.row, q.col))
              /\ q.kind = IF r.mode \in InComment THEN "comment" ELSE "string"
BY Zenon DEF PlainLook, RowPast, ColPast

\* What it adds to its verdicts.
LEMMA LookedAt ==
    ASSUME NEW r, NEW c
    PROVE  LET q == PlainLook(r, c)
               after == PlainAfter(r.mode, c)
               opens == ~Inside(r.mode) /\ Inside(after)
               code  == ~Inside(r.mode) /\ ~opens
               close == code /\ c = ")" /\ r.stack # <<>>
           IN /\ q.bad = (r.bad \/ (r.mode = "quote" /\ c = "newline"))
              /\ q.continued = (r.continued \/ (c = "newline" /\ r.mode \in Escapes))
              /\ q.stray = (r.stray \/ (c = "tick" /\ r.mode \in InComment \cup {"quote", "quote escape"}))
              /\ q.templates = IF r.mode \in {"tick", "tick escape"} \/ after = "tick"
                                  THEN r.templates \cup {r.row} ELSE r.templates
              /\ q.wrong = (r.wrong \/ (code /\ (c = "]" \/ (c = ")" /\ r.stack = <<>>))))
              /\ q.stack = IF code /\ c = "(" THEN <<r.row>> \o r.stack
                           ELSE IF close THEN Tail(r.stack) ELSE r.stack
              /\ q.pairs = IF close /\ Head(r.stack) < r.row
                              THEN r.pairs \cup {Head(r.stack), r.row} ELSE r.pairs
BY Zenon DEF PlainLook, Escapes

\* What the reference is asked for: the text it has read, and where.
Sound(r) == /\ r.mode \in Modes /\ r.row \in Nat /\ r.col \in Nat
            /\ r.mode = "slash" => r.was # None
            /\ Inside(r.mode) => r.began # None

\* Another character, and the reference still knows where it is.
LEMMA SoundStays ==
    ASSUME NEW r, Sound(r), NEW c \in Chars
    PROVE  Sound(PlainLook(r, c))
<1> DEFINE q == PlainLook(r, c)
           after == PlainAfter(r.mode, c)
           ends  == Inside(r.mode) /\ after = "code"
           opens == ~Inside(r.mode) /\ Inside(after)
           here == Here(r.row, r.col)
<1>1. /\ q.mode = after /\ q.row = RowPast(r.row, c) /\ q.col = ColPast(r.col, c) /\ q.was = here
      /\ q.began = IF ends THEN None ELSE IF ~opens THEN r.began
                   ELSE IF after \in InComment THEN r.was ELSE here
  BY Looked
<1> HIDE DEF q
<1>2. q.mode \in Modes /\ q.row \in Nat /\ q.col \in Nat
  BY <1>1, ModesStay DEF Sound, RowPast, ColPast
<1>3. here # None
  BY DEF Here, None
<1>4. ASSUME Inside(after)  PROVE q.began # None
  <2>1. after # "code"
    BY <1>4 DEF Inside, InComment, InString, InTemplate
  <2>2. CASE Inside(r.mode)
    BY <1>1, <2>1, <2>2 DEF Sound
  <2>3. CASE ~Inside(r.mode) /\ after \in InComment
    <3>1. r.mode = "slash"
      BY <2>3, Zenon DEF PlainAfter, Sound, Modes, Inside, InComment, InString, InTemplate, Quotes
    <3> QED BY <1>1, <1>4, <2>1, <2>3, <3>1 DEF Sound
  <2>4. CASE ~Inside(r.mode) /\ after \notin InComment
    BY <1>1, <1>3, <1>4, <2>1, <2>4
  <2> QED BY <2>2, <2>3, <2>4
<1> QED BY <1>1, <1>2, <1>3, <1>4 DEF Sound, q

\* An escape in a string is the only thing that leaves the reference after one.
LEMMA Escaped ==
    ASSUME NEW r, Sound(r), NEW c \in Chars
    PROVE  PlainLook(r, c).mode \in Escapes <=> r.mode \in Quotes /\ c = "escape"
<1>1. PlainLook(r, c).mode = PlainAfter(r.mode, c)
  BY Looked
<1> QED BY <1>1 DEF PlainAfter, Sound, Modes, Escapes, Quotes, Chars

-----------------------------------------------------------------------------
(***************************************************************************)
(* _ts_spans.                                                              *)
(***************************************************************************)

\* The fields of a scanner of spans.
LEMMA ScanFields ==
    ASSUME NEW m, NEW st, NEW row, NEW col, NEW k, NEW l
    PROVE  LET s == Scan(m, st, row, col, k, l) IN
             s.mode = m /\ s.start = st /\ s.row = row /\ s.col = col /\ s.skip = k /\ s.last = l
BY DEF Scan

\* A scanner of spans with another mode.
LEMMA SetMode ==
    ASSUME NEW m, NEW st, NEW row, NEW col, NEW k, NEW l, NEW x
    PROVE  [Scan(m, st, row, col, k, l) EXCEPT !.mode = x] = Scan(x, st, row, col, k, l)
<1> DEFINE s == Scan(m, st, row, col, k, l)
<1>1. s = [mode |-> m, start |-> st, row |-> row, col |-> col, skip |-> k, last |-> l]
  BY DEF Scan
<1> HIDE DEF s
<1>2. [s EXCEPT !.mode = x] = Scan(x, st, row, col, k, l)
  BY <1>1 DEF Scan
<1> QED BY <1>2 DEF s

\* The same, of its start.
LEMMA SetStart ==
    ASSUME NEW m, NEW st, NEW row, NEW col, NEW k, NEW l, NEW x
    PROVE  [Scan(m, st, row, col, k, l) EXCEPT !.start = x] = Scan(m, x, row, col, k, l)
<1> DEFINE s == Scan(m, st, row, col, k, l)
<1>1. s = [mode |-> m, start |-> st, row |-> row, col |-> col, skip |-> k, last |-> l]
  BY DEF Scan
<1> HIDE DEF s
<1>2. [s EXCEPT !.start = x] = Scan(m, x, row, col, k, l)
  BY <1>1 DEF Scan
<1> QED BY <1>2 DEF s

\* The same, of its row.
LEMMA SetRow ==
    ASSUME NEW m, NEW st, NEW row, NEW col, NEW k, NEW l, NEW x
    PROVE  [Scan(m, st, row, col, k, l) EXCEPT !.row = x] = Scan(m, st, x, col, k, l)
<1> DEFINE s == Scan(m, st, row, col, k, l)
<1>1. s = [mode |-> m, start |-> st, row |-> row, col |-> col, skip |-> k, last |-> l]
  BY DEF Scan
<1> HIDE DEF s
<1>2. [s EXCEPT !.row = x] = Scan(m, st, x, col, k, l)
  BY <1>1 DEF Scan
<1> QED BY <1>2 DEF s

\* The same, of its column.
LEMMA SetCol ==
    ASSUME NEW m, NEW st, NEW row, NEW col, NEW k, NEW l, NEW x
    PROVE  [Scan(m, st, row, col, k, l) EXCEPT !.col = x] = Scan(m, st, row, x, k, l)
<1> DEFINE s == Scan(m, st, row, col, k, l)
<1>1. s = [mode |-> m, start |-> st, row |-> row, col |-> col, skip |-> k, last |-> l]
  BY DEF Scan
<1> HIDE DEF s
<1>2. [s EXCEPT !.col = x] = Scan(m, st, row, x, k, l)
  BY <1>1 DEF Scan
<1> QED BY <1>2 DEF s

\* The same, of its mark to skip.
LEMMA SetSkip ==
    ASSUME NEW m, NEW st, NEW row, NEW col, NEW k, NEW l, NEW x
    PROVE  [Scan(m, st, row, col, k, l) EXCEPT !.skip = x] = Scan(m, st, row, col, x, l)
<1> DEFINE s == Scan(m, st, row, col, k, l)
<1>1. s = [mode |-> m, start |-> st, row |-> row, col |-> col, skip |-> k, last |-> l]
  BY DEF Scan
<1> HIDE DEF s
<1>2. [s EXCEPT !.skip = x] = Scan(m, st, row, col, x, l)
  BY <1>1 DEF Scan
<1> QED BY <1>2 DEF s

\* The same, of its last span.
LEMMA SetLast ==
    ASSUME NEW m, NEW st, NEW row, NEW col, NEW k, NEW l, NEW x
    PROVE  [Scan(m, st, row, col, k, l) EXCEPT !.last = x] = Scan(m, st, row, col, k, x)
<1> DEFINE s == Scan(m, st, row, col, k, l)
<1>1. s = [mode |-> m, start |-> st, row |-> row, col |-> col, skip |-> k, last |-> l]
  BY DEF Scan
<1> HIDE DEF s
<1>2. [s EXCEPT !.last = x] = Scan(m, st, row, col, k, x)
  BY <1>1 DEF Scan
<1> QED BY <1>2 DEF s

\* A scanner that has passed over a character looks at the next one.
LEMMA Looks ==
    ASSUME NEW m, NEW st, NEW row, NEW col, NEW k, NEW l
    PROVE  [Scan(m, st, row, col, k, l) EXCEPT !.skip = FALSE] = Scan(m, st, row, col, No, l)
<1>1. [Scan(m, st, row, col, k, l) EXCEPT !.skip = No] = Scan(m, st, row, col, No, l)
  BY SetSkip
<1> QED BY <1>1 DEF No

\* One character forward, to where the reference then is.
LEMMA Advances ==
    ASSUME NEW m, NEW st, NEW row, NEW col, NEW k, NEW l, NEW c
    PROVE  Advance(Scan(m, st, row, col, k, l), c) = Scan(m, st, RowPast(row, c), ColPast(col, c), k, l)
<1> DEFINE s == Scan(m, st, row, col, k, l)
<1>1. s.row = row /\ s.col = col
  BY ScanFields
<1>2. [s EXCEPT !.row = row + 1] = Scan(m, st, row + 1, col, k, l)
  BY SetRow
<1>3. [Scan(m, st, row + 1, col, k, l) EXCEPT !.col = 0] = Scan(m, st, row + 1, 0, k, l)
  BY SetCol
<1>4. [s EXCEPT !.col = col + 1] = Scan(m, st, row, col + 1, k, l)
  BY SetCol
<1> HIDE DEF s
<1>5. c = "newline" => Advance(s, c) = Scan(m, st, row + 1, 0, k, l)
  BY <1>1, <1>2, <1>3, Zenon DEF Advance
<1>6. c # "newline" => Advance(s, c) = Scan(m, st, row, col + 1, k, l)
  BY <1>1, <1>4, Zenon DEF Advance
<1> QED BY <1>5, <1>6, Zenon DEF s, RowPast, ColPast

\* A scanner of spans goes into a comment or a string.
LEMMA Enters ==
    ASSUME NEW m, NEW st, NEW row, NEW col, NEW k, NEW l, NEW mode, NEW start
    PROVE  Enter(Scan(m, st, row, col, k, l), mode, start) = Scan(mode, start, row, col, k, l)
<1>1. [Scan(m, st, row, col, k, l) EXCEPT !.mode = mode] = Scan(mode, st, row, col, k, l)
  BY SetMode
<1>2. [Scan(mode, st, row, col, k, l) EXCEPT !.start = start] = Scan(mode, start, row, col, k, l)
  BY SetStart
<1> QED BY <1>1, <1>2, Zenon DEF Enter

\* A scanner of spans leaves one, and records where it was if it had a start.
LEMMA Leaves ==
    ASSUME NEW m, NEW st, NEW row, NEW col, NEW k, NEW l
    PROVE  Leave(Scan(m, st, row, col, k, l)) =
             Scan("code", None, row, col, k, IF st = None THEN l ELSE Span(st, Here(row, col)))
<1> DEFINE s == Scan(m, st, row, col, k, l)
           z == IF s.start = None THEN s.last ELSE Span(s.start, Here(s.row, s.col))
<1>1. z = IF st = None THEN l ELSE Span(st, Here(row, col))
  <2>1. s.start = st /\ s.row = row /\ s.col = col /\ s.last = l
    BY ScanFields
  <2> HIDE DEF s
  <2> QED BY <2>1, Zenon
<1>2. [s EXCEPT !.mode = "code"] = Scan("code", st, row, col, k, l)
  BY SetMode
<1>3. [Scan("code", st, row, col, k, l) EXCEPT !.start = None] = Scan("code", None, row, col, k, l)
  BY SetStart
<1>4. Leave(s) = [s EXCEPT !.mode = "code", !.start = None, !.last = z]
  <2> HIDE DEF s
  <2> QED BY Zenon DEF Leave
<1> HIDE DEF z
<1>5. [Scan("code", None, row, col, k, l) EXCEPT !.last = z] = Scan("code", None, row, col, k, z)
  BY SetLast
<1> HIDE DEF s
<1>6. Leave(s) = Scan("code", None, row, col, k, z)
  BY <1>2, <1>3, <1>4, <1>5, Zenon
<1> QED BY <1>1, <1>6, Zenon DEF s

\* What _ts_spans does with a character it looks at, mode by mode.
Shut(st, from, row, col, k) == Scan("code", None, row, col, k, IF st = None THEN None ELSE Span(st, from))

Onward(m, st, row, col, c, n, p) ==
    LET here == Here(row, col)
        on   == Scan(m, st, RowPast(row, c), ColPast(col, c), No, None)
    IN  IF m = "code" THEN
             IF c = "/" /\ n = "/" THEN Scan("line", here, row, col + 2, Yes, None)
             ELSE IF c = "/" /\ n = "*" THEN Scan("block", here, row, col + 2, Yes, None)
             ELSE IF c \in Quotes THEN Scan(c, IF p THEN None ELSE here, row, col + 1, No, None)
             ELSE on
        ELSE IF m = "line" THEN
             IF c = "newline" THEN Shut(st, here, row + 1, 0, No) ELSE on
        ELSE IF m = "block" THEN
             IF c = "*" /\ n = "/" THEN Shut(st, Here(row, col + 2), row, col + 2, Yes) ELSE on
        ELSE IF c = "escape" THEN Scan(m, st, row, col + 2, Yes, None)
        ELSE IF c = m THEN Shut(st, Here(row, col + 1), row, col + 1, No)
        ELSE IF c = "newline" /\ m = "quote" THEN Shut(st, here, row + 1, 0, No)
        ELSE on

\* It does what Onward says.
LEMMA SpansMoves ==
    ASSUME NEW m \in {"code", "line", "block", "quote", "tick"}, NEW st, NEW row, NEW col, NEW l,
           NEW c, NEW n, NEW p
    PROVE  TsSpans(Scan(m, st, row, col, No, l), c, n, p) = Onward(m, st, row, col, c, n, p)
<1> DEFINE s == Scan(m, st, row, col, No, l)
           t == Scan(m, st, row, col, No, None)
           here == Here(row, col)
           nrow == RowPast(row, c)
           ncol == ColPast(col, c)
           on   == Scan(m, st, nrow, ncol, No, None)
           col2 == col + 2
           two  == Scan(m, st, row, col2, Yes, None)
<1> HIDE DEF nrow, ncol, col2
<1>1. s.mode = m /\ s.row = row /\ s.col = col /\ s.skip = FALSE /\ [s EXCEPT !.last = None] = t
  <2>1. s.mode = m /\ s.row = row /\ s.col = col /\ s.skip = No
    BY ScanFields
  <2>2. [s EXCEPT !.last = None] = t
    BY SetLast
  <2> HIDE DEF s, t
  <2> QED BY <2>1, <2>2 DEF No
<1>2. t.mode = m /\ Advance(t, c) = on
  <2>1. t.mode = m
    BY ScanFields
  <2>2. Advance(t, c) = on
    BY Advances DEF nrow, ncol
  <2> QED BY <2>1, <2>2
<1>3. Pair(t) = two
  <2>1. [t EXCEPT !.col = col2] = Scan(m, st, row, col2, No, None)
    BY SetCol
  <2>2. [Scan(m, st, row, col2, No, None) EXCEPT !.skip = Yes] = two
    BY SetSkip
  <2>3. t.col = col
    BY ScanFields
  <2> HIDE DEF t, two
  <2> QED BY <2>1, <2>2, <2>3, Zenon DEF Pair, Yes, col2
<1>4. \A mode, start : /\ Enter(two, mode, start) = Scan(mode, start, row, col2, Yes, None)
                       /\ Enter(on, mode, start) = Scan(mode, start, nrow, ncol, No, None)
  BY Enters
<1>5. /\ Leave(t) = Scan("code", None, row, col, No, IF st = None THEN None ELSE Span(st, here))
       /\ Leave(two) = Scan("code", None, row, col2, Yes, IF st = None THEN None ELSE Span(st, Here(row, col2)))
       /\ Leave(on) = Scan("code", None, nrow, ncol, No, IF st = None THEN None ELSE Span(st, Here(nrow, ncol)))
  BY Leaves
<1>6. \A l2 : Advance(Scan("code", None, row, col, No, l2), c) = Scan("code", None, nrow, ncol, No, l2)
  BY Advances DEF nrow, ncol
<1> HIDE DEF s, t, on, two
<1>7. m = "code" /\ c = "/" /\ n = "/" => TsSpans(s, c, n, p) = Enter(Pair(t), "line", here)
  BY <1>1 DEF TsSpans, Quotes
<1>8. m = "code" /\ c = "/" /\ n = "*" => TsSpans(s, c, n, p) = Enter(Pair(t), "block", here)
  BY <1>1 DEF TsSpans, Quotes
<1>9. m = "code" /\ c \in Quotes => TsSpans(s, c, n, p) = Enter(Advance(t, c), c, IF p THEN None ELSE here)
  BY <1>1 DEF TsSpans, Quotes
<1>10. m = "code" /\ c \notin Quotes /\ ~(c = "/" /\ n \in {"/", "*"}) => TsSpans(s, c, n, p) = Advance(t, c)
  BY <1>1 DEF TsSpans, Quotes
<1>11. m \in {"line", "block"} => TsSpans(s, c, n, p) = InTsComment(t, c, n)
  BY <1>1 DEF TsSpans, Quotes
<1>12. m \in Quotes => TsSpans(s, c, n, p) = InTsString(t, c)
  BY <1>1 DEF TsSpans, Quotes
<1>13. c \in Quotes => nrow = row /\ ncol = col + 1
  BY DEF Quotes, nrow, ncol, RowPast, ColPast
<1>14. c = "newline" => nrow = row + 1 /\ ncol = 0
  BY DEF nrow, ncol, RowPast, ColPast
<1>15. m = "line" => /\ c = "newline" => InTsComment(t, c, n) = Advance(Leave(t), c)
                     /\ c # "newline" => InTsComment(t, c, n) = Advance(t, c)
  BY <1>2 DEF InTsComment
<1>16. m = "block" => /\ c = "*" /\ n = "/" => InTsComment(t, c, n) = Leave(Pair(t))
                      /\ ~(c = "*" /\ n = "/") => InTsComment(t, c, n) = Advance(t, c)
  BY <1>2 DEF InTsComment
<1>17. m \in Quotes =>
         /\ c = "escape" => InTsString(t, c) = Pair(t)
         /\ c = m => InTsString(t, c) = Leave(Advance(t, c))
         /\ m = "quote" /\ c = "newline" => InTsString(t, c) = Advance(Leave(t), c)
         /\ c # "escape" /\ c # m /\ (c # "newline" \/ m = "tick") => InTsString(t, c) = Advance(t, c)
  BY <1>2 DEF InTsString, Quotes
<1>18. CASE m = "code"
  <2>1. CASE c = "/" /\ n = "/"
    BY <1>3, <1>7, <1>4, <1>18, <2>1 DEF Onward, s, col2
  <2>2. CASE c = "/" /\ n = "*"
    BY <1>3, <1>8, <1>4, <1>18, <2>2 DEF Onward, s, col2
  <2>3. CASE c \in Quotes
    <3>1. c # "/"
      BY <2>3 DEF Quotes
    <3> QED BY <1>2, <1>9, <1>4, <1>13, <1>18, <2>3, <3>1 DEF Onward, s
  <2>4. CASE c \notin Quotes /\ ~(c = "/" /\ n \in {"/", "*"})
    BY <1>2, <1>10, <1>18, <2>4 DEF Onward, s, on, nrow, ncol
  <2> QED BY <2>1, <2>2, <2>3, <2>4
<1>19. CASE m = "line"
  <2>1. CASE c = "newline"
    BY <1>11, <1>14, <1>5, <1>6, <1>15, <1>19, <2>1 DEF Onward, Shut, s
  <2>2. CASE c # "newline"
    BY <1>2, <1>11, <1>15, <1>19, <2>2 DEF Onward, s, on, nrow, ncol
  <2> QED BY <2>1, <2>2
<1>20. CASE m = "block"
  <2>1. CASE c = "*" /\ n = "/"
    BY <1>3, <1>11, <1>5, <1>16, <1>20, <2>1 DEF Onward, Shut, s, col2
  <2>2. CASE ~(c = "*" /\ n = "/")
    BY <1>2, <1>11, <1>16, <1>20, <2>2 DEF Onward, s, on, nrow, ncol
  <2> QED BY <2>1, <2>2
<1>21. CASE m \in Quotes
  <2>1. m # "code" /\ m # "line" /\ m # "block" /\ m # "escape" /\ m # "newline"
    BY <1>21 DEF Quotes
  <2>2. CASE c = "escape"
    BY <1>3, <1>12, <1>17, <1>21, <2>1, <2>2 DEF Onward, s, two, col2
  <2>3. CASE c = m
    BY <1>2, <1>12, <1>13, <1>5, <1>17, <1>21, <2>1, <2>3 DEF Onward, Shut, s
  <2>4. CASE c = "newline" /\ m = "quote"
    BY <1>12, <1>14, <1>5, <1>6, <1>17, <1>21, <2>1, <2>4 DEF Onward, Shut, s
  <2>5. CASE c # "escape" /\ c # m /\ ~(c = "newline" /\ m = "quote")
    BY <1>2, <1>12, <1>17, <1>21, <2>1, <2>5 DEF Onward, s, on, nrow, ncol, Quotes
  <2> QED BY <2>2, <2>3, <2>4, <2>5
<1> QED BY <1>18, <1>19, <1>20, <1>21 DEF Quotes

\* While the text goes on in the same way, _ts_spans goes on as the reference does.
LEMMA SpansFollow ==
    ASSUME NEW r, Sound(r),
           NEW c \in Chars, NEW n, NEW strings \in BOOLEAN,
           ~(c = "newline" /\ r.mode \in Escapes)
    PROVE  TsSpans(SpansOf(r, c, strings), c, n, ~strings) = SpansOf(PlainLook(r, c), n, strings)
<1> DEFINE q == PlainLook(r, c)
           p == ~strings
           s == SpansOf(r, c, strings)
           after == PlainAfter(r.mode, c)
           ends  == Inside(r.mode) /\ after = "code"
           opens == ~Inside(r.mode) /\ Inside(after)
           here == Here(r.row, r.col)
           from == IF strings THEN r.began ELSE None
           last == IF strings \/ r.kind = "comment" THEN r.last ELSE None
           nrow == RowPast(r.row, c)
           ncol == ColPast(r.col, c)
<1>1. /\ q.mode = after /\ q.row = nrow /\ q.col = ncol
      /\ q.was = here /\ q.kind = IF r.mode \in InComment THEN "comment" ELSE "string"
      /\ q.began = IF ends THEN None ELSE IF ~opens THEN r.began
                   ELSE IF after \in InComment THEN r.was ELSE here
      /\ q.last = IF ~ends THEN None ELSE IF c = "newline" THEN Span(r.began, here)
                  ELSE Span(r.began, Here(q.row, q.col))
  BY Looked
<1> HIDE DEF q
<1>2. \A m, st, row, col, l : TsSpans(Scan(m, st, row, col, Yes, l), c, n, p) = Scan(m, st, row, col, No, l)
  <2> SUFFICES ASSUME NEW m, NEW st, NEW row, NEW col, NEW l
               PROVE  TsSpans(Scan(m, st, row, col, Yes, l), c, n, p) = Scan(m, st, row, col, No, l)
    OBVIOUS
  <2>1. Scan(m, st, row, col, Yes, l).skip = Yes
    BY ScanFields
  <2>2. [Scan(m, st, row, col, Yes, l) EXCEPT !.skip = FALSE] = Scan(m, st, row, col, No, l)
    BY Looks
  <2> HIDE DEF p
  <2> QED BY <2>1, <2>2 DEF TsSpans, Yes
<1>3. CASE r.mode = "slash" /\ c \in {"/", "*"}
  <2> DEFINE m == IF c = "/" THEN "line" ELSE "block"
  <2>1. after = m /\ ~ends /\ opens /\ after \in InComment /\ c # "newline"
    BY <1>3 DEF PlainAfter, Inside, InComment, InString, InTemplate, Quotes
  <2>2. s = Scan(m, r.was, r.row, r.col + 1, Yes, None)
    BY <1>3 DEF SpansOf
  <2>3. SpansOf(q, n, strings) = Scan(m, r.was, r.row, r.col + 1, No, None)
    BY <1>1, <2>1 DEF SpansOf, RowPast, ColPast, Quotes
  <2> HIDE DEF s, p, m
  <2> QED BY <1>2, <2>2, <2>3 DEF q, s, p
<1>4. CASE r.mode = "star" /\ c = "/"
  <2>1. after = "code" /\ ends /\ c # "newline" /\ r.mode \in InComment
    BY <1>4 DEF PlainAfter, Inside, InComment, InString, InTemplate, Quotes
  <2>2. s = Scan("code", None, r.row, r.col + 1, Yes, Span(r.began, Here(r.row, r.col + 1)))
    BY <1>4 DEF SpansOf
  <2>3. SpansOf(q, n, strings) = Scan("code", None, r.row, r.col + 1, No, Span(r.began, Here(r.row, r.col + 1)))
    BY <1>1, <2>1 DEF SpansOf, RowPast, ColPast, Quotes
  <2> HIDE DEF s, p
  <2> QED BY <1>2, <2>2, <2>3 DEF q, s, p
<1>5. CASE r.mode \in Escapes
  <2> DEFINE m == IF r.mode = "quote escape" THEN "quote" ELSE "tick"
  <2>1. after = m /\ ~ends /\ ~opens /\ c # "newline"
    BY <1>5 DEF PlainAfter, Inside, InComment, InString, InTemplate, Quotes, Escapes
  <2>2. s = Scan(m, from, r.row, r.col + 1, Yes, None)
    BY <1>5 DEF SpansOf, Escapes
  <2>3. SpansOf(q, n, strings) = Scan(m, from, r.row, r.col + 1, No, None)
    BY <1>1, <2>1 DEF SpansOf, RowPast, ColPast, Quotes
  <2> HIDE DEF s, p, m, from
  <2> QED BY <1>2, <2>2, <2>3 DEF q, s, p
<1>6. \A m \in {"code", "line", "block", "quote", "tick"} : \A st, l :
         TsSpans(Scan(m, st, r.row, r.col, No, l), c, n, p) = Onward(m, st, r.row, r.col, c, n, p)
  <2> HIDE DEF p
  <2> QED BY SpansMoves
<1>7. r.row \in Nat /\ r.col \in Nat
  BY DEF Sound
<1>8. CASE r.mode = "code" \/ (r.mode = "slash" /\ c \notin {"/", "*"})
  <2>1. s = Scan("code", None, r.row, r.col, No, last)
    BY <1>8 DEF SpansOf
  <2>2. TsSpans(s, c, n, p) = Onward("code", None, r.row, r.col, c, n, p)
    <3> HIDE DEF s, p
    <3> QED BY <1>6, <2>1
  <2>3. CASE c = "/"
    <3>1. after = "slash" /\ ~ends /\ ~opens /\ r.mode = "code"
      BY <1>8, <2>3 DEF PlainAfter, Inside, InComment, InString, InTemplate, Quotes
    <3>2. SpansOf(q, n, strings) = IF n = "/" THEN Scan("line", here, r.row, r.col + 2, Yes, None)
                                   ELSE IF n = "*" THEN Scan("block", here, r.row, r.col + 2, Yes, None)
                                   ELSE Scan("code", None, r.row, r.col + 1, No, None)
      BY <1>1, <1>7, <2>3, <3>1 DEF SpansOf, RowPast, ColPast
    <3>3. Onward("code", None, r.row, r.col, c, n, p) = SpansOf(q, n, strings)
      BY <2>3, <3>2 DEF Onward, RowPast, ColPast, Quotes
    <3> QED BY <2>2, <3>3 DEF q
  <2>4. CASE c \in Quotes
    <3>1. after = c /\ ~ends /\ opens /\ after \notin InComment /\ c # "newline" /\ c # "/"
      BY <1>8, <2>4 DEF PlainAfter, Inside, InComment, InString, InTemplate, Quotes
    <3>2. SpansOf(q, n, strings) = Scan(c, IF strings THEN here ELSE None, r.row, r.col + 1, No, None)
      BY <1>1, <2>4, <3>1 DEF SpansOf, RowPast, ColPast, Quotes
    <3>3. Onward("code", None, r.row, r.col, c, n, p) = SpansOf(q, n, strings)
      BY <2>4, <3>1, <3>2 DEF Onward, RowPast, ColPast
    <3> QED BY <2>2, <3>3 DEF q
  <2>5. CASE c # "/" /\ c \notin Quotes
    <3>1. after = "code" /\ ~ends /\ ~opens
      BY <1>8, <2>5 DEF PlainAfter, Inside, InComment, InString, InTemplate, Quotes
    <3>2. SpansOf(q, n, strings) = Scan("code", None, nrow, ncol, No, None)
      BY <1>1, <3>1 DEF SpansOf
    <3>3. Onward("code", None, r.row, r.col, c, n, p) = SpansOf(q, n, strings)
      BY <2>5, <3>2 DEF Onward
    <3> QED BY <2>2, <3>3 DEF q
  <2> QED BY <2>3, <2>4, <2>5
<1>9. CASE r.mode = "line"
  <2>1. s = Scan("line", r.began, r.row, r.col, No, last)
    BY <1>9 DEF SpansOf, Quotes
  <2>2. TsSpans(s, c, n, p) = Onward("line", r.began, r.row, r.col, c, n, p)
    <3> HIDE DEF s, p
    <3> QED BY <1>6, <2>1
  <2>3. r.began # None
    BY <1>9 DEF Sound, Inside, InComment
  <2>4. CASE c = "newline"
    <3>1. after = "code" /\ ends /\ r.mode \in InComment
      BY <1>9, <2>4 DEF PlainAfter, Inside, InComment, InString, InTemplate, Quotes
    <3>2. SpansOf(q, n, strings) = Scan("code", None, r.row + 1, 0, No, Span(r.began, here))
      BY <1>1, <2>4, <3>1 DEF SpansOf, RowPast, ColPast
    <3>3. Onward("line", r.began, r.row, r.col, c, n, p) = SpansOf(q, n, strings)
      BY <2>3, <2>4, <3>2 DEF Onward, Shut
    <3> QED BY <2>2, <3>3 DEF q
  <2>5. CASE c # "newline"
    <3>1. after = "line" /\ ~ends /\ ~opens
      BY <1>9, <2>5 DEF PlainAfter, Inside, InComment, InString, InTemplate, Quotes
    <3>2. SpansOf(q, n, strings) = Scan("line", r.began, nrow, ncol, No, None)
      BY <1>1, <3>1 DEF SpansOf, Quotes
    <3>3. Onward("line", r.began, r.row, r.col, c, n, p) = SpansOf(q, n, strings)
      BY <2>5, <3>2 DEF Onward
    <3> QED BY <2>2, <3>3 DEF q
  <2> QED BY <2>4, <2>5
<1>10. CASE r.mode = "block" \/ (r.mode = "star" /\ c # "/")
  <2>1. s = Scan("block", r.began, r.row, r.col, No, last)
    BY <1>10 DEF SpansOf, Quotes
  <2>2. TsSpans(s, c, n, p) = Onward("block", r.began, r.row, r.col, c, n, p)
    <3> HIDE DEF s, p
    <3> QED BY <1>6, <2>1
  <2>3. r.began # None
    BY <1>10 DEF Sound, Inside, InComment
  <2>4. CASE c = "*"
    <3>1. after = "star" /\ ~ends /\ ~opens
      BY <1>10, <2>4 DEF PlainAfter, Inside, InComment, InString, InTemplate, Quotes
    <3>2. SpansOf(q, n, strings) =
            IF n = "/" THEN Scan("code", None, r.row, r.col + 2, Yes, Span(r.began, Here(r.row, r.col + 2)))
            ELSE Scan("block", r.began, r.row, r.col + 1, No, None)
      BY <1>1, <1>7, <2>4, <3>1 DEF SpansOf, RowPast, ColPast
    <3>3. Onward("block", r.began, r.row, r.col, c, n, p) = SpansOf(q, n, strings)
      BY <2>3, <2>4, <3>2 DEF Onward, Shut, RowPast, ColPast
    <3> QED BY <2>2, <3>3 DEF q
  <2>5. CASE c # "*"
    <3>1. after = "block" /\ ~ends /\ ~opens
      BY <1>10, <2>5 DEF PlainAfter, Inside, InComment, InString, InTemplate, Quotes
    <3>2. SpansOf(q, n, strings) = Scan("block", r.began, nrow, ncol, No, None)
      BY <1>1, <3>1 DEF SpansOf, Quotes
    <3>3. Onward("block", r.began, r.row, r.col, c, n, p) = SpansOf(q, n, strings)
      BY <2>5, <3>2 DEF Onward
    <3> QED BY <2>2, <3>3 DEF q
  <2> QED BY <2>4, <2>5
<1>11. CASE r.mode \in Quotes
  <2>1. s = Scan(r.mode, from, r.row, r.col, No, last)
    BY <1>11 DEF SpansOf, Quotes
  <2>2. TsSpans(s, c, n, p) = Onward(r.mode, from, r.row, r.col, c, n, p)
    <3>1. r.mode \in {"code", "line", "block", "quote", "tick"}
      BY <1>11 DEF Quotes
    <3> HIDE DEF s, p, from
    <3> QED BY <1>6, <2>1, <3>1
  <2>3. /\ r.began # None /\ r.mode \notin InComment /\ Inside(r.mode)
        /\ r.mode \notin {"code", "line", "block", "escape", "newline"}
    BY <1>11 DEF Sound, Inside, InComment, InString, InTemplate, Quotes
  <2>4. CASE c = "escape"
    <3>1. /\ after = IF r.mode = "quote" THEN "quote escape" ELSE "tick escape"
          /\ ~ends /\ ~opens
      BY <1>11, <2>4 DEF PlainAfter, Inside, InComment, InString, InTemplate, Quotes
    <3>2. SpansOf(q, n, strings) = Scan(r.mode, from, r.row, r.col + 2, Yes, None)
      <4>1. nrow = r.row /\ ncol = r.col + 1
        BY <2>4 DEF RowPast, ColPast
      <4>2. q.row = nrow /\ q.col = ncol /\ q.began = r.began
        BY <1>1, <3>1
      <4> HIDE DEF nrow, ncol
      <4>3. q.row = r.row /\ q.col + 1 = r.col + 2 /\ q.began = r.began
        BY <1>7, <4>1, <4>2
      <4>4. r.mode = "quote" => q.mode = "quote escape"
        BY <1>1, <3>1
      <4>5. r.mode = "tick" => q.mode = "tick escape"
        BY <1>1, <3>1
      <4> QED BY <1>11, <4>3, <4>4, <4>5 DEF SpansOf, Quotes
    <3>3. Onward(r.mode, from, r.row, r.col, c, n, p) = SpansOf(q, n, strings)
      BY <2>3, <2>4, <3>2 DEF Onward
    <3> QED BY <2>2, <3>3 DEF q
  <2>5. CASE c = r.mode \/ (c = "newline" /\ r.mode = "quote")
    <3>1. after = "code" /\ ends
      BY <1>11, <2>5 DEF PlainAfter, Inside, InComment, InString, InTemplate, Quotes
    <3> DEFINE to == IF c = "newline" THEN here ELSE Here(r.row, r.col + 1)
    <3>2. SpansOf(q, n, strings) = Scan("code", None, nrow, ncol, No, IF strings THEN Span(r.began, to) ELSE None)
      BY <1>1, <2>3, <3>1 DEF SpansOf, RowPast, ColPast
    <3>3. Onward(r.mode, from, r.row, r.col, c, n, p) = SpansOf(q, n, strings)
      BY <2>3, <2>5, <3>2 DEF Onward, Shut, RowPast, ColPast
    <3> QED BY <2>2, <3>3 DEF q
  <2>6. CASE c # "escape" /\ c # r.mode /\ ~(c = "newline" /\ r.mode = "quote")
    <3>1. after = r.mode /\ ~ends /\ ~opens
      BY <1>11, <2>6 DEF PlainAfter, Inside, InComment, InString, InTemplate, Quotes
    <3>2. SpansOf(q, n, strings) = Scan(r.mode, from, nrow, ncol, No, None)
      BY <1>1, <1>11, <2>3, <3>1 DEF SpansOf, Quotes
    <3>3. Onward(r.mode, from, r.row, r.col, c, n, p) = SpansOf(q, n, strings)
      BY <2>3, <2>6, <3>2 DEF Onward
    <3> QED BY <2>2, <3>3 DEF q
  <2> QED BY <2>4, <2>5, <2>6
<1> QED BY <1>3, <1>4, <1>5, <1>8, <1>9, <1>10, <1>11 DEF Sound, Modes, Escapes, Quotes

-----------------------------------------------------------------------------
(***************************************************************************)
(* The scanners that give up.                                              *)
(***************************************************************************)

\* What the scanners that give up do with a character they look at.
StrictStep(t, c, n) == IF Skips(t, c, n) THEN StrictSkip(t, c, n) ELSE Advance(t, c)

\* Before it gives up, a scanner that may do so goes where _ts_spans goes that
\* records no strings.
LEMMA StrictGoes ==
    ASSUME NEW m \in {"code", "line", "block", "quote", "tick"}, NEW st, NEW row, NEW col, NEW l,
           NEW c \in Chars, NEW n,
           m \in {"code", "quote", "tick"} => st = None
    PROVE  LET s == Scan(m, st, row, col, No, l)
               t == Scan(m, st, row, col, No, None)
           IN ~Cut(t, c, n) => TsSpans(s, c, n, Yes) = StrictStep(t, c, n)
<1> DEFINE s == Scan(m, st, row, col, No, l)
           t == Scan(m, st, row, col, No, None)
           here == Here(row, col)
           nrow == RowPast(row, c)
           ncol == ColPast(col, c)
           on   == Scan(m, st, nrow, ncol, No, None)
<1> HIDE DEF nrow, ncol
<1>1. s.mode = m /\ s.row = row /\ s.col = col /\ s.skip = FALSE /\ [s EXCEPT !.last = None] = t
  <2>1. s.mode = m /\ s.row = row /\ s.col = col /\ s.skip = No
    BY ScanFields
  <2>2. [s EXCEPT !.last = None] = t
    BY SetLast
  <2> HIDE DEF s, t
  <2> QED BY <2>1, <2>2 DEF No
<1>2. t.mode = m /\ t.row = row /\ t.col = col
  BY ScanFields
<1>3. Advance(t, c) = on
  BY Advances DEF nrow, ncol
<1>4. Enter(on, c, None) = Scan(c, None, nrow, ncol, No, None)
  BY Enters
<1>5. [on EXCEPT !.mode = c] = Scan(c, st, nrow, ncol, No, None)
  BY SetMode
<1>6. [on EXCEPT !.mode = "code"] = Scan("code", st, nrow, ncol, No, None)
  BY SetMode
<1>7. Leave(on) = Scan("code", None, nrow, ncol, No, IF st = None THEN None ELSE Span(st, Here(nrow, ncol)))
  BY Leaves
<1> HIDE DEF s, t, on
<1>8. SUFFICES ASSUME ~Cut(t, c, n)
               PROVE  TsSpans(s, c, n, TRUE) = IF Skips(t, c, n) THEN StrictSkip(t, c, n) ELSE Advance(t, c)
  BY DEF s, t, Yes, StrictStep
<1>9. CASE m \in {"line", "block"}
  <2>1. TsSpans(s, c, n, TRUE) = InTsComment(t, c, n)
    BY <1>1, <1>9 DEF TsSpans, Quotes
  <2>2. StrictSkip(t, c, n) = InTsComment(t, c, n) /\ Skips(t, c, n)
    BY <1>2, <1>9 DEF StrictSkip, Skips, InTsComment, Quotes
  <2> QED BY <2>1, <2>2
<1>10. CASE m \in Quotes
  <2>1. TsSpans(s, c, n, TRUE) = InTsString(t, c)
    BY <1>1, <1>10 DEF TsSpans, Quotes
  <2>2. StrictSkip(t, c, n) = InStrictString(t, c) /\ Skips(t, c, n)
    BY <1>2, <1>10 DEF StrictSkip, Skips, Quotes
  <2>3. c = "newline" => m = "tick"
    BY <1>2, <1>8, <1>10 DEF Cut, Quotes
  <2>4. CASE c = m
    <3>1. InTsString(t, c) = Leave(on) /\ InStrictString(t, c) = [on EXCEPT !.mode = "code"]
      BY <1>2, <1>3, <1>10, <2>4 DEF InTsString, InStrictString, Quotes
    <3>2. st = None
      BY <1>10 DEF Quotes
    <3> QED BY <1>6, <1>7, <2>1, <2>2, <3>1, <3>2
  <2>5. CASE c # m
    BY <1>2, <2>1, <2>2, <2>3, <2>5 DEF InTsString, InStrictString
  <2> QED BY <2>4, <2>5
<1>11. CASE m = "code"
  <2>1. st = None
    BY <1>11
  <2>2. CASE c = "/" /\ n \in {"/", "*"}
    BY <1>1, <1>2, <1>11, <2>2 DEF TsSpans, Skips, StrictSkip, Quotes
  <2>3. CASE c \in Quotes
    <3>1. TsSpans(s, c, n, TRUE) = Enter(on, c, None)
      BY <1>1, <1>3, <1>11, <2>3 DEF TsSpans, Quotes
    <3>2. StrictSkip(t, c, n) = [on EXCEPT !.mode = c] /\ Skips(t, c, n)
      BY <1>2, <1>3, <1>11, <2>3 DEF StrictSkip, Skips, Quotes
    <3> QED BY <1>4, <1>5, <2>1, <3>1, <3>2
  <2>4. CASE c \notin Quotes /\ ~(c = "/" /\ n \in {"/", "*"})
    BY <1>1, <1>2, <1>11, <2>4 DEF TsSpans, Skips, Quotes
  <2> QED BY <2>2, <2>3, <2>4
<1> QED BY <1>9, <1>10, <1>11 DEF Quotes

\* What the scanner holds that records no strings, where it looks at c: its
\* mode is the reference's, but for what two characters make.
LEMMA ProseAt ==
    ASSUME NEW r, Sound(r), NEW c \in Chars
    PROVE  LET s == SpansOf(r, c, No) IN
           /\ s.row = r.row
           /\ s.skip = (r.mode \in Escapes \/ (r.mode = "slash" /\ c \in {"/", "*"}) \/ (r.mode = "star" /\ c = "/"))
           /\ s = Scan(s.mode, s.start, s.row, s.col, s.skip, s.last)
           /\ ~s.skip =>
                 /\ s.mode \in {"code", "line", "block", "quote", "tick"}
                 /\ s.mode \in {"code", "quote", "tick"} => s.start = None
                 /\ s.mode = "code" <=> ~Inside(r.mode)
                 /\ \A m \in Quotes : s.mode = m <=> r.mode = m
<1> DEFINE s == SpansOf(r, c, No)
           here == Here(r.row, r.col)
           past == Scan("code", None, r.row, r.col + 1, Yes, Span(r.began, Here(r.row, r.col + 1)))
           last == IF r.kind = "comment" THEN r.last ELSE None
<1>1. \A m, st, row, col, k, l :
         LET z == Scan(m, st, row, col, k, l) IN
           z.mode = m /\ z.start = st /\ z.row = row /\ z.col = col /\ z.skip = k /\ z.last = l
  BY ScanFields
<1>2. CASE r.mode \in Escapes \/ (r.mode = "slash" /\ c \in {"/", "*"}) \/ (r.mode = "star" /\ c = "/")
  <2>1. \E m, st, col, l : s = Scan(m, st, r.row, col, Yes, l)
    <3>1. CASE r.mode = "slash" /\ c = "/"
      BY <3>1 DEF SpansOf, No
    <3>2. CASE r.mode = "slash" /\ c = "*"
      BY <3>2 DEF SpansOf, No
    <3>3. CASE r.mode = "star" /\ c = "/"
      BY <3>3 DEF SpansOf, No
    <3>4. CASE r.mode = "quote escape"
      BY <3>4 DEF SpansOf, No
    <3>5. CASE r.mode = "tick escape"
      BY <3>5 DEF SpansOf, No
    <3> QED BY <1>2, <3>1, <3>2, <3>3, <3>4, <3>5 DEF Escapes
  <2> HIDE DEF s
  <2>2. s.row = r.row /\ s.skip = Yes /\ s = Scan(s.mode, s.start, s.row, s.col, s.skip, s.last)
    BY <1>1, <2>1
  <2> QED BY <1>2, <2>2 DEF s, Yes
<1>3. CASE ~(r.mode \in Escapes \/ (r.mode = "slash" /\ c \in {"/", "*"}) \/ (r.mode = "star" /\ c = "/"))
  <2> DEFINE mode == IF r.mode = "slash" THEN "code" ELSE IF r.mode = "star" THEN "block" ELSE r.mode
             start == IF mode \in {"code", "quote", "tick"} THEN None ELSE r.began
  <2>1. /\ mode \in {"code", "line", "block", "quote", "tick"}
        /\ mode = "code" <=> ~Inside(r.mode)
        /\ \A m \in Quotes : mode = m <=> r.mode = m
    BY <1>3 DEF Sound, Modes, Escapes, Inside, InComment, InString, InTemplate, Quotes
  <2>2. s = Scan(mode, start, r.row, r.col, No, last)
    <3>1. CASE r.mode = "slash"
      BY <1>3, <3>1 DEF SpansOf, No
    <3>2. CASE r.mode = "star"
      BY <1>3, <3>2 DEF SpansOf, No
    <3>3. CASE r.mode = "code"
      BY <3>3 DEF SpansOf, No
    <3>4. CASE r.mode \in {"line", "block", "quote", "tick"}
      BY <3>4 DEF SpansOf, Quotes, No
    <3> QED BY <1>3, <3>1, <3>2, <3>3, <3>4 DEF Sound, Modes, Escapes
  <2>3. start = None \/ mode \notin {"code", "quote", "tick"}
    OBVIOUS
  <2> HIDE DEF s, mode, start, last
  <2>4. s.mode = mode /\ s.start = start /\ s.row = r.row /\ s.col = r.col /\ s.skip = No /\ s.last = last
    BY <1>1, <2>2
  <2> QED BY <1>3, <2>1, <2>2, <2>3, <2>4 DEF s, No
<1> QED BY <1>2, <1>3

\* The line cuts a string at c, or the text ends in an escape after it.
CutAt(r, c, n) == (r.mode = "quote" /\ c = "newline") \/ (n = "end" /\ PlainLook(r, c).mode \in Escapes)

\* The scanner that records no strings, one character on, told by the steps of
\* the scanners that give up; and when they do.
LEMMA StrictFollows ==
    ASSUME NEW r, Sound(r), NEW c \in Chars, NEW n, ~(c = "newline" /\ r.mode \in Escapes)
    PROVE  LET s == SpansOf(r, c, No)
               t == [s EXCEPT !.last = None]
               z == SpansOf(PlainLook(r, c), n, No)
           IN /\ t.row = r.row /\ t.skip = s.skip
              /\ s.skip =>
                    /\ [s EXCEPT !.skip = No] = z
                    /\ r.mode \notin Quotes /\ (Inside(r.mode) \/ c \in {"/", "*"})
              /\ ~s.skip =>
                    /\ Cut(t, c, n) <=> CutAt(r, c, n)
                    /\ Skips(t, c, n) <=> Inside(r.mode) \/ c \in Quotes \/ (c = "/" /\ n \in {"/", "*"})
                    /\ ~Cut(t, c, n) => z = StrictStep(t, c, n)
<1> DEFINE q == PlainLook(r, c)
           s == SpansOf(r, c, No)
           t == [s EXCEPT !.last = None]
           z == SpansOf(q, n, No)
<1>1. TsSpans(s, c, n, TRUE) = z
  <2>1. TsSpans(SpansOf(r, c, No), c, n, ~No) = SpansOf(PlainLook(r, c), n, No)
    <3>1. No \in BOOLEAN
      BY DEF No
    <3> HIDE DEF No
    <3> QED BY <3>1, SpansFollow
  <2> QED BY <2>1 DEF No
<1>2. /\ s.row = r.row
      /\ s.skip = (r.mode \in Escapes \/ (r.mode = "slash" /\ c \in {"/", "*"}) \/ (r.mode = "star" /\ c = "/"))
      /\ s = Scan(s.mode, s.start, s.row, s.col, s.skip, s.last)
      /\ ~s.skip =>
            /\ s.mode \in {"code", "line", "block", "quote", "tick"}
            /\ s.mode \in {"code", "quote", "tick"} => s.start = None
            /\ s.mode = "code" <=> ~Inside(r.mode)
            /\ \A m \in Quotes : s.mode = m <=> r.mode = m
  BY ProseAt
<1>3. q.mode \in Escapes <=> r.mode \in Quotes /\ c = "escape"
  BY Escaped
<1> HIDE DEF q, s, z
<1>4. t = Scan(s.mode, s.start, s.row, s.col, s.skip, None)
  BY <1>2, SetLast
<1>5. t.mode = s.mode /\ t.row = s.row /\ t.skip = s.skip
  <2> HIDE DEF t
  <2> QED BY <1>4, ScanFields
<1>6. CASE s.skip
  <2>1. TsSpans(s, c, n, TRUE) = [s EXCEPT !.skip = FALSE]
    BY <1>6 DEF TsSpans
  <2>2. r.mode \notin Quotes /\ (Inside(r.mode) \/ c \in {"/", "*"})
    BY <1>2, <1>6 DEF Quotes, Escapes, Inside, InComment, InString, InTemplate
  <2> QED BY <1>1, <1>2, <1>5, <1>6, <2>1, <2>2 DEF q, s, z, No
<1>7. CASE ~s.skip
  <2>1. s.skip = No
    BY <1>2, <1>7 DEF No
  <2>2. \A m \in Quotes : s.mode = m <=> r.mode = m
    BY <1>2, <1>7
  <2>3. Cut(t, c, n) <=> r.mode \in Quotes /\ ((c = "newline" /\ r.mode # "tick") \/ (c = "escape" /\ n = "end"))
    <3> HIDE DEF t
    <3> QED BY <1>5, <2>2 DEF Cut, Quotes
  <2>4. Skips(t, c, n) <=> Inside(r.mode) \/ c \in Quotes \/ (c = "/" /\ n \in {"/", "*"})
    <3> HIDE DEF t
    <3> QED BY <1>2, <1>5, <1>7 DEF Skips
  <2>5. ~Cut(t, c, n) => z = StrictStep(t, c, n)
    <3> DEFINE m == s.mode
               st == s.start
               row == s.row
               col == s.col
               l == s.last
    <3>1. s = Scan(m, st, row, col, No, l)
      BY <1>2, <2>1
    <3>2. m \in {"code", "line", "block", "quote", "tick"} /\ (m \in {"code", "quote", "tick"} => st = None)
      BY <1>2, <1>7
    <3> HIDE DEF m, st, row, col, l
    <3> DEFINE u == Scan(m, st, row, col, No, l)
               v == Scan(m, st, row, col, No, None)
    <3>3. ~Cut(v, c, n) => TsSpans(u, c, n, Yes) = StrictStep(v, c, n)
      BY <3>2, StrictGoes
    <3>4. u = s /\ v = t
      BY <1>4, <2>1, <3>1 DEF m, st, row, col
    <3> HIDE DEF t, u, v
    <3> QED BY <1>1, <3>3, <3>4 DEF Yes
  <2>6. Cut(t, c, n) <=> CutAt(r, c, n)
    BY <1>3, <2>3 DEF CutAt, Quotes, q
  <2> QED BY <1>2, <1>5, <1>7, <2>4, <2>5, <2>6 DEF q, s, z
<1> QED BY <1>6, <1>7

\* The fields of a scanner that has not given up.
LEMMA StrictFields ==
    ASSUME NEW scan, NEW stack, NEW crossed
    PROVE  LET s == Strictly(scan, stack, crossed) IN
             s.scan = scan /\ s.failed = No /\ s.stack = stack /\ s.crossed = crossed
BY DEF Strictly

\* The same with another scanner of spans in it.
LEMMA SetScan ==
    ASSUME NEW scan, NEW stack, NEW crossed, NEW x
    PROVE  [Strictly(scan, stack, crossed) EXCEPT !.scan = x] = Strictly(x, stack, crossed)
<1> DEFINE s == Strictly(scan, stack, crossed)
<1>1. s = [scan |-> scan, failed |-> No, stack |-> stack, crossed |-> crossed]
  BY DEF Strictly
<1> HIDE DEF s
<1>2. [s EXCEPT !.scan = x] = Strictly(x, stack, crossed)
  BY <1>1 DEF Strictly
<1> QED BY <1>2 DEF s

\* The same with other brackets open.
LEMMA SetStack ==
    ASSUME NEW scan, NEW stack, NEW crossed, NEW x
    PROVE  [Strictly(scan, stack, crossed) EXCEPT !.stack = x] = Strictly(scan, x, crossed)
<1> DEFINE s == Strictly(scan, stack, crossed)
<1>1. s = [scan |-> scan, failed |-> No, stack |-> stack, crossed |-> crossed]
  BY DEF Strictly
<1> HIDE DEF s
<1>2. [s EXCEPT !.stack = x] = Strictly(scan, x, crossed)
  BY <1>1 DEF Strictly
<1> QED BY <1>2 DEF s

\* The same with other lines marked.
LEMMA SetCrossed ==
    ASSUME NEW scan, NEW stack, NEW crossed, NEW x
    PROVE  [Strictly(scan, stack, crossed) EXCEPT !.crossed = x] = Strictly(scan, stack, x)
<1> DEFINE s == Strictly(scan, stack, crossed)
<1>1. s = [scan |-> scan, failed |-> No, stack |-> stack, crossed |-> crossed]
  BY DEF Strictly
<1> HIDE DEF s
<1>2. [s EXCEPT !.crossed = x] = Strictly(scan, stack, x)
  BY <1>1 DEF Strictly
<1> QED BY <1>2 DEF s

\* _ts_comment_spans gives up exactly there, and otherwise goes on with the reference.
LEMMA CommentsFollow ==
    ASSUME NEW r, Sound(r), NEW c \in Chars, NEW n, ~(c = "newline" /\ r.mode \in Escapes),
           NEW stack, NEW crossed
    PROVE  TsCommentSpans(StrictOf(r, c, stack, crossed), c, n) =
             IF CutAt(r, c, n) THEN GiveUp ELSE StrictOf(PlainLook(r, c), n, stack, crossed)
<1> DEFINE s == SpansOf(r, c, No)
           t == [s EXCEPT !.last = None]
           z == SpansOf(PlainLook(r, c), n, No)
           k == StrictOf(r, c, stack, crossed)
           after == StrictOf(PlainLook(r, c), n, stack, crossed)
<1>1. /\ t.row = r.row /\ t.skip = s.skip
      /\ s.skip => [s EXCEPT !.skip = No] = z /\ r.mode \notin Quotes
      /\ ~s.skip => /\ Cut(t, c, n) <=> CutAt(r, c, n)
                    /\ ~Cut(t, c, n) => z = StrictStep(t, c, n)
  BY StrictFollows
<1>2. PlainLook(r, c).mode \in Escapes => r.mode \in Quotes
  BY Escaped
<1> HIDE DEF s, z
<1>3. k.scan = s /\ k.failed = FALSE /\ [k EXCEPT !.scan = z] = after
  <2>1. k = Strictly(s, stack, crossed) /\ after = Strictly(z, stack, crossed)
    BY DEF StrictOf, s, z
  <2> HIDE DEF k, after
  <2>2. k.scan = s /\ k.failed = No
    BY <2>1, StrictFields
  <2>3. [k EXCEPT !.scan = z] = after
    BY <2>1, SetScan
  <2> QED BY <2>2, <2>3 DEF No
<1> HIDE DEF k, after
<1>4. CASE s.skip
  <2>1. TsCommentSpans(k, c, n) = [k EXCEPT !.scan = z]
    BY <1>1, <1>3, <1>4 DEF TsCommentSpans, No
  <2>2. ~CutAt(r, c, n)
    BY <1>1, <1>2, <1>4 DEF CutAt, Quotes
  <2> QED BY <1>3, <2>1, <2>2 DEF k, after
<1>5. CASE ~s.skip /\ Cut(t, c, n)
  BY <1>1, <1>3, <1>5 DEF TsCommentSpans, k
<1>6. CASE ~s.skip /\ ~Cut(t, c, n)
  <2>1. TsCommentSpans(k, c, n) = [k EXCEPT !.scan = StrictStep(t, c, n)]
    BY <1>1, <1>3, <1>6 DEF TsCommentSpans, StrictStep
  <2> QED BY <1>1, <1>3, <1>6, <2>1 DEF k, after
<1> QED BY <1>4, <1>5, <1>6

\* _ts_cross_line_bracket_lines gives up there and at a bracket that closes
\* what is not open; otherwise its stack and its lines are the reference's.
LEMMA BracketsFollow ==
    ASSUME NEW r, Sound(r), NEW c \in Chars, NEW n, ~(c = "newline" /\ r.mode \in Escapes),
           r.wrong = FALSE
    PROVE  LET q == PlainLook(r, c) IN
           TsBracketLines(StrictOf(r, c, r.stack, r.pairs), c, n) =
             IF CutAt(r, c, n) \/ q.wrong THEN GiveUp ELSE StrictOf(q, n, q.stack, q.pairs)
<1> DEFINE q == PlainLook(r, c)
           s == SpansOf(r, c, No)
           t == [s EXCEPT !.last = None]
           z == SpansOf(q, n, No)
           k == StrictOf(r, c, r.stack, r.pairs)
           after == PlainAfter(r.mode, c)
           code  == ~Inside(r.mode) /\ ~(~Inside(r.mode) /\ Inside(after))
           close == code /\ c = ")" /\ r.stack # <<>>
<1>1. /\ t.row = r.row /\ t.skip = s.skip
      /\ s.skip => [s EXCEPT !.skip = No] = z /\ r.mode \notin Quotes /\ (Inside(r.mode) \/ c \in {"/", "*"})
      /\ ~s.skip => /\ Cut(t, c, n) <=> CutAt(r, c, n)
                    /\ Skips(t, c, n) <=> Inside(r.mode) \/ c \in Quotes \/ (c = "/" /\ n \in {"/", "*"})
                    /\ ~Cut(t, c, n) => z = StrictStep(t, c, n)
  BY StrictFollows
<1>2. PlainLook(r, c).mode \in Escapes => r.mode \in Quotes
  BY Escaped
<1>3. /\ q.wrong = (r.wrong \/ (code /\ (c = "]" \/ (c = ")" /\ r.stack = <<>>))))
      /\ q.stack = IF code /\ c = "(" THEN <<r.row>> \o r.stack
                   ELSE IF close THEN Tail(r.stack) ELSE r.stack
      /\ q.pairs = IF close /\ Head(r.stack) < r.row
                      THEN r.pairs \cup {Head(r.stack), r.row} ELSE r.pairs
  BY LookedAt
<1>4. c \in {"(", ")", "]"} => (code <=> ~Inside(r.mode))
  BY DEF PlainAfter, Inside, InComment, InString, InTemplate, Sound, Modes, Quotes
<1> DEFINE on == Strictly(z, r.stack, r.pairs)
<1> HIDE DEF s, z
<1>5. k.scan = s /\ k.failed = FALSE /\ [k EXCEPT !.scan = z] = on
  <2>1. k = Strictly(s, r.stack, r.pairs)
    BY DEF StrictOf, s
  <2> HIDE DEF k
  <2>2. k.scan = s /\ k.failed = No
    BY <2>1, StrictFields
  <2>3. [k EXCEPT !.scan = z] = on
    BY <2>1, SetScan
  <2> QED BY <2>2, <2>3 DEF No
<1>6. /\ on.stack = r.stack /\ on.crossed = r.pairs
      /\ \A x : [on EXCEPT !.stack = x] = Strictly(z, x, r.pairs)
  <2>1. on.stack = r.stack /\ on.crossed = r.pairs
    BY StrictFields
  <2>2. \A x : [on EXCEPT !.stack = x] = Strictly(z, x, r.pairs)
    BY SetStack
  <2> QED BY <2>1, <2>2
<1>7. \A x : [Strictly(z, Tail(r.stack), r.pairs) EXCEPT !.crossed = x] = Strictly(z, Tail(r.stack), x)
  BY SetCrossed
<1>8. StrictOf(q, n, q.stack, q.pairs) = Strictly(z, q.stack, q.pairs)
  BY DEF StrictOf, z
<1> HIDE DEF q, k, on, code
<1>9. CASE s.skip
  <2>1. TsBracketLines(k, c, n) = on
    BY <1>1, <1>5, <1>9 DEF TsBracketLines, No
  <2>2. ~CutAt(r, c, n)
    BY <1>1, <1>2, <1>9 DEF CutAt, Quotes
  <2>3. q.wrong = FALSE /\ q.stack = r.stack /\ q.pairs = r.pairs
    <3>1. ~code \/ c \notin {"(", ")", "]"}
      BY <1>1, <1>4, <1>9
    <3> QED BY <1>3, <3>1
  <2> QED BY <1>8, <2>1, <2>2, <2>3 DEF k, on, q
<1>10. CASE ~s.skip /\ Cut(t, c, n)
  BY <1>1, <1>5, <1>10 DEF TsBracketLines, k
<1>11. CASE ~s.skip /\ ~Cut(t, c, n)
  <2>1. CASE Skips(t, c, n)
    <3>1. TsBracketLines(k, c, n) = on
      BY <1>1, <1>5, <1>11, <2>1 DEF TsBracketLines, StrictStep
    <3>2. ~code \/ c \notin {"(", ")", "]"}
      BY <1>1, <1>4, <1>11, <2>1 DEF Quotes
    <3>3. q.wrong = FALSE /\ q.stack = r.stack /\ q.pairs = r.pairs
      BY <1>3, <3>2
    <3> QED BY <1>1, <1>8, <1>11, <3>1, <3>3 DEF k, on, q
  <2>2. CASE ~Skips(t, c, n)
    <3>1. ~Inside(r.mode)
      BY <1>1, <1>11, <2>2
    <3>2. [k EXCEPT !.scan = Advance(t, c)] = on
      BY <1>1, <1>5, <1>11, <2>2 DEF StrictStep
    <3>3. CASE c = "("
      <4>1. TsBracketLines(k, c, n) = [on EXCEPT !.stack = <<r.row>> \o r.stack]
        BY <1>1, <1>5, <1>6, <1>11, <2>2, <3>2, <3>3 DEF TsBracketLines
      <4>2. q.wrong = FALSE /\ q.stack = <<r.row>> \o r.stack /\ q.pairs = r.pairs
        BY <1>3, <1>4, <3>1, <3>3
      <4> QED BY <1>1, <1>6, <1>8, <1>11, <4>1, <4>2 DEF k, q
    <3>4. CASE c \in Closers
      <4>1. TsBracketLines(k, c, n) = CloseBracket(on, c, r.row)
        BY <1>1, <1>5, <1>11, <2>2, <3>2, <3>4 DEF TsBracketLines, Closers
      <4>2. CASE r.stack = <<>> \/ c # ")"
        <5>1. q.wrong = TRUE
          BY <1>3, <1>4, <3>1, <3>4, <4>2 DEF Closers
        <5> QED BY <1>6, <4>1, <4>2, <5>1 DEF CloseBracket, k, q
      <4>3. CASE r.stack # <<>> /\ c = ")"
        <5> DEFINE x == IF Head(r.stack) < r.row THEN r.pairs \cup {Head(r.stack), r.row} ELSE r.pairs
        <5>1. q.wrong = FALSE /\ q.stack = Tail(r.stack) /\ q.pairs = x
          BY <1>3, <1>4, <3>1, <4>3
        <5>2. CloseBracket(on, c, r.row) = [on EXCEPT !.stack = Tail(r.stack), !.crossed = x]
          BY <1>6, <4>3, Zenon DEF CloseBracket
        <5>3. [on EXCEPT !.stack = Tail(r.stack), !.crossed = x] = Strictly(z, Tail(r.stack), x)
          <6> HIDE DEF x
          <6> QED BY <1>6, <1>7, Zenon
        <5> QED BY <1>1, <1>8, <1>11, <4>1, <5>1, <5>2, <5>3 DEF k, q
      <4> QED BY <4>2, <4>3
    <3>5. CASE c # "(" /\ c \notin Closers
      <4>1. TsBracketLines(k, c, n) = on
        BY <1>1, <1>5, <1>11, <2>2, <3>2, <3>5 DEF TsBracketLines
      <4>2. q.wrong = FALSE /\ q.stack = r.stack /\ q.pairs = r.pairs
        BY <1>3, <3>5 DEF Closers
      <4> QED BY <1>1, <1>8, <1>11, <4>1, <4>2 DEF k, on, q
    <3> QED BY <3>3, <3>4, <3>5
  <2> QED BY <2>1, <2>2
<1> QED BY <1>9, <1>10, <1>11

-----------------------------------------------------------------------------
(***************************************************************************)
(* _ts_string_lines.                                                       *)
(***************************************************************************)

\* A reader of templates with other lines.
LEMMA SetLines ==
    ASSUME NEW in, NEW row, NEW skip, NEW lines, NEW x
    PROVE  [Lines(in, row, skip, lines) EXCEPT !.lines = x] = Lines(in, row, skip, x)
<1> DEFINE s == Lines(in, row, skip, lines)
<1>1. s = [in |-> in, row |-> row, skip |-> skip, lines |-> lines]
  BY DEF Lines
<1> HIDE DEF s
<1>2. [s EXCEPT !.lines = x] = Lines(in, row, skip, x)
  BY <1>1 DEF Lines
<1> QED BY <1>2 DEF s

\* The same, of its mark to skip.
LEMMA SetEscape ==
    ASSUME NEW in, NEW row, NEW skip, NEW lines, NEW x
    PROVE  [Lines(in, row, skip, lines) EXCEPT !.skip = x] = Lines(in, row, x, lines)
<1> DEFINE s == Lines(in, row, skip, lines)
<1>1. s = [in |-> in, row |-> row, skip |-> skip, lines |-> lines]
  BY DEF Lines
<1> HIDE DEF s
<1>2. [s EXCEPT !.skip = x] = Lines(in, row, x, lines)
  BY <1>1 DEF Lines
<1> QED BY <1>2 DEF s

\* The same, of whether it is in a template.
LEMMA SetIn ==
    ASSUME NEW in, NEW row, NEW skip, NEW lines, NEW x
    PROVE  [Lines(in, row, skip, lines) EXCEPT !.in = x] = Lines(x, row, skip, lines)
<1> DEFINE s == Lines(in, row, skip, lines)
<1>1. s = [in |-> in, row |-> row, skip |-> skip, lines |-> lines]
  BY DEF Lines
<1> HIDE DEF s
<1>2. [s EXCEPT !.in = x] = Lines(x, row, skip, lines)
  BY <1>1 DEF Lines
<1> QED BY <1>2 DEF s

\* The same, of its line.
LEMMA SetLine ==
    ASSUME NEW in, NEW row, NEW skip, NEW lines, NEW x
    PROVE  [Lines(in, row, skip, lines) EXCEPT !.row = x] = Lines(in, x, skip, lines)
<1> DEFINE s == Lines(in, row, skip, lines)
<1>1. s = [in |-> in, row |-> row, skip |-> skip, lines |-> lines]
  BY DEF Lines
<1> HIDE DEF s
<1>2. [s EXCEPT !.row = x] = Lines(in, x, skip, lines)
  BY <1>1 DEF Lines
<1> QED BY <1>2 DEF s

\* _ts_string_lines passes over what follows an escape.
LEMMA PastEscape ==
    ASSUME NEW row, NEW lines, NEW c
    PROVE  TsStringLines(Lines(Yes, row, Yes, lines), c) =
             Lines(Yes, RowPast(row, c), No, lines)
<1> DEFINE s == Lines(Yes, row, Yes, lines)
           next == RowPast(row, c)
           t == Lines(Yes, next, Yes, lines)
           more == lines \cup {row}
<1> HIDE DEF next, more
<1>1. /\ s.in = Yes /\ s.row = row /\ s.skip = Yes /\ s.lines = lines /\ t.lines = lines
      /\ [s EXCEPT !.row = IF c = "newline" THEN @ + 1 ELSE @] = t
  <2>1. s.in = Yes /\ s.row = row /\ s.skip = Yes /\ s.lines = lines /\ t.lines = lines
    BY DEF Lines
  <2>2. [s EXCEPT !.row = next] = t
    BY SetLine
  <2>3. next = IF c = "newline" THEN s.row + 1 ELSE s.row
    BY <2>1 DEF next, RowPast
  <2> HIDE DEF s, t
  <2> QED BY <2>1, <2>2, <2>3
<1>2. [t EXCEPT !.skip = No] = Lines(Yes, next, No, lines)
  BY SetEscape
<1> HIDE DEF s, t
<1>3. TsStringLines(s, c) = [t EXCEPT !.skip = No]
  BY <1>1 DEF TsStringLines, No, Yes
<1> QED BY <1>2, <1>3 DEF s, next

\* In a template it marks the line, up to the backtick that ends it.
LEMMA InsideTemplate ==
    ASSUME NEW row, NEW lines, NEW c
    PROVE  TsStringLines(Lines(Yes, row, No, lines), c) =
             IF c = "tick" THEN Lines(No, RowPast(row, c), No, lines \cup {row})
             ELSE IF c = "escape" THEN Lines(Yes, RowPast(row, c), Yes, lines \cup {row})
             ELSE Lines(Yes, RowPast(row, c), No, lines \cup {row})
<1> DEFINE s == Lines(Yes, row, No, lines)
           next == RowPast(row, c)
           t == Lines(Yes, next, No, lines)
           more == lines \cup {row}
<1> HIDE DEF next, more
<1>1. /\ s.in = Yes /\ s.row = row /\ s.skip = No /\ s.lines = lines /\ t.lines = lines
      /\ [s EXCEPT !.row = IF c = "newline" THEN @ + 1 ELSE @] = t
  <2>1. s.in = Yes /\ s.row = row /\ s.skip = No /\ s.lines = lines /\ t.lines = lines
    BY DEF Lines
  <2>2. [s EXCEPT !.row = next] = t
    BY SetLine
  <2>3. next = IF c = "newline" THEN s.row + 1 ELSE s.row
    BY <2>1 DEF next, RowPast
  <2> HIDE DEF s, t
  <2> QED BY <2>1, <2>2, <2>3
<1> DEFINE esc == c = "escape"
           still == c # "tick"
<1> HIDE DEF esc, still
<1>2. [t EXCEPT !.lines = more, !.skip = esc, !.in = still] = Lines(still, next, esc, more)
  <2>1. [t EXCEPT !.lines = more] = Lines(Yes, next, No, more)
    BY SetLines
  <2>2. [Lines(Yes, next, No, more) EXCEPT !.skip = esc] = Lines(Yes, next, esc, more)
    BY SetEscape
  <2>3. [Lines(Yes, next, esc, more) EXCEPT !.in = still] = Lines(still, next, esc, more)
    BY SetIn
  <2> QED BY <2>1, <2>2, <2>3, Zenon
<1> HIDE DEF s, t
<1>3. TsStringLines(s, c) = [t EXCEPT !.lines = more, !.skip = esc, !.in = still]
  BY <1>1 DEF TsStringLines, more, esc, still, No, Yes
<1>4. /\ c = "tick" => still = No /\ esc = No
      /\ c # "tick" => still = Yes
      /\ c = "escape" => esc = Yes
      /\ c # "escape" => esc = No
  BY DEF still, esc, Yes, No
<1> QED BY <1>2, <1>3, <1>4 DEF s, next, more

\* Elsewhere it looks for a backtick.
LEMMA OutOfTemplate ==
    ASSUME NEW row, NEW lines, NEW c
    PROVE  TsStringLines(Lines(No, row, No, lines), c) =
             IF c = "tick" THEN Lines(Yes, row, No, lines \cup {row}) ELSE Lines(No, RowPast(row, c), No, lines)
<1> DEFINE s == Lines(No, row, No, lines)
           next == RowPast(row, c)
           t == Lines(No, next, No, lines)
           more == lines \cup {row}
<1> HIDE DEF next, more
<1>1. /\ s.in = No /\ s.row = row /\ s.skip = No /\ s.lines = lines /\ t.lines = lines
      /\ [s EXCEPT !.row = IF c = "newline" THEN @ + 1 ELSE @] = t
  <2>1. s.in = No /\ s.row = row /\ s.skip = No /\ s.lines = lines /\ t.lines = lines
    BY DEF Lines
  <2>2. [s EXCEPT !.row = next] = t
    BY SetLine
  <2>3. next = IF c = "newline" THEN s.row + 1 ELSE s.row
    BY <2>1 DEF next, RowPast
  <2> HIDE DEF s, t
  <2> QED BY <2>1, <2>2, <2>3
<1>2. [s EXCEPT !.in = Yes, !.lines = more] = Lines(Yes, row, No, more)
  <2>1. [s EXCEPT !.in = Yes] = Lines(Yes, row, No, lines)
    BY SetIn
  <2>2. [Lines(Yes, row, No, lines) EXCEPT !.lines = more] = Lines(Yes, row, No, more)
    BY SetLines
  <2> QED BY <2>1, <2>2, Zenon
<1> HIDE DEF s, t
<1>3. c = "tick" => TsStringLines(s, c) = [s EXCEPT !.in = Yes, !.lines = more]
  BY <1>1 DEF TsStringLines, more, Yes, No
<1>4. c # "tick" => TsStringLines(s, c) = t
  BY <1>1 DEF TsStringLines, No
<1> QED BY <1>2, <1>3, <1>4 DEF s, t, next, more

\* Out of a template it only counts the lines.
LEMMA PastTemplate ==
    ASSUME NEW row, NEW lines, NEW c, c # "tick"
    PROVE  TsStringLines(Lines(No, row, No, lines), c) = Lines(No, RowPast(row, c), No, lines)
<1>1. TsStringLines(Lines(No, row, No, lines), c) =
        IF c = "tick" THEN Lines(Yes, row, No, lines \cup {row}) ELSE Lines(No, RowPast(row, c), No, lines)
  BY OutOfTemplate
<1> QED BY <1>1, Zenon

\* _ts_string_lines goes on with the reference as long as no backtick strays.
LEMMA TemplatesFollow ==
    ASSUME NEW r, Sound(r), NEW c \in Chars,
           PlainLook(r, c).stray = FALSE,
           r.mode = "tick escape" => r.row \in r.templates
    PROVE  LET q == PlainLook(r, c) IN
           /\ TsStringLines(TemplateOf(r), c) = TemplateOf(q)
           /\ q.mode = "tick escape" => q.row \in q.templates
<1> DEFINE q == PlainLook(r, c)
           after == PlainAfter(r.mode, c)
           past == RowPast(r.row, c)
           lines == r.templates
           more == r.templates \cup {r.row}
           z == TsStringLines(TemplateOf(r), c)
<1>1. q.mode = after /\ q.row = past
  BY Looked
<1>2. /\ q.stray = (r.stray \/ (c = "tick" /\ r.mode \in InComment \cup {"quote", "quote escape"}))
      /\ q.templates = IF r.mode \in {"tick", "tick escape"} \/ after = "tick" THEN more ELSE lines
  BY LookedAt
<1>3. c = "escape" \/ c = "tick" => past = r.row
  BY DEF RowPast
<1>4. CASE r.mode = "tick escape"
  <2>1. z = Lines(Yes, past, No, lines)
    BY <1>4, PastEscape DEF TemplateOf
  <2>2. after = "tick" /\ q.templates = lines
    BY <1>2, <1>4 DEF PlainAfter, Quotes
  <2> QED BY <1>1, <2>1, <2>2 DEF TemplateOf
<1>5. CASE r.mode = "tick"
  <2>1. z = IF c = "tick" THEN Lines(No, past, No, more)
            ELSE IF c = "escape" THEN Lines(Yes, past, Yes, more)
            ELSE Lines(Yes, past, No, more)
    BY <1>5, InsideTemplate DEF TemplateOf
  <2>2. after = IF c = "escape" THEN "tick escape" ELSE IF c = "tick" THEN "code" ELSE "tick"
    BY <1>5 DEF PlainAfter, Quotes
  <2>3. q.templates = more
    BY <1>2, <1>5
  <2>4. q.mode = "tick escape" => q.row \in q.templates
    BY <1>1, <1>3, <2>2, <2>3
  <2> QED BY <1>1, <2>1, <2>2, <2>3, <2>4 DEF TemplateOf
<1>6. CASE r.mode \notin {"tick", "tick escape"} /\ c = "tick"
  <2>1. z = Lines(Yes, r.row, No, more)
    BY <1>6, OutOfTemplate DEF TemplateOf
  <2>2. after = "tick"
    <3>1. r.mode \in {"code", "slash"}
      BY <1>2, <1>6 DEF Sound, Modes, InComment
    <3> QED BY <1>6, <3>1 DEF PlainAfter, Quotes
  <2>3. q.templates = more /\ past = r.row
    BY <1>2, <1>3, <1>6, <2>2
  <2> QED BY <1>1, <2>1, <2>2, <2>3 DEF TemplateOf
<1>7. CASE r.mode \notin {"tick", "tick escape"} /\ c # "tick"
  <2>1. z = Lines(No, past, No, lines)
    <3>1. TemplateOf(r) = Lines(No, r.row, No, lines)
      BY <1>7 DEF TemplateOf
    <3>2. TsStringLines(Lines(No, r.row, No, lines), c) = Lines(No, past, No, lines)
      BY <1>7, PastTemplate
    <3> QED BY <3>1, <3>2
  <2>2. after \notin {"tick", "tick escape"}
    BY <1>7 DEF PlainAfter, Sound, Modes, Quotes
  <2>3. q.templates = lines
    BY <1>2, <1>7, <2>2
  <2> QED BY <1>1, <2>1, <2>2, <2>3 DEF TemplateOf
<1> QED BY <1>4, <1>5, <1>6, <1>7

-----------------------------------------------------------------------------
(***************************************************************************)
(* From the reference to the plain one.                                    *)
(***************************************************************************)

AllModes == {"code"} \cup {"slash"} \cup InComment \cup InString \cup InRegex

Brackets == {"("} \cup Closers

\* What a character may be read as, mode by mode.
ReadsAs(mode, c, after) ==
    /\ mode \in {"code", "regex end"} => after = CodeAfter(c)
    /\ mode = "slash" /\ c = "/" => after = "line"
    /\ mode = "slash" /\ c = "*" => after = "block"
    /\ mode = "slash" /\ c \notin {"/", "*"} => after = CodeAfter(c) \/ after = RegexAfter(c, "delimits")
    /\ mode \in {"regex", "regex slash"} => after = RegexAfter(c, "delimits") \/ after = RegexAfter(c, "plain")
    /\ mode = "regex escape" =>
          after = IF c = "/" THEN "regex slash" ELSE IF c = "newline" THEN "code" ELSE "regex"
    /\ mode = "line" => after = IF c = "newline" THEN "code" ELSE "line"
    /\ mode = "block" => after = IF c = "*" THEN "star" ELSE "block"
    /\ mode = "star" => after = IF c = "/" THEN "code" ELSE IF c = "*" THEN "star" ELSE "block"
    /\ mode = "quote" => after = IF c = "escape" THEN "quote escape"
                                ELSE IF c \in {"quote", "newline"} THEN "code" ELSE "quote"
    /\ mode = "quote escape" => after = "quote"
    /\ mode = "tick" => (after = IF c = "escape" THEN "tick escape" ELSE IF c = "tick" THEN "code" ELSE "tick")
                        \/ (after = "subst" /\ c = "x")
    /\ mode = "tick escape" => after = "tick"
    /\ mode = "subst" => (after = IF c = "escape" THEN "subst escape" ELSE "subst")
                         \/ (after = "tick" /\ c = "]")
    /\ mode = "subst escape" => after = "subst"

\* Such is every reading of it.
LEMMA ReadAs ==
    ASSUME NEW mode \in AllModes, NEW c \in Chars, NEW after \in Readings(mode, c)
    PROVE  ReadsAs(mode, c, after)
<1>1. PICK sense \in Senses : after = ModeAfter(mode, c, sense)
  BY DEF Readings
<1>2. sense = "delimits" \/ sense = "plain"
  BY <1>1 DEF Senses
<1>3. CASE sense = "delimits"
  BY <1>1, <1>3 DEF ModeAfter, ReadsAs
<1>4. CASE sense = "plain"
  BY <1>1, <1>4 DEF ModeAfter, ReadsAs
<1> QED BY <1>2, <1>3, <1>4

\* What a character of code may begin.
LEMMA CodeGoes ==
    ASSUME NEW c \in Chars
    PROVE  /\ c = "/" => CodeAfter(c) = "slash"
           /\ c \in Quotes => CodeAfter(c) = c
           /\ c # "/" /\ c \notin Quotes => CodeAfter(c) = "code"
BY DEF CodeAfter, Quotes

\* Where a character of a literal leaves the reference.
LEMMA RegexGoes ==
    ASSUME NEW c \in Chars, NEW sense \in Senses
    PROVE  /\ c = "escape" => RegexAfter(c, sense) = "regex escape"
           /\ c = "newline" => RegexAfter(c, sense) = "code"
           /\ c = "/" => RegexAfter(c, sense) \in {"regex slash", "regex end"}
           /\ c \notin {"escape", "newline", "/"} => RegexAfter(c, sense) = "regex"
BY DEF RegexAfter

\* The plain modes, one by one.
LEMMA PlainModes ==
    /\ Plain("regex") = "code" /\ Plain("regex escape") = "code"
    /\ Plain("regex slash") = "slash" /\ Plain("regex end") = "slash"
    /\ Plain("subst") = "tick" /\ Plain("subst escape") = "tick escape"
    /\ \A m \in Modes : Plain(m) = m
BY DEF Plain, Modes

\* A plain reference in code, or after a slash that may begin a comment.
LEMMA PlainGoes ==
    ASSUME NEW c \in Chars
    PROVE  /\ c = "/" => PlainAfter("code", c) = "slash" /\ PlainAfter("slash", c) = "line"
           /\ c = "*" => PlainAfter("code", c) = "code" /\ PlainAfter("slash", c) = "block"
           /\ c \in Quotes => PlainAfter("code", c) = c /\ PlainAfter("slash", c) = c
           /\ c \notin Quotes \cup {"/", "*"} => PlainAfter("code", c) = "code" /\ PlainAfter("slash", c) = "code"
BY DEF PlainAfter, Quotes

\* Whatever a character is read as, the reference is in one of its modes, and
\* that mode is plainly the one the plain reference is in, if nothing misleads.
LEMMA ReadPlainly ==
    ASSUME NEW mode \in AllModes, NEW c \in Chars, NEW after \in Readings(mode, c)
    PROVE  /\ after \in AllModes
           /\ ~Misleads(mode, c, after) => Plain(after) = PlainAfter(Plain(mode), c)
<1>1. PICK sense \in Senses : after = ModeAfter(mode, c, sense)
  BY DEF Readings
<1>2. after \in AllModes
  BY <1>1 DEF ModeAfter, CodeAfter, RegexAfter, AllModes, InComment, InString, InTemplate, InRegex, Quotes, Chars
<1>3. SUFFICES ASSUME ~Misleads(mode, c, after)  PROVE Plain(after) = PlainAfter(Plain(mode), c)
  BY <1>2
<1>4. "delimits" \in Senses /\ "plain" \in Senses
  BY DEF Senses
<1>5. ReadsAs(mode, c, after)
  BY ReadAs
<1>6. /\ c = "/" => CodeAfter(c) = "slash"
      /\ c \in Quotes => CodeAfter(c) = c
      /\ c # "/" /\ c \notin Quotes => CodeAfter(c) = "code"
  BY CodeGoes
<1>7. \A sense2 \in Senses :
        /\ c = "escape" => RegexAfter(c, sense2) = "regex escape"
        /\ c = "newline" => RegexAfter(c, sense2) = "code"
        /\ c = "/" => RegexAfter(c, sense2) \in {"regex slash", "regex end"}
        /\ c \notin {"escape", "newline", "/"} => RegexAfter(c, sense2) = "regex"
  BY RegexGoes
<1>8. /\ c = "/" => PlainAfter("code", c) = "slash" /\ PlainAfter("slash", c) = "line"
      /\ c = "*" => PlainAfter("code", c) = "code" /\ PlainAfter("slash", c) = "block"
      /\ c \in Quotes => PlainAfter("code", c) = c /\ PlainAfter("slash", c) = c
      /\ c \notin Quotes \cup {"/", "*"} => PlainAfter("code", c) = "code" /\ PlainAfter("slash", c) = "code"
  BY PlainGoes
<1>9. {"code", "slash", "line", "block"} \cup Quotes \subseteq Modes
  BY DEF Modes, Quotes
<1>10. c \in Quotes => after \notin {"regex", "regex slash", "regex end", "regex escape"}
  BY <1>3 DEF Misleads, InRegex
<1>11. CASE mode = "code"
  BY <1>6, <1>8, <1>9, <1>11, <1>5, PlainModes DEF ReadsAs
<1>12. CASE mode = "regex end"
  <2>1. c \notin {"/", "*"}
    BY <1>3, <1>12 DEF Misleads
  <2> QED BY <1>6, <1>8, <1>9, <1>12, <2>1, <1>5, PlainModes DEF ReadsAs
<1>13. CASE mode = "slash"
  <2>1. Plain(mode) = "slash"
    BY <1>9, <1>13, PlainModes
  <2>2. CASE c \in {"/", "*"}
    BY <1>8, <1>9, <1>13, <2>1, <2>2, <1>5, PlainModes DEF ReadsAs
  <2>3. CASE c \notin {"/", "*"} /\ after = CodeAfter(c)
    BY <1>6, <1>8, <1>9, <2>1, <2>3, PlainModes
  <2>4. CASE c \notin {"/", "*"} /\ after = RegexAfter(c, "delimits")
    <3>1. c \notin Quotes
      BY <1>4, <1>7, <1>10, <2>4 DEF Quotes
    <3>2. Plain(after) = "code"
      BY <1>4, <1>7, <1>9, <2>4, PlainModes
    <3> QED BY <1>8, <2>1, <2>4, <3>1, <3>2
  <2> QED BY <1>13, <2>2, <2>3, <2>4, <1>5 DEF ReadsAs
<1>14. CASE mode \in {"regex", "regex slash"}
  <2>1. PICK s2 \in Senses : after = RegexAfter(c, s2)
    BY <1>4, <1>14, <1>5 DEF ReadsAs
  <2>2. c \notin Quotes
    BY <1>7, <1>10, <2>1 DEF Quotes
  <2>3. mode = "regex slash" => c \notin {"/", "*"}
    BY <1>3 DEF Misleads
  <2>4. Plain(after) = IF c = "/" THEN "slash" ELSE "code"
    BY <1>7, <1>9, <2>1, PlainModes
  <2> QED BY <1>8, <1>14, <2>2, <2>3, <2>4, PlainModes
<1>15. CASE mode = "regex escape"
  <2>1. after = IF c = "/" THEN "regex slash" ELSE IF c = "newline" THEN "code" ELSE "regex"
    BY <1>15, <1>5 DEF ReadsAs
  <2>2. c \notin Quotes
    BY <1>10, <2>1 DEF Quotes
  <2>3. Plain(after) = IF c = "/" THEN "slash" ELSE "code"
    BY <1>9, <2>1, PlainModes
  <2> QED BY <1>8, <1>15, <2>2, <2>3, PlainModes
<1>16. CASE mode \in {"line", "block", "star", "quote", "quote escape"}
  <2>1. after = PlainAfter(mode, c)
    BY <1>16, <1>5 DEF ReadsAs, PlainAfter
  <2>2. after \in Modes /\ mode \in Modes
    BY <1>16, <2>1 DEF PlainAfter, Modes
  <2> QED BY <2>1, <2>2, PlainModes
<1>17. CASE mode \in InTemplate
  <2>1. mode \in {"subst", "subst escape"} => c # "tick"
    BY <1>3 DEF Misleads
  <2>2. /\ PlainAfter("tick", c) = IF c = "escape" THEN "tick escape" ELSE IF c = "tick" THEN "code" ELSE "tick"
        /\ PlainAfter("tick escape", c) = "tick"
    BY DEF PlainAfter
  <2>3. {"tick", "tick escape", "code"} \subseteq Modes
    BY DEF Modes
  <2> QED BY <1>17, <2>1, <2>2, <2>3, <1>5, PlainModes DEF ReadsAs, InTemplate
<1> QED BY <1>11, <1>12, <1>13, <1>14, <1>15, <1>16, <1>17
        DEF AllModes, InComment, InString, InRegex

\* A plain mode is inside what the mode is inside.
LEMMA PlainInside ==
    ASSUME NEW mode \in AllModes
    PROVE  /\ Plain(mode) \in Modes
           /\ Inside(Plain(mode)) <=> Inside(mode)
           /\ Plain(mode) \in InComment <=> mode \in InComment
           /\ Plain(mode) \in InTemplate <=> mode \in InTemplate
           /\ Plain(mode) \in InString <=> mode \in InString
           /\ Plain(mode) \in {"tick", "tick escape"} <=> mode \in InTemplate
           /\ Plain(mode) \in Escapes <=> mode \in {"quote escape", "tick escape", "subst escape"}
           /\ \A m \in {"block", "star", "quote", "quote escape"} : Plain(mode) = m <=> mode = m
           /\ Inside(mode) => (Plain(mode) # "code" /\ mode # "code" /\ mode \notin InRegex)
BY DEF AllModes, Modes, Escapes, Plain, Inside, InComment, InString, InTemplate, InRegex

\* A template begins outside of one; it is nowhere entered but by its backtick.
LEMMA TickFrom ==
    ASSUME NEW mode \in AllModes, NEW c \in Chars, NEW after \in Readings(mode, c)
    PROVE  /\ after \in InTemplate /\ mode \notin InTemplate => after = "tick"
           /\ Inside(mode) => after \notin InRegex
           /\ after \in InRegex => ~Inside(mode) /\ ~Inside(after)
           /\ Inside(mode) => (Plain(after) = "code" <=> after = "code")
<1>1. PICK sense \in Senses : after = ModeAfter(mode, c, sense)
  BY DEF Readings
<1>2. after \in InRegex => ~Inside(after)
  BY DEF InRegex, Inside, InComment, InString, InTemplate
<1>3. CASE mode \in {"code", "slash"} \cup InRegex
  BY <1>1, <1>2, <1>3 DEF ModeAfter, CodeAfter, RegexAfter, Inside, InComment, InString, InTemplate, InRegex, Quotes
<1>4. CASE mode \in InComment \cup InString
  BY <1>1, <1>2, <1>4 DEF ModeAfter, CodeAfter, RegexAfter, Inside, Plain, InComment, InString, InTemplate, InRegex, Quotes
<1> QED BY <1>3, <1>4 DEF AllModes

\* The fields of what is found, in plain modes.
LEMMA FlatFields ==
    ASSUME NEW r
    PROVE  LET f == Flat(r) IN
           /\ f.mode = Plain(r.mode) /\ f.row = r.row /\ f.col = r.col /\ f.was = r.was /\ f.began = r.began
           /\ f.last = r.last /\ f.kind = r.kind /\ f.bad = r.bad /\ f.continued = r.continued
           /\ f.stray = r.stray /\ f.templates = r.templates /\ f.wrong = r.wrong /\ f.stack = r.stack
           /\ f.pairs = r.pairs
BY DEF Flat

\* What the reference keeps of a character: where it is, ...
LEMMA LookedHere ==
    ASSUME NEW r, NEW c, NEW after
    PROVE  LET q == Look(r, c, after)
               ends  == Inside(r.mode) /\ after = "code"
               opens == ~Inside(r.mode) /\ Inside(after)
           IN /\ q.mode = after
              /\ q.row = RowPast(r.row, c) /\ q.col = ColPast(r.col, c)
              /\ q.was = Here(r.row, r.col)
              /\ q.began = IF ends THEN None ELSE IF ~opens THEN r.began
                           ELSE IF after \in InComment THEN r.was ELSE Here(r.row, r.col)
              /\ q.last = IF ~ends THEN None ELSE IF c = "newline" THEN Span(r.began, Here(r.row, r.col))
                          ELSE Span(r.began, Here(q.row, q.col))
              /\ q.kind = IF r.mode \in InComment THEN "comment" ELSE "string"
BY Zenon DEF Look, RowPast, ColPast

\* Two that found the same, as far as a scanner of spans is concerned.
Alike(f, g) ==
    /\ f.mode = g.mode /\ f.row = g.row /\ f.col = g.col /\ f.was = g.was /\ f.began = g.began
    /\ f.last = g.last /\ f.kind = g.kind

\* A scanner of spans holds the same for both.
LEMMA AlikeSpans ==
    ASSUME NEW f, NEW g, Alike(f, g), NEW c
    PROVE  /\ \A strings : SpansOf(f, c, strings) = SpansOf(g, c, strings)
           /\ \A stack, crossed : StrictOf(f, c, stack, crossed) = StrictOf(g, c, stack, crossed)
<1>1. \A strings : SpansOf(f, c, strings) = SpansOf(g, c, strings)
  BY DEF Alike, SpansOf
<1> QED BY <1>1 DEF StrictOf

\* A character that does not mislead: the reference and the plain one go on alike.
LEMMA GoOnAlike ==
    ASSUME NEW r, r.mode \in AllModes, NEW c \in Chars, NEW after \in Readings(r.mode, c),
           ~Misleads(r.mode, c, after)
    PROVE  LET f == Flat(Look(r, c, after))
               g == PlainLook(Flat(r), c)
           IN /\ Alike(f, g)
              /\ f.bad = g.bad /\ f.continued = g.continued /\ f.stray = g.stray /\ f.templates = g.templates
              /\ ~(after \in InRegex /\ c \in Brackets) =>
                    f.wrong = g.wrong /\ f.stack = g.stack /\ f.pairs = g.pairs
<1> DEFINE q == Look(r, c, after)
           f == Flat(q)
           p == Flat(r)
           g == PlainLook(p, c)
           pm == Plain(r.mode)
           pa == Plain(after)
<1>1. after \in AllModes /\ pa = PlainAfter(pm, c)
  BY ReadPlainly
<1>2. /\ p.mode = pm /\ p.row = r.row /\ p.col = r.col /\ p.was = r.was /\ p.began = r.began
      /\ p.last = r.last /\ p.kind = r.kind /\ p.bad = r.bad /\ p.continued = r.continued
      /\ p.stray = r.stray /\ p.templates = r.templates /\ p.wrong = r.wrong /\ p.stack = r.stack
      /\ p.pairs = r.pairs
  BY FlatFields
<1>3. /\ f.mode = Plain(q.mode) /\ f.row = q.row /\ f.col = q.col /\ f.was = q.was /\ f.began = q.began
      /\ f.last = q.last /\ f.kind = q.kind /\ f.bad = q.bad /\ f.continued = q.continued
      /\ f.stray = q.stray /\ f.templates = q.templates /\ f.wrong = q.wrong /\ f.stack = q.stack
      /\ f.pairs = q.pairs
  BY FlatFields
<1>4. /\ Inside(pm) <=> Inside(r.mode)
      /\ pm \in InComment <=> r.mode \in InComment
      /\ pm \in {"tick", "tick escape"} <=> r.mode \in InTemplate
      /\ pm \in Escapes <=> r.mode \in {"quote escape", "tick escape", "subst escape"}
      /\ pm = "quote" <=> r.mode = "quote"
      /\ pm = "quote escape" <=> r.mode = "quote escape"
  BY PlainInside
<1>5. /\ Inside(pa) <=> Inside(after)
      /\ pa \in InComment <=> after \in InComment
      /\ pa \in {"tick", "tick escape"} <=> after \in InTemplate
  BY <1>1, PlainInside
<1>6. /\ after \in InTemplate /\ r.mode \notin InTemplate => after = "tick"
      /\ Inside(r.mode) => (pa = "code" <=> after = "code")
  BY TickFrom
<1>7. pa = "tick" \/ r.mode \in InTemplate <=> after = "tick" \/ r.mode \in InTemplate
  <2>1. pa = "tick" => after \in InTemplate
    BY <1>5
  <2>2. after = "tick" => pa = "tick"
    BY DEF Plain
  <2> QED BY <1>6, <2>1, <2>2
<1>8. Alike(f, g)
  <2>1. /\ g.mode = pa /\ g.row = RowPast(r.row, c) /\ g.col = ColPast(r.col, c) /\ g.was = Here(r.row, r.col)
        /\ g.began = IF Inside(pm) /\ pa = "code" THEN None
                      ELSE IF ~(~Inside(pm) /\ Inside(pa)) THEN r.began
                      ELSE IF pa \in InComment THEN r.was ELSE Here(r.row, r.col)
        /\ g.last = IF ~(Inside(pm) /\ pa = "code") THEN None
                     ELSE IF c = "newline" THEN Span(r.began, Here(r.row, r.col))
                     ELSE Span(r.began, Here(g.row, g.col))
        /\ g.kind = IF pm \in InComment THEN "comment" ELSE "string"
    <3> HIDE DEF p, pa, pm
    <3> QED BY <1>1, <1>2, Looked
  <2>2. /\ q.mode = after
        /\ q.row = RowPast(r.row, c) /\ q.col = ColPast(r.col, c)
        /\ q.was = Here(r.row, r.col)
        /\ q.began = IF Inside(r.mode) /\ after = "code" THEN None
                     ELSE IF ~(~Inside(r.mode) /\ Inside(after)) THEN r.began
                     ELSE IF after \in InComment THEN r.was ELSE Here(r.row, r.col)
        /\ q.last = IF ~(Inside(r.mode) /\ after = "code") THEN None
                    ELSE IF c = "newline" THEN Span(r.began, Here(r.row, r.col))
                    ELSE Span(r.began, Here(q.row, q.col))
        /\ q.kind = IF r.mode \in InComment THEN "comment" ELSE "string"
    BY LookedHere
  <2> HIDE DEF f, g, p, q
  <2>3. f.mode = g.mode /\ f.row = g.row /\ f.col = g.col /\ f.was = g.was /\ f.kind = g.kind
    BY <1>3, <1>4, <2>1, <2>2
  <2>4. f.began = g.began
    BY <1>3, <1>4, <1>5, <1>6, <2>1, <2>2
  <2>5. f.last = g.last
    BY <1>3, <1>4, <1>6, <2>1, <2>2
  <2> QED BY <2>3, <2>4, <2>5 DEF Alike
<1>9. f.bad = g.bad /\ f.continued = g.continued /\ f.stray = g.stray /\ f.templates = g.templates
  <2>1. /\ g.bad = (r.bad \/ (pm = "quote" /\ c = "newline"))
        /\ g.continued = (r.continued \/ (c = "newline" /\ pm \in Escapes))
        /\ g.stray = (r.stray \/ (c = "tick" /\ pm \in InComment \cup {"quote", "quote escape"}))
        /\ g.templates = IF pm \in {"tick", "tick escape"} \/ pa = "tick"
                            THEN r.templates \cup {r.row} ELSE r.templates
    <3> DEFINE g2 == PlainLook(p, c)
    <3>1. /\ g2.bad = (p.bad \/ (p.mode = "quote" /\ c = "newline"))
          /\ g2.continued = (p.continued \/ (c = "newline" /\ p.mode \in Escapes))
          /\ g2.stray = (p.stray \/ (c = "tick" /\ p.mode \in InComment \cup {"quote", "quote escape"}))
          /\ g2.templates = IF p.mode \in {"tick", "tick escape"} \/ PlainAfter(p.mode, c) = "tick"
                              THEN p.templates \cup {p.row} ELSE p.templates
      <4> HIDE DEF p
      <4> QED BY LookedAt, Zenon
    <3> HIDE DEF g, p, pa, pm
    <3> QED BY <1>1, <1>2, <3>1 DEF g
  <2>2. /\ q.bad = (r.bad \/ (r.mode = "quote" /\ c = "newline"))
        /\ q.continued = (r.continued \/ (c = "newline" /\ r.mode \in {"quote escape", "tick escape", "subst escape"}))
        /\ q.stray = (r.stray \/ (c = "tick" /\ r.mode \in InComment \cup {"quote", "quote escape"}))
        /\ q.templates = IF r.mode \in InTemplate \/ after = "tick" THEN r.templates \cup {r.row} ELSE r.templates
    BY Zenon DEF Look
  <2> HIDE DEF f, g, p, q, pm, pa
  <2> QED BY <1>3, <1>4, <1>7, <2>1, <2>2
<1>10. ASSUME ~(after \in InRegex /\ c \in Brackets)
       PROVE  f.wrong = g.wrong /\ f.stack = g.stack /\ f.pairs = g.pairs
  <2> DEFINE here == ~Inside(r.mode) /\ ~(~Inside(r.mode) /\ Inside(after))
             code == here /\ after \notin InRegex
  <2>1. /\ g.wrong = (r.wrong \/ (here /\ (c = "]" \/ (c = ")" /\ r.stack = <<>>))))
        /\ g.stack = IF here /\ c = "(" THEN <<r.row>> \o r.stack
                     ELSE IF here /\ c = ")" /\ r.stack # <<>> THEN Tail(r.stack) ELSE r.stack
        /\ g.pairs = IF here /\ c = ")" /\ r.stack # <<>> /\ Head(r.stack) < r.row
                        THEN r.pairs \cup {Head(r.stack), r.row} ELSE r.pairs
    <3> DEFINE plain == ~Inside(pm) /\ ~(~Inside(pm) /\ Inside(pa))
    <3>1. /\ g.wrong = (p.wrong \/ (plain /\ (c = "]" \/ (c = ")" /\ p.stack = <<>>))))
          /\ g.stack = IF plain /\ c = "(" THEN <<p.row>> \o p.stack
                       ELSE IF plain /\ c = ")" /\ p.stack # <<>> THEN Tail(p.stack) ELSE p.stack
          /\ g.pairs = IF plain /\ c = ")" /\ p.stack # <<>> /\ Head(p.stack) < p.row
                          THEN p.pairs \cup {Head(p.stack), p.row} ELSE p.pairs
      <4>1. PlainAfter(p.mode, c) = pa /\ p.mode = pm
        BY <1>1, <1>2
      <4> DEFINE pa2 == PlainAfter(p.mode, c)
                 plain2 == ~Inside(p.mode) /\ ~(~Inside(p.mode) /\ Inside(pa2))
      <4>2. /\ g.wrong = (p.wrong \/ (plain2 /\ (c = "]" \/ (c = ")" /\ p.stack = <<>>))))
            /\ g.stack = IF plain2 /\ c = "(" THEN <<p.row>> \o p.stack
                         ELSE IF plain2 /\ c = ")" /\ p.stack # <<>> THEN Tail(p.stack) ELSE p.stack
            /\ g.pairs = IF plain2 /\ c = ")" /\ p.stack # <<>> /\ Head(p.stack) < p.row
                            THEN p.pairs \cup {Head(p.stack), p.row} ELSE p.pairs
        <5> HIDE DEF p
        <5> QED BY Zenon DEF PlainLook
      <4> HIDE DEF p, pa, pm, g
      <4> QED BY <4>1, <4>2, Zenon
    <3>2. plain <=> here
      BY <1>4, <1>5
    <3> HIDE DEF g, p, plain, here
    <3> QED BY <1>2, <3>1, <3>2
  <2>2. /\ q.wrong = (r.wrong \/ (code /\ (c = "]" \/ (c = ")" /\ r.stack = <<>>))))
        /\ q.stack = IF code /\ c = "(" THEN <<r.row>> \o r.stack
                     ELSE IF code /\ c = ")" /\ r.stack # <<>> THEN Tail(r.stack) ELSE r.stack
        /\ q.pairs = IF code /\ c = ")" /\ r.stack # <<>> /\ Head(r.stack) < r.row
                        THEN r.pairs \cup {Head(r.stack), r.row} ELSE r.pairs
    BY Zenon DEF Look
  <2>3. c \in {"(", ")", "]"} => (code <=> here)
    BY <1>10 DEF Brackets, Closers
  <2> HIDE DEF f, g, q, p, code, here
  <2> QED BY <1>3, <2>1, <2>2, <2>3
<1> QED BY <1>8, <1>9, <1>10

-----------------------------------------------------------------------------
(***************************************************************************)
(* The inductive invariant.                                                *)
(***************************************************************************)

CutShort == ch = "end" /\ seen.mode \in {"quote escape", "tick escape", "subst escape"}

\* The reference has read a text, and stands on its next character.
TextRead ==
    /\ seen.mode \in AllModes
    /\ ch \in Chars \cup {"end"} /\ nxt \in Chars \cup {"end"}
    /\ seen.bad \in BOOLEAN /\ seen.continued \in BOOLEAN
    /\ seen.stray \in BOOLEAN /\ seen.wrong \in BOOLEAN
    /\ seen.misled \in BOOLEAN /\ seen.bracketed \in BOOLEAN
    /\ ch = "end" => nxt = "end"

PlainSound == ~seen.misled => Sound(Flat(seen))

SpansKept ==
    ~seen.continued /\ ~seen.misled =>
       spans = SpansOf(Flat(seen), ch, Yes) /\ prose = SpansOf(Flat(seen), ch, No)

CommentsKept ==
    ~seen.continued /\ ~seen.misled =>
       IF seen.bad \/ CutShort THEN comments = GiveUp
       ELSE comments = StrictOf(Flat(seen), ch, <<>>, {})

BracketsKept ==
    ~seen.continued /\ ~seen.misled /\ ~seen.bracketed =>
       IF seen.bad \/ seen.wrong \/ CutShort THEN brackets = GiveUp
       ELSE brackets = StrictOf(Flat(seen), ch, seen.stack, seen.pairs)

TemplatesKept ==
    ~seen.stray /\ ~seen.misled =>
       /\ templates = TemplateOf(Flat(seen))
       /\ Flat(seen).mode = "tick escape" => seen.row \in seen.templates

ScannersInv == TextRead /\ PlainSound /\ SpansKept /\ CommentsKept /\ BracketsKept /\ TemplatesKept

\* A text is read from its first character on, with every scanner fresh.
LEMMA ScannersStart == Init => ScannersInv
<1> SUFFICES ASSUME Init  PROVE ScannersInv
  OBVIOUS
<1>1. /\ seen = Reference /\ ch \in Chars /\ nxt \in Chars \cup {"end"}
      /\ spans = Fresh /\ prose = Fresh
      /\ comments = Strict /\ brackets = Strict /\ templates = NoTemplate
  BY DEF Init
<1>2. /\ seen.mode = "code" /\ seen.row = 1 /\ seen.col = 0 /\ seen.last = None /\ seen.kind = "code"
      /\ seen.bad = FALSE /\ seen.continued = FALSE /\ seen.stray = FALSE /\ seen.wrong = FALSE
      /\ seen.misled = FALSE /\ seen.bracketed = FALSE
      /\ seen.stack = <<>> /\ seen.pairs = {} /\ seen.templates = {}
  BY <1>1 DEF Reference
<1>3. Fresh = Scan("code", None, 1, 0, No, None)
  BY DEF Fresh, Scan, No
<1>4. /\ Flat(seen).mode = "code" /\ Flat(seen).row = 1 /\ Flat(seen).col = 0 /\ Flat(seen).last = None
      /\ Flat(seen).kind = "code" /\ Flat(seen).templates = {}
  BY <1>2, FlatFields DEF Plain
<1>5. \A strings : SpansOf(Flat(seen), ch, strings) = Fresh
  BY <1>3, <1>4 DEF SpansOf
<1>6. Strict = StrictOf(Flat(seen), ch, <<>>, {})
  BY <1>5 DEF Strict, StrictOf, Strictly, No
<1>7. NoTemplate = TemplateOf(Flat(seen))
  BY <1>4 DEF NoTemplate, TemplateOf, Lines, No
<1>8. TextRead
  <2>1. "end" \notin Chars
    BY DEF Chars
  <2> QED BY <1>1, <1>2, <2>1 DEF TextRead, AllModes
<1>9. PlainSound
  BY <1>4 DEF PlainSound, Sound, Modes, Inside, InComment, InString, InTemplate
<1> QED
  BY <1>1, <1>2, <1>4, <1>5, <1>6, <1>7, <1>8, <1>9
  DEF ScannersInv, SpansKept, CommentsKept, BracketsKept, TemplatesKept, CutShort

\* A scanner that has given up reads no further.
LEMMA GivenUp ==
    ASSUME NEW c, NEW n
    PROVE  TsCommentSpans(GiveUp, c, n) = GiveUp /\ TsBracketLines(GiveUp, c, n) = GiveUp
<1>1. GiveUp.failed = TRUE
  BY DEF GiveUp, Strict
<1> QED BY <1>1 DEF TsCommentSpans, TsBracketLines

\* A character more: each scanner follows the reference.
LEMMA ScannersStep == ScannersInv /\ [Next]_vars => ScannersInv'
<1> SUFFICES ASSUME ScannersInv, [Next]_vars  PROVE ScannersInv'
  OBVIOUS
<1>1. CASE UNCHANGED vars
  BY <1>1 DEF vars, ScannersInv, TextRead, PlainSound, SpansKept, CommentsKept, BracketsKept, TemplatesKept, CutShort
<1>2. CASE Read
  <2>1. PICK after \in Readings(seen.mode, ch) : seen' = Look(seen, ch, after)
    BY <1>2 DEF Read
  <2> DEFINE q == Look(seen, ch, after)
             f == Flat(q)
             p == Flat(seen)
             g == PlainLook(p, ch)
  <2>2. /\ ch \in Chars /\ nxt \in Chars \cup {"end"} /\ seen.mode \in AllModes
        /\ seen.bad \in BOOLEAN /\ seen.continued \in BOOLEAN
        /\ seen.stray \in BOOLEAN /\ seen.wrong \in BOOLEAN
        /\ seen.misled \in BOOLEAN /\ seen.bracketed \in BOOLEAN
    BY <1>2 DEF Read, ScannersInv, TextRead
  <2>3. /\ seen' = q /\ ch' = nxt /\ nxt' \in Chars \cup {"end"} /\ (nxt = "end" => nxt' = "end")
        /\ spans' = TsSpans(spans, ch, nxt, FALSE) /\ prose' = TsSpans(prose, ch, nxt, TRUE)
        /\ comments' = TsCommentSpans(comments, ch, nxt)
        /\ brackets' = TsBracketLines(brackets, ch, nxt)
        /\ templates' = TsStringLines(templates, ch)
    BY <1>2, <2>1 DEF Read
  <2>4. /\ q.mode = after
        /\ q.bad = (seen.bad \/ (seen.mode = "quote" /\ ch = "newline"))
        /\ q.continued = (seen.continued \/ (ch = "newline" /\ seen.mode \in {"quote escape", "tick escape", "subst escape"}))
        /\ q.stray = (seen.stray \/ (ch = "tick" /\ seen.mode \in InComment \cup {"quote", "quote escape"}))
        /\ q.misled = (seen.misled \/ Misleads(seen.mode, ch, after))
        /\ q.bracketed = (seen.bracketed \/ (after \in InRegex /\ ch \in Brackets))
        /\ q.wrong \in BOOLEAN /\ (seen.wrong => q.wrong)
    BY Zenon DEF Look, Brackets
  <2>5. /\ p.mode = Plain(seen.mode) /\ p.row = seen.row /\ p.stack = seen.stack /\ p.pairs = seen.pairs
        /\ p.bad = seen.bad /\ p.continued = seen.continued /\ p.stray = seen.stray /\ p.wrong = seen.wrong
        /\ p.templates = seen.templates
    BY FlatFields
  <2>6. /\ f.mode = Plain(q.mode) /\ f.row = q.row /\ f.stack = q.stack /\ f.pairs = q.pairs
        /\ f.bad = q.bad /\ f.continued = q.continued /\ f.stray = q.stray /\ f.wrong = q.wrong
        /\ f.templates = q.templates
    BY FlatFields
  <2>7. after \in AllModes
    BY <2>2, ReadPlainly
  <2>8. ASSUME ~q.misled
        PROVE  /\ ~seen.misled /\ Sound(p) /\ Alike(f, g)
               /\ g.bad = q.bad /\ g.continued = q.continued /\ g.stray = q.stray /\ g.templates = q.templates
               /\ ~(after \in InRegex /\ ch \in Brackets) =>
                     g.wrong = q.wrong /\ g.stack = q.stack /\ g.pairs = q.pairs
    <3>1. ~seen.misled /\ ~Misleads(seen.mode, ch, after)
      BY <2>4, <2>8
    <3>2. Sound(p)
      BY <3>1 DEF ScannersInv, PlainSound
    <3>3. /\ Alike(f, g)
          /\ f.bad = g.bad /\ f.continued = g.continued /\ f.stray = g.stray /\ f.templates = g.templates
          /\ ~(after \in InRegex /\ ch \in Brackets) =>
                f.wrong = g.wrong /\ f.stack = g.stack /\ f.pairs = g.pairs
      BY <2>1, <2>2, <3>1, GoOnAlike
    <3> HIDE DEF f, g, p, q
    <3> QED BY <2>6, <3>1, <3>2, <3>3
  <2>9. ~CutShort
    BY <2>2 DEF CutShort, Chars
  <2>10. Plain(seen.mode) \in Escapes <=> seen.mode \in {"quote escape", "tick escape", "subst escape"}
    BY <2>2, PlainInside
  <2>11. Plain(after) \in Escapes <=> after \in {"quote escape", "tick escape", "subst escape"}
    BY <2>7, PlainInside
  <2>12. Plain(seen.mode) = "quote" <=> seen.mode = "quote"
    BY <2>2, PlainInside
  <2> HIDE DEF q, f, p, g
  <2>13. CutShort' <=> nxt = "end" /\ f.mode \in Escapes
    BY <2>3, <2>4, <2>6, <2>11 DEF CutShort
  <2>14. ~q.continued => ~seen.continued /\ ~(ch = "newline" /\ p.mode \in Escapes)
    BY <2>4, <2>5, <2>10
  <2>15. ASSUME ~q.misled  PROVE Sound(f)
    <3>1. Sound(g)
      BY <2>2, <2>8, <2>15, SoundStays DEF g
    <3> QED BY <2>8, <2>15, <3>1 DEF Sound, Alike
  <2>16. TextRead'
    BY <2>2, <2>3, <2>4, <2>7 DEF TextRead
  <2>17. PlainSound'
    BY <2>3, <2>15 DEF PlainSound, f
  <2>18. SpansKept'
    <3> SUFFICES ASSUME ~q.continued, ~q.misled
                 PROVE  spans' = SpansOf(f, nxt, Yes) /\ prose' = SpansOf(f, nxt, No)
      BY <2>3 DEF SpansKept, f
    <3>1. spans = SpansOf(p, ch, Yes) /\ prose = SpansOf(p, ch, No)
      BY <2>8, <2>14 DEF ScannersInv, SpansKept, p
    <3>2. Sound(p) /\ ~(ch = "newline" /\ p.mode \in Escapes)
      BY <2>8, <2>14
    <3>3. \A strings \in BOOLEAN :
            TsSpans(SpansOf(p, ch, strings), ch, nxt, ~strings) = SpansOf(g, nxt, strings)
      BY <2>2, <3>2, SpansFollow DEF g
    <3>4. TsSpans(SpansOf(p, ch, Yes), ch, nxt, ~Yes) = SpansOf(g, nxt, Yes)
      BY <3>3 DEF Yes
    <3>5. TsSpans(SpansOf(p, ch, No), ch, nxt, ~No) = SpansOf(g, nxt, No)
      BY <3>3 DEF No
    <3>6. SpansOf(f, nxt, Yes) = SpansOf(g, nxt, Yes) /\ SpansOf(f, nxt, No) = SpansOf(g, nxt, No)
      BY <2>8, AlikeSpans
    <3> QED BY <2>3, <3>1, <3>4, <3>5, <3>6 DEF Yes, No
  <2>19. CommentsKept'
    <3> SUFFICES ASSUME ~q.continued, ~q.misled
                 PROVE  comments' = IF q.bad \/ (nxt = "end" /\ f.mode \in Escapes) THEN GiveUp
                                    ELSE StrictOf(f, nxt, <<>>, {})
      BY <2>3, <2>13 DEF CommentsKept, f
    <3>1. ~(ch = "newline" /\ p.mode \in Escapes) /\ ~seen.continued /\ ~seen.misled /\ Sound(p)
      BY <2>8, <2>14
    <3>2. CASE seen.bad
      BY <2>3, <2>4, <3>1, <3>2, GivenUp DEF ScannersInv, CommentsKept
    <3>3. CASE ~seen.bad
      <4>1. comments = StrictOf(p, ch, <<>>, {})
        BY <2>9, <3>1, <3>3 DEF ScannersInv, CommentsKept, p
      <4>2. TsCommentSpans(StrictOf(p, ch, <<>>, {}), ch, nxt) =
              IF CutAt(p, ch, nxt) THEN GiveUp ELSE StrictOf(g, nxt, <<>>, {})
        BY <2>2, <3>1, CommentsFollow DEF g
      <4>3. CutAt(p, ch, nxt) <=> q.bad \/ (nxt = "end" /\ f.mode \in Escapes)
        BY <2>4, <2>5, <2>8, <2>12, <3>3 DEF CutAt, Alike, g
      <4>4. StrictOf(f, nxt, <<>>, {}) = StrictOf(g, nxt, <<>>, {})
        BY <2>8, AlikeSpans
      <4> QED BY <2>3, <4>1, <4>2, <4>3, <4>4
    <3> QED BY <3>2, <3>3
  <2>20. BracketsKept'
    <3> SUFFICES ASSUME ~q.continued, ~q.misled, ~q.bracketed
                 PROVE  brackets' = IF q.bad \/ q.wrong \/ (nxt = "end" /\ f.mode \in Escapes) THEN GiveUp
                                    ELSE StrictOf(f, nxt, q.stack, q.pairs)
      BY <2>3, <2>13 DEF BracketsKept, f
    <3>1. /\ ~(ch = "newline" /\ p.mode \in Escapes) /\ ~seen.continued /\ ~seen.misled /\ Sound(p)
          /\ ~seen.bracketed /\ ~(after \in InRegex /\ ch \in Brackets)
      BY <2>4, <2>8, <2>14
    <3>2. CASE seen.bad \/ seen.wrong
      BY <2>3, <2>4, <3>1, <3>2, GivenUp DEF ScannersInv, BracketsKept
    <3>3. CASE ~seen.bad /\ ~seen.wrong
      <4>1. brackets = StrictOf(p, ch, p.stack, p.pairs)
        BY <2>5, <2>9, <3>1, <3>3 DEF ScannersInv, BracketsKept, p
      <4>2. p.wrong = FALSE
        BY <2>2, <2>5, <3>3
      <4>3. TsBracketLines(StrictOf(p, ch, p.stack, p.pairs), ch, nxt) =
              IF CutAt(p, ch, nxt) \/ g.wrong THEN GiveUp ELSE StrictOf(g, nxt, g.stack, g.pairs)
        BY <2>2, <3>1, <4>2, BracketsFollow DEF g
      <4>4. CutAt(p, ch, nxt) <=> q.bad \/ (nxt = "end" /\ f.mode \in Escapes)
        BY <2>4, <2>5, <2>8, <2>12, <3>3 DEF CutAt, Alike, g
      <4>5. g.wrong = q.wrong /\ g.stack = q.stack /\ g.pairs = q.pairs
        BY <2>8, <3>1
      <4>6. StrictOf(f, nxt, q.stack, q.pairs) = StrictOf(g, nxt, q.stack, q.pairs)
        BY <2>8, AlikeSpans
      <4> QED BY <2>3, <4>1, <4>3, <4>4, <4>5, <4>6
    <3> QED BY <3>2, <3>3
  <2>21. TemplatesKept'
    <3> SUFFICES ASSUME ~q.stray, ~q.misled
                 PROVE  templates' = TemplateOf(f) /\ (f.mode = "tick escape" => q.row \in q.templates)
      BY <2>3 DEF TemplatesKept, f
    <3>1. g.stray = FALSE /\ ~seen.stray /\ ~seen.misled /\ Sound(p)
      BY <2>2, <2>4, <2>8
    <3>2. templates = TemplateOf(p) /\ (p.mode = "tick escape" => p.row \in p.templates)
      BY <2>5, <3>1 DEF ScannersInv, TemplatesKept, p
    <3>3. /\ TsStringLines(TemplateOf(p), ch) = TemplateOf(g)
          /\ g.mode = "tick escape" => g.row \in g.templates
      BY <2>2, <3>1, <3>2, TemplatesFollow DEF g
    <3>4. TemplateOf(f) = TemplateOf(g) /\ f.mode = g.mode /\ q.row = g.row /\ q.templates = g.templates
      BY <2>6, <2>8 DEF Alike, TemplateOf
    <3> QED BY <2>3, <3>2, <3>3, <3>4
  <2> QED BY <2>16, <2>17, <2>18, <2>19, <2>20, <2>21 DEF ScannersInv
<1> QED BY <1>1, <1>2 DEF Next

-----------------------------------------------------------------------------
(***************************************************************************)
(* The properties.                                                         *)
(***************************************************************************)

\* Every scanner holds what the reference has found and the next character say,
\* in every state.
THEOREM ScannersKept == Spec => []ScannersInv
BY ScannersStart, ScannersStep, PTL DEF Spec

\* What can be read off a scanner of spans that looks at the next character.
LEMMA SpansTell ==
    ASSUME NEW r, Sound(r), NEW c, NEW strings
    PROVE  LET s == SpansOf(r, c, strings) IN
           /\ ~s.skip => s.last = IF strings \/ r.kind = "comment" THEN r.last ELSE None
           /\ ~s.skip /\ strings /\ Inside(r.mode) => s.start = r.began
           /\ c = "end" => (s.mode \in {"block"} \cup Quotes <=> r.mode \in {"block", "star"} \cup InString)
<1> DEFINE s == SpansOf(r, c, strings)
           from == IF strings THEN r.began ELSE None
           last == IF strings \/ r.kind = "comment" THEN r.last ELSE None
           skips == r.mode \in Escapes \/ (r.mode = "slash" /\ c \in {"/", "*"}) \/ (r.mode = "star" /\ c = "/")
<1>1. \A m, st, row, col, k, l :
         LET z == Scan(m, st, row, col, k, l) IN z.mode = m /\ z.start = st /\ z.skip = k /\ z.last = l
  BY ScanFields
<1>2. CASE skips
  <2>1. \E m, st, col, l : /\ s = Scan(m, st, r.row, col, Yes, l)
                           /\ c = "end" => m \in Quotes /\ r.mode \in InString
    <3>1. CASE r.mode = "slash" /\ c \in {"/", "*"}
      BY <3>1 DEF SpansOf
    <3>2. CASE r.mode = "star" /\ c = "/"
      BY <3>2 DEF SpansOf
    <3>3. CASE r.mode = "quote escape"
      BY <3>3 DEF SpansOf, Quotes, InString, InTemplate
    <3>4. CASE r.mode = "tick escape"
      BY <3>4 DEF SpansOf, Quotes, InString, InTemplate
    <3> QED BY <1>2, <3>1, <3>2, <3>3, <3>4 DEF Escapes
  <2> HIDE DEF s
  <2>2. s.skip = Yes /\ (c = "end" => s.mode \in Quotes /\ r.mode \in InString)
    BY <1>1, <2>1
  <2> QED BY <2>2 DEF s, Yes
<1>3. CASE ~skips
  <2> DEFINE m == IF r.mode = "slash" THEN "code" ELSE IF r.mode = "star" THEN "block" ELSE r.mode
             st == IF m = "code" THEN None ELSE IF m \in Quotes THEN from ELSE r.began
  <2>1. s = Scan(m, st, r.row, r.col, No, last)
    <3>1. CASE r.mode = "slash"
      BY <1>3, <3>1 DEF SpansOf
    <3>2. CASE r.mode = "star"
      BY <1>3, <3>2 DEF SpansOf, Quotes
    <3>3. CASE r.mode = "code"
      BY <3>3 DEF SpansOf
    <3>4. CASE r.mode \in {"line", "block", "quote", "tick"}
      BY <3>4 DEF SpansOf, Quotes
    <3> QED BY <1>3, <3>1, <3>2, <3>3, <3>4 DEF Sound, Modes, Escapes
  <2>2. Inside(r.mode) /\ strings => st = r.began
    BY <1>3 DEF Inside, InComment, InString, InTemplate, Quotes
  <2>3. m \in {"block"} \cup Quotes <=> r.mode \in {"block", "star"} \cup InString
    BY <1>3 DEF Sound, Modes, Escapes, InString, InTemplate, Quotes
  <2> HIDE DEF s, m, st, last
  <2>4. s.mode = m /\ s.start = st /\ s.last = last
    BY <1>1, <2>1
  <2> QED BY <2>2, <2>3, <2>4 DEF s, last
<1> QED BY <1>2, <1>3

\* search_code and search_wire ignore a match exactly if it starts in a comment
\* or (search_code) a string, in every text, of any length, without a string
\* that is continued on the next line, up to the first regular expression that
\* looks like a quote or a comment and the first template in a template.
THEOREM EverySpanHonest == Spec => []SpansHonest
<1>1. ScannersInv => SpansHonest
  <2> SUFFICES ASSUME ScannersInv, ~seen.continued, ~seen.misled  PROVE SpansMatch
    BY DEF SpansHonest, SpansExact
  <2> DEFINE p == Flat(seen)
  <2>1. seen.mode \in AllModes /\ Sound(p) /\ spans = SpansOf(p, ch, Yes) /\ prose = SpansOf(p, ch, No)
    BY DEF ScannersInv, TextRead, PlainSound, SpansKept
  <2>2. /\ p.mode = Plain(seen.mode) /\ p.last = seen.last /\ p.kind = seen.kind /\ p.began = seen.began
    BY FlatFields
  <2>3. Inside(p.mode) <=> Inside(seen.mode)
    <3>1. Inside(Plain(seen.mode)) <=> Inside(seen.mode)
      BY <2>1, PlainInside
    <3> HIDE DEF p
    <3> QED BY <2>2, <3>1
  <2> HIDE DEF Yes, No, p
  <2>4. /\ ~spans.skip => spans.last = IF Yes \/ p.kind = "comment" THEN p.last ELSE None
        /\ ~spans.skip /\ Yes /\ Inside(p.mode) => spans.start = p.began
    BY <2>1, SpansTell
  <2>5. ~prose.skip => prose.last = IF No \/ p.kind = "comment" THEN p.last ELSE None
    BY <2>1, SpansTell
  <2> QED BY <2>2, <2>3, <2>4, <2>5 DEF SpansMatch, Yes, No
<1> QED BY <1>1, ScannersKept, PTL

\* The fixers' scanners know the comments, tell the texts they cannot rely on
\* from the others, and mark the lines of the brackets and of the templates as
\* the text has them, in every such text.
THEOREM FixersAreKeptOut == Spec => []FixersKeepOut
<1>1. ScannersInv => FixersKeepOut
  <2> DEFINE p == Flat(seen)
             z == SpansOf(p, ch, No)
             open == seen.mode \in {"block", "star"} \cup InString
             cut == seen.bad \/ seen.mode \in {"block", "star"} \cup InString
             found == IF seen.kind = "comment" THEN seen.last ELSE None
  <2> SUFFICES ASSUME ScannersInv, ~seen.continued, ~seen.misled
               PROVE  /\ ~comments.failed /\ ~comments.scan.skip => comments.scan.last = found
                      /\ ch = "end" =>
                            /\ StrictFails(comments) <=> cut
                            /\ ~seen.bracketed => /\ StrictFails(brackets) <=> (cut \/ seen.wrong)
                                                   /\ ~StrictFails(brackets) => brackets.crossed = seen.pairs
                            /\ ~seen.stray => /\ templates.in <=> seen.mode \in InTemplate
                                              /\ templates.lines = seen.templates
    BY DEF FixersKeepOut
  <2>1. /\ seen.mode \in AllModes /\ Sound(p)
        /\ comments = IF seen.bad \/ CutShort THEN GiveUp ELSE StrictOf(p, ch, <<>>, {})
        /\ ~seen.bracketed => brackets = IF seen.bad \/ seen.wrong \/ CutShort THEN GiveUp
                                         ELSE StrictOf(p, ch, seen.stack, seen.pairs)
    BY DEF ScannersInv, TextRead, PlainSound, CommentsKept, BracketsKept
  <2>2. GiveUp.failed = TRUE
    BY DEF GiveUp, Strict
  <2>3. \A stack, crossed :
          LET s == StrictOf(p, ch, stack, crossed) IN
            s.scan = z /\ s.failed = No /\ s.crossed = crossed
    BY StrictFields DEF StrictOf
  <2>4. p.mode = Plain(seen.mode) /\ p.last = seen.last /\ p.kind = seen.kind /\ p.row = seen.row /\ p.templates = seen.templates
    BY FlatFields
  <2>5. /\ p.mode \in {"block", "star"} \cup InString <=> open
        /\ p.mode \in {"tick", "tick escape"} <=> seen.mode \in InTemplate
    <3>1. /\ Plain(seen.mode) \in InString <=> seen.mode \in InString
          /\ \A m \in {"block", "star", "quote", "quote escape"} : Plain(seen.mode) = m <=> seen.mode = m
          /\ Plain(seen.mode) \in {"tick", "tick escape"} <=> seen.mode \in InTemplate
      BY <2>1, PlainInside
    <3> HIDE DEF p
    <3> QED BY <2>4, <3>1
  <2> HIDE DEF p
  <2>6. /\ ~z.skip => z.last = IF No \/ p.kind = "comment" THEN p.last ELSE None
        /\ ch = "end" => (z.mode \in {"block"} \cup Quotes <=> p.mode \in {"block", "star"} \cup InString)
    BY <2>1, SpansTell
  <2> HIDE DEF z
  <2>7. CutShort => open
    BY DEF CutShort, InString, InTemplate
  <2>8. ~comments.failed /\ ~comments.scan.skip => comments.scan.last = found
    BY <2>1, <2>2, <2>3, <2>4, <2>6 DEF No
  <2>9. ch = "end" => (StrictFails(comments) <=> cut)
    BY <2>1, <2>2, <2>3, <2>5, <2>6, <2>7 DEF StrictFails, No
  <2>10. ch = "end" /\ ~seen.bracketed => /\ StrictFails(brackets) <=> (cut \/ seen.wrong)
                                          /\ ~StrictFails(brackets) => brackets.crossed = seen.pairs
    <3> SUFFICES ASSUME ch = "end", ~seen.bracketed
                 PROVE  /\ StrictFails(brackets) <=> (cut \/ seen.wrong)
                        /\ ~StrictFails(brackets) => brackets.crossed = seen.pairs
      OBVIOUS
    <3>1. brackets = IF seen.bad \/ seen.wrong \/ CutShort THEN GiveUp ELSE StrictOf(p, ch, seen.stack, seen.pairs)
      BY <2>1
    <3>2. CASE seen.bad \/ seen.wrong \/ CutShort
      <4>1. brackets = GiveUp
        BY <3>1, <3>2
      <4>2. StrictFails(brackets) /\ (cut \/ seen.wrong)
        BY <2>2, <2>7, <3>2, <4>1 DEF StrictFails
      <4> QED BY <4>2
    <3>3. CASE ~(seen.bad \/ seen.wrong \/ CutShort)
      <4> DEFINE s == StrictOf(p, ch, seen.stack, seen.pairs)
      <4>1. brackets = s
        BY <3>1, <3>3
      <4>2. s.scan = z /\ s.failed = No /\ s.crossed = seen.pairs
        BY <2>3
      <4> HIDE DEF s
      <4>3. StrictFails(s) <=> z.mode \in {"block"} \cup Quotes
        BY <4>2 DEF StrictFails, No
      <4>4. StrictFails(s) <=> open
        BY <2>5, <2>6, <4>3
      <4>5. cut \/ seen.wrong <=> open
        BY <3>3
      <4> QED BY <4>1, <4>2, <4>4, <4>5
    <3> QED BY <3>2, <3>3
  <2>11. ASSUME ~seen.stray
         PROVE  /\ templates.in <=> seen.mode \in InTemplate
                /\ templates.lines = seen.templates
    <3>1. templates = TemplateOf(p)
      BY <2>11 DEF ScannersInv, TemplatesKept, p
    <3>2. \A in, skip : LET s == Lines(in, p.row, skip, p.templates) IN
                         s.in = in /\ s.lines = p.templates
      BY DEF Lines
    <3>3. CASE p.mode \in {"tick", "tick escape"}
      <4>1. \E skip : templates = Lines(Yes, p.row, skip, p.templates)
        BY <3>1, <3>3 DEF TemplateOf
      <4>2. templates.in = Yes /\ templates.lines = p.templates
        BY <3>2, <4>1
      <4> QED BY <2>4, <2>5, <3>3, <4>2 DEF Yes
    <3>4. CASE p.mode \notin {"tick", "tick escape"}
      <4>1. templates = Lines(No, p.row, No, p.templates)
        BY <3>1, <3>4 DEF TemplateOf
      <4>2. templates.in = No /\ templates.lines = p.templates
        BY <3>2, <4>1
      <4> QED BY <2>4, <2>5, <3>4, <4>2 DEF No
    <3> QED BY <3>3, <3>4
  <2> QED BY <2>8, <2>9, <2>10, <2>11
<1> QED BY <1>1, ScannersKept, PTL
=============================================================================
