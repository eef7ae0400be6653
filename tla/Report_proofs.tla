---------------------------- MODULE Report_proofs ----------------------------
(***************************************************************************)
(* Whatever is written, checked and tidied, the last report still tells    *)
(* the findings and the ignore comments of the tree as it is.              *)
(***************************************************************************)
EXTENDS Report, WellFoundedInduction, TLAPS

Languages == {"python", "typescript"}

-----------------------------------------------------------------------------
(***************************************************************************)
(* The line of evidence of R010.                                           *)
(***************************************************************************)

Below == {ss \in Nat \X Nat : ss[1] < ss[2]}

\* A non-empty set of naturals has a least member.
LEMMA LeastNat ==
    ASSUME NEW S, S \subseteq Nat, S # {}
    PROVE  \E m \in S : \A n \in S : m <= n
<1>1. PICK m \in S : \A n \in S : <<n, m>> \notin Below
  BY NatLessThanWellFounded, WFMin DEF OpToRel, Below
<1>2. \A n \in S : ~(n < m) => m <= n
  OBVIOUS
<1>3. \A n \in S : <<n, m>> \in Below <=> n < m
  BY DEF Below
<1> QED BY <1>1, <1>2, <1>3

\* There is a first line among any.
LEMMA FirstExists ==
    ASSUME NEW lines, lines \subseteq Lines, lines # {}
    PROVE  FirstOf(lines) \in lines
<1>1. \A s \in lines : s \in Nat \X Nat
  BY ReportAssumption DEF ReportAssumption, Lines
<1>2. PICK f \in {s[1] : s \in lines} : \A g \in {s[1] : s \in lines} : f <= g
  <2> DEFINE A == {s[1] : s \in lines}
  <2>1. A \subseteq Nat /\ A # {}
    BY <1>1
  <2> HIDE DEF A
  <2>2. \E f \in A : \A g \in A : f <= g
    BY <2>1, LeastNat
  <2> QED BY <2>2 DEF A
<1> DEFINE Here == {s \in lines : s[1] = f}
<1>3. PICK i \in {s[2] : s \in Here} : \A k \in {s[2] : s \in Here} : i <= k
  <2> DEFINE A == {s[2] : s \in Here}
  <2>1. A \subseteq Nat /\ A # {}
    BY <1>1, <1>2
  <2> HIDE DEF A
  <2>2. \E i \in A : \A k \in A : i <= k
    BY <2>1, LeastNat
  <2> QED BY <2>2 DEF A
<1>4. PICK s \in Here : s[2] = i
  BY <1>3
<1>5. \A t \in lines : s[1] < t[1] \/ (s[1] = t[1] /\ s[2] <= t[2])
  <2> SUFFICES ASSUME NEW t \in lines
               PROVE  s[1] < t[1] \/ (s[1] = t[1] /\ s[2] <= t[2])
    OBVIOUS
  <2>1. s[1] \in Nat /\ t[1] \in Nat /\ s[1] <= t[1]
    BY <1>1, <1>2, <1>4
  <2>2. CASE s[1] = t[1]
    BY <2>2, <1>3, <1>4
  <2>3. CASE s[1] # t[1]
    BY <2>1, <2>3
  <2> QED BY <2>2, <2>3
<1> QED BY <1>4, <1>5 DEF FirstOf

\* What a search finds are lines of the language that say it, in the code
\* unless the file is broken.
LEMMA Found ==
    ASSUME NEW l \in Languages, NEW what, NEW s \in Search(l, what)
    PROVE  /\ s \in View(l) /\ s \in Lines /\ text[s].says \in what
           /\ text[s].comment => Broken(s[1])
BY DEF Search, View

\* Where R010 finds handlers it finds the line of one.
LEMMA EvidenceExists ==
    ASSUME NEW l \in Languages, HasRequestHandlers(l)
    PROVE  /\ FirstHandlerRegistration(l) \in View(l)
           /\ text[FirstHandlerRegistration(l)].says
                 \in {"handler", "call", "keyword", "decorator", "general"}
           /\ text[FirstHandlerRegistration(l)].comment
                 => Broken(FirstHandlerRegistration(l)[1])
<1> DEFINE tries == <<Search(l, {"handler"}),
                      IF l = "python" THEN ServerCallKeywords ELSE {},
                      Search(l, {"decorator"}),
                      Search(l, {"decorator", "general"})>>
           hit == CHOOSE i \in 1..4 : tries[i] # {} /\ \A j \in 1..(i - 1) : tries[j] = {}
<1>1. \E i \in 1..4 : tries[i] # {}
  BY DEF HasRequestHandlers
<1>2. \E i \in 1..4 : tries[i] # {} /\ \A j \in 1..(i - 1) : tries[j] = {}
  <2> HIDE DEF tries
  <2>1. CASE tries[1] # {}
    <3> WITNESS 1 \in 1..4
    <3> QED BY <2>1
  <2>2. CASE tries[1] = {} /\ tries[2] # {}
    <3> WITNESS 2 \in 1..4
    <3> QED BY <2>2
  <2>3. CASE tries[1] = {} /\ tries[2] = {} /\ tries[3] # {}
    <3> WITNESS 3 \in 1..4
    <3> QED BY <2>3
  <2>4. CASE tries[1] = {} /\ tries[2] = {} /\ tries[3] = {}
    <3> WITNESS 4 \in 1..4
    <3> QED BY <2>4, <1>1
  <2> QED BY <2>1, <2>2, <2>3, <2>4
<1>3. hit \in 1..4 /\ tries[hit] # {}
  <2> HIDE DEF tries
  <2> QED BY <1>2
<1>4. \A i \in 1..4 : \A s \in tries[i] :
         /\ s \in View(l) /\ s \in Lines
         /\ text[s].says \in {"handler", "call", "keyword", "decorator", "general"}
         /\ text[s].comment => Broken(s[1])
  <2>1. \A s \in ServerCallKeywords : s \in Search("python", {"call", "keyword"})
    BY DEF ServerCallKeywords
  <2> QED BY <2>1, Found DEF Languages
<1>5. FirstOf(tries[hit]) \in tries[hit]
  <2>1. tries[hit] \subseteq Lines
    <3> HIDE DEF tries, hit
    <3> QED BY <1>3, <1>4
  <2> HIDE DEF tries, hit
  <2> QED BY <2>1, <1>3, FirstExists
<1>6. FirstHandlerRegistration(l) = FirstOf(tries[hit])
  BY DEF FirstHandlerRegistration
<1> HIDE DEF tries, hit
<1> QED BY <1>3, <1>4, <1>5, <1>6

\* Where the highest floor is read as it is meant, an SDK below 2 may be
\* installed whenever every floor is below 2.
LEMMA FloorMeansAccepts ==
    ASSUME NEW m \in Manifests, ReadAsMeant(m), FloorBelow(m, 2)
    PROVE  AcceptsBelow(m, 2)
<1>1. PICK v \in Mentioned(m) : Accepts(m, v)
  BY DEF ReadAsMeant
<1>2. \A r \in m.requires : r \in Requirement
  BY DEF Manifests
<1>3. \A r \in m.requires : \A i \in DOMAIN r.constraints : r.constraints[i] \in Constraint
  BY <1>2 DEF Requirement
<1>4. v \in Nat
  BY <1>3 DEF Mentioned, Constraint
<1>5. CASE v < 2
  <2>1. v \in 0..(2 - 1)
    BY <1>4, <1>5
  <2> QED BY <2>1, <1>1 DEF AcceptsBelow
<1>6. CASE v >= 2
  <2>1. ASSUME NEW r \in m.requires, r.package = "mcp", r.place \notin {"comment", "optional"},
               NEW i \in DOMAIN r.constraints
        PROVE  Satisfies(1, r.constraints[i])
    <3> DEFINE c == r.constraints[i]
    <3>1. c.major \in Nat /\ c.op \in {">=", "==", "~=", "^", ">", "<", "!="}
      BY <1>3, <2>1 DEF Constraint
    <3>2. Satisfies(v, c)
      BY <1>1, <2>1 DEF Accepts
    <3>3. c.op \in Readable => c.major < 2
      <4>1. SUFFICES ASSUME c.op \in Readable
                     PROVE  c.major < 2
        OBVIOUS
      <4>2. i = 1 /\ r.constraints # <<>> /\ Head(r.constraints) = c
        BY <1>2, <2>1, <4>1 DEF ReadAsMeant, Requirement
      <4>3. r \in Candidates(m)
        BY <2>1 DEF ReadAsMeant, Candidates
      <4>4. c.major \in FloorFromRequirement(r)
        BY <2>1, <4>1, <4>2 DEF FloorFromRequirement
      <4> QED BY <4>3, <4>4 DEF FloorBelow, Floors
    <3> HIDE DEF c
    <3>4. Satisfies(1, c)
      BY <3>1, <3>2, <3>3, <1>4, <1>6 DEF Satisfies, Readable
    <3> QED BY <3>4 DEF c
  <2>2. Accepts(m, 1)
    BY <2>1 DEF Accepts
  <2>3. 1 \in 0..(2 - 1)
    OBVIOUS
  <2> QED BY <2>2, <2>3 DEF AcceptsBelow
<1> QED BY <1>4, <1>5, <1>6

\* And where nothing optional asks for the SDK, every floor is below 2 if an SDK
\* below 2 may be installed and some floor can be read.
LEMMA AcceptsMeansFloor ==
    ASSUME NEW m \in Manifests, ReadAsMeant(m), NothingOptional(m), Bounded(m), AcceptsBelow(m, 2)
    PROVE  FloorBelow(m, 2)
<1>1. PICK w \in 0..(2 - 1) : Accepts(m, w)
  BY DEF AcceptsBelow
<1>2. \A r \in m.requires : r \in Requirement
  BY DEF Manifests
<1>3. \A r \in m.requires : \A i \in DOMAIN r.constraints : r.constraints[i] \in Constraint /\ i \in Nat
  BY <1>2 DEF Requirement
<1>4. ASSUME NEW r \in Candidates(m), NEW f \in FloorFromRequirement(r)
      PROVE  f < 2
  <2> DEFINE c == Head(r.constraints)
  <2>1. r \in m.requires /\ r.package = "mcp" /\ r.constraints # <<>> /\ c.op \in Readable /\ f = c.major
    BY <1>4 DEF Candidates, FloorFromRequirement
  <2>2. 1 \in DOMAIN r.constraints /\ c = r.constraints[1]
    BY <1>2, <2>1 DEF Requirement
  <2>3. r.place \notin {"comment", "optional"}
    BY <1>4, <2>1 DEF Candidates, ReadAsMeant, NothingOptional
  <2>4. Satisfies(w, c)
    BY <1>1, <2>1, <2>2, <2>3 DEF Accepts
  <2>5. c.major \in Nat /\ w \in Nat /\ w < 2
    BY <1>1, <1>3, <2>1, <2>2 DEF Constraint
  <2> HIDE DEF c
  <2> QED BY <2>1, <2>4, <2>5 DEF Satisfies, Readable
<1>5. Floors(m) # {}
  <2>1. PICK r \in m.requires : /\ r.package = "mcp" /\ r.place # "comment"
                               /\ \E i \in DOMAIN r.constraints : r.constraints[i].op \in Readable
    BY DEF Bounded
  <2>2. PICK i \in DOMAIN r.constraints : r.constraints[i].op \in Readable
    BY <2>1
  <2>3. i = 1 /\ r.constraints # <<>> /\ Head(r.constraints) = r.constraints[i]
    BY <1>2, <2>2 DEF ReadAsMeant, Requirement
  <2>4. r \in Candidates(m)
    BY <2>1 DEF Candidates, ReadAsMeant
  <2>5. Head(r.constraints).major \in FloorFromRequirement(r)
    BY <2>1, <2>2, <2>3 DEF FloorFromRequirement
  <2> QED BY <2>4, <2>5 DEF Floors
<1> QED BY <1>4, <1>5 DEF FloorBelow, Floors

-----------------------------------------------------------------------------
(***************************************************************************)
(* The invariant.                                                          *)
(***************************************************************************)

\* What a report tells is true of the tree as it is, also after comments it
\* called unused were deleted; only the problems may have become fewer.
Whole == report = [rules |-> report.rules, form |-> report.form, kept |-> report.kept, suppressed |-> report.suppressed,
                   problems |-> report.problems, unused |-> report.unused, results |-> report.results]

Current ==
    LET now == ReportOf(report.rules, report.form) IN
       /\ report.kept = now.kept /\ report.suppressed = now.suppressed
       /\ report.unused = now.unused /\ report.results = now.results
       /\ now.problems \subseteq report.problems

IInv ==
    /\ text \in [Lines -> Text]
    /\ \A s \in Lines : text[s].says \in PythonOnly => Language[s[1]] = "python"
    /\ ignore \in [Lines -> Directive]
    /\ manifest \in Manifests
    /\ Reported => Whole /\ Current

\* The findings do not depend on ignore comments.
LEMMA FindingsStay ==
    ASSUME UNCHANGED <<text, manifest>>, NEW rules
    PROVE  Findings(rules)' = Findings(rules)
<1> USE DEF View
<1>1. \A f : Broken(f)' = Broken(f)
  BY DEF Broken
<1>2. \A l, w : Search(l, w)' = Search(l, w)
  BY <1>1 DEF Search
<1>3. ServerCallKeywords' = ServerCallKeywords
  <2>1. \A f : Parsed(f)' = Parsed(f)
    BY DEF Parsed
  <2> QED BY <1>2, <2>1 DEF ServerCallKeywords
<1>4. \A l : HasRequestHandlers(l)' = HasRequestHandlers(l)
  BY <1>2, <1>3 DEF HasRequestHandlers
<1>5. \A l : HasDiscover(l)' = HasDiscover(l)
  BY <1>2 DEF HasDiscover
<1>6. \A l : FirstHandlerRegistration(l)' = FirstHandlerRegistration(l)
  BY <1>2, <1>3 DEF FirstHandlerRegistration
<1>7. ServerDiscoverMissing' = ServerDiscoverMissing
  BY <1>4, <1>5, <1>6 DEF ServerDiscoverMissing
<1>8. SessionIdRemoved' = SessionIdRemoved
  BY <1>2 DEF SessionIdRemoved
<1> QED BY <1>7, <1>8 DEF Findings

\* A report of the same text and the same comments is the same report.
LEMMA ReportStays ==
    ASSUME NEW rules, NEW form, UNCHANGED <<text, ignore, manifest>>
    PROVE  ReportOf(rules, form)' = ReportOf(rules, form)
<1>1. Findings(rules)' = Findings(rules)
  BY FindingsStay
<1> QED BY <1>1 DEF ReportOf, Matches, Unused, Used, Lines

\* Deleting the comments that are unused leaves the findings and what is
\* suppressed of them, and leaves no other comment unused.
LEMMA TidyChangesNothing ==
    ASSUME NEW CONSTANT rules, NEW CONSTANT form, TellsUnused(form), UNCHANGED <<text, manifest>>,
           ignore' = [s \in Lines |-> IF s \in ReportOf(rules, form).unused THEN NoDirective ELSE ignore[s]]
    PROVE  /\ ReportOf(rules, form).kept' = ReportOf(rules, form).kept
           /\ ReportOf(rules, form).suppressed' = ReportOf(rules, form).suppressed
           /\ ReportOf(rules, form).results' = ReportOf(rules, form).results
           /\ ReportOf(rules, form).unused' = {}
           /\ ReportOf(rules, form).problems' \subseteq ReportOf(rules, form).problems
<1> DEFINE suppressed == {f \in Findings(rules) : Matches(f)}
<1>1. ReportOf(rules, form).unused = Unused(suppressed)
  BY DEF ReportOf, TellsUnused
<1>2. Findings(rules)' = Findings(rules)
  BY FindingsStay
<1>3. \A f \in Findings(rules) : f.line \in Lines \/ f.path = "(project)"
  <2>1. \A l, w : Search(l, w) \subseteq Lines
    BY DEF Search, View
  <2>2. ASSUME NEW f \in SessionIdRemoved PROVE f.line \in Lines
    <3>1. PICK s \in Search("python", {"session id"}) \cup Search("typescript", {"session id"}) :
             f = [rule |-> "R001", path |-> "file", language |-> Language[s[1]], line |-> s]
      BY DEF SessionIdRemoved
    <3> QED BY <3>1, <2>1
  <2>3. \A f \in ServerDiscoverMissing : f.path = "(project)"
    BY DEF ServerDiscoverMissing
  <2> QED BY <2>2, <2>3 DEF Findings
<1>4. Obeyed(NoDirective) = {} /\ ~Problem(NoDirective)
  BY DEF Obeyed, Problem, NoDirective
<1>5. \A s \in Lines : \/ s \in Unused(suppressed) /\ ignore'[s] = NoDirective
                       \/ s \notin Unused(suppressed) /\ ignore'[s] = ignore[s]
  BY <1>1
<1>6. \A f \in Findings(rules) : Matches(f)' <=> Matches(f)
  <2> SUFFICES ASSUME NEW f \in Findings(rules)
               PROVE  (f.path # "(project)" /\ f.rule \in Obeyed(ignore'[f.line]))
                         <=> (f.path # "(project)" /\ f.rule \in Obeyed(ignore[f.line]))
    BY DEF Matches, Obeyed
  <2>1. SUFFICES ASSUME f.path # "(project)"
                 PROVE  f.rule \in Obeyed(ignore'[f.line]) <=> f.rule \in Obeyed(ignore[f.line])
    OBVIOUS
  <2>2. f.line \in Lines
    BY <1>3, <2>1
  <2>3. CASE ignore'[f.line] = ignore[f.line]
    BY <2>3
  <2>4. CASE f.line \in Unused(suppressed) /\ ignore'[f.line] = NoDirective
    <3>1. f.rule \notin Obeyed(ignore[f.line])
      BY <2>1, <2>4 DEF Unused, Used, Matches
    <3> QED BY <2>4, <3>1, <1>4
  <2> QED BY <2>2, <2>3, <2>4, <1>5
<1>7. suppressed' = suppressed
  BY <1>2, <1>6
<1>8. Unused(suppressed)' = {}
  <2> HIDE DEF suppressed
  <2> SUFFICES ASSUME NEW s \in Lines, Obeyed(ignore'[s]) # {}
               PROVE  \E f \in suppressed : f.line = s /\ f.rule \in Obeyed(ignore'[s])
    BY <1>7 DEF Unused, Used, Lines, Obeyed
  <2>1. ignore'[s] = ignore[s] /\ s \notin Unused(suppressed)
    BY <1>4, <1>5
  <2> QED BY <2>1 DEF Unused, Used
<1>9. {s \in Lines : Problem(ignore'[s])} \subseteq {s \in Lines : Problem(ignore[s])}
  BY <1>4, <1>5
<1>10. /\ ReportOf(rules, form).problems = {s \in Lines : TellsProblems(form) /\ Problem(ignore[s])}
       /\ ReportOf(rules, form).problems' = {s \in Lines : TellsProblems(form) /\ Problem(ignore'[s])}
  BY DEF ReportOf, Problem, TellsProblems
<1>11. ReportOf(rules, form).unused' = {}
  BY <1>8 DEF ReportOf
<1>12. /\ ReportOf(rules, form).suppressed' = ReportOf(rules, form).suppressed
       /\ ReportOf(rules, form).kept' = ReportOf(rules, form).kept
  BY <1>2, <1>7 DEF ReportOf
<1>13. ReportOf(rules, form).results' = ReportOf(rules, form).results
  BY <1>2, <1>7 DEF ReportOf, Result
<1> QED BY <1>9, <1>10, <1>11, <1>12, <1>13

\* The invariant holds before anything is run.
LEMMA InvInit == Init => IInv
<1> SUFFICES ASSUME Init PROVE IInv
  OBVIOUS
<1>1. [says |-> "nothing", comment |-> FALSE] \in Text /\ "nothing" \notin PythonOnly
  BY DEF Text, PythonOnly
<1>2. NoDirective \in Directive
  BY DEF NoDirective, Directive
<1>3. text \in [Lines -> Text] /\ \A s \in Lines : text[s].says = "nothing"
  BY <1>1 DEF Init
<1>4. ignore \in [Lines -> Directive]
  BY <1>2 DEF Init
<1>5. manifest \in Manifests /\ ~Reported
  BY ReportAssumption DEF ReportAssumption, Init, Reported
<1> QED BY <1>1, <1>3, <1>4, <1>5 DEF IInv

\* Every run, edit and tidying keeps the invariant.
LEMMA InvNext == IInv /\ [Next]_vars => IInv'
<1> SUFFICES ASSUME IInv, [Next]_vars
             PROVE  IInv'
  OBVIOUS
<1> USE DEF IInv
<1>1. ASSUME NEW s \in Lines, Write(s) PROVE IInv'
  <2>1. PICK t \in Texts : /\ Language[s[1]] = "python" \/ t.says \notin PythonOnly
                           /\ text' = [text EXCEPT ![s] = t]
    BY <1>1 DEF Write
  <2>2. t \in Text
    BY ReportAssumption DEF ReportAssumption
  <2>3. ~Reported' /\ UNCHANGED <<ignore, manifest>>
    BY <1>1 DEF Write, Edited, Reported
  <2>4. text' \in [Lines -> Text]
    BY <2>1, <2>2
  <2>5. \A u \in Lines : text'[u].says \in PythonOnly => Language[u[1]] = "python"
    BY <2>1
  <2> QED BY <2>3, <2>4, <2>5
<1>2. ASSUME NEW s \in Lines, Annotate(s) PROVE IInv'
  <2>1. ignore' \in [Lines -> Directive]
    BY <1>2, ReportAssumption DEF ReportAssumption, Annotate
  <2>2. ~Reported' /\ UNCHANGED <<text, manifest>>
    BY <1>2 DEF Annotate, Edited, Reported
  <2> QED BY <2>1, <2>2
<1>3. ASSUME NEW c, Check(c) PROVE IInv'
  <2>1. UNCHANGED <<text, ignore, manifest>> /\ report' = ReportOf(c.rules, c.form)
    BY <1>3 DEF Check
  <2>2. report'.rules = c.rules /\ report'.form = c.form /\ Whole'
    BY <2>1 DEF ReportOf, Whole
  <2>3. ReportOf(c.rules, c.form)' = ReportOf(c.rules, c.form)
    BY <2>1, ReportStays
  <2>4. Current'
    BY <2>1, <2>2, <2>3 DEF Current
  <2> QED BY <2>1, <2>2, <2>4
<1>4. ASSUME Tidy PROVE IInv'
  <2> DEFINE rules == report.rules
             form  == report.form
  <2>1. UNCHANGED <<text, manifest>> /\ Whole /\ Current
    BY <1>4 DEF Tidy, Reported
  <2>2. /\ report' = [report EXCEPT !.unused = {}]
        /\ ignore' = [s \in Lines |-> IF s \in report.unused THEN NoDirective ELSE ignore[s]]
    BY <1>4 DEF Tidy
  <2>3. /\ report'.rules = rules /\ report'.form = form /\ report'.kept = report.kept
        /\ report'.suppressed = report.suppressed /\ report'.problems = report.problems
        /\ report'.unused = {} /\ report'.results = report.results
        /\ Whole'
    BY <2>1, <2>2 DEF Whole
  <2>4. ignore' \in [Lines -> Directive]
    BY <2>2 DEF NoDirective, Directive
  <2>5. ReportOf(rules, form).unused = report.unused /\ TellsUnused(form)
    <3>1. ReportOf(rules, form).unused = report.unused /\ report.unused # {}
      BY <1>4, <2>1 DEF Current, Tidy
    <3> QED BY <3>1 DEF ReportOf
  <2>6. /\ ReportOf(rules, form).kept' = ReportOf(rules, form).kept
        /\ ReportOf(rules, form).suppressed' = ReportOf(rules, form).suppressed
        /\ ReportOf(rules, form).results' = ReportOf(rules, form).results
        /\ ReportOf(rules, form).unused' = {}
        /\ ReportOf(rules, form).problems' \subseteq ReportOf(rules, form).problems
    BY <2>1, <2>2, <2>5, TidyChangesNothing
  <2>7. Current'
    BY <2>1, <2>3, <2>6 DEF Current
  <2> QED BY <2>1, <2>3, <2>4, <2>7
<1>5. ASSUME UNCHANGED vars PROVE IInv'
  <2>1. UNCHANGED <<text, ignore, manifest, report>>
    BY <1>5 DEF vars
  <2>2. ReportOf(report.rules, report.form)' = ReportOf(report.rules, report.form)
    BY <2>1, ReportStays
  <2>3. Reported' => Whole' /\ Current'
    BY <2>1, <2>2 DEF Reported, Whole, Current
  <2> QED BY <2>1, <2>3
<1> QED BY <1>1, <1>2, <1>3, <1>4, <1>5 DEF Next

\* The invariant holds in every reachable state.
THEOREM Consistency == Spec => []IInv
BY InvInit, InvNext, PTL DEF Spec

\* Deleting the ignore comments a check called unused changes nothing of what
\* its rules report and suppress, however often and in whatever tree.
THEOREM TidyIsSafe == Spec => []TidyKeepsVerdict
<1>1. IInv => TidyKeepsVerdict
  BY DEF IInv, Current, TidyKeepsVerdict
<1> QED BY <1>1, Consistency, PTL

\* In the text of a graded tree every ignore comment that is not cut short by a
\* missing separator has an effect or is told of, in JSON every one that is
\* obeyed; and nothing is suppressed that no comment names.
THEOREM NoneIsSilent == Spec => []DirectivesAccounted
<1>1. IInv => DirectivesAccounted
  <2> SUFFICES ASSUME IInv, Reported
               PROVE  /\ report.form = "text" =>
                            \A s \in Lines : ignore[s].form \notin {"none", "unseparated"} => Answered(s)
                      /\ report.form = "json" =>
                            \A s \in Lines : ignore[s].form = "list" /\ ignore[s].ids # {} => Answered(s)
                      /\ Warranted
    BY DEF DirectivesAccounted
  <2> DEFINE rules == report.rules
             suppressed == {f \in Findings(rules) : Matches(f)}
  <2>1. /\ report.suppressed = suppressed
        /\ report.unused = {s \in Unused(suppressed) : TellsUnused(report.form)}
        /\ {s \in Lines : TellsProblems(report.form) /\ Problem(ignore[s])} \subseteq report.problems
    BY DEF IInv, Current, ReportOf
  <2> HIDE DEF suppressed
  <2>2. ASSUME NEW s \in Lines, TellsUnused(report.form), Obeyed(ignore[s]) # {}
        PROVE  Answered(s)
    BY <2>1, <2>2 DEF Unused, Used, Answered
  <2>3. ASSUME report.form = "text", NEW s \in Lines, ignore[s].form \notin {"none", "unseparated"}
        PROVE  Answered(s)
    <3>1. ignore[s].form \in {"list", "bare"}
      BY <2>3 DEF IInv, Directive
    <3>2. CASE Problem(ignore[s])
      BY <3>2, <2>1, <2>3 DEF Answered, TellsProblems
    <3>3. CASE ~Problem(ignore[s])
      <4>1. Obeyed(ignore[s]) # {}
        BY <3>1, <3>3 DEF Problem, Obeyed
      <4> QED BY <4>1, <2>2, <2>3 DEF TellsUnused
    <3> QED BY <3>2, <3>3
  <2>4. ASSUME report.form = "json", NEW s \in Lines, ignore[s].form = "list", ignore[s].ids # {}
        PROVE  Answered(s)
    BY <2>2, <2>4 DEF TellsUnused, Obeyed
  <2>5. Warranted
    BY <2>1 DEF suppressed, Matches, Obeyed, Warranted
  <2> QED BY <2>3, <2>4, <2>5
<1> QED BY <1>1, Consistency, PTL

\* R010 is reported only where the code has a handler and no server/discover, with
\* a line that shows it, and wherever it has as far as the files tokenize and the
\* manifest is read as it is meant.
THEOREM DiscoverIsHonest == Spec => []DiscoverHonest
<1>1. IInv => DiscoverHonest
  <2> SUFFICES ASSUME IInv, Reported, "R010" \in report.rules,
                      NEW l \in Languages
               PROVE
            LET found == {f \in report.kept : f.rule = "R010" /\ f.language = l}
                code(s, what) == text[s].says \in what /\ ~text[s].comment
                has(what) == \E s \in View(l) : code(s, what)
                intact == \A s \in View(l) : ~Broken(s[1])
            IN  /\ \A f \in found :
                      /\ f.line \in View(l)
                      /\ text[f.line].says \in {"handler", "call", "keyword", "decorator", "general"}
                      /\ intact => ~text[f.line].comment
                      /\ report.form = "sarif" => [rule |-> "R010", line |-> f.line] \in report.results
                /\ found # {} =>
                      /\ ~has({"discover", "discover string"})
                      /\ l = "python" /\ ReadAsMeant(manifest) => AcceptsBelow(manifest, 2)
                /\ (/\ intact /\ ~has({"discover", "discover string"})
                    /\ \/ has({"handler", "call"})
                       \/ has({"evidence"}) /\ has({"decorator", "general"})
                       \/ \E s \in View(l) : code(s, {"keyword"}) /\ Parsed(s[1])
                    /\ l = "python" => (/\ ReadAsMeant(manifest) /\ NothingOptional(manifest)
                                        /\ Bounded(manifest) /\ AcceptsBelow(manifest, 2)))
                      => found # {}
    BY DEF DiscoverHonest, Languages
  <2> DEFINE found == {f \in report.kept : f.rule = "R010" /\ f.language = l}
             code(s, what) == text[s].says \in what /\ ~text[s].comment
             has(what) == \E s \in View(l) : code(s, what)
             intact == \A s \in View(l) : ~Broken(s[1])
             handler == \/ has({"handler", "call"})
                        \/ has({"evidence"}) /\ has({"decorator", "general"})
                        \/ \E s \in View(l) : code(s, {"keyword"}) /\ Parsed(s[1])
             missing == /\ HasRequestHandlers(l) /\ ~HasDiscover(l)
                        /\ l = "python" => FloorBelow(manifest, 2)
             evidence == FirstHandlerRegistration(l)
             finding == [rule |-> "R010", path |-> "(project)", language |-> l, line |-> evidence]
  <2>1. /\ report.kept = {f \in Findings(report.rules) : ~Matches(f)}
        /\ report.results = {Result(f) : f \in {g \in report.kept : report.form = "sarif"}}
    BY DEF IInv, Current, ReportOf
  <2>2. ASSUME NEW f \in SessionIdRemoved PROVE f.rule = "R001"
    <3>1. PICK s \in Search("python", {"session id"}) \cup Search("typescript", {"session id"}) :
             f = [rule |-> "R001", path |-> "file", language |-> Language[s[1]], line |-> s]
      BY DEF SessionIdRemoved
    <3> QED BY <3>1
  <2>3. \A f : f \in ServerDiscoverMissing /\ f.language = l <=> f = finding /\ missing
    <3>1. ASSUME NEW f \in ServerDiscoverMissing, f.language = l
          PROVE  f = finding /\ missing
      <4>1. PICK k \in Languages :
               /\ f = [rule |-> "R010", path |-> "(project)", language |-> k,
                       line |-> FirstHandlerRegistration(k)]
               /\ HasRequestHandlers(k) /\ ~HasDiscover(k)
               /\ k = "python" => FloorBelow(manifest, 2)
        BY <3>1 DEF ServerDiscoverMissing, Languages
      <4>2. k = l
        BY <4>1, <3>1
      <4> QED BY <4>1, <4>2
    <3>2. missing => finding \in ServerDiscoverMissing /\ finding.language = l
      BY DEF ServerDiscoverMissing, Languages
    <3> QED BY <3>1, <3>2
  <2>4. \A f \in ServerDiscoverMissing : f.rule = "R010" /\ ~Matches(f)
    BY DEF ServerDiscoverMissing, Matches
  <2>5. \A f : f \in found <=> f = finding /\ missing
    <3> HIDE DEF finding, missing
    <3> QED BY <2>1, <2>2, <2>3, <2>4 DEF Findings
  <2>6. ASSUME NEW f \in found
        PROVE  /\ f.line \in View(l)
               /\ text[f.line].says \in {"handler", "call", "keyword", "decorator", "general"}
               /\ intact => ~text[f.line].comment
               /\ report.form = "sarif" => [rule |-> "R010", line |-> f.line] \in report.results
    <3>1. f = finding /\ HasRequestHandlers(l)
      BY <2>5, <2>6
    <3>2. f.line = evidence /\ f.rule = "R010"
      BY <3>1
    <3>3. Result(f) = [rule |-> "R010", line |-> f.line]
      BY <3>2 DEF Result
    <3>4. report.form = "sarif" => Result(f) \in report.results
      BY <2>1
    <3> QED BY <3>1, <3>2, <3>3, <3>4, EvidenceExists
  <2>7. ASSUME found # {}
        PROVE  /\ ~has({"discover", "discover string"})
               /\ l = "python" /\ ReadAsMeant(manifest) => AcceptsBelow(manifest, 2)
    <3>1. missing
      <4> HIDE DEF found, missing, finding
      <4> QED BY <2>5, <2>7
    <3>2. ~has({"discover", "discover string"})
      BY <3>1 DEF HasDiscover, Search
    <3> QED BY <3>1, <3>2, FloorMeansAccepts DEF IInv
  <2>8. ASSUME intact, ~has({"discover", "discover string"}), handler,
               l = "python" => (/\ ReadAsMeant(manifest) /\ NothingOptional(manifest)
                                /\ Bounded(manifest) /\ AcceptsBelow(manifest, 2))
        PROVE  found # {}
    <3>1. ~HasDiscover(l)
      BY <2>8 DEF HasDiscover, Search
    <3>2. \A what : \A s \in View(l) : code(s, what) => s \in Search(l, what)
      BY DEF Search
    <3>3. ASSUME NEW s \in View(l), code(s, {"call", "keyword"}),
                 text[s].says = "keyword" => Parsed(s[1])
          PROVE  HasRequestHandlers(l)
      <4>1. s \in Lines /\ l = "python"
        BY <3>3 DEF IInv, View, PythonOnly
      <4>2. s \in ServerCallKeywords
        BY <3>2, <3>3, <4>1 DEF ServerCallKeywords
      <4> QED BY <4>1, <4>2 DEF HasRequestHandlers
    <3>4. HasRequestHandlers(l)
      <4>1. CASE has({"handler", "call"})
        <5>1. PICK s \in View(l) : code(s, {"handler", "call"})
          BY <4>1
        <5>2. CASE text[s].says = "handler"
          <6>1. s \in Search(l, {"handler"})
            BY <5>1, <5>2 DEF Search
          <6> QED BY <6>1 DEF HasRequestHandlers
        <5>3. CASE text[s].says = "call"
          BY <5>1, <5>3, <3>3
        <5> QED BY <5>1, <5>2, <5>3
      <4>2. CASE has({"evidence"}) /\ has({"decorator", "general"})
        <5>1. Search(l, {"evidence"}) # {} /\ Search(l, {"decorator", "general"}) # {}
          BY <4>2 DEF Search
        <5> QED BY <5>1 DEF HasRequestHandlers
      <4>3. CASE \E s \in View(l) : code(s, {"keyword"}) /\ Parsed(s[1])
        <5>1. PICK s \in View(l) : code(s, {"keyword"}) /\ Parsed(s[1])
          BY <4>3
        <5> QED BY <5>1, <3>3
      <4> QED BY <2>8, <4>1, <4>2, <4>3
    <3>5. l = "python" => FloorBelow(manifest, 2)
      BY <2>8, AcceptsMeansFloor DEF IInv
    <3>6. missing
      BY <3>1, <3>4, <3>5
    <3>7. finding \in found
      <4> HIDE DEF found, missing, finding
      <4> QED BY <2>5, <3>6
    <3> QED BY <3>7
  <2> QED BY <2>6, <2>7, <2>8
<1> QED BY <1>1, Consistency, PTL
=============================================================================
