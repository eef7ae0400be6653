------------------------ MODULE BaselineGate_proofs ------------------------
(***************************************************************************)
(* Theorems about BaselineGate, for every tree, rule set and baseline.     *)
(***************************************************************************)
EXTENDS BaselineGate, FiniteSetTheorems, FunctionTheorems, WellFoundedInduction,
        SequenceTheorems, TLAPS

-----------------------------------------------------------------------------
(***************************************************************************)
(* The operators of Findings: what a scan returns, what its tally counts,  *)
(* and when the multiset match leaves a finding over.                      *)
(***************************************************************************)

Below == {ss \in Nat \X Nat : ss[1] < ss[2]}

\* A non-empty set of naturals has a least member.
LEMMA LeastNat ==
    ASSUME NEW S \in SUBSET Nat, S # {}
    PROVE  \E m \in S : \A n \in S : m <= n
<1>1. IsWellFoundedOn(Below, Nat)
  BY NatLessThanWellFounded DEF OpToRel, Below
<1>2. PICK m \in S : \A y \in S : ~(<<y, m>> \in Below)
  BY <1>1, WFMin
<1>3. ASSUME NEW n \in S PROVE m <= n
  <2>1. n \in Nat /\ m \in Nat  OBVIOUS
  <2>2. n < m => <<n, m>> \in Below BY <2>1 DEF Below
  <2> QED BY <1>2, <2>1, <2>2
<1> QED BY <1>3

\* The range of a function with a finite domain is finite.
LEMMA ImageFinite ==
    ASSUME NEW f, IsFiniteSet(DOMAIN f)
    PROVE  IsFiniteSet({f[x] : x \in DOMAIN f})
<1> DEFINE R == {f[x] : x \in DOMAIN f}
           g == [x \in DOMAIN f |-> f[x]]
<1>1. g \in Surjection(DOMAIN f, R)
  BY DEF Surjection
<1> HIDE DEF R, g
<1>2. IsFiniteSet(R)
  BY <1>1, FS_Surjection
<1> QED BY <1>2 DEF R

-----------------------------------------------------------------------------

\* The path and the line of a file under the root are those of a finding.
LEMMA MatchType ==
    ASSUME NEW root \in Roots, NEW texts \in [Paths -> File], NEW p \in Under(root),
           NEW i \in DOMAIN texts[p], NEW m \in Marks[texts[p][i].text]
    PROVE  /\ Match(root, p, i, texts[p][i], m) \in Finding
           /\ Match(root, p, i, texts[p][i], m).path # NoPath
<1>1. p \in Paths
  BY DEF Under
<1>2. texts[p] \in Seq(Line) /\ Len(texts[p]) \in Nat /\ Len(texts[p]) <= MaxLines
  BY <1>1 DEF File
<1>3. i \in 0..MaxLines /\ texts[p][i] \in Line
  BY <1>2, FindingsAssumption, GradingAssumption DEF FindingsAssumption, GradingAssumption
<1>4. texts[p][i].text \in Texts
  BY <1>3 DEF Line
<1>5. m \in Mark
  BY <1>4, FindingsAssumption, GradingAssumption DEF FindingsAssumption, GradingAssumption
<1>6. Relative(root, p) \in RelPaths
  BY <1>1 DEF RelPaths
<1> QED BY <1>3, <1>5, <1>6, FindingsAssumption DEF Match, Mark, Finding, FindingsAssumption

\* A scan's matches are finitely many findings of the active rules.
LEMMA MatchesType ==
    ASSUME NEW root \in Roots, NEW texts \in [Paths -> File], NEW active \in SUBSET Rules
    PROVE  /\ Matches(root, texts, active) \subseteq Finding
           /\ IsFiniteSet(Matches(root, texts, active))
           /\ \A f \in Matches(root, texts, active) : f.rule \in active /\ f.path # NoPath
<1> DEFINE At(p, i) == {m \in Marks[texts[p][i].text] : m.rule \in active \ Silenced(texts[p])}
           OnLine(p, i) == {Match(root, p, i, texts[p][i], m) : m \in At(p, i)}
           InFile(p) == UNION {OnLine(p, i) : i \in DOMAIN texts[p]}
<1>1. Matches(root, texts, active) = UNION {InFile(p) : p \in Under(root)}
  BY DEF Matches
<1>2. \A f \in Matches(root, texts, active) :
          f \in Finding /\ f.rule \in active /\ f.path # NoPath
  BY <1>1, MatchType DEF Match
<1>3. ASSUME NEW p \in Under(root), NEW i \in DOMAIN texts[p]
      PROVE  IsFiniteSet(OnLine(p, i))
  <2>1. p \in Paths /\ texts[p] \in Seq(Line)
    BY DEF Under, File
  <2>2. texts[p][i].text \in Texts
    <3>1. texts[p][i] \in Line
      BY <2>1
    <3> QED BY <3>1 DEF Line
  <2>3. IsFiniteSet(Marks[texts[p][i].text])
    BY <2>2, FindingsAssumption, GradingAssumption DEF FindingsAssumption, GradingAssumption
  <2>4. IsFiniteSet(At(p, i))
    BY <2>3, FS_Subset
  <2> DEFINE h == [m \in At(p, i) |-> Match(root, p, i, texts[p][i], m)]
  <2>5. IsFiniteSet(DOMAIN h)
    BY <2>4
  <2>6. OnLine(p, i) = {h[m] : m \in DOMAIN h}
    OBVIOUS
  <2> HIDE DEF h, OnLine
  <2> QED BY <2>5, <2>6, ImageFinite
<1>4. ASSUME NEW p \in Under(root) PROVE IsFiniteSet(InFile(p))
  <2>1. texts[p] \in Seq(Line)
    BY DEF Under, File
  <2>2. IsFiniteSet(DOMAIN texts[p])
    BY <2>1, FS_Interval
  <2> DEFINE h == [i \in DOMAIN texts[p] |-> OnLine(p, i)]
  <2>3. IsFiniteSet(DOMAIN h)
    BY <2>2
  <2>4. InFile(p) = UNION {h[i] : i \in DOMAIN h}
    <3> HIDE DEF OnLine
    <3> QED OBVIOUS
  <2>5. \A S \in {h[i] : i \in DOMAIN h} : IsFiniteSet(S)
    BY <1>3
  <2> HIDE DEF h, InFile
  <2> QED BY <2>3, <2>4, <2>5, ImageFinite, FS_UNION
<1>5. IsFiniteSet(Matches(root, texts, active))
  <2>1. IsFiniteSet(Under(root))
    <3>1. Under(root) \in SUBSET Paths
      BY DEF Under
    <3> QED BY <3>1, FS_Subset, FindingsAssumption, GradingAssumption DEF FindingsAssumption, GradingAssumption
  <2> DEFINE h == [p \in Under(root) |-> InFile(p)]
  <2>2. IsFiniteSet(DOMAIN h)
    BY <2>1
  <2> HIDE DEF InFile
  <2>3. Matches(root, texts, active) = UNION {h[p] : p \in DOMAIN h}
    BY <1>1
  <2>4. \A S \in {h[p] : p \in DOMAIN h} : IsFiniteSet(S)
    BY <1>4
  <2> HIDE DEF h
  <2> QED BY <2>2, <2>3, <2>4, ImageFinite, FS_UNION
<1> QED BY <1>2, <1>5

\* The findings about the texts as a whole: at most one per active rule.
LEMMA ProjectFindingsType ==
    ASSUME NEW root, NEW texts, NEW active \in SUBSET Rules
    PROVE  /\ ProjectFindings(root, texts, active) \subseteq Finding
           /\ IsFiniteSet(ProjectFindings(root, texts, active))
           /\ \A f \in ProjectFindings(root, texts, active) :
                 f.rule \in active /\ f.path = NoPath
<1> DEFINE R == {r \in ProjectRules \cap active :
                   /\ TextsUnder(root, texts) \cap Opens # {}
                   /\ TextsUnder(root, texts) \cap Closes = {}}
           h == [r \in R |-> [rule |-> r, path |-> NoPath, line |-> 0,
                              snippet |-> NoSnippet, feature |-> NoFeature, order |-> 1]]
<1>1. ProjectFindings(root, texts, active) = {h[r] : r \in DOMAIN h}
  BY DEF ProjectFindings
<1>2. 1 \in 1..MaxOrder /\ 0 \in 0..MaxLines
  BY FindingsAssumption, GradingAssumption DEF FindingsAssumption, GradingAssumption
<1>3. \A r \in R : h[r] \in Finding /\ h[r].rule \in active /\ h[r].path = NoPath
  BY <1>2 DEF Finding
<1>4. IsFiniteSet(DOMAIN h)
  <2>1. R \in SUBSET Rules
    OBVIOUS
  <2>2. IsFiniteSet(R)
    BY <2>1, FS_Subset, FindingsAssumption, GradingAssumption DEF FindingsAssumption, GradingAssumption
  <2> QED BY <2>2
<1>5. DOMAIN h = R
  OBVIOUS
<1> HIDE DEF h, R
<1>6. IsFiniteSet(ProjectFindings(root, texts, active))
  BY <1>1, <1>4, ImageFinite
<1> QED BY <1>1, <1>3, <1>5, <1>6

\* What a run has after suppression and the merge.
LEMMA ScanType ==
    ASSUME NEW root \in Roots, NEW texts \in [Paths -> File], NEW active \in SUBSET Rules
    PROVE  LET F == Dedupe(Kept(RawFindings(root, texts, active)))
           IN  /\ F \subseteq Finding
               /\ IsFiniteSet(F)
               /\ \A f \in F : f.rule \in active
<1> DEFINE M == Matches(root, texts, active)
           P == ProjectFindings(root, texts, active)
           F == Dedupe(Kept(RawFindings(root, texts, active)))
<1>1. F \subseteq M \cup P
  BY DEF Dedupe, Kept, RawFindings, Reported
<1>2. /\ M \subseteq Finding /\ IsFiniteSet(M) /\ \A f \in M : f.rule \in active
  BY MatchesType
<1>3. /\ P \subseteq Finding /\ IsFiniteSet(P) /\ \A f \in P : f.rule \in active
  BY ProjectFindingsType
<1> HIDE DEF M, P, F
<1>4. IsFiniteSet(M \cup P)
  BY <1>2, <1>3, FS_Union
<1>5. IsFiniteSet(F)
  BY <1>1, <1>4, FS_Subset
<1> QED BY <1>1, <1>2, <1>3, <1>5 DEF F

-----------------------------------------------------------------------------

\* Among findings there is one no other is reported after.
LEMMA LastFinding ==
    ASSUME NEW F \in SUBSET Finding, F # {}
    PROVE  \E f \in F : \A g \in F : NotAfter(g, f)
<1>1. MaxLines \in Nat /\ MaxOrder \in Nat
  BY FindingsAssumption, GradingAssumption DEF FindingsAssumption, GradingAssumption
<1>2. \A f \in F : f.line \in 0..MaxLines /\ f.order \in 1..MaxOrder
  BY DEF Finding
<1> DEFINE L == {MaxLines - f.line : f \in F}
<1>3. L \in SUBSET Nat /\ L # {}
  BY <1>1, <1>2
<1>4. PICK a \in L : \A b \in L : a <= b
  BY <1>3, LeastNat
<1> DEFINE G == {f \in F : MaxLines - f.line = a}
           O == {MaxOrder - f.order : f \in G}
<1>5. O \in SUBSET Nat /\ O # {}
  BY <1>1, <1>2
<1>6. PICK c \in O : \A d \in O : c <= d
  BY <1>5, LeastNat
<1>7. PICK f \in G : MaxOrder - f.order = c
  OBVIOUS
<1>8. ASSUME NEW g \in F PROVE NotAfter(g, f)
  <2>1. f \in F /\ MaxLines - f.line = a
    OBVIOUS
  <2>2. a <= MaxLines - g.line
    BY <1>4
  <2>3. CASE g.line = f.line
    <3>1. g \in G
      BY <2>1, <2>3
    <3>2. c <= MaxOrder - g.order
      BY <1>6, <3>1
    <3> QED BY <1>1, <1>2, <1>7, <2>1, <2>3, <3>2 DEF NotAfter
  <2>4. CASE g.line # f.line
    BY <1>1, <1>2, <2>1, <2>2, <2>4 DEF NotAfter
  <2> QED BY <2>3, <2>4
<1>9. f \in F
  OBVIOUS
<1> QED BY <1>8, <1>9

\* A finite set of findings has a natural number of findings of each key, and
\* at least one of the key of each of its findings.
LEMMA CountType ==
    ASSUME NEW F, IsFiniteSet(F)
    PROVE  /\ \A k : CountOf(F, k) \in Nat
           /\ \A k : k \in {Key(f) : f \in F} <=> CountOf(F, k) > 0
<1>1. \A k : OfKey(F, k) \in SUBSET F
  BY DEF OfKey
<1>2. \A k : IsFiniteSet(OfKey(F, k))
  BY <1>1, FS_Subset
<1>3. \A k : CountOf(F, k) \in Nat
  BY <1>2, FS_CardinalityType DEF CountOf
<1>4. ASSUME NEW k PROVE k \in {Key(f) : f \in F} <=> OfKey(F, k) # {}
  BY DEF OfKey
<1>5. \A k : CountOf(F, k) = 0 <=> OfKey(F, k) = {}
  BY <1>2, FS_EmptySet DEF CountOf
<1> QED BY <1>3, <1>4, <1>5

\* The tally is a bag of keys that counts every finding.
LEMMA TallyType ==
    ASSUME NEW F \in SUBSET Finding, IsFiniteSet(F)
    PROVE  /\ BagOver(Keys, Tally(F))
           /\ \A k : Copies(k, Tally(F)) = CountOf(F, k)
<1>1. \A f \in F : Key(f) \in Keys
  BY DEF Key, Keys, Finding
<1>2. DOMAIN Tally(F) = {Key(f) : f \in F}
  BY DEF Tally
<1>3. \A k \in DOMAIN Tally(F) : Tally(F)[k] = CountOf(F, k)
  BY DEF Tally
<1>4. \A k \in DOMAIN Tally(F) : CountOf(F, k) \in Nat \ {0}
  BY <1>2, CountType
<1>5. Tally(F) \in [DOMAIN Tally(F) -> Nat \ {0}]
  BY <1>3, <1>4 DEF Tally
<1>6. \A k : Copies(k, Tally(F)) = CountOf(F, k)
  BY <1>2, <1>3, CountType DEF Copies
<1> QED BY <1>1, <1>2, <1>5, <1>6 DEF BagOver

\* Copies of a bag are natural numbers.
LEMMA CopiesType ==
    ASSUME NEW S, NEW B, BagOver(S, B)
    PROVE  /\ \A k : Copies(k, B) \in Nat
           /\ \A k : k \in DOMAIN B <=> Copies(k, B) > 0
  BY DEF BagOver, Copies

\* Only a key found more often than it is accepted has a new finding.
LEMMA NewHasExcess ==
    ASSUME NEW F, IsFiniteSet(F), NEW S, NEW B, BagOver(S, B), NEW f \in NewFindings(F, B)
    PROVE  f \in F /\ CountOf(F, Key(f)) > Copies(Key(f), B)
<1> DEFINE Before == {g \in OfKey(F, Key(f)) : NotAfter(g, f)}
<1>1. f \in F /\ ~(Cardinality(Before) <= Copies(Key(f), B))
  BY DEF NewFindings, KnownFindings
<1>2. OfKey(F, Key(f)) \in SUBSET F /\ Before \in SUBSET OfKey(F, Key(f))
  BY DEF OfKey
<1> HIDE DEF Before
<1>3. IsFiniteSet(OfKey(F, Key(f)))
  BY <1>2, FS_Subset
<1>4. /\ IsFiniteSet(Before)
      /\ Cardinality(Before) <= Cardinality(OfKey(F, Key(f)))
  BY <1>2, <1>3, FS_Subset
<1>5. Cardinality(Before) \in Nat /\ Cardinality(OfKey(F, Key(f))) \in Nat
  BY <1>3, <1>4, FS_CardinalityType
<1>6. Copies(Key(f), B) \in Nat
  BY CopiesType
<1> QED BY <1>1, <1>4, <1>5, <1>6 DEF CountOf

\* A key found more often than it is accepted has one: the last of its findings.
LEMMA ExcessIsNew ==
    ASSUME NEW F \in SUBSET Finding, IsFiniteSet(F), NEW S, NEW B, BagOver(S, B), NEW k,
           CountOf(F, k) > Copies(k, B)
    PROVE  \E f \in NewFindings(F, B) : Key(f) = k
<1>1. Copies(k, B) \in Nat /\ CountOf(F, k) \in Nat
  BY CopiesType, CountType
<1>2. OfKey(F, k) \in SUBSET Finding
  BY DEF OfKey
<1>3. OfKey(F, k) # {}
  BY <1>1, FS_EmptySet DEF CountOf
<1>4. PICK f \in OfKey(F, k) : \A g \in OfKey(F, k) : NotAfter(g, f)
  BY <1>2, <1>3, LastFinding
<1>5. f \in F /\ Key(f) = k
  BY DEF OfKey
<1>6. {g \in OfKey(F, Key(f)) : NotAfter(g, f)} = OfKey(F, k)
  BY <1>4, <1>5
<1>7. ~(Cardinality({g \in OfKey(F, Key(f)) : NotAfter(g, f)}) <= Copies(Key(f), B))
  BY <1>1, <1>5, <1>6 DEF CountOf
<1>8. f \in NewFindings(F, B)
  BY <1>5, <1>7 DEF NewFindings, KnownFindings
<1> QED BY <1>5, <1>8

\* baseline.apply's match against the entries, in the order of the lines, is a
\* comparison of multisets: a key has a new finding exactly when it is found
\* more often than the entries hold it.
THEOREM NewIsExcess ==
    ASSUME NEW F \in SUBSET Finding, IsFiniteSet(F), NEW S, NEW B, BagOver(S, B)
    PROVE  \A k : (\E f \in NewFindings(F, B) : Key(f) = k) <=> CountOf(F, k) > Copies(k, B)
<1> SUFFICES ASSUME NEW k
             PROVE  (\E f \in NewFindings(F, B) : Key(f) = k) <=> CountOf(F, k) > Copies(k, B)
  OBVIOUS
<1>1. ASSUME NEW f \in NewFindings(F, B), Key(f) = k
      PROVE  CountOf(F, k) > Copies(k, B)
  BY <1>1, NewHasExcess
<1>2. CountOf(F, k) > Copies(k, B) => \E f \in NewFindings(F, B) : Key(f) = k
  BY ExcessIsNew
<1> QED BY <1>1, <1>2

\* The multiset match fails a run exactly for a blocking key in excess.
LEMMA ExitIsExcess ==
    ASSUME NEW F \in SUBSET Finding, IsFiniteSet(F), NEW S, NEW B, BagOver(S, B), NEW failOn
    PROVE  ExitFor(NewFindings(F, B), failOn) = 1 <=>
             \E k \in {Key(f) : f \in F} : /\ Blocking(k[1], failOn)
                                          /\ CountOf(F, k) > Copies(k, B)
<1>1. ASSUME NEW f \in NewFindings(F, B), Blocking(f.rule, failOn)
      PROVE  \E k \in {Key(g) : g \in F} : /\ Blocking(k[1], failOn)
                                           /\ CountOf(F, k) > Copies(k, B)
  <2>1. f \in F /\ CountOf(F, Key(f)) > Copies(Key(f), B)
    BY NewHasExcess
  <2>2. Key(f)[1] = f.rule
    BY DEF Key
  <2> QED BY <1>1, <2>1, <2>2
<1>2. ASSUME NEW k \in {Key(g) : g \in F}, Blocking(k[1], failOn),
             CountOf(F, k) > Copies(k, B)
      PROVE  \E f \in NewFindings(F, B) : Blocking(f.rule, failOn)
  <2>1. PICK f \in NewFindings(F, B) : Key(f) = k
    BY <1>2, ExcessIsNew
  <2>2. k[1] = f.rule
    BY <2>1 DEF Key
  <2> QED BY <1>2, <2>2
<1> QED BY <1>1, <1>2 DEF ExitFor

\* Entries left over are a bag of keys, each accepted more often than found.
LEMMA StaleType ==
    ASSUME NEW F, IsFiniteSet(F), NEW S, NEW B, BagOver(S, B)
    PROVE  /\ BagOver(S, StaleEntries(F, B))
           /\ \A k \in DOMAIN StaleEntries(F, B) : Copies(k, B) > CountOf(F, k)
<1> DEFINE D == {k \in DOMAIN B : B[k] > CountOf(F, k)}
<1>1. \A k \in D : CountOf(F, k) \in Nat /\ B[k] \in Nat
  BY CountType DEF BagOver
<1>2. \A k \in D : B[k] - CountOf(F, k) \in Nat \ {0}
  BY <1>1
<1>3. StaleEntries(F, B) = [k \in D |-> B[k] - CountOf(F, k)]
  BY DEF StaleEntries
<1>4. StaleEntries(F, B) \in [DOMAIN StaleEntries(F, B) -> Nat \ {0}]
  BY <1>2, <1>3
<1>5. DOMAIN StaleEntries(F, B) = D
  BY <1>3
<1>6. D \subseteq S
  BY DEF BagOver
<1>7. \A k \in D : Copies(k, B) > CountOf(F, k)
  BY DEF Copies
<1> QED BY <1>4, <1>5, <1>6, <1>7 DEF BagOver

-----------------------------------------------------------------------------

\* A rule that is on, is not of the merged pair and does not stop at its first
\* hit has one finding for every unsuppressed match.
LEMMA OneFindingPerMatch ==
    ASSUME NEW root, NEW texts, NEW off \in SUBSET Rules,
           NEW k \in Keys, k[1] \notin off \cup Representative
    PROVE  OfKey(Dedupe(Kept(RawFindings(root, texts, Rules \ off))), k)
             = OfKey(Kept(Matches(root, texts, Rules) \cup ProjectFindings(root, texts, Rules)), k)
<1> DEFINE A == Rules \ off
           Raw == RawFindings(root, texts, A)
           All == Matches(root, texts, Rules) \cup ProjectFindings(root, texts, Rules)
<1>1. k[1] \in A
  BY DEF Keys
<1>2. ASSUME NEW f, f.rule = k[1]
      PROVE  f \in Matches(root, texts, A) <=> f \in Matches(root, texts, Rules)
  BY <1>1, <1>2 DEF Matches, Match
<1>3. ASSUME NEW f, f.rule = k[1]
      PROVE  f \in ProjectFindings(root, texts, A) <=> f \in ProjectFindings(root, texts, Rules)
  BY <1>1, <1>3 DEF ProjectFindings
<1>4. ASSUME NEW f, f.rule = k[1]
      PROVE  f \in Raw <=> f \in All
  <2>1. f.rule \notin FirstOnly
    BY <1>4 DEF Representative
  <2>2. f \in Reported(Matches(root, texts, A)) <=> f \in Matches(root, texts, A)
    BY <2>1 DEF Reported
  <2> QED BY <1>2, <1>3, <1>4, <2>2 DEF RawFindings
<1>5. ASSUME NEW F, NEW f, f.rule = k[1]
      PROVE  f \in Dedupe(F) <=> f \in F
  BY <1>5 DEF Dedupe, Merges, Representative
<1>6. ASSUME NEW f, f.rule = k[1]
      PROVE  f \in Dedupe(Kept(Raw)) <=> f \in Kept(All)
  <2> HIDE DEF Raw, All
  <2>1. f \in Dedupe(Kept(Raw)) <=> f \in Kept(Raw)
    BY <1>5, <1>6
  <2>2. f \in Kept(Raw) <=> f \in Kept(All)
    BY <1>4, <1>6 DEF Kept
  <2> QED BY <2>1, <2>2
<1>7. \A f : Key(f) = k => f.rule = k[1]
  BY DEF Key
<1> QED BY <1>6, <1>7 DEF OfKey

-----------------------------------------------------------------------------
(***************************************************************************)
(* The merge of the overlapping pair.                                      *)
(***************************************************************************)

\* Ranks are numbers, and tell severities apart.
LEMMA RankType ==
    ASSUME NEW r \in Rules, NEW s \in Rules
    PROVE  /\ Rank(r) \in 0..2
           /\ Rank(r) = Rank(s) => Severity[r] = Severity[s]
<1>1. Severity[r] \in Severities /\ Severity[s] \in Severities
  BY GradingAssumption DEF GradingAssumption
<1>2. /\ SeverityRank["breaking"] = 0 /\ SeverityRank["deprecated"] = 1
      /\ SeverityRank["advisory"] = 2
  BY DEF SeverityRank
<1> QED BY <1>1, <1>2 DEF Rank, Severities

\* Among findings there is one that beats them all.
LEMMA StrongestFinding ==
    ASSUME NEW F \in SUBSET Finding, F # {}
    PROVE  \E f \in F : \A g \in F : Beats(f, g)
<1>1. MaxLines \in Nat /\ MaxOrder \in Nat
  BY FindingsAssumption DEF FindingsAssumption
<1>2. \A f \in F : f.line \in Nat /\ f.order \in Nat /\ f.rule \in Rules
  BY <1>1 DEF Finding
<1>3. \A f \in F : Rank(f.rule) \in Nat
  <2>1. \A r \in Rules : Rank(r) \in 0..2
    BY RankType
  <2> QED BY <1>2, <2>1
<1> DEFINE R == {Rank(f.rule) : f \in F}
<1>4. PICK a \in R : \A b \in R : a <= b
  <2>1. R \in SUBSET Nat /\ R # {}
    BY <1>3
  <2> QED BY <2>1, LeastNat
<1> DEFINE G == {f \in F : Rank(f.rule) = a}
           L == {f.line : f \in G}
<1>5. PICK c \in L : \A d \in L : c <= d
  <2>1. L \in SUBSET Nat /\ L # {}
    BY <1>2
  <2> QED BY <2>1, LeastNat
<1> DEFINE H == {f \in G : f.line = c}
           O == {f.order : f \in H}
<1>6. PICK e \in O : \A d \in O : e <= d
  <2>1. O \in SUBSET Nat /\ O # {}
    BY <1>2
  <2> QED BY <2>1, LeastNat
<1>7. PICK f \in H : f.order = e
  OBVIOUS
<1>8. f \in F /\ Rank(f.rule) = a /\ f.line = c
  BY <1>7
<1>9. ASSUME NEW g \in F PROVE Beats(f, g)
  <2>1. a <= Rank(g.rule)
    BY <1>4
  <2>2. CASE Rank(g.rule) # a
    BY <1>3, <1>8, <2>1, <2>2 DEF Beats
  <2>3. CASE Rank(g.rule) = a
    <3>1. g \in G /\ c <= g.line
      BY <1>5, <2>3
    <3>2. CASE g.line # c
      BY <1>2, <1>8, <2>3, <3>1, <3>2 DEF Beats, NotAfter
    <3>3. CASE g.line = c
      <4>1. e <= g.order
        BY <1>6, <3>1, <3>3
      <4> QED BY <1>7, <1>8, <2>3, <3>3, <4>1 DEF Beats, NotAfter
    <3> QED BY <3>2, <3>3
  <2> QED BY <2>2, <2>3
<1> QED BY <1>8, <1>9

\* Two files under a root differ in their path below it.
LEMMA RelativeApart ==
    ASSUME NEW root \in Roots, NEW p \in Under(root), NEW q \in Under(root),
           Relative(root, p) = Relative(root, q)
    PROVE  p = q
<1> DEFINE S == {p[i] : i \in DOMAIN p}
           T == {q[i] : i \in DOMAIN q}
           R == {root[i] : i \in DOMAIN root}
           n == Len(root)
<1>1. p \in Seq(S) /\ q \in Seq(T) /\ root \in Seq(R)
  BY FindingsAssumption DEF FindingsAssumption, Under
<1>2. /\ n < Len(p) /\ SubSeq(p, 1, n) = root
      /\ n < Len(q) /\ SubSeq(q, 1, n) = root
  BY DEF Under
<1> HIDE DEF S, T, R, n
<1>3. n \in Nat /\ Len(p) \in Nat /\ Len(q) \in Nat
  BY <1>1 DEF n
<1>4. SubSeq(p, n + 1, Len(p)) = SubSeq(q, n + 1, Len(q))
  BY DEF Relative, n
<1>5. /\ Len(SubSeq(p, n + 1, Len(p))) = Len(p) - n
      /\ Len(SubSeq(q, n + 1, Len(q))) = Len(q) - n
  BY <1>1, <1>2, <1>3
<1>6. Len(p) = Len(q)
  BY <1>3, <1>4, <1>5
<1>7. ASSUME NEW i \in 1..Len(p) PROVE p[i] = q[i]
  <2>1. CASE i <= n
    <3>1. SubSeq(p, 1, n)[i] = p[i] /\ SubSeq(q, 1, n)[i] = q[i]
      BY <1>1, <1>2, <1>3, <2>1
    <3> QED BY <1>2, <3>1
  <2>2. CASE i > n
    <3> DEFINE j == i - n
    <3>1. j \in 1..(Len(p) - n) /\ n + j = i
      BY <1>3, <2>2
    <3>2. /\ SubSeq(p, n + 1, Len(p))[j] = p[(n + 1) + j - 1]
          /\ SubSeq(q, n + 1, Len(q))[j] = q[(n + 1) + j - 1]
      BY <1>1, <1>2, <1>3, <1>6, <3>1
    <3>3. (n + 1) + j - 1 = i
      BY <1>3, <3>1
    <3> QED BY <1>4, <3>2, <3>3
  <2> QED BY <1>3, <2>1, <2>2
<1>8. p = [i \in 1..Len(p) |-> p[i]] /\ q = [i \in 1..Len(q) |-> q[i]]
  BY <1>1
<1> QED BY <1>6, <1>7, <1>8

\* A rule, a place and an order make one match.
LEMMA OneMatchPerPlace ==
    ASSUME NEW root \in Roots,
           NEW texts \in [Paths -> File], NEW active \in SUBSET Rules,
           NEW f \in Matches(root, texts, active), NEW g \in Matches(root, texts, active),
           f.rule = g.rule, f.path = g.path, f.line = g.line, f.order = g.order
    PROVE  f = g
<1>1. PICK p \in Under(root) : \E i \in DOMAIN texts[p] :
          \E m \in Marks[texts[p][i].text] : f = Match(root, p, i, texts[p][i], m)
  BY DEF Matches
<1>2. PICK i \in DOMAIN texts[p] :
          \E m \in Marks[texts[p][i].text] : f = Match(root, p, i, texts[p][i], m)
  BY <1>1
<1>3. PICK m \in Marks[texts[p][i].text] : f = Match(root, p, i, texts[p][i], m)
  BY <1>2
<1>4. PICK q \in Under(root) : \E j \in DOMAIN texts[q] :
          \E n \in Marks[texts[q][j].text] : g = Match(root, q, j, texts[q][j], n)
  BY DEF Matches
<1>5. PICK j \in DOMAIN texts[q] :
          \E n \in Marks[texts[q][j].text] : g = Match(root, q, j, texts[q][j], n)
  BY <1>4
<1>6. PICK n \in Marks[texts[q][j].text] : g = Match(root, q, j, texts[q][j], n)
  BY <1>5
<1>7. /\ f.path = Relative(root, p) /\ f.line = i /\ f.rule = m.rule /\ f.order = m.order
      /\ g.path = Relative(root, q) /\ g.line = j /\ g.rule = n.rule /\ g.order = n.order
  BY <1>3, <1>6 DEF Match
<1>8. p = q /\ i = j
  BY <1>7, RelativeApart
<1>9. texts[p][i].text \in Texts
  <2>1. p \in Paths
    BY DEF Under
  <2>2. texts[p] \in Seq(Line)
    BY <2>1 DEF File
  <2>3. texts[p][i] \in Line
    BY <2>2
  <2> QED BY <2>3 DEF Line
<1>10. m = n
  <2>1. \A t \in Texts : \A a, b \in Marks[t] : a.rule = b.rule /\ a.order = b.order => a = b
    BY FindingsAssumption DEF FindingsAssumption
  <2>2. n \in Marks[texts[p][i].text]
    BY <1>8
  <2>3. m.rule = n.rule /\ m.order = n.order
    BY <1>7
  <2> QED BY <1>9, <2>1, <2>2, <2>3
<1> QED BY <1>3, <1>6, <1>8, <1>10

\* Of each merged group exactly one finding is left, and none of the group was
\* of a more severe rule (overlap.dedupe).
THEOREM MergeKeepsOne ==
    ASSUME NEW root \in Roots, NEW texts \in [Paths -> File], NEW active \in SUBSET Rules
    PROVE  LET K == Kept(RawFindings(root, texts, active))
           IN  \A f \in K : Merges(K, f) =>
                   \E w \in Participants(K, f) :
                       /\ Participants(K, f) \cap Dedupe(K) = {w}
                       /\ \A g \in Participants(K, f) : Rank(w.rule) <= Rank(g.rule)
<1> DEFINE K == Kept(RawFindings(root, texts, active))
<1> SUFFICES ASSUME NEW f \in K, Merges(K, f)
             PROVE  \E w \in Participants(K, f) :
                       /\ Participants(K, f) \cap Dedupe(K) = {w}
                       /\ \A g \in Participants(K, f) : Rank(w.rule) <= Rank(g.rule)
  OBVIOUS
<1> DEFINE P == Participants(K, f)
<1>1. K \subseteq Finding /\ \A g \in K : g.path # NoPath => g \in Matches(root, texts, active)
  <2>1. K \subseteq Matches(root, texts, active) \cup ProjectFindings(root, texts, active)
    BY DEF Kept, RawFindings, Reported
  <2> QED BY <2>1, MatchesType, ProjectFindingsType
<1> HIDE DEF K
<1>2. /\ P \subseteq K /\ f \in P /\ f.path # NoPath
      /\ \A g \in P : g.path = f.path /\ GroupKey(g) = GroupKey(f) /\ g.rule \in OverlapPair
  BY DEF Participants, Merges
<1>3. ASSUME NEW g \in P PROVE Participants(K, g) = P /\ Merges(K, g)
  <2>1. Participants(K, g) = P
    BY <1>2 DEF Participants
  <2> QED BY <1>2, <2>1 DEF Merges
<1> HIDE DEF P
<1>4. PICK w \in P : \A g \in P : Beats(w, g)
  BY <1>1, <1>2, StrongestFinding
<1>5. w \in Dedupe(K)
  BY <1>2, <1>3, <1>4 DEF Dedupe
<1>6. ASSUME NEW g \in P, g \in Dedupe(K) PROVE g = w
  <2>1. \A h \in P : Beats(g, h)
    BY <1>3, <1>6 DEF Dedupe
  <2>2. Beats(g, w) /\ Beats(w, g)
    BY <1>4, <2>1
  <2>3. g \in Finding /\ w \in Finding
    BY <1>1, <1>2
  <2>4. /\ g.rule \in Rules /\ w.rule \in Rules
        /\ g.line \in Nat /\ w.line \in Nat /\ g.order \in Nat /\ w.order \in Nat
    BY <2>3, FindingsAssumption DEF Finding, FindingsAssumption
  <2>5. Rank(g.rule) \in 0..2 /\ Rank(w.rule) \in 0..2
    BY <2>4, RankType
  <2>6. Rank(g.rule) = Rank(w.rule) /\ g.line = w.line /\ g.order = w.order
    BY <2>2, <2>4, <2>5 DEF Beats, NotAfter
  <2>7. g.rule = w.rule
    <3>1. Severity[g.rule] = Severity[w.rule]
      BY <2>4, <2>6, RankType
    <3> QED BY <1>2, <3>1, FindingsAssumption DEF FindingsAssumption
  <2>8. g.path = w.path /\ g \in Matches(root, texts, active) /\ w \in Matches(root, texts, active)
    BY <1>1, <1>2
  <2> QED BY <2>6, <2>7, <2>8, OneMatchPerPlace
<1>7. ASSUME NEW g \in P PROVE Rank(w.rule) <= Rank(g.rule)
  <2>1. g.rule \in Rules /\ w.rule \in Rules
    BY <1>1, <1>2 DEF Finding
  <2>2. Rank(g.rule) \in 0..2 /\ Rank(w.rule) \in 0..2
    BY <2>1, RankType
  <2> QED BY <1>4, <2>2 DEF Beats
<1>8. P \cap Dedupe(K) = {w}
  BY <1>5, <1>6
<1> QED BY <1>7, <1>8 DEF P

\* The merge never changes an exit code: a finding it drops fails a run only if
\* the one it keeps does (overlap.dedupe before cli._exit_for).
THEOREM MergeKeepsVerdict ==
    ASSUME NEW root \in Roots, NEW texts \in [Paths -> File], NEW active \in SUBSET Rules,
           NEW failOn \in Thresholds
    PROVE  LET K == Kept(RawFindings(root, texts, active))
           IN  ExitFor(Dedupe(K), failOn) = ExitFor(K, failOn)
<1> DEFINE K == Kept(RawFindings(root, texts, active))
<1>1. K \subseteq Finding
  <2>1. K \subseteq Matches(root, texts, active) \cup ProjectFindings(root, texts, active)
    BY DEF Kept, RawFindings, Reported
  <2> QED BY <2>1, MatchesType, ProjectFindingsType
<1>2. \A f \in K : Merges(K, f) =>
          \E w \in Participants(K, f) :
              /\ Participants(K, f) \cap Dedupe(K) = {w}
              /\ \A g \in Participants(K, f) : Rank(w.rule) <= Rank(g.rule)
  BY MergeKeepsOne
<1> HIDE DEF K
<1>3. Dedupe(K) \subseteq K
  BY DEF Dedupe
<1>4. ASSUME NEW f \in K, Blocking(f.rule, failOn)
      PROVE  \E w \in Dedupe(K) : Blocking(w.rule, failOn)
  <2>1. CASE ~Merges(K, f)
    BY <1>4, <2>1 DEF Dedupe
  <2>2. CASE Merges(K, f)
    <3>1. PICK w \in Participants(K, f) :
             /\ Participants(K, f) \cap Dedupe(K) = {w}
             /\ \A g \in Participants(K, f) : Rank(w.rule) <= Rank(g.rule)
      BY <1>2, <2>2
    <3>2. f \in Participants(K, f)
      BY <2>2 DEF Merges, Participants
    <3>3. w \in Dedupe(K) /\ Rank(w.rule) <= Rank(f.rule)
      BY <3>1, <3>2
    <3>4. w.rule \in Rules /\ f.rule \in Rules
      BY <1>1, <1>3, <3>3 DEF Finding
    <3>5. Rank(w.rule) \in 0..2 /\ Rank(f.rule) \in 0..2
      BY <3>4, RankType
    <3>6. failOn # "never" /\ Rank(f.rule) <= SeverityRank[failOn]
      BY <1>4 DEF Blocking
    <3>7. SeverityRank[failOn] \in 0..2
      BY <3>6 DEF SeverityRank, Thresholds, Severities
    <3>8. Rank(w.rule) <= SeverityRank[failOn]
      BY <3>3, <3>5, <3>6, <3>7
    <3> QED BY <3>3, <3>6, <3>8 DEF Blocking
  <2> QED BY <2>1, <2>2
<1> QED BY <1>3, <1>4 DEF ExitFor, K

-----------------------------------------------------------------------------
(***************************************************************************)
(* The gate.                                                               *)
(***************************************************************************)

\* A bag that loses one copy of k stays a bag and holds one copy of k less.
LEMMA RemoveOne ==
    ASSUME NEW S, NEW B, BagOver(S, B), NEW k
    PROVE  /\ BagOver(S, Without(B, k))
           /\ \A j : Copies(j, Without(B, k)) =
                       IF j = k /\ k \in DOMAIN B THEN Copies(k, B) - 1 ELSE Copies(j, B)
<1>1. B \in [DOMAIN B -> Nat \ {0}] /\ DOMAIN B \subseteq S
  BY DEF BagOver
<1> DEFINE C == [e \in DOMAIN B |-> IF e = k THEN B[e] - 1 ELSE B[e]]
           D == {d \in DOMAIN B : C[d] > 0}
<1>2. \A e \in DOMAIN B : C[e] \in Nat
  BY <1>1
<1>3. Without(B, k) = [e \in D |-> C[e]]
  <2>1. [e \in DOMAIN B |-> IF e \in DOMAIN SetToBag({k}) THEN B[e] - SetToBag({k})[e]
                                                         ELSE B[e]] = C
    BY DEF SetToBag
  <2> QED BY <2>1 DEF Without, (-)
<1>4. DOMAIN Without(B, k) = D
  BY <1>3
<1>5. \A e \in D : Without(B, k)[e] = C[e] /\ C[e] \in Nat \ {0}
  BY <1>2, <1>3
<1>6. BagOver(S, Without(B, k))
  BY <1>1, <1>3, <1>4, <1>5 DEF BagOver
<1>7. \A j : Copies(j, Without(B, k)) =
                IF j = k /\ k \in DOMAIN B THEN Copies(k, B) - 1 ELSE Copies(j, B)
  BY <1>1, <1>2, <1>4, <1>5 DEF Copies
<1> QED BY <1>6, <1>7

\* The empty bag.
LEMMA EmptyType ==
    /\ \A S : BagOver(S, NoEntries)
    /\ \A k : Copies(k, NoEntries) = 0
  BY DEF BagOver, Copies, NoEntries, EmptyBag, SetToBag

\* Typing and deleting a line leaves a file a file.
LEMMA EditedFile ==
    ASSUME NEW f \in File
    PROVE  /\ \A i \in 0..Len(f), l \in TypedLines :
                 Len(f) < MaxLines => WithLine(f, i, l) \in File
           /\ \A i \in 1..Len(f) : WithoutLine(f, i) \in File
<1>1. f \in Seq(Line) /\ Len(f) \in Nat /\ Len(f) <= MaxLines /\ DOMAIN f = 1..Len(f)
  BY DEF File
<1>2. MaxLines \in Nat
  BY FindingsAssumption, GradingAssumption DEF FindingsAssumption, GradingAssumption
<1>3. TypedLines \subseteq Line
  BY GateAssumption DEF GateAssumption, TypedLines, Line
<1>4. ASSUME NEW i \in Int, NEW j \in Int, i >= 1, j <= Len(f)
      PROVE  /\ SubSeq(f, i, j) \in Seq(Line)
             /\ Len(SubSeq(f, i, j)) = IF i <= j THEN j - i + 1 ELSE 0
  <2>1. \A n \in i..j : f[n] \in Line
    BY <1>1, <1>4
  <2> QED BY <2>1, SubSeqProperties
<1>5. ASSUME NEW i \in 0..Len(f), NEW l \in Line, Len(f) < MaxLines
      PROVE  WithLine(f, i, l) \in File
  <2> DEFINE a == SubSeq(f, 1, i)
             b == SubSeq(f, i + 1, Len(f))
  <2>1. i \in Int /\ i + 1 \in Int /\ i + 1 >= 1 /\ i <= Len(f) /\ Len(f) \in Int
    BY <1>1
  <2>2. a \in Seq(Line) /\ Len(a) = i
    BY <1>4, <2>1
  <2>3. b \in Seq(Line) /\ Len(b) = Len(f) - i
    BY <1>4, <2>1
  <2> HIDE DEF a, b
  <2>4. a \o <<l>> \in Seq(Line) /\ Len(a \o <<l>>) = i + 1
    BY <2>2
  <2>5. (a \o <<l>>) \o b \in Seq(Line) /\ Len((a \o <<l>>) \o b) = Len(f) + 1
    BY <1>1, <2>1, <2>3, <2>4, ConcatProperties
  <2>6. WithLine(f, i, l) = (a \o <<l>>) \o b
    BY DEF WithLine, a, b
  <2>7. WithLine(f, i, l) \in Seq(Line) /\ Len(WithLine(f, i, l)) = Len(f) + 1
    BY <2>5, <2>6
  <2> QED BY <1>1, <1>2, <1>5, <2>7 DEF File
<1>6. ASSUME NEW i \in 1..Len(f) PROVE WithoutLine(f, i) \in File
  <2> DEFINE a == SubSeq(f, 1, i - 1)
             b == SubSeq(f, i + 1, Len(f))
  <2>1. i \in Int /\ i - 1 \in Int /\ i + 1 >= 1 /\ i - 1 <= Len(f) /\ Len(f) \in Int
    BY <1>1
  <2>2. a \in Seq(Line) /\ Len(a) = i - 1
    BY <1>4, <2>1
  <2>3. b \in Seq(Line) /\ Len(b) = Len(f) - i
    BY <1>4, <2>1
  <2> HIDE DEF a, b
  <2>4. a \o b \in Seq(Line) /\ Len(a \o b) = Len(a) + Len(b)
    BY <2>2, <2>3, ConcatProperties
  <2>5. WithoutLine(f, i) = a \o b
    BY DEF WithoutLine, a, b
  <2>6. WithoutLine(f, i) \in Seq(Line) /\ Len(WithoutLine(f, i)) = (i - 1) + (Len(f) - i)
    BY <2>2, <2>3, <2>4, <2>5
  <2> QED BY <1>1, <1>2, <2>1, <2>6 DEF File
<1> QED BY <1>3, <1>5, <1>6

\* The matches a run could have reported are a bag of keys.
LEMMA UnsuppressedType ==
    ASSUME NEW root \in Roots, NEW t \in [Paths -> File]
    PROVE  BagOver(Keys, Unsuppressed(root, t))
<1> DEFINE M == Matches(root, t, Rules)
           P == ProjectFindings(root, t, Rules)
<1>1. M \subseteq Finding /\ IsFiniteSet(M)
  BY MatchesType
<1>2. P \subseteq Finding /\ IsFiniteSet(P)
  BY ProjectFindingsType
<1> HIDE DEF M, P
<1>3. IsFiniteSet(M \cup P)
  BY <1>1, <1>2, FS_Union
<1>4. Kept(M \cup P) \in SUBSET (M \cup P)
  BY DEF Kept
<1>5. Kept(M \cup P) \in SUBSET Finding
  BY <1>1, <1>2, <1>4
<1>6. IsFiniteSet(Kept(M \cup P))
  BY <1>3, <1>4, FS_Subset
<1>7. BagOver(Keys, Tally(Kept(M \cup P)))
  BY <1>5, <1>6, TallyType
<1> QED BY <1>7 DEF Unsuppressed, M, P

\* The flags of the running check.
LEMMA CommandType ==
    ASSUME NEW c \in Commands \cup {NoCommand}
    PROVE  /\ c.root \in Roots /\ c.baseline \in BOOLEAN /\ c.write \in BOOLEAN
           /\ c.failOn \in FailOns \cup {"never"}
<1>1. CASE c \in Commands
  BY <1>1 DEF Commands
<1>2. CASE c = NoCommand
  <2>1. (CHOOSE r \in Roots : TRUE) \in Roots
    BY GateAssumption DEF GateAssumption
  <2> QED BY <1>2, <2>1 DEF NoCommand
<1> QED BY <1>1, <1>2

-----------------------------------------------------------------------------

\* An initial state is typed.
LEMMA TypeInit == Init => TypeOK
<1> SUFFICES ASSUME Init PROVE TypeOK
  OBVIOUS
<1> USE DEF Init
<1>1. tree \in [Paths -> File]
  BY GateAssumption DEF GateAssumption
<1>2. IsFiniteSet({})
  BY FS_EmptySet
<1>3. edits \in 0..MaxEdits
  BY GateAssumption DEF GateAssumption
<1>4. BagOver(Keys, NoEntries)
  BY EmptyType
<1> QED BY <1>1, <1>2, <1>3, <1>4 DEF TypeOK, Absent, NoOrigin

\* No action leaves the types, actor by actor.
LEMMA TypeStep == TypeOK /\ [Next]_vars => TypeOK'
<1> SUFFICES ASSUME TypeOK, [Next]_vars PROVE TypeOK'
  OBVIOUS
<1> USE DEF TypeOK
<1>1. BagOver(Keys, NoEntries) /\ IsFiniteSet({})
  BY EmptyType, FS_EmptySet
<1>2. cmd.root \in Roots
  BY CommandType
<1>3. ASSUME NEW c \in Commands, Invoke(c) PROVE TypeOK'
  BY <1>3 DEF Invoke
<1>4. CASE Scan
  <2>1. /\ findings' \subseteq Finding
        /\ IsFiniteSet(findings')
    BY <1>2, <1>4, ScanType DEF Scan
  <2>2. BagOver(Keys, seen')
    BY <1>2, <1>4, UnsuppressedType DEF Scan
  <2> QED BY <1>4, <2>1, <2>2 DEF Scan
<1>5. CASE ApplyBaseline
  <2>1. BagOver(Keys, loaded')
    BY <1>1, <1>5 DEF ApplyBaseline, Load
  <2>2. fresh' \subseteq Finding
    BY <1>5 DEF ApplyBaseline, NewFindings
  <2>3. BagOver(Keys, stale')
    BY <1>5, <2>1, StaleType DEF ApplyBaseline
  <2> QED BY <1>5, <2>1, <2>2, <2>3 DEF ApplyBaseline
<1>6. CASE OpenBaseline
  BY <1>1, <1>6 DEF OpenBaseline, Torn, NoOrigin
<1>7. CASE FillBaseline
  <2>1. BagOver(Keys, Recorded)
    BY TallyType DEF Recorded
  <2> QED BY <1>7, <2>1 DEF FillBaseline, Written
<1>8. CASE Decide
  BY <1>8 DEF Decide, ExitFor
<1>9. CASE Return \/ Kill
  BY <1>1, <1>9 DEF Return, Kill, Idle
<1>10. ASSUME NEW p \in Paths, EditTree(p) PROVE TypeOK'
  <2>1. tree[p] \in File
    OBVIOUS
  <2>2. PICK f \in File : tree' = [tree EXCEPT ![p] = f]
    BY <1>10, <2>1, EditedFile DEF EditTree
  <2>3. tree' \in [Paths -> File]
    BY <2>2
  <2>4. edits' \in 0..MaxEdits
    BY <1>10, GateAssumption DEF EditTree, GateAssumption
  <2> QED BY <1>10, <2>3, <2>4 DEF EditTree, run
<1>11. ASSUME NEW r \in Toggles, ToggleRule(r) PROVE TypeOK'
  <2>1. disabled' \in SUBSET Rules
    BY <1>11, GateAssumption DEF ToggleRule, GateAssumption
  <2>2. edits' \in 0..MaxEdits
    BY <1>11, GateAssumption DEF ToggleRule, GateAssumption
  <2> QED BY <1>11, <2>1, <2>2 DEF ToggleRule, run
<1>12. ASSUME NEW k \in DOMAIN file.entries, LoseEntry(k) PROVE TypeOK'
  <2>1. /\ BagOver(Keys, Without(file.entries, k))
        /\ BagOver(Keys, Without(origin.matches, k))
    BY RemoveOne
  <2>2. edits' \in 0..MaxEdits
    BY <1>12, GateAssumption DEF LoseEntry, GateAssumption
  <2> QED BY <1>12, <2>1, <2>2 DEF LoseEntry, Written, run
<1>13. CASE UNCHANGED vars
  BY <1>13 DEF vars, run
<1> QED BY <1>3, <1>4, <1>5, <1>6, <1>7, <1>8, <1>9, <1>10, <1>11, <1>12, <1>13
        DEF Next, CheckNext, DeveloperNext

\* The type invariant: every run, kill, edit and damaged file leaves the
\* variables within their types.
THEOREM TypeCorrect == Spec => []TypeOK
  BY TypeInit, TypeStep, PTL DEF Spec

-----------------------------------------------------------------------------

\* A scan finds a rule with one finding per match as often as it matches.
LEMMA FaithfulScan ==
    ASSUME NEW root \in Roots, NEW t \in [Paths -> File], NEW off \in SUBSET Rules
    PROVE  Faithful(Tally(Dedupe(Kept(RawFindings(root, t, Rules \ off)))), off,
                    Unsuppressed(root, t))
<1> DEFINE F == Dedupe(Kept(RawFindings(root, t, Rules \ off)))
           All == Kept(Matches(root, t, Rules) \cup ProjectFindings(root, t, Rules))
<1>1. F \in SUBSET Finding /\ IsFiniteSet(F) /\ \A f \in F : f.rule \notin off
  BY ScanType
<1>2. All \in SUBSET Finding /\ IsFiniteSet(All)
  <2>1. All \in SUBSET (Matches(root, t, Rules) \cup ProjectFindings(root, t, Rules))
    BY DEF Kept
  <2>2. /\ Matches(root, t, Rules) \subseteq Finding
        /\ IsFiniteSet(Matches(root, t, Rules))
    BY MatchesType
  <2>3. /\ ProjectFindings(root, t, Rules) \subseteq Finding
        /\ IsFiniteSet(ProjectFindings(root, t, Rules))
    BY ProjectFindingsType
  <2>4. IsFiniteSet(Matches(root, t, Rules) \cup ProjectFindings(root, t, Rules))
    BY <2>2, <2>3, FS_Union
  <2> QED BY <2>1, <2>2, <2>3, <2>4, FS_Subset
<1>3. ASSUME NEW k \in Keys, k[1] \notin Representative
      PROVE  CountOf(F, k) = IF k[1] \in off THEN 0 ELSE CountOf(All, k)
  <2>1. CASE k[1] \in off
    <3>1. \A f \in F : Key(f) # k
      BY <1>1, <2>1 DEF Key
    <3>2. ~(CountOf(F, k) > 0) /\ CountOf(F, k) \in Nat
      BY <1>1, <3>1, CountType
    <3> QED BY <2>1, <3>2
  <2>2. CASE k[1] \notin off
    BY <1>3, <2>2, OneFindingPerMatch DEF CountOf
  <2> QED BY <2>1, <2>2
<1> HIDE DEF F, All
<1>4. \A k : /\ Copies(k, Tally(F)) = CountOf(F, k)
             /\ Copies(k, Tally(All)) = CountOf(All, k)
  BY <1>1, <1>2, TallyType
<1>5. Faithful(Tally(F), off, Tally(All))
  BY <1>3, <1>4 DEF Faithful
<1> QED BY <1>5 DEF Faithful, Unsuppressed, F, All

\* Nothing is on disk, scanned or read at first.
LEMMA ConsistentInit == Init => Consistent
<1> SUFFICES ASSUME Init PROVE Consistent
  OBVIOUS
<1>1. EntriesFaithful
  BY EmptyType DEF Init, EntriesFaithful, Faithful, Absent, NoOrigin
<1> QED BY <1>1 DEF Init, Consistent, Quiet, ScanFaithful, OnlyWritersRecord, BasisOnDisk,
                    Matched, Decided

\* Every action preserves the links between scan, entries, reading and verdict.
LEMMA ConsistentStep == TypeOK /\ Consistent /\ [Next]_vars => Consistent'
<1> SUFFICES ASSUME TypeOK, Consistent, [Next]_vars PROVE Consistent'
  OBVIOUS
<1> USE DEF Consistent
<1>1. cmd.root \in Roots /\ cmd.write \in BOOLEAN /\ cmd.baseline \in BOOLEAN
  BY CommandType DEF TypeOK
<1>2. ASSUME NEW c \in Commands, Invoke(c) PROVE Consistent'
  BY <1>2 DEF Invoke, Quiet, EntriesFaithful, ScanFaithful, OnlyWritersRecord, BasisOnDisk,
              Matched, Decided
<1>3. CASE Scan
  <2>1. ScanFaithful'
    <3>1. Faithful(Tally(findings'), cfg, seen')
      BY <1>1, <1>3, FaithfulScan DEF Scan, TypeOK
    <3> QED BY <1>3, <3>1 DEF ScanFaithful, Scan, Faithful
  <2> QED BY <1>3, <2>1 DEF Scan, Quiet, EntriesFaithful, Faithful, OnlyWritersRecord,
                            BasisOnDisk, Matched, Decided
<1>4. CASE ApplyBaseline
  <2>1. Load(file) = file.entries
    BY DEF Load, TypeOK
  <2>2. EntriesFaithful' /\ ScanFaithful'
    BY <1>4 DEF ApplyBaseline, EntriesFaithful, ScanFaithful, Faithful
  <2>3. OnlyWritersRecord' /\ BasisOnDisk' /\ Decided'
    BY <1>4, <2>1 DEF ApplyBaseline, OnlyWritersRecord, BasisOnDisk, Decided
  <2>4. Matched' /\ Quiet'
    BY <1>4 DEF ApplyBaseline, Matched, Quiet
  <2> QED BY <2>2, <2>3, <2>4
<1>5. CASE OpenBaseline
  <2>1. EntriesFaithful'
    BY <1>5, EmptyType DEF OpenBaseline, EntriesFaithful, Faithful, Torn, NoOrigin
  <2>2. OnlyWritersRecord' /\ BasisOnDisk' /\ Decided' /\ Matched' /\ ScanFaithful' /\ Quiet'
    BY <1>5 DEF OpenBaseline, Quiet, OnlyWritersRecord, BasisOnDisk, Decided, Matched,
                ScanFaithful, Faithful
  <2> QED BY <2>1, <2>2
<1>6. CASE FillBaseline
  <2>1. Faithful(Recorded, cfg, seen)
    BY <1>6 DEF FillBaseline, ScanFaithful, Recorded
  <2>2. EntriesFaithful'
    BY <1>6, <2>1 DEF FillBaseline, EntriesFaithful, Faithful, Written
  <2>3. OnlyWritersRecord' /\ BasisOnDisk' /\ Decided' /\ Matched' /\ ScanFaithful' /\ Quiet'
    BY <1>6 DEF FillBaseline, Quiet, OnlyWritersRecord, BasisOnDisk, Decided, Matched,
                ScanFaithful, Faithful
  <2> QED BY <2>2, <2>3
<1>7. CASE Decide
  BY <1>7 DEF Decide, Quiet, EntriesFaithful, Faithful, ScanFaithful, OnlyWritersRecord,
              BasisOnDisk, Matched, Decided, ExitFindings
<1>8. CASE Return \/ Kill
  BY <1>8 DEF Return, Kill, Idle, Quiet, EntriesFaithful, Faithful, ScanFaithful,
              OnlyWritersRecord, BasisOnDisk, Matched, Decided
<1>9. ASSUME NEW p \in Paths, EditTree(p) PROVE Consistent'
  BY <1>9 DEF EditTree, run, Quiet, EntriesFaithful, Faithful, ScanFaithful,
              OnlyWritersRecord, BasisOnDisk, Matched, Decided, ExitFindings
<1>10. ASSUME NEW r \in Toggles, ToggleRule(r) PROVE Consistent'
  BY <1>10 DEF ToggleRule, run, Quiet, EntriesFaithful, Faithful, ScanFaithful,
               OnlyWritersRecord, BasisOnDisk, Matched, Decided, ExitFindings
<1>11. ASSUME NEW k \in DOMAIN file.entries, LoseEntry(k) PROVE Consistent'
  <2>1. file'.entries = Without(file.entries, k)
    BY <1>11 DEF LoseEntry, Written
  <2>2. origin'.matches = Without(origin.matches, k) /\ origin'.cfg = origin.cfg
    BY <1>11 DEF LoseEntry, TypeOK
  <2>3. ASSUME NEW j \in Keys, j[1] \notin Representative
        PROVE  Copies(j, file'.entries) =
                 IF j[1] \in origin.cfg THEN 0 ELSE Copies(j, origin'.matches)
    <3>1. Copies(j, file.entries) =
            IF j[1] \in origin.cfg THEN 0 ELSE Copies(j, origin.matches)
      BY <2>3 DEF EntriesFaithful, Faithful
    <3>2. /\ BagOver(Keys, file.entries)
          /\ BagOver(Keys, origin.matches)
      BY DEF TypeOK
    <3>3. /\ Copies(k, file.entries) > 0
          /\ k \in DOMAIN origin.matches <=> Copies(k, origin.matches) > 0
      BY <3>2, CopiesType
    <3>4. CASE j = k
      <4>1. j[1] \notin origin.cfg /\ k \in DOMAIN origin.matches
        BY <3>1, <3>3, <3>4
      <4>2. /\ Copies(j, file'.entries) = Copies(k, file.entries) - 1
            /\ Copies(j, origin'.matches) = Copies(k, origin.matches) - 1
        BY <2>1, <2>2, <3>2, <3>4, <4>1, RemoveOne
      <4> QED BY <3>1, <3>4, <4>1, <4>2
    <3>5. CASE j # k
      <4>1. /\ Copies(j, file'.entries) = Copies(j, file.entries)
            /\ Copies(j, origin'.matches) = Copies(j, origin.matches)
        BY <2>1, <2>2, <3>2, <3>5, RemoveOne
      <4> QED BY <3>1, <4>1
    <3> QED BY <3>4, <3>5
  <2>4. EntriesFaithful'
    BY <2>2, <2>3 DEF EntriesFaithful, Faithful
  <2>5. pc = "idle" /\ UNCHANGED <<pc, findings, loaded, exit>>
    BY <1>11 DEF LoseEntry, run
  <2> QED BY <2>4, <2>5 DEF Quiet, ScanFaithful, OnlyWritersRecord, BasisOnDisk, Matched, Decided
<1>12. CASE UNCHANGED vars
  BY <1>12 DEF vars, run, Quiet, EntriesFaithful, Faithful, ScanFaithful, OnlyWritersRecord,
               BasisOnDisk, Matched, Decided, ExitFindings
<1> QED BY <1>2, <1>3, <1>4, <1>5, <1>6, <1>7, <1>8, <1>9, <1>10, <1>11, <1>12
        DEF Next, CheckNext, DeveloperNext

\* The inductive invariant holds in every reachable state.
THEOREM Consistency == Spec => [](TypeOK /\ Consistent)
  BY TypeInit, TypeStep, ConsistentInit, ConsistentStep, PTL DEF Spec

-----------------------------------------------------------------------------

\* Without --write-baseline the exit code is the comparison of two multisets.
THEOREM VerdictCorrect == Spec => []VerdictIsExcess
<1>1. TypeOK /\ Consistent => VerdictIsExcess
  <2> SUFFICES ASSUME TypeOK, Consistent, pc = "done", ~cmd.write
               PROVE  exit = 1 <=> \E k \in {Key(f) : f \in findings} :
                                     /\ Blocking(k[1], cmd.failOn)
                                     /\ CountOf(findings, k) > Copies(k, loaded)
    BY DEF VerdictIsExcess
  <2>1. exit = ExitFor(NewFindings(findings, loaded), cmd.failOn)
    BY DEF Consistent, Matched, Decided, ExitFindings
  <2> QED BY <2>1, ExitIsExcess DEF TypeOK
<1> QED BY <1>1, Consistency, PTL

\* A run that passes found no more of any gating key than was accepted, and
\* what was accepted is what the recording run saw in the tree.
THEOREM GateSound == Spec => []NothingSlipsThrough
<1>1. TypeOK /\ Consistent => NothingSlipsThrough
  <2> SUFFICES ASSUME TypeOK, Consistent, pc = "done", ~cmd.write, exit = 0,
                      NEW k \in DOMAIN seen, Blocking(k[1], cmd.failOn),
                      k[1] \notin cfg \cup Representative
               PROVE  seen[k] <= Accepted(k)
    BY DEF NothingSlipsThrough
  <2>1. k \in Keys /\ Copies(k, seen) = seen[k] /\ seen[k] \in Nat \ {0}
    BY DEF TypeOK, BagOver, Copies
  <2>2. CountOf(findings, k) = seen[k]
    BY <2>1, TallyType DEF Consistent, ScanFaithful, Faithful, TypeOK
  <2>3. k \in {Key(f) : f \in findings}
    BY <2>1, <2>2, CountType DEF TypeOK
  <2>4. exit = ExitFor(NewFindings(findings, loaded), cmd.failOn)
    BY DEF Consistent, Matched, Decided, ExitFindings
  <2>5. ~(CountOf(findings, k) > Copies(k, loaded))
    BY <2>3, <2>4, ExitIsExcess DEF TypeOK
  <2>6. Copies(k, loaded) = Accepted(k)
    <3>1. loaded = IF cmd.baseline THEN file.entries ELSE NoEntries
      BY DEF Consistent, BasisOnDisk
    <3>2. Copies(k, file.entries) = IF k[1] \in origin.cfg THEN 0 ELSE Copies(k, origin.matches)
      BY <2>1 DEF Consistent, EntriesFaithful, Faithful
    <3> QED BY <3>1, <3>2, EmptyType DEF Accepted
  <2>7. Copies(k, loaded) \in Nat
    BY CopiesType DEF TypeOK
  <2> QED BY <2>1, <2>2, <2>5, <2>6, <2>7
<1> QED BY <1>1, Consistency, PTL

\* A finding is called new only when the tree has more matches of its key than
\* it had when the baseline was recorded.
THEOREM NewSound == Spec => []NewIsNewCode
<1>1. TypeOK /\ Consistent => NewIsNewCode
  <2> SUFFICES ASSUME TypeOK, Consistent, pc \in {"deciding", "done"}, cmd.baseline,
                      ~cmd.write, NEW f \in fresh,
                      f.rule \notin Representative \cup origin.cfg
               PROVE  Copies(Key(f), seen) > Copies(Key(f), origin.matches)
    BY DEF NewIsNewCode
  <2>1. f \in NewFindings(findings, loaded) /\ loaded = file.entries
    BY DEF Consistent, Matched, BasisOnDisk
  <2>2. f \in findings /\ CountOf(findings, Key(f)) > Copies(Key(f), loaded)
    BY <2>1, NewHasExcess DEF TypeOK
  <2>3. Key(f) \in Keys /\ Key(f)[1] = f.rule
    BY <2>2 DEF TypeOK, Key, Keys, Finding
  <2>4. Copies(Key(f), loaded) = Copies(Key(f), origin.matches)
    BY <2>1, <2>3 DEF Consistent, EntriesFaithful, Faithful
  <2>5. CountOf(findings, Key(f)) = IF f.rule \in cfg THEN 0 ELSE Copies(Key(f), seen)
    BY <2>3, TallyType DEF Consistent, ScanFaithful, Faithful, TypeOK
  <2>6. CountOf(findings, Key(f)) > 0
    BY <2>2, CountType DEF TypeOK
  <2> QED BY <2>2, <2>4, <2>5, <2>6
<1> QED BY <1>1, Consistency, PTL

\* An entry is called stale only when the tree has fewer matches of its key
\* than it had when the baseline was recorded.
THEOREM StaleSound == Spec => []GoneIsGone
<1>1. TypeOK /\ Consistent => GoneIsGone
  <2> SUFFICES ASSUME TypeOK, Consistent, pc \in {"deciding", "done"}, ~cmd.write,
                      NEW k \in DOMAIN stale, k[1] \notin Representative \cup cfg
               PROVE  Copies(k, seen) < Copies(k, origin.matches)
    BY DEF GoneIsGone
  <2>1. k \in DOMAIN StaleEntries(findings, loaded)
    BY DEF Consistent, Matched
  <2>2. Copies(k, loaded) > CountOf(findings, k)
    BY <2>1, StaleType DEF TypeOK
  <2>3. k \in Keys
    BY DEF TypeOK, BagOver
  <2>4. CountOf(findings, k) = Copies(k, seen)
    BY <2>3, TallyType DEF Consistent, ScanFaithful, Faithful, TypeOK
  <2>5. CountOf(findings, k) \in Nat
    BY CountType DEF TypeOK
  <2>6. loaded = file.entries
    BY <2>2, <2>5, EmptyType DEF Consistent, BasisOnDisk
  <2>7. Copies(k, loaded) = IF k[1] \in origin.cfg THEN 0 ELSE Copies(k, origin.matches)
    BY <2>3, <2>6 DEF Consistent, EntriesFaithful, Faithful
  <2> QED BY <2>2, <2>4, <2>5, <2>7
<1> QED BY <1>1, Consistency, PTL

-----------------------------------------------------------------------------

\* No findings, no debt.
LEMMA TallyNothing == Tally({}) = Debt!Nothing /\ NoEntries = Debt!Nothing
<1>1. Tally({}) = Debt!Nothing
  BY DEF Tally, Debt!Nothing
<1>2. NoEntries = Debt!Nothing
  BY DEF NoEntries, EmptyBag, SetToBag, Debt!Nothing
<1> QED BY <1>1, <1>2

\* At first no debt is accepted.
LEMMA RefineInit == Init => Debt!Init
  BY TallyNothing DEF Init, Debt!Init, Phase, Load, Absent, NoCommand

\* The abstract verdict reads the same excess.
LEMMA SameExcess ==
    ASSUME TypeOK
    PROVE  Debt!Exceeds <=> \E k \in {Key(f) : f \in findings} :
                               /\ Blocking(k[1], cmd.failOn)
                               /\ CountOf(findings, k) > Copies(k, loaded)
<1>1. cmd.failOn \in FailOns \cup {"never"}
  BY CommandType DEF TypeOK
<1>2. BagOver(Keys, Tally(findings)) /\ DOMAIN Tally(findings) = {Key(f) : f \in findings}
  BY TallyType DEF TypeOK, Tally
<1>3. \A k \in DOMAIN Tally(findings) : /\ k \in Keys
                                        /\ Tally(findings)[k] = CountOf(findings, k)
  BY <1>2 DEF BagOver, Tally
<1>4. \A k \in Keys : k \in Gated[cmd.failOn] <=> Blocking(k[1], cmd.failOn)
  BY <1>1 DEF Gated
<1>5. \A k : Debt!Copies(k, loaded) = Copies(k, loaded)
  BY DEF Debt!Copies, Copies
<1> QED BY <1>2, <1>3, <1>4, <1>5 DEF Debt!Exceeds

\* Every step is a step of the ratchet or leaves it alone.
LEMMA RefineStep == TypeOK /\ Consistent /\ [Next]_vars => [Debt!Next]_(Debt!vars)
<1> SUFFICES ASSUME TypeOK, Consistent, [Next]_vars PROVE [Debt!Next]_(Debt!vars)
  OBVIOUS
<1>1. cmd.write \in BOOLEAN /\ cmd.root \in Roots
  BY CommandType DEF TypeOK
<1>2. ASSUME NEW c \in Commands, Invoke(c) PROVE Debt!Aim
  <2>1. c.failOn \in DOMAIN Gated
    BY CommandType DEF Gated
  <2> QED BY <1>2, <2>1 DEF Invoke, Debt!Aim, Phase, Load
<1>3. CASE Scan
  <2>1. /\ findings' \subseteq Finding
        /\ IsFiniteSet(findings')
    BY <1>1, <1>3, ScanType DEF Scan, TypeOK
  <2>2. BagOver(Keys, Tally(findings'))
    BY <2>1, TallyType
  <2>3. Debt!Look
    BY <1>3, <2>2 DEF Scan, Debt!Look, Debt!BagOf, BagOver, Phase, Load
  <2> QED BY <2>3 DEF Debt!Next
<1>4. CASE ApplyBaseline
  <2>1. Debt!Read
    BY <1>1, <1>4, TallyNothing DEF ApplyBaseline, Debt!Read, Phase, Load
  <2> QED BY <2>1 DEF Debt!Next
<1>5. CASE OpenBaseline
  <2>1. Debt!BagOf(Debt!Nothing) /\ Debt!AtMost(Debt!Nothing, Load(file))
    BY DEF Debt!BagOf, Debt!AtMost, Debt!Nothing
  <2>2. Debt!Forget
    BY <1>5, <2>1, TallyNothing DEF OpenBaseline, Debt!Forget, Phase, Load, Torn
  <2> QED BY <2>2 DEF Debt!Next
<1>6. CASE FillBaseline
  <2>1. cmd.write
    BY <1>6 DEF FillBaseline, Consistent, OnlyWritersRecord
  <2>2. Debt!Accept
    BY <1>6, <2>1 DEF FillBaseline, Debt!Accept, Phase, Load, Written, Recorded
  <2> QED BY <2>2 DEF Debt!Next
<1>7. CASE Decide
  <2>1. Phase = IF cmd.write THEN "accepted" ELSE "read"
    BY <1>1, <1>7 DEF Decide, Phase
  <2>2. exit' = IF Phase = "read" /\ Debt!Exceeds THEN 1 ELSE 0
    <3>1. CASE cmd.write
      BY <1>7, <2>1, <3>1 DEF Decide, ExitFindings, ExitFor
    <3>2. CASE ~cmd.write
      <4>1. exit' = ExitFor(NewFindings(findings, loaded), cmd.failOn)
        BY <1>7, <3>2 DEF Decide, ExitFindings, Consistent, Matched
      <4>2. exit' = 1 <=> Debt!Exceeds
        BY <4>1, ExitIsExcess, SameExcess DEF TypeOK
      <4>3. exit' \in {0, 1}
        BY <4>1 DEF ExitFor
      <4> QED BY <2>1, <3>2, <4>2, <4>3
    <3> QED BY <3>1, <3>2
  <2>3. Debt!Judge
    <3>1. Phase' = "judged"
      BY <1>7 DEF Decide, Phase
    <3>2. UNCHANGED <<Load(file), cmd.failOn, Tally(findings), loaded>>
      BY <1>7 DEF Decide, Load
    <3> QED BY <2>1, <2>2, <3>1, <3>2 DEF Debt!Judge
  <2> QED BY <2>3 DEF Debt!Next
<1>8. CASE Return \/ Kill
  <2>1. /\ Phase' = "rest" /\ cmd'.failOn = "never" /\ exit' = 0
        /\ Tally(findings') = Debt!Nothing /\ loaded' = Debt!Nothing
    BY <1>8, TallyNothing DEF Return, Kill, Idle, Phase, NoCommand
  <2>2. file' = file
    BY <1>8 DEF Return, Kill
  <2>3. CASE Phase # "rest" \/ cmd.failOn # "never"
    <3>1. Debt!End
      BY <2>1, <2>2, <2>3 DEF Debt!End, Debt!Rest, Load
    <3> QED BY <3>1 DEF Debt!Next
  <2>4. CASE Phase = "rest" /\ cmd.failOn = "never"
    <3>1. pc \in {"idle", "invoked"}
      BY <1>1, <2>4 DEF Phase, TypeOK
    <3>2. pc = "invoked"
      BY <1>8, <3>1 DEF Return, Kill
    <3>3. findings = {} /\ loaded = NoEntries /\ exit = 0
      BY <3>2 DEF Consistent, Quiet
    <3>4. Tally(findings') = Tally(findings) /\ Load(file') = Load(file)
      BY <2>1, <2>2, <3>3, TallyNothing
    <3>5. UNCHANGED Debt!vars
      BY <2>1, <2>2, <2>4, <3>3, <3>4, TallyNothing DEF Debt!vars, Load
    <3> QED BY <3>5
  <2> QED BY <2>3, <2>4
<1>9. ASSUME NEW p \in Paths, EditTree(p) PROVE UNCHANGED Debt!vars
  BY <1>9 DEF EditTree, run, Debt!vars, Phase, Load
<1>10. ASSUME NEW r \in Toggles, ToggleRule(r) PROVE UNCHANGED Debt!vars
  BY <1>10 DEF ToggleRule, run, Debt!vars, Phase, Load
<1>11. ASSUME NEW k \in DOMAIN file.entries, LoseEntry(k) PROVE Debt!Forget
  <2>1. /\ Load(file) = file.entries
        /\ Load(file') = Without(file.entries, k)
    BY <1>11 DEF LoseEntry, Load, Written
  <2>2. /\ BagOver(Keys, file.entries)
        /\ BagOver(Keys, Without(file.entries, k))
    BY RemoveOne DEF TypeOK
  <2>3. Debt!AtMost(Without(file.entries, k), file.entries)
    <3>1. ASSUME NEW j \in DOMAIN Without(file.entries, k)
          PROVE  Without(file.entries, k)[j] <= Debt!Copies(j, file.entries)
      <4>1. Copies(j, Without(file.entries, k)) <= Copies(j, file.entries)
        BY <2>2, RemoveOne, CopiesType
      <4> QED BY <4>1 DEF Copies, Debt!Copies
    <3> QED BY <3>1 DEF Debt!AtMost
  <2>4. UNCHANGED <<Phase, cmd.failOn, Tally(findings), loaded, exit>>
    BY <1>11 DEF LoseEntry, run, Phase
  <2> QED BY <2>1, <2>2, <2>3, <2>4 DEF Debt!Forget, Debt!BagOf, BagOver
<1>12. CASE UNCHANGED vars
  BY <1>12 DEF vars, run, Debt!vars, Phase, Load
<1> QED BY <1>2, <1>3, <1>4, <1>5, <1>6, <1>7, <1>8, <1>9, <1>10, <1>11, <1>12
        DEF Next, CheckNext, DeveloperNext, Debt!Next

\* The gate implements the ratchet, for every tree and rule set.
THEOREM GateIsARatchet == Spec => ImplementsRatchet
<1>1. Init => Debt!Init
  BY RefineInit
<1>2. TypeOK /\ Consistent /\ [Next]_vars => [Debt!Next]_(Debt!vars)
  BY RefineStep
<1> QED BY <1>1, <1>2, Consistency, PTL DEF Spec, ImplementsRatchet, Debt!Spec
=============================================================================
