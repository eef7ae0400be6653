---------------------------- MODULE Board_proofs ----------------------------
(***************************************************************************)
(* However pushes, runners, outages and regrades interleave, what is on    *)
(* the pages was on main, validated, when it was put there; for any number *)
(* of files, repositories and runners.                                     *)
(***************************************************************************)
EXTENDS Board, FiniteSetTheorems, FunctionTheorems, SequenceTheorems, WellFoundedInduction, TLAPS

Below == {ss \in Nat \X Nat : ss[1] < ss[2]}

\* The least of a set of naturals is one of them, and the least.
LEMMA MinIsMember ==
    ASSUME NEW S, S \subseteq Nat, S # {}
    PROVE  Min(S) \in S /\ \A n \in S : Min(S) <= n
<1>1. PICK m \in S : \A n \in S : <<n, m>> \notin Below
  BY NatLessThanWellFounded, WFMin DEF OpToRel, Below
<1>2. \A n \in S : <<n, m>> \in Below <=> n < m
  BY DEF Below
<1>3. \A n \in S : m <= n
  <2> SUFFICES ASSUME NEW n \in S PROVE m <= n
    OBVIOUS
  <2>1. ~(n < m)
    BY <1>1, <1>2
  <2> QED BY <2>1
<1> QED BY <1>3 DEF Min

-----------------------------------------------------------------------------
(***************************************************************************)
(* The renderers.                                                          *)
(***************************************************************************)

\* What is on disk before makes no difference to what is rendered.
LEMMA PagesForget ==
    ASSUME NEW old, NEW reg, NEW rel
    PROVE  Pages(old, reg, rel) = Pages(Nothing, reg, rel)
<1>1. \A files : Badges(files, reg) = [k \in DOMAIN Written(reg) |-> Written(reg)[k]]
  BY DEF Badges, Prune
<1> QED BY <1>1 DEF Pages

\* What is told apart of an entry; what a file may hold; what main may hold.
Filed(c) == /\ DOMAIN c = {"kind", "named", "repo", "language", "grade", "score", "rest", "sha",
                           "path", "off", "owner", "version"}
            /\ c.kind = "entry" /\ c.repo \in Repos /\ c.score \in 0..101 /\ c.path \in {"", "sub"}
Known(c) == Filed(c) \/ c \in Other
IsReg(reg) == DOMAIN reg = Stems /\ \A f \in Stems : Known(reg[f])

\* The values the model takes files from are of that form.
LEMMA ContentsKnown ==
    ASSUME NEW c \in Entry \cup Other
    PROVE  Known(c)
<1>1. c \in Entry => Filed(c)
  BY DEF Entry, Filed
<1> QED BY <1>1 DEF Known

\* What has a kind of its own is a mapping.
LEMMA KindTells ==
    ASSUME NEW c, Known(c), c.kind = "entry"
    PROVE  Filed(c)
BY DEF Known, Other, NoFile

\* What passes while GitHub answers.
Sound(c) == Honest(c) \/ Untyped(c)

\* A sound entry passes, whether or not GitHub can be asked; and one that
\* passes while GitHub answers is sound.
LEMMA SoundPasses ==
    ASSUME NEW c, Known(c), NEW on \in BOOLEAN
    PROVE  /\ Sound(c) => FilePasses(c, on)
           /\ FilePasses(c, on) => Validates(c)
           /\ FilePasses(c, TRUE) => Sound(c)
           /\ Sound(c) => Validates(c)
<1>1. c.kind = "entry" => Filed(c)
  BY KindTells
<1>2. Filed(c) => c.score \in 0..101 /\ Shape[c.repo] \in {"plain", "dotted", "odd", "untyped"}
  BY RegistryAssumption DEF RegistryAssumption, Filed
<1>3. Sound(c) => Validates(c)
  BY <1>1, <1>2 DEF Sound, Honest, Untyped, InOrder, Validates
<1>4. Sound(c) => LanguagePasses(c, on)
  BY DEF Sound, Honest, Untyped, LanguagePasses
<1>5. FilePasses(c, TRUE) => Sound(c)
  BY <1>1, <1>2 DEF FilePasses, Sound, Honest, Untyped, InOrder, Validates, LanguagePasses
<1> QED BY <1>3, <1>4, <1>5 DEF FilePasses

\* The badge of a repository is that of the worst of its entries.
LEMMA WorstWins ==
    ASSUME NEW reg, NEW r, NEW f \in Group(reg, r),
           \A g \in Group(reg, r) : reg[g].grade \in Letters
    PROVE  LET b == BadgeForRepo(reg, Group(reg, r)) IN
              /\ Order(b.message) >= Order(reg[f].grade)
              /\ b.servers = Cardinality(Group(reg, r))
<1> DEFINE group == Group(reg, r)
           b == BadgeForRepo(reg, group)
           found == {i \in 1..5 : WorstFirst[i] \in {reg[g].grade : g \in group}}
<1>1. group \subseteq Stems /\ IsFiniteSet(group) /\ group \subseteq Nat
  BY RegistryAssumption, FS_Subset DEF RegistryAssumption, Group, Entries
<1>2. CASE Cardinality(group) = 1
  <2>1. group = {f}
    BY <1>1, <1>2, FS_Singleton
  <2>2. Min(group) = f
    BY <1>1, <2>1, MinIsMember
  <2>3. b = BadgeFor(reg[f])
    BY <1>2, <2>2 DEF BadgeForRepo
  <2>4. b.message = reg[f].grade /\ b.servers = 1
    BY <2>3 DEF BadgeFor
  <2>5. Order(reg[f].grade) \in Nat
    BY DEF Order
  <2> QED BY <1>2, <2>4, <2>5
<1>3. CASE Cardinality(group) # 1
  <2>1. PICK i \in 1..5 : WorstFirst[i] = reg[f].grade
    <3>1. reg[f].grade \in Letters
      OBVIOUS
    <3> QED BY <3>1 DEF WorstFirst, Letters
  <2>2. i \in found /\ found \subseteq 1..5
    BY <2>1
  <2>3. Min(found) \in 1..5 /\ Min(found) <= i
    BY <2>2, MinIsMember
  <2>4. b.message = WorstFirst[Min(found)] /\ b.servers = Cardinality(group)
    BY <1>3, <2>2 DEF BadgeForRepo
  <2>5. \A k \in 1..5 : Order(WorstFirst[k]) = 5 - k
    BY DEF Order, WorstFirst
  <2> HIDE DEF found, b
  <2> QED BY <2>1, <2>3, <2>4, <2>5 DEF b
<1> QED BY <1>2, <1>3

\* The badges rendered from a registry that passes are honest.
LEMMA RenderedHonest ==
    ASSUME NEW reg, IsReg(reg), \A f \in Present(reg) : Validates(reg[f]), NEW rel,
           from = reg, main.pages = Pages(Nothing, reg, rel)
    PROVE  BadgesHonest
<1> DEFINE badges == main.pages.badges
           plain == {f \in Entries(reg) : Spelling[f] = "plain"}
           slugs == {g \in Entries(reg) : HasSlug(reg[g].repo)}
           repos == {r \in Repos : HasSlug(r) /\ Group(reg, r) # {}}
<1>1. badges = [k \in DOMAIN Written(reg) |-> Written(reg)[k]]
  BY DEF Pages, Badges, Prune
<1>2. \A f \in Entries(reg) : reg[f].named /\ reg[f].grade \in Letters /\ reg[f].repo \in Repos
  <2> SUFFICES ASSUME NEW f \in Entries(reg)
               PROVE  reg[f].named /\ reg[f].grade \in Letters /\ reg[f].repo \in Repos
    OBVIOUS
  <2>1. reg[f].kind = "entry" /\ f \in Stems /\ Known(reg[f])
    BY DEF Entries, IsReg
  <2>2. Filed(reg[f]) /\ f \in Present(reg)
    BY <2>1, KindTells DEF Present
  <2> QED BY <2>2 DEF Validates, Filed
<1>3. DOMAIN Written(reg) = {NameKey(f) : f \in plain} \cup {RepoKey(r) : r \in repos} \cup {TheUnknown}
  <2>1. {f \in Entries(reg) : reg[f].named /\ Spelling[f] = "plain"} = plain
    BY <1>2
  <2> QED BY <2>1 DEF Written
<1>4. {RepoKey(r) : r \in repos} = {RepoKey(reg[f].repo) : f \in slugs}
  BY <1>2 DEF Group
<1>5. \A f \in plain : badges[NameKey(f)].message = reg[f].grade
  <2> SUFFICES ASSUME NEW f \in plain PROVE badges[NameKey(f)].message = reg[f].grade
    OBVIOUS
  <2>1. NameKey(f) \in DOMAIN Written(reg) /\ NameKey(f)[1] = "name" /\ NameKey(f)[2] = f
    BY <1>3 DEF NameKey
  <2>2. badges[NameKey(f)] = BadgeFor(reg[f])
    BY <1>1, <1>2, <2>1 DEF Written
  <2> QED BY <2>2, <1>2 DEF BadgeFor
<1>6. ASSUME NEW f \in slugs
      PROVE  LET b == badges[RepoKey(reg[f].repo)]
             IN  /\ Order(b.message) >= Order(reg[f].grade)
                 /\ b.servers = Cardinality(Group(reg, reg[f].repo))
  <2> DEFINE r == reg[f].repo
  <2>1. RepoKey(r) \in DOMAIN Written(reg) /\ RepoKey(r)[1] = "repo" /\ RepoKey(r)[2] = r
    BY <1>3, <1>4 DEF RepoKey
  <2>2. badges[RepoKey(r)] = BadgeForRepo(reg, Group(reg, r))
    BY <1>1, <2>1 DEF Written
  <2>3. f \in Group(reg, r) /\ \A g \in Group(reg, r) : reg[g].grade \in Letters
    BY <1>2 DEF Group
  <2> HIDE DEF r
  <2>4. /\ Order(badges[RepoKey(r)].message) >= Order(reg[f].grade)
        /\ badges[RepoKey(r)].servers = Cardinality(Group(reg, r))
    BY <2>2, <2>3, WorstWins
  <2> QED BY <2>4 DEF r
<1>7. DOMAIN badges = {NameKey(f) : f \in plain} \cup {TheUnknown} \cup {RepoKey(reg[f].repo) : f \in slugs}
  BY <1>1, <1>3, <1>4
<1> HIDE DEF badges
<1> QED BY <1>5, <1>6, <1>7 DEF BadgesHonest, badges

-----------------------------------------------------------------------------
(***************************************************************************)
(* What a page counts: the rows list every entry once, in the order of the *)
(* key, and the grades of the headline add up to them.                     *)
(***************************************************************************)

\* Every grade has a place in the order, an unknown one the last.
LEMMA OrderTyped == \A g : Order(g) \in Nat
BY DEF Order

\* The entries, and what a sort may rely on.
LEMMA EntriesTyped ==
    ASSUME NEW reg, IsReg(reg)
    PROVE  /\ Entries(reg) \subseteq Nat /\ IsFiniteSet(Entries(reg))
           /\ Cardinality(Entries(reg)) \in Nat
           /\ \A f \in Entries(reg) : reg[f].score \in Nat
<1>1. Entries(reg) \subseteq Stems
  BY DEF Entries
<1>2. Entries(reg) \subseteq Nat /\ IsFiniteSet(Entries(reg))
  BY <1>1, RegistryAssumption, FS_Subset DEF RegistryAssumption
<1>3. ASSUME NEW f \in Entries(reg) PROVE reg[f].score \in Nat
  <2>1. Known(reg[f]) /\ reg[f].kind = "entry"
    BY <1>1, <1>3 DEF Entries, IsReg
  <2>2. Filed(reg[f])
    BY <2>1, KindTells
  <2>3. reg[f].score \in 0..101
    BY <2>2, Zenon DEF Filed
  <2> QED BY <2>3
<1> QED BY <1>2, <1>3, FS_CardinalityType

\* The sort key orders the entries: no two of them are equal.
LEMMA BeforeOrders ==
    ASSUME NEW reg, IsReg(reg)
    PROVE  \A f, g, h \in Entries(reg) :
             /\ Before(reg, f, f)
             /\ Before(reg, f, g) \/ Before(reg, g, f)
             /\ Before(reg, f, g) /\ Before(reg, g, f) => f = g
             /\ Before(reg, f, g) /\ Before(reg, g, h) => Before(reg, f, h)
<1> SUFFICES ASSUME NEW f \in Entries(reg), NEW g \in Entries(reg), NEW h \in Entries(reg)
             PROVE  /\ Before(reg, f, f)
                    /\ Before(reg, f, g) \/ Before(reg, g, f)
                    /\ Before(reg, f, g) /\ Before(reg, g, f) => f = g
                    /\ Before(reg, f, g) /\ Before(reg, g, h) => Before(reg, f, h)
  OBVIOUS
<1>1. f \in Nat /\ g \in Nat /\ h \in Nat
      /\ reg[f].score \in Nat /\ reg[g].score \in Nat /\ reg[h].score \in Nat
  BY EntriesTyped
<1>2. Order(reg[f].grade) \in Nat /\ Order(reg[g].grade) \in Nat /\ Order(reg[h].grade) \in Nat
  BY OrderTyped
<1> QED BY <1>1, <1>2 DEF Before

\* Every entry has a row of its own, and the rows are in the order of the key.
LEMMA RowsOrder ==
    ASSUME NEW reg, IsReg(reg)
    PROVE  LET n == Cardinality(Entries(reg)) IN
             /\ \A f \in Entries(reg) : RowOf(reg, f) \in 1..n
             /\ \A f, g \in Entries(reg) : RowOf(reg, f) <= RowOf(reg, g) => Before(reg, f, g)
             /\ \A i \in 1..n : \E f \in Entries(reg) : RowOf(reg, f) = i
<1> DEFINE S == Entries(reg)
           n == Cardinality(S)
           Upto(f) == {g \in S : Before(reg, g, f)}
           row == [f \in S |-> RowOf(reg, f)]
<1>1. IsFiniteSet(S) /\ n \in Nat
  BY EntriesTyped
<1>2. \A f \in S : /\ f \in Upto(f) /\ Upto(f) \in SUBSET S
                   /\ RowOf(reg, f) = Cardinality(Upto(f))
  BY BeforeOrders DEF RowOf
<1>3. \A f, g \in S : /\ Before(reg, f, g) \/ Before(reg, g, f)
                      /\ Before(reg, f, g) /\ f # g => Upto(f) \subseteq Upto(g) /\ g \notin Upto(f)
  BY BeforeOrders
<1> HIDE DEF S, Upto, n
<1>4. ASSUME NEW f \in S
      PROVE  IsFiniteSet(Upto(f)) /\ RowOf(reg, f) \in 1..n
  <2>1. IsFiniteSet(Upto(f)) /\ Cardinality(Upto(f)) <= n
    BY <1>1, <1>2, FS_Subset DEF n
  <2>2. Cardinality(Upto(f)) \in Nat /\ Cardinality(Upto(f)) # 0
    BY <1>2, <2>1, FS_CardinalityType, FS_EmptySet
  <2> QED BY <1>1, <1>2, <2>1, <2>2
<1>5. ASSUME NEW f \in S, NEW g \in S, Before(reg, f, g), f # g
      PROVE  RowOf(reg, f) < RowOf(reg, g)
  <2>1. Upto(f) \in SUBSET Upto(g) /\ Upto(f) # Upto(g)
    BY <1>2, <1>3, <1>5
  <2>2. Cardinality(Upto(f)) <= Cardinality(Upto(g)) /\ Cardinality(Upto(f)) # Cardinality(Upto(g))
    BY <1>4, <2>1, FS_Subset
  <2>3. RowOf(reg, f) = Cardinality(Upto(f)) /\ RowOf(reg, g) = Cardinality(Upto(g))
    BY <1>2
  <2>4. RowOf(reg, f) \in Nat /\ RowOf(reg, g) \in Nat
    BY <1>4
  <2> QED BY <2>2, <2>3, <2>4
<1>6. \A f, g \in S : RowOf(reg, f) <= RowOf(reg, g) => Before(reg, f, g)
  <2> SUFFICES ASSUME NEW f \in S, NEW g \in S, RowOf(reg, f) <= RowOf(reg, g), ~Before(reg, f, g)
               PROVE  FALSE
    OBVIOUS
  <2>1. Before(reg, g, f) /\ f # g
    BY <1>3
  <2>2. RowOf(reg, f) \in Nat /\ RowOf(reg, g) \in Nat
    BY <1>4
  <2> QED BY <1>5, <2>1, <2>2
<1>7. \A f, g \in S : RowOf(reg, f) = RowOf(reg, g) => f = g
  <2> SUFFICES ASSUME NEW f \in S, NEW g \in S, RowOf(reg, f) = RowOf(reg, g), f # g PROVE FALSE
    OBVIOUS
  <2>1. RowOf(reg, f) \in Nat /\ RowOf(reg, g) \in Nat
    BY <1>4
  <2>2. RowOf(reg, f) < RowOf(reg, g) \/ RowOf(reg, g) < RowOf(reg, f)
    BY <1>3, <1>5
  <2> QED BY <2>1, <2>2
<1>8. \A i \in 1..n : \E f \in S : RowOf(reg, f) = i
  <2>1. row \in Injection(S, 1..n)
    <3>1. row \in [S -> 1..n] /\ \A f, g \in S : row[f] = row[g] => f = g
      BY <1>4, <1>7
    <3> QED BY <3>1, Fun_IsInj
  <2>2. IsFiniteSet(1..n) /\ Cardinality(1..n) = n
    BY <1>1, FS_Interval
  <2>3. row \in Surjection(S, 1..n)
    BY <2>1, <2>2, FS_Injection DEF n
  <2>4. \A i \in 1..n : \E f \in S : row[f] = i
    <3> HIDE DEF row
    <3> QED BY <2>3, Fun_SurjectionProperties
  <2> QED BY <2>4
<1> QED BY <1>4, <1>6, <1>8 DEF n, S

\* The rows list every entry once, in the order of the key.
LEMMA SortedLists ==
    ASSUME NEW reg, IsReg(reg)
    PROVE  LET s == Sorted(reg)  n == Cardinality(Entries(reg)) IN
             /\ s \in Seq(Entries(reg)) /\ Len(s) = n /\ DOMAIN s = 1..n
             /\ {s[i] : i \in 1..n} = Entries(reg)
             /\ \A i, k \in 1..n : i < k => Before(reg, s[i], s[k])
<1> DEFINE S == Entries(reg)
           n == Cardinality(S)
           s == Sorted(reg)
<1>1. n \in Nat
  BY EntriesTyped
<1>2. /\ \A f \in S : RowOf(reg, f) \in 1..n
      /\ \A f, g \in S : RowOf(reg, f) <= RowOf(reg, g) => Before(reg, f, g)
      /\ \A i \in 1..n : \E f \in S : RowOf(reg, f) = i
      /\ \A f, g \in S : Before(reg, f, g) /\ Before(reg, g, f) => f = g
  BY RowsOrder, BeforeOrders
<1>3. s = [i \in 1..n |-> CHOOSE f \in S : RowOf(reg, f) = i]
  BY DEF Sorted
<1> HIDE DEF S, n, s
<1>4. \A i \in 1..n : s[i] \in S /\ RowOf(reg, s[i]) = i
  BY <1>2, <1>3
<1>5. s \in [1..n -> S] /\ DOMAIN s = 1..n
  BY <1>3, <1>4
<1>6. s \in Seq(S) /\ Len(s) = n
  BY <1>1, <1>5
<1>7. ASSUME NEW f \in S PROVE f \in {s[i] : i \in 1..n}
  <2>1. RowOf(reg, f) \in 1..n
    BY <1>2
  <2>2. s[RowOf(reg, f)] \in S /\ RowOf(reg, s[RowOf(reg, f)]) = RowOf(reg, f)
    BY <1>4, <2>1
  <2>3. s[RowOf(reg, f)] = f
    BY <1>1, <1>2, <2>1, <2>2
  <2> QED BY <2>1, <2>3
<1>8. {s[i] : i \in 1..n} = S
  BY <1>4, <1>7
<1>9. ASSUME NEW i \in 1..n, NEW k \in 1..n, i < k PROVE Before(reg, s[i], s[k])
  BY <1>1, <1>2, <1>4, <1>9
<1> QED BY <1>5, <1>6, <1>8, <1>9 DEF S, n, s

\* Two finite sets that share nothing have as many members as both together.
LEMMA TogetherCount ==
    ASSUME NEW S, NEW T, IsFiniteSet(S), IsFiniteSet(T), S \cap T = {}
    PROVE  /\ IsFiniteSet(S \cup T) /\ Cardinality(S \cup T) = Cardinality(S) + Cardinality(T)
           /\ Cardinality(S) \in Nat /\ Cardinality(T) \in Nat
<1>1. Cardinality(S \cap T) = 0 /\ Cardinality(S) \in Nat /\ Cardinality(T) \in Nat
  BY FS_EmptySet, FS_CardinalityType
<1>2. IsFiniteSet(S \cup T) /\ Cardinality(S \cup T) = Cardinality(S) + Cardinality(T) - Cardinality(S \cap T)
  BY FS_Union
<1> QED BY <1>1, <1>2

\* The grades of a headline add up to the entries, once every entry has a grade.
LEMMA TallyAddsUp ==
    ASSUME NEW reg, IsReg(reg), \A f \in Entries(reg) : reg[f].grade \in Letters
    PROVE  LET t == Tally(reg) IN
             Cardinality(Entries(reg)) = t["A"] + t["B"] + t["C"] + t["D"] + t["F"]
<1> DEFINE S == Entries(reg)
           Of(g) == {f \in S : reg[f].grade = g}
<1>1. IsFiniteSet(S)
  BY EntriesTyped
<1>2. \A g : IsFiniteSet(Of(g)) /\ Cardinality(Of(g)) \in Nat
  <2>1. \A g : Of(g) \in SUBSET S
    OBVIOUS
  <2> HIDE DEF Of, S
  <2> QED BY <1>1, <2>1, FS_Subset, FS_CardinalityType
<1>3. \A g \in Letters : Tally(reg)[g] = Cardinality(Of(g))
  BY DEF Tally
<1> DEFINE AB == Of("A") \cup Of("B")
           ABC == AB \cup Of("C")
           ABCD == ABC \cup Of("D")
<1>4. S = ABCD \cup Of("F")
  BY DEF Letters
<1>5. /\ Of("A") \cap Of("B") = {} /\ AB \cap Of("C") = {} /\ ABC \cap Of("D") = {}
      /\ ABCD \cap Of("F") = {}
  OBVIOUS
<1>6. IsFiniteSet(AB) /\ Cardinality(AB) = Cardinality(Of("A")) + Cardinality(Of("B"))
  <2> HIDE DEF Of
  <2> QED BY <1>2, <1>5, TogetherCount
<1>7. IsFiniteSet(ABC) /\ Cardinality(ABC) = Cardinality(AB) + Cardinality(Of("C"))
  <2> HIDE DEF Of, AB
  <2> QED BY <1>2, <1>5, <1>6, TogetherCount
<1>8. IsFiniteSet(ABCD) /\ Cardinality(ABCD) = Cardinality(ABC) + Cardinality(Of("D"))
  <2> HIDE DEF Of, AB, ABC
  <2> QED BY <1>2, <1>5, <1>7, TogetherCount
<1>9. Cardinality(S) = Cardinality(ABCD) + Cardinality(Of("F"))
  <2> HIDE DEF Of, AB, ABC, ABCD, S
  <2> QED BY <1>2, <1>4, <1>5, <1>8, TogetherCount
<1> HIDE DEF Of, AB, ABC, ABCD, S
<1>10. Cardinality(S) = Cardinality(Of("A")) + Cardinality(Of("B")) + Cardinality(Of("C"))
                        + Cardinality(Of("D")) + Cardinality(Of("F"))
  BY <1>2, <1>6, <1>7, <1>8, <1>9
<1> QED BY <1>3, <1>10 DEF S, Letters

\* Pages rendered from valid entries say what they count.
LEMMA RenderedCounts ==
    ASSUME NEW reg, IsReg(reg), \A f \in Present(reg) : Validates(reg[f]), NEW rel,
           from = reg, main.pages = Pages(Nothing, reg, rel)
    PROVE  PagesCount
<1> DEFINE S == Entries(reg)
           n == Cardinality(S)
           s == Sorted(reg)
           board == main.pages.board
           site == main.pages.site
<1>1. board = Board(reg) /\ site = Site(reg, rel)
  BY DEF Pages
<1>2. /\ s \in Seq(S) /\ Len(s) = n /\ DOMAIN s = 1..n /\ n \in Nat
      /\ {s[i] : i \in 1..n} = S
      /\ \A i, k \in 1..n : i < k => Before(reg, s[i], s[k])
  BY SortedLists, EntriesTyped
<1>3. \A f \in S : reg[f].grade \in Letters
  <2>1. S \subseteq Present(reg)
    BY DEF Entries, Present
  <2> QED BY <2>1 DEF Validates
<1>4. n = Tally(reg)["A"] + Tally(reg)["B"] + Tally(reg)["C"] + Tally(reg)["D"] + Tally(reg)["F"]
  BY <1>3, TallyAddsUp
<1>5. Owned(reg) <= n
  <2>1. {f \in S : reg[f].owner} \in SUBSET S /\ IsFiniteSet(S)
    BY EntriesTyped
  <2> QED BY <2>1, FS_Subset DEF Owned
<1>6. ASSUME NEW p \in {board, site}
      PROVE  /\ p.checked = n /\ p.owned = Owned(reg) /\ p.tally = Tally(reg)
             /\ DOMAIN p.rows = 1..n /\ Len(p.rows) = n
             /\ \A i \in 1..n : p.rows[i].name = s[i]
  <2> HIDE DEF s, n
  <2>1. CASE p = board
    <3> DEFINE rows == [i \in DOMAIN s |-> [name |-> s[i], grade |-> reg[s[i]].grade, off |-> reg[s[i]].off]]
    <3>1. p = [rows |-> rows, checked |-> Len(s), tally |-> Tally(reg), owned |-> Owned(reg)]
      BY <1>1, <2>1, Zenon DEF Board, s
    <3>2. DOMAIN rows = 1..n /\ rows \in Seq({rows[i] : i \in 1..n}) /\ Len(rows) = n
          /\ \A i \in 1..n : rows[i].name = s[i]
      BY <1>2
    <3> HIDE DEF rows
    <3> QED BY <1>2, <3>1, <3>2
  <2>2. CASE p = site
    <3> DEFINE rows == [i \in DOMAIN s |-> [name |-> s[i], grade |-> reg[s[i]].grade, score |-> reg[s[i]].score]]
    <3>1. p = [rows |-> rows, checked |-> Len(s), tally |-> Tally(reg), owned |-> Owned(reg), rules |-> rel]
      BY <1>1, <2>2, Zenon DEF Site, s
    <3>2. DOMAIN rows = 1..n /\ rows \in Seq({rows[i] : i \in 1..n}) /\ Len(rows) = n
          /\ \A i \in 1..n : rows[i].name = s[i]
      BY <1>2
    <3> HIDE DEF rows
    <3> QED BY <1>2, <3>1, <3>2
  <2> QED BY <2>1, <2>2
<1> HIDE DEF s, n, S, board, site
<1>7. ASSUME NEW p \in {board, site} PROVE {p.rows[i].name : i \in DOMAIN p.rows} = S
  <2>1. \A i \in DOMAIN p.rows : i \in 1..n /\ p.rows[i].name = s[i]
    BY <1>6
  <2> QED BY <1>2, <1>6, <2>1
<1>8. ASSUME NEW p \in {board, site}, NEW i \in DOMAIN p.rows, NEW k \in DOMAIN p.rows, i < k
      PROVE  LET a == reg[p.rows[i].name]  b == reg[p.rows[k].name]
             IN  Order(a.grade) < Order(b.grade) \/ (a.grade = b.grade /\ a.score >= b.score)
  <2>1. i \in 1..n /\ k \in 1..n /\ p.rows[i].name = s[i] /\ p.rows[k].name = s[k]
    BY <1>6
  <2>2. s[i] \in S /\ s[k] \in S /\ Before(reg, s[i], s[k])
    BY <1>2, <1>8, <2>1
  <2>3. reg[s[i]].grade \in Letters /\ reg[s[k]].grade \in Letters
        /\ reg[s[i]].score \in Nat /\ reg[s[k]].score \in Nat
    BY <1>3, <2>2, EntriesTyped DEF S
  <2>4. \A g, h \in Letters : Order(g) = Order(h) => g = h
    BY DEF Order, Letters
  <2>5. \/ Order(reg[s[i]].grade) < Order(reg[s[k]].grade)
        \/ reg[s[i]].grade = reg[s[k]].grade /\ reg[s[i]].score >= reg[s[k]].score
    BY <2>2, <2>3, <2>4, OrderTyped DEF Before
  <2> QED BY <2>1, <2>5
<1> QED BY <1>4, <1>5, <1>6, <1>7, <1>8 DEF PagesCount, S, n, board, site

-----------------------------------------------------------------------------
(***************************************************************************)
(* The inductive invariant.                                                *)
(***************************************************************************)

\* A registry of which all that is there passes, and is honest as long as
\* GitHub has always answered.
Passed(reg) ==
    /\ IsReg(reg)
    /\ \A f \in Present(reg) : Validates(reg[f]) /\ (outages = 0 => Sound(reg[f]))

MainTyped ==
    /\ DOMAIN main = {"head", "reg", "pages"} /\ main.head \in Nat /\ IsReg(main.reg)
    /\ release \in {1, 2} /\ online \in BOOLEAN /\ outages \in Nat /\ (outages = 0 => online)
    /\ DOMAIN jobs = Jobs

\* What the pages show is what was put there.
PagesAre == Passed(from) /\ \E r \in {1, 2} : main.pages = Pages(Nothing, from, r)

JobFields == {"pc", "head", "reg", "pages", "release", "left", "bad"}

\* A job has the registry of the head it checked out; what it has looked at
\* passes, or is not honest.
JobSound(x) ==
    /\ x.pc \in {"free", "validate", "push", "failed"}
    /\ x.pc \in {"validate", "push"} =>
          /\ DOMAIN x = JobFields /\ IsReg(x.reg)
          /\ x.head \in Nat /\ x.head <= main.head /\ x.release \in {1, 2}
          /\ x.head = main.head => x.reg = main.reg /\ x.release = release
          /\ x.left \subseteq Present(x.reg)
          /\ \A f \in x.bad : f \in Present(x.reg) /\ ~Sound(x.reg[f])
          /\ \A f \in Present(x.reg) \ (x.left \cup x.bad) :
                Validates(x.reg[f]) /\ (outages = 0 => Sound(x.reg[f]))
    /\ x.pc = "push" => x.left = {} /\ x.bad = {} /\ x.pages = Pages(Nothing, x.reg, x.release)
    /\ x.pc = "failed" => \E f \in Present(x.reg) : ~Sound(x.reg[f])

\* A regrade tells about all it has left behind.
Judged(f) ==
    \/ f \in regrade.problems \/ f \in regrade.drifts
    \/ \E r \in 1..release : LET e == regrade.reg[f]  v == Scan[r][e.repo][e.path] IN
          v.kind = "graded" /\ <<v.grade, v.score>> = <<e.grade, e.score>>

RegradeFields == {"pc", "reg", "asked", "left", "drifts", "problems"}

RegradeSound ==
    /\ DOMAIN regrade = RegradeFields /\ IsReg(regrade.reg)
    /\ regrade.asked \subseteq Entries(regrade.reg)
    /\ \A f \in regrade.drifts : f \in regrade.asked /\ Verdict(regrade.reg[f]).kind = "graded"
    /\ \A f \in regrade.asked \ regrade.left : Judged(f)
    /\ regrade.pc = "done" => regrade.drifts \cup regrade.problems = {}

IInv == MainTyped /\ PagesAre /\ (\A j \in Jobs : JobSound(jobs[j])) /\ RegradeSound

\* Whoever changes main moves its head.
Moves == /\ DOMAIN main' = {"head", "reg", "pages"} /\ main'.head \in Nat /\ IsReg(main'.reg)
         /\ \/ main'.head > main.head
            \/ main'.head = main.head /\ main'.reg = main.reg /\ release' = release
         /\ outages' = 0 => outages = 0

\* A job is not disturbed by what lands on main meanwhile.
LEMMA JobStays ==
    ASSUME MainTyped, Moves, NEW j \in Jobs, JobSound(jobs[j]), jobs'[j] = jobs[j]
    PROVE  JobSound(jobs[j])'
BY DEF MainTyped, Moves, JobSound

\* What passed passes still.
LEMMA PagesStay ==
    ASSUME PagesAre, UNCHANGED from, main'.pages = main.pages, outages' = 0 => outages = 0
    PROVE  PagesAre'
BY DEF PagesAre, Passed

\* A regrade that nobody disturbs keeps what it has found.
LEMMA RegradeStays ==
    ASSUME RegradeSound, UNCHANGED <<regrade, release>>
    PROVE  RegradeSound'
BY DEF RegradeSound, Judged, Verdict

\* And one that is off has found nothing.
LEMMA RegradeOff ==
    ASSUME regrade' = NoRun
    PROVE  RegradeSound'
<1>1. IsReg(regrade'.reg) /\ regrade'.asked = {} /\ regrade'.drifts = {} /\ regrade'.pc = "off"
      /\ DOMAIN regrade' = RegradeFields
  BY DEF NoRun, IsReg, Known, Other, RegradeFields
<1> QED BY <1>1 DEF RegradeSound, Entries

\* At first there is an honest registry, and nothing is under way.
LEMMA InvInit == Init => IInv
<1> SUFFICES ASSUME Init PROVE IInv
  OBVIOUS
<1>1. PICK reg \in Registries :
         main = [head |-> 0, reg |-> reg, pages |-> Pages(Nothing, reg, 1)] /\ from = reg
  BY DEF Init
<1>2. IsReg(reg) /\ \A f \in Present(reg) : Sound(reg[f])
  BY BoardAssumption, ContentsKnown DEF Sound, BoardAssumption, IsReg
<1>3. Passed(from)
  <2> SUFFICES ASSUME NEW f \in Present(reg) PROVE Validates(reg[f]) /\ Sound(reg[f])
    BY <1>1, <1>2 DEF Passed
  <2>1. Known(reg[f])
    BY <1>2 DEF IsReg, Present
  <2> QED BY <1>2, <2>1, SoundPasses
<1>4. main.pages = Pages(Nothing, from, 1)
  BY <1>1
<1>5. MainTyped /\ release = 1 /\ \A j \in Jobs : jobs[j] = Free
  BY <1>1, <1>2 DEF Init, MainTyped
<1>6. \A j \in Jobs : JobSound(jobs[j])
  BY <1>5 DEF JobSound, Free
<1>7. RegradeSound
  <2>1. IsReg(regrade.reg) /\ regrade.asked = {} /\ regrade.drifts = {} /\ regrade.pc = "off"
        /\ DOMAIN regrade = RegradeFields
    BY DEF Init, NoRun, IsReg, Known, Other, RegradeFields
  <2> QED BY <2>1 DEF RegradeSound, Entries
<1> QED BY <1>3, <1>4, <1>5, <1>6, <1>7 DEF IInv, PagesAre

\* A push that keeps to what main may hold keeps the invariant.
LEMMA PushKeeps ==
    ASSUME IInv, NEW reg, IsReg(reg), Watched(reg), release' \in {1, 2},
           UNCHANGED <<jobs, online, from, outages>>
    PROVE  IInv'
<1>1. /\ main' = [main EXCEPT !.head = @ + 1, !.reg = reg] /\ regrade' = NoRun
      /\ MainTyped /\ PagesAre /\ \A j \in Jobs : JobSound(jobs[j])
  BY DEF Watched, IInv
<1>2. Moves /\ main'.pages = main.pages
  BY <1>1 DEF MainTyped, Moves
<1>3. MainTyped'
  BY <1>1, <1>2 DEF MainTyped, Moves
<1>4. PagesAre'
  BY <1>1, <1>2, PagesStay DEF Moves
<1>5. \A j \in Jobs : JobSound(jobs[j])'
  BY <1>1, <1>2, JobStays
<1>6. RegradeSound'
  BY <1>1, RegradeOff
<1> QED BY <1>3, <1>4, <1>5, <1>6 DEF IInv

\* What a regrade makes of an entry is an entry.
LEMMA PatchedIsEntry ==
    ASSUME NEW e, Filed(e), release \in {1, 2}, Verdict(e).kind = "graded"
    PROVE  Filed(Patched(e))
<1> DEFINE v == Verdict(e)
           Says == [kind : {"graded"}, grade : Letters, score : 0..100] \cup [kind : {"refused", "missing"}]
           n == [e EXCEPT !.grade = v.grade, !.score = v.score, !.version = release]
<1>1. v.kind = "graded" /\ Patched(e) = n
  BY DEF Patched
<1>2. e.repo \in Repos /\ e.path \in {"", "sub"} /\ e.kind = "entry"
      /\ DOMAIN e = {"kind", "named", "repo", "language", "grade", "score", "rest", "sha",
                     "path", "off", "owner", "version"}
  BY DEF Filed
<1>3. v \in Says
  <2>1. Scan \in [1..2 -> [Repos -> [{"", "sub"} -> Says]]]
    BY RegradeAssumption, Zenon DEF RegradeAssumption
  <2> HIDE DEF Says
  <2>2. release \in 1..2
    OBVIOUS
  <2>3. Scan[release] \in [Repos -> [{"", "sub"} -> Says]]
    BY <2>1, <2>2
  <2>4. Scan[release][e.repo] \in [{"", "sub"} -> Says]
    BY <1>2, <2>3
  <2>5. Scan[release][e.repo][e.path] \in Says
    BY <1>2, <2>4
  <2> QED BY <2>5 DEF Verdict
<1> HIDE DEF v
<1>4. v.score \in 0..100
  BY <1>1, <1>3
<1>5. DOMAIN n = DOMAIN e /\ n.kind = e.kind /\ n.repo = e.repo /\ n.path = e.path /\ n.score = v.score
  BY <1>2
<1> HIDE DEF n
<1>6. n.score \in 0..101
  BY <1>4, <1>5
<1>7. Filed(n)
  BY <1>2, <1>5, <1>6, Zenon DEF Filed
<1> QED BY <1>1, <1>7

\* A regrade begins with all it was asked about still to do.
LEMMA StartIsSound ==
    ASSUME NEW reg, IsReg(reg), NEW asked, StartRegrade(reg, asked)
    PROVE  RegradeSound'
<1>1. /\ regrade'.reg = reg /\ regrade'.asked = asked /\ regrade'.left = asked
      /\ regrade'.drifts = {} /\ regrade'.problems = {} /\ DOMAIN regrade' = RegradeFields
      /\ asked \subseteq Entries(reg)
  BY DEF StartRegrade, NoRun, RegradeFields
<1> QED BY <1>1 DEF RegradeSound

\* A clone tells about every entry of it, whether it fails or not.
LEMMA RegradeKeeps ==
    ASSUME RegradeSound, release \in {1, 2}, RegradeGroup(online) \/ EndRegrade
    PROVE  RegradeSound'
<1>1. /\ UNCHANGED release /\ DOMAIN regrade = RegradeFields /\ IsReg(regrade.reg)
      /\ regrade.asked \subseteq Entries(regrade.reg)
      /\ \A f \in regrade.drifts : f \in regrade.asked /\ Verdict(regrade.reg[f]).kind = "graded"
      /\ \A f \in regrade.asked \ regrade.left : Judged(f)
      /\ regrade.pc = "clone"
  BY DEF RegradeSound, RegradeGroup, EndRegrade
<1>2. CASE EndRegrade
  <2>1. /\ regrade'.reg = regrade.reg /\ regrade'.asked = regrade.asked /\ regrade'.left = regrade.left
        /\ regrade'.drifts = regrade.drifts /\ regrade'.problems = regrade.problems
        /\ DOMAIN regrade' = RegradeFields
        /\ regrade'.pc = "done" => regrade.drifts = {} /\ regrade.problems = {}
    BY <1>1, <1>2 DEF EndRegrade, RegradeFields
  <2> QED BY <1>1, <2>1 DEF RegradeSound, Judged, Verdict
<1>3. CASE RegradeGroup(online)
  <2>1. PICK group \in SUBSET regrade.asked : regrade' \in {ScanGroup(group), FailClone(group)}
    BY <1>3 DEF RegradeGroup, Clone
  <2>2. /\ regrade'.reg = regrade.reg /\ regrade'.asked = regrade.asked /\ regrade'.pc = "clone"
        /\ regrade'.left = regrade.left \ group /\ DOMAIN regrade' = RegradeFields
        /\ regrade.drifts \subseteq regrade'.drifts /\ regrade.problems \subseteq regrade'.problems
    BY <1>1, <2>1 DEF ScanGroup, FailClone, RegradeFields
  <2>3. \A f \in regrade'.drifts : f \in regrade.drifts
           \/ (f \in group /\ Verdict(regrade.reg[f]).kind = "graded")
    <3>1. CASE regrade' = FailClone(group)
      BY <1>1, <3>1 DEF FailClone, RegradeFields
    <3>2. CASE regrade' = ScanGroup(group)
      <4> DEFINE new == {f \in group : LET e == regrade.reg[f]  v == Verdict(e) IN
                           v.kind = "graded" /\ <<v.grade, v.score>> # <<e.grade, e.score>>}
      <4>1. \A f \in new : f \in group /\ Verdict(regrade.reg[f]).kind = "graded"
        OBVIOUS
      <4>2. regrade' = [regrade EXCEPT !.left = @ \ group, !.drifts = @ \cup new,
                          !.problems = @ \cup {f \in group : Verdict(regrade.reg[f]).kind # "graded"}]
        BY <3>2 DEF ScanGroup
      <4> HIDE DEF new
      <4>3. regrade'.drifts = regrade.drifts \cup new
        BY <1>1, <4>2 DEF RegradeFields
      <4> QED BY <4>1, <4>3
    <3> QED BY <2>1, <3>1, <3>2
  <2>4. ASSUME NEW f \in group PROVE Judged(f)'
    <3>1. CASE regrade' = FailClone(group)
      BY <1>1, <2>4, <3>1 DEF FailClone, Judged, RegradeFields
    <3>2. CASE regrade' = ScanGroup(group)
      <4> DEFINE e == regrade.reg[f]
                 v == Verdict(e)
      <4>1. \/ f \in regrade'.problems \/ f \in regrade'.drifts
            \/ v.kind = "graded" /\ <<v.grade, v.score>> = <<e.grade, e.score>>
        BY <1>1, <2>4, <3>2 DEF ScanGroup, RegradeFields
      <4>2. release \in 1..release /\ v = Scan[release][e.repo][e.path]
        BY DEF Verdict
      <4> HIDE DEF v
      <4> QED BY <1>1, <2>2, <4>1, <4>2 DEF Judged
    <3> QED BY <2>1, <3>1, <3>2
  <2>5. \A f \in regrade'.asked \ regrade'.left : Judged(f)'
    <3> SUFFICES ASSUME NEW f \in regrade.asked, f \notin regrade.left \ group PROVE Judged(f)'
      BY <2>2
    <3>1. CASE f \in group
      BY <3>1, <2>4
    <3>2. CASE f \notin group
      <4>1. Judged(f)
        BY <3>2, <1>1
      <4> QED BY <4>1, <1>1, <2>2 DEF Judged
    <3> QED BY <3>1, <3>2
  <2>6. (\A f \in regrade.drifts : f \in regrade.asked /\ Verdict(regrade.reg[f]).kind = "graded")'
    <3> SUFFICES ASSUME NEW f \in regrade'.drifts
                 PROVE  f \in regrade'.asked /\ (Verdict(regrade.reg[f])').kind = "graded"
      OBVIOUS
    <3>1. f \in regrade.asked /\ Verdict(regrade.reg[f]).kind = "graded"
      BY <1>1, <2>3
    <3>2. Verdict(regrade.reg[f])' = Verdict(regrade.reg[f])
      BY <1>1, <2>2 DEF Verdict
    <3> QED BY <2>2, <3>1, <3>2
  <2> QED BY <1>1, <2>2, <2>5, <2>6 DEF RegradeSound
<1> QED BY <1>2, <1>3

\* Every step keeps the invariant.
LEMMA InvNext == IInv /\ [Next]_vars => IInv'
<1> SUFFICES ASSUME IInv, [Next]_vars PROVE IInv'
  OBVIOUS
<1>a. MainTyped /\ PagesAre /\ (\A j \in Jobs : JobSound(jobs[j])) /\ RegradeSound
  BY DEF IInv
<1>b. ASSUME UNCHANGED <<main, jobs, from, release>>, outages' = 0 => outages = 0
      PROVE  PagesAre' /\ (\A j \in Jobs : JobSound(jobs[j])') /\ Moves
  <2>1. Moves
    BY <1>a, <1>b DEF Moves, MainTyped
  <2> QED BY <1>a, <1>b, <2>1, PagesStay, JobStays
<1>c. ASSUME NEW j \in Jobs, UNCHANGED <<main, online, from, release, regrade, outages>>,
             NEW x, jobs' = [jobs EXCEPT ![j] = x], JobSound(jobs[j])'
      PROVE  IInv'
  <2>1. MainTyped' /\ Moves /\ PagesAre' /\ RegradeSound'
    BY <1>a, <1>c, PagesStay, RegradeStays DEF MainTyped, Moves
  <2>2. \A i \in Jobs : i # j => jobs'[i] = jobs[i]
    BY <1>a, <1>c DEF MainTyped
  <2>3. \A i \in Jobs : JobSound(jobs[i])'
    <3> SUFFICES ASSUME NEW i \in Jobs PROVE JobSound(jobs[i])'
      OBVIOUS
    <3>1. CASE i = j
      BY <3>1, <1>c
    <3>2. CASE i # j
      BY <3>2, <2>1, <2>2, <1>a, JobStays
    <3> QED BY <3>1, <3>2
  <2> QED BY <2>1, <2>3 DEF IInv
<1>1. CASE UNCHANGED vars
  <2>1. UNCHANGED <<main, jobs, from, release, regrade, online, outages>>
    BY <1>1 DEF vars, counters
  <2>2. MainTyped' /\ RegradeSound'
    BY <2>1, <1>a, RegradeStays DEF MainTyped
  <2> QED BY <2>1, <2>2, <1>b DEF IInv
<1>2. ASSUME NEW f \in Stems, NEW c \in Contents, Edit(f, c) PROVE IInv'
  <2>1. Known(c) /\ IsReg(main.reg)
    BY <1>a, ContentsKnown, RegistryAssumption DEF RegistryAssumption, MainTyped
  <2>2. IsReg([main.reg EXCEPT ![f] = c])
    BY <2>1 DEF IsReg
  <2> QED BY <1>2, <1>a, <2>2, PushKeeps DEF Edit, MainTyped
<1>3. CASE Upgrade
  BY <1>3, <1>a, PushKeeps DEF Upgrade, MainTyped
<1>4. CASE Patch
  <2> DEFINE reg == [f \in Stems |-> IF f \in regrade.drifts THEN Patched(regrade.reg[f]) ELSE main.reg[f]]
  <2>1. ASSUME NEW f \in Stems, f \in regrade.drifts PROVE Filed(Patched(regrade.reg[f]))
    <3>1. /\ f \in Entries(regrade.reg) /\ Known(regrade.reg[f])
          /\ Verdict(regrade.reg[f]).kind = "graded"
      BY <1>a, <2>1 DEF RegradeSound, IsReg
    <3>2. Filed(regrade.reg[f])
      BY <3>1, KindTells DEF Entries
    <3> QED BY <3>1, <3>2, <1>a, PatchedIsEntry DEF MainTyped
  <2>2. IsReg(reg)
    BY <2>1, <1>a DEF MainTyped, IsReg, Known
  <2>3. Watched(reg) /\ UNCHANGED <<jobs, online, from, release, outages>>
    BY <1>4 DEF Patch
  <2> HIDE DEF reg
  <2> QED BY <2>2, <2>3, <1>a, PushKeeps DEF MainTyped
<1>5. CASE Elsewhere
  <2>1. main' = [main EXCEPT !.head = @ + 1] /\ UNCHANGED <<jobs, online, from, release, regrade, outages>>
    BY <1>5 DEF Elsewhere
  <2>2. Moves /\ main'.pages = main.pages /\ MainTyped'
    BY <2>1, <1>a DEF MainTyped, Moves
  <2> QED BY <2>1, <2>2, <1>a, PagesStay, JobStays, RegradeStays DEF IInv
<1>6. CASE Toggle
  <2>1. /\ online' = ~online /\ outages' = IF online THEN outages + 1 ELSE outages
        /\ UNCHANGED <<main, jobs, from, release, regrade>>
    BY <1>6 DEF Toggle
  <2>2. MainTyped' /\ (outages' = 0 => outages = 0)
    BY <2>1, <1>a DEF MainTyped
  <2> QED BY <2>1, <2>2, <1>a, <1>b, RegradeStays DEF IInv
<1>7. CASE RegradeStep
  <2>1. UNCHANGED <<main, jobs, online, from, outages, release>>
    BY <1>7 DEF RegradeStep, RegradeGroup, EndRegrade, counters
  <2>2. RegradeSound'
    <3>1. RegradeSound /\ release \in {1, 2} /\ (RegradeGroup(online) \/ EndRegrade)
      BY <1>7, <1>a DEF MainTyped, RegradeStep
    <3> QED BY <3>1, RegradeKeeps
  <2>3. MainTyped'
    BY <2>1, <1>a DEF MainTyped
  <2> QED BY <2>1, <2>2, <2>3, <1>b DEF IInv
<1>8. ASSUME NEW asked \in SUBSET Stems, BeginRegrade(asked) PROVE IInv'
  <2>1. UNCHANGED <<main, jobs, online, from, outages, release>> /\ StartRegrade(main.reg, asked)
    BY <1>8 DEF BeginRegrade, StartRegrade
  <2>2. MainTyped'
    BY <2>1, <1>a DEF MainTyped
  <2>3. RegradeSound'
    BY <2>1, <1>a, StartIsSound DEF MainTyped
  <2> QED BY <2>1, <2>2, <2>3, <1>b DEF IInv
<1>9. ASSUME NEW j \in Jobs, JobStep(j) PROVE IInv'
  <2>1. CASE Start(j)
    <3> DEFINE x == [pc |-> "validate", head |-> main.head, reg |-> main.reg, pages |-> main.pages,
                     release |-> release, left |-> Present(main.reg), bad |-> {}]
    <3>1. jobs' = [jobs EXCEPT ![j] = x] /\ UNCHANGED <<main, online, from, release, regrade, outages>>
      BY <2>1 DEF Start, counters
    <3>2. jobs'[j] = x
      BY <3>1, <1>a DEF MainTyped
    <3>3. JobSound(jobs[j])'
      BY <3>1, <3>2, <1>a DEF JobSound, JobFields, MainTyped
    <3> HIDE DEF x
    <3> QED BY <3>1, <3>3, <1>c
  <2>2. CASE ValidateFile(j)
    <3> DEFINE f == Min(jobs[j].left)
               x == [jobs[j] EXCEPT !.left = @ \ {f},
                                    !.bad = IF FilePasses(jobs[j].reg[f], online) THEN @ ELSE @ \cup {f}]
    <3>1. /\ jobs[j].pc = "validate" /\ jobs[j].left # {} /\ JobSound(jobs[j])
          /\ UNCHANGED <<main, online, from, release, regrade, outages>>
      BY <2>2, <1>a DEF ValidateFile, counters
    <3>2. jobs' = [jobs EXCEPT ![j] = x] /\ jobs'[j] = x
      BY <2>2, <1>a DEF ValidateFile, MainTyped
    <3>3. f \in jobs[j].left
      <4>1. jobs[j].left \subseteq Nat
        BY <3>1, RegistryAssumption DEF JobSound, Present, RegistryAssumption
      <4> QED BY <3>1, <4>1, MinIsMember
    <3>4. Known(jobs[j].reg[f])
      BY <3>1, <3>3 DEF JobSound, IsReg, Present
    <3>5. /\ FilePasses(jobs[j].reg[f], online) =>
                Validates(jobs[j].reg[f]) /\ (outages = 0 => Sound(jobs[j].reg[f]))
          /\ ~FilePasses(jobs[j].reg[f], online) => ~Sound(jobs[j].reg[f])
      BY <3>4, <1>a, SoundPasses DEF MainTyped
    <3> HIDE DEF f
    <3>6. /\ DOMAIN x = DOMAIN jobs[j] /\ x.pc = "validate" /\ x.head = jobs[j].head
          /\ x.reg = jobs[j].reg /\ x.release = jobs[j].release /\ x.left = jobs[j].left \ {f}
          /\ x.bad = IF FilePasses(jobs[j].reg[f], online) THEN jobs[j].bad ELSE jobs[j].bad \cup {f}
      BY <3>1 DEF JobSound, JobFields
    <3> HIDE DEF x
    <3>7. JobSound(jobs[j])'
      BY <3>1, <3>2, <3>3, <3>5, <3>6 DEF JobSound
    <3> QED BY <3>1, <3>2, <3>7, <1>c
  <2>3. CASE Render(j)
    <3> DEFINE y == [jobs[j] EXCEPT !.pc = "push", !.pages = Pages(jobs[j].pages, jobs[j].reg, jobs[j].release)]
               z == [pc |-> "failed", reg |-> jobs[j].reg]
               x == IF jobs[j].bad = {} THEN y ELSE z
    <3>1. /\ jobs[j].pc = "validate" /\ jobs[j].left = {} /\ JobSound(jobs[j])
          /\ UNCHANGED <<main, online, from, release, regrade, outages>>
      BY <2>3, <1>a DEF Render, counters
    <3>2. jobs' = [jobs EXCEPT ![j] = x] /\ jobs'[j] = x
      <4>1. jobs' = [jobs EXCEPT ![j] = x]
        BY <2>3, Zenon DEF Render
      <4> HIDE DEF x
      <4> QED BY <4>1, <1>a DEF MainTyped
    <3>3. Pages(jobs[j].pages, jobs[j].reg, jobs[j].release) = Pages(Nothing, jobs[j].reg, jobs[j].release)
      BY PagesForget
    <3>4. /\ DOMAIN y = DOMAIN jobs[j] /\ y.pc = "push" /\ y.head = jobs[j].head /\ y.reg = jobs[j].reg
          /\ y.release = jobs[j].release /\ y.left = {} /\ y.bad = jobs[j].bad
          /\ y.pages = Pages(Nothing, jobs[j].reg, jobs[j].release)
      BY <3>1, <3>3 DEF JobSound, JobFields
    <3>5. z.pc = "failed" /\ z.reg = jobs[j].reg
      OBVIOUS
    <3> HIDE DEF y, z
    <3>6. CASE jobs[j].bad = {}
      <4>1. jobs'[j] = y
        BY <3>2, <3>6
      <4>2. JobSound(jobs[j])'
        BY <4>1, <3>1, <3>4, <3>6 DEF JobSound
      <4> HIDE DEF x
      <4> QED BY <3>1, <3>2, <4>2, <1>c
    <3>7. CASE jobs[j].bad # {}
      <4>1. jobs'[j] = z
        BY <3>2, <3>7
      <4>2. JobSound(jobs[j])'
        BY <4>1, <3>1, <3>5, <3>7 DEF JobSound
      <4> HIDE DEF x
      <4> QED BY <3>1, <3>2, <4>2, <1>c
    <3> QED BY <3>6, <3>7
  <2>4. CASE Push(j)
    <3>1. /\ jobs[j].pc = "push" /\ JobSound(jobs[j]) /\ jobs' = [jobs EXCEPT ![j] = Free]
          /\ UNCHANGED <<online, release, regrade, outages>>
      BY <2>4, <1>a DEF Push, CommitAndPush, counters
    <3>2. Moves /\ MainTyped' /\ PagesAre'
      <4>1. CASE UNCHANGED <<main, from>>
        BY <4>1, <3>1, <1>a, PagesStay DEF MainTyped, Moves
      <4>2. CASE /\ jobs[j].head = main.head /\ from' = jobs[j].reg
                 /\ main' = [main EXCEPT !.head = @ + 1, !.pages = jobs[j].pages]
        <5>1. Moves /\ MainTyped' /\ main'.pages = jobs[j].pages
          BY <4>2, <3>1, <1>a DEF MainTyped, Moves
        <5>2. /\ IsReg(jobs[j].reg) /\ jobs[j].release \in {1, 2}
              /\ jobs[j].pages = Pages(Nothing, jobs[j].reg, jobs[j].release)
              /\ \A f \in Present(jobs[j].reg) :
                    Validates(jobs[j].reg[f]) /\ (outages = 0 => Sound(jobs[j].reg[f]))
          BY <3>1 DEF JobSound
        <5>3. PagesAre'
          BY <4>2, <3>1, <5>1, <5>2 DEF PagesAre, Passed
        <5> QED BY <5>1, <5>3
      <4> QED BY <4>1, <4>2, <2>4 DEF Push, CommitAndPush
    <3>3. \A i \in Jobs : JobSound(jobs[i])'
      <4> SUFFICES ASSUME NEW i \in Jobs PROVE JobSound(jobs[i])'
        OBVIOUS
      <4>1. CASE i = j
        BY <4>1, <3>1, <1>a DEF MainTyped, JobSound, Free
      <4>2. CASE i # j
        <5>1. jobs'[i] = jobs[i]
          BY <4>2, <3>1, <1>a DEF MainTyped
        <5> QED BY <5>1, <3>2, <1>a, JobStays
      <4> QED BY <4>1, <4>2
    <3> QED BY <3>1, <3>2, <3>3, <1>a, RegradeStays DEF IInv
  <2>5. CASE Release(j)
    <3>1. jobs' = [jobs EXCEPT ![j] = Free] /\ UNCHANGED <<main, online, from, release, regrade, outages>>
      BY <2>5 DEF Release, counters
    <3>2. JobSound(jobs[j])'
      BY <3>1, <1>a DEF MainTyped, JobSound, Free
    <3> QED BY <3>1, <3>2, <1>c
  <2> QED BY <1>9, <2>1, <2>2, <2>3, <2>4, <2>5 DEF JobStep
<1> QED BY <1>1, <1>2, <1>3, <1>4, <1>5, <1>6, <1>7, <1>8, <1>9 DEF Next

\* The invariant the results below rest on: what is shown has passed, a job
\* knows what it validated, a regrade tells about what it has left behind.
THEOREM Consistency == Spec => []IInv
<1>1. Init => IInv
  BY InvInit
<1>2. IInv /\ [Next]_vars => IInv'
  BY InvNext
<1> QED BY <1>1, <1>2, PTL DEF Spec

-----------------------------------------------------------------------------

\* A job that fails has met a file that does not belong on the board, however
\* often GitHub was out of reach (validate_registry.py, main).
THEOREM BlipsConvictNobody == Spec => []NoBlipConvicts
<1>1. IInv => NoBlipConvicts
  BY DEF Sound, IInv, JobSound, NoBlipConvicts
<1> QED BY <1>1, Consistency, PTL

\* While GitHub answers, nothing gets on the pages that does not belong there but
\* entries whose repository is no string, whatever is pushed while the jobs run
\* (board.yml, validate_registry.py).
THEOREM ListedIsHonest == Spec => []OnlyHonestListed
<1>1. IInv => OnlyHonestListed
  BY DEF Sound, IInv, PagesAre, Passed, OnlyHonestListed
<1> QED BY <1>1, Consistency, PTL

\* The badges on main never flatter an entry (render_badges.py), because what
\* they were rendered from had been validated.
THEOREM BadgesStayHonest == Spec => []BadgesHonest
<1>1. IInv => BadgesHonest
  <2> SUFFICES ASSUME IInv PROVE BadgesHonest
    OBVIOUS
  <2>1. IsReg(from) /\ \A f \in Present(from) : Validates(from[f])
    BY DEF IInv, PagesAre, Passed
  <2>2. PICK r \in {1, 2} : main.pages = Pages(Nothing, from, r)
    BY DEF IInv, PagesAre
  <2> QED BY <2>1, <2>2, RenderedHonest
<1> QED BY <1>1, Consistency, PTL

\* Both pages list every entry once and in order, and their headline adds up to
\* the rows (render_board.py, render_site.py), because what they were rendered
\* from had been validated: every entry has a grade that is counted.
THEOREM PagesAddUp == Spec => []PagesCount
<1>1. IInv => PagesCount
  <2> SUFFICES ASSUME IInv PROVE PagesCount
    OBVIOUS
  <2>1. IsReg(from) /\ \A f \in Present(from) : Validates(from[f])
    BY DEF IInv, PagesAre, Passed
  <2>2. PICK r \in {1, 2} : main.pages = Pages(Nothing, from, r)
    BY DEF IInv, PagesAre
  <2> QED BY <2>1, <2>2, RenderedCounts
<1> QED BY <1>1, Consistency, PTL

\* A regrade that ends has told about all it was asked about, whichever clones
\* failed on the way (regrade_board.py, find_drifts).
THEOREM NobodyIsSkipped == Spec => []EveryEntryJudged
<1>1. IInv => EveryEntryJudged
  BY DEF IInv, RegradeSound, Judged, EveryEntryJudged
<1> QED BY <1>1, Consistency, PTL

\* What a job pushes renders the registry that is on main when it does, not the
\* one that was there when it began (Commit board update).
THEOREM PushedIsCurrent == Spec => PushIsCurrent
<1>1. IInv /\ [Next]_vars => [main'.pages # main.pages => main'.pages = Pages(Nothing, main'.reg, release')]_vars
  <2> SUFFICES ASSUME IInv, Next, main'.pages # main.pages
               PROVE  main'.pages = Pages(Nothing, main'.reg, release')
    OBVIOUS
  <2>1. MainTyped
    BY DEF IInv
  <2>2. PICK j \in Jobs : Push(j)
    <3>1. (\E f \in Stems, c \in Contents : Edit(f, c)) => main'.pages = main.pages
      BY <2>1 DEF Edit, Watched, MainTyped
    <3>2. Upgrade \/ Patch \/ Elsewhere => main'.pages = main.pages
      BY <2>1 DEF Upgrade, Patch, Elsewhere, Watched, MainTyped
    <3>3. Toggle \/ RegradeStep \/ (\E asked \in SUBSET Stems : BeginRegrade(asked)) => UNCHANGED main
      BY DEF Toggle, RegradeStep, BeginRegrade
    <3>4. \A j \in Jobs : Start(j) \/ ValidateFile(j) \/ Render(j) \/ Release(j) => UNCHANGED main
      BY DEF Start, ValidateFile, Render, Release
    <3> QED BY <3>1, <3>2, <3>3, <3>4 DEF Next, JobStep
  <2>3. /\ jobs[j].pc = "push" /\ jobs[j].head = main.head /\ UNCHANGED release
        /\ main' = [main EXCEPT !.head = @ + 1, !.pages = jobs[j].pages]
    BY <2>2 DEF Push, CommitAndPush
  <2>4. JobSound(jobs[j])
    BY DEF IInv
  <2>5. jobs[j].pages = Pages(Nothing, main.reg, release)
    BY <2>3, <2>4 DEF JobSound
  <2>6. main'.pages = jobs[j].pages /\ main'.reg = main.reg
    BY <2>1, <2>3 DEF MainTyped
  <2> QED BY <2>3, <2>5, <2>6
<1> QED BY <1>1, Consistency, PTL DEF Spec, PushIsCurrent
=============================================================================
