----------------------------- MODULE Rendering -----------------------------
(***************************************************************************)
(* What scripts/render_board.py, render_badges.py and render_site.py make  *)
(* of a registry.                                                          *)
(***************************************************************************)
EXTENDS Registry

Order(grade) ==
    CASE grade = "A" -> 0 [] grade = "B" -> 1 [] grade = "C" -> 2
      [] grade = "D" -> 3 [] grade = "F" -> 4 [] OTHER -> 9

\* Mutant: the score goes the wrong way.
ByRisingScore(reg, f, g) ==
    LET a == Order(reg[f].grade)  b == Order(reg[g].grade)
    IN  a < b \/ (a = b /\ (reg[f].score < reg[g].score
                            \/ (reg[f].score = reg[g].score /\ f <= g)))

\* The sort key of both pages: grade, score downwards, name.
Before(reg, f, g) ==
    LET a == Order(reg[f].grade)  b == Order(reg[g].grade)
    IN  a < b \/ (a = b /\ (reg[f].score > reg[g].score
                            \/ (reg[f].score = reg[g].score /\ f <= g)))

\* The row an entry gets: as many entries as come before it, and itself.
RowOf(reg, f) == Cardinality({g \in Entries(reg) : Before(reg, g, f)})

Sorted(reg) == [i \in 1..Cardinality(Entries(reg)) |->
                   CHOOSE f \in Entries(reg) : RowOf(reg, f) = i]

Tally(reg) == [g \in Letters |-> Cardinality({f \in Entries(reg) : reg[f].grade = g})]
Owned(reg) == Cardinality({f \in Entries(reg) : reg[f].owner})

\* The region between the markers of README.md.
Board(reg) ==
    LET s == Sorted(reg) IN
    [rows |-> [i \in DOMAIN s |-> [name |-> s[i], grade |-> reg[s[i]].grade, off |-> reg[s[i]].off]],
     checked |-> Len(s), tally |-> Tally(reg), owned |-> Owned(reg)]

\* docs/index.html, which also lists the rules of the release.
Site(reg, release) ==
    LET s == Sorted(reg) IN
    [rows |-> [i \in DOMAIN s |-> [name |-> s[i], grade |-> reg[s[i]].grade, score |-> reg[s[i]].score]],
     checked |-> Len(s), tally |-> Tally(reg), owned |-> Owned(reg), rules |-> release]

-----------------------------------------------------------------------------
(***************************************************************************)
(* docs/badge: <name>.json, <owner>/<repo>.json and unknown.json.          *)
(***************************************************************************)

Unknown == [message |-> "unknown", servers |-> 0, version |-> 0]

BadgeFor(e) ==
    IF e.grade \in Letters THEN [message |-> e.grade, servers |-> 1, version |-> e.version]
    ELSE [Unknown EXCEPT !.servers = 1, !.version = e.version]

WorstFirst == <<"F", "D", "C", "B", "A">>

\* Mutant: the last entry of the repository wins.
LastWins(reg, group) ==
    [message |-> reg[Max(group)].grade, servers |-> Cardinality(group), version |-> reg[Max(group)].version]

\* The worst grade, under the version of the first entry.
BadgeForRepo(reg, group) ==
    IF Cardinality(group) = 1 THEN BadgeFor(reg[Min(group)])
    ELSE LET found == {i \in 1..5 : WorstFirst[i] \in {reg[f].grade : f \in group}}
         IN  [message |-> IF found = {} THEN "unknown" ELSE WorstFirst[Min(found)],
              servers |-> Cardinality(group), version |-> reg[Min(group)].version]

NameKey(f) == <<"name", f>>
RepoKey(r) == <<"repo", r>>
TheUnknown == <<"unknown">>

\* slug: exactly owner/name, and without a dot.
HasSlug(r) == Shape[r] = "plain"

Group(reg, r) == {f \in Entries(reg) : reg[f].repo = r}

\* What render writes.  An entry with two dots in its name gets only a problem,
\* and the fallback is written over that of an entry named unknown.
Written(reg) ==
    LET names == {f \in Entries(reg) : reg[f].named /\ Spelling[f] = "plain"}
        repos == {r \in Repos : HasSlug(r) /\ Group(reg, r) # {}}
    IN  [k \in {NameKey(f) : f \in names} \cup {RepoKey(r) : r \in repos} \cup {TheUnknown} |->
           CASE k[1] = "name" -> BadgeFor(reg[k[2]])
             [] k[1] = "repo" -> BadgeForRepo(reg, Group(reg, k[2]))
             [] k[1] = "unknown" -> Unknown]

\* _prune_orphaned_badges.
Prune(files, expected) == [k \in DOMAIN files \cap expected |-> files[k]]

\* render, over the files that are there.
Badges(files, reg) ==
    LET new == Written(reg)
        all == [k \in DOMAIN new \cup DOMAIN files |-> IF k \in DOMAIN new THEN new[k] ELSE files[k]]
    IN  Prune(all, DOMAIN new)

Pages(old, reg, release) ==
    [board |-> Board(reg), site |-> Site(reg, release), badges |-> Badges(old.badges, reg)]
=============================================================================
