------------------------------- MODULE Board -------------------------------
(***************************************************************************)
(* The registry board: pushes to main, the jobs of board.yml that validate *)
(* the registry, render the pages and push them, and the maintainers who   *)
(* regrade the entries.  Jobs run side by side, commits land in between,   *)
(* GitHub can be out of reach.                                             *)
(***************************************************************************)
EXTENDS Rendering, Regrade

CONSTANTS
    Registries,        \* what main may hold at first: honest entries
    Jobs,              \* runners
    MaxEdits,          \* bound: pushes that touch a watched path
    MaxElsewhere,      \* bound: pushes that touch none
    MaxOutages,        \* bound: times GitHub cannot be asked
    MaxRegrades        \* bound: regrades

ASSUME BoardAssumption ==
    /\ Registries \subseteq [Stems -> Entry \cup Other]
    /\ \A reg \in Registries : \A f \in Present(reg) : Honest(reg[f])
    /\ {MaxEdits, MaxElsewhere, MaxOutages, MaxRegrades} \subseteq Nat

VARIABLES
    main,              \* head (a count of commits), registry, pages
    queue,             \* runs of the workflow that wait for a runner
    jobs,              \* what each runner does
    online,            \* whether GitHub answers the validator
    from,              \* history: the registry the pages of main were rendered from
    edits, elsewhere, outages, regrades    \* bound counters

counters == <<edits, elsewhere, outages, regrades>>
vars == <<main, queue, jobs, online, from, release, regrade, counters>>

Nothing == [badges |-> <<>>]
Free == [pc |-> "free"]

Init ==
    /\ release = 1
    /\ \E reg \in Registries :
          /\ main = [head |-> 0, reg |-> reg, pages |-> Pages(Nothing, reg, 1)]
          /\ from = reg
    /\ queue = 0 /\ jobs = [j \in Jobs |-> Free]
    /\ online = TRUE /\ regrade = NoRun
    /\ edits = 0 /\ elsewhere = 0 /\ outages = 0 /\ regrades = 0

-----------------------------------------------------------------------------
(***************************************************************************)
(* What lands on main.                                                     *)
(***************************************************************************)

\* Mutant: the path is not among those the workflow watches.
Unwatched(reg) ==
    /\ edits < MaxEdits /\ edits' = edits + 1
    /\ main' = [main EXCEPT !.head = @ + 1, !.reg = reg]
    /\ regrade' = NoRun /\ UNCHANGED queue

\* A push that touches the registry, the rules, the version or the renderers.
\* Bound: it puts an end to a regrade, whose findings are of another registry.
Watched(reg) ==
    /\ edits < MaxEdits /\ edits' = edits + 1
    /\ main' = [main EXCEPT !.head = @ + 1, !.reg = reg]
    /\ queue' = queue + 1 /\ regrade' = NoRun

Edit(f, c) ==
    /\ c # main.reg[f] /\ Watched([main.reg EXCEPT ![f] = c])
    /\ UNCHANGED <<jobs, online, from, release, elsewhere, outages, regrades>>

Upgrade ==
    /\ release = 1 /\ release' = 2 /\ Watched(main.reg)
    /\ UNCHANGED <<jobs, online, from, elsewhere, outages, regrades>>

\* The patches of a regrade that has ended, all in one push.
Patch ==
    /\ regrade.pc = "failed" /\ regrade.drifts # {}
    /\ LET reg == [f \in Stems |-> IF f \in regrade.drifts THEN Patched(regrade.reg[f]) ELSE main.reg[f]]
       IN  reg # main.reg /\ Watched(reg)
    /\ UNCHANGED <<jobs, online, from, release, elsewhere, outages, regrades>>

Elsewhere ==
    /\ elsewhere < MaxElsewhere /\ elsewhere' = elsewhere + 1
    /\ main' = [main EXCEPT !.head = @ + 1]
    /\ UNCHANGED <<queue, jobs, online, from, release, regrade, edits, outages, regrades>>

-----------------------------------------------------------------------------
(***************************************************************************)
(* The job.                                                                *)
(***************************************************************************)

\* A runner takes a run and checks out main, as it is by then.
Start(j) ==
    /\ queue > 0 /\ jobs[j].pc = "free"
    /\ queue' = queue - 1
    /\ jobs' = [jobs EXCEPT ![j] = [pc |-> "validate", head |-> main.head, reg |-> main.reg,
                                    pages |-> main.pages, release |-> release,
                                    left |-> Present(main.reg), bad |-> {}]]
    /\ UNCHANGED <<main, online, from, release, regrade, counters>>

ValidateFile(j) ==
    /\ jobs[j].pc = "validate" /\ jobs[j].left # {}
    /\ LET f == Min(jobs[j].left) IN
          jobs' = [jobs EXCEPT ![j].left = @ \ {f},
                               ![j].bad = IF FilePasses(jobs[j].reg[f], online) THEN @ ELSE @ \cup {f}]
    /\ UNCHANGED <<main, queue, online, from, release, regrade, counters>>

\* Any error fails the job; else the three scripts run in its own checkout.
Render(j) ==
    /\ jobs[j].pc = "validate" /\ jobs[j].left = {}
    /\ jobs' = [jobs EXCEPT ![j] =
                   IF @.bad = {}
                      THEN [@ EXCEPT !.pc = "push",
                                     !.pages = Pages(jobs[j].pages, jobs[j].reg, jobs[j].release)]
                      ELSE [pc |-> "failed", reg |-> @.reg]]
    /\ UNCHANGED <<main, queue, online, from, release, regrade, counters>>

\* Mutant: git push --force.
Forced(j) ==
    /\ jobs[j].pc = "push"
    /\ main' = [main EXCEPT !.head = @ + 1, !.pages = jobs[j].pages]
    /\ from' = jobs[j].reg

\* Nothing to commit; or a commit on the head the job checked out, which is
\* pushed if main still has that head and is lost if not.
CommitAndPush(j) ==
    /\ jobs[j].pc = "push"
    /\ IF jobs[j].head = main.head /\ jobs[j].pages # main.pages
          THEN /\ main' = [main EXCEPT !.head = @ + 1, !.pages = jobs[j].pages]
               /\ from' = jobs[j].reg
          ELSE UNCHANGED <<main, from>>

Push(j) ==
    /\ CommitAndPush(j)
    /\ jobs' = [jobs EXCEPT ![j] = Free]
    /\ UNCHANGED <<queue, online, release, regrade, counters>>

\* A failed job is looked at and makes room.
Release(j) ==
    /\ jobs[j].pc = "failed"
    /\ jobs' = [jobs EXCEPT ![j] = Free]
    /\ UNCHANGED <<main, queue, online, from, release, regrade, counters>>

-----------------------------------------------------------------------------

\* Bound: it begins while no job runs.
BeginRegrade(asked) ==
    /\ queue = 0 /\ \A j \in Jobs : jobs[j].pc = "free"
    /\ regrades < MaxRegrades /\ regrades' = regrades + 1
    /\ StartRegrade(main.reg, asked)
    /\ UNCHANGED <<main, queue, jobs, online, from, edits, elsewhere, outages>>

RegradeStep ==
    /\ RegradeGroup(online) \/ EndRegrade
    /\ UNCHANGED <<main, queue, jobs, online, from, counters>>

\* Bound: an outage begins while somebody asks.
Toggle ==
    /\ online => regrade.pc = "clone" \/ \E j \in Jobs : jobs[j].pc = "validate"
    /\ online' = ~online
    /\ outages' = IF online THEN outages + 1 ELSE outages
    /\ outages' <= MaxOutages
    /\ UNCHANGED <<main, queue, jobs, from, release, regrade, edits, elsewhere, regrades>>

JobStep(j) == Start(j) \/ ValidateFile(j) \/ Render(j) \/ Push(j) \/ Release(j)

Next == \/ \E f \in Stems, c \in Contents : Edit(f, c)
        \/ Upgrade \/ Patch \/ Elsewhere \/ Toggle \/ RegradeStep
        \/ \E asked \in SUBSET Stems : BeginRegrade(asked)
        \/ \E j \in Jobs : JobStep(j)

\* GitHub runs what is queued; nobody has to push, regrade or restore GitHub.
Spec == Init /\ [][Next]_vars /\ WF_vars(\E j \in Jobs : JobStep(j))

-----------------------------------------------------------------------------

\* A job fails only for what is wrong in a file, never because GitHub could not
\* be asked: "a network blip should never silently convict an honest entry".
NoBlipConvicts ==
    \A j \in Jobs : jobs[j].pc = "failed" => 
        \E f \in Present(jobs[j].reg) : ~Honest(jobs[j].reg[f]) /\ ~Untyped(jobs[j].reg[f])

\* As long as GitHub has always answered, everything on the pages is an honest
\* entry: in a repository that exists and holds the declared language.  Only an
\* entry whose repository is no string gets there besides, if all else is in order.
OnlyHonestListed == outages = 0 => \A f \in Present(from) : Honest(from[f]) \/ Untyped(from[f])

\* No badge is better than any entry it covers, every name has the badge of its
\* entry, and no badge outlives its entries (render, badge_for_repo).  Names with
\* two dots in a row have none, and "unknown" is not an entry's.
BadgesHonest ==
    LET badges == main.pages.badges
        rank(g) == Order(g)
        plain == {f \in Entries(from) : Spelling[f] = "plain"}
    IN  /\ DOMAIN badges = {NameKey(f) : f \in plain} \cup {TheUnknown}
              \cup {RepoKey(from[f].repo) : f \in {g \in Entries(from) : HasSlug(from[g].repo)}}
        /\ \A f \in Entries(from) :
              /\ f \in plain => badges[NameKey(f)].message = from[f].grade
              /\ HasSlug(from[f].repo) =>
                    LET b == badges[RepoKey(from[f].repo)]
                    IN  rank(b.message) >= rank(from[f].grade) /\ b.servers = Cardinality(Group(from, from[f].repo))

\* Both pages list every entry once, best grade first and better scores before
\* worse, and the grades of their headline add up to the entries listed.
PagesCount ==
    \A p \in {main.pages.board, main.pages.site} :
       /\ p.checked = Cardinality(Entries(from)) /\ p.owned <= p.checked
       /\ Len(p.rows) = p.checked /\ {p.rows[i].name : i \in DOMAIN p.rows} = Entries(from)
       /\ p.checked = p.tally["A"] + p.tally["B"] + p.tally["C"] + p.tally["D"] + p.tally["F"]
       /\ \A i, k \in DOMAIN p.rows : i < k =>
             LET a == from[p.rows[i].name]  b == from[p.rows[k].name]
             IN  Order(a.grade) < Order(b.grade) \/ (a.grade = b.grade /\ a.score >= b.score)

\* Whatever jobs and commits interleave, the pages change only into a rendering
\* of the registry that is on main at that moment (Commit board update).
PushIsCurrent ==
    [][main'.pages # main.pages => main'.pages = Pages(Nothing, main'.reg, release')]_vars

\* The pages show what is on main.  They always render `from` (PushIsCurrent),
\* which is compared first.
Fresh == \/ from = main.reg /\ main.pages.site.rules = release
         \/ main.pages = Pages(Nothing, main.reg, release)

\* When nothing is pushed but what the workflow watches, an honest registry
\* ends up on the pages, however many jobs lost their push on the way.  A push
\* elsewhere can take that away: the one rendering is rejected, none follows.
Settles ==
    [](elsewhere = 0) => <>[]((\A f \in Present(main.reg) : Honest(main.reg[f])) => Fresh)

\* A regrade tells about every entry it was asked about, whatever fails on the
\* way: the entries that are neither drifts nor among the problems do get the
\* grade and score they record, and only if all do does it exit with 0.
EveryEntryJudged ==
    /\ regrade.pc \in {"done", "failed"} /\ regrade.left = {} =>
          \A f \in regrade.asked \ regrade.problems :
             LET e == regrade.reg[f] IN
                \/ f \in regrade.drifts
                \/ \E r \in 1..release : LET v == Scan[r][e.repo][e.path] IN
                      v.kind = "graded" /\ <<v.grade, v.score>> = <<e.grade, e.score>>
    /\ regrade.pc = "done" => regrade.drifts \cup regrade.problems = {}
=============================================================================
