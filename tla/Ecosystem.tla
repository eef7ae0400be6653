----------------------------- MODULE Ecosystem -----------------------------
(***************************************************************************)
(* scripts/ecosystem_scan.py: crawl the registry, draw a sample, ask       *)
(* GitHub for languages, clone and scan the Python repositories, publish   *)
(* the counts, and the report page rendered from them.  Every stage caches *)
(* a file in the work directory and is resumed from it by the next launch. *)
(*                                                                         *)
(* Runs are killed, write_text truncates before it writes, the network     *)
(* goes and comes back, GitHub answers so many requests in an hour and one *)
(* repository's never, repositories vanish while the run goes on.          *)
(*                                                                         *)
(* A repository is a number: its place in the order of names, in which the *)
(* thread pools are fed and their results recorded.                        *)
(***************************************************************************)
EXTENDS Naturals, Sequences, FiniteSets, FiniteSetsExt

CONSTANTS
    Repos,             \* repositories on GitHub
    Pages,             \* the registry's pages, each a set of repositories
    Worlds,            \* what the repositories may hold
    Seeds,             \* values given to --seed
    Sample,            \* what random.sample draws from the population per seed
    CrawlEvery,        \* pages between saves of the crawl (5 in the code)
    SaveEvery,         \* rows between saves of a pool (100 and 25 in the code)
    Workers,           \* threads of a pool (8 and 6 in the code)
    Hourly,            \* requests the GitHub API answers in an hour
    MaxKills,          \* bound: runs killed
    MaxOutages,        \* bound: times the network goes
    MaxLosses          \* bound: repositories that vanish

Letters == {"A", "B", "C", "D", "F"}

\* `floor` is the major version of declared_mcp_floor, 0 if it returns None.
\* An SDK is "scannable" with no grade; a hung repository runs into a timeout;
\* for a barred one the API has 403, 451 or 500 for good.
Code == [language : {"Python", "Other", "barred"}, verdict : {"graded", "sdk", "refused", "hangs"},
         grade : Letters, clean : BOOLEAN, breaking : BOOLEAN, floor : 0..2]

LastPage == Len(Pages)

ASSUME EcosystemAssumption ==
    /\ IsFiniteSet(Repos) /\ Repos \subseteq Nat
    /\ Pages \in Seq(SUBSET Repos) \ {<<>>}
    /\ Worlds \subseteq [Repos -> Code]
    /\ Sample \in [Seeds -> SUBSET UNION {Pages[p] : p \in DOMAIN Pages}]
    /\ {CrawlEvery, SaveEvery, Workers, Hourly} \subseteq Nat \ {0}
    /\ {MaxKills, MaxOutages, MaxLosses} \subseteq Nat

VARIABLES
    code,      \* what the repositories hold
    alive,     \* repositories that still exist
    online,    \* whether the network is there
    left,      \* requests the API still answers this hour
    disk,      \* the work directory, and the published file ("report")
    pc,        \* the stage the run is in, "off" when there is none
    mem,       \* what the process holds
    kills, outages   \* bound counters

vars == <<code, alive, online, left, disk, pc, mem, kills, outages>>

Absent  == [state |-> "absent"]
Torn    == [state |-> "torn"]
Whole(x) == [state |-> "whole", data |-> x]
IsWhole(f) == disk[f].state = "whole"
IsTorn(f)  == disk[f].state = "torn"

Files == {"crawl", "repos", "sample", "languages", "scans", "report"}

\* Rows of the two pools: "none" while there is no row.
Rows == {"none", "failed", "__gone__", "Python", "Other", "scanned", "error"}
Blank == [r \in Repos |-> "none"]

Idle == [seed |-> 0, repos |-> {}, cursor |-> 0, pages |-> 0, sample |-> {}, langs |-> Blank,
         done |-> Blank, answers |-> Blank, recorded |-> 0]

\* The page a cursor asks for (0: none is sent, which gets the first).
PageAt(cursor) == IF cursor = 0 THEN 1 ELSE cursor

Init ==
    /\ code \in Worlds
    /\ alive = Repos /\ online = TRUE /\ left = Hourly
    /\ disk = [f \in Files |-> Absent]
    /\ pc = "off" /\ mem = Idle
    /\ kills = 0 /\ outages = 0

\* An exception leaves main: whatever was not written is forgotten.
Abort == pc' = "off" /\ mem' = Idle /\ UNCHANGED disk

-----------------------------------------------------------------------------
(***************************************************************************)
(* crawl and draw_sample.                                                  *)
(***************************************************************************)

\* A launch over a torn crawl file ends in the JSON decoder and changes
\* nothing, so it is no step here.
Launch(seed) ==
    /\ pc = "off"
    /\ \/ /\ IsWhole("repos")
          /\ pc' = "draw"
          /\ mem' = [Idle EXCEPT !.seed = seed, !.repos = disk["repos"].data]
       \/ /\ disk["repos"] = Absent /\ ~IsTorn("crawl")
          /\ pc' = "crawl"
          /\ mem' = IF IsWhole("crawl")
                       THEN [Idle EXCEPT !.seed = seed, !.repos = disk["crawl"].data.repos,
                                         !.cursor = disk["crawl"].data.cursor,
                                         !.pages = disk["crawl"].data.pages]
                       ELSE [Idle EXCEPT !.seed = seed]
    /\ UNCHANGED <<code, alive, online, left, disk, kills, outages>>

\* Mutant: the state saved is the one before the page was read, its cursor not.
SavedAhead(m, cursor) == [repos |-> m.repos, cursor |-> cursor, pages |-> m.pages + 1]

Saved(m, cursor) ==
    [repos |-> m.repos \cup Pages[PageAt(m.cursor)], cursor |-> cursor, pages |-> m.pages + 1]

CrawlPage ==
    /\ pc = "crawl" /\ online
    /\ LET at   == PageAt(mem.cursor)
           next == IF at = LastPage THEN 0 ELSE at + 1
           save == (mem.pages + 1) % CrawlEvery = 0 \/ next = 0
       IN  /\ mem' = [mem EXCEPT !.repos = @ \cup Pages[at], !.cursor = next, !.pages = @ + 1]
           /\ disk' = IF save THEN [disk EXCEPT !["crawl"] = Whole(Saved(mem, next))] ELSE disk
           /\ pc' = IF next = 0 THEN "crawled" ELSE "crawl"
    /\ UNCHANGED <<code, alive, online, left, kills, outages>>

\* _get gives up after its tries: RuntimeError.
CrawlFails ==
    /\ pc = "crawl" /\ ~online
    /\ Abort
    /\ UNCHANGED <<code, alive, online, left, kills, outages>>

SaveRepos ==
    /\ pc = "crawled"
    /\ pc' = "draw"
    /\ disk' = [disk EXCEPT !["repos"] = Whole(mem.repos)]
    /\ UNCHANGED <<code, alive, online, left, mem, kills, outages>>

DrawSample ==
    /\ pc = "draw"
    /\ IF IsTorn("sample") THEN Abort
       ELSE LET drawn == IF IsWhole("sample") THEN disk["sample"].data
                                              ELSE Sample[mem.seed] \cap mem.repos
            IN  /\ pc' = "open languages"
                /\ mem' = [mem EXCEPT !.sample = drawn]
                /\ disk' = [disk EXCEPT !["sample"] = Whole(drawn)]
    /\ UNCHANGED <<code, alive, online, left, kills, outages>>

-----------------------------------------------------------------------------
(***************************************************************************)
(* languages and scan: a pool of threads over what the cache lacks.        *)
(***************************************************************************)

Python(m) == {r \in m.sample : m.langs[r] = "Python"}

\* What the stage asks about, and what it has still to record.
Slugs  == IF pc = "languages" THEN mem.sample ELSE Python(mem)
FileOf == IF pc = "languages" THEN "languages" ELSE "scans"

\* Mutant: a file that is there is returned as it is, as the first stages do.
TodoUnlessCached == IF IsWhole(FileOf) THEN {} ELSE {r \in Slugs : mem.done[r] = "none"}

Todo == {r \in Slugs : mem.done[r] = "none"}

\* Threads take the slugs in order; results are recorded in order too.
Started == {r \in Todo : /\ mem.answers[r] = "none"
                         /\ Cardinality({q \in Todo : q < r /\ mem.answers[q] = "none"}) < Workers}

\* _get gives up on the request after its six tries, a minute at most.
GivesUp(r) == ~online \/ left = 0 \/ (r \in alive /\ code[r].language = "barred")

\* Mutant: giving up is answered like a 404.
LanguageOrGone(r) ==
    IF GivesUp(r) \/ r \notin alive THEN "__gone__" ELSE code[r].language

LanguageOf(r) ==
    IF GivesUp(r) THEN "failed" ELSE IF r \notin alive THEN "__gone__" ELSE code[r].language

ScanOf(r) ==
    IF online /\ r \in alive /\ code[r].verdict # "hangs" THEN "scanned" ELSE "error"

\* Mutant: the stage starts afresh.
OpenAfresh(stage, file, next) ==
    /\ pc = stage
    /\ pc' = next
    /\ mem' = [mem EXCEPT !.done = Blank]
    /\ UNCHANGED <<code, alive, online, left, disk, kills, outages>>

OpenCache(stage, file, next) ==
    /\ pc = stage
    /\ IF IsTorn(file) THEN Abort
       ELSE /\ pc' = next
            /\ mem' = [mem EXCEPT !.done = IF IsWhole(file) THEN disk[file].data ELSE Blank]
            /\ UNCHANGED disk
    /\ UNCHANGED <<code, alive, online, left, kills, outages>>

Answer(r) ==
    /\ pc \in {"languages", "scan"} /\ r \in Started
    /\ mem' = [mem EXCEPT !.answers[r] = IF pc = "languages" THEN LanguageOf(r) ELSE ScanOf(r)]
    /\ left' = IF pc = "languages" /\ online /\ left > 0 THEN left - 1 ELSE left
    /\ UNCHANGED <<code, alive, online, disk, pc, kills, outages>>

\* `for i, (slug, row) in enumerate(ex.map(one, todo), 1)`: an answer that is
\* an exception is raised here, in its turn.
Record ==
    /\ pc \in {"languages", "scan"} /\ Todo # {}
    /\ LET r == Min(Todo)
           done == [mem.done EXCEPT ![r] = mem.answers[r]]
       IN  /\ mem.answers[r] # "none"
           /\ IF mem.answers[r] = "failed" THEN Abort
              ELSE /\ mem' = [mem EXCEPT !.done = done, !.answers[r] = "none", !.recorded = @ + 1]
                   /\ disk' = IF (mem.recorded + 1) % SaveEvery = 0
                                 THEN [disk EXCEPT ![FileOf] = Whole(done)] ELSE disk
                   /\ UNCHANGED pc
    /\ UNCHANGED <<code, alive, online, left, kills, outages>>

\* With nothing to ask about the file is not written.
CloseLanguages ==
    /\ pc = "languages" /\ Todo = {}
    /\ pc' = "open scans"
    /\ disk' = IF mem.recorded = 0 THEN disk ELSE [disk EXCEPT !["languages"] = Whole(mem.done)]
    /\ mem' = [mem EXCEPT !.langs = mem.done, !.recorded = 0]
    /\ UNCHANGED <<code, alive, online, left, kills, outages>>

CloseScans ==
    /\ pc = "scan" /\ Todo = {}
    /\ pc' = "aggregate"
    /\ disk' = [disk EXCEPT !["scans"] = Whole(mem.done)]
    /\ UNCHANGED <<code, alive, online, left, mem, kills, outages>>

-----------------------------------------------------------------------------
(***************************************************************************)
(* aggregate, and the pages.                                               *)
(***************************************************************************)

Count(S, P(_)) == Cardinality({r \in S : P(r)})

\* Mutant: an unreadable floor counts as an old one.
OldFloor1(r) == code[r].floor < 2

\* `(floor or [9])[0] < 2` and `(floor or [0])[0] >= 2`.
Floor1(r)  == code[r].floor # 0 /\ code[r].floor < 2
Floor2(r)  == code[r].floor >= 2
Unknown(r) == code[r].floor = 0

BySdk(S) == [sdk_1x |-> Count(S, Floor1), sdk_2x |-> Count(S, Floor2), unknown |-> Count(S, Unknown)]

\* Rows with a truthy "scannable".
Scannable(m) == {r \in Repos : m.done[r] = "scanned" /\ code[r].verdict \in {"graded", "sdk"}}
Ungraded(m)  == {r \in Scannable(m) : code[r].verdict = "sdk"}

\* Mutant: the median of no scores is asked for.
EmptyFails(m) == Scannable(m) = {} \/ (Ungraded(m) # {} /\ Cardinality(Scannable(m)) > 1)

\* The median sorts scores, and an SDK's is None: with another row to compare
\* it to, TypeError.
MedianFails(m) == Ungraded(m) # {} /\ Cardinality(Scannable(m)) > 1

Counts(m) ==
    LET ok   == Scannable(m)
        live == {r \in m.sample : m.langs[r] \notin {"none", "__gone__"}}
        zero == {r \in ok : code[r].clean}
    IN  [seed |-> m.seed, size |-> Cardinality(m.sample),
         sampled |-> Count(m.sample, LAMBDA r : m.langs[r] # "none"),
         dead |-> Count(m.sample, LAMBDA r : m.langs[r] = "__gone__"),
         live |-> Cardinality(live),
         languages |-> [l \in {"Python", "Other"} |-> Count(live, LAMBDA r : m.langs[r] = l)],
         scanned |-> Cardinality(ok),
         grades |-> [g \in Letters |-> Count(ok \ Ungraded(m), LAMBDA r : code[r].grade = g)],
         zero |-> Cardinality(zero), zeroBySdk |-> BySdk(zero), bySdk |-> BySdk(ok),
         unbroken |-> Count(ok, LAMBDA r : ~code[r].breaking)]

Aggregate ==
    /\ pc = "aggregate"
    /\ pc' = "off" /\ mem' = Idle
    /\ disk' = IF MedianFails(mem) THEN disk ELSE [disk EXCEPT !["report"] = Whole(Counts(mem))]
    /\ UNCHANGED <<code, alive, online, left, kills, outages>>

\* Shares in tenths of a percent, rounded; -1 for "n/a".
Pct(part, whole) == IF whole = 0 THEN 0 - 1 ELSE (2000 * part + whole) \div (2 * whole)

Classes == {"sdk_1x", "sdk_2x", "unknown"}

\* What the pages rendered from a report say.
Claims(d) ==
    [servers |-> d.scanned, unbroken |-> Pct(d.unbroken, d.scanned),
     grades |-> [g \in Letters |-> Pct(d.grades[g], d.scanned)],
     declares |-> d.bySdk, empty |-> d.zeroBySdk, emptyOfAll |-> d.zero,
     rates |-> [c \in Classes |-> Pct(d.zeroBySdk[c], d.bySdk[c])]]

-----------------------------------------------------------------------------
(***************************************************************************)
(* The surroundings.                                                       *)
(***************************************************************************)

\* The file the next step writes.
Target ==
    CASE pc = "crawl" /\ ((mem.pages + 1) % CrawlEvery = 0 \/ PageAt(mem.cursor) = LastPage) -> "crawl"
      [] pc = "crawled" -> "repos"
      [] pc = "draw" /\ disk["sample"] = Absent -> "sample"
      [] pc = "languages" /\ mem.recorded > 0 /\ (Todo = {} \/ (mem.recorded + 1) % SaveEvery = 0) -> FileOf
      [] pc = "scan" /\ (Todo = {} \/ (mem.recorded + 1) % SaveEvery = 0) -> FileOf
      [] pc = "aggregate" -> "report"
      [] OTHER -> "none"

\* Killed, between two steps or between truncating a file and writing it.
Kill ==
    /\ pc # "off" /\ kills < MaxKills /\ kills' = kills + 1
    /\ pc' = "off" /\ mem' = Idle
    /\ \/ UNCHANGED disk
       \/ Target # "none" /\ disk' = [disk EXCEPT ![Target] = Torn]
    /\ UNCHANGED <<code, alive, online, left, outages>>

\* Somebody removes a file that no launch gets past.
Discard(f) ==
    /\ pc = "off" /\ IsTorn(f)
    /\ disk' = [disk EXCEPT ![f] = Absent]
    /\ UNCHANGED <<code, alive, online, left, pc, mem, kills, outages>>

Disconnect ==
    /\ online /\ outages < MaxOutages
    /\ outages' = outages + 1 /\ online' = FALSE
    /\ UNCHANGED <<code, alive, left, disk, pc, mem, kills>>

Reconnect ==
    /\ ~online /\ online' = TRUE
    /\ UNCHANGED <<code, alive, left, disk, pc, mem, kills, outages>>

HourPasses ==
    /\ left < Hourly /\ left' = Hourly
    /\ UNCHANGED <<code, alive, online, disk, pc, mem, kills, outages>>

Vanish(r) ==
    /\ r \in alive /\ Cardinality(Repos \ alive) < MaxLosses
    /\ alive' = alive \ {r}
    /\ UNCHANGED <<code, online, left, disk, pc, mem, kills, outages>>

Pool == Record \/ \E r \in Repos : Answer(r)

Run == \/ CrawlPage \/ CrawlFails \/ SaveRepos \/ DrawSample
       \/ OpenCache("open languages", "languages", "languages") \/ CloseLanguages
       \/ OpenCache("open scans", "scans", "scan") \/ CloseScans
       \/ Pool \/ Aggregate

LaunchAny == \E s \in Seeds : Launch(s)

Next == \/ LaunchAny \/ Run \/ Kill \/ Disconnect \/ Reconnect \/ HourPasses
        \/ \E f \in Files : Discard(f)
        \/ \E r \in Repos : Vanish(r)

\* A run goes on; whoever needs the report launches it again until there is
\* one, and does not see launches fail for ever without removing a torn file or
\* waiting out an hour; the network comes back.
Spec == /\ Init /\ [][Next]_vars
        /\ WF_vars(Run) /\ WF_vars(LaunchAny) /\ WF_vars(Reconnect)
        /\ SF_vars(\E f \in Files : Discard(f)) /\ SF_vars(pc = "off" /\ HourPasses)

-----------------------------------------------------------------------------

Population == UNION {Pages[p] : p \in DOMAIN Pages}

Counted == [sdk_1x : Nat, sdk_2x : Nat, unknown : Nat]

\* The sample is drawn from the whole registry and never from a part that an
\* interrupted crawl had seen: "sample randomly from the full deduplicated
\* population" (crawl, resumed from the cursor it saved).
PopulationWhole ==
    /\ IsWhole("repos") => disk["repos"].data = Population
    /\ IsWhole("crawl") =>
          LET s == disk["crawl"].data IN
             \A p \in DOMAIN Pages : s.cursor = 0 \/ p < s.cursor => Pages[p] \subseteq s.repos

\* A dead link is a repository that is gone.  No outage, however timed, no
\* refusal and no rate limit is counted as one (languages, _get).
DeadIsDead ==
    /\ IsWhole("languages") =>
          \A r \in Repos : disk["languages"].data[r] = "__gone__" => r \notin alive
    /\ IsWhole("report") => disk["report"].data.dead <= Cardinality(Repos \ alive)

\* A report counts every repository of its sample, as dead or live, and every
\* live one under its language; and when it is written every Python repository
\* has a row of the scan, whatever was interrupted on the way.
EveryRepoAccounted ==
    /\ IsWhole("report") =>
          LET d == disk["report"].data IN
             /\ d.sampled = d.size /\ d.size = d.dead + d.live
             /\ d.live = d.languages["Python"] + d.languages["Other"]
    /\ pc = "aggregate" =>
          \A r \in mem.sample : /\ mem.langs[r] # "none"
                                /\ mem.langs[r] = "Python" => mem.done[r] # "none"

\* The three kinds of declared SDK share out the servers, and the empty ones,
\* without rest or overlap; no share of a page, of the grades, of the unbroken or
\* of the empty, exceeds the whole (aggregate, main of render_findings.py).
ClaimsAddUp ==
    IsWhole("report") =>
        LET c == Claims(disk["report"].data)
            Sum3(s) == s.sdk_1x + s.sdk_2x + s.unknown
        IN  /\ c.servers = Sum3(c.declares) /\ c.emptyOfAll = Sum3(c.empty)
            /\ \A k \in Classes : c.empty[k] <= c.declares[k] /\ c.rates[k] <= 1000
            /\ c.unbroken <= 1000 /\ \A g \in Letters : c.grades[g] <= 1000

\* What has been found out is not asked again: a row on disk stays as it is
\* until its file is torn, and a population or a sample is never replaced
\* ("stages cache into --work and are resumable").
DoneStaysDone ==
    [][/\ \A f \in {"languages", "scans"} : IsWhole(f) /\ disk'[f].state = "whole" =>
             \A r \in Repos : disk[f].data[r] # "none" => disk'[f].data[r] = disk[f].data[r]
       /\ \A f \in {"repos", "sample"} : IsWhole(f) => disk'[f] \in {disk[f], Torn}]_vars

\* No launch gets past a repository GitHub refuses to answer for, past an SDK
\* next to another scannable repository (MedianFails), or through more
\* repositories than an hour has answers, unless saves come in between.
Hopeless(S) ==
    \/ \E r \in S \cap alive : code[r].language = "barred"
    \/ \E r, q \in S : /\ r # q /\ code[r].language = "Python" /\ code[q].language = "Python"
                       /\ code[r].verdict = "sdk" /\ code[q].verdict \in {"sdk", "graded"}
    \/ Cardinality(S) > Hourly

\* However often it is interrupted, the scan ends in a report; unless the sample
\* it has drawn is hopeless, and stays so.
Arrives == <>IsWhole("report") \/ <>[](IsWhole("sample") /\ Hopeless(disk["sample"].data))
=============================================================================
