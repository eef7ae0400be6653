-------------------------- MODULE Ecosystem_proofs --------------------------
(***************************************************************************)
(* Whatever kills, outages and losses a scan meets, what it keeps on disk  *)
(* and what it publishes is true of the registry, for any registry, pools  *)
(* of any size and files saved as often as one likes.                      *)
(***************************************************************************)
EXTENDS Ecosystem, FiniteSetTheorems, WellFoundedInduction, TLAPS

Below == {ss \in Nat \X Nat : ss[1] < ss[2]}

\* The least of a set of naturals is one of them.
LEMMA MinIsMember ==
    ASSUME NEW S, S \subseteq Nat, S # {}
    PROVE  Min(S) \in S
<1>1. PICK m \in S : \A n \in S : <<n, m>> \notin Below
  BY NatLessThanWellFounded, WFMin DEF OpToRel, Below
<1>2. \A n \in S : <<n, m>> \in Below <=> n < m
  BY DEF Below
<1>3. \A n \in S : m <= n
  <2> SUFFICES ASSUME NEW n \in S PROVE m <= n
    OBVIOUS
  <2>1. ~(n < m)
    BY <1>1, <1>2
  <2> QED BY <2>1
<1> QED BY <1>3 DEF Min

-----------------------------------------------------------------------------
(***************************************************************************)
(* The inductive invariant.                                                *)
(***************************************************************************)

LangRows == {"none", "__gone__", "Python", "Other"}
ScanRows == {"none", "scanned", "error"}

\* What a process may hold.
Fields == {"seed", "repos", "cursor", "pages", "sample", "langs", "done", "answers", "recorded"}

Memory(m) ==
    /\ DOMAIN m = Fields
    /\ m.repos \subseteq Population /\ m.cursor \in 0..LastPage /\ m.pages \in Nat
    /\ m.sample \subseteq Repos /\ m.langs \in [Repos -> LangRows]
    /\ m.done \in [Repos -> Rows] /\ m.answers \in [Repos -> Rows]
    /\ m.recorded \in Nat

\* What the files may hold.
Content(f, x) ==
    /\ f = "crawl" => x.repos \subseteq Population /\ x.cursor \in 0..LastPage /\ x.pages \in Nat
    /\ f = "repos" => x \subseteq Population
    /\ f = "sample" => x \subseteq Repos
    /\ f = "languages" => x \in [Repos -> LangRows]
    /\ f = "scans" => x \in [Repos -> ScanRows]

Filed ==
    /\ DOMAIN disk = Files
    /\ \A f \in Files : IsWhole(f) => disk[f] = Whole(disk[f].data) /\ Content(f, disk[f].data)

Typed ==
    /\ code \in [Repos -> Code] /\ alive \subseteq Repos /\ online \in BOOLEAN
    /\ Filed
    /\ Memory(mem)
    /\ pc = "languages" => mem.done \in [Repos -> LangRows]
                           /\ mem.answers \in [Repos -> LangRows \cup {"failed"}]
    /\ pc = "scan" => mem.done \in [Repos -> ScanRows] /\ mem.answers \in [Repos -> ScanRows]

\* A crawl that stands before a page has read all those in front of it.
Crawled ==
    /\ PopulationWhole
    /\ pc = "crawl" => \A p \in DOMAIN Pages : p < PageAt(mem.cursor) => Pages[p] \subseteq mem.repos
    /\ pc = "crawled" => mem.repos = Population
    /\ pc \in {"crawl", "crawled"} => ~IsWhole("repos")

\* Row q of one cache is in the other.
Keeps(old, new) == \A r \in Repos : old[r] # "none" => new[r] = old[r]

\* Threads hold answers for what is still to be recorded; what is on disk was
\* loaded; no stage is left before it has a row for all it asks about.
Pooled ==
    /\ pc \in {"languages", "scan"} => \A r \in Repos : mem.answers[r] # "none" => r \in Todo
    /\ pc \notin {"languages", "scan"} => mem.answers = Blank
    /\ pc \in {"languages", "scan"} /\ IsWhole(FileOf) => Keeps(disk[FileOf].data, mem.done)
    /\ pc \in {"open scans", "scan", "aggregate"} => \A r \in mem.sample : mem.langs[r] # "none"
    /\ pc = "aggregate" => \A r \in Python(mem) : mem.done[r] # "none"

-----------------------------------------------------------------------------
\* What a run has in memory when it is over, or has just begun, is well typed.
LEMMA IdleTyped ==
    /\ Memory(Idle) /\ \A s, R : R \subseteq Population => Memory([Idle EXCEPT !.seed = s, !.repos = R])
    /\ Idle.answers = Blank /\ Blank \in [Repos -> LangRows]
<1>1. Blank \in [Repos -> LangRows] /\ Blank \in [Repos -> Rows]
  BY DEF Blank, LangRows, Rows
<1>2. LastPage \in Nat
  BY EcosystemAssumption DEF EcosystemAssumption, LastPage
<1> QED BY <1>1, <1>2 DEF Idle, Memory, Fields

\* No file gets a new content: each is as it was, or not whole.
Worn == DOMAIN disk' = DOMAIN disk /\ \A f \in Files : disk'[f] = disk[f] \/ ~IsWhole(f)'

\* File f gets content x, the others are as they were.
Written(f, x) == /\ DOMAIN disk' = DOMAIN disk /\ disk'[f] = Whole(x)
                 /\ \A g \in Files \ {f} : disk'[g] = disk[g]

\* A step wears the files, or writes one of them.
LEMMA Wearing ==
    ASSUME DOMAIN disk = Files
    PROVE  /\ UNCHANGED disk => Worn
           /\ Kill => Worn
           /\ \A f \in Files : Discard(f) => Worn
           /\ \A f \in Files : \A x : disk' = [disk EXCEPT ![f] = Whole(x)] => Written(f, x)
<1>1. UNCHANGED disk => Worn
  BY DEF Worn
<1>2. ASSUME Kill PROVE Worn
  <2>1. CASE UNCHANGED disk
    BY <2>1, <1>1
  <2>2. CASE disk' = [disk EXCEPT ![Target] = Torn]
    <3> HIDE DEF Target
    <3> QED BY <2>2 DEF Worn, IsWhole, Torn
  <2> QED BY <1>2, <2>1, <2>2 DEF Kill
<1>3. ASSUME NEW f \in Files, Discard(f) PROVE Worn
  BY <1>3 DEF Discard, Worn, IsWhole, Absent
<1>4. ASSUME NEW f \in Files, NEW x, disk' = [disk EXCEPT ![f] = Whole(x)]
      PROVE  Written(f, x)
  BY <1>4 DEF Written
<1> QED BY <1>1, <1>2, <1>3, <1>4

\* Neither spoils a file.
LEMMA StaysFiled ==
    ASSUME Filed
    PROVE  /\ Worn => Filed'
           /\ \A f \in Files : \A x : Content(f, x) /\ Written(f, x) => Filed'
<1>1. ASSUME Worn PROVE Filed'
  BY <1>1 DEF Worn, Filed, IsWhole
<1>2. ASSUME NEW f \in Files, NEW x, Content(f, x), Written(f, x) PROVE Filed'
  <2> SUFFICES ASSUME NEW g \in Files, IsWhole(g)'
               PROVE  disk'[g] = Whole(disk'[g].data) /\ Content(g, disk'[g].data)
    BY <1>2 DEF Filed, Written
  <2>1. CASE g = f
    BY <1>2, <2>1 DEF Written, Whole
  <2>2. CASE g # f
    BY <1>2, <2>2 DEF Written, Filed, IsWhole
  <2> QED BY <2>1, <2>2
<1> QED BY <1>1, <1>2

\* All is well typed before the first launch.
LEMMA TypedInit == Init => Typed
<1> SUFFICES ASSUME Init PROVE Typed
  OBVIOUS
<1>1. code \in [Repos -> Code] /\ alive \subseteq Repos /\ online \in BOOLEAN
  BY EcosystemAssumption DEF EcosystemAssumption, Init
<1>2. Filed
  BY DEF Init, Filed, IsWhole, Absent
<1>3. Memory(mem) /\ pc = "off"
  BY IdleTyped DEF Init
<1> QED BY <1>1, <1>2, <1>3 DEF Typed

\* The page a crawl asks for is one of the registry's.
LEMMA AtPage ==
    ASSUME Memory(mem)
    PROVE  /\ PageAt(mem.cursor) \in DOMAIN Pages
           /\ PageAt(mem.cursor) \in 1..LastPage
           /\ Pages[PageAt(mem.cursor)] \subseteq Population
           /\ Population \subseteq Repos /\ LastPage \in Nat \ {0} /\ DOMAIN Pages = 1..LastPage
<1>1. LastPage \in Nat \ {0} /\ DOMAIN Pages = 1..LastPage
  BY EcosystemAssumption DEF EcosystemAssumption, LastPage
<1>2. PageAt(mem.cursor) \in 1..LastPage
  BY <1>1 DEF PageAt, Memory
<1> QED BY <1>1, <1>2, EcosystemAssumption DEF EcosystemAssumption, Population

\* What is to be recorded next is a repository of the sample.
LEMMA TodoIn ==
    ASSUME Typed
    PROVE  /\ Todo \subseteq Repos /\ (Todo # {} => Min(Todo) \in Todo)
           /\ \A r \in Todo : mem.done[r] = "none"
<1>1. Todo \subseteq Repos /\ Repos \subseteq Nat
  BY EcosystemAssumption DEF EcosystemAssumption, Todo, Slugs, Python, Typed, Memory
<1> QED BY <1>1, MinIsMember DEF Todo

\* Every step keeps the types.
LEMMA TypedNext == Typed /\ Pooled /\ [Next]_vars => Typed'
<1> SUFFICES ASSUME Typed, Pooled, [Next]_vars PROVE Typed'
  OBVIOUS
<1>a. UNCHANGED disk => Worn
  BY Wearing DEF Typed, Filed
<1>b. \A f \in Files : \A x : disk' = [disk EXCEPT ![f] = Whole(x)] /\ Content(f, x) => Filed'
  BY Wearing, StaysFiled DEF Typed, Filed
<1>c. Worn => Filed'
  BY StaysFiled DEF Typed
<1>d. ASSUME Abort, UNCHANGED <<code, alive, online>> PROVE Typed'
  BY <1>d, <1>a, <1>c, IdleTyped DEF Abort, Typed
<1>1. CASE UNCHANGED vars
  BY <1>1, <1>a, <1>c DEF vars, Typed
<1>2. ASSUME NEW s \in Seeds, Launch(s) PROVE Typed'
  <2>1. /\ pc' \in {"draw", "crawl"} /\ UNCHANGED <<code, alive, online, disk>>
        /\ \/ IsWhole("repos") /\ mem' = [Idle EXCEPT !.seed = s, !.repos = disk["repos"].data]
           \/ IsWhole("crawl") /\ mem' = [Idle EXCEPT !.seed = s, !.repos = disk["crawl"].data.repos,
                                         !.cursor = disk["crawl"].data.cursor, !.pages = disk["crawl"].data.pages]
           \/ mem' = [Idle EXCEPT !.seed = s]
    BY <1>2 DEF Launch
  <2>2. Memory(mem)'
    <3>1. CASE IsWhole("repos") /\ mem' = [Idle EXCEPT !.seed = s, !.repos = disk["repos"].data]
      <4>1. disk["repos"].data \subseteq Population
        BY <3>1 DEF Typed, Filed, Files, Content
      <4> QED BY <3>1, <4>1, IdleTyped
    <3>2. CASE IsWhole("crawl") /\ mem' = [Idle EXCEPT !.seed = s, !.repos = disk["crawl"].data.repos,
                                         !.cursor = disk["crawl"].data.cursor, !.pages = disk["crawl"].data.pages]
      <4> DEFINE x == disk["crawl"].data
      <4>1. x.repos \subseteq Population /\ x.cursor \in 0..LastPage /\ x.pages \in Nat
        BY <3>2 DEF Typed, Filed, Files, Content
      <4>2. mem' = [Idle EXCEPT !.seed = s, !.repos = x.repos, !.cursor = x.cursor, !.pages = x.pages]
        BY <3>2
      <4> HIDE DEF x
      <4> QED BY <4>1, <4>2, IdleTyped DEF Memory, Fields, Idle
    <3>3. CASE mem' = [Idle EXCEPT !.seed = s]
      BY <3>3, IdleTyped DEF Memory, Fields, Idle
    <3> QED BY <2>1, <3>1, <3>2, <3>3
  <2> QED BY <2>1, <2>2, <1>a, <1>c DEF Typed
<1>3. CASE CrawlPage
  <2> DEFINE at == PageAt(mem.cursor)
             next == IF at = LastPage THEN 0 ELSE at + 1
  <2>1. Memory(mem) /\ next \in 0..LastPage /\ Pages[at] \subseteq Population
    BY AtPage DEF Typed
  <2>2. mem' = [mem EXCEPT !.repos = @ \cup Pages[at], !.cursor = next, !.pages = @ + 1]
    BY <1>3 DEF CrawlPage
  <2>3. UNCHANGED disk \/ disk' = [disk EXCEPT !["crawl"] = Whole(Saved(mem, next))]
    BY <1>3 DEF CrawlPage
  <2>4. pc' \in {"crawled", "crawl"} /\ UNCHANGED <<code, alive, online>>
    BY <1>3 DEF CrawlPage
  <2>5. Memory(mem)'
    <3> HIDE DEF at, next
    <3> QED BY <2>1, <2>2 DEF Memory, Fields
  <2>6. Content("crawl", Saved(mem, next))
    <3> HIDE DEF next
    <3> QED BY <2>1 DEF Saved, Memory, Content
  <2>7. Filed'
    <3> HIDE DEF next
    <3> QED BY <2>3, <2>6, <1>a, <1>b, <1>c DEF Files
  <2> QED BY <2>4, <2>5, <2>7 DEF Typed
<1>4. CASE CrawlFails
  BY <1>4, <1>d DEF CrawlFails
<1>5. CASE SaveRepos
  <2>1. Content("repos", mem.repos)
    BY DEF Content, Typed, Memory
  <2>2. Filed'
    BY <1>5, <2>1, <1>b DEF SaveRepos, Files
  <2> QED BY <1>5, <2>2 DEF SaveRepos, Typed
<1>6. CASE DrawSample
  <2>1. CASE Abort
    BY <1>6, <2>1, <1>d DEF DrawSample
  <2>2. CASE ~IsTorn("sample")
    <3> DEFINE drawn == IF IsWhole("sample") THEN disk["sample"].data ELSE Sample[mem.seed] \cap mem.repos
    <3>1. drawn \subseteq Repos
      BY AtPage DEF Typed, Memory, Filed, Files, Content
    <3>2. /\ mem' = [mem EXCEPT !.sample = drawn] /\ disk' = [disk EXCEPT !["sample"] = Whole(drawn)]
          /\ pc' = "open languages" /\ UNCHANGED <<code, alive, online>>
      BY <1>6, <2>2 DEF DrawSample
    <3> HIDE DEF drawn
    <3>3. Memory(mem)'
      BY <3>1, <3>2 DEF Typed, Memory, Fields
    <3>4. Filed'
      BY <3>1, <3>2, <1>b DEF Content, Files
    <3> QED BY <3>2, <3>3, <3>4 DEF Typed
  <2> QED BY <1>6, <2>1, <2>2 DEF DrawSample
<1>7. CASE OpenCache("open languages", "languages", "languages")
  <2>1. CASE Abort
    BY <1>7, <2>1, <1>d DEF OpenCache
  <2>2. CASE ~IsTorn("languages")
    <3> DEFINE done == IF IsWhole("languages") THEN disk["languages"].data ELSE Blank
    <3>1. done \in [Repos -> LangRows]
      BY IdleTyped DEF Typed, Filed, Files, Content
    <3>2. mem' = [mem EXCEPT !.done = done] /\ pc' = "languages" /\ UNCHANGED <<code, alive, online, disk>>
      BY <1>7, <2>2 DEF OpenCache
    <3>3. mem.answers = Blank
      BY <1>7 DEF OpenCache, Pooled
    <3> HIDE DEF done
    <3>4. Memory(mem)' /\ mem'.done = done /\ mem'.answers = mem.answers
      BY <3>1, <3>2 DEF Typed, Memory, Fields, LangRows, Rows
    <3>5. mem'.answers \in [Repos -> LangRows \cup {"failed"}]
      BY <3>3, <3>4, IdleTyped
    <3> QED BY <3>1, <3>2, <3>4, <3>5, <1>a, <1>c DEF Typed
  <2> QED BY <1>7, <2>1, <2>2 DEF OpenCache
<1>8. CASE CloseLanguages
  <2>1. mem' = [mem EXCEPT !.langs = mem.done, !.recorded = 0] /\ mem.done \in [Repos -> LangRows]
    BY <1>8 DEF CloseLanguages, Typed
  <2>2. Memory(mem)'
    BY <2>1 DEF Typed, Memory, Fields
  <2>3. Filed'
    BY <1>8, <2>1, <1>a, <1>b, <1>c DEF CloseLanguages, Content, Files
  <2> QED BY <1>8, <2>2, <2>3 DEF CloseLanguages, Typed
<1>9. CASE OpenCache("open scans", "scans", "scan")
  <2>1. CASE Abort
    BY <1>9, <2>1, <1>d DEF OpenCache
  <2>2. CASE ~IsTorn("scans")
    <3> DEFINE done == IF IsWhole("scans") THEN disk["scans"].data ELSE Blank
    <3>1. done \in [Repos -> ScanRows]
      BY DEF Typed, Filed, Files, Content, Blank, ScanRows
    <3>2. mem' = [mem EXCEPT !.done = done] /\ pc' = "scan" /\ UNCHANGED <<code, alive, online, disk>>
      BY <1>9, <2>2 DEF OpenCache
    <3>3. mem.answers = Blank
      BY <1>9 DEF OpenCache, Pooled
    <3> HIDE DEF done
    <3>4. Memory(mem)' /\ mem'.done = done /\ mem'.answers = mem.answers
      BY <3>1, <3>2 DEF Typed, Memory, Fields, ScanRows, Rows
    <3>5. mem'.answers \in [Repos -> ScanRows]
      BY <3>3, <3>4 DEF Blank, ScanRows
    <3> QED BY <3>1, <3>2, <3>4, <3>5, <1>a, <1>c DEF Typed
  <2> QED BY <1>9, <2>1, <2>2 DEF OpenCache
<1>10. CASE CloseScans
  <2>1. Content("scans", mem.done)
    BY <1>10 DEF CloseScans, Typed, Content
  <2>2. Filed'
    BY <1>10, <2>1, <1>b DEF CloseScans, Files
  <2> QED BY <1>10, <2>2 DEF CloseScans, Typed
<1>11. CASE Record
  <2> DEFINE r == Min(Todo)
             done == [mem.done EXCEPT ![r] = mem.answers[r]]
  <2>1. CASE Abort
    BY <1>11, <2>1, <1>d DEF Record
  <2>2. CASE mem.answers[r] # "failed" /\ pc = "languages"
    <3>1. r \in Repos
      BY <1>11, TodoIn DEF Record
    <3>2. /\ mem' = [mem EXCEPT !.done = done, !.answers[r] = "none", !.recorded = @ + 1]
          /\ pc' = "languages" /\ UNCHANGED <<code, alive, online>>
      BY <1>11, <2>2 DEF Record
    <3>3. UNCHANGED disk \/ disk' = [disk EXCEPT !["languages"] = Whole(done)]
      BY <1>11, <2>2 DEF Record, FileOf
    <3> HIDE DEF r
    <3>4. done \in [Repos -> LangRows] /\ [mem.answers EXCEPT ![r] = "none"] \in [Repos -> LangRows \cup {"failed"}]
      BY <2>2, <3>1 DEF Typed, LangRows
    <3>5. done \in [Repos -> Rows] /\ [mem.answers EXCEPT ![r] = "none"] \in [Repos -> Rows]
      BY <3>4 DEF LangRows, Rows
    <3> HIDE DEF done
    <3>6. Memory(mem)' /\ mem'.done = done /\ mem'.answers = [mem.answers EXCEPT ![r] = "none"]
      BY <3>2, <3>5 DEF Typed, Memory, Fields
    <3>7. Filed'
      BY <3>3, <3>4, <1>a, <1>b, <1>c DEF Content, Files
    <3> QED BY <3>2, <3>4, <3>6, <3>7 DEF Typed
  <2>3. CASE mem.answers[r] # "failed" /\ pc = "scan"
    <3>1. r \in Repos
      BY <1>11, TodoIn DEF Record
    <3>2. /\ mem' = [mem EXCEPT !.done = done, !.answers[r] = "none", !.recorded = @ + 1]
          /\ pc' = "scan" /\ UNCHANGED <<code, alive, online>>
      BY <1>11, <2>3 DEF Record
    <3>3. UNCHANGED disk \/ disk' = [disk EXCEPT !["scans"] = Whole(done)]
      BY <1>11, <2>3 DEF Record, FileOf
    <3> HIDE DEF r
    <3>4. done \in [Repos -> ScanRows] /\ [mem.answers EXCEPT ![r] = "none"] \in [Repos -> ScanRows]
      BY <2>3, <3>1 DEF Typed, ScanRows
    <3>5. done \in [Repos -> Rows] /\ [mem.answers EXCEPT ![r] = "none"] \in [Repos -> Rows]
      BY <3>4 DEF ScanRows, Rows
    <3> HIDE DEF done
    <3>6. Memory(mem)' /\ mem'.done = done /\ mem'.answers = [mem.answers EXCEPT ![r] = "none"]
      BY <3>2, <3>5 DEF Typed, Memory, Fields
    <3>7. Filed'
      BY <3>3, <3>4, <1>a, <1>b, <1>c DEF Content, Files
    <3> QED BY <3>2, <3>4, <3>6, <3>7 DEF Typed
  <2> QED BY <1>11, <2>1, <2>2, <2>3 DEF Record
<1>12. ASSUME NEW r \in Repos, Answer(r) PROVE Typed'
  <2>1. pc \in {"languages", "scan"} /\ UNCHANGED <<code, alive, online, disk, pc>> /\ Filed'
    BY <1>12, <1>a, <1>c DEF Answer
  <2>2. CASE pc = "languages"
    <3>1. mem' = [mem EXCEPT !.answers[r] = LanguageOf(r)]
      BY <1>12, <2>2 DEF Answer
    <3>2. LanguageOf(r) \in LangRows \cup {"failed"}
      BY DEF LanguageOf, GivesUp, Typed, Code, LangRows
    <3>3. [mem.answers EXCEPT ![r] = LanguageOf(r)] \in [Repos -> LangRows \cup {"failed"}]
      BY <2>2, <3>2 DEF Typed
    <3>4. Memory(mem)' /\ mem'.done = mem.done /\ mem'.answers = [mem.answers EXCEPT ![r] = LanguageOf(r)]
      BY <3>1, <3>3 DEF Typed, Memory, Fields, Rows, LangRows
    <3> QED BY <2>1, <2>2, <3>3, <3>4 DEF Typed
  <2>3. CASE pc = "scan"
    <3>1. mem' = [mem EXCEPT !.answers[r] = ScanOf(r)]
      BY <1>12, <2>3 DEF Answer
    <3>2. ScanOf(r) \in ScanRows
      BY DEF ScanOf, ScanRows
    <3>3. [mem.answers EXCEPT ![r] = ScanOf(r)] \in [Repos -> ScanRows]
      BY <2>3, <3>2 DEF Typed
    <3>4. Memory(mem)' /\ mem'.done = mem.done /\ mem'.answers = [mem.answers EXCEPT ![r] = ScanOf(r)]
      BY <3>1, <3>3 DEF Typed, Memory, Fields, Rows, ScanRows
    <3> QED BY <2>1, <2>3, <3>3, <3>4 DEF Typed
  <2> QED BY <2>1, <2>2, <2>3
<1>13. CASE Aggregate
  <2>1. Content("report", Counts(mem))
    BY DEF Content
  <2>2. Filed'
    BY <1>13, <2>1, <1>a, <1>b, <1>c DEF Aggregate, Files
  <2> QED BY <1>13, <2>2, IdleTyped DEF Aggregate, Typed
<1>14. CASE Kill
  <2>1. Filed'
    BY <1>14, <1>c, Wearing DEF Typed, Filed
  <2> QED BY <1>14, <2>1, IdleTyped DEF Kill, Typed
<1>15. ASSUME NEW f \in Files, Discard(f) PROVE Typed'
  <2>1. Filed'
    BY <1>15, <1>c, Wearing DEF Typed, Filed
  <2> QED BY <1>15, <2>1 DEF Discard, Typed
<1>16. CASE Disconnect \/ Reconnect \/ HourPasses \/ \E r \in Repos : Vanish(r)
  <2>1. UNCHANGED <<code, disk, pc, mem>> /\ alive' \subseteq Repos /\ online' \in BOOLEAN
    BY <1>16 DEF Disconnect, Reconnect, HourPasses, Vanish, Typed
  <2> QED BY <2>1, <1>a, <1>c DEF Typed
<1> QED
  BY <1>1, <1>2, <1>3, <1>4, <1>5, <1>6, <1>7, <1>8, <1>9, <1>10, <1>11, <1>12, <1>13, <1>14,
     <1>15, <1>16 DEF Next, LaunchAny, Run, Pool

\* No repository is called dead that is not gone, by row or by answer.
Dead == DeadIsDead /\ (IsWhole("report") => disk["report"].data.dead \in Nat)

Buried ==
    /\ Dead
    /\ \A r \in Repos : mem.langs[r] = "__gone__" => r \notin alive
    /\ pc = "languages" =>
          \A r \in Repos : "__gone__" \in {mem.done[r], mem.answers[r]} => r \notin alive

\* What a report says of its sample, and of the servers in it.
Accounted ==
    /\ IsWhole("report") =>
          LET d == disk["report"].data IN
             /\ d.sampled = d.size /\ d.size = d.dead + d.live
             /\ d.live = d.languages["Python"] + d.languages["Other"]
    /\ ClaimsAddUp

-----------------------------------------------------------------------------
(***************************************************************************)
(* The crawl.                                                              *)
(***************************************************************************)

\* A crawl, resumed wherever it was interrupted, misses no page.
LEMMA CrawledNext == Typed /\ Crawled /\ [Next]_vars => Crawled'
<1> SUFFICES ASSUME Typed, Crawled, [Next]_vars PROVE Crawled'
  OBVIOUS
<1> DEFINE Apart == /\ \A f \in {"crawl", "repos"} : disk'[f] = disk[f] \/ ~IsWhole(f)'
                    /\ pc' \notin {"crawl", "crawled"}
<1>a. Apart => Crawled'
  BY DEF Crawled, PopulationWhole, IsWhole
<1>b. Abort => Apart
  BY DEF Abort
<1>c. \A f \in {"sample", "languages", "scans", "report"} : \A x :
         disk' = [disk EXCEPT ![f] = Whole(x)] =>
            disk'["crawl"] = disk["crawl"] /\ disk'["repos"] = disk["repos"]
  BY DEF Typed, Filed, Files
<1>d. UNCHANGED <<pc, mem, disk>> => Crawled'
  BY DEF Crawled, PopulationWhole, IsWhole
<1>1. CASE UNCHANGED vars
  BY <1>1, <1>d DEF vars
<1>2. ASSUME NEW s \in Seeds, Launch(s) PROVE Crawled'
  <2>1. CASE pc' = "draw"
    BY <1>2, <2>1, <1>a DEF Launch
  <2>2. CASE pc' = "crawl"
    <3>1. /\ ~IsWhole("repos") /\ UNCHANGED disk
          /\ \/ PageAt(mem'.cursor) = 1
             \/ /\ IsWhole("crawl") /\ mem'.repos = disk["crawl"].data.repos
                /\ mem'.cursor = disk["crawl"].data.cursor
      <4>1. disk["repos"] = Absent /\ UNCHANGED disk
        BY <1>2, <2>2 DEF Launch
      <4>2. CASE IsWhole("crawl")
        <5> DEFINE x == disk["crawl"].data
        <5>1. mem' = [Idle EXCEPT !.seed = s, !.repos = x.repos, !.cursor = x.cursor, !.pages = x.pages]
          BY <1>2, <2>2, <4>2 DEF Launch
        <5>2. mem'.repos = x.repos /\ mem'.cursor = x.cursor
          <6> HIDE DEF x
          <6> QED BY <5>1 DEF Idle
        <5> QED BY <4>1, <4>2, <5>2 DEF IsWhole, Absent
      <4>3. CASE ~IsWhole("crawl")
        <5>1. mem' = [Idle EXCEPT !.seed = s]
          BY <1>2, <2>2, <4>3 DEF Launch
        <5> QED BY <4>1, <5>1 DEF IsWhole, Absent, Idle, PageAt
      <4> QED BY <4>2, <4>3
    <3>2. DOMAIN Pages \subseteq Nat \ {0}
      BY AtPage DEF Typed
    <3>3. \A p \in DOMAIN Pages : p < PageAt(mem'.cursor) => Pages[p] \subseteq mem'.repos
      <4>1. CASE PageAt(mem'.cursor) = 1
        BY <4>1, <3>2
      <4>2. CASE IsWhole("crawl") /\ mem'.repos = disk["crawl"].data.repos
                 /\ mem'.cursor = disk["crawl"].data.cursor /\ mem'.cursor # 0
        BY <4>2 DEF Crawled, PopulationWhole, PageAt
      <4> QED BY <3>1, <4>1, <4>2 DEF PageAt
    <3> QED BY <2>2, <3>1, <3>3 DEF Crawled, PopulationWhole, IsWhole
  <2> QED BY <1>2, <2>1, <2>2 DEF Launch
<1>3. CASE CrawlPage
  <2> DEFINE at == PageAt(mem.cursor)
             next == IF at = LastPage THEN 0 ELSE at + 1
             repos == mem.repos \cup Pages[at]
  <2>1. /\ at \in 1..LastPage /\ Pages[at] \subseteq Population
        /\ LastPage \in Nat \ {0} /\ DOMAIN Pages = 1..LastPage
    BY AtPage DEF Typed
  <2>2. mem'.repos = repos /\ mem'.cursor = next
    BY <1>3 DEF CrawlPage, Typed, Memory, Fields
  <2>3. \/ disk' = disk
        \/ /\ IsWhole("crawl")' /\ disk'["crawl"].data.repos = repos
           /\ disk'["crawl"].data.cursor = next /\ disk'["repos"] = disk["repos"]
    <3>1. disk' = disk \/ disk' = [disk EXCEPT !["crawl"] = Whole(Saved(mem, next))]
      BY <1>3 DEF CrawlPage
    <3>2. Saved(mem, next).repos = repos /\ Saved(mem, next).cursor = next
      BY DEF Saved
    <3> HIDE DEF next, repos
    <3> QED BY <3>1, <3>2 DEF Typed, Filed, Files, Whole, IsWhole
  <2>4. pc' = IF next = 0 THEN "crawled" ELSE "crawl"
    BY <1>3 DEF CrawlPage
  <2>5. \A p \in DOMAIN Pages : p <= at => Pages[p] \subseteq repos
    BY <1>3, <2>1 DEF CrawlPage, Crawled
  <2>6. next = 0 => repos = Population
    <3>1. ASSUME next = 0 PROVE \A p \in DOMAIN Pages : Pages[p] \subseteq repos
      BY <3>1, <2>1, <2>5
    <3>2. repos \subseteq Population
      BY <2>1 DEF Typed, Memory
    <3> QED BY <3>1, <3>2 DEF Population
  <2>7. \A p \in DOMAIN Pages : next = 0 \/ p < next => Pages[p] \subseteq repos
    <3>1. CASE next = 0
      BY <3>1, <2>6 DEF Population
    <3>2. CASE next # 0
      BY <3>2, <2>1, <2>5
    <3> QED BY <3>1, <3>2
  <2>8. pc' = "crawl" => next # 0 /\ PageAt(mem'.cursor) = next
    BY <2>1, <2>2, <2>4 DEF PageAt
  <2>9. ~IsWhole("repos")' /\ (IsWhole("crawl") /\ disk' = disk => IsWhole("crawl")')
    BY <1>3, <2>3 DEF CrawlPage, Crawled, IsWhole
  <2> HIDE DEF next, repos, at
  <2>10. IsWhole("crawl")' =>
          LET x == disk'["crawl"].data IN
             \A p \in DOMAIN Pages : x.cursor = 0 \/ p < x.cursor => Pages[p] \subseteq x.repos
    <3>1. CASE disk' = disk
      BY <3>1 DEF Crawled, PopulationWhole, IsWhole
    <3>2. CASE disk'["crawl"].data.repos = repos /\ disk'["crawl"].data.cursor = next
      BY <3>2, <2>7
    <3> QED BY <2>3, <3>1, <3>2
  <2> QED BY <2>2, <2>4, <2>6, <2>7, <2>8, <2>9, <2>10 DEF Crawled, PopulationWhole
<1>4. CASE CrawlFails
  BY <1>4, <1>a, <1>b DEF CrawlFails
<1>5. CASE SaveRepos
  <2>1. disk'["crawl"] = disk["crawl"] /\ disk'["repos"].data = Population /\ pc' = "draw"
    BY <1>5 DEF SaveRepos, Crawled, Typed, Filed, Files, Whole
  <2> QED BY <2>1 DEF Crawled, PopulationWhole, IsWhole
<1>6. CASE DrawSample
  BY <1>6, <1>a, <1>b, <1>c DEF DrawSample
<1>7. CASE OpenCache("open languages", "languages", "languages") \/ OpenCache("open scans", "scans", "scan")
  BY <1>7, <1>a, <1>b DEF OpenCache
<1>8. CASE CloseLanguages
  BY <1>8, <1>a, <1>c DEF CloseLanguages
<1>9. CASE CloseScans
  BY <1>9, <1>a, <1>c DEF CloseScans
<1>10. CASE Record
  <2>1. \/ Abort
        \/ UNCHANGED disk /\ pc' = pc
        \/ pc' = pc /\ \E x : disk' = [disk EXCEPT ![FileOf] = Whole(x)]
    BY <1>10 DEF Record
  <2>2. FileOf \in {"languages", "scans"} /\ pc \in {"languages", "scan"}
    BY <1>10 DEF FileOf, Record
  <2> QED BY <2>1, <2>2, <1>a, <1>b, <1>c
<1>11. ASSUME NEW r \in Repos, Answer(r) PROVE Crawled'
  BY <1>11, <1>a DEF Answer
<1>12. CASE Aggregate
  BY <1>12, <1>a, <1>c DEF Aggregate
<1>13. CASE Kill
  <2>1. Worn /\ pc' = "off"
    BY <1>13, Wearing DEF Kill, Typed, Filed
  <2> QED BY <2>1, <1>a DEF Worn, Files
<1>14. ASSUME NEW f \in Files, Discard(f) PROVE Crawled'
  <2>1. Worn /\ pc' = "off"
    BY <1>14, Wearing DEF Discard, Typed, Filed
  <2> QED BY <2>1, <1>a DEF Worn, Files
<1>15. CASE Disconnect \/ Reconnect \/ HourPasses \/ \E r \in Repos : Vanish(r)
  BY <1>15, <1>d DEF Disconnect, Reconnect, HourPasses, Vanish
<1> QED
  BY <1>1, <1>2, <1>3, <1>4, <1>5, <1>6, <1>7, <1>8, <1>9, <1>10, <1>11, <1>12, <1>13, <1>14,
     <1>15 DEF Next, LaunchAny, Run, Pool

-----------------------------------------------------------------------------
(***************************************************************************)
(* The pools.                                                              *)
(***************************************************************************)

\* Every row asked for is recorded, once, whatever order the threads end in.
LEMMA PooledNext == Typed /\ Pooled /\ [Next]_vars => Pooled'
<1> SUFFICES ASSUME Typed, Pooled, [Next]_vars PROVE Pooled'
  OBVIOUS
<1> DEFINE Outside == /\ pc' \notin {"languages", "open scans", "scan", "aggregate"}
                      /\ mem'.answers = Blank
<1>a. Outside => Pooled'
  BY DEF Pooled
<1>b. Abort => Outside
  BY IdleTyped DEF Abort
<1>c. UNCHANGED <<pc, mem, disk>> => Pooled'
  BY DEF Pooled, Todo, Slugs, FileOf, Python, IsWhole
<1>1. CASE UNCHANGED vars
  BY <1>1, <1>c DEF vars
<1>2. ASSUME NEW s \in Seeds, Launch(s) PROVE Pooled'
  <2> DEFINE y == disk["repos"].data
             x == disk["crawl"].data
  <2>1. /\ pc' \in {"draw", "crawl"}
        /\ \/ mem' = [Idle EXCEPT !.seed = s, !.repos = y]
           \/ mem' = [Idle EXCEPT !.seed = s, !.repos = x.repos, !.cursor = x.cursor, !.pages = x.pages]
           \/ mem' = [Idle EXCEPT !.seed = s]
    BY <1>2 DEF Launch
  <2>2. mem'.answers = Blank
    <3> HIDE DEF x, y
    <3> QED BY <2>1 DEF Idle
  <2> QED BY <2>1, <2>2, <1>a
<1>3. CASE CrawlPage
  BY <1>3, <1>a DEF CrawlPage, Pooled, Typed, Memory, Fields
<1>4. CASE CrawlFails
  BY <1>4, <1>a, <1>b DEF CrawlFails
<1>5. CASE SaveRepos
  BY <1>5, <1>a DEF SaveRepos, Pooled
<1>6. CASE DrawSample
  <2>1. CASE pc' = "open languages"
    <3>1. mem'.answers = mem.answers
      BY <1>6, <2>1 DEF DrawSample, Abort, Typed, Memory, Fields
    <3> QED BY <1>6, <2>1, <3>1, <1>a DEF DrawSample, Pooled
  <2>2. CASE Abort
    BY <2>2, <1>a, <1>b
  <2> QED BY <1>6, <2>1, <2>2 DEF DrawSample
<1>7. CASE OpenCache("open languages", "languages", "languages")
  <2>1. CASE Abort
    BY <2>1, <1>a, <1>b
  <2>2. CASE ~IsTorn("languages")
    <3> DEFINE done == IF IsWhole("languages") THEN disk["languages"].data ELSE Blank
    <3>1. /\ mem' = [mem EXCEPT !.done = done] /\ pc' = "languages" /\ UNCHANGED disk
          /\ mem.answers = Blank
      BY <1>7, <2>2 DEF OpenCache, Pooled
    <3>2. mem'.answers = Blank /\ mem'.done = done
      BY <3>1 DEF Typed, Memory, Fields
    <3>3. FileOf' = "languages" /\ \A r \in Repos : Blank[r] = "none"
      BY <3>1 DEF FileOf, Blank
    <3> QED BY <3>1, <3>2, <3>3 DEF Pooled, Keeps, IsWhole
  <2> QED BY <1>7, <2>1, <2>2 DEF OpenCache
<1>8. CASE CloseLanguages
  <2>1. /\ pc = "languages" /\ Todo = {} /\ pc' = "open scans"
        /\ mem' = [mem EXCEPT !.langs = mem.done, !.recorded = 0]
    BY <1>8 DEF CloseLanguages
  <2>2. mem'.answers = mem.answers /\ mem'.langs = mem.done /\ mem'.sample = mem.sample
    BY <2>1 DEF Typed, Memory, Fields
  <2>3. \A r \in Repos : mem.answers[r] = "none"
    BY <2>1 DEF Pooled
  <2>4. mem.answers = Blank
    BY <2>3 DEF Typed, Memory, Blank
  <2>5. \A r \in mem.sample : mem.done[r] # "none"
    BY <2>1 DEF Todo, Slugs
  <2> QED BY <2>1, <2>2, <2>4, <2>5 DEF Pooled
<1>9. CASE OpenCache("open scans", "scans", "scan")
  <2>1. CASE Abort
    BY <2>1, <1>a, <1>b
  <2>2. CASE ~IsTorn("scans")
    <3> DEFINE done == IF IsWhole("scans") THEN disk["scans"].data ELSE Blank
    <3>1. /\ mem' = [mem EXCEPT !.done = done] /\ pc' = "scan" /\ UNCHANGED disk
          /\ mem.answers = Blank /\ \A r \in mem.sample : mem.langs[r] # "none"
      BY <1>9, <2>2 DEF OpenCache, Pooled
    <3>2. /\ mem'.answers = Blank /\ mem'.done = done
          /\ mem'.langs = mem.langs /\ mem'.sample = mem.sample
      BY <3>1 DEF Typed, Memory, Fields
    <3>3. FileOf' = "scans" /\ \A r \in Repos : Blank[r] = "none"
      BY <3>1 DEF FileOf, Blank
    <3> QED BY <3>1, <3>2, <3>3 DEF Pooled, Keeps, IsWhole
  <2> QED BY <1>9, <2>1, <2>2 DEF OpenCache
<1>10. CASE CloseScans
  <2>1. /\ pc = "scan" /\ Todo = {} /\ pc' = "aggregate" /\ mem' = mem
    BY <1>10 DEF CloseScans
  <2>2. \A r \in Repos : mem.answers[r] = "none"
    BY <2>1 DEF Pooled
  <2>3. mem.answers = Blank
    BY <2>2 DEF Typed, Memory, Blank
  <2>4. \A r \in Python(mem) : mem.done[r] # "none"
    BY <2>1 DEF Todo, Slugs
  <2>5. Python(mem)' = Python(mem)
    BY <2>1 DEF Python
  <2> QED BY <2>1, <2>3, <2>4, <2>5 DEF Pooled
<1>11. CASE Record
  <2> DEFINE r == Min(Todo)
             done == [mem.done EXCEPT ![r] = mem.answers[r]]
             answers == [mem.answers EXCEPT ![r] = "none"]
  <2>1. CASE Abort
    BY <2>1, <1>a, <1>b
  <2>2. CASE mem.answers[r] # "failed"
    <3>1. /\ mem' = [mem EXCEPT !.done = done, !.answers[r] = "none", !.recorded = @ + 1]
          /\ mem.answers[r] # "none" /\ pc' = pc /\ pc \in {"languages", "scan"}
          /\ UNCHANGED disk \/ disk' = [disk EXCEPT ![FileOf] = Whole(done)]
      BY <1>11, <2>2 DEF Record
    <3>2. r \in Repos /\ r \in Todo /\ mem.done[r] = "none"
      BY <1>11, TodoIn DEF Record
    <3> HIDE DEF r
    <3>3. /\ mem'.done = done /\ mem'.answers = answers
          /\ mem'.langs = mem.langs /\ mem'.sample = mem.sample
      <4> HIDE DEF done
      <4> QED BY <3>1 DEF Typed, Memory, Fields
    <3>4. Slugs' = Slugs /\ FileOf' = FileOf /\ FileOf \in Files
      BY <3>1, <3>3 DEF Slugs, FileOf, Python, Files
    <3>5. \A q \in Repos : q # r => done[q] = mem.done[q] /\ answers[q] = mem.answers[q]
      BY <3>2 DEF Typed, Memory
    <3>6. answers[r] = "none" /\ done[r] # "none"
      BY <3>1, <3>2 DEF Typed, Memory
    <3>7. \A q \in Repos : mem'.answers[q] # "none" => q \in Todo'
      BY <3>1, <3>3, <3>4, <3>5, <3>6 DEF Pooled, Todo
    <3>8. IsWhole(FileOf)' => Keeps(disk[FileOf].data, mem.done)'
      <4>1. CASE UNCHANGED disk
        <5>1. IsWhole(FileOf)' => IsWhole(FileOf) /\ Keeps(disk[FileOf].data, mem.done)
          BY <4>1, <3>1, <3>4 DEF Pooled, IsWhole
        <5>2. \A q \in Repos : q # r => done[q] = mem.done[q]
          BY <3>5
        <5> HIDE DEF done
        <5>3. Keeps(disk[FileOf].data, mem.done) => Keeps(disk[FileOf].data, done)
          BY <5>2, <3>2 DEF Keeps
        <5> QED BY <4>1, <5>1, <5>3, <3>3, <3>4
      <4>2. CASE disk' = [disk EXCEPT ![FileOf] = Whole(done)]
        <5>1. disk'[FileOf].data = done
          BY <4>2, <3>4 DEF Typed, Filed, Whole
        <5> QED BY <5>1, <3>3, <3>4 DEF Keeps
      <4> QED BY <3>1, <4>1, <4>2
    <3> QED BY <3>1, <3>3, <3>7, <3>8 DEF Pooled
  <2> QED BY <1>11, <2>1, <2>2 DEF Record
<1>12. ASSUME NEW r \in Repos, Answer(r) PROVE Pooled'
  <2> DEFINE answer == IF pc = "languages" THEN LanguageOf(r) ELSE ScanOf(r)
  <2>1. /\ mem' = [mem EXCEPT !.answers[r] = answer] /\ UNCHANGED <<disk, pc>>
        /\ pc \in {"languages", "scan"} /\ r \in Todo
    BY <1>12 DEF Answer, Started
  <2> HIDE DEF answer
  <2>2. /\ mem'.answers = [mem.answers EXCEPT ![r] = answer]
        /\ mem'.done = mem.done /\ mem'.langs = mem.langs /\ mem'.sample = mem.sample
    BY <2>1 DEF Typed, Memory, Fields
  <2>3. Todo' = Todo /\ FileOf' = FileOf
    BY <2>1, <2>2 DEF Todo, Slugs, FileOf, Python
  <2>4. \A q \in Repos : mem'.answers[q] # "none" => q \in Todo
    BY <2>1, <2>2 DEF Pooled, Typed, Memory
  <2> QED BY <2>1, <2>2, <2>3, <2>4 DEF Pooled, IsWhole
<1>13. CASE Aggregate
  BY <1>13, <1>a, IdleTyped DEF Aggregate
<1>14. CASE Kill
  BY <1>14, <1>a, IdleTyped DEF Kill
<1>15. ASSUME NEW f \in Files, Discard(f) PROVE Pooled'
  BY <1>15, <1>a DEF Discard, Pooled
<1>16. CASE Disconnect \/ Reconnect \/ HourPasses \/ \E r \in Repos : Vanish(r)
  BY <1>16, <1>c DEF Disconnect, Reconnect, HourPasses, Vanish
<1> QED
  BY <1>1, <1>2, <1>3, <1>4, <1>5, <1>6, <1>7, <1>8, <1>9, <1>10, <1>11, <1>12, <1>13, <1>14,
     <1>15, <1>16 DEF Next, LaunchAny, Run, Pool

-----------------------------------------------------------------------------
(***************************************************************************)
(* The report.                                                             *)
(***************************************************************************)

\* What splits a finite set in two adds up to it.
LEMMA Halves ==
    ASSUME NEW S, IsFiniteSet(S), NEW T, T \subseteq S
    PROVE  /\ Cardinality(S) = Cardinality(T) + Cardinality(S \ T)
           /\ Cardinality(T) \in Nat /\ Cardinality(S \ T) \in Nat
<1>1. IsFiniteSet(T) /\ IsFiniteSet(S \ T) /\ T \cap (S \ T) = {} /\ S = T \cup (S \ T)
  BY FS_Subset
<1>2. Cardinality(T \cup (S \ T)) = Cardinality(T) + Cardinality(S \ T) - Cardinality(T \cap (S \ T))
  BY <1>1, FS_Union
<1>3. Cardinality(T) \in Nat /\ Cardinality(S \ T) \in Nat /\ Cardinality({}) = 0
  BY <1>1, FS_CardinalityType, FS_EmptySet
<1>4. Cardinality(S) = Cardinality(T \cup (S \ T)) /\ Cardinality(T \cap (S \ T)) = Cardinality({})
  BY <1>1
<1> QED BY <1>2, <1>3, <1>4

\* The counts of a report that has a language for every repository.
LEMMA CountsAddUp ==
    ASSUME Typed, \A r \in mem.sample : mem.langs[r] # "none"
    PROVE  LET d == Counts(mem) IN
              /\ d.sampled = d.size /\ d.size = d.dead + d.live
              /\ d.live = d.languages["Python"] + d.languages["Other"]
              /\ d.dead = Cardinality({r \in mem.sample : mem.langs[r] = "__gone__"})
<1> DEFINE dead == {r \in mem.sample : mem.langs[r] = "__gone__"}
           live == {r \in mem.sample : mem.langs[r] \notin {"none", "__gone__"}}
           in(l) == {r \in live : mem.langs[r] = l}
<1>1. /\ Counts(mem).size = Cardinality(mem.sample)
      /\ Counts(mem).sampled = Cardinality({r \in mem.sample : mem.langs[r] # "none"})
      /\ Counts(mem).dead = Cardinality(dead) /\ Counts(mem).live = Cardinality(live)
  BY DEF Counts, Count
<1>2. \A l \in {"Python", "Other"} : Counts(mem).languages[l] = Cardinality(in(l))
  BY DEF Counts, Count
<1>3. IsFiniteSet(mem.sample) /\ live = mem.sample \ dead /\ dead \subseteq mem.sample
  BY FS_Subset, EcosystemAssumption DEF EcosystemAssumption, Typed, Memory
<1>4. in("Other") = live \ in("Python") /\ IsFiniteSet(live)
  BY <1>3, FS_Subset DEF Typed, Memory, LangRows
<1>5. {r \in mem.sample : mem.langs[r] # "none"} = mem.sample
  OBVIOUS
<1> HIDE DEF dead, live
<1>6. Cardinality(mem.sample) = Cardinality(dead) + Cardinality(live)
  BY <1>3, Halves
<1>7. Cardinality(live) = Cardinality(in("Python")) + Cardinality(in("Other"))
  BY <1>4, Halves
<1> QED BY <1>1, <1>2, <1>5, <1>6, <1>7 DEF dead

\* A part is no more than a thousand tenths of a percent of the whole, rounded
\* or not.
LEMMA PctAtMost ==
    ASSUME NEW a \in Nat, NEW b \in Nat, a <= b
    PROVE  Pct(a, b) <= 1000
<1>1. CASE b = 0
  BY <1>1 DEF Pct
<1>2. CASE b # 0
  <2> DEFINE n == 2000 * a + b
             d == 2 * b
             q == n \div d
  <2>1. n \in Nat /\ d \in Nat /\ d > 0 /\ n < 1001 * d
    BY <1>2
  <2> HIDE DEF n, d
  <2>2. q \in Int /\ d * q <= n
    BY <2>1
  <2>3. ASSUME q >= 1001 PROVE FALSE
    <3> HIDE DEF q
    <3>1. d * q >= d * 1001
      BY <2>1, <2>2, <2>3
    <3> QED BY <2>1, <2>2, <3>1
  <2>4. Pct(a, b) = q
    BY <1>2 DEF Pct, n, d
  <2> HIDE DEF q
  <2> QED BY <2>2, <2>3, <2>4
<1> QED BY <1>1, <1>2

\* The floors of any servers fall into three classes.
LEMMA ThreeClasses ==
    ASSUME Typed, NEW S, S \subseteq Repos
    PROVE  LET c == BySdk(S) IN
              /\ Cardinality(S) = c.sdk_1x + c.sdk_2x + c.unknown
              /\ c.sdk_1x \in Nat /\ c.sdk_2x \in Nat /\ c.unknown \in Nat
<1> DEFINE one == {r \in S : Floor1(r)}
           two == {r \in S : Floor2(r)}
           rest == {r \in S : Unknown(r)}
<1>1. BySdk(S).sdk_1x = Cardinality(one) /\ BySdk(S).sdk_2x = Cardinality(two)
      /\ BySdk(S).unknown = Cardinality(rest)
  BY DEF BySdk, Count
<1>2. \A r \in S : code[r].floor \in 0..2
  BY DEF Typed, Code
<1>3. one \subseteq S /\ two \subseteq S \ one /\ rest = (S \ one) \ two
  BY <1>2 DEF Floor1, Floor2, Unknown
<1>4. IsFiniteSet(S) /\ IsFiniteSet(S \ one)
  BY FS_Subset, EcosystemAssumption DEF EcosystemAssumption
<1> HIDE DEF one, two, rest
<1>5. /\ Cardinality(S) = Cardinality(one) + Cardinality(S \ one)
      /\ Cardinality(one) \in Nat /\ Cardinality(S \ one) \in Nat
  BY <1>3, <1>4, Halves
<1>6. /\ Cardinality(S \ one) = Cardinality(two) + Cardinality((S \ one) \ two)
      /\ Cardinality(two) \in Nat /\ Cardinality((S \ one) \ two) \in Nat
  BY <1>3, <1>4, Halves
<1>7. Cardinality(rest) = Cardinality((S \ one) \ two)
  BY <1>3
<1> QED BY <1>1, <1>5, <1>6, <1>7

\* What is counted of some servers is no more than of all.
LEMMA FewerOfFewer ==
    ASSUME NEW S, NEW T, T \subseteq S, S \subseteq Repos, NEW k \in Classes
    PROVE  /\ BySdk(T)[k] <= BySdk(S)[k] /\ BySdk(T)[k] \in Nat /\ BySdk(S)[k] \in Nat
<1>1. IsFiniteSet(S) /\ IsFiniteSet(T)
  BY FS_Subset, EcosystemAssumption DEF EcosystemAssumption
<1>2. ASSUME NEW A, NEW B, B \subseteq S, A \subseteq B
      PROVE  Cardinality(A) <= Cardinality(B) /\ Cardinality(A) \in Nat /\ Cardinality(B) \in Nat
  <2>1. IsFiniteSet(B) /\ IsFiniteSet(A)
    BY <1>1, <1>2, FS_Subset
  <2> QED BY <2>1, <1>2, FS_Subset, FS_CardinalityType
<1>3. CASE k = "sdk_1x"
  <2>1. /\ BySdk(S)[k] = Cardinality({r \in S : Floor1(r)})
        /\ BySdk(T)[k] = Cardinality({r \in T : Floor1(r)})
    BY <1>3 DEF BySdk, Count
  <2> QED BY <2>1, <1>2
<1>4. CASE k = "sdk_2x"
  <2>1. /\ BySdk(S)[k] = Cardinality({r \in S : Floor2(r)})
        /\ BySdk(T)[k] = Cardinality({r \in T : Floor2(r)})
    BY <1>4 DEF BySdk, Count
  <2> QED BY <2>1, <1>2
<1>5. CASE k = "unknown"
  <2>1. /\ BySdk(S)[k] = Cardinality({r \in S : Unknown(r)})
        /\ BySdk(T)[k] = Cardinality({r \in T : Unknown(r)})
    BY <1>5 DEF BySdk, Count
  <2> QED BY <2>1, <1>2
<1> QED BY <1>3, <1>4, <1>5 DEF Classes

\* The claims of the report that is about to be written.
LEMMA ClaimsHold ==
    ASSUME Typed
    PROVE  LET c == Claims(Counts(mem))
               Sum3(s) == s.sdk_1x + s.sdk_2x + s.unknown
           IN  /\ c.servers = Sum3(c.declares) /\ c.emptyOfAll = Sum3(c.empty)
               /\ \A k \in Classes : c.empty[k] <= c.declares[k] /\ c.rates[k] <= 1000
               /\ c.unbroken <= 1000 /\ \A g \in Letters : c.grades[g] <= 1000
<1> DEFINE c == Claims(Counts(mem))
           ok == Scannable(mem)
           zero == {r \in ok : code[r].clean}
           whole == {r \in ok : ~code[r].breaking}
           with(g) == {r \in ok \ Ungraded(mem) : code[r].grade = g}
<1>1. ok \subseteq Repos /\ zero \subseteq ok /\ whole \subseteq ok /\ \A g \in Letters : with(g) \subseteq ok
  BY DEF Scannable
<1>2. /\ c.servers = Cardinality(ok) /\ c.declares = BySdk(ok)
      /\ c.empty = BySdk(zero) /\ c.emptyOfAll = Cardinality(zero)
  BY DEF Claims, Counts
<1>3. \A k \in Classes : c.rates[k] = Pct(BySdk(zero)[k], BySdk(ok)[k])
  BY DEF Claims, Counts
<1>7. /\ c.unbroken = Pct(Cardinality(whole), Cardinality(ok))
      /\ \A g \in Letters : c.grades[g] = Pct(Cardinality(with(g)), Cardinality(ok))
  BY DEF Claims, Counts, Count
<1> HIDE DEF c, ok, zero, whole, with
<1>8. ASSUME NEW A, A \subseteq ok PROVE Pct(Cardinality(A), Cardinality(ok)) <= 1000
  <2>1. IsFiniteSet(ok) /\ IsFiniteSet(A)
    BY <1>1, <1>8, FS_Subset, EcosystemAssumption DEF EcosystemAssumption
  <2>2. Cardinality(A) <= Cardinality(ok) /\ Cardinality(A) \in Nat /\ Cardinality(ok) \in Nat
    BY <2>1, <1>8, FS_Subset, FS_CardinalityType
  <2> QED BY <2>2, PctAtMost
<1>9. c.unbroken <= 1000 /\ \A g \in Letters : c.grades[g] <= 1000
  BY <1>1, <1>7, <1>8
<1>4. \A k \in Classes : c.empty[k] <= c.declares[k] /\ c.rates[k] <= 1000
  <2> SUFFICES ASSUME NEW k \in Classes PROVE c.empty[k] <= c.declares[k] /\ c.rates[k] <= 1000
    OBVIOUS
  <2>1. BySdk(zero)[k] <= BySdk(ok)[k] /\ BySdk(zero)[k] \in Nat /\ BySdk(ok)[k] \in Nat
    BY <1>1, FewerOfFewer
  <2> QED BY <2>1, <1>2, <1>3, PctAtMost
<1>5. Cardinality(ok) = BySdk(ok).sdk_1x + BySdk(ok).sdk_2x + BySdk(ok).unknown
  BY <1>1, ThreeClasses
<1>6. Cardinality(zero) = BySdk(zero).sdk_1x + BySdk(zero).sdk_2x + BySdk(zero).unknown
  BY <1>1, ThreeClasses
<1> QED BY <1>2, <1>4, <1>5, <1>6, <1>9 DEF c

\* The report changes only when a run has got to the end of the pools.
LEMMA AccountedNext == Typed /\ Pooled /\ Accounted /\ [Next]_vars => Accounted'
<1> SUFFICES ASSUME Typed, Pooled, Accounted, [Next]_vars PROVE Accounted'
  OBVIOUS
<1>a. disk'["report"] = disk["report"] \/ ~IsWhole("report")' => Accounted'
  BY DEF Accounted, ClaimsAddUp, IsWhole
<1>b. \A f \in {"crawl", "repos", "sample", "languages", "scans"} : \A x :
         disk' = [disk EXCEPT ![f] = Whole(x)] => disk'["report"] = disk["report"]
  BY DEF Typed, Filed, Files
<1>1. CASE UNCHANGED disk
  BY <1>1, <1>a
<1>2. CASE CrawlPage
  BY <1>2, <1>a, <1>b DEF CrawlPage
<1>3. CASE SaveRepos
  BY <1>3, <1>a, <1>b DEF SaveRepos
<1>4. CASE DrawSample
  BY <1>4, <1>a, <1>b DEF DrawSample, Abort
<1>5. CASE CloseLanguages
  BY <1>5, <1>a, <1>b DEF CloseLanguages
<1>6. CASE CloseScans
  BY <1>6, <1>a, <1>b DEF CloseScans
<1>7. CASE Record
  <2>1. UNCHANGED disk \/ \E x : disk' = [disk EXCEPT ![FileOf] = Whole(x)]
    BY <1>7 DEF Record, Abort
  <2> QED BY <2>1, <1>a, <1>b DEF FileOf
<1>8. CASE Aggregate
  <2>1. CASE UNCHANGED disk
    BY <2>1, <1>a
  <2>2. CASE disk' = [disk EXCEPT !["report"] = Whole(Counts(mem))]
    <3>1. disk'["report"].data = Counts(mem)
      BY <2>2 DEF Typed, Filed, Files, Whole
    <3>2. \A r \in mem.sample : mem.langs[r] # "none"
      BY <1>8 DEF Aggregate, Pooled
    <3>3. ClaimsAddUp'
      BY <3>1, ClaimsHold DEF ClaimsAddUp
    <3> QED BY <3>1, <3>2, <3>3, CountsAddUp DEF Accounted
  <2> QED BY <1>8, <2>1, <2>2 DEF Aggregate
<1>9. CASE Kill \/ \E f \in Files : Discard(f)
  <2>1. Worn
    BY <1>9, Wearing DEF Typed, Filed
  <2> QED BY <2>1, <1>a DEF Worn, Files
<1>10. UNCHANGED vars \/ LaunchAny \/ CrawlFails \/ (\E r \in Repos : Answer(r)) \/ Disconnect \/ Reconnect
       \/ HourPasses \/ (\E r \in Repos : Vanish(r)) \/ OpenCache("open languages", "languages", "languages")
       \/ OpenCache("open scans", "scans", "scan") => UNCHANGED disk
  BY DEF vars, LaunchAny, Launch, CrawlFails, Answer, Disconnect, Reconnect, HourPasses, Vanish, OpenCache, Abort
<1> QED
  BY <1>1, <1>2, <1>3, <1>4, <1>5, <1>6, <1>7, <1>8, <1>9, <1>10 DEF Next, Run, Pool

\* An answer that says gone was given while the network was there and the
\* repository was not; and what is gone does not come back.
LEMMA BuriedNext == Typed /\ Pooled /\ Buried /\ [Next]_vars => Buried'
<1> SUFFICES ASSUME Typed, Pooled, Buried, [Next]_vars PROVE Buried'
  OBVIOUS
<1> DEFINE Gone(rows) == \A r \in Repos : rows[r] = "__gone__" => r \notin alive
           Calm == \A f \in {"languages", "report"} : disk'[f] = disk[f] \/ ~IsWhole(f)'
<1>a. Calm /\ UNCHANGED alive => Dead'
  BY DEF Buried, Dead, DeadIsDead, IsWhole
<1>b. Calm /\ UNCHANGED alive /\ pc' # "languages" /\ (mem'.langs = mem.langs \/ mem'.langs = Blank) => Buried'
  BY <1>a DEF Buried, Blank
<1>c. ASSUME Abort, UNCHANGED alive PROVE Buried'
  BY <1>b, <1>c DEF Abort, Idle
<1>d. \A f \in {"crawl", "repos", "sample", "scans"} : \A x : disk' = [disk EXCEPT ![f] = Whole(x)] => Calm
  BY DEF Typed, Filed, Files
<1>1. CASE UNCHANGED vars
  BY <1>1 DEF vars, Buried, Dead, DeadIsDead, IsWhole
<1>2. ASSUME NEW s \in Seeds, Launch(s) PROVE Buried'
  <2> DEFINE y == disk["repos"].data
             x == disk["crawl"].data
  <2>1. /\ pc' # "languages" /\ UNCHANGED <<alive, disk>>
        /\ \/ mem' = [Idle EXCEPT !.seed = s, !.repos = y]
           \/ mem' = [Idle EXCEPT !.seed = s, !.repos = x.repos, !.cursor = x.cursor, !.pages = x.pages]
           \/ mem' = [Idle EXCEPT !.seed = s]
    BY <1>2 DEF Launch
  <2>2. mem'.langs = Blank
    <3> HIDE DEF x, y
    <3> QED BY <2>1 DEF Idle
  <2> QED BY <2>1, <2>2, <1>b
<1>3. CASE CrawlPage
  <2>1. mem'.langs = mem.langs /\ pc' # "languages" /\ UNCHANGED alive
    BY <1>3 DEF CrawlPage, Typed, Memory, Fields
  <2>2. Calm
    BY <1>3, <1>d DEF CrawlPage
  <2> QED BY <2>1, <2>2, <1>b
<1>4. CASE CrawlFails
  BY <1>4, <1>c DEF CrawlFails
<1>5. CASE SaveRepos
  BY <1>5, <1>b, <1>d DEF SaveRepos
<1>6. CASE DrawSample
  <2>1. CASE Abort
    BY <1>6, <2>1, <1>c DEF DrawSample
  <2>2. CASE ~Abort
    <3>1. mem'.langs = mem.langs /\ pc' # "languages" /\ UNCHANGED alive
      BY <1>6, <2>2 DEF DrawSample, Typed, Memory, Fields
    <3>2. Calm
      BY <1>6, <2>2, <1>d DEF DrawSample
    <3> QED BY <3>1, <3>2, <1>b
  <2> QED BY <2>1, <2>2
<1>7. CASE OpenCache("open languages", "languages", "languages")
  <2>1. CASE Abort
    BY <1>7, <2>1, <1>c DEF OpenCache
  <2>2. CASE ~IsTorn("languages")
    <3> DEFINE done == IF IsWhole("languages") THEN disk["languages"].data ELSE Blank
    <3>1. mem' = [mem EXCEPT !.done = done] /\ mem.answers = Blank /\ UNCHANGED <<alive, disk>>
      BY <1>7, <2>2 DEF OpenCache, Pooled
    <3>2. mem'.done = done /\ mem'.answers = Blank /\ mem'.langs = mem.langs
      BY <3>1 DEF Typed, Memory, Fields
    <3>3. Gone(done) /\ Gone(Blank)
      BY DEF Buried, Dead, DeadIsDead, Blank
    <3> QED BY <3>1, <3>2, <3>3, <1>a DEF Buried
  <2> QED BY <1>7, <2>1, <2>2 DEF OpenCache
<1>8. CASE CloseLanguages
  <2>1. /\ mem'.langs = mem.done /\ pc' = "open scans" /\ UNCHANGED alive /\ Gone(mem.done)
    BY <1>8 DEF CloseLanguages, Typed, Memory, Fields, Buried
  <2>2. disk'["report"] = disk["report"]
        /\ (disk'["languages"] = disk["languages"] \/ disk'["languages"].data = mem.done)
    BY <1>8 DEF CloseLanguages, Typed, Filed, Files, Whole
  <2> QED BY <2>1, <2>2 DEF Buried, Dead, DeadIsDead, IsWhole
<1>9. CASE OpenCache("open scans", "scans", "scan")
  <2>1. CASE Abort
    BY <1>9, <2>1, <1>c DEF OpenCache
  <2>2. CASE ~Abort
    <3>1. mem'.langs = mem.langs /\ pc' # "languages" /\ UNCHANGED <<alive, disk>>
      BY <1>9, <2>2 DEF OpenCache, Typed, Memory, Fields
    <3> QED BY <3>1, <1>b
  <2> QED BY <2>1, <2>2
<1>10. CASE CloseScans
  BY <1>10, <1>b, <1>d DEF CloseScans
<1>11. CASE Record
  <2> DEFINE r == Min(Todo)
             done == [mem.done EXCEPT ![r] = mem.answers[r]]
             answers == [mem.answers EXCEPT ![r] = "none"]
  <2>1. CASE Abort
    BY <1>11, <2>1, <1>c DEF Record
  <2>2. CASE mem.answers[r] # "failed"
    <3>1. /\ mem' = [mem EXCEPT !.done = done, !.answers[r] = "none", !.recorded = @ + 1]
          /\ pc' = pc /\ pc \in {"languages", "scan"} /\ UNCHANGED alive
          /\ UNCHANGED disk \/ disk' = [disk EXCEPT ![FileOf] = Whole(done)]
      BY <1>11, <2>2 DEF Record
    <3>2. r \in Repos
      BY <1>11, TodoIn DEF Record
    <3> HIDE DEF r
    <3>3. mem'.done = done /\ mem'.answers = answers /\ mem'.langs = mem.langs
      <4> HIDE DEF done
      <4> QED BY <3>1 DEF Typed, Memory, Fields
    <3>4. pc = "languages" => Gone(done) /\ Gone(answers)
      BY <3>2 DEF Buried, Typed, Memory
    <3>5. CASE pc = "languages"
      <4>1. disk'["report"] = disk["report"]
            /\ (disk'["languages"] = disk["languages"] \/ disk'["languages"].data = done)
        BY <3>1, <3>5 DEF FileOf, Typed, Filed, Files, Whole
      <4> QED BY <3>1, <3>3, <3>4, <3>5, <4>1 DEF Buried, Dead, DeadIsDead, IsWhole
    <3>6. CASE pc = "scan"
      <4>1. Calm
        BY <3>1, <3>6, <1>d DEF FileOf
      <4> QED BY <3>1, <3>3, <3>6, <4>1, <1>b
    <3> QED BY <3>1, <3>5, <3>6
  <2> QED BY <1>11, <2>1, <2>2 DEF Record
<1>12. ASSUME NEW r \in Repos, Answer(r) PROVE Buried'
  <2> DEFINE answer == IF pc = "languages" THEN LanguageOf(r) ELSE ScanOf(r)
  <2>1. mem' = [mem EXCEPT !.answers[r] = answer] /\ UNCHANGED <<disk, pc, alive>>
    BY <1>12 DEF Answer
  <2>2. pc = "languages" /\ answer = "__gone__" => r \notin alive
    BY DEF LanguageOf, GivesUp, Typed, Code
  <2> HIDE DEF answer
  <2>3. /\ mem'.answers = [mem.answers EXCEPT ![r] = answer]
        /\ mem'.done = mem.done /\ mem'.langs = mem.langs
    BY <2>1 DEF Typed, Memory, Fields
  <2>4. \A q \in Repos : pc = "languages" /\ mem'.answers[q] = "__gone__" => q \notin alive
    BY <2>2, <2>3 DEF Buried, Typed, Memory
  <2> QED BY <2>1, <2>3, <2>4, <1>a DEF Buried
<1>13. CASE Aggregate
  <2>1. mem' = Idle /\ pc' = "off" /\ UNCHANGED alive
    BY <1>13 DEF Aggregate
  <2>2. CASE UNCHANGED disk
    BY <2>1, <2>2, <1>b DEF Idle
  <2>3. CASE disk' = [disk EXCEPT !["report"] = Whole(Counts(mem))]
    <3> DEFINE dead == {r \in mem.sample : mem.langs[r] = "__gone__"}
    <3>1. disk'["report"].data = Counts(mem) /\ disk'["languages"] = disk["languages"]
      BY <2>3 DEF Typed, Filed, Files, Whole
    <3>2. Counts(mem).dead = Cardinality(dead)
      BY <1>13, CountsAddUp DEF Aggregate, Pooled
    <3>3. dead \subseteq Repos \ alive /\ IsFiniteSet(Repos \ alive)
      BY FS_Subset, EcosystemAssumption DEF EcosystemAssumption, Buried, Typed, Memory
    <3>4. Cardinality(dead) <= Cardinality(Repos \ alive)
      BY <3>3, FS_Subset
    <3>5. Dead'
      BY <2>1, <3>1, <3>2, <3>3, <3>4, FS_CardinalityType, FS_Subset DEF Buried, Dead, DeadIsDead, IsWhole
    <3> QED BY <2>1, <3>5 DEF Buried, Idle, Blank
  <2> QED BY <1>13, <2>2, <2>3 DEF Aggregate
<1>14. CASE Kill
  <2>1. Worn
    BY <1>14, Wearing DEF Typed, Filed
  <2> QED BY <1>14, <2>1, <1>b DEF Kill, Worn, Files, Idle
<1>15. ASSUME NEW f \in Files, Discard(f) PROVE Buried'
  <2>1. Worn
    BY <1>15, Wearing DEF Typed, Filed
  <2> QED BY <1>15, <2>1, <1>b DEF Discard, Worn, Files
<1>16. CASE Disconnect \/ Reconnect \/ HourPasses
  BY <1>16 DEF Disconnect, Reconnect, HourPasses, Buried, Dead, DeadIsDead, IsWhole
<1>17. ASSUME NEW r \in Repos, Vanish(r) PROVE Buried'
  <2>1. alive' = alive \ {r} /\ UNCHANGED <<disk, mem, pc>>
    BY <1>17 DEF Vanish
  <2>2. Cardinality(Repos \ alive) <= Cardinality(Repos \ alive')
    <3>1. IsFiniteSet(Repos \ alive') /\ Repos \ alive \subseteq Repos \ alive'
      BY <2>1, FS_Subset, EcosystemAssumption DEF EcosystemAssumption
    <3> QED BY <3>1, FS_Subset
  <2>3. IsWhole("report") => disk["report"].data.dead <= Cardinality(Repos \ alive')
    <3>1. IsFiniteSet(Repos \ alive) /\ IsFiniteSet(Repos \ alive')
      BY FS_Subset, EcosystemAssumption DEF EcosystemAssumption
    <3>2. Cardinality(Repos \ alive) \in Nat /\ Cardinality(Repos \ alive') \in Nat
      BY <3>1, FS_CardinalityType
    <3> QED BY <2>2, <3>2 DEF Buried, Dead, DeadIsDead
  <2> QED BY <2>1, <2>3 DEF Buried, Dead, DeadIsDead, IsWhole
<1> QED
  BY <1>1, <1>2, <1>3, <1>4, <1>5, <1>6, <1>7, <1>8, <1>9, <1>10, <1>11, <1>12, <1>13, <1>14,
     <1>15, <1>16, <1>17 DEF Next, LaunchAny, Run, Pool

-----------------------------------------------------------------------------
(***************************************************************************)
(* What follows.                                                           *)
(***************************************************************************)

IInv == Typed /\ Crawled /\ Pooled /\ Accounted /\ Buried

\* Nothing is on disk, and nothing in memory, before the first launch.
LEMMA InvInit == Init => IInv
<1> SUFFICES ASSUME Init PROVE IInv
  OBVIOUS
<1>1. /\ pc = "off" /\ mem = Idle /\ \A f \in Files : ~IsWhole(f)
  BY DEF Init, IsWhole, Absent
<1>2. \A r \in Repos : mem.langs[r] # "__gone__"
  BY <1>1 DEF Idle, Blank
<1>3. mem.answers = Blank
  BY <1>1, IdleTyped
<1>4. Crawled
  BY <1>1 DEF Crawled, PopulationWhole, Files
<1>5. Pooled
  BY <1>1, <1>3 DEF Pooled
<1>6. Accounted /\ Buried
  BY <1>1, <1>2 DEF Accounted, ClaimsAddUp, Buried, Dead, DeadIsDead, Files
<1> QED BY <1>4, <1>5, <1>6, TypedInit DEF IInv

\* The invariant holds in every reachable state.
THEOREM Consistency == Spec => []IInv
<1>1. IInv /\ [Next]_vars => IInv'
  BY TypedNext, CrawledNext, PooledNext, AccountedNext, BuriedNext DEF IInv
<1> QED BY <1>1, InvInit, PTL DEF Spec

\* However a crawl is interrupted, what it ends with is the whole registry,
\* for registries of any length and any interval between saves.
THEOREM CrawlIsWhole == Spec => []PopulationWhole
<1>1. IInv => PopulationWhole
  BY DEF IInv, Crawled
<1> QED BY <1>1, Consistency, PTL

\* No report counts as dead what was only out of reach, for any number of
\* outages.
THEOREM OutagesKillNobody == Spec => []DeadIsDead
<1>1. IInv => DeadIsDead
  BY DEF IInv, Buried, Dead
<1> QED BY <1>1, Consistency, PTL

\* Every repository of the sample is counted, once, whatever was interrupted.
THEOREM NobodyIsLost == Spec => []EveryRepoAccounted
<1>1. IInv => EveryRepoAccounted
  BY DEF IInv, Accounted, Pooled, EveryRepoAccounted, Python
<1> QED BY <1>1, Consistency, PTL

\* The claims of the pages add up, for any servers and any shares.
THEOREM PagesAddUp == Spec => []ClaimsAddUp
<1>1. IInv => ClaimsAddUp
  BY DEF IInv, Accounted
<1> QED BY <1>1, Consistency, PTL

\* What a step may do to the files that keep results.
Kept == /\ \A f \in {"languages", "scans"} : IsWhole(f) /\ disk'[f].state = "whole" =>
              \A r \in Repos : disk[f].data[r] # "none" => disk'[f].data[r] = disk[f].data[r]
        /\ \A f \in {"repos", "sample"} : IsWhole(f) => disk'[f] \in {disk[f], Torn}

\* No step asks again what was found out, or draws another sample.
LEMMA KeptNext == IInv /\ [Next]_vars => Kept
<1> SUFFICES ASSUME IInv, [Next]_vars PROVE Kept
  OBVIOUS
<1>a. UNCHANGED disk => Kept
  BY DEF Kept
<1>b. Typed /\ Crawled /\ Pooled
  BY DEF IInv
<1>c. \A f \in {"crawl", "report"} : \A x : disk' = [disk EXCEPT ![f] = Whole(x)] => Kept
  BY <1>b DEF Kept, Typed, Filed, Files
<1>1. CASE CrawlPage
  BY <1>1, <1>a, <1>c DEF CrawlPage
<1>2. CASE SaveRepos
  <2>1. ~IsWhole("repos") /\ \A f \in {"languages", "scans", "sample"} : disk'[f] = disk[f]
    BY <1>2, <1>b DEF SaveRepos, Crawled, Typed, Filed, Files
  <2> QED BY <2>1 DEF Kept
<1>3. CASE DrawSample
  <2>1. CASE IsWhole("sample") /\ disk' = [disk EXCEPT !["sample"] = Whole(disk["sample"].data)]
    <3>1. \A f \in Files : disk'[f] = disk[f]
      BY <2>1, <1>b DEF Typed, Filed, Files
    <3> QED BY <3>1 DEF Kept, Files
  <2>2. CASE ~IsWhole("sample") /\ \E x : disk' = [disk EXCEPT !["sample"] = Whole(x)]
    <3>1. \A f \in {"languages", "scans", "repos"} : disk'[f] = disk[f]
      BY <2>2, <1>b DEF Typed, Filed, Files
    <3> QED BY <2>2, <3>1 DEF Kept
  <2> QED BY <1>3, <2>1, <2>2, <1>a DEF DrawSample, Abort
<1>4. ASSUME NEW f \in {"languages", "scans"}, NEW x, disk' = [disk EXCEPT ![f] = Whole(x)],
             IsWhole(f) => Keeps(disk[f].data, x)
      PROVE  Kept
  <2>1. disk'[f].data = x /\ \A g \in Files \ {f} : disk'[g] = disk[g]
    BY <1>4, <1>b DEF Typed, Filed, Files, Whole
  <2> QED BY <1>4, <2>1 DEF Kept, Keeps, Files
<1>5. CASE CloseLanguages
  <2>1. IsWhole("languages") => Keeps(disk["languages"].data, mem.done)
    BY <1>5, <1>b DEF CloseLanguages, Pooled, FileOf
  <2> QED BY <1>5, <2>1, <1>a, <1>4 DEF CloseLanguages
<1>6. CASE CloseScans
  <2>1. IsWhole("scans") => Keeps(disk["scans"].data, mem.done)
    BY <1>6, <1>b DEF CloseScans, Pooled, FileOf
  <2> QED BY <1>6, <2>1, <1>4 DEF CloseScans
<1>7. CASE Record
  <2> DEFINE r == Min(Todo)
             done == [mem.done EXCEPT ![r] = mem.answers[r]]
  <2>1. UNCHANGED disk \/ disk' = [disk EXCEPT ![FileOf] = Whole(done)]
    BY <1>7 DEF Record, Abort
  <2>2. r \in Repos /\ mem.done[r] = "none"
    BY <1>7, <1>b, TodoIn DEF Record
  <2> HIDE DEF r
  <2>3. FileOf \in {"languages", "scans"} /\ (IsWhole(FileOf) => Keeps(disk[FileOf].data, mem.done))
    BY <1>7, <1>b DEF Record, Pooled, FileOf
  <2>4. IsWhole(FileOf) => Keeps(disk[FileOf].data, done)
    BY <2>2, <2>3, <1>b DEF Keeps, Typed, Memory
  <2> HIDE DEF done
  <2> QED BY <2>1, <2>3, <2>4, <1>a, <1>4
<1>8. CASE Aggregate
  BY <1>8, <1>a, <1>c DEF Aggregate
<1>9. CASE Kill
  <2>1. UNCHANGED disk \/ disk' = [disk EXCEPT ![Target] = Torn]
    BY <1>9 DEF Kill
  <2>2. \A f \in Files : disk'[f] \in {disk[f], Torn}
    <3> HIDE DEF Target
    <3> QED BY <2>1, <1>b DEF Typed, Filed
  <2> QED BY <2>2 DEF Kept, Files, Torn
<1>10. ASSUME NEW f \in Files, Discard(f) PROVE Kept
  <2>1. IsTorn(f) /\ \A g \in Files \ {f} : disk'[g] = disk[g]
    BY <1>10, <1>b DEF Discard, Typed, Filed
  <2>2. \A g \in Files : IsWhole(g) => disk'[g] = disk[g]
    BY <2>1 DEF IsTorn, IsWhole
  <2> QED BY <2>2 DEF Kept, Files
<1>11. UNCHANGED vars \/ LaunchAny \/ CrawlFails \/ (\E r \in Repos : Answer(r)) \/ Disconnect \/ Reconnect
       \/ HourPasses \/ (\E r \in Repos : Vanish(r)) \/ OpenCache("open languages", "languages", "languages")
       \/ OpenCache("open scans", "scans", "scan") => UNCHANGED disk
  BY DEF vars, LaunchAny, Launch, CrawlFails, Answer, Disconnect, Reconnect, HourPasses, Vanish, OpenCache, Abort
<1> QED
  BY <1>a, <1>1, <1>2, <1>3, <1>5, <1>6, <1>7, <1>8, <1>9, <1>10, <1>11 DEF Next, Run, Pool

\* A result that is on disk stays until its file is torn, for pools of any
\* size and any interval between saves.
THEOREM ResultsStay == Spec => DoneStaysDone
<1>1. IInv /\ [Next]_vars => [Kept]_vars
  BY KeptNext
<1> QED BY <1>1, Consistency, PTL DEF Spec, DoneStaysDone, Kept
=============================================================================
