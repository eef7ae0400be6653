# A TLA+ specification of mcp-migrate

`mcp-migrate` reads an MCP server's source tree, reports what a new protocol
revision breaks (`check`), publishes a grade (`entry`), rewrites what it can
(`fix`), and gates CI and commits on the result. Its repository also keeps a
public board of graded servers, rendered by a workflow, and a scan of the whole
ecosystem. This directory holds TLA+ modules that model those parts, TLC
configurations that check them on small instances, and TLAPS proofs of what
matters most for instances of any size.

Paths below are relative to `src/src/mcp_migrate/` unless they say otherwise.

## 1. The system

| Part | State | Operations | What is hard about it |
|---|---|---|---|
| Scanner (`scan.py`) | the files it loaded: text, language, AST | `load_project` | lists, then reads file by file, while the tree changes; decodes with replacement |
| Rules (`rules/`) | none | `Rule.check` on a per-language view | a report may stand for several matches (first hit in a file, whole tree, silenced by another line) |
| Suppression (`suppress.py`) | directives, and whether each was used | `collect`, `apply`, `unused` | per line and rule; a finding without a line is never suppressed |
| Merge (`overlap.py`) | none | `dedupe` | R007 and R018 describe one fact; the winner hides the other's finding |
| Baseline (`baseline.py`) | a JSON file of finding keys | `load`, `apply`, `write` | counts per key, written in place, matched after edits, pruned by hand |
| Grade (`grade.py`) | none | `score`, `letter` | per rule, capped, cut into letters |
| `check` (`cli.py`) | a run's config, files, survey, SDK verdict, exit code | `cmd_check` | looks at the disk four times; three exit codes that must not be confused |
| Hook (`precommit.py`), `entry` (`cli.py`) | none of their own | `main`, `cmd_entry` | reuse `check`'s parts with other gates and in another order |
| Fixers (`fixers/`), `fix` (`cli.py`) | texts read, texts planned, files written | `run_fix`, `cmd_fix` | fixers chained on one text, line numbers that go stale, files replaced in place |
| Config (`config.py`) | the project's tables, its warnings | `load_config`, `_validate_configured_rules` | found by walking up; obeyed, warned about or ignored in three functions |
| SDK test (`sdk.py`) | none | `detect_sdk` | reads the same manifest a second way |
| Floor test (`sdk.py`, for R010) | none | `declared_mcp_floor` | several manifests, a second reader where the first cannot parse, the highest floor wins |
| Span scanners (`rules/base.py`, `fixers/_textedit.py`) | none | which text is code, string or comment | five scanners over characters, written separately |
| Reports (`suppress.py`, `sarif.py`, `cli.py`) | which ignore comments were used | `unused`, `build`, `_report_suppressions` | a finding about an absence has no line; "unused" invites deletion |
| Registry and its board (`src/scripts/`, `board.yml`) | YAML files and pages on main; runs of a workflow | `validate_registry`, `render_badges`, `render_board`, `render_site`, push | jobs validate and render a checkout while commits land; GitHub may not answer |
| Regrading (`src/scripts/regrade_board.py`) | drifts and problems of a run | `load_entries`, `find_drifts`, patches | per-clone failures must not hide the rest |
| Ecosystem scan (`src/scripts/ecosystem_scan.py`, `render_findings.py`) | a cache file per stage, two thread pools | crawl, sample, languages, scans, aggregate | kills, torn files, outages, refusals and rate limits, repositories that vanish, resuming from caches |

The parts of the tool interact by plain calls inside one process. What is concurrent is outside
it: developers and tools change the tree, the config and the baseline while a
run is under way, a run may be killed at any instant, and runs follow each
other with those files as their only memory. That is why every state machine
here has the disk as state and a run as a sequence of steps between which the
disk may change. The scripts are concurrent themselves: the ecosystem scan has
thread pools and resumes from its own files, and the board's jobs share main
with everybody who pushes to it.

What makes each part correct:

- *Findings and baseline*: the verdict is a comparison of multisets; nothing
  above the bar passes that was not accepted; what is called new or gone is.
- *Check*: exit 0 means checked and clean, exit 1 findings, exit 2 not checked;
  a grade is a claim about the files that were there to be read.
- *Config*: the nearest file that decides is obeyed, nothing outside the
  repository is, and every entry is obeyed or answered.
- *Fix*: never breaks a file, never edits without a reported cause, never adds
  findings, says in its exit code what it declined, settles when repeated.
- *Reports*: every ignore comment is obeyed or answered, deleting those called
  unused changes no verdict, an absence is reported when it is one.
- *Scanners*: a span of comment or string is where the language has it, and
  fixers are told of every line they must leave alone.
- *Board*: what is shown was validated, is what main holds when it is shown, is
  never better than the entry, and catches up with the registry.
- *Ecosystem scan*: the sample comes from the whole registry, a request that was
  given up is not taken for a dead link, every repository is counted once, work is not lost.

## 2. The modules

```
Grading ── Findings ── BaselineGate ── MCBaselineGate     Ratchet (abstract)
   │                     └ BaselineGate_proofs
   ├────── CheckRun ── MCCheckRun
   │          └ CheckRun_proofs
   └────── Fixers ── FixRun ── MCFixRun                   AtomicFix (abstract)
                       └ FixRun_proofs

ConfigSearch ── MCConfigSearch        Manifest ── Report ── MCReport
   └ ConfigSearch_proofs                             └ Report_proofs

Registry ─┬─ Rendering ─┬─ Board ── MCBoard
          └─ Regrade ───┘    └ Board_proofs

Ecosystem ── MCEcosystem              Scanners ── MCScanners
   └ Ecosystem_proofs                    └ Scanners_proofs
```

**Grading** is `_exit_for`, `grade.score` and `grade.letter` as operators.

**Findings** has no variables. A line is what the rules can tell about it plus
the rule ids of its `ignore[...]` comment, which is part of the snippet as in
the code. Rules come in the kinds the code has: one finding per match, first
match in a file (`FirstOnly`), tree-wide without a path (`ProjectRules`),
silenced by another line of the file (`Silences`), and the merged pair
(`OverlapPair`). On top are suppression (`Kept`), the merge (`Dedupe`) and
the baseline as a bag of keys (`Tally`, `KnownFindings`, `StaleEntries`).

**BaselineGate** is `cmd_check` as far as a baseline is concerned: `Invoke` reads
the config, `Scan` runs the rules, `ApplyBaseline` loads and matches,
`OpenBaseline`/`FillBaseline` are the two halves of `write_text`, `Decide`
computes the exit code. `EditTree`, `ToggleRule`, `LoseEntry` and `Kill` are
everybody else. A baseline file is absent, torn (opened and not filled) or
written; `load` treats the first two alike.

**Ratchet** is what a baseline promises with no tree, file or step in sight: a
multiset of accepted debt that a judging run compares with what it saw, that
only shrinks, except where a completed run replaces it by exactly what it saw.
`BaselineGate` implements it under a refinement mapping (`Debt`).

**CheckRun** is a whole command: `Start` (path, config, flags), `ListFiles`,
`ReadFile` per file, `RunRules`, `Survey`, `DetectSdk`, `Finish`, for `check`,
for the hook around it and for `entry`. Files carry a language, whether their
extension is one the scanner reads, whether they look like tests, and the
rules that would fire. Others make files appear, vanish and change permission,
edit the config and rename the package between any two steps. The three output
formats repeat the same branches in the code and share one verdict here;
`--severity` only filters what is displayed and is left out.

**Fixers** gives what a fixer does to a file's lines. A line keeps its place in
the block structure, the rules that report it, the fixers whose pattern matches
it (a fixer's pattern is not its rule's), the ids it suppresses and the fixer
whose TODO it is. A fixer belongs to one of three families: it annotates
(R002, R008, R016, R018, R020), it retires lines into comments (R001, R007,
R009, R011 to R014, R019), or it rewrites them (R003 to R006, R017, R021).
The guards differ from fixer to fixer in the code and are constants here:
block headers, cross-line brackets, sole function bodies, string lines, import
members. Where a line lies in a triple-quoted string or a template literal a comment
marker is text (`Marked`): the retired line still says what it said, and the TODO of a
fixer that names what its rule matches (`Echoing`: R009, R012, R013, R019) is
reported in a template by that rule, because `search_wire` looks into templates. A
quote that nothing closes makes the scanners give up, and their answer is then every
line (`StringLines`, `SoleLines`, `BracketLines`). `Fixed` is one fixer's pass, `Chained` the passes in the order of
`all_fixers`. Stripping an import shifts the lines below it while the bracket
lines were numbered before; `Fixed` keeps that. `Parses` says what `ast.parse`
accepts of such a file: brackets balance, and a header has a deeper block.

**FixRun** is `fix` after `fix`: `Start` and `Select` with their early exits,
`ReadFile`, `Plan` (gate, chain, refusals), `OpenFile`/`FillFile` per file in
order, `Finish`, while others `Save` and `Reconfigure` and a run may be killed.
The set of files is fixed; their contents are not.

**AtomicFix** is what `fix` does to a tree if one leaves out the fixers and the two
halves of `write_text`: a run looks at every file, decides which to replace and by
what, none that is whole by one that is not, and replaces each at once and at most
once. An interrupt may cost one file the run has replaced; every other change is
a save. Saves and interrupts are counted, so a run's own step cannot pass for
one of them. `FixRun` implements it under a mapping (`Shown`) that shows the file
being filled as filled: a save in between is overwritten and changes nothing, and
a kill in between is when the file is lost.

**ConfigSearch** is `load_config` from the folder a run is pointed at to the
filesystem root, then `_validate_configured_rules` and the output. A level holds
a `pyproject.toml`, a standalone file and perhaps a repository. Seeing a file and opening it
are two steps (`SeekPyproject`, `OpenPyproject`, `SeekStandalone`,
`OpenStandalone`), `Climb` tests the ceiling, and `Edit` changes any level in
between. The parser is `InForce` and `Warned` over the set of entries of a file;
an entry is a key and whether its value is the default, something else, of
the wrong type, or of the wrong type and falsy ("blank"). The parser tests the types of
`skip` and `rules` only of values that are true, so it shrugs at `skip = ""`
(`Shrugged`); a section that is no table is passed over ("askew"). `Report` picks the form
of the output, which nothing before depends on, and `Told` is what of the warnings
that form carries: `told` is what the user learns, and what the property speaks of. `CheckRun` and `BaselineGate` take a loaded config as a value:
a run loads it once, at its start.

**Manifest** is `declared_mcp_floor`: which requirements of `pyproject.toml` and
the requirements files count, with and without a parse, and which major version
is the floor. Beside them it says what a requirement means (`Accepts`): which major
versions satisfy all its constraints.

**Report** is a tree that somebody edits (`Write`, `Annotate`), checks with all or
some rules (`Check`) and tidies (`Tidy` deletes the ignore comments called unused).
`Obeyed`, `Problem`, `Used` and `Unused` are the parser and the bookkeeping of
`suppress.py`; `HasRequestHandlers`, `HasDiscover` and `FirstHandlerRegistration`
are R010, whose decision and whose evidence are two searches; `Result` is where a
SARIF result points. R001 stands for the rules that report lines. A check is asked for
some rules and a form of output, and `ReportOf` is what that output carries: problems
only in graded text, unused comments in text and JSON, results in SARIF, neither in
the outputs without a grade. A file that does not parse and one that cannot be
tokenized are two kinds (`Parsed`, `Broken`): the first is searched for calls line by line, in the
second comments count as code as well.

**Scanners** runs the four TypeScript scanners (`_ts_spans` with both of its
settings) in lockstep with a reference automaton over a text that is chosen
character by character. The reference knows comments, strings, templates with
substitutions, and regex literals; it reads without looking ahead, and keeps
the true position; the scanners look at the next character and step over two at
a time, as the code does.

**Registry** is what a registry file may hold, `validate` and `validate_language`; of a
`repo` that is no string neither asks anything (`Untyped`). A file's name may be one the
badge renderer refuses (two dots) or writes the fallback to (`unknown`), which is
`Spelling`.
**Rendering** is the three renderers as operators on a registry. **Regrade** has
`StartRegrade`, `RegradeGroup` (one clone) and `EndRegrade`. **Board** composes
them: `Edit`, `Upgrade`, `Patch` and `Elsewhere` land on main, the first three on paths
the workflow watches; a runner takes a queued run and checks out main
(`Start`), validates file by file (`ValidateFile`), renders (`Render`), and commits
and pushes, which main rejects if its head has moved (`Push`); `Toggle` is
GitHub going and coming. The printed patches of a regrade come back as a push.

**Ecosystem** is a run from its launch, which skips the crawl if the population is
cached, to the report: `Launch`, `CrawlPage`, `SaveRepos`, `DrawSample`, the two pools (`Answer` by a thread,
`Record` in the order they were fed, a save every `SaveEvery` rows), `Aggregate`, and the
figures of the rendered page (`Claims`). `_get` gives up on one request (`GivesUp`) when
the network is away, when GitHub's allowance for the hour is used up (`left`, renewed by
`HourPasses`), or on a repository it refuses to answer for, for good ("barred"). A refusal of one
request that passes is an outage that begins before that answer and ends after it. The
registry itself does not change. `Kill` ends a run at any step, `disk` files are
absent, torn or whole, `Discard` is somebody deleting a torn file, on which
every later launch fails.

## 3. The runs

| Run | Checks | States | Shows |
|---|---|---|---|
| `baseline_gate` | `TypeOK`, `VerdictIsExcess`, `NothingSlipsThrough`, `NewIsNewCode`, `GoneIsGone`, `ImplementsRatchet` | 725,263 | writes, checks, kills, edits, config switches and hand pruning in any order keep the gate right |
| `check_run` | `TypeOK`, `CleanMeansClean`, `RefusalMeansUnread`, `AMeansClean`, `EntryIsNarrower` | 2,221,998 | exit codes and grades are claims about every file there was to read |
| `fix_run` | `TypeOK`, `NothingBroken`, `OnlyFlagged`, `ExitTellsAll`, `NeverWorse`, `ImplementsAtomicFix` | 379,969 | no file is broken or edited without cause, none gets new findings but for TODOs inside a template; the exit code is honest; files are as good as replaced at once |
| `config_search` | `TypeOK`, `InsideRepo`, `NearestDecides`, `EveryEntryAnswered`, `SearchEnds` | 865,382 | the config obeyed is the nearest that decides, inside the repository; every entry is answered by the outputs that print warnings, but for falsy values of the wrong type; the search ends |
| `report` | `TidyKeepsVerdict`, `DirectivesAccounted`, `DiscoverHonest` | 1,024,772 | deleting what was called unused is safe; graded text answers every separated ignore comment, JSON every obeyed one; R010's decision agrees with its evidence and with what a declared floor means, optional extras and unreadable requirements aside |
| `scanners` | `SpansHonest`, `FixersKeepOut` | 2,610,830 | spans are exact in texts without a continued string and without a regex or a substitution that misleads the scanners; the fixers' scanners know every comment, every line of an open bracket or template, and when not to be relied on |
| `board` | `NoBlipConvicts`, `OnlyHonestListed`, `BadgesHonest`, `PagesCount`, `EveryEntryJudged`, `PushIsCurrent`, `Settles` | 250,984 | what main shows was validated and, while GitHub answers, honest but for a `repo` that is no string; it is current when pushed, and catches up |
| `ecosystem` | `PopulationWhole`, `DeadIsDead`, `EveryRepoAccounted`, `ClaimsAddUp`, `DoneStaysDone`, `Arrives` | 627,746 | kills, outages, refusals and resuming lose nothing and invent nothing, and a report is reached unless the sample holds what no launch gets past |
| `fixing_never_blocks` | violates `FixingNeverBlocks` | | deleting the winner of a merged pair surfaces its partner as new |
| `settle` | violates `FixersSettle` | | two fixers that annotate one line add their TODOs again on every run |
| `continuation` | violates `SpansExact` | | after a string continued over a line every span is one line off |
| `silent_directive` | violates `DirectivesAnswered` | | an ignore comment with an unseparated reason is neither obeyed nor mentioned |

A run that violates its property compares a sentence of the documentation, a
comment or a test with what the code does; `PROJECT.json` quotes both.

**Bounds.** `baseline_gate`: two files of at most two lines, one below a
subdirectory, five rules that cover every kind, two edits. Two lines are what
a merge, a first-hit rule, a silencing line and a duplicate key need; two edits
are what fix-then-rewrite and prune-then-restore need. Runs are not bounded.
`check_run`: six files, one of each sort the gates tell apart (graded,
partial, generated, unsupported, stub, test), starting from every tree of one
or two of them and from all six, two changes during or between runs: a race
between two of a run's looks at the disk takes one, and undoing it the second.
`fix_run`: five fixers, two or three for each guard, over pairs of shapes that
exercise every form of line, with a TypeScript file beside them; a writing run
starts on files of at most six lines (`MaxLines`), because TODOs may pile up
without end; one save and one kill. `config_search`: three folders (above,
at and below the project), which is what passing over one and stopping at the
next needs; seven things a folder may hold at first and forty-eight after an edit; one
edit, because a level that changed is exempt and the rest must hold regardless.
The theorems cover any depth and any number of edits.
`report`: a Python and a TypeScript file of two lines, three edits (a handler, what
silences it, a comment), seven manifests that differ in which reader and which
place a floor comes from, five commands that between them ask for every form of
output and for all, one or the other rule. `scanners`: every text of two lines of at most four
characters, out of ten kinds, with two brackets open at a time; each pair of
characters a scanner looks at fits into a line with something before and after
it, and a second line is what a template, a pair of brackets or a continued
string needs. `board`: two files, one of them named `unknown`, that may share a repository (a name
with two dots occurs only in the theorems), two
runners (one to lose its push to the other), two watched pushes, one elsewhere,
one outage, one regrade. `ecosystem`: four repositories on three pages, one on two of
them, every cadence 2, two threads, one kill, one outage, one repository that
vanishes, two seeds with a sample of three each, three answers an hour, three worlds;
in two of them one seed's sample holds what no launch gets past (an SDK next to a
server, a repository that is barred) and the other's does not, and a relaunch in the
same hour runs into the rate limit; a cadence of two over three pages leaves a page unsaved, which is
what a crawl that is resumed must not miss. Every action of every `Next` occurs
in these runs. `scanners` and `board` may stop: at the end of the text, and when all that
the bounds allow has been pushed and shown.

**Fairness.** `ConfigSearch` assumes weak fairness of the steps of a search: they
are the statements of one process that waits for nobody, so as long as it is scheduled
one of them is taken. Starting a run and editing are not fair. `SearchEnds`
needs it, and fails without the test for the filesystem root although the steps
are fair. `Board` assumes weak fairness of the jobs together: GitHub starts what is queued and runs what
it started; nobody has to push, regrade, or bring GitHub back, without which
language checks pass. That a job ends is assumed with it: one that `pip install` or the
runner's network fails, and nobody runs again, would leave the pages behind. `Settles` needs that, and says that nothing was
pushed elsewhere: such a push makes main reject the one rendering, and starts none
itself. `Ecosystem` assumes weak fairness of a run's own steps, of launching again
and of the network's return, and strong fairness of somebody deleting a torn
file and of waiting out an hour between launches: kills are bounded, but a launch that
fails on a torn file or a spent allowance disables the remedy again and again. The other specifications have the form
`Init /\ [][Next]_vars` and their properties are safety properties: their loops run over a list made
beforehand, nothing waits or retries, a kill may stop any run, and a run that
is never scheduled again breaks none of the properties.

**What the properties exempt.** In `CheckRun`, files that were created, removed
or re-permissioned during a run (`steady` is the rest); in `FixRun`, files
somebody saved after the run read them (`touched`); in `ConfigSearch`, levels
that changed during a search, one by one. The code promises nothing
about those: `fix --write` overwrites such a save.
`EveryEntryAnswered` exempts an entry when another speaks of the same setting:
of `include-tests` and `include_tests` the first wins without a word. It also exempts a falsy
`skip` or `rules` of the wrong type (`Shrugged`) and the outputs that print no
warnings: SARIF, `entry`, and the checklist of an SDK. All three are in section 5.
`NeverWorse` does not count a TODO in a template literal that repeats what its rule
matches (`Echo`), and lets a project-wide rule start to report a tree if a line that
answered it is one a retiring fixer matches.
`NewIsNewCode` and `GoneIsGone` exempt rules whose report stands for several
matches (`Representative`); `fixing_never_blocks` shows why that is needed.
Runs of `BaselineGate` over another root than the baseline's are exempt, and in
`Scanners` texts with a continued string, which `continuation` is about, and texts in which
a regex literal or a substitution holds a quote, a backtick or what begins a comment
(`misled`): no scanner knows either. The lines of brackets exempt a regex that holds one
(`bracketed`), those of templates a backtick in a comment or a string (`stray`).
`DirectivesAccounted` asks of graded text that every comment with a separated reason is
answered, of JSON that every obeyed one is, of the other outputs only that nothing is
suppressed without a comment; `silent_directive` is about unseparated reasons.
`DiscoverHonest` asks for a report only where the manifest is read as it is meant
(`ReadAsMeant`), has no optional extra (`NothingOptional`) and has a bound
(`Bounded`). `OnlyHonestListed` is about histories in which
GitHub always answered, as an entry let through during an outage stays, and exempts an
entry whose `repo` is no string; `BadgesHonest` exempts the badge of a name the renderer
refuses or overwrites. `Arrives` exempts runs whose sample, from some moment on, is
`Hopeless`: it holds a repository that is there and that GitHub never answers for, or an
SDK next to another scannable repository (its row has no score, and `aggregate`
raises a TypeError), or more repositories than the API answers for in an hour. TLC
finds a run that never arrives if either of the first two is struck out.

Operators marked as mutants in a comment are plausible bugs (a set for a multiset, a
dropped guard, an off-by-one). Each checked property fails when its operator
is replaced by the mutant.

## 4. The proofs

The theorems hold for every tree, rule set, command line, config, registry and
bound that satisfies the modules' named assumptions (`GradingAssumption`,
`FindingsAssumption`, `GateAssumption`, `CheckAssumption`, `FixersAssumption`,
`FixAssumption`, `SearchAssumption`, `ReportAssumption`, `EcosystemAssumption`,
`RegistryAssumption`, `RegradeAssumption`, `BoardAssumption`, `ScannersAssumption`); TLC
evaluates them in each passing run. `BoardAssumption` supposes that main holds honest
entries at first; `RegradeAssumption` only types what the scanner may say.

**BaselineGate_proofs.** About the operators of `Findings`: `NewIsExcess`: matching findings in line order against a
bag of entries leaves a finding over exactly when a key occurs more often than
the bag holds it. `OneFindingPerMatch`: outside the merged pair and the
first-hit rules, findings per key are unsuppressed matches per key.
`MergeKeepsOne`: of each merged group exactly one finding is left, and none of the
group was of a more severe rule. That there is a winner is the least member of ranks, lines and
orders one after another; that there is one only needs that a rule has one match
per place, and so that two files below a root differ in their relative
path (`RelativeApart`). `MergeKeepsVerdict`: hence the merge never changes an exit code.

About the gate: `Consistent` is the inductive invariant: entries on
disk record one scan of one config (`EntriesFaithful`, `ScanFaithful`), a run
judges with what is on disk until it opens the file itself (`BasisOnDisk`),
and its lists and exit code are functions of one scan and one reading
(`Matched`, `Decided`). The properties alone are not inductive: they speak of the end
of a run and need to know where the bag on disk came from. From it follow
`VerdictCorrect`, `GateSound`, `NewSound`, `StaleSound`, and with `TypeCorrect`
the refinement `GateIsARatchet`, one `Ratchet` step or stutter per action.

**CheckRun_proofs.** The inductive invariant says that a file nobody disturbed
never falls between list and reading (`NothingMissed`), that what was found is
the report of what was read (`Scanned`), and that the outcome is that of the
run's own readings (`Concluded`). `CleanExit`, `RefusalHonest`, `AIsEarned` and
`EntryStands` follow; `AIsEarned` also needs that a rule above advisory costs
more than the five points an A leaves (`ALeavesAdvisory`).

**FixRun_proofs.** The inductive invariant says that a file nobody saved is, by
where the run is in its queue, as read or as planned (`Snapshot`, `Progress`),
that the plan is the chain of the fixers on what was read (`Planned`), and that
files emptied and not filled are at most the kills and the one in hand
(`Spared`). `NeverBreaks`, `ExitIsHonest` and `KillsCostOne` (`OneFilePerKill`;
of the tree itself the refinement below says it, which the run checks) follow without
looking into any fixer: they hold for whatever the fixers do. `ChangesAreFlagged`
needs one fact about them, that an empty chain changes nothing (`ChainedNone`).
`TypesHold` and `NothingGetsWorse` do look into them. `Stripped`, `Fixed` and `Chained` are
recursive functions; `UpTo` (from the least counterexample) stands for
induction over their steps, and `StepsExist` and `StepsStay` say that a function
defined step by step exists and has the values its steps have. What is
carried along the steps (`NoWorse`): echoes aside, no rule has more findings in
the text a step leaves than in the one it was given, none has a cause there that
had none (`Causes`), and a line that answers a project-wide rule still stands
unless a retiring fixer matches it (`Stands`). Line by line, what a fixer puts for a line is one
line that no more rules report among lines none does (`Mild`, `FixedLineMild`), and
texts put together from such pieces are no worse than what they stand for
(`PiecesNoWorse`); none of it supposes that a string lies where its author meant it.
`FixIsAtomic` is the refinement of `AtomicFix`: `OpenFile` is its `Replace`, `FillFile` a stutter, and
a kill in between its `Interrupt`; it needs `Planned` (what is in the queue was
decided, and by what it is replaced) and that a queue exists only while a run writes (`Shaped`).

**ConfigSearch_proofs.** The properties speak of the end of a search; the
inductive invariant (`Sighted`) says on the way that levels left behind and
unchanged decided nothing and held no repository (`Passed`), and that the level
the run is at, if unchanged, is as the step it has come to supposes (`Seen`): there is
a file to open, or there was none to be found, or what was parsed is what it
says. `StaysInside`, `NearestIsObeyed` and `NothingIgnoredInSilence` follow; the last
speaks of what the user was told, so it also needs which form of output carries warnings.

**Report_proofs.** The inductive invariant says that a report still on screen has
all its parts (`Whole`), and that they are what its rules find and suppress in
the tree as it stands; only the problems may have become fewer (`Current`).
The properties compare a report with the tree and need to know that nothing
but unused comments has changed since. `TidyIsSafe`, `NoneIsSilent` and `DiscoverIsHonest`
follow: `NoneIsSilent` form by form, as the outputs carry different parts;
`DiscoverIsHonest` also from the fact that a handler R010 decides on is one its second search finds,
and from two lemmas on manifests. A floor below 2 means that an SDK below 2 may be
installed (`FloorMeansAccepts`), and the converse holds where the manifest is read as it
is meant, has a bound and no optional extra (`AcceptsMeansFloor`).

**Ecosystem_proofs.** `Consistency` has five parts: the types of what is in memory
and on disk (`Typed`); a crawl holds every page before its cursor, on disk and in
memory (`Crawled`); threads hold answers for what is still to be recorded, what is
on disk was loaded, and no stage is left before it has a row for all it asks
about (`Pooled`); counts and claims are those of what
was recorded (`Accounted`); a repository that any file, memory or thread holds for gone
is gone (`Buried`). `CrawlIsWhole`, `OutagesKillNobody`, `NobodyIsLost` and
`PagesAddUp` follow (a share is at most the whole because what is counted is part of
what is divided by, and of three classes each repository is in one: `PctAtMost`, `ThreeClasses`),
whatever requests are refused or put off, and from the invariant the action property `ResultsStay`: what a row says
stays until its file is torn.

**Board_proofs.** The inductive invariant says that the pages render a registry
that passed (`PagesAre`), that a job which checked out the head main still has
has main's registry, and that what it looked at passed or is not honest (`JobSound`);
that a regrade tells about all it has left behind (`RegradeSound`). The properties speak of pages and of ends,
and the head is what connects the two: whatever changes main moves it (`Moves`), so a push that is
not rejected pushes what main holds. `BlipsConvictNobody`, `ListedIsHonest`,
`BadgesStayHonest` (with `WorstWins`: the badge of a repository is that of the worst of its entries), `NobodyIsSkipped` and
`PushedIsCurrent` follow, for any number of files, repositories and runners.
`PagesAddUp` (`PagesCount`): a page has one row per entry, in the order of the
code, and the counts of its headline are those of its rows. The place of a row is
how many entries come before it, so that there is such an order needs no
induction: the places of a finite set under a strict total order are all of
`1..n`, because no two entries share one.

**Scanners_proofs.** The scanners and the reference move in lockstep, but the
reference reads one character at a time and the scanners look at two. The
inductive invariant `ScannersInv` (`ScannersKept`) says that each scanner's whole state is a function of
the reference and of the next character (`SpansOf`, `StrictOf`, `TemplateOf`): a
scanner that stepped over the first of two characters is ahead by one, and nowhere
else. `SpansKept` is this for `search_code` and `search_wire`, `CommentsKept`, `BracketsKept` and
`TemplatesKept` for the three that serve the fixers, which may also have given up, and then have reason
to; `TextRead` is what the reference keeps. The properties alone are not inductive: they
speak of spans that are complete, and of lines once the text is read. TLC checked the invariant on
the bounds of `scanners` before it was proved. The scanners are compared with the
reference as one that knows neither regex literals nor substitutions would read
(`Flat`); that the two readings agree (`PlainSound`, `ReadPlainly`) is proved for every text that does
not mislead. `EverySpanHonest` and
`FixersAreKeptOut` follow for texts of any number and length of lines.

**Model-checked only.** Liveness under fairness, which the prover does not
reason about: `ConfigSearch!SearchEnds`, `Ecosystem!Arrives`, `Board!Settles`. Every
other property of a passing run is stated by a theorem. The violated properties are
counterexamples and have nothing to prove.

## 5. Known divergences

Besides the four runs that violate a property, modelling met these. They are
not run, because the model would only restate the line.

- A repository's baseline matches nothing when a subdirectory is checked: entries
  are keyed relative to the scanned root (`cli.py:703`).
- With every rule off, a tree with unread languages exits 0 (`cli.py:489`).
- The language survey counts `.pyi` and `.d.ts` files that no scan reads
  (`languages.py:46`).
- Once a file has a real finding, R009's fixer edits its pattern inside strings too.
  In a TypeScript template literal the `TODO` of R009, R012, R013 or R019 is text that names
  what the rule looks for (`r009_initialize_handshake_removed.py:25-29`), hence a new finding;
  `fix_run` exempts just that.
- `fix --write` turns CRLF into LF and undecodable bytes into replacement
  characters, and the diff does not show it (`cli.py:1405`).
- A setting that did not take effect leaves the grade different "with no output that differs to reveal it",
  hence the warnings (`config.py:132-138`). But `entry` (`cli.py:1487`) publishes a grade and prints none
  of them, nor do SARIF and the checklist of an SDK;
  `skip = ""` and `rules = false` are dropped without a warning (`config.py:93,124`), and so is a
  section that is no table, after which the standalone file is not looked at (`203-207`).
- No output but graded text names a problem of a directive, and only text and JSON the
  unused ones (`cli.py:1003-1005`), though `suppress.py:80` says of problems "Reported, never silently
  dropped" and `cli.py:392-396` that CI is who reads unused ones.
- A baseline that is not UTF-8 ends in a traceback (`baseline.py:122`).
- `is_sdk` is obeyed by `detect_sdk` (`sdk.py:70`) and called unknown by `config.py`.
- A run with some of the rules calls the directives of the others unused (`cli.py:533`).
- The floor test reads only the first constraint of a requirement, so `<3,>=2` has
  no floor; poetry's table is not seen in a file that cannot be parsed; the floor of an optional
  extra silences R010 for the installation without it.
- "It fails toward *fewer* findings, never toward a false one" (`base.py:282-283`, of a regex with
  a quote): in `/"/.test(s) ? "Mcp-Session-Id" : 0` the phantom string ends where the real one
  begins, and what the real one holds is searched as code. A template counts as one string
  with the code of its substitutions.
- `string_lines` and `comment_lines` read `.mts`, `.cts`, `.mjs` and `.cjs` as Python
  (`_textedit.py:306,334`). Before Python 3.12 the tokenizer accepts a `)` with its `(` below.
- A form feed or U+2028 ends a line for `splitlines`, not for the scanners; a
  backtick in a comment starts a template for `_ts_string_lines`.
- Ecosystem scan: an outage during `languages` aborts the launch, one during `scan`
  does not ("a dropped connection costs one stage", `ecosystem_scan.py:18-19`), but a
  clone that failed for it is cached as an error and never tried again; another `--seed` is recorded although the cached sample is the first
  seed's; a torn cache file fails every launch until deleted; the row of an SDK raises in
  the median; a repository GitHub refuses for good (403, 451, a lasting 5xx) aborts every launch at the same
  place; without a token, 60 answers an hour never reach the save after 100 rows (`146`), so
  no launch gets further than the last, where line 136 promises that it "will crawl".
- Board: the badge of several servers bears the version of the first; a name with two dots,
  which `validate` accepts (`validate_registry.py:156`), has no badge (`render_badges.py:199`); an entry named `unknown` is overwritten by the
  fallback (`229`); an entry whose `repo` is no string, `42`, is listed: `validate` (`152`) tests strings only and
  `validate_language` leaves it to the schema pass, which "already reported this" (`87-88`); one entry without a sha stops the regrade for all; the site does
  not say which rules an entry had switched off; regrading has neither `check`'s SDK test
  nor its language gate; a push elsewhere can leave the pages behind.

## 6. Not modelled

- The matching of individual rules but R010 (regular expressions over spans). A
  rule is what its kind makes of marks on lines. R001's scan of template
  interpolations (`_ts_subscript_code`) is among it.
- The Python scanners: they hand the text to `tokenize`.
- How R003 to R006, R016 and R021 rewrite what they match. Their result is a line
  that neither the rule nor the fixer matches.
- Imports over several lines: `strip_import_members` is modelled on one-line
  imports; blank lines are left out. A rule's report of a line depends on that line only, and
  the line that opens a multi-line template is not one a fixer comments out.
- The count of findings `fix` prints at the end. It ignores suppression and the
  merge, so it can announce work where `check` grades A; a printed number only.
- `fix` on unreadable files, skipped directories and tests: as in `CheckRun`.
- In `ConfigSearch`: reasons given with `off`, the wording of hints, the second
  spelling of the section where both are there, letter case of rule ids, and the
  path a configured `baseline` is resolved to.
- How `detect_sdk` finds names in manifests (`CheckRun` has its verdict), and the
  patterns by which R010 recognizes a handler (`Report` has their verdicts line by line).
- Changes of the registry while the ecosystem scan crawls it.
- Levels, descriptors and layout of SARIF and JSON, HTML and colours of the pages:
  formatting of what the models determine. The prevalence table of the findings
  page is the same kind of count as those in `Ecosystem`.
- `benchmark.py` keeps no state; `action.yml` is one call of `check`.

## 7. Plan

1. **Proofs**: that a written `TODO` is never lost by a later fixer; how far the board's
   pages can be behind main, as an abstract specification that `Board` implements;
   the ecosystem scan as an atomic scan that kills only delay.
2. **Scores over time**: suppressing or fixing the winner of a merged pair, and
   what that does to the grade.
3. **Baseline and unreadable trees**: `--write-baseline` on a tree that could not
   be read composes `BaselineGate` with `CheckRun`.
4. **The revision in `entry`**, which is read after the scan.
5. **R001's interpolations** beside `Scanners`; **multi-line imports and the rewriting
   fixers** in `Fixers`, where three families are too coarse.
