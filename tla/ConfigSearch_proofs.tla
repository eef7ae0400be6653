------------------------ MODULE ConfigSearch_proofs ------------------------
(***************************************************************************)
(* What holds of ConfigSearch for every depth, every content of the config *)
(* files and any number of changes.                                        *)
(***************************************************************************)
EXTENDS ConfigSearch, TLAPS

\* The way up has an end, and edits are counted.
LEMMA Bounds ==
    /\ Depth \in Nat /\ 1 <= Depth /\ MaxEdits \in Nat
    /\ InitialLevels \subseteq Levels
BY SearchAssumption DEF SearchAssumption

\* The parser goes by entries of the file, and warns of such.
LEMMA ParsedEntries ==
    /\ \A E \in SUBSET Entries : Ghosts(E) \in SUBSET Entries
    /\ \A E \in Sayings : InForce(E) \in SUBSET Entries /\ Warned(E) \in SUBSET Entries
BY DEF InForce, Warned, Ghosts, Read, Sayings

\* TypeOK in parts: where the run is, what it has, and the rest.
Place  == /\ root \in 1..Depth /\ at \in root..Depth /\ source \in {0, at}
          /\ edits \in 0..MaxEdits
Things == /\ disk \in [1..Depth -> Levels]
          /\ inForce \in SUBSET Entries /\ warned \in SUBSET Entries
          /\ unread \in BOOLEAN /\ told \in SUBSET Entries
          /\ steady \in SUBSET (1..Depth)
Words  == /\ pc \in {"idle", "pyproject", "open pyproject", "standalone", "open standalone",
                     "ceiling", "validate", "report", "done"}
          /\ form \in Forms \cup {"none"}
Stage  == /\ pc \in {"pyproject", "open pyproject", "standalone", "open standalone", "ceiling"}
                 => source = 0 /\ inForce = {} /\ warned = {} /\ ~unread
          /\ pc \in {"report", "done"} => Ghosts(inForce) = {}
          /\ pc = "done" => form \in Forms /\ told = Told(form)
Typed  == Place /\ Things /\ Words /\ Stage

\* Wherever the run is, there is a level, with documents over the entries.
LEMMA AtLevel ==
    ASSUME Place, Things
    PROVE  /\ at \in 1..Depth
           /\ disk[at].pyproject \in Document /\ disk[at].standalone \in Document
           /\ disk[at].pyproject.says \in Sayings
           /\ disk[at].standalone.says \in Sayings
<1>1. at \in 1..Depth
  BY Bounds DEF Place
<1>2. disk[at] \in Levels
  BY <1>1 DEF Things
<1>3. disk[at] \in [pyproject : Document, standalone : Document, git : BOOLEAN]
  BY <1>2, SearchAssumption DEF SearchAssumption
<1> QED BY <1>1, <1>3 DEF Document

\* The parts are invariant.
LEMMA Typing == Spec => []Typed
<1>1. Init => Typed
  <2> SUFFICES ASSUME Init PROVE Typed
    OBVIOUS
  <2> USE DEF Typed
  <2>1. Place
    BY Bounds DEF Init, Place
  <2>2. Things
    BY Bounds DEF Init, Things
  <2>3. Words /\ Stage
    BY DEF Init, Words, Stage
  <2> QED BY <2>1, <2>2, <2>3
<1>2. ASSUME Typed, [Next]_vars PROVE Typed'
  <2> USE <1>2 DEF Typed
  <2>1. CASE UNCHANGED vars
    BY <2>1 DEF Place, Things, Words, Stage, vars, config, output, Ghosts, Told
  <2>2. ASSUME NEW r \in 1..Depth, Start(r) PROVE Typed'
    <3>1. Place'
      BY <2>2, Bounds DEF Place, Start
    <3>2. Things'
      BY <2>2 DEF Things, Start
    <3>3. Words' /\ Stage'
      BY <2>2 DEF Words, Stage, Start
    <3> QED BY <3>1, <3>2, <3>3
  <2>3. CASE SeekPyproject
    BY <2>3 DEF Place, Things, Words, Stage, SeekPyproject, config, output
  <2>4. CASE OpenPyproject
    <3>1. Place'
      BY <2>4 DEF Place, OpenPyproject, GiveUp, Parse, config, output
    <3>2. Things'
      <4>1. /\ InForce(disk[at].pyproject.says) \in SUBSET Entries
            /\ Warned(disk[at].pyproject.says) \in SUBSET Entries
        BY AtLevel, ParsedEntries
      <4> QED BY <2>4, <4>1 DEF Things, OpenPyproject, GiveUp, Parse, config, output
    <3>3. Words' /\ Stage'
      BY <2>4 DEF Words, Stage, OpenPyproject, GiveUp, Parse, config, output
    <3> QED BY <3>1, <3>2, <3>3
  <2>5. CASE SeekStandalone
    BY <2>5 DEF Place, Things, Words, Stage, SeekStandalone, config, output
  <2>6. CASE OpenStandalone
    <3>1. Place'
      BY <2>6 DEF Place, OpenStandalone, GiveUp, Parse, config, output
    <3>2. Things'
      <4>1. /\ InForce(disk[at].standalone.says) \in SUBSET Entries
            /\ Warned(disk[at].standalone.says) \in SUBSET Entries
        BY AtLevel, ParsedEntries
      <4> QED BY <2>6, <4>1 DEF Things, OpenStandalone, GiveUp, Parse, config, output
    <3>3. Words' /\ Stage'
      BY <2>6 DEF Words, Stage, OpenStandalone, GiveUp, Parse, config, output
    <3> QED BY <3>1, <3>2, <3>3
  <2>7. CASE Climb
    <3>0. source = 0
      BY <2>7 DEF Typed, Stage, Climb
    <3>1. Place'
      BY <2>7, <3>0, Bounds DEF Place, Climb, AtCeiling, Parent, config, output
    <3>2. Things'
      BY <2>7 DEF Things, Climb, config, output
    <3>3. Words' /\ Stage'
      BY <2>7 DEF Words, Stage, Climb, config, output
    <3> QED BY <3>1, <3>2, <3>3
  <2>8. CASE Validate
    <3>1. Place'
      BY <2>8 DEF Place, Validate, output
    <3>2. Things'
      BY <2>8, ParsedEntries DEF Things, Validate, output
    <3>3. Words'
      BY <2>8 DEF Words, Validate, output
    <3>4. Stage'
      BY <2>8 DEF Stage, Validate, Ghosts
    <3> QED BY <3>1, <3>2, <3>3, <3>4
  <2>9. CASE Report
    <3>1. Place' /\ Things'
      BY <2>9 DEF Place, Things, Report, config, Told
    <3>2. Words' /\ Stage'
      BY <2>9 DEF Words, Stage, Report, config, Ghosts, Told
    <3> QED BY <3>1, <3>2
  <2>10. ASSUME NEW l \in 1..Depth, NEW level \in Levels, Edit(l, level) PROVE Typed'
    <3>1. Place'
      BY <2>10, Bounds DEF Place, Edit, config, output
    <3>2. Things'
      BY <2>10 DEF Things, Edit, config, output
    <3>3. Words' /\ Stage'
      BY <2>10 DEF Words, Stage, Edit, config, output, Ghosts, Told
    <3> QED BY <3>1, <3>2, <3>3
  <2> QED BY <2>1, <2>2, <2>3, <2>4, <2>5, <2>6, <2>7, <2>8, <2>9, <2>10 DEF Next, Search
<1> QED BY <1>1, <1>2, PTL DEF Spec

\* Every reachable state is of its type, and no unregistered rule is left among
\* those switched off.
THEOREM TypeCorrect == Spec => []TypeOK
<1>1. Typed => TypeOK
  BY DEF Typed, Place, Things, Words, Stage, TypeOK
<1> QED BY <1>1, Typing, PTL

-----------------------------------------------------------------------------
(***************************************************************************)
(* The inductive invariant.  Of the levels nobody changed, those below the *)
(* run left the question open, and the one it is at is as it has seen it.  *)
(***************************************************************************)
Passed == \A l \in steady : root <= l /\ l < at => ~Decides(disk[l]) /\ ~disk[l].git

Says == Deciding(disk[at]).says

Verdict ==
    IF ~Decides(disk[at])
        THEN source = 0 /\ ~unread /\ (disk[at].git \/ at = Depth)
        ELSE IF Deciding(disk[at]).kind = "toml" THEN source = at /\ ~unread
                                                 ELSE source = 0 /\ unread

Seen ==
    /\ pc = "open pyproject" => disk[at].pyproject.kind # "absent"
    /\ pc \in {"standalone", "open standalone"} => disk[at].pyproject.kind = "absent"
    /\ pc = "open standalone" => disk[at].standalone.kind # "absent"
    /\ pc = "ceiling" => ~Decides(disk[at])
    /\ pc \in {"validate", "report", "done"} => Verdict
    /\ pc = "validate" /\ source = at => inForce = InForce(Says) /\ warned = Warned(Says)
    /\ pc \in {"report", "done"} /\ source = at =>
          /\ inForce = InForce(Says) \ Ghosts(InForce(Says))
          /\ warned = Warned(Says) \cup Ghosts(InForce(Says))

Sighted == Passed /\ (at \in steady => Seen)

\* The inductive invariant holds throughout.
LEMMA Sighting == Spec => []Sighted
<1>1. Init => Sighted
  BY DEF Init, Sighted, Passed
<1>2. ASSUME Typed, Sighted, [Next]_vars PROVE Sighted'
  <2> USE <1>2 DEF Sighted
  <2>0. root \in Nat /\ at \in Nat /\ at \in 1..Depth /\ steady \in SUBSET (1..Depth)
    BY Bounds DEF Typed, Place, Things
  <2>1. CASE UNCHANGED vars
    BY <2>1 DEF Passed, Seen, Verdict, Says, vars, config, output
  <2>2. ASSUME NEW r \in 1..Depth, Start(r) PROVE Sighted'
    <3>1. Passed'
      BY <2>2, Bounds DEF Passed, Start
    <3>2. Seen'
      BY <2>2 DEF Seen, Start
    <3> QED BY <3>1, <3>2
  <2>3. CASE SeekPyproject
    BY <2>3 DEF Passed, Seen, SeekPyproject, config, output
  <2>4. CASE OpenPyproject
    <3>1. Passed'
      BY <2>4 DEF Passed, OpenPyproject
    <3>2. ASSUME at \in steady PROVE Seen'
      <4>1. disk[at].pyproject.kind # "absent"
        BY <2>4, <3>2 DEF Seen, OpenPyproject
      <4>2. at # 0
        BY <2>0
      <4>3. source = 0 /\ ~unread
        BY <2>4 DEF Typed, Stage, OpenPyproject
      <4>4. disk' = disk /\ at' = at /\ Deciding(disk[at]) = disk[at].pyproject
        BY <2>4, <4>1 DEF OpenPyproject, Deciding
      <4>5. CASE disk[at].pyproject.kind \in {"locked", "broken"}
        <5>1. pc' = "validate" /\ source' = 0 /\ unread'
          BY <2>4, <4>3, <4>5 DEF OpenPyproject, GiveUp
        <5>2. Decides(disk[at]) /\ Deciding(disk[at]).kind # "toml"
          BY <4>4, <4>5 DEF Decides
        <5> QED BY <4>2, <4>4, <5>1, <5>2 DEF Seen, Verdict
      <4>6. CASE disk[at].pyproject.kind = "toml" /\ disk[at].pyproject.says # {}
        <5>1. /\ pc' = "validate" /\ source' = at /\ unread' = unread
              /\ inForce' = InForce(disk[at].pyproject.says)
              /\ warned' = Warned(disk[at].pyproject.says)
          BY <2>4, <4>6 DEF OpenPyproject, Parse
        <5>2. Decides(disk[at]) /\ Deciding(disk[at]).kind = "toml"
          BY <4>4, <4>6 DEF Decides
        <5> QED BY <4>3, <4>4, <5>1, <5>2 DEF Seen, Verdict, Says
      <4>7. CASE disk[at].pyproject.kind = "askew"
                 \/ (disk[at].pyproject.kind = "toml" /\ disk[at].pyproject.says = {})
        <5>1. pc' = "ceiling"
          BY <2>4, <4>7 DEF OpenPyproject
        <5>2. ~Decides(disk[at])
          BY <4>7 DEF Decides
        <5> QED BY <4>4, <5>1, <5>2 DEF Seen
      <4>8. disk[at].pyproject.kind \in {"absent", "locked", "broken", "askew", "toml"}
        BY AtLevel DEF Typed, Document
      <4> QED BY <4>1, <4>5, <4>6, <4>7, <4>8
    <3> QED BY <2>4, <3>1, <3>2 DEF OpenPyproject
  <2>5. CASE SeekStandalone
    BY <2>5 DEF Passed, Seen, SeekStandalone, Decides, config, output
  <2>6. CASE OpenStandalone
    <3>1. Passed'
      BY <2>6 DEF Passed, OpenStandalone
    <3>2. ASSUME at \in steady PROVE Seen'
      <4>1. disk[at].pyproject.kind = "absent" /\ disk[at].standalone.kind # "absent"
        BY <2>6, <3>2 DEF Seen, OpenStandalone
      <4>2. at # 0
        BY <2>0
      <4>3. source = 0 /\ ~unread
        BY <2>6 DEF Typed, Stage, OpenStandalone
      <4> QED BY <2>6, <4>1, <4>2, <4>3
              DEF Seen, Verdict, Says, Decides, Deciding, OpenStandalone, GiveUp, Parse
    <3> QED BY <2>6, <3>1, <3>2 DEF OpenStandalone
  <2>7. CASE Climb
    <3>1. source = 0 /\ ~unread
      BY <2>7 DEF Typed, Stage, Climb
    <3>2. at \in steady => ~Decides(disk[at])
      BY <2>7 DEF Seen, Climb
    <3>3. CASE AtCeiling(at)
      <4>1. Passed'
        BY <2>7, <3>3 DEF Passed, Climb
      <4>2. ASSUME at \in steady PROVE Seen'
        <5>1. Verdict'
          BY <2>7, <3>1, <3>2, <3>3, <4>2 DEF Verdict, Climb, AtCeiling, Decides, config
        <5>2. pc' = "validate" /\ source' # at'
          BY <2>0, <2>7, <3>1, <3>3 DEF Climb, config
        <5> QED BY <5>1, <5>2 DEF Seen
      <4>3. at' = at /\ steady' = steady
        BY <2>7, <3>3 DEF Climb
      <4> QED BY <4>1, <4>2, <4>3
    <3>4. CASE ~AtCeiling(at)
      <4>1. at' = at + 1 /\ ~disk[at].git
        BY <2>7, <3>4 DEF Climb, AtCeiling, Parent
      <4>2. ASSUME NEW l \in steady, root <= l, l < at + 1
            PROVE  ~Decides(disk[l]) /\ ~disk[l].git
        <5>1. l < at \/ l = at
          BY <2>0, <4>2
        <5> QED BY <3>2, <4>1, <4>2, <5>1 DEF Passed
      <4>3. Passed'
        BY <2>7, <4>1, <4>2 DEF Passed, Climb
      <4>4. Seen'
        BY <2>7, <3>4 DEF Seen, Climb
      <4> QED BY <4>3, <4>4
    <3> QED BY <3>3, <3>4
  <2>8. CASE Validate
    <3>1. Passed'
      BY <2>8 DEF Passed, Validate
    <3>2. ASSUME at \in steady PROVE Seen'
      <4>1. Verdict'
        BY <2>8, <3>2 DEF Seen, Verdict, Validate
      <4>2. source = at => /\ inForce' = InForce(Says) \ Ghosts(InForce(Says))
                           /\ warned' = Warned(Says) \cup Ghosts(InForce(Says))
        BY <2>8, <3>2 DEF Seen, Validate
      <4>3. Says' = Says /\ source' = source /\ at' = at /\ pc' = "report"
        BY <2>8 DEF Says, Validate
      <4> QED BY <4>1, <4>2, <4>3 DEF Seen
    <3> QED BY <2>8, <3>1, <3>2 DEF Validate
  <2>9. CASE Report
    BY <2>9 DEF Passed, Seen, Verdict, Says, Report, config
  <2>10. ASSUME NEW l \in 1..Depth, NEW level \in Levels, Edit(l, level) PROVE Sighted'
    <3>1. \A k \in steady' : k \in steady /\ disk'[k] = disk[k]
      BY <2>0, <2>10 DEF Edit, Typed, Things
    <3>2. Passed'
      BY <2>10, <3>1 DEF Passed, Edit
    <3>3. ASSUME at \in steady' PROVE Seen'
      <4>1. disk'[at] = disk[at] /\ Seen
        BY <3>1, <3>3
      <4> QED BY <2>10, <4>1 DEF Seen, Verdict, Says, Edit, config
    <3> QED BY <2>10, <3>2, <3>3 DEF Edit
  <2> QED BY <2>1, <2>2, <2>3, <2>4, <2>5, <2>6, <2>7, <2>8, <2>9, <2>10 DEF Next, Search
<1> QED BY <1>1, <1>2, Typing, PTL DEF Spec

\* No file above a repository that stays is ever looked at, whatever changes
\* meanwhile (load_config).
THEOREM StaysInside == Spec => []InsideRepo
<1>1. Typed /\ Sighted => InsideRepo
  <2> SUFFICES ASSUME Typed, Sighted, NEW l \in steady, root <= l, disk[l].git
               PROVE  at <= l
    BY DEF InsideRepo
  <2>1. ~(l < at)
    BY DEF Sighted, Passed
  <2>2. l \in Nat /\ at \in Nat
    BY Bounds DEF Typed, Place, Things
  <2> QED BY <2>1, <2>2
<1> QED BY <1>1, Typing, Sighting, PTL

\* The nearest level that decides is the one obeyed (_load_config_at).
THEOREM NearestIsObeyed == Spec => []NearestDecides
<1>1. Sighted => NearestDecides
  BY DEF Sighted, Passed, Seen, Verdict, NearestDecides
<1> QED BY <1>1, Sighting, PTL

\* Every entry of the file found is in force, told to be not, or without
\* effect, in the outputs that print warnings; but for a falsy ill-typed `skip`
\* or `rules` and for the spelling of include-tests that gives way
\* (_parse_table, _validate_configured_rules, _report_config).
THEOREM NothingIgnoredInSilence == Spec => []EveryEntryAnswered
<1>1. Typed /\ Sighted => EveryEntryAnswered
  <2> SUFFICES ASSUME Typed, Sighted, pc = "done", source \in steady,
                      form \notin {"sarif", "entry", "checklist"},
                      NEW e \in Deciding(disk[source]).says
               PROVE  \/ e \in inForce \/ e \in told
                      \/ e.value = "default" /\ ~\E d \in inForce : SameSetting(d, e)
                      \/ Shrugged(e)
                      \/ Overruled(e, Deciding(disk[source]).says)
    BY DEF EveryEntryAnswered
  <2>1. source = at /\ at \in steady
    BY Bounds DEF Typed, Place, Things
  <2>2. e \in Says
    BY <2>1 DEF Says
  <2>3. /\ inForce = InForce(Says) \ Ghosts(InForce(Says))
        /\ warned = Warned(Says) \cup Ghosts(InForce(Says))
    BY <2>1 DEF Sighted, Seen
  <2>4. told = warned
    <3>1. form \in Forms
      BY DEF Typed, Words, Stage
    <3> QED BY <3>1 DEF Typed, Stage, Forms, Told
  <2>5. Says \in Sayings
    BY AtLevel DEF Typed, Says, Deciding
  <2>6. e \in Entry
    BY <2>2, <2>5, SearchAssumption DEF SearchAssumption, Sayings
  <2>7. CASE e \notin Read(Says)
    BY <2>1, <2>2, <2>7 DEF Read, Overruled, Says
  <2>8. CASE e \in Read(Says) /\ ~Understood(e)
    BY <2>3, <2>4, <2>8 DEF Warned
  <2>9. CASE e \in Read(Says) /\ Understood(e) /\ e.value = "set"
    BY <2>3, <2>4, <2>9 DEF InForce
  <2>10. CASE e \in Read(Says) /\ Understood(e) /\ e.value # "set"
    <3>1. e.value = "default"
      BY <2>10 DEF Understood
    <3>2. ASSUME NEW d \in inForce, SameSetting(d, e) PROVE FALSE
      <4>1. d \in Read(Says) /\ d.value = "set"
        BY <2>3 DEF InForce
      <4>2. d \in Says /\ d # e
        BY <3>1, <4>1 DEF Read
      <4>3. d.table = e.table /\ d.key # e.key
        BY <2>2, <2>5, <3>2, <4>2 DEF SameSetting, Sayings
      <4>4. /\ e.table = "top" /\ d.table = "top"
            /\ \/ d.key = "include-tests" /\ e.key = "include_tests"
               \/ d.key = "include_tests" /\ e.key = "include-tests"
        BY <3>2, <4>3 DEF SameSetting
      <4>5. DashGiven(Says)
        BY <2>2, <4>2, <4>4 DEF DashGiven
      <4> QED BY <2>10, <4>1, <4>4, <4>5 DEF Read
    <3> QED BY <3>1, <3>2
  <2> QED BY <2>7, <2>8, <2>9, <2>10
<1> QED BY <1>1, Typing, Sighting, PTL
=============================================================================
