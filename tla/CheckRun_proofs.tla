-------------------------- MODULE CheckRun_proofs --------------------------
(***************************************************************************)
(* What holds of CheckRun for every tree, config, rule set and command.    *)
(***************************************************************************)
EXTENDS CheckRun, FiniteSetTheorems, TLAPS

-----------------------------------------------------------------------------
(***************************************************************************)
(* Grading.                                                                *)
(***************************************************************************)

\* The number of rules of one severity that fired is a natural number, and
\* at least one once one of them did.
LEMMA FiredCount ==
    ASSUME NEW F, \A x \in F : x.rule \in Rules, NEW s
    PROVE  /\ Cardinality(Fired(F, s)) \in Nat
           /\ \A x \in F : Severity[x.rule] = s => Cardinality(Fired(F, s)) >= 1
<1>1. IsFiniteSet(Fired(F, s))
  <2>1. Fired(F, s) \in SUBSET Rules
    BY DEF Fired
  <2> QED BY <2>1, FS_Subset, GradingAssumption DEF GradingAssumption
<1>2. Cardinality(Fired(F, s)) \in Nat
  BY <1>1, FS_CardinalityType
<1>3. ASSUME NEW x \in F, Severity[x.rule] = s
      PROVE  Cardinality(Fired(F, s)) >= 1
  <2>1. x.rule \in Fired(F, s)
    BY <1>3 DEF Fired
  <2>2. Cardinality(Fired(F, s)) # 0
    BY <2>1, <1>1, FS_EmptySet
  <2> QED BY <2>2, <1>2
<1> QED BY <1>2, <1>3

\* A score is a natural number, and its letter one of the five.
LEMMA GradeType ==
    ASSUME NEW F, \A x \in F : x.rule \in Rules
    PROVE  Score(F) \in Nat /\ Letter(Score(F)) \in Letters
<1> DEFINE b == Cardinality(Fired(F, "breaking"))
           d == Cardinality(Fired(F, "deprecated"))
           a == Cardinality(Fired(F, "advisory"))
<1>1. b \in Nat /\ d \in Nat /\ a \in Nat
  BY FiredCount
<1>2. Penalty(F) = 25 * b + 8 * d + 3 * a
  BY DEF Penalty, Weight
<1> HIDE DEF b, d, a
<1>3. Penalty(F) \in Nat
  BY <1>1, <1>2
<1>4. Score(F) \in Nat
  BY <1>3 DEF Score
<1>5. Letter(Score(F)) \in Letters
  BY Zenon DEF Letter, Letters
<1> QED BY <1>4, <1>5

\* An A leaves room for advisory rules only.
LEMMA ALeavesAdvisory ==
    ASSUME NEW F, \A x \in F : x.rule \in Rules, Letter(Score(F)) = "A"
    PROVE  \A x \in F : Severity[x.rule] = "advisory"
<1> DEFINE b == Cardinality(Fired(F, "breaking"))
           d == Cardinality(Fired(F, "deprecated"))
           a == Cardinality(Fired(F, "advisory"))
<1>1. b \in Nat /\ d \in Nat /\ a \in Nat
  BY FiredCount
<1>2. Penalty(F) = 25 * b + 8 * d + 3 * a
  BY DEF Penalty, Weight
<1>3. \A x \in F : Severity[x.rule] = "breaking" => b >= 1
  BY FiredCount
<1>4. \A x \in F : Severity[x.rule] = "deprecated" => d >= 1
  BY FiredCount
<1> HIDE DEF b, d, a
<1>5. Score(F) >= 95
  BY Zenon DEF Letter
<1>6. b = 0 /\ d = 0
  <2>1. Penalty(F) \in Nat
    BY <1>1, <1>2
  <2>2. Penalty(F) <= 5
    BY <2>1, <1>5 DEF Score
  <2> QED BY <2>2, <1>1, <1>2
<1>7. \A x \in F : Severity[x.rule] \in Severities
  BY GradingAssumption DEF GradingAssumption
<1> QED BY <1>3, <1>4, <1>6, <1>7 DEF Severities

-----------------------------------------------------------------------------
(***************************************************************************)
(* Type correctness.                                                       *)
(***************************************************************************)


\* The rules a command runs are rules, and their languages are languages.
LEMMA ActiveType ==
    ASSUME cmd \in Command
    PROVE  Active \in SUBSET Rules /\ UNION {Declares[r] : r \in Active} \in SUBSET Languages
<1>1. Active \in SUBSET Rules
  BY DEF Active, Command
<1>2. \A r \in Active : Declares[r] \in SUBSET Languages
  BY <1>1, CheckAssumption DEF CheckAssumption
<1> QED BY <1>1, <1>2

\* The findings of a set of files name rules and files.
LEMMA ReportType ==
    ASSUME cmd \in Command, NEW F \in SUBSET Files
    PROVE  Report(F) \in SUBSET [rule : Rules, file : Files]
<1>1. Active \in SUBSET Rules
  BY ActiveType
<1>2. ASSUME NEW x \in [rule : Active, file : F]
      PROVE  x \in [rule : Rules, file : Files]
  BY <1>1, <1>2
<1> QED BY <1>2 DEF Report

\* Files per language are counted by a natural number.
LEMMA SurveyType ==
    ASSUME NEW T \in SUBSET Files
    PROVE  Cardinality(T) \in Nat
<1>1. IsFiniteSet(Files)
  BY FS_Interval, CheckAssumption DEF CheckAssumption, Files
<1> QED BY <1>1, FS_Subset, FS_CardinalityType

\* What a run concludes is an exit code and a letter or none.
LEMMA OutcomeType ==
    ASSUME TypeOK
    PROVE  Outcome.exit \in 0..2 /\ Outcome.grade \in Letters \cup {NoGrade}
<1>1. \A F : ExitFor(F, cmd.failOn) \in 0..1
  BY DEF ExitFor
<1>2. CheckExit \in 0..2
  BY <1>1 DEF CheckExit
<1>3. \A x \in findings : x.rule \in Rules
  BY DEF TypeOK
<1>4. Letter(Score(findings)) \in Letters
  BY <1>3, GradeType
<1>5. CheckGrade \in Letters \cup {NoGrade}
  BY <1>4 DEF CheckGrade
<1> HIDE DEF CheckExit, CheckGrade
<1> QED BY <1>2, <1>4, <1>5 DEF Outcome

\* An initial state is typed.
LEMMA TypeInit == Init => TypeOK
<1> SUFFICES ASSUME Init PROVE TypeOK
  OBVIOUS
<1>1. counts \in [Languages -> Nat]
  BY DEF Init, NoCounts
<1>2. conf \in Config /\ tree \in SUBSET Files
  BY CheckAssumption DEF CheckAssumption, Init
<1>3. NoCommand \in Command /\ MaxEdits \in Nat
  BY CheckAssumption DEF CheckAssumption
<1>4. edits \in 0..MaxEdits
  BY <1>3 DEF Init
<1>5. cmd \in Command /\ cfg \in Config
  BY <1>2, <1>3 DEF Init
<1>6. /\ locked = {} /\ todo = {} /\ loaded = {} /\ checked = {} /\ findings = {}
      /\ steady = {} /\ sdk = FALSE /\ isSdk = FALSE /\ exit = 0 /\ grade = NoGrade
      /\ pc = "idle"
  BY DEF Init
<1>7. /\ locked \in SUBSET Files /\ todo \in SUBSET Files /\ loaded \in SUBSET Files
      /\ steady \in SUBSET Files /\ checked \in SUBSET Languages
  BY <1>6
<1>8. findings \in SUBSET [rule : Rules, file : Files]
  BY <1>6
<1>9. exit \in 0..2 /\ grade \in Letters \cup {NoGrade}
  BY <1>6
<1>11. sdk \in BOOLEAN /\ isSdk \in BOOLEAN
  BY Zenon, <1>6
<1>10. pc \in {"idle", "listing", "reading", "surveying", "classifying", "reporting", "done"}
  BY <1>6
<1> QED BY <1>1, <1>2, <1>4, <1>5, <1>7, <1>8, <1>9, <1>10, <1>11 DEF TypeOK

\* Every step keeps the types.
LEMMA TypeStep == TypeOK /\ [Next]_vars => TypeOK'
<1> SUFFICES ASSUME TypeOK, [Next]_vars PROVE TypeOK'
  OBVIOUS
<1> USE DEF TypeOK
<1>1. ASSUME NEW c \in Commands, Start(c) PROVE TypeOK'
  <2>1. c \in Command
    BY CheckAssumption DEF CheckAssumption
  <2>2. NoCounts \in [Languages -> Nat]
    BY DEF NoCounts
  <2>3. /\ pc' \in {"listing", "done"}
        /\ exit' \in 0..2
    <3>1. CASE ~c.exists \/ Refused(c)
      BY <1>1, <3>1 DEF Start
    <3>2. CASE ~(~c.exists \/ Refused(c))
      BY <1>1, <3>2 DEF Start
    <3> QED BY <3>1, <3>2
  <2>4. cfg' \in Config /\ cmd' \in Command
    BY <1>1, <2>1 DEF Start
  <2>5. UNCHANGED <<tree, locked, conf, sdk, edits>> /\ steady' \in SUBSET Files
    BY <1>1 DEF Start, disk
  <2>6. /\ todo' = {} /\ loaded' = {} /\ checked' = {} /\ findings' = {}
        /\ counts' = NoCounts /\ isSdk' = FALSE /\ grade' = NoGrade
    BY <1>1 DEF Start, Fresh
  <2> QED BY <2>2, <2>3, <2>4, <2>5, <2>6
<1>2. CASE ListFiles
  BY <1>2 DEF ListFiles, disk
<1>3. CASE ReadFile
  BY <1>3 DEF ReadFile, disk
<1>4. CASE RunRules
  <2>1. findings' \in SUBSET [rule : Rules, file : Files]
    BY <1>4, ReportType DEF RunRules
  <2>2. checked' \in SUBSET Languages
    BY <1>4, ActiveType DEF RunRules
  <2> QED BY <1>4, <2>1, <2>2 DEF RunRules, disk
<1>5. CASE Survey
  <2>1. \A l \in Languages :
           Cardinality({f \in tree : Language[f] = l /\ Directory[f] \notin cfg.skip}) \in Nat
    <3> TAKE l \in Languages
    <3> DEFINE S == {f \in tree : Language[f] = l /\ Directory[f] \notin cfg.skip}
    <3>1. S \in SUBSET Files
      OBVIOUS
    <3> QED BY <3>1, SurveyType
  <2>2. counts' \in [Languages -> Nat]
    BY <1>5, <2>1 DEF Survey
  <2> QED BY <1>5, <2>2 DEF Survey, disk
<1>6. CASE DetectSdk
  BY <1>6 DEF DetectSdk, disk
<1>7. CASE Finish
  <2>1. exit' \in 0..2 /\ grade' \in Letters \cup {NoGrade}
    BY <1>7, OutcomeType DEF Finish
  <2> QED BY <1>7, <2>1 DEF Finish, disk
<1>8. CASE Return
  <2>1. NoCounts \in [Languages -> Nat]
    BY DEF NoCounts
  <2>2. NoCommand \in Command
    BY CheckAssumption DEF CheckAssumption
  <2>3. /\ UNCHANGED <<tree, locked, conf, sdk, cfg, edits>>
        /\ todo' = {} /\ loaded' = {} /\ checked' = {} /\ findings' = {}
        /\ counts' = NoCounts /\ isSdk' = FALSE /\ grade' = NoGrade
        /\ pc' = "idle" /\ cmd' = NoCommand /\ exit' = 0 /\ steady' = {}
    BY <1>8 DEF Return, Fresh, disk
  <2>4. exit' \in 0..2 /\ steady' \in SUBSET Files /\ pc' \in {"idle", "done"}
    BY <2>3
  <2> QED BY <2>1, <2>2, <2>3, <2>4
<1>9. ASSUME NEW f \in Files, Appear(f) \/ Vanish(f) \/ Relock(f) PROVE TypeOK'
  BY <1>9, CheckAssumption DEF CheckAssumption, Appear, Vanish, Relock, Edit, Disturbed, run
<1>10. ASSUME NEW c \in Configs, Reconfigure(c) PROVE TypeOK'
  BY <1>10, CheckAssumption DEF CheckAssumption, Reconfigure, Edit, run
<1>11. CASE RenamePackage
  BY <1>11, CheckAssumption DEF CheckAssumption, RenamePackage, Edit, run
<1>12. CASE UNCHANGED vars
  BY <1>12 DEF vars, disk, run
<1> QED BY <1>1, <1>2, <1>3, <1>4, <1>5, <1>6, <1>7, <1>8, <1>9, <1>10, <1>11, <1>12
        DEF Next, RunNext, DiskNext

\* Every reachable state is well typed, whatever the tree and the commands.
THEOREM TypeCorrect == Spec => []TypeOK
<1>1. Init => TypeOK
  BY TypeInit
<1>2. TypeOK /\ [Next]_vars => TypeOK'
  BY TypeStep
<1> QED BY <1>1, <1>2, PTL DEF Spec

-----------------------------------------------------------------------------
(***************************************************************************)
(* Consistency: the inductive invariant behind the properties.             *)
(***************************************************************************)

\* A step that leaves the run and its view alone, and disturbs files at most
\* by dropping them from `steady`, keeps the invariant.
LEMMA Undisturbed ==
    ASSUME Consistent, UNCHANGED run, steady' \in SUBSET steady,
           \A f \in steady' : f \in tree \ locked => f \in tree' \ locked'
    PROVE  Consistent'
<1>1. /\ UNCHANGED <<pc, cmd, cfg, todo, loaded, checked, findings>>
      /\ UNCHANGED <<counts, isSdk, exit, grade>>
  BY DEF run
<1>2. NothingMissed'
  BY <1>1 DEF Consistent, NothingMissed, Completed, Refused, Eligible, TestsToo
<1>3. OnlyEligible'
  BY <1>1 DEF Consistent, OnlyEligible, Eligible, TestsToo
<1>4. Scanned'
  BY <1>1 DEF Consistent, Scanned, Completed, Refused, Report, Active, Reads
<1>5. Concluded'
  <2>1. Outcome' = Outcome
    BY <1>1 DEF Outcome, CheckExit, CheckGrade, EntryPrints, MostlySupported, Reason,
                Gradable, CheckedSomething, ExitFindings, TestsToo
  <2> QED BY <1>1, <2>1 DEF Consistent, Concluded, Completed, Refused
<1>6. EntryTakesNoFlags'
  BY <1>1 DEF Consistent, EntryTakesNoFlags
<1> QED BY <1>2, <1>3, <1>4, <1>5, <1>6 DEF Consistent

\* At first nothing has been listed, read or found.
LEMMA ConsistentInit == Init => Consistent
  BY DEF Init, Consistent, NothingMissed, OnlyEligible, Scanned, Concluded, Completed,
         EntryTakesNoFlags

\* `entry` has no --rule.
LEMMA FlagsStep == EntryTakesNoFlags /\ [Next]_vars => EntryTakesNoFlags'
<1> SUFFICES ASSUME EntryTakesNoFlags, [Next]_vars PROVE EntryTakesNoFlags'
  OBVIOUS
<1>1. ASSUME NEW c \in Commands, Start(c) PROVE EntryTakesNoFlags'
  BY <1>1, CheckAssumption DEF CheckAssumption, Start, EntryTakesNoFlags
<1>2. CASE Return
  BY <1>2 DEF Return, EntryTakesNoFlags
<1>3. CASE ListFiles \/ ReadFile \/ RunRules \/ Survey \/ DetectSdk \/ Finish
  BY <1>3 DEF ListFiles, ReadFile, RunRules, Survey, DetectSdk, Finish, EntryTakesNoFlags
<1>4. CASE DiskNext \/ UNCHANGED vars
  BY <1>4 DEF DiskNext, Appear, Vanish, Relock, Reconfigure, RenamePackage, Edit, run, vars,
              EntryTakesNoFlags
<1> QED BY <1>1, <1>2, <1>3, <1>4 DEF Next, RunNext

\* Every step of a run, and every change by others, keeps the invariant.
LEMMA ConsistentStep == TypeOK /\ Consistent /\ [Next]_vars => Consistent'
<1> SUFFICES ASSUME TypeOK, Consistent, [Next]_vars PROVE Consistent'
  OBVIOUS
<1>0. EntryTakesNoFlags'
  BY FlagsStep DEF Consistent
<1>1. ASSUME NEW c \in Commands, Start(c) PROVE Consistent'
  <2>1. /\ loaded' = {} /\ cmd' = c /\ steady' = tree \ locked
        /\ tree' = tree /\ locked' = locked
    BY <1>1 DEF Start, Fresh, disk
  <2>2. \/ pc' = "listing"
        \/ pc' = "done" /\ (~c.exists \/ Refused(c))
    BY <1>1 DEF Start
  <2>3. ~Completed' /\ pc' \in {"listing", "done"}
    BY <2>1, <2>2 DEF Completed, Refused
  <2> QED BY <1>0, <2>1, <2>3 DEF Consistent, NothingMissed, OnlyEligible, Scanned, Concluded
<1>2. CASE ListFiles
  <2>1. /\ pc = "listing" /\ pc' = "reading" /\ todo' = tree
        /\ UNCHANGED <<tree, locked, cmd, cfg, loaded, steady>>
    BY <1>2 DEF ListFiles, disk
  <2>2. ~Completed'
    BY <2>1 DEF Completed
  <2> QED BY <1>0, <2>1, <2>2 DEF Consistent, NothingMissed, OnlyEligible, Scanned, Concluded,
                            Eligible, TestsToo
<1>3. CASE ReadFile
  <2>1. PICK f \in todo :
           /\ todo' = todo \ {f}
           /\ loaded' = IF f \in tree \ locked /\ Eligible(f) THEN loaded \cup {f} ELSE loaded
    BY <1>3 DEF ReadFile
  <2>2. /\ pc = "reading" /\ pc' = "reading"
        /\ UNCHANGED <<tree, locked, cmd, cfg, steady>>
    BY <1>3 DEF ReadFile, disk
  <2>3. \A g : Eligible(g)' <=> Eligible(g)
    BY <2>2 DEF Eligible, TestsToo
  <2>4. NothingMissed'
    <3>1. ASSUME NEW g \in steady, Eligible(g) PROVE g \in todo' \cup loaded'
      <4>1. g \in tree \ locked /\ g \in todo \cup loaded
        BY <2>2, <3>1 DEF Consistent, NothingMissed
      <4> QED BY <2>1, <3>1, <4>1
    <3>2. steady \subseteq tree \ locked
      BY <2>2 DEF Consistent, NothingMissed
    <3> QED BY <2>2, <2>3, <3>1, <3>2 DEF NothingMissed, Completed
  <2>5. OnlyEligible'
    BY <2>1, <2>3 DEF Consistent, OnlyEligible
  <2> QED BY <1>0, <2>2, <2>4, <2>5 DEF Consistent, Scanned, Concluded, Completed
<1>4. CASE RunRules
  <2>1. /\ pc = "reading" /\ todo = {} /\ pc' = "surveying"
        /\ findings' = Report(loaded) /\ checked' = UNION {Declares[r] : r \in Active}
        /\ UNCHANGED <<tree, locked, cmd, cfg, loaded, steady>>
    BY <1>4 DEF RunRules, disk
  <2>2. NothingMissed'
    BY <2>1 DEF Consistent, NothingMissed, Completed, Eligible, TestsToo
  <2>3. OnlyEligible'
    BY <2>1 DEF Consistent, OnlyEligible, Eligible, TestsToo
  <2>4. Scanned'
    BY <2>1 DEF Scanned, Report, Active, Reads
  <2>5. Concluded'
    BY <2>1 DEF Concluded, Completed
  <2> QED BY <1>0, <2>2, <2>3, <2>4, <2>5 DEF Consistent
<1>5. CASE Survey \/ DetectSdk
  <2>1. /\ pc \in {"surveying", "classifying"} /\ pc' \in {"classifying", "reporting"}
        /\ UNCHANGED <<cmd, cfg, loaded, findings, checked, steady>>
    BY <1>5 DEF Survey, DetectSdk, disk
  <2>2. NothingMissed'
    BY <2>1 DEF Consistent, NothingMissed, Completed, Eligible, TestsToo
  <2>3. OnlyEligible'
    BY <2>1 DEF Consistent, OnlyEligible, Eligible, TestsToo
  <2>4. Scanned'
    BY <2>1 DEF Consistent, Scanned, Report, Active, Reads
  <2>5. Concluded'
    BY <2>1 DEF Concluded, Completed
  <2> QED BY <1>0, <2>2, <2>3, <2>4, <2>5 DEF Consistent
<1>6. CASE Finish
  <2>1. /\ pc = "reporting" /\ pc' = "done"
        /\ exit' = Outcome.exit /\ grade' = Outcome.grade
        /\ UNCHANGED <<cmd, cfg, todo, loaded, findings, checked, counts, isSdk, steady>>
    BY <1>6 DEF Finish, disk
  <2>2. NothingMissed'
    BY <2>1 DEF Consistent, NothingMissed, Completed, Eligible, TestsToo
  <2>3. OnlyEligible'
    BY <2>1 DEF Consistent, OnlyEligible, Eligible, TestsToo
  <2>4. Scanned'
    BY <2>1 DEF Consistent, Scanned, Report, Active, Reads
  <2>5. Concluded'
    <3>1. Outcome' = Outcome
      BY <2>1 DEF Outcome, CheckExit, CheckGrade, EntryPrints, MostlySupported, Reason,
                  Gradable, CheckedSomething, ExitFindings, TestsToo
    <3> QED BY <2>1, <3>1 DEF Concluded
  <2> QED BY <1>0, <2>2, <2>3, <2>4, <2>5 DEF Consistent
<1>7. CASE Return
  <2>1. pc' = "idle" /\ loaded' = {}
    BY <1>7 DEF Return, Fresh
  <2> QED BY <1>0, <2>1 DEF Consistent, NothingMissed, OnlyEligible, Scanned, Concluded, Completed
<1>8. ASSUME NEW f \in Files, Appear(f) \/ Vanish(f) \/ Relock(f) PROVE Consistent'
  <2>1. UNCHANGED run /\ steady' = steady \ {f}
    BY <1>8 DEF Appear, Vanish, Relock, Edit, Disturbed
  <2>2. \A g \in steady' : g \in tree \ locked => g \in tree' \ locked'
    BY <1>8, <2>1 DEF Appear, Vanish, Relock
  <2> QED BY <2>1, <2>2, Undisturbed
<1>9. ASSUME NEW c \in Configs, Reconfigure(c) PROVE Consistent'
  BY <1>9, Undisturbed DEF Reconfigure, Edit
<1>10. CASE RenamePackage
  BY <1>10, Undisturbed DEF RenamePackage, Edit
<1>11. CASE UNCHANGED vars
  BY <1>11, Undisturbed DEF vars, disk
<1> QED BY <1>1, <1>2, <1>3, <1>4, <1>5, <1>6, <1>7, <1>8, <1>9, <1>10, <1>11
        DEF Next, RunNext, DiskNext

\* No undisturbed file is missed, only eligible ones are read, the findings
\* are those of the files read, and the conclusion is drawn from them.
THEOREM Consistency == Spec => [](TypeOK /\ Consistent)
<1>1. Init => TypeOK /\ Consistent
  BY TypeInit, ConsistentInit
<1>2. TypeOK /\ Consistent /\ [Next]_vars => TypeOK' /\ Consistent'
  BY TypeStep, ConsistentStep
<1> QED BY <1>1, <1>2, PTL DEF Spec

-----------------------------------------------------------------------------
(***************************************************************************)
(* The properties.                                                         *)
(***************************************************************************)

\* In a completed run, what an active rule has to say of an undisturbed file
\* the run is meant to read is among its findings.
LEMMA FindingMade ==
    ASSUME Consistent, Completed, NEW f \in steady, Eligible(f),
           NEW r \in Active, r \in Hits[f], Reads(r, f)
    PROVE  f \in loaded /\ [rule |-> r, file |-> f] \in findings
<1>1. f \in loaded
  BY DEF Consistent, NothingMissed
<1>2. [rule |-> r, file |-> f] \in Report(loaded)
  BY <1>1 DEF Report
<1> QED BY <1>1, <1>2 DEF Consistent, Scanned

\* A clean exit means that no undisturbed file has a finding the run gates on.
THEOREM CleanExit == Spec => []CleanMeansClean
<1>1. TypeOK /\ Consistent => CleanMeansClean
  <2> SUFFICES ASSUME TypeOK, Consistent, Completed, cmd.verb \in {"check", "hook"}, exit = 0,
                      ~isSdk, ~cmd.write,
                      NEW f \in steady, Eligible(f), NEW r \in Active \cap Hits[f], Reads(r, f)
               PROVE  ~Blocking(r, cmd.failOn)
    BY DEF CleanMeansClean
  <2>1. f \in loaded /\ [rule |-> r, file |-> f] \in findings
    BY FindingMade
  <2>2. CheckedSomething
    <3>1. checked = UNION {Declares[s] : s \in Active}
      BY DEF Consistent, Scanned
    <3> QED BY <2>1, <3>1 DEF CheckedSomething, Reads
  <2>3. CheckExit = ExitFor(findings, cmd.failOn)
    BY <2>2 DEF CheckExit, ExitFindings
  <2>4. exit = IF cmd.verb = "hook" /\ CheckExit = 2 THEN 0 ELSE CheckExit
    BY DEF Consistent, Concluded, Outcome
  <2>5. ExitFor(findings, cmd.failOn) # 1
    BY <2>3, <2>4
  <2>6. ~Blocking([rule |-> r, file |-> f].rule, cmd.failOn)
    BY <2>1, <2>5 DEF ExitFor
  <2> QED BY <2>6
<1> QED BY <1>1, Consistency, PTL

\* `check` says "could not check" only where it could not.
THEOREM RefusalHonest == Spec => []RefusalMeansUnread
<1>1. TypeOK /\ Consistent => RefusalMeansUnread
  <2> SUFFICES ASSUME TypeOK, Consistent, Completed, cmd.verb = "check", exit = 2,
                      NEW f \in steady, Eligible(f)
               PROVE  Language[f] \notin Supported /\ \A r \in Active : ~Reads(r, f)
    BY DEF RefusalMeansUnread
  <2>1. f \in loaded
    BY DEF Consistent, NothingMissed
  <2>2. CheckExit = 2
    BY DEF Consistent, Concluded, Outcome
  <2>3. Reason # "none" /\ ~CheckedSomething
    BY <2>2 DEF CheckExit, ExitFor
  <2>4. ~Gradable
    BY <2>3, Zenon DEF Reason
  <2>5. checked = UNION {Declares[s] : s \in Active}
    BY DEF Consistent, Scanned
  <2> QED BY <2>1, <2>3, <2>4, <2>5 DEF Gradable, CheckedSomething, Reads
<1> QED BY <1>1, Consistency, PTL

\* An A is only given where no enabled rule above advisory fires.
THEOREM AIsEarned == Spec => []AMeansClean
<1>1. TypeOK /\ Consistent => AMeansClean
  <2> SUFFICES ASSUME TypeOK, Consistent, Completed, grade = "A",
                      NEW f \in steady, Eligible(f),
                      NEW r \in Hits[f] \ cfg.disabled, Reads(r, f)
               PROVE  Severity[r] = "advisory"
    BY DEF AMeansClean
  <2>1. "A" # NoGrade
    BY DEF NoGrade
  <2>2. grade = Outcome.grade
    BY DEF Consistent, Concluded
  <2>3. Letter(Score(findings)) = "A" /\ (cmd.verb # "entry" => cmd.rules = {})
    BY <2>1, <2>2 DEF Outcome, CheckGrade
  <2>4. cmd \in Command /\ f \in Files
    BY DEF TypeOK
  <2>5. cmd.rules = {}
    BY <2>3 DEF Consistent, EntryTakesNoFlags, Completed
  <2>6. r \in Active
    BY <2>4, <2>5, CheckAssumption DEF CheckAssumption, Active
  <2>7. [rule |-> r, file |-> f] \in findings
    BY <2>6, FindingMade
  <2>8. \A x \in findings : x.rule \in Rules
    BY DEF TypeOK
  <2>9. Severity[[rule |-> r, file |-> f].rule] = "advisory"
    BY <2>3, <2>7, <2>8, ALeavesAdvisory
  <2> QED BY <2>9
<1> QED BY <1>1, Consistency, PTL

\* `entry` publishes only what `check` grades, from Python that was read.
THEOREM EntryStands == Spec => []EntryIsNarrower
<1>1. TypeOK /\ Consistent => EntryIsNarrower
  <2> SUFFICES ASSUME TypeOK, Consistent, Completed, cmd.verb = "entry", exit = 0
               PROVE  /\ grade = CheckGrade
                      /\ \E f \in loaded : Language[f] = "python" /\ Eligible(f)
    BY DEF EntryIsNarrower
  <2>1. EntryPrints /\ grade = Letter(Score(findings))
    BY DEF Consistent, Concluded, Outcome
  <2>2. cmd.rules = {}
    BY DEF Consistent, EntryTakesNoFlags, Completed
  <2>3. grade = CheckGrade
    BY <2>1, <2>2 DEF CheckGrade, EntryPrints
  <2>4. Gradable
    BY <2>1, Zenon DEF EntryPrints, Reason
  <2> QED BY <2>3, <2>4 DEF Gradable, Supported, Consistent, OnlyEligible
<1> QED BY <1>1, Consistency, PTL
=============================================================================
