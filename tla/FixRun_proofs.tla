--------------------------- MODULE FixRun_proofs ---------------------------
(***************************************************************************)
(* What holds of FixRun for every tree, command, fixer set and bound.      *)
(***************************************************************************)
EXTENDS FixRun, FiniteSetTheorems, SequenceTheorems, WellFoundedInduction, TLAPS

Smaller == {ss \in Nat \X Nat : ss[1] < ss[2]}

\* Every non-empty set of naturals has a least member.
LEMMA LeastExists ==
    ASSUME NEW S \in SUBSET Nat, S # {}
    PROVE  \E m \in S : \A n \in S : m <= n
<1>1. IsWellFoundedOn(Smaller, Nat)
  BY NatLessThanWellFounded DEF OpToRel, Smaller
<1>2. PICK m \in S : \A y \in S : ~(<<y, m>> \in Smaller)
  BY <1>1, WFMin
<1>3. ASSUME NEW n \in S PROVE m <= n
  <2>1. n \in Nat /\ m \in Nat  OBVIOUS
  <2>2. n < m => <<n, m>> \in Smaller BY <2>1 DEF Smaller
  <2> QED BY <1>2, <2>1, <2>2
<1> QED BY <1>3

\* Induction up to n, over the set of numbers something is shown for.
LEMMA UpTo ==
    ASSUME NEW n \in Nat, NEW S, 0 \in S, \A i \in 1..n : i - 1 \in S => i \in S
    PROVE  0..n \subseteq S
<1> DEFINE Left == (0..n) \ S
<1> SUFFICES ASSUME Left # {} PROVE FALSE
  OBVIOUS
<1>1. Left \in SUBSET Nat
  OBVIOUS
<1>2. PICK m \in Left : \A k \in Left : m <= k
  BY <1>1, LeastExists
<1>3. m \in 1..n /\ m - 1 \in 0..n /\ m - 1 \notin Left
  BY <1>2
<1> QED BY <1>2, <1>3

\* The functions on 0..n that start at a and follow F from each value to the next.
Steps(n, V, a, F) ==
    {f \in [0..n -> V] : f[0] = a /\ \A i \in 1..n : f[i] = F[<<i, f[i - 1]>>]}

\* A function on 0..n may be defined from each of its values to the next.
LEMMA StepsExist ==
    ASSUME NEW n \in Nat, NEW V, NEW a \in V, NEW F \in [(1..n) \X V -> V]
    PROVE  Steps(n, V, a, F) # {}
<1> DEFINE Done == {k \in 0..n : \E f \in [0..k -> V] :
                        f[0] = a /\ \A i \in 1..k : f[i] = F[<<i, f[i - 1]>>]}
<1>1. 0 \in Done
  <2> DEFINE g == [i \in 0..0 |-> a]
  <2>1. g \in [0..0 -> V] /\ g[0] = a /\ \A i \in 1..0 : g[i] = F[<<i, g[i - 1]>>]
    OBVIOUS
  <2> HIDE DEF g
  <2> QED BY <2>1
<1>2. ASSUME NEW k \in 1..n, k - 1 \in Done PROVE k \in Done
  <2>1. PICK f \in [0..(k - 1) -> V] : f[0] = a /\ \A i \in 1..(k - 1) : f[i] = F[<<i, f[i - 1]>>]
    BY <1>2
  <2>2. f[k - 1] \in V
    BY <2>1
  <2>3. F[<<k, f[k - 1]>>] \in V
    BY <2>2
  <2> DEFINE v == F[<<k, f[k - 1]>>]
             g == [i \in 0..k |-> IF i = k THEN v ELSE f[i]]
  <2>4. \A i \in 0..k : i # k => i \in 0..(k - 1)
    OBVIOUS
  <2>5. g \in [0..k -> V]
    BY <2>3, <2>4
  <2>6. g[0] = a /\ g[k] = v /\ g[k - 1] = f[k - 1]
    BY <2>1
  <2>7. ASSUME NEW i \in 1..k PROVE g[i] = F[<<i, g[i - 1]>>]
    <3>1. CASE i = k
      BY <2>6, <3>1
    <3>2. CASE i # k
      <4>1. i \in 1..(k - 1) /\ g[i] = f[i] /\ g[i - 1] = f[i - 1]
        BY <3>2
      <4> QED BY <2>1, <4>1
    <3> QED BY <3>1, <3>2
  <2> HIDE DEF g
  <2> QED BY <2>5, <2>6, <2>7
<1>3. n \in Done
  <2> HIDE DEF Done
  <2> QED BY <1>1, <1>2, UpTo
<1> QED BY <1>3 DEF Steps

\* A function defined by steps that keep its values in V has them there.
LEMMA StepsStay ==
    ASSUME NEW n \in Nat, NEW V, NEW f, f = [i \in 0..n |-> f[i]], f[0] \in V,
           \A i \in 1..n : f[i - 1] \in V => f[i] \in V
    PROVE  f \in [0..n -> V]
<1> DEFINE In == {i \in 0..n : f[i] \in V}
<1>1. 0 \in In
  OBVIOUS
<1>2. \A i \in 1..n : i - 1 \in In => i \in In
  OBVIOUS
<1>3. 0..n \subseteq In
  <2> HIDE DEF In
  <2> QED BY <1>1, <1>2, UpTo
<1>4. \A i \in 0..n : f[i] \in V
  BY <1>3
<1> QED BY <1>4

\* The file a run takes next is one of those it has left.
LEMMA LeastIn ==
    ASSUME NEW S \in SUBSET Files, S # {}
    PROVE  Least(S) \in S
<1>1. S \in SUBSET Nat
  BY FixAssumption DEF FixAssumption, Files
<1>2. \E m \in S : \A n \in S : m <= n
  BY <1>1, LeastExists
<1> QED BY <1>2 DEF Least

\* What a run decides depends on its command line, its config and what it read.
LEMMA SameDecisions ==
    ASSUME UNCHANGED <<read, cmd, cfg>>
    PROVE  /\ Selected' = Selected
           /\ \A f \in Files : Wanted(f)' = Wanted(f)
           /\ Changed' = Changed
           /\ Refusals' = Refusals
<1>1. Selected' = Selected
  BY DEF Selected
<1>2. ASSUME NEW f \in Files PROVE Flagged(f)' = Flagged(f)
  BY <1>1 DEF Flagged, ReportsTree
<1>3. ASSUME NEW f \in Files PROVE Wanted(f)' = Wanted(f)
  BY <1>2 DEF Wanted
<1>4. Changed' = Changed
  BY <1>3 DEF Changed
<1>5. ASSUME NEW f \in Changed
      PROVE  Breaks(f, Wanted(f))' = Breaks(f, Wanted(f))
  <2>1. f \in Files
    BY DEF Changed
  <2> QED BY <1>3, <2>1 DEF Breaks
<1>6. Refusals' = Refusals
  BY <1>4, <1>5 DEF Refusals
<1> QED BY <1>1, <1>3, <1>4, <1>6

\* Removing files from a finite set of them does not add to their number.
LEMMA FewerFiles ==
    ASSUME NEW S, IsFiniteSet(S), NEW T \in SUBSET S
    PROVE  /\ IsFiniteSet(T) /\ Cardinality(T) \in Nat /\ Cardinality(S) \in Nat
           /\ Cardinality(T) <= Cardinality(S)
BY FS_Subset, FS_CardinalityType

-----------------------------------------------------------------------------
(***************************************************************************)
(* The inductive invariant.                                                *)
(***************************************************************************)

\* Nothing has been planned, written or emptied in an initial state.
LEMMA ConsistentInit == Init => Consistent
<1> SUFFICES ASSUME Init PROVE Consistent
  OBVIOUS
<1>1. disk \in [Files -> Content] /\ read = [f \in Files |-> read[f]]
  BY FixAssumption DEF FixAssumption, Init, Unread
<1>2. IsFiniteSet(emptied) /\ kills \in Nat /\ Cardinality(emptied \ Current) = 0
  BY FS_EmptySet DEF Init
<1>3. Shaped
  BY <1>1, <1>2 DEF Shaped, Init
<1>4. pc = "idle"
  BY DEF Init
<1>5. ~Judged /\ ~Completed /\ Snapshot
  BY <1>4 DEF Judged, Completed, Snapshot
<1>6. Spared
  BY <1>2 DEF Spared, Init
<1> QED BY <1>3, <1>5, <1>6 DEF Consistent, Planned, Progress, Concluded

\* A run that has not read the tree yet, or is over without having judged it,
\* claims nothing of it.
LEMMA Unjudged ==
    ASSUME pc # "reading", ~Judged
    PROVE  Snapshot /\ Planned /\ Progress /\ Concluded
BY DEF Snapshot, Planned, Progress, Concluded, Judged

\* A run starts with nothing read or planned.
LEMMA StartStep == ASSUME Consistent, NEW c \in Commands, Start(c) PROVE Consistent'
<1>1. Shaped'
  BY DEF Consistent, Shaped, Start, Forget, Unread
<1>2. pc' # "reading" /\ ~Judged'
  BY DEF Start, Judged, Completed
<1>3. Snapshot' /\ Planned' /\ Progress' /\ Concluded'
  BY <1>2 DEF Snapshot, Planned, Progress, Concluded, Judged
<1>4. Current = {} /\ Current' = {}
  BY DEF Start, Current
<1>5. Spared'
  BY <1>4 DEF Consistent, Spared, Start
<1> QED BY <1>1, <1>3, <1>5 DEF Consistent

\* Selecting fixers reads and writes nothing.
LEMMA SelectStep == ASSUME Consistent, Select PROVE Consistent'
<1>1. Shaped'
  BY DEF Consistent, Shaped, Select
<1>2. Selected' = Selected
  BY SameDecisions DEF Select
<1>3. ~Judged'
  BY <1>2 DEF Select, Judged, Completed
<1>4. Planned' /\ Progress' /\ Concluded'
  BY <1>3 DEF Planned, Progress, Concluded, Judged
<1>5. Snapshot'
  BY DEF Select, Snapshot
<1>6. Current = {} /\ Current' = {}
  BY DEF Select, Current
<1>7. Spared'
  BY <1>6 DEF Consistent, Spared, Select
<1> QED BY <1>1, <1>4, <1>5, <1>7 DEF Consistent

\* A file that was just read is as read.
LEMMA ReadFileStep == ASSUME Consistent, ReadFile PROVE Consistent'
<1>1. Shaped'
  BY DEF Consistent, Shaped, ReadFile
<1>2. ~Judged'
  BY DEF ReadFile, Judged, Completed
<1>3. Planned' /\ Progress' /\ Concluded'
  BY <1>2 DEF Planned, Progress, Concluded, Judged
<1>4. Snapshot'
  <2> SUFFICES ASSUME NEW f \in Files, f \notin todo', f \notin touched'
               PROVE  disk'[f] = read'[f]
    BY DEF Snapshot
  <2>1. disk' = disk /\ touched' = touched /\ pc = "reading"
    BY DEF ReadFile
  <2>2. DOMAIN read = Files
    BY DEF Consistent, Shaped
  <2>3. read' = [read EXCEPT ![Least(todo)] = disk[Least(todo)]] /\ todo' = todo \ {Least(todo)}
    BY DEF ReadFile
  <2>4. CASE f = Least(todo)
    BY <2>1, <2>2, <2>3, <2>4
  <2>5. CASE f # Least(todo)
    <3>1. disk[f] = read[f]
      BY <2>1, <2>3, <2>5 DEF Consistent, Snapshot
    <3> QED BY <3>1, <2>1, <2>2, <2>3, <2>5
  <2> QED BY <2>4, <2>5
<1>5. Current = {} /\ Current' = {}
  BY DEF ReadFile, Current
<1>6. Spared'
  BY <1>5 DEF Consistent, Spared, ReadFile
<1> QED BY <1>1, <1>3, <1>4, <1>6 DEF Consistent

\* What is planned is the chain of the fixers on what was read.
LEMMA PlanStep == ASSUME Consistent, Plan PROVE Consistent'
<1>1. UNCHANGED <<read, cmd, cfg, disk, touched, todo>>
      /\ pc = "reading" /\ pc' = "writing" /\ todo = {}
  BY DEF Plan
<1>2. /\ \A f \in Files : Wanted(f)' = Wanted(f)
      /\ Changed' = Changed /\ Refusals' = Refusals
  BY <1>1, SameDecisions
<1>3. Shaped' /\ Snapshot' /\ Concluded'
  BY <1>1 DEF Consistent, Shaped, Snapshot, Concluded, Completed, Plan
<1>4. Planned'
  <2>1. plan' = [f \in Files |-> Wanted(f)'] /\ refused' = Refusals'
    BY <1>2 DEF Plan
  <2>2. queue' \subseteq IF cmd'.write THEN Changed' \ Refusals' ELSE {}
    BY <1>1, <1>2 DEF Plan
  <2> QED BY <1>1, <2>1, <2>2 DEF Planned
<1>5. Progress'
  <2> SUFFICES ASSUME NEW f \in Files, f \notin touched'
               PROVE  disk'[f] = read'[f] /\ ~Written(f)'
    BY DEF Progress
  <2>1. disk'[f] = read'[f]
    BY <1>1 DEF Consistent, Snapshot
  <2>2. ~Written(f)'
    BY <1>1, <1>2 DEF Written, Plan
  <2> QED BY <2>1, <2>2
<1>6. Current = {} /\ Current' = {}
  BY <1>1 DEF Current
<1>7. Spared'
  BY <1>6 DEF Consistent, Spared, Plan
<1> QED BY <1>3, <1>4, <1>5, <1>7 DEF Consistent

\* One more file is empty, the one in hand.
LEMMA OpenFileStep == ASSUME Consistent, OpenFile PROVE Consistent'
<1>1. /\ UNCHANGED <<read, cmd, cfg, touched, queue, todo, plan, refused, kills>>
      /\ pc = "writing" /\ pc' = "filling" /\ queue # {}
      /\ Current = {} /\ Current' = {Least(queue)}
  BY DEF OpenFile, Current
<1>2. /\ \A f \in Files : Wanted(f)' = Wanted(f)
      /\ Changed' = Changed /\ Refusals' = Refusals
  BY <1>1, SameDecisions
<1>3. IsFiniteSet(emptied) /\ emptied' = emptied \cup {Least(queue)}
  BY DEF Consistent, Shaped, OpenFile, Opened
<1>4. Shaped'
  <2>1. IsFiniteSet(emptied')
    BY <1>3, FS_AddElement
  <2> QED BY <1>1, <2>1 DEF Consistent, Shaped, OpenFile
<1>5. Snapshot' /\ Concluded'
  BY <1>1 DEF Snapshot, Concluded, Completed
<1>6. Planned'
  <2>1. Planned /\ Judged
    BY <1>1 DEF Consistent, Judged
  <2>2. /\ todo' = {} /\ plan' = [f \in Files |-> Wanted(f)'] /\ refused' = Refusals'
        /\ queue' \subseteq IF cmd'.write THEN Changed' \ Refusals' ELSE {}
    BY <1>1, <1>2, <2>1 DEF Planned
  <2> QED BY <2>2 DEF Planned
<1>7. Progress'
  <2> SUFFICES ASSUME NEW f \in Files, f \notin touched', f # Least(queue)
               PROVE  disk'[f] = IF Written(f)' THEN [lines |-> Wanted(f)', faithful |-> TRUE]
                                                ELSE read'[f]
    BY <1>1 DEF Progress
  <2>1. disk'[f] = disk[f]
    BY DEF OpenFile, Opened
  <2>2. Written(f)' = Written(f)
    BY <1>1, <1>2 DEF Written
  <2>3. disk[f] = IF Written(f) THEN [lines |-> Wanted(f), faithful |-> TRUE] ELSE read[f]
    BY <1>1 DEF Consistent, Progress, Judged
  <2> QED BY <1>1, <1>2, <2>1, <2>2, <2>3
<1>8. Spared'
  <2>1. emptied' \ Current' \subseteq emptied
    BY <1>1, <1>3
  <2>2. Cardinality(emptied' \ Current') <= Cardinality(emptied)
    BY <1>3, <2>1, FewerFiles
  <2>3. Cardinality(emptied) <= kills
    BY <1>1 DEF Consistent, Spared
  <2>4. Cardinality(emptied' \ Current') \in Nat /\ Cardinality(emptied) \in Nat /\ kills \in Nat
    BY <1>3, <2>1, FewerFiles DEF Consistent, Shaped
  <2> QED BY <1>1, <2>2, <2>3, <2>4 DEF Spared
<1> QED BY <1>4, <1>5, <1>6, <1>7, <1>8 DEF Consistent

\* The file in hand now is as planned.
LEMMA FillFileStep == ASSUME Consistent, FillFile PROVE Consistent'
<1> DEFINE g == Least(queue)
<1>1. /\ UNCHANGED <<read, cmd, cfg, touched, todo, plan, refused, kills>>
      /\ pc = "filling" /\ pc' = "writing" /\ queue # {}
      /\ Current = {g} /\ Current' = {}
  BY DEF FillFile, Current, Consistent, Shaped
<1>2. /\ \A f \in Files : Wanted(f)' = Wanted(f)
      /\ Changed' = Changed /\ Refusals' = Refusals
  BY <1>1, SameDecisions
<1>3. /\ todo = {} /\ plan = [f \in Files |-> Wanted(f)] /\ refused = Refusals
      /\ queue \subseteq IF cmd.write THEN Changed \ Refusals ELSE {}
  BY <1>1 DEF Consistent, Planned, Judged
<1>4. g \in queue /\ cmd.write /\ g \in Changed \ Refusals /\ g \in Files
  <2>1. queue \subseteq Files
    BY <1>3 DEF Changed
  <2> QED BY <1>1, <1>3, <2>1, LeastIn DEF Changed
<1>5. /\ disk' = [disk EXCEPT ![g] = [lines |-> plan[g], faithful |-> TRUE]]
      /\ emptied' = emptied \ {g} /\ queue' = queue \ {g}
  BY DEF FillFile
<1>6. Shaped'
  <2>1. IsFiniteSet(emptied')
    BY <1>5, FewerFiles DEF Consistent, Shaped
  <2>2. disk' = [f \in Files |-> disk'[f]] /\ read' = [f \in Files |-> read'[f]]
    BY <1>1, <1>5 DEF Consistent, Shaped
  <2> QED BY <1>1, <2>1, <2>2 DEF Consistent, Shaped
<1>7. Snapshot' /\ Concluded'
  BY <1>1 DEF Snapshot, Concluded, Completed
<1>8. Planned'
  <2>1. /\ todo' = {} /\ plan' = [f \in Files |-> Wanted(f)'] /\ refused' = Refusals'
        /\ queue' \subseteq IF cmd'.write THEN Changed' \ Refusals' ELSE {}
    BY <1>1, <1>2, <1>3, <1>5
  <2> QED BY <2>1 DEF Planned
<1>9. Progress'
  <2> SUFFICES ASSUME NEW f \in Files, f \notin touched'
               PROVE  disk'[f] = IF Written(f)' THEN [lines |-> Wanted(f)', faithful |-> TRUE]
                                                ELSE read'[f]
    BY <1>1 DEF Progress
  <2>1. CASE f = g
    <3>1. disk'[f] = [lines |-> Wanted(f), faithful |-> TRUE]
      BY <1>3, <1>4, <1>5, <2>1 DEF Consistent, Shaped
    <3>2. Written(f)'
      BY <1>1, <1>2, <1>4, <1>5, <2>1 DEF Written
    <3> QED BY <1>2, <3>1, <3>2
  <2>2. CASE f # g
    <3>1. disk'[f] = disk[f]
      BY <1>5, <2>2 DEF Consistent, Shaped
    <3>2. Written(f)' = Written(f)
      BY <1>1, <1>2, <1>5, <2>2 DEF Written
    <3>3. disk[f] = IF Written(f) THEN [lines |-> Wanted(f), faithful |-> TRUE] ELSE read[f]
      BY <1>1, <2>2 DEF Consistent, Progress, Judged
    <3> QED BY <1>1, <1>2, <3>1, <3>2, <3>3
  <2> QED BY <2>1, <2>2
<1>10. Spared'
  BY <1>1, <1>5 DEF Consistent, Spared
<1> QED BY <1>6, <1>7, <1>8, <1>9, <1>10 DEF Consistent

\* The exit code is that of the refusals of this run.
LEMMA FinishStep == ASSUME Consistent, Finish PROVE Consistent'
<1>1. /\ UNCHANGED <<disk, read, cmd, cfg, touched, todo, plan, refused, queue, kills, emptied>>
      /\ pc = "writing" /\ pc' = "done" /\ queue = {} /\ exit' = FinalExit
      /\ Current = {} /\ Current' = {}
  BY DEF Finish, Current
<1>2. /\ \A f \in Files : Wanted(f)' = Wanted(f)
      /\ Changed' = Changed /\ Refusals' = Refusals
  BY <1>1, SameDecisions
<1>3. Shaped' /\ Snapshot' /\ Spared'
  BY <1>1 DEF Consistent, Shaped, Snapshot, Spared
<1>4. Concluded'
  BY <1>1 DEF Concluded, FinalExit
<1>5. Planned /\ Progress /\ Judged
  BY <1>1 DEF Consistent, Judged
<1>6. Planned'
  <2>1. /\ todo' = {} /\ plan' = [f \in Files |-> Wanted(f)'] /\ refused' = Refusals'
        /\ queue' \subseteq IF cmd'.write THEN Changed' \ Refusals' ELSE {}
    BY <1>1, <1>2, <1>5 DEF Planned
  <2> QED BY <2>1 DEF Planned
<1>7. Progress'
  <2> SUFFICES ASSUME NEW f \in Files, f \notin touched'
               PROVE  disk'[f] = IF Written(f)' THEN [lines |-> Wanted(f)', faithful |-> TRUE]
                                                ELSE read'[f]
    BY <1>1 DEF Progress
  <2>1. Written(f)' = Written(f)
    BY <1>1, <1>2 DEF Written
  <2> QED BY <1>1, <1>2, <1>5, <2>1 DEF Progress
<1> QED BY <1>3, <1>4, <1>6, <1>7 DEF Consistent

\* A run that ends or is killed leaves every file of its own but one complete.
LEMMA RestStep ==
    ASSUME Consistent, Rest, UNCHANGED <<disk, emptied>>,
           \/ kills' = kills /\ pc = "done"
           \/ kills' = kills + 1
    PROVE  Consistent'
<1>1. pc' = "idle"
  BY DEF Rest
<1>2. Snapshot' /\ Planned' /\ Progress' /\ Concluded'
  BY <1>1 DEF Snapshot, Planned, Progress, Concluded, Judged, Completed
<1>3. Shaped'
  BY DEF Consistent, Shaped, Rest, Forget, Unread
<1>4. Spared'
  <2>1. Current' = {}
    BY <1>1 DEF Current
  <2>2. IsFiniteSet(emptied) /\ kills \in Nat /\ Cardinality(emptied \ Current) <= kills
    BY DEF Consistent, Shaped, Spared
  <2>3. CASE kills' = kills /\ pc = "done"
    BY <2>1, <2>2, <2>3 DEF Spared, Current
  <2>4. CASE kills' = kills + 1
    <3>1. emptied \ Current = emptied \/ emptied \ Current = emptied \ {Least(queue)}
      BY DEF Current
    <3>2. Cardinality(emptied) <= Cardinality(emptied \ Current) + 1
      <4>1. Cardinality(emptied \ Current) \in Nat /\ Cardinality(emptied) \in Nat
        BY <2>2, FewerFiles
      <4>2. Cardinality(emptied \ {Least(queue)}) =
               IF Least(queue) \in emptied THEN Cardinality(emptied) - 1 ELSE Cardinality(emptied)
        BY <2>2, FS_RemoveElement
      <4> QED BY <3>1, <4>1, <4>2
    <3>3. Cardinality(emptied) \in Nat /\ Cardinality(emptied \ Current) \in Nat
      BY <2>2, FewerFiles
    <3>4. Cardinality(emptied) <= kills + 1
      BY <2>2, <3>2, <3>3
    <3> QED BY <2>1, <2>4, <3>4 DEF Spared
  <2> QED BY <2>3, <2>4
<1> QED BY <1>2, <1>3, <1>4 DEF Consistent

\* A save is of a file not read yet, or marks it as touched.
LEMMA SaveStep ==
    ASSUME Consistent, NEW f \in Files, NEW c \in Drafts, Save(f, c) PROVE Consistent'
<1>1. UNCHANGED <<pc, cmd, cfg, todo, read, plan, refused, queue, exit, kills>>
  BY DEF Save, run
<1>2. /\ \A g \in Files : Wanted(g)' = Wanted(g)
      /\ Changed' = Changed /\ Refusals' = Refusals /\ Selected' = Selected
  BY <1>1, SameDecisions
<1>3. /\ disk' = [disk EXCEPT ![f] = c]
      /\ emptied' = emptied \ {f}
      /\ touched \subseteq touched'
      /\ pc \notin {"idle", "selecting"} /\ f \notin todo => f \in touched'
  BY DEF Save
<1>4. \A g \in Files : g # f => disk'[g] = disk[g]
  BY <1>3 DEF Consistent, Shaped
<1>5. Judged' = Judged /\ Completed' = Completed /\ Current' = Current
  BY <1>1, <1>2 DEF Judged, Completed, Current
<1>6. Shaped'
  <2>1. IsFiniteSet(emptied')
    BY <1>3, FewerFiles DEF Consistent, Shaped
  <2>2. disk' = [g \in Files |-> disk'[g]]
    BY <1>3 DEF Consistent, Shaped
  <2> QED BY <1>1, <2>1, <2>2 DEF Consistent, Shaped
<1>7. Snapshot'
  BY <1>1, <1>3, <1>4 DEF Consistent, Snapshot
<1>8. Planned'
  <2> SUFFICES ASSUME Judged PROVE Planned'
    BY <1>5 DEF Planned
  <2>1. /\ todo' = {} /\ plan' = [g \in Files |-> Wanted(g)'] /\ refused' = Refusals'
        /\ queue' \subseteq IF cmd'.write THEN Changed' \ Refusals' ELSE {}
    BY <1>1, <1>2 DEF Consistent, Planned
  <2> QED BY <2>1 DEF Planned
<1>9. Progress'
  <2> SUFFICES ASSUME Judged, NEW g \in Files, g \notin touched', g \notin Current
               PROVE  disk'[g] = IF Written(g)' THEN [lines |-> Wanted(g)', faithful |-> TRUE]
                                                ELSE read'[g]
    BY <1>5 DEF Progress
  <2>1. todo = {} /\ pc \notin {"idle", "selecting"}
    BY DEF Consistent, Planned, Judged, Completed
  <2>2. g # f
    BY <1>3, <2>1
  <2>3. Written(g)' = Written(g)
    BY <1>1, <1>2 DEF Written
  <2>4. disk[g] = IF Written(g) THEN [lines |-> Wanted(g), faithful |-> TRUE] ELSE read[g]
    BY <1>3 DEF Consistent, Progress
  <2> QED BY <1>1, <1>2, <1>4, <2>2, <2>3, <2>4
<1>10. Concluded'
  BY <1>1, <1>5 DEF Consistent, Concluded, FinalExit
<1>11. Spared'
  <2>1. IsFiniteSet(emptied \ Current) /\ emptied' \ Current' \subseteq emptied \ Current
    BY <1>3, <1>5, FewerFiles DEF Consistent, Shaped
  <2>2. Cardinality(emptied' \ Current') <= Cardinality(emptied \ Current)
    BY <2>1, FewerFiles
  <2>3. Cardinality(emptied' \ Current') \in Nat /\ Cardinality(emptied \ Current) \in Nat
    BY <2>1, FewerFiles
  <2>4. kills \in Nat /\ Cardinality(emptied \ Current) <= kills
    BY DEF Consistent, Shaped, Spared
  <2> QED BY <1>1, <2>2, <2>3, <2>4 DEF Spared
<1> QED BY <1>6, <1>7, <1>8, <1>9, <1>10, <1>11 DEF Consistent

\* Steps that leave files, run and kills alone.
LEMMA QuietStep ==
    ASSUME Consistent, UNCHANGED <<disk, run, touched, emptied, kills>> PROVE Consistent'
<1>1. UNCHANGED <<pc, cmd, cfg, todo, read, plan, refused, queue, exit>>
  BY DEF run
<1>2. /\ \A g \in Files : Wanted(g)' = Wanted(g)
      /\ Changed' = Changed /\ Refusals' = Refusals /\ Selected' = Selected
  BY <1>1, SameDecisions
<1>3. Judged' = Judged /\ Completed' = Completed /\ Current' = Current
  BY <1>1, <1>2 DEF Judged, Completed, Current
<1>4. Shaped' /\ Snapshot' /\ Spared' /\ Concluded'
  BY <1>1, <1>3 DEF Consistent, Shaped, Snapshot, Spared, Concluded, FinalExit
<1>5. Planned'
  <2> SUFFICES ASSUME Judged PROVE Planned'
    BY <1>3 DEF Planned
  <2>1. /\ todo' = {} /\ plan' = [g \in Files |-> Wanted(g)'] /\ refused' = Refusals'
        /\ queue' \subseteq IF cmd'.write THEN Changed' \ Refusals' ELSE {}
    BY <1>1, <1>2 DEF Consistent, Planned
  <2> QED BY <2>1 DEF Planned
<1>6. Progress'
  <2> SUFFICES ASSUME Judged, NEW g \in Files, g \notin touched, g \notin Current
               PROVE  disk'[g] = IF Written(g)' THEN [lines |-> Wanted(g)', faithful |-> TRUE]
                                                ELSE read'[g]
    BY <1>3 DEF Progress
  <2>1. Written(g)' = Written(g)
    BY <1>1, <1>2 DEF Written
  <2>2. disk[g] = IF Written(g) THEN [lines |-> Wanted(g), faithful |-> TRUE] ELSE read[g]
    BY DEF Consistent, Progress
  <2> QED BY <1>1, <1>2, <2>1, <2>2
<1> QED BY <1>4, <1>5, <1>6 DEF Consistent

\* Every step of a run, of a developer and every kill keeps the invariant.
LEMMA ConsistentStep == Consistent /\ [Next]_vars => Consistent'
<1> SUFFICES ASSUME Consistent, [Next]_vars PROVE Consistent'
  OBVIOUS
<1>1. CASE \E c \in Commands : Start(c)
  BY <1>1, StartStep
<1>2. CASE Select
  BY <1>2, SelectStep
<1>3. CASE ReadFile
  BY <1>3, ReadFileStep
<1>4. CASE Plan
  BY <1>4, PlanStep
<1>5. CASE OpenFile
  BY <1>5, OpenFileStep
<1>6. CASE FillFile
  BY <1>6, FillFileStep
<1>7. CASE Finish
  BY <1>7, FinishStep
<1>8. CASE Return
  BY <1>8, RestStep DEF Return
<1>9. CASE Kill
  BY <1>9, RestStep DEF Kill
<1>10. CASE \E f \in Files, c \in Drafts : Save(f, c)
  BY <1>10, SaveStep
<1>11. CASE \E off \in Configs : Reconfigure(off)
  BY <1>11, QuietStep DEF Reconfigure
<1>12. CASE UNCHANGED vars
  BY <1>12, QuietStep DEF vars
<1> QED BY <1>1, <1>2, <1>3, <1>4, <1>5, <1>6, <1>7, <1>8, <1>9, <1>10, <1>11, <1>12 DEF Next

\* Every file nobody saved since it was read is as the run read it or as the
\* run planned it, by where the run is in its queue; the exit code of a
\* completed run is that of its refusals (run_fix, cmd_fix).
THEOREM Consistency == Spec => []Consistent
<1> QED BY ConsistentInit, ConsistentStep, PTL DEF Spec

-----------------------------------------------------------------------------
(***************************************************************************)
(* The fixers put texts together from pieces that stand for one line each. *)
(***************************************************************************)

\* The fields of a line.
LEMMA LineFields ==
    ASSUME NEW l
    PROVE  l \in Line <=>
             /\ l = [form |-> l.form, depth |-> l.depth, flags |-> l.flags, edits |-> l.edits,
                     ignore |-> l.ignore, clears |-> l.clears, note |-> l.note]
             /\ l.form \in Forms /\ l.depth \in Nat
             /\ l.flags \in SUBSET Rules /\ l.edits \in SUBSET HasFixer
             /\ l.ignore \in SUBSET Rules /\ l.clears \in SUBSET Rules
             /\ l.note \in HasFixer \cup {NoNote}
             /\ l.form = "comment" => l.flags = {}
             /\ l.form \in {"comment", "stray"} => l.edits = {}
BY DEF Line

\* What a comment marker makes of a line's form.
LEMMA MarkedForm ==
    ASSUME NEW l \in Line
    PROVE  /\ Marked(l) \in Forms /\ Marked(l) # "stray"
           /\ Marked(l) = "comment" <=> l.form \notin Strings
           /\ l.form \in Strings => Marked(l) = l.form
BY LineFields DEF Marked, Forms, Strings

\* A TODO is a line no rule reports, unless it landed in a template.
LEMMA NoteTyped ==
    ASSUME NEW l \in Line, NEW r \in HasFixer
    PROVE  /\ Note(r, l) \in Line
           /\ Note(r, l).flags = {} \/ (Echo(Note(r, l)) /\ Note(r, l).flags \subseteq Echoing)
<1> DEFINE f == Marked(l)
           e == IF l.form = "template" /\ r \in Echoing THEN {r} ELSE {}
           n == [form |-> f, depth |-> l.depth, flags |-> e, edits |-> {},
                 ignore |-> {}, clears |-> {}, note |-> r]
           b == [form |-> f, depth |-> l.depth, flags |-> {}, edits |-> {},
                 ignore |-> {}, clears |-> {}, note |-> NoNote]
<1>1. Note(r, l) = n
  <2>1. Bare(f, l.depth) = b
    BY DEF Bare
  <2>2. Note(r, l) = [[b EXCEPT !.note = r] EXCEPT !.flags = e]
    BY <2>1, Zenon DEF Note
  <2> HIDE DEF f, e
  <2>3. [b EXCEPT !.note = r] = [form |-> f, depth |-> l.depth, flags |-> {}, edits |-> {},
                                 ignore |-> {}, clears |-> {}, note |-> r]
    OBVIOUS
  <2>4. [[form |-> f, depth |-> l.depth, flags |-> {}, edits |-> {},
          ignore |-> {}, clears |-> {}, note |-> r] EXCEPT !.flags = e] = n
    OBVIOUS
  <2> QED BY <2>2, <2>3, <2>4
<1>2. l.depth \in Nat /\ f \in Forms /\ f # "stray" /\ (f = "comment" => l.form \notin Strings)
  BY LineFields, MarkedForm
<1>3. e \in SUBSET Rules /\ e \subseteq Echoing /\ (f = "comment" => e = {})
  BY <1>2, FixersAssumption DEF FixersAssumption, Retiring, HasFixer, Strings
<1>4. e # {} => f = "template" /\ r \in Echoing
  BY DEF Marked, Strings
<1> HIDE DEF f, e
<1>5. n \in Line
  BY <1>2, <1>3, LineFields
<1>6. n.flags = {} \/ (Echo(n) /\ n.flags \subseteq Echoing)
  BY <1>3, <1>4 DEF Echo
<1> HIDE DEF n
<1> QED BY <1>1, <1>5, <1>6

\* The fields of a line without r.
LEMMA WithoutFields ==
    ASSUME NEW l \in Line, NEW r
    PROVE  Without(r, l) = [form |-> l.form, depth |-> l.depth, flags |-> l.flags \ {r},
                            edits |-> l.edits \ {r}, ignore |-> l.ignore,
                            clears |-> l.clears, note |-> l.note]
<1> DEFINE m == [l EXCEPT !.flags = l.flags \ {r}]
<1>0. l = [form |-> l.form, depth |-> l.depth, flags |-> l.flags, edits |-> l.edits,
           ignore |-> l.ignore, clears |-> l.clears, note |-> l.note]
  BY LineFields
<1>1. m = [form |-> l.form, depth |-> l.depth, flags |-> l.flags \ {r}, edits |-> l.edits,
           ignore |-> l.ignore, clears |-> l.clears, note |-> l.note]
  BY <1>0
<1>2. Without(r, l) = [m EXCEPT !.edits = m.edits \ {r}]
  BY Zenon DEF Without
<1> HIDE DEF m
<1>3. m.edits = l.edits
  BY <1>1
<1>4. [m EXCEPT !.edits = l.edits \ {r}] =
         [form |-> m.form, depth |-> m.depth, flags |-> m.flags, edits |-> l.edits \ {r},
          ignore |-> m.ignore, clears |-> m.clears, note |-> m.note]
  BY <1>1
<1> QED BY <1>1, <1>2, <1>3, <1>4

\* The fields of a line commented out.
LEMMA CommentedFields ==
    ASSUME NEW l \in Line
    PROVE  Commented(l) = [form |-> Marked(l), depth |-> l.depth,
                           flags |-> IF l.form \in Strings THEN l.flags ELSE {}, edits |-> {},
                           ignore |-> l.ignore,
                           clears |-> IF l.form \in Strings THEN l.clears ELSE {}, note |-> l.note]
<1> DEFINE f == Marked(l)
           e == IF l.form \in Strings THEN l.flags ELSE {}
           c == IF l.form \in Strings THEN l.clears ELSE {}
           m1 == [l EXCEPT !.form = f]
           m2 == [m1 EXCEPT !.edits = {}]
           m3 == [m2 EXCEPT !.flags = IF l.form \in Strings THEN m2.flags ELSE {}]
           m4 == [m3 EXCEPT !.clears = IF l.form \in Strings THEN m3.clears ELSE {}]
<1>1. Commented(l) = m4
  BY Zenon DEF Commented
<1> HIDE DEF f
<1>0. l = [form |-> l.form, depth |-> l.depth, flags |-> l.flags, edits |-> l.edits,
           ignore |-> l.ignore, clears |-> l.clears, note |-> l.note]
  BY LineFields
<1>2. m1 = [form |-> f, depth |-> l.depth, flags |-> l.flags, edits |-> l.edits,
            ignore |-> l.ignore, clears |-> l.clears, note |-> l.note]
  BY <1>0
<1> HIDE DEF m1
<1>3. m2 = [form |-> f, depth |-> l.depth, flags |-> l.flags, edits |-> {},
            ignore |-> l.ignore, clears |-> l.clears, note |-> l.note]
  BY <1>2
<1> HIDE DEF m2
<1>4. (IF l.form \in Strings THEN m2.flags ELSE {}) = e
  BY <1>3
<1> HIDE DEF e
<1>5. m3 = [form |-> f, depth |-> l.depth, flags |-> e, edits |-> {},
            ignore |-> l.ignore, clears |-> l.clears, note |-> l.note]
  <2>1. [m2 EXCEPT !.flags = e] = [form |-> f, depth |-> l.depth, flags |-> e, edits |-> {},
                                   ignore |-> l.ignore, clears |-> l.clears, note |-> l.note]
    BY <1>3
  <2>2. m3 = [m2 EXCEPT !.flags = e]
    BY <1>4, Zenon
  <2> HIDE DEF m3
  <2> QED BY <2>1, <2>2
<1> HIDE DEF m3
<1>6. (IF l.form \in Strings THEN m3.clears ELSE {}) = c
  BY <1>5
<1> HIDE DEF c
<1>7. m4 = [form |-> f, depth |-> l.depth, flags |-> e, edits |-> {},
            ignore |-> l.ignore, clears |-> c, note |-> l.note]
  <2>1. [m3 EXCEPT !.clears = c] = [form |-> f, depth |-> l.depth, flags |-> e, edits |-> {},
                                    ignore |-> l.ignore, clears |-> c, note |-> l.note]
    BY <1>5
  <2>2. m4 = [m3 EXCEPT !.clears = c]
    BY <1>6, Zenon
  <2> HIDE DEF m4
  <2> QED BY <2>1, <2>2
<1> HIDE DEF m4
<1> QED BY <1>1, <1>7 DEF f, e, c

\* The line m may be line l changed: reported by no more rules, under the same
\* directives, and an echo if l was one.
Tamer(l, m) == m.flags \subseteq l.flags /\ m.ignore = l.ignore /\ (Echo(l) => Echo(m))

\* Line m answers what l answers, and no fixer that does not match l matches it.
Answers(l, m) == m.clears = l.clears /\ m.edits \subseteq l.edits

\* A line without r is a line, reported by no more rules and under the same
\* directives, and answers what it did.
LEMMA WithoutTyped ==
    ASSUME NEW l \in Line, NEW r
    PROVE  Without(r, l) \in Line /\ Tamer(l, Without(r, l)) /\ Answers(l, Without(r, l))
<1> DEFINE n == Without(r, l)
<1>1. n = [form |-> l.form, depth |-> l.depth, flags |-> l.flags \ {r},
           edits |-> l.edits \ {r}, ignore |-> l.ignore, clears |-> l.clears, note |-> l.note]
  BY WithoutFields
<1>2. /\ l.form \in Forms /\ l.depth \in Nat /\ l.flags \in SUBSET Rules
      /\ l.edits \in SUBSET HasFixer /\ l.ignore \in SUBSET Rules
      /\ l.clears \in SUBSET Rules /\ l.note \in HasFixer \cup {NoNote}
      /\ l.form = "comment" => l.flags = {}
      /\ l.form \in {"comment", "stray"} => l.edits = {}
  BY LineFields
<1> HIDE DEF n
<1>3. n \in Line
  BY <1>1, <1>2, LineFields
<1>4. Tamer(l, n) /\ Answers(l, n)
  BY <1>1 DEF Tamer, Answers, Echo
<1> QED BY <1>3, <1>4 DEF n

\* A line commented out is a line no more rules report.
LEMMA CommentedTyped ==
    ASSUME NEW l \in Line
    PROVE  Commented(l) \in Line /\ Tamer(l, Commented(l))
<1> DEFINE n == Commented(l)
           f == Marked(l)
           e == IF l.form \in Strings THEN l.flags ELSE {}
           c == IF l.form \in Strings THEN l.clears ELSE {}
<1>1. n = [form |-> f, depth |-> l.depth, flags |-> e, edits |-> {},
           ignore |-> l.ignore, clears |-> c, note |-> l.note]
  BY CommentedFields
<1>2. /\ l.depth \in Nat /\ l.ignore \in SUBSET Rules /\ l.note \in HasFixer \cup {NoNote}
      /\ f \in Forms /\ e \in SUBSET Rules /\ c \in SUBSET Rules
  BY LineFields, MarkedForm
<1>3. f = "comment" => e = {}
  BY MarkedForm
<1>4. Echo(l) => f = "template" /\ l.note \in Echoing
  BY MarkedForm DEF Echo, Strings
<1>5. e \subseteq l.flags
  OBVIOUS
<1> HIDE DEF n, f, e, c
<1>6. n \in Line
  BY <1>1, <1>2, <1>3, LineFields
<1>7. Tamer(l, n)
  BY <1>1, <1>4, <1>5 DEF Tamer, Echo
<1> QED BY <1>6, <1>7 DEF n

\* Nor does a rule report the `pass` put in its place.
LEMMA BareTyped ==
    ASSUME NEW l \in Line
    PROVE  Bare("plain", l.depth) \in Line /\ Bare("plain", l.depth).flags = {}
<1> DEFINE n == [form |-> "plain", depth |-> l.depth, flags |-> {}, edits |-> {},
                 ignore |-> {}, clears |-> {}, note |-> NoNote]
<1>1. Bare("plain", l.depth) = n
  BY DEF Bare
<1>2. l.depth \in Nat
  BY LineFields
<1>3. n \in Line
  BY <1>2, LineFields DEF Forms
<1> QED BY <1>1, <1>3

\* No rule reports line m, or it is an echo.
Quiet(m) == m.flags = {} \/ (Echo(m) /\ m.flags \subseteq Echoing)

\* The lines p may stand for line l: at most one of them is reported, by rules
\* that report l and under the same directive, echoes aside.
Mild(l, p) ==
    /\ p \in Text
    /\ \E k \in Nat : \A j \in 1..Len(p) : IF j = k THEN Tamer(l, p[j]) ELSE Quiet(p[j])

\* Lines no rule reports, echoes aside.
Silent == {s \in Text : \A j \in 1..Len(s) : Quiet(s[j])}

\* The lines p still answer what l does, unless a retiring fixer matches l.
Keeps(l, p) == l.edits \cap Retiring = {} => \E j \in 1..Len(p) : Answers(l, p[j])

\* A line may stand for another that as many rules report.
LEMMA MildOne ==
    ASSUME NEW l, NEW m \in Line, Tamer(l, m)
    PROVE  Mild(l, <<m>>) /\ (Answers(l, m) => Keeps(l, <<m>>))
<1>1. <<m>> \in Text /\ Len(<<m>>) = 1 /\ <<m>>[1] = m
  BY DEF Text
<1>2. \A j \in 1..1 : j = 1
  OBVIOUS
<1> QED BY <1>1, <1>2 DEF Mild, Keeps

\* One line that no rule reports, and no line at all.
LEMMA SilentOne ==
    ASSUME NEW m \in Line, Quiet(m)
    PROVE  <<m>> \in Silent /\ <<>> \in Silent
<1>1. <<m>> \in Text /\ Len(<<m>>) = 1 /\ <<m>>[1] = m
  BY DEF Text
<1>2. <<>> \in Text /\ Len(<<>>) = 0
  BY DEF Text
<1> QED BY <1>1, <1>2 DEF Silent

\* Lines no rule reports may stand for any line,
LEMMA SilentMild ==
    ASSUME NEW l, NEW s \in Silent
    PROVE  Mild(l, s)
<1>1. s \in Text /\ \A j \in 1..Len(s) : j # 0 /\ Quiet(s[j])
  BY DEF Silent
<1> QED BY <1>1 DEF Mild

\* may be put above what stands for one,
LEMMA SilentAbove ==
    ASSUME NEW l, NEW s \in Silent, NEW p, Mild(l, p)
    PROVE  Mild(l, s \o p) /\ (Keeps(l, p) => Keeps(l, s \o p))
<1>1. s \in Seq(Line) /\ p \in Seq(Line) /\ \A j \in 1..Len(s) : Quiet(s[j])
  BY DEF Silent, Mild, Text
<1>2. PICK k \in Nat : \A j \in 1..Len(p) : IF j = k THEN Tamer(l, p[j]) ELSE Quiet(p[j])
  BY DEF Mild
<1>3. /\ s \o p \in Seq(Line) /\ Len(s \o p) = Len(s) + Len(p)
      /\ \A i \in 1..Len(s) + Len(p) : (s \o p)[i] = IF i <= Len(s) THEN s[i] ELSE p[i - Len(s)]
      /\ Len(s) \in Nat /\ Len(p) \in Nat
  BY <1>1, ConcatProperties, LenProperties
<1> DEFINE q == s \o p
           m == IF k = 0 THEN 0 ELSE Len(s) + k
<1> HIDE DEF q
<1>4. ASSUME NEW j \in 1..Len(q)
      PROVE  IF j = m THEN Tamer(l, q[j]) ELSE Quiet(q[j])
  <2>1. CASE j <= Len(s)
    <3>1. q[j] = s[j] /\ j \in 1..Len(s) /\ j # m
      BY <1>3, <2>1 DEF q
    <3> QED BY <1>1, <3>1
  <2>2. CASE ~(j <= Len(s))
    <3>1. q[j] = p[j - Len(s)] /\ j - Len(s) \in 1..Len(p) /\ (j = m <=> j - Len(s) = k)
      BY <1>3, <2>2 DEF q
    <3> HIDE DEF m
    <3> QED BY <1>2, <3>1
  <2> QED BY <2>1, <2>2
<1>5. m \in Nat /\ q \in Text
  BY <1>3 DEF Text, q
<1>6. ASSUME Keeps(l, p), l.edits \cap Retiring = {}
      PROVE  \E j \in 1..Len(q) : Answers(l, q[j])
  <2>1. PICK j \in 1..Len(p) : Answers(l, p[j])
    BY <1>6 DEF Keeps
  <2>2. Len(s) + j \in 1..Len(q) /\ q[Len(s) + j] = p[j]
    BY <1>3 DEF q
  <2> QED BY <2>1, <2>2
<1> HIDE DEF m
<1>7. Mild(l, q)
  BY <1>4, <1>5 DEF Mild
<1> QED BY <1>6, <1>7 DEF q, Keeps

\* and below it.
LEMMA SilentBelow ==
    ASSUME NEW l, NEW p, Mild(l, p), NEW s \in Silent
    PROVE  Mild(l, p \o s)
<1>1. s \in Seq(Line) /\ p \in Seq(Line) /\ \A j \in 1..Len(s) : Quiet(s[j])
  BY DEF Silent, Mild, Text
<1>2. PICK k \in Nat : \A j \in 1..Len(p) : IF j = k THEN Tamer(l, p[j]) ELSE Quiet(p[j])
  BY DEF Mild
<1>3. /\ p \o s \in Seq(Line) /\ Len(p \o s) = Len(p) + Len(s)
      /\ \A i \in 1..Len(p) + Len(s) : (p \o s)[i] = IF i <= Len(p) THEN p[i] ELSE s[i - Len(p)]
      /\ Len(s) \in Nat /\ Len(p) \in Nat
  BY <1>1, ConcatProperties, LenProperties
<1> DEFINE q == p \o s
           m == IF k <= Len(p) THEN k ELSE 0
<1> HIDE DEF q
<1>4. ASSUME NEW j \in 1..Len(q)
      PROVE  IF j = m THEN Tamer(l, q[j]) ELSE Quiet(q[j])
  <2>1. CASE j <= Len(p)
    <3>1. q[j] = p[j] /\ j \in 1..Len(p) /\ (j = m <=> j = k)
      BY <1>3, <2>1 DEF q
    <3> HIDE DEF m
    <3> QED BY <1>2, <3>1
  <2>2. CASE ~(j <= Len(p))
    <3>1. q[j] = s[j - Len(p)] /\ j - Len(p) \in 1..Len(s) /\ j # m
      BY <1>3, <2>2 DEF q
    <3> QED BY <1>1, <3>1
  <2> QED BY <2>1, <2>2
<1>5. m \in Nat /\ q \in Text
  BY <1>3 DEF Text, q
<1> HIDE DEF m
<1>6. Mild(l, q)
  BY <1>4, <1>5 DEF Mild
<1> QED BY <1>6 DEF q

-----------------------------------------------------------------------------
\* A line stands for itself.
LEMMA MildSelf ==
    ASSUME NEW l \in Line
    PROVE  Mild(l, <<l>>) /\ Keeps(l, <<l>>)
<1>1. Tamer(l, l) /\ Answers(l, l)
  BY DEF Tamer, Answers
<1> QED BY <1>1, MildOne

\* What a retiring fixer puts for a line may stand for it,
LEMMA RetiredMild ==
    ASSUME NEW l \in Line, NEW alone \in BOOLEAN
    PROVE  Mild(l, Retired(l, alone))
<1> DEFINE tail == IF alone THEN <<Bare("plain", l.depth)>> ELSE <<>>
<1>1. Mild(l, <<Commented(l)>>)
  BY CommentedTyped, MildOne
<1>2. tail \in Silent
  BY BareTyped, SilentOne DEF Quiet
<1>3. Retired(l, alone) = <<Commented(l)>> \o tail
  BY Zenon DEF Retired
<1> HIDE DEF tail
<1> QED BY <1>1, <1>2, <1>3, SilentBelow

\* so may what is left of an import,
LEMMA StrippedLineMild ==
    ASSUME NEW l \in Line, NEW r \in Retiring
    PROVE  Mild(l, StrippedLine(r, l)) /\ Keeps(l, StrippedLine(r, l))
<1> DEFINE rest == IF l.edits = {r} THEN <<>> ELSE <<Without(r, l)>>
<1>1. Mild(l, <<l>>) /\ Keeps(l, <<l>>)
  BY MildSelf
<1>2. r \in HasFixer
  BY DEF Retiring
<1>3. <<Note(r, l)>> \in Silent /\ <<>> \in Silent
  BY <1>2, NoteTyped, SilentOne DEF Quiet
<1>4. Mild(l, rest)
  BY <1>3, WithoutTyped, MildOne, SilentMild
<1>5. StrippedLine(r, l) = <<l>> \/ (r \in l.edits /\ StrippedLine(r, l) = <<Note(r, l)>> \o rest)
  BY DEF StrippedLine
<1> HIDE DEF rest
<1>6. Mild(l, <<Note(r, l)>> \o rest)
  BY <1>3, <1>4, SilentAbove
<1>7. r \in l.edits => Keeps(l, StrippedLine(r, l))
  BY DEF Keeps
<1> QED BY <1>1, <1>5, <1>6, <1>7

\* A TODO, or none, is reported by no rule, unless it is an echo.
LEMMA TodoSilent ==
    ASSUME NEW l \in Line, NEW r \in HasFixer, NEW above
    PROVE  Todo(r, l, above) \in Silent
<1>1. Note(r, l) \in Line /\ Quiet(Note(r, l))
  BY NoteTyped DEF Quiet
<1>2. <<Note(r, l)>> \in Silent /\ <<>> \in Silent
  BY <1>1, SilentOne
<1> QED BY <1>2, Zenon DEF Todo

\* so may what a fixer of any family makes of a line.
LEMMA FixedLineMild ==
    ASSUME NEW r \in HasFixer, NEW python, NEW now \in Text, NEW i \in 1..Len(now),
           NEW before, NEW sole, NEW above
    PROVE  /\ Mild(now[i], FixedLine(r, python, now, i, before, sole, above))
           /\ Keeps(now[i], FixedLine(r, python, now, i, before, sole, above))
<1> DEFINE l == now[i]
           p == FixedLine(r, python, now, i, before, sole, above)
           hit == Hits(r, python, now, i, before)
           rest == IF Commentable(r, l, i, before) THEN Retired(l, i \in sole) ELSE <<l>>
<1>1. l \in Line
  BY DEF Text
<1>2. Mild(l, <<l>>) /\ Keeps(l, <<l>>)
  BY <1>1, MildSelf
<1>3. CASE ~hit
  <2>1. p = <<l>>
    BY <1>3 DEF FixedLine
  <2> QED BY <1>2, <2>1
<1>4. CASE hit /\ r \in Rewriting
  <2>1. p = <<Without(r, l)>>
    BY <1>4, FixersAssumption DEF FixedLine, Retiring, FixersAssumption
  <2>2. Mild(l, <<Without(r, l)>>) /\ Keeps(l, <<Without(r, l)>>)
    BY <1>1, WithoutTyped, MildOne
  <2> QED BY <2>1, <2>2
<1>5. CASE hit /\ r \in Annotating
  <2>1. p = Todo(r, l, above) \o <<l>>
    BY <1>5, FixersAssumption DEF FixedLine, Retiring, FixersAssumption
  <2>2. Mild(l, Todo(r, l, above) \o <<l>>) /\ Keeps(l, Todo(r, l, above) \o <<l>>)
    BY <1>1, <1>2, TodoSilent, SilentAbove
  <2> QED BY <2>1, <2>2
<1>6. CASE hit /\ r \in Retiring
  <2>1. p = Todo(r, l, above) \o rest
    BY <1>6, FixersAssumption DEF FixedLine, Retiring, FixersAssumption
  <2>2. Mild(l, rest)
    <3>1. (i \in sole) \in BOOLEAN
      OBVIOUS
    <3>2. Mild(l, Retired(l, i \in sole))
      BY <1>1, <3>1, RetiredMild
    <3> QED BY <1>2, <3>2
  <2> HIDE DEF rest
  <2>3. Mild(l, Todo(r, l, above) \o rest)
    BY <1>1, <2>2, TodoSilent, SilentAbove
  <2>4. Keeps(l, p)
    BY <1>6 DEF Keeps, Hits
  <2> QED BY <2>1, <2>3, <2>4
<1> QED BY <1>3, <1>4, <1>5, <1>6 DEF Retiring

\* The findings of a rule in a text are finitely many.
LEMMA FindingsCount ==
    ASSUME NEW text \in Text, NEW q
    PROVE  /\ Findings(q, text) \subseteq 1..Len(text) /\ Len(text) \in Nat
           /\ IsFiniteSet(Findings(q, text)) /\ Cardinality(Findings(q, text)) \in Nat
<1>1. Findings(q, text) \subseteq 1..Len(text) /\ Len(text) \in Nat
  BY DEF Findings, Text
<1>2. IsFiniteSet(1..Len(text))
  BY <1>1, FS_Interval
<1>3. IsFiniteSet(Findings(q, text))
  BY <1>1, <1>2, FS_Subset
<1> QED BY <1>1, <1>3, FS_CardinalityType


\* A text put together from pieces that stand for the lines of `now` has no
\* more findings of a rule than `now` has.
LEMMA PiecesAddNothing ==
    ASSUME NEW now \in Text, NEW out \in [0..Len(now) -> Text], NEW P,
           out[0] = <<>>,
           \A i \in 1..Len(now) : Mild(now[i], P[i]) /\ out[i] = out[i - 1] \o P[i],
           NEW q
    PROVE  Cardinality(Findings(q, out[Len(now)])) <= Cardinality(Findings(q, now))
<1> DEFINE First(i) == {j \in Findings(q, now) : j <= i}
           Kept == {i \in 0..Len(now) : Cardinality(Findings(q, out[i])) <= Cardinality(First(i))}
<1>1. Len(now) \in Nat /\ Findings(q, now) \subseteq 1..Len(now)
  BY DEF Text, Findings
<1>2. ASSUME NEW i \in 0..Len(now)
      PROVE  /\ IsFiniteSet(First(i)) /\ Cardinality(First(i)) \in Nat
             /\ IsFiniteSet(Findings(q, out[i])) /\ Cardinality(Findings(q, out[i])) \in Nat
  <2>1. First(i) \subseteq 1..Len(now)
    BY <1>1
  <2>2. Findings(q, out[i]) \subseteq 1..Len(out[i]) /\ Len(out[i]) \in Nat
    BY DEF Text, Findings
  <2>3. IsFiniteSet(1..Len(now)) /\ IsFiniteSet(1..Len(out[i]))
    BY <1>1, <2>2, FS_Interval
  <2> HIDE DEF First
  <2>4. IsFiniteSet(First(i)) /\ IsFiniteSet(Findings(q, out[i]))
    BY <2>1, <2>2, <2>3, FS_Subset
  <2> QED BY <2>4, FS_CardinalityType
<1>7. \A i \in 0..Len(now) : i \in Kept <=> Cardinality(Findings(q, out[i])) <= Cardinality(First(i))
  OBVIOUS
<1> HIDE DEF Kept
<1>3. 0 \in Kept
  <2>1. Findings(q, out[0]) = {}
    BY DEF Findings
  <2>2. Cardinality(Findings(q, out[0])) = 0
    BY <2>1, FS_EmptySet
  <2> QED BY <1>1, <1>2, <1>7, <2>2
<1>4. ASSUME NEW i \in 1..Len(now), i - 1 \in Kept PROVE i \in Kept
  <2>1. PICK k \in Nat : \A j \in 1..Len(P[i]) : IF j = k THEN Tamer(now[i], P[i][j]) ELSE Quiet(P[i][j])
    BY DEF Mild
  <2> DEFINE s == out[i - 1]
             p == P[i]
             new == Len(s) + k
  <2>2. s \in Seq(Line) /\ p \in Seq(Line) /\ out[i] = s \o p
    BY <1>1 DEF Mild, Text
  <2> HIDE DEF s, p
  <2>3. /\ Len(s) \in Nat /\ Len(p) \in Nat /\ Len(s \o p) = Len(s) + Len(p)
        /\ \A j \in 1..Len(s) + Len(p) : (s \o p)[j] = IF j <= Len(s) THEN s[j] ELSE p[j - Len(s)]
        /\ DOMAIN (s \o p) = 1..Len(s) + Len(p) /\ DOMAIN s = 1..Len(s)
    BY <2>2, ConcatProperties, LenProperties
  <2>4. ASSUME NEW j \in Findings(q, s \o p), j \notin Findings(q, s)
        PROVE  j = new /\ i \in Findings(q, now)
    <3>1. j \in 1..Len(s) + Len(p) /\ q \in (s \o p)[j].flags \ (s \o p)[j].ignore /\ ~Echo((s \o p)[j])
      BY <2>3, <2>4 DEF Findings
    <3>2. ~(j <= Len(s))
      BY <2>3, <2>4, <3>1 DEF Findings
    <3>3. /\ j - Len(s) \in 1..Len(p)
          /\ q \in p[j - Len(s)].flags \ p[j - Len(s)].ignore /\ ~Echo(p[j - Len(s)])
      BY <2>3, <3>1, <3>2
    <3>4. j - Len(s) = k
      BY <2>1, <3>3 DEF p, Quiet
    <3>5. q \in now[i].flags \ now[i].ignore /\ ~Echo(now[i])
      BY <2>1, <3>3, <3>4 DEF p, Tamer
    <3>6. i \in Findings(q, now)
      BY <3>5 DEF Findings, Text
    <3> QED BY <2>3, <3>1, <3>4, <3>6
  <2> DEFINE had == Findings(q, s)
             has == Findings(q, s \o p)
             before == First(i - 1)
             upto == First(i)
  <2>5. /\ IsFiniteSet(had) /\ Cardinality(had) \in Nat /\ Cardinality(has) \in Nat
        /\ IsFiniteSet(before) /\ Cardinality(before) \in Nat /\ Cardinality(upto) \in Nat
        /\ Cardinality(had) <= Cardinality(before)
    <3>1. i \in 0..Len(now) /\ i - 1 \in 0..Len(now)
      BY <1>1
    <3> HIDE DEF First
    <3> QED BY <1>2, <1>4, <1>7, <2>2, <3>1 DEF s
  <2>6. CASE i \in Findings(q, now)
    <3>1. upto = before \cup {i} /\ i \notin before
      BY <1>1, <2>6
    <3>2. has \subseteq had \cup {new}
      BY <2>4
    <3> HIDE DEF had, has, before, upto, new
    <3>3. Cardinality(upto) = Cardinality(before) + 1
      BY <2>5, <3>1, FS_AddElement
    <3>4. /\ IsFiniteSet(had \cup {new})
          /\ Cardinality(had \cup {new}) = Cardinality(had)
             \/ Cardinality(had \cup {new}) = Cardinality(had) + 1
      BY <2>5, FS_AddElement
    <3>5. Cardinality(has) <= Cardinality(had \cup {new})
      BY <3>2, <3>4, FS_Subset
    <3>6. Cardinality(has) <= Cardinality(upto)
      BY <2>5, <3>3, <3>4, <3>5
    <3>7. i \in 0..Len(now)
      BY <1>1
    <3> QED BY <1>7, <2>2, <3>6, <3>7 DEF has, upto
  <2>7. CASE i \notin Findings(q, now)
    <3>2. upto = before
      BY <1>1, <2>7
    <3>3. has \subseteq had
      BY <2>4, <2>7
    <3> HIDE DEF had, has, before, upto
    <3>4. Cardinality(has) <= Cardinality(had)
      BY <2>5, <3>3, FS_Subset
    <3>5. Cardinality(has) <= Cardinality(upto)
      BY <2>5, <3>2, <3>4
    <3>6. i \in 0..Len(now)
      BY <1>1
    <3> QED BY <1>7, <2>2, <3>5, <3>6 DEF has, upto
  <2> QED BY <2>6, <2>7
<1>5. Len(now) \in 0..Len(now) /\ Len(now) \in Kept
  <2>1. 0..Len(now) \subseteq Kept
    BY <1>1, <1>3, <1>4, UpTo
  <2> QED BY <1>1, <2>1
<1>6. First(Len(now)) = Findings(q, now)
  BY <1>1
<1> HIDE DEF First
<1> QED BY <1>5, <1>6, <1>7

\* Rule q has cause in a text.
Causes(q, text) == \E i \in 1..Len(text) : q \in text[i].flags

\* Rule q is answered by a line no retiring fixer matches.
Stands(q, text) == \E i \in 1..Len(text) : q \in text[i].clears /\ text[i].edits \cap Retiring = {}

\* Nor does it give a rule cause that had none,
LEMMA PiecesCauseNothing ==
    ASSUME NEW now \in Text, NEW out \in [0..Len(now) -> Text], NEW P,
           out[0] = <<>>,
           \A i \in 1..Len(now) : Mild(now[i], P[i]) /\ out[i] = out[i - 1] \o P[i],
           NEW q, q \notin Echoing, Causes(q, out[Len(now)])
    PROVE  Causes(q, now)
<1> DEFINE Kept == {i \in 0..Len(now) : Causes(q, out[i]) => Causes(q, now)}
<1>1. Len(now) \in Nat
  BY DEF Text
<1>2. 0 \in Kept
  BY <1>1 DEF Causes
<1>3. ASSUME NEW i \in 1..Len(now), i - 1 \in Kept PROVE i \in Kept
  <2>1. PICK k \in Nat : \A j \in 1..Len(P[i]) : IF j = k THEN Tamer(now[i], P[i][j]) ELSE Quiet(P[i][j])
    BY DEF Mild
  <2> DEFINE s == out[i - 1]
             p == P[i]
  <2>2. s \in Seq(Line) /\ p \in Seq(Line) /\ out[i] = s \o p
    <3>1. i - 1 \in 0..Len(now)
      BY <1>1
    <3>2. s \in Text
      BY <3>1
    <3>3. p \in Text /\ out[i] = s \o p
      BY DEF Mild
    <3> HIDE DEF s, p
    <3> QED BY <3>2, <3>3 DEF Text
  <2>3. \A j \in 1..Len(p) : q \in p[j].flags => q \in now[i].flags
    BY <2>1 DEF Tamer, Quiet
  <2>4. Causes(q, s) => Causes(q, now)
    BY <1>3
  <2> HIDE DEF s, p
  <2>5. /\ Len(s) \in Nat /\ Len(p) \in Nat /\ Len(s \o p) = Len(s) + Len(p)
        /\ \A j \in 1..Len(s) + Len(p) : (s \o p)[j] = IF j <= Len(s) THEN s[j] ELSE p[j - Len(s)]
    BY <2>2, ConcatProperties, LenProperties
  <2>6. ASSUME NEW j \in 1..Len(s \o p), q \in (s \o p)[j].flags PROVE Causes(q, now)
    <3>1. CASE j <= Len(s)
      <4>1. j \in 1..Len(s) /\ q \in s[j].flags
        BY <2>5, <2>6, <3>1
      <4> QED BY <2>4, <4>1 DEF Causes
    <3>2. CASE ~(j <= Len(s))
      <4>1. j - Len(s) \in 1..Len(p) /\ q \in p[j - Len(s)].flags
        BY <2>5, <2>6, <3>2
      <4> QED BY <2>3, <4>1 DEF Causes
    <3> QED BY <3>1, <3>2
  <2>7. Causes(q, s \o p) => Causes(q, now)
    BY <2>6 DEF Causes
  <2>8. i \in 0..Len(now)
    BY <1>1
  <2> QED BY <2>2, <2>7, <2>8
<1>4. Len(now) \in Kept
  <2> HIDE DEF Kept
  <2>1. 0..Len(now) \subseteq Kept
    BY <1>1, <1>2, <1>3, UpTo
  <2> QED BY <1>1, <2>1
<1> QED BY <1>4

\* nor does an answer go that no retiring fixer matches.
LEMMA PiecesAnswer ==
    ASSUME NEW now \in Text, NEW out \in [0..Len(now) -> Text], NEW P,
           \A i \in 1..Len(now) : P[i] \in Text /\ Keeps(now[i], P[i]) /\ out[i] = out[i - 1] \o P[i],
           NEW q, Stands(q, now)
    PROVE  Stands(q, out[Len(now)])
<1>1. Len(now) \in Nat
  BY DEF Text
<1>2. PICK a \in 1..Len(now) : q \in now[a].clears /\ now[a].edits \cap Retiring = {}
  BY DEF Stands
<1> DEFINE Kept == {i \in 0..Len(now) : i >= a => Stands(q, out[i])}
<1>3. 0 \in Kept
  BY <1>1, <1>2
<1>4. ASSUME NEW i \in 1..Len(now), i - 1 \in Kept PROVE i \in Kept
  <2> DEFINE s == out[i - 1]
             p == P[i]
  <2>1. s \in Seq(Line) /\ p \in Seq(Line) /\ out[i] = s \o p
    <3>1. i - 1 \in 0..Len(now)
      BY <1>1
    <3>2. s \in Text
      BY <3>1
    <3>3. p \in Text /\ out[i] = s \o p
      OBVIOUS
    <3> HIDE DEF s, p
    <3> QED BY <3>2, <3>3 DEF Text
  <2>2. i - 1 >= a => Stands(q, s)
    BY <1>4
  <2>3. i = a => Stands(q, p)
    <3> SUFFICES ASSUME i = a PROVE Stands(q, p)
      OBVIOUS
    <3>1. PICK j \in 1..Len(P[i]) : Answers(now[i], P[i][j])
      BY <1>2 DEF Keeps
    <3>2. q \in P[i][j].clears /\ P[i][j].edits \cap Retiring = {}
      BY <1>2, <3>1 DEF Answers
    <3> QED BY <3>1, <3>2 DEF Stands
  <2> HIDE DEF s, p
  <2>4. /\ Len(s) \in Nat /\ Len(p) \in Nat /\ Len(s \o p) = Len(s) + Len(p)
        /\ \A j \in 1..Len(s) + Len(p) : (s \o p)[j] = IF j <= Len(s) THEN s[j] ELSE p[j - Len(s)]
    BY <2>1, ConcatProperties, LenProperties
  <2>5. ASSUME Stands(q, s) PROVE Stands(q, s \o p)
    <3>1. PICK j \in 1..Len(s) : q \in s[j].clears /\ s[j].edits \cap Retiring = {}
      BY <2>5 DEF Stands
    <3>2. j \in 1..Len(s \o p) /\ (s \o p)[j] = s[j]
      BY <2>4
    <3> QED BY <3>1, <3>2 DEF Stands
  <2>6. ASSUME Stands(q, p) PROVE Stands(q, s \o p)
    <3>1. PICK j \in 1..Len(p) : q \in p[j].clears /\ p[j].edits \cap Retiring = {}
      BY <2>6 DEF Stands
    <3>2. Len(s) + j \in 1..Len(s \o p) /\ (s \o p)[Len(s) + j] = p[j]
      BY <2>4
    <3> QED BY <3>1, <3>2 DEF Stands
  <2>7. i >= a => i = a \/ i - 1 >= a
    BY <1>2
  <2>8. i \in 0..Len(now)
    BY <1>1
  <2> QED BY <2>1, <2>2, <2>3, <2>5, <2>6, <2>7, <2>8
<1>5. Len(now) \in Kept
  <2> HIDE DEF Kept
  <2>1. 0..Len(now) \subseteq Kept
    BY <1>1, <1>3, <1>4, UpTo
  <2> QED BY <1>1, <2>1
<1>6. Len(now) >= a
  BY <1>1
<1> QED BY <1>5, <1>6

\* Text b is no worse than text a.
NoWorse(a, b) ==
    \A q \in Rules : /\ Cardinality(Findings(q, b)) <= Cardinality(Findings(q, a))
                     /\ q \notin Echoing /\ Causes(q, b) => Causes(q, a)
                     /\ Stands(q, a) => Stands(q, b)

\* The texts put together from pieces are no worse than what they stand for.
LEMMA PiecesNoWorse ==
    ASSUME NEW now \in Text, NEW out \in [0..Len(now) -> Text], NEW P,
           out[0] = <<>>,
           \A i \in 1..Len(now) : /\ Mild(now[i], P[i]) /\ Keeps(now[i], P[i])
                                  /\ out[i] = out[i - 1] \o P[i]
    PROVE  NoWorse(now, out[Len(now)])
<1> SUFFICES ASSUME NEW q \in Rules
             PROVE  /\ Cardinality(Findings(q, out[Len(now)])) <= Cardinality(Findings(q, now))
                    /\ q \notin Echoing /\ Causes(q, out[Len(now)]) => Causes(q, now)
                    /\ Stands(q, now) => Stands(q, out[Len(now)])
  BY DEF NoWorse
<1>1. \A i \in 1..Len(now) : P[i] \in Text
  BY DEF Mild
<1>2. Cardinality(Findings(q, out[Len(now)])) <= Cardinality(Findings(q, now))
  BY PiecesAddNothing
<1>3. q \notin Echoing /\ Causes(q, out[Len(now)]) => Causes(q, now)
  BY PiecesCauseNothing
<1>4. Stands(q, now) => Stands(q, out[Len(now)])
  BY <1>1, PiecesAnswer
<1> QED BY <1>2, <1>3, <1>4

\* That is an order.
LEMMA NoWorseOrder ==
    /\ \A a \in Text : NoWorse(a, a)
    /\ \A a, b, c \in Text : NoWorse(a, b) /\ NoWorse(b, c) => NoWorse(a, c)
<1>1. \A t \in Text : \A q : Cardinality(Findings(q, t)) \in Nat
  BY FindingsCount
<1>2. \A a \in Text : NoWorse(a, a)
  BY <1>1 DEF NoWorse
<1>3. ASSUME NEW a \in Text, NEW b \in Text, NEW c \in Text, NoWorse(a, b), NoWorse(b, c)
      PROVE  NoWorse(a, c)
  <2> SUFFICES ASSUME NEW q \in Rules
               PROVE  /\ Cardinality(Findings(q, c)) <= Cardinality(Findings(q, a))
                      /\ q \notin Echoing /\ Causes(q, c) => Causes(q, a)
                      /\ Stands(q, a) => Stands(q, c)
    BY DEF NoWorse
  <2>1. /\ Cardinality(Findings(q, b)) <= Cardinality(Findings(q, a))
        /\ q \notin Echoing /\ Causes(q, b) => Causes(q, a)
        /\ Stands(q, a) => Stands(q, b)
    BY <1>3 DEF NoWorse
  <2>2. /\ Cardinality(Findings(q, c)) <= Cardinality(Findings(q, b))
        /\ q \notin Echoing /\ Causes(q, c) => Causes(q, b)
        /\ Stands(q, b) => Stands(q, c)
    BY <1>3 DEF NoWorse
  <2> QED BY <1>1, <2>1, <2>2
<1> QED BY <1>2, <1>3

\* strip_import_members leaves a text, and no worse a one.
LEMMA StrippedAddsNothing ==
    ASSUME NEW r \in Retiring, NEW text \in Text
    PROVE  Stripped(r, text) \in Text /\ NoWorse(text, Stripped(r, text))
<1> DEFINE n == Len(text)
           Next1(f) == [i \in 0..n |-> IF i = 0 THEN <<>>
                                       ELSE f[i - 1] \o StrippedLine(r, text[i])]
           out == CHOOSE f : f = Next1(f)
<1>1. Stripped(r, text) = out[n]
  BY DEF Stripped
<1>2. text \in Text
  OBVIOUS
<1>3. n \in Nat /\ <<>> \in Text
  BY DEF Text
<1>4. \A i \in 1..n : /\ Mild(text[i], StrippedLine(r, text[i]))
                     /\ Keeps(text[i], StrippedLine(r, text[i]))
                     /\ StrippedLine(r, text[i]) \in Text
  <2>1. \A i \in 1..n : text[i] \in Line
    BY DEF Text
  <2>2. \A i \in 1..n : /\ Mild(text[i], StrippedLine(r, text[i]))
                       /\ Keeps(text[i], StrippedLine(r, text[i]))
    BY <2>1, StrippedLineMild
  <2> QED BY <2>2 DEF Mild
<1> HIDE DEF n
<1>5. \A s, p \in Text : s \o p \in Text
  BY ConcatProperties DEF Text
<1> DEFINE F == [x \in (1..n) \X Text |-> x[2] \o StrippedLine(r, text[x[1]])]
<1>6. F \in [(1..n) \X Text -> Text]
  BY <1>4, <1>5
<1>7. \A i \in 1..n : \A s \in Text : F[<<i, s>>] = s \o StrippedLine(r, text[i])
  OBVIOUS
<1> HIDE DEF F
<1>8. out = Next1(out)
  <2>1. PICK f \in [0..n -> Text] : f[0] = <<>> /\ \A i \in 1..n : f[i] = F[<<i, f[i - 1]>>]
    <3>1. Steps(n, Text, <<>>, F) # {}
      BY <1>3, <1>6, StepsExist
    <3> QED BY <3>1 DEF Steps
  <2>2. \A i \in 1..n : f[i - 1] \in Text
    BY <1>3
  <2>3. \A i \in 1..n : f[i] = f[i - 1] \o StrippedLine(r, text[i])
    BY <1>7, <2>1, <2>2
  <2>4. \A i \in 0..n : i = 0 \/ i \in 1..n
    BY <1>3
  <2>5. f = Next1(f)
    BY <2>1, <2>3, <2>4
  <2> HIDE DEF Next1
  <2> QED BY <2>5
<1> HIDE DEF out
<1>9. /\ out = [i \in 0..n |-> out[i]] /\ out[0] = <<>>
      /\ \A i \in 1..n : out[i] = out[i - 1] \o StrippedLine(r, text[i])
  <2>1. \A i \in 0..n : out[i] = IF i = 0 THEN <<>>
                                   ELSE out[i - 1] \o StrippedLine(r, text[i])
    BY <1>8, Zenon
  <2>2. out = [i \in 0..n |-> out[i]]
    BY <1>8
  <2> QED BY <1>3, <2>1, <2>2
<1>10. out \in [0..n -> Text]
  <2>1. \A i \in 1..n : out[i - 1] \in Text => out[i] \in Text
    BY <1>4, <1>5, <1>9
  <2> QED BY <1>3, <1>9, <2>1, StepsStay
<1> DEFINE P == [i \in 1..n |-> StrippedLine(r, text[i])]
<1>11. \A i \in 1..n : P[i] = StrippedLine(r, text[i])
  OBVIOUS
<1> HIDE DEF P
<1>12. \A i \in 1..n : Mild(text[i], P[i]) /\ Keeps(text[i], P[i]) /\ out[i] = out[i - 1] \o P[i]
  BY <1>4, <1>9, <1>11
<1>13. NoWorse(text, out[n])
  BY <1>2, <1>9, <1>10, <1>12, PiecesNoWorse DEF n
<1> QED BY <1>1, <1>3, <1>10, <1>13

\* A fixer leaves a text, and no worse a one.
LEMMA FixedAddsNothing ==
    ASSUME NEW r \in HasFixer, NEW python \in BOOLEAN, NEW before \in Text
    PROVE  Fixed(r, python, before) \in Text /\ NoWorse(before, Fixed(r, python, before))
<1> DEFINE now == IF r \in StripsImports /\ python THEN Stripped(r, before) ELSE before
           sole == IF r \in MindsBodies /\ python THEN SoleLines(now) ELSE {}
           n == Len(now)
           Next1(f) == [i \in 0..n |-> IF i = 0 THEN <<>>
                           ELSE f[i - 1] \o FixedLine(r, python, now, i, before, sole, f[i - 1])]
           out == CHOOSE f : f = Next1(f)
<1>1. Fixed(r, python, before) = out[n]
  BY DEF Fixed
<1>2. now \in Text /\ NoWorse(before, now)
  <2>1. r \in StripsImports => r \in Retiring
    BY FixersAssumption DEF FixersAssumption
  <2> QED BY <2>1, StrippedAddsNothing, NoWorseOrder
<1> HIDE DEF sole
<1> HIDE DEF now
<1>3. n \in Nat /\ <<>> \in Text
  BY <1>2 DEF Text
<1>4. \A i \in 1..n : \A s :
         /\ Mild(now[i], FixedLine(r, python, now, i, before, sole, s))
         /\ Keeps(now[i], FixedLine(r, python, now, i, before, sole, s))
         /\ FixedLine(r, python, now, i, before, sole, s) \in Text
  <2>1. ASSUME NEW i \in 1..n, NEW s
        PROVE  /\ Mild(now[i], FixedLine(r, python, now, i, before, sole, s))
               /\ Keeps(now[i], FixedLine(r, python, now, i, before, sole, s))
    BY <1>2, FixedLineMild
  <2> QED BY <2>1 DEF Mild
<1> HIDE DEF n
<1>5. \A s, p \in Text : s \o p \in Text
  BY ConcatProperties DEF Text
<1> DEFINE F == [x \in (1..n) \X Text |-> x[2] \o FixedLine(r, python, now, x[1], before, sole, x[2])]
<1>6. F \in [(1..n) \X Text -> Text]
  BY <1>4, <1>5
<1>7. \A i \in 1..n : \A s \in Text : F[<<i, s>>] = s \o FixedLine(r, python, now, i, before, sole, s)
  OBVIOUS
<1> HIDE DEF F
<1>8. out = Next1(out)
  <2>1. PICK f \in [0..n -> Text] : f[0] = <<>> /\ \A i \in 1..n : f[i] = F[<<i, f[i - 1]>>]
    <3>1. Steps(n, Text, <<>>, F) # {}
      BY <1>3, <1>6, StepsExist
    <3> QED BY <3>1 DEF Steps
  <2>2. \A i \in 1..n : f[i - 1] \in Text
    BY <1>3
  <2>3. \A i \in 1..n : f[i] = f[i - 1] \o FixedLine(r, python, now, i, before, sole, f[i - 1])
    BY <1>7, <2>1, <2>2
  <2>4. \A i \in 0..n : i = 0 \/ i \in 1..n
    BY <1>3
  <2>5. f = Next1(f)
    BY <2>1, <2>3, <2>4
  <2> HIDE DEF Next1
  <2> QED BY <2>5
<1> HIDE DEF out
<1>9. /\ out = [i \in 0..n |-> out[i]] /\ out[0] = <<>>
      /\ \A i \in 1..n : out[i] = out[i - 1] \o FixedLine(r, python, now, i, before, sole, out[i - 1])
  <2>1. \A i \in 0..n : out[i] = IF i = 0 THEN <<>>
                                   ELSE out[i - 1] \o FixedLine(r, python, now, i, before, sole, out[i - 1])
    BY <1>8, Zenon
  <2>2. out = [i \in 0..n |-> out[i]]
    BY <1>8
  <2> QED BY <1>3, <2>1, <2>2
<1>10. out \in [0..n -> Text]
  <2>1. \A i \in 1..n : out[i - 1] \in Text => out[i] \in Text
    BY <1>4, <1>5, <1>9
  <2> QED BY <1>3, <1>9, <2>1, StepsStay
<1> DEFINE P == [i \in 1..n |-> FixedLine(r, python, now, i, before, sole, out[i - 1])]
<1>11. \A i \in 1..n : P[i] = FixedLine(r, python, now, i, before, sole, out[i - 1])
  OBVIOUS
<1> HIDE DEF P
<1>12. \A i \in 1..n : Mild(now[i], P[i]) /\ Keeps(now[i], P[i]) /\ out[i] = out[i - 1] \o P[i]
  BY <1>4, <1>9, <1>11
<1>13. NoWorse(now, out[n])
  BY <1>2, <1>9, <1>10, <1>12, PiecesNoWorse DEF n
<1>14. out[n] \in Text
  BY <1>3, <1>10
<1>15. NoWorse(before, out[n])
  BY <1>2, <1>13, <1>14, NoWorseOrder
<1> QED BY <1>1, <1>14, <1>15

\* So do the fixers one after another.
LEMMA ChainedAddsNothing ==
    ASSUME NEW rs, NEW python \in BOOLEAN, NEW text \in Text
    PROVE  Chained(rs, python, text) \in Text /\ NoWorse(text, Chained(rs, python, text))
<1> DEFINE n == Len(Order)
           V == {t \in Text : NoWorse(text, t)}
           Next1(c) == [i \in 0..n |-> IF i = 0 THEN text
                                       ELSE IF Order[i] \in rs THEN Fixed(Order[i], python, c[i - 1])
                                       ELSE c[i - 1]]
           chain == CHOOSE c : c = Next1(c)
           F == [x \in (1..n) \X V |-> IF Order[x[1]] \in rs THEN Fixed(Order[x[1]], python, x[2])
                                       ELSE x[2]]
<1>1. n \in Nat /\ \A i \in 1..n : Order[i] \in HasFixer
  BY FixersAssumption DEF FixersAssumption, HasFixer
<1>2. Chained(rs, python, text) = chain[n]
  BY DEF Chained
<1>4. text \in V
  BY NoWorseOrder
<1>5. ASSUME NEW r \in HasFixer, NEW t \in V PROVE Fixed(r, python, t) \in V
  <2>1. Fixed(r, python, t) \in Text /\ NoWorse(t, Fixed(r, python, t))
    BY FixedAddsNothing
  <2> QED BY <2>1, NoWorseOrder
<1>6. V \subseteq Text /\ \A t \in V : NoWorse(text, t)
  OBVIOUS
<1> HIDE DEF n, V
<1>7. F \in [(1..n) \X V -> V]
  BY <1>1, <1>5
<1>8. \A i \in 1..n : \A s \in V :
         F[<<i, s>>] = IF Order[i] \in rs THEN Fixed(Order[i], python, s) ELSE s
  OBVIOUS
<1> HIDE DEF F
<1>9. chain = Next1(chain)
  <2>1. PICK f \in [0..n -> V] : f[0] = text /\ \A i \in 1..n : f[i] = F[<<i, f[i - 1]>>]
    <3>1. Steps(n, V, text, F) # {}
      BY <1>1, <1>4, <1>7, StepsExist
    <3> QED BY <3>1 DEF Steps
  <2>2. \A i \in 1..n : f[i - 1] \in V
    BY <1>1
  <2>3. \A i \in 1..n : f[i] = IF Order[i] \in rs THEN Fixed(Order[i], python, f[i - 1])
                                ELSE f[i - 1]
    BY <1>8, <2>1, <2>2
  <2>4. \A i \in 0..n : i = 0 \/ i \in 1..n
    BY <1>1
  <2>5. f = Next1(f)
    BY <2>1, <2>3, <2>4
  <2> HIDE DEF Next1
  <2> QED BY <2>5
<1> HIDE DEF chain
<1>10. /\ chain = [i \in 0..n |-> chain[i]] /\ chain[0] = text
       /\ \A i \in 1..n : chain[i] = IF Order[i] \in rs THEN Fixed(Order[i], python, chain[i - 1])
                                      ELSE chain[i - 1]
  <2>1. \A i \in 0..n : chain[i] = IF i = 0 THEN text
                                    ELSE IF Order[i] \in rs
                                         THEN Fixed(Order[i], python, chain[i - 1])
                                    ELSE chain[i - 1]
    BY <1>9, Zenon
  <2>2. chain = [i \in 0..n |-> chain[i]]
    BY <1>9
  <2>3. /\ 0 \in 0..n
        /\ \A i \in 1..n : i \in 0..n /\ i # 0
    BY <1>1
  <2> QED BY <2>1, <2>2, <2>3, Zenon
<1>11. chain \in [0..n -> V]
  <2>1. \A i \in 1..n : chain[i - 1] \in V => chain[i] \in V
    BY <1>1, <1>5, <1>10
  <2> QED BY <1>1, <1>4, <1>10, <2>1, StepsStay
<1>12. chain[n] \in V
  BY <1>1, <1>11
<1> QED BY <1>2, <1>6, <1>12

-----------------------------------------------------------------------------
(***************************************************************************)
(* The fixers with nothing to fix.                                         *)
(***************************************************************************)

\* No fixer, no change.
LEMMA ChainedNone ==
    ASSUME NEW python \in BOOLEAN, NEW text
    PROVE  Chained({}, python, text) = text
<1> DEFINE I == 0..Len(Order)
           Next1(c) == [i \in I |-> IF i = 0 THEN text
                                    ELSE IF Order[i] \in {} THEN Fixed(Order[i], python, c[i - 1])
                                    ELSE c[i - 1]]
           chain == CHOOSE c : c = Next1(c)
           same == [i \in I |-> text]
<1>1. Len(Order) \in Nat
  BY FixersAssumption DEF FixersAssumption
<1>2. \A i \in I : i # 0 => i - 1 \in I
  BY <1>1
<1>3. same = Next1(same)
  <2>1. \A i \in I : i # 0 => same[i - 1] = text
    BY <1>2
  <2> QED BY <2>1
<1> HIDE DEF same
<1>4. chain = Next1(chain)
  <2> HIDE DEF Next1
  <2> QED BY <1>3
<1>5. Chained({}, python, text) = chain[Len(Order)]
  BY DEF Chained
<1> HIDE DEF chain
<1>6. /\ chain[0] = text
      /\ \A i \in I : i # 0 => chain[i] = chain[i - 1]
  BY <1>1, <1>4
<1>7. \A i \in I : chain[i] = text
  <2> DEFINE Odd == {i \in I : chain[i] # text}
  <2> SUFFICES ASSUME Odd # {} PROVE FALSE
    OBVIOUS
  <2>0. Odd \in SUBSET Nat
    BY <1>1
  <2> HIDE DEF Odd
  <2>1. PICK m \in Odd : \A n \in Odd : m <= n
    BY <2>0, LeastExists
  <2>2. m \in I /\ chain[m] # text /\ m # 0
    BY <1>6 DEF Odd
  <2>3. m - 1 \in I /\ chain[m - 1] # text
    BY <1>1, <1>6, <2>2
  <2>4. m - 1 \in Odd
    BY <2>3 DEF Odd
  <2> QED BY <1>1, <2>1, <2>2, <2>4
<1> QED BY <1>1, <1>5, <1>7

-----------------------------------------------------------------------------
(***************************************************************************)
(* What a user may rely on.                                                *)
(***************************************************************************)

\* What is on disk when a run is over.
LEMMA WhenOver ==
    ASSUME Consistent, Completed
    PROVE  /\ \A f \in Files \ touched :
                 disk[f] = IF cmd.write /\ f \in Changed \ Refusals
                               THEN [lines |-> Wanted(f), faithful |-> TRUE] ELSE read[f]
           /\ refused = Refusals /\ exit = FinalExit
<1>1. Judged /\ Current = {}
  BY DEF Judged, Completed, Current
<1>2. queue = {} /\ exit = FinalExit /\ refused = Refusals
  BY <1>1 DEF Consistent, Concluded, Planned
<1>3. \A f \in Files : Written(f) <=> cmd.write /\ f \in Changed \ Refusals
  BY <1>2 DEF Written
<1>4. \A f \in Files \ touched :
          disk[f] = IF Written(f) THEN [lines |-> Wanted(f), faithful |-> TRUE] ELSE read[f]
  BY <1>1 DEF Consistent, Progress
<1> QED BY <1>2, <1>3, <1>4

\* A run of `fix` leaves every Python file that parsed parseable, whatever the
\* fixers make of it (_would_break_python).
THEOREM NeverBreaks == Spec => []NothingBroken
<1>1. Consistent => NothingBroken
  <2> SUFFICES ASSUME Consistent, Completed, NEW f \in Python, f \notin touched,
                      Parses(read[f].lines)
               PROVE  Parses(disk[f].lines)
    BY DEF NothingBroken
  <2>1. f \in Files
    BY FixAssumption DEF FixAssumption
  <2>2. CASE cmd.write /\ f \in Changed \ Refusals
    <3>1. disk[f] = [lines |-> Wanted(f), faithful |-> TRUE]
      BY <2>1, <2>2, WhenOver
    <3>2. ~Breaks(f, Wanted(f))
      BY <2>2 DEF Refusals
    <3>3. Parses(Wanted(f))
      BY <3>2 DEF Breaks
    <3> QED BY <3>1, <3>3
  <2>3. CASE ~(cmd.write /\ f \in Changed \ Refusals)
    <3>1. disk[f] = read[f]
      BY <2>1, <2>3, WhenOver
    <3> QED BY <3>1
  <2> QED BY <2>2, <2>3
<1> QED BY <1>1, Consistency, PTL

\* A file is changed only by a writing run, and only with a live finding of a
\* rule whose fixer that run selected (_flagged_files, _select_fixers).
THEOREM ChangesAreFlagged == Spec => []OnlyFlagged
<1>1. Consistent => OnlyFlagged
  <2> SUFFICES ASSUME Consistent, Completed, NEW f \in Files, f \notin touched,
                      disk[f] # read[f]
               PROVE  /\ cmd.write
                      /\ \E r \in Selected : IF r \in ProjectWide THEN ReportsTree(r, f)
                                             ELSE Reports(r, read[f].lines)
    BY DEF OnlyFlagged, Selected, Reports
  <2>1. cmd.write /\ f \in Changed
    BY WhenOver
  <2>2. Wanted(f) # read[f].lines
    BY <2>1 DEF Changed
  <2>3. Flagged(f) # {}
    <3>1. (f \in Python) \in BOOLEAN
      OBVIOUS
    <3> QED BY <2>2, <3>1, ChainedNone DEF Wanted
  <2> QED BY <2>1, <2>3 DEF Flagged
<1> QED BY <1>1, Consistency, PTL

\* Exit 0 of a writing run: every file is what the fixers make of it; exit 1:
\* some file was declined and is as it was (_partition_unparseable).
THEOREM ExitIsHonest == Spec => []ExitTellsAll
<1>1. Consistent => ExitTellsAll
  <2> SUFFICES ASSUME Consistent, Completed, cmd.write
               PROVE  IF exit = 0 THEN \A f \in Files \ touched : disk[f].lines = Wanted(f)
                      ELSE \E f \in Files : /\ Wanted(f) # read[f].lines
                                            /\ f \notin touched => disk[f] = read[f]
    BY DEF ExitTellsAll
  <2>1. refused = Refusals /\ exit = FinalExit
    BY WhenOver
  <2>2. ASSUME exit = 0, NEW f \in Files, f \notin touched
        PROVE  disk[f].lines = Wanted(f)
    <3>1. Refusals = {}
      BY <2>1, <2>2 DEF FinalExit
    <3>2. CASE f \in Changed
      <4>1. disk[f] = [lines |-> Wanted(f), faithful |-> TRUE]
        BY <2>2, <3>1, <3>2, WhenOver
      <4> QED BY <4>1
    <3>3. CASE f \notin Changed
      <4>1. disk[f] = read[f] /\ Wanted(f) = read[f].lines
        BY <2>2, <3>3, WhenOver DEF Changed
      <4> QED BY <4>1
    <3> QED BY <3>2, <3>3
  <2>3. ASSUME exit # 0
        PROVE  \E f \in Files : /\ Wanted(f) # read[f].lines
                                /\ f \notin touched => disk[f] = read[f]
    <3>1. PICK f \in Refusals : TRUE
      BY <2>1, <2>3 DEF FinalExit
    <3>2. f \in Files /\ Wanted(f) # read[f].lines
      BY DEF Refusals, Changed
    <3>3. f \notin touched => disk[f] = read[f]
      BY <3>2, WhenOver
    <3> QED BY <3>2, <3>3
  <2> QED BY <2>2, <2>3
<1> QED BY <1>1, Consistency, PTL

\* However often runs are killed, a kill costs at most one file (cmd_fix
\* writes one after another).
THEOREM KillsCostOne == Spec => []OneFilePerKill
<1>1. Consistent => OneFilePerKill
  <2> SUFFICES ASSUME Consistent PROVE OneFilePerKill
    OBVIOUS
  <2>1. /\ IsFiniteSet(emptied) /\ kills \in Nat /\ Cardinality(emptied \ Current) <= kills
        /\ Cardinality(emptied) \in Nat /\ Cardinality(emptied \ Current) \in Nat
    BY FewerFiles DEF Consistent, Shaped, Spared
  <2>2. CASE pc = "filling"
    <3>1. emptied \ Current = emptied \ {Least(queue)}
      BY <2>2 DEF Current
    <3>2. Cardinality(emptied \ {Least(queue)}) =
             IF Least(queue) \in emptied THEN Cardinality(emptied) - 1 ELSE Cardinality(emptied)
      BY <2>1, FS_RemoveElement
    <3>3. Cardinality(emptied) <= kills + 1
      BY <2>1, <3>1, <3>2
    <3> QED BY <2>2, <3>3 DEF OneFilePerKill
  <2>3. CASE pc # "filling"
    <3>1. emptied \ Current = emptied
      BY <2>3 DEF Current
    <3>2. Cardinality(emptied) <= kills + 0
      BY <2>1, <3>1
    <3> QED BY <2>3, <3>2 DEF OneFilePerKill
  <2> QED BY <2>2, <2>3
<1> QED BY <1>1, Consistency, PTL

-----------------------------------------------------------------------------
(***************************************************************************)
(* Types.                                                                  *)
(***************************************************************************)

\* The fields of what a file holds.
LEMMA ContentFields ==
    /\ Empty \in Content
    /\ \A t \in Text : [lines |-> t, faithful |-> TRUE] \in Content
    /\ \A c \in Content : c.lines \in Text
BY DEF Content, Empty, Text

\* What a run wants a file to have is a text.
LEMMA WantedTyped ==
    ASSUME TypeOK, NEW f \in Files
    PROVE  Wanted(f) \in Text
<1>1. read[f].lines \in Text
  BY ContentFields DEF TypeOK
<1>2. (f \in Python) \in BOOLEAN
  OBVIOUS
<1> QED BY <1>1, <1>2, ChainedAddsNothing DEF Wanted

\* An initial state is typed.
LEMMA TypeInit == Init => TypeOK
<1> SUFFICES ASSUME Init PROVE TypeOK
  OBVIOUS
<1>1. disk \in [Files -> Content] /\ conf \in SUBSET Rules /\ cmd \in Command
  BY FixAssumption DEF FixAssumption, Init
<1>2. read \in [Files -> Content]
  BY ContentFields DEF Init, Unread
<1>3. plan \in [Files -> Text]
  BY DEF Init, Text
<1>4. kills \in 0..MaxKills /\ edits \in 0..MaxEdits
  BY FixAssumption DEF FixAssumption, Init
<1> QED BY <1>1, <1>2, <1>3, <1>4 DEF TypeOK, Init

\* A run that forgets has nothing left.
LEMMA TypeForget ==
    ASSUME Forget
    PROVE  /\ read' \in [Files -> Content] /\ plan' \in [Files -> Text]
           /\ todo' = {} /\ refused' = {} /\ queue' = {} /\ touched' = {}
<1>1. read' \in [Files -> Content]
  BY ContentFields DEF Forget, Unread
<1>2. plan' \in [Files -> Text]
  BY DEF Forget, Text
<1> QED BY <1>1, <1>2 DEF Forget

\* Every step keeps the types; that a run fills a file it has left is in
\* Consistent.
LEMMA TypeStep == TypeOK /\ Consistent /\ [Next]_vars => TypeOK'
<1> SUFFICES ASSUME TypeOK, Consistent, [Next]_vars PROVE TypeOK'
  OBVIOUS
<1> USE DEF TypeOK
<1>1. ASSUME NEW c \in Commands, Start(c) PROVE TypeOK'
  <2>1. cmd' \in Command
    BY <1>1, FixAssumption DEF FixAssumption, Start
  <2> QED BY <1>1, <2>1, TypeForget DEF Start
<1>2. CASE Select
  BY <1>2 DEF Select
<1>3. CASE ReadFile
  <2>1. Least(todo) \in Files
    BY <1>3, LeastIn DEF ReadFile
  <2>2. read' \in [Files -> Content]
    BY <1>3, <2>1 DEF ReadFile
  <2> QED BY <1>3, <2>2 DEF ReadFile
<1>4. CASE Plan
  <2>1. plan' \in [Files -> Text]
    BY <1>4, WantedTyped DEF Plan
  <2>2. queue' \subseteq Files /\ refused' \subseteq Files
    BY <1>4 DEF Plan, Changed, Refusals
  <2> QED BY <1>4, <2>1, <2>2 DEF Plan
<1>5. CASE OpenFile
  <2>1. queue # {} /\ Opened \subseteq Files
    BY <1>5, LeastIn DEF OpenFile, Opened
  <2>2. disk' \in [Files -> Content]
    BY <1>5, ContentFields DEF OpenFile
  <2> QED BY <1>5, <2>1, <2>2 DEF OpenFile
<1>6. CASE FillFile
  <2>1. Least(queue) \in Files
    BY <1>6, LeastIn DEF FillFile, Consistent, Shaped
  <2>2. [lines |-> plan[Least(queue)], faithful |-> TRUE] \in Content
    BY <2>1, ContentFields
  <2>3. disk' \in [Files -> Content]
    BY <1>6, <2>2 DEF FillFile
  <2> QED BY <1>6, <2>3 DEF FillFile
<1>7. CASE Finish
  <2>1. exit' \in 0..2
    BY <1>7 DEF Finish, FinalExit
  <2> QED BY <1>7, <2>1 DEF Finish
<1>8. ASSUME Rest PROVE /\ cmd' \in Command /\ cfg' \in SUBSET Rules /\ exit' \in 0..2
                        /\ pc' = "idle" /\ Forget
  BY <1>8, FixAssumption DEF Rest, FixAssumption
<1>9. CASE Return
  BY <1>8, <1>9, TypeForget DEF Return
<1>10. CASE Kill
  <2>1. kills' \in 0..MaxKills
    BY <1>10, FixAssumption DEF Kill, FixAssumption
  <2> QED BY <1>8, <1>10, <2>1, TypeForget DEF Kill
<1>11. ASSUME NEW f \in Files, NEW c \in Drafts, Save(f, c) PROVE TypeOK'
  <2>1. disk' \in [Files -> Content]
    BY <1>11, FixAssumption DEF Save, FixAssumption
  <2>2. edits' \in 0..MaxEdits
    BY <1>11, FixAssumption DEF Save, FixAssumption
  <2> QED BY <1>11, <2>1, <2>2 DEF Save, run
<1>12. ASSUME NEW off \in Configs, Reconfigure(off) PROVE TypeOK'
  <2>1. conf' \in SUBSET Rules
    BY <1>12, FixAssumption DEF Reconfigure, FixAssumption
  <2>2. edits' \in 0..MaxEdits
    BY <1>12, FixAssumption DEF Reconfigure, FixAssumption
  <2> QED BY <1>12, <2>1, <2>2 DEF Reconfigure, run
<1>13. CASE UNCHANGED vars
  BY <1>13 DEF vars, run
<1> QED BY <1>1, <1>2, <1>3, <1>4, <1>5, <1>6, <1>7, <1>9, <1>10, <1>11, <1>12, <1>13 DEF Next

\* Files hold texts, none of whose comments a rule or a fixer still matches,
\* whatever the fixers do to them; the rest of the state is of its kind.
THEOREM TypesHold == Spec => []TypeOK
<1> QED BY TypeInit, TypeStep, Consistency, PTL DEF Spec

\* A text nobody else saved is no worse when a run is over than it was.
LEMMA RunsDoNoHarm ==
    ASSUME TypeOK, Consistent, Completed, NEW f \in Files \ touched
    PROVE  NoWorse(read[f].lines, disk[f].lines)
<1>1. read[f].lines \in Text
  BY ContentFields DEF TypeOK
<1>2. CASE disk[f] = read[f]
  BY <1>1, <1>2, NoWorseOrder
<1>3. CASE disk[f] # read[f]
  <2>1. disk[f].lines = Wanted(f)
    <3>1. disk[f] = [lines |-> Wanted(f), faithful |-> TRUE]
      BY <1>3, WhenOver
    <3> QED BY <3>1
  <2>2. (f \in Python) \in BOOLEAN
    OBVIOUS
  <2> QED BY <1>1, <2>1, <2>2, ChainedAddsNothing DEF Wanted
<1> QED BY <1>2, <1>3

\* For every set of fixers and every tree, a run leaves no rule with more
\* unsuppressed findings in a file than it read there, echoes in templates
\* aside, and no project-wide rule with a new finding unless a fixer matches a
\* line that answered it (run_fix and the fix methods of the fixers).
THEOREM NothingGetsWorse == Spec => []NeverWorse
<1>1. TypeOK /\ Consistent => NeverWorse
  <2> SUFFICES ASSUME TypeOK, Consistent, Completed PROVE NeverWorse
    BY DEF NeverWorse
  <2>1. ASSUME NEW f \in Files \ touched, NEW r \in Rules
        PROVE  Cardinality(Findings(r, disk[f].lines)) <= Cardinality(Findings(r, read[f].lines))
    BY RunsDoNoHarm DEF NoWorse
  <2>2. ASSUME NEW f \in Files, NEW r \in ProjectWide, touched = {},
               Caused(r, f, disk), ~Answered(r, f, disk),
               ~(Caused(r, f, read) /\ ~Answered(r, f, read))
        PROVE  \E g \in Like(f) : \E i \in DOMAIN read[g].lines :
                  r \in read[g].lines[i].clears /\ read[g].lines[i].edits \cap Retiring # {}
    <3>1. r \in Rules /\ r \notin Echoing
      BY FixAssumption DEF FixAssumption
    <3>2. \A g \in Files : NoWorse(read[g].lines, disk[g].lines)
      BY <2>2, RunsDoNoHarm
    <3>3. \A g \in Files : /\ Causes(r, disk[g].lines) => Causes(r, read[g].lines)
                           /\ Stands(r, read[g].lines) => Stands(r, disk[g].lines)
      BY <3>1, <3>2 DEF NoWorse
    <3>4. \A g \in Files : /\ DOMAIN read[g].lines = 1..Len(read[g].lines)
                           /\ DOMAIN disk[g].lines = 1..Len(disk[g].lines)
      BY ContentFields DEF TypeOK, Text
    <3>5. Like(f) \subseteq Files
      BY DEF Like
    <3>6. Caused(r, f, read)
      <4>1. PICK g \in Like(f) : \E i \in DOMAIN disk[g].lines : r \in disk[g].lines[i].flags
        BY <2>2 DEF Caused
      <4>2. Causes(r, read[g].lines)
        BY <3>3, <3>4, <3>5, <4>1 DEF Causes
      <4> QED BY <3>4, <3>5, <4>2 DEF Causes, Caused
    <3>7. PICK g \in Like(f) : \E i \in DOMAIN read[g].lines : r \in read[g].lines[i].clears
      BY <2>2, <3>6 DEF Answered
    <3>8. PICK i \in DOMAIN read[g].lines : r \in read[g].lines[i].clears
      BY <3>7
    <3>9. CASE read[g].lines[i].edits \cap Retiring # {}
      BY <3>8, <3>9
    <3>10. CASE read[g].lines[i].edits \cap Retiring = {}
      <4>1. Stands(r, disk[g].lines)
        BY <3>3, <3>4, <3>5, <3>8, <3>10 DEF Stands
      <4>2. Answered(r, f, disk)
        BY <3>4, <3>5, <4>1 DEF Stands, Answered
      <4> QED BY <2>2, <4>2
    <3> QED BY <3>9, <3>10
  <2> QED BY <2>1, <2>2 DEF NeverWorse
<1> QED BY <1>1, TypesHold, Consistency, PTL

-----------------------------------------------------------------------------
(***************************************************************************)
(* FixRun implements AtomicFix: a file is replaced when it is opened, and  *)
(* nobody sees it between that and its being filled.                       *)
(***************************************************************************)

\* Nothing but the file a run is filling is shown other than it is.
LEMMA ShownIsDisk ==
    ASSUME TypeOK, pc # "filling"
    PROVE  Current = {} /\ Shown = disk
BY DEF Current, Shown, TypeOK

\* What is shown, and what is decided, is a matter of these variables only.
LEMMA SameGoals ==
    ASSUME UNCHANGED <<pc, cmd, plan, read, refused>>
    PROVE  UNCHANGED <<Stage, Goals>>
BY DEF Stage, Goals, Replacing, Planning

\* A run at rest has nothing seen, decided or left.
LEMMA AtRest ==
    ASSUME Consistent, pc \in {"idle", "selecting", "done"}
    PROVE  /\ Stage = "rest" /\ Seen = Atomic!Nothing /\ Goals = Atomic!Nothing
           /\ queue \ Current = {}
<1>1. Stage = "rest" /\ queue = {} /\ Replacing = {}
  BY DEF Stage, Replacing, Consistent, Shaped
<1> QED BY <1>1 DEF Seen, Goals, Atomic!Nothing

\* In its initial states nobody has looked at or replaced a file.
LEMMA AtomicInit == Init => Atomic!Init
<1> SUFFICES ASSUME Init PROVE Atomic!Init
  OBVIOUS
<1>1. TypeOK /\ Consistent /\ pc = "idle"
  BY TypeInit, ConsistentInit DEF Init
<1>2. Shown \in [Files -> Content]
  BY <1>1, ShownIsDisk DEF TypeOK
<1> QED BY <1>1, <1>2, AtRest DEF Init, Atomic!Init

\* A run looks at one file after another.
LEMMA LookStep ==
    ASSUME TypeOK, TypeOK', Consistent, ReadFile
    PROVE  \E f \in Files : Atomic!Look(f)
<1> DEFINE f == Least(todo)
<1>1. f \in Files /\ f \in todo /\ todo' = todo \ {f} /\ todo \subseteq Files
  BY LeastIn DEF ReadFile, TypeOK
<1>2. /\ pc = "reading" /\ pc' = "reading" /\ UNCHANGED <<queue, edits, kills, cmd, plan, refused>>
      /\ disk' = disk /\ read' = [read EXCEPT ![f] = disk[f]]
  BY DEF ReadFile
<1>3. /\ Stage = "looking" /\ Stage' = "looking" /\ Current = {} /\ Current' = {}
      /\ Shown = disk /\ Shown' = disk
  BY <1>2, ShownIsDisk DEF Stage, Current, Shown, TypeOK
<1>4. Goals' = Goals
  <2>1. Replacing = {} /\ Replacing' = {}
    BY <1>2 DEF Replacing
  <2> QED BY <2>1 DEF Goals
<1>5. /\ Seen = [g \in Files \ todo |-> read[g]]
      /\ Seen' = [g \in Files \ todo' |-> read'[g]]
  BY <1>3 DEF Seen
<1>6. Seen' = [g \in DOMAIN Seen \cup {f} |-> IF g = f THEN Shown[f] ELSE Seen[g]]
  <2> HIDE DEF f
  <2>1. Files \ todo' = (Files \ todo) \cup {f}
    BY <1>1
  <2>2. \A g \in Files \ todo : read'[g] = read[g]
    BY <1>1, <1>2
  <2>3. read'[f] = disk[f]
    BY <1>1, <1>2 DEF TypeOK
  <2> QED BY <1>3, <1>5, <2>1, <2>2, <2>3
<1>7. f \notin DOMAIN Seen
  BY <1>1, <1>5
<1>8. (queue \ Current)' = queue \ Current
  BY <1>2, <1>3
<1> HIDE DEF f
<1> QED BY <1>1, <1>2, <1>3, <1>4, <1>6, <1>7, <1>8 DEF Atomic!Look

\* A run that has looked at every file decides which to replace, and by what.
LEMMA DecideStep ==
    ASSUME TypeOK, TypeOK', Consistent, Consistent', Plan
    PROVE  Atomic!Decide
<1>1. /\ pc = "reading" /\ pc' = "writing" /\ todo = {} /\ todo' = {}
      /\ UNCHANGED <<read, disk, cmd, cfg, edits, kills>>
      /\ plan' = [f \in Files |-> Wanted(f)] /\ refused' = Refusals
      /\ queue' = IF cmd.write THEN Changed \ Refusals ELSE {}
  BY DEF Plan
<1>2. /\ Stage = "looking" /\ Stage' = "replacing" /\ Current = {} /\ Current' = {}
      /\ Shown = disk /\ Shown' = disk
  BY <1>1, ShownIsDisk DEF Stage, Current, Shown, TypeOK
<1>3. Seen = [f \in Files |-> read[f]] /\ Seen' = Seen
  BY <1>1, <1>2 DEF Seen
<1>4. Replacing' = queue'
  <2>1. \A f \in Files : plan'[f] # read'[f].lines <=> f \in Changed
    BY <1>1 DEF Changed
  <2>2. Replacing' = {f \in Files : cmd.write /\ f \in Changed /\ f \notin Refusals}
    BY <1>1, <2>1 DEF Replacing
  <2> QED BY <1>1, <2>2 DEF Changed
<1>5. DOMAIN Goals' = queue' /\ queue' \subseteq Files
  BY <1>4 DEF Goals, TypeOK
<1>6. \A f \in queue' : Goals'[f] = [lines |-> plan'[f], faithful |-> TRUE]
  BY <1>4 DEF Goals, Planning
<1>7. Goals' \in [queue' -> Content]
  <2>1. \A f \in queue' : [lines |-> plan'[f], faithful |-> TRUE] \in Content
    BY <1>5, ContentFields DEF TypeOK
  <2>2. Goals' = [f \in queue' |-> [lines |-> plan'[f], faithful |-> TRUE]]
    BY <1>4 DEF Goals, Planning
  <2> QED BY <2>1, <2>2
<1>8. ASSUME NEW f \in queue'
      PROVE  /\ Goals'[f] # Seen[f]
             /\ Intact(f, Seen[f]) => Intact(f, Goals'[f])
  <2>1. f \in Files /\ f \in Changed /\ f \notin Refusals
    BY <1>1, <1>5, <1>8
  <2>2. Goals'[f].lines = Wanted(f) /\ Seen[f] = read[f]
    <3>1. plan'[f] = Wanted(f)
      BY <2>1 DEF Plan
    <3>2. Goals'[f].lines = plan'[f]
      <4>1. Goals'[f] = [lines |-> plan'[f], faithful |-> TRUE]
        BY <1>6
      <4>2. \A t : [lines |-> t, faithful |-> TRUE].lines = t
        OBVIOUS
      <4> QED BY <4>1, <4>2
    <3>3. Seen[f] = read[f]
      BY <1>3, <2>1
    <3> QED BY <3>1, <3>2, <3>3
  <2>3. Wanted(f) # read[f].lines
    BY <2>1 DEF Changed
  <2>4. ~Breaks(f, Wanted(f))
    BY <2>1 DEF Refusals
  <2>5. f \in Python /\ Parses(read[f].lines) => Parses(Wanted(f))
    BY <2>4 DEF Breaks
  <2>6. Intact(f, Seen[f]) => Intact(f, Goals'[f])
    BY <2>2, <2>5 DEF Intact
  <2> QED BY <2>2, <2>3, <2>6
<1>9. (queue \ Current)' = queue'
  BY <1>2
<1> QED BY <1>1, <1>2, <1>3, <1>5, <1>7, <1>8, <1>9 DEF Atomic!Decide

\* Opening a file is replacing it.
LEMMA ReplaceStep ==
    ASSUME TypeOK, TypeOK', Consistent, OpenFile
    PROVE  \E f \in Files : Atomic!Replace(f)
<1> DEFINE f == Least(queue)
<1>1. /\ f \in Files /\ f \in queue
      /\ pc = "writing" /\ pc' = "filling"
      /\ UNCHANGED <<cmd, cfg, todo, read, plan, refused, queue, kills, edits>>
      /\ disk' = [g \in Files |-> IF g = f THEN Empty ELSE disk[g]]
  BY LeastIn DEF OpenFile, Opened, TypeOK
<1> HIDE DEF f
<1>2. Current = {} /\ Current' = {f} /\ Shown = disk
  BY <1>1, ShownIsDisk DEF Current, f
<1>3. Stage = "replacing" /\ Stage' = "replacing" /\ Seen' = Seen
  BY <1>1 DEF Stage, Seen
<1>4. Replacing' = Replacing /\ Goals' = Goals
  BY <1>1 DEF Replacing, Goals, Planning
<1>5. f \in Replacing
  <2>1. Planned /\ Judged
    BY <1>1 DEF Consistent, Judged
  <2>2. f \in Changed \ Refusals /\ cmd.write
    BY <1>1, <2>1 DEF Planned
  <2>3. plan[f] = Wanted(f) /\ refused = Refusals
    BY <1>1, <2>1 DEF Planned
  <2> QED BY <1>1, <2>2, <2>3 DEF Replacing, Changed
<1>6. Goals[f] = Planning(f)
  BY <1>5 DEF Goals
<1>7. Shown' = [Shown EXCEPT ![f] = Goals[f]]
  <2>1. \A g \in Files : Planning(g)' = Planning(g)
    BY <1>1 DEF Planning
  <2>2. Shown' = [g \in Files |-> IF g \in Current' THEN Planning(g)' ELSE disk'[g]]
    BY DEF Shown
  <2>3. Shown' = [g \in Files |-> IF g = f THEN Planning(f) ELSE disk[g]]
    BY <1>1, <1>2, <2>1, <2>2
  <2> QED BY <1>1, <1>2, <1>6, <2>3 DEF TypeOK
<1>8. f \in queue \ Current /\ (queue \ Current)' = (queue \ Current) \ {f}
  BY <1>1, <1>2
<1> QED BY <1>1, <1>3, <1>4, <1>7, <1>8 DEF Atomic!Replace

\* Filling it changes nothing that is shown.
LEMMA FillStutters ==
    ASSUME TypeOK, TypeOK', Consistent, FillFile
    PROVE  UNCHANGED Atomic!vars
<1> DEFINE f == Least(queue)
<1>1. /\ f \in Files /\ f \in queue
      /\ pc = "filling" /\ pc' = "writing"
      /\ UNCHANGED <<cmd, cfg, todo, read, plan, refused, kills, edits>>
      /\ queue' = queue \ {f}
      /\ disk' = [disk EXCEPT ![f] = [lines |-> plan[f], faithful |-> TRUE]]
  BY LeastIn DEF FillFile, TypeOK, Consistent, Shaped
<1> HIDE DEF f
<1>2. Current = {f} /\ Current' = {} /\ Shown' = disk'
  BY <1>1, ShownIsDisk DEF Current, Shown, TypeOK, f
<1>3. Stage' = Stage /\ Seen' = Seen /\ Goals' = Goals
  BY <1>1 DEF Stage, Seen, Replacing, Goals, Planning
<1>4. Shown' = Shown
  BY <1>1, <1>2 DEF Shown, Planning, TypeOK
<1>5. (queue \ Current)' = queue \ Current
  BY <1>1, <1>2
<1> QED BY <1>1, <1>3, <1>4, <1>5 DEF Atomic!vars

\* A run that is over, or killed, has forgotten all it was about.
LEMMA RestForgets ==
    ASSUME Rest
    PROVE  Atomic!Rest
<1>1. pc' = "idle" /\ queue' = {}
  BY DEF Rest, Forget
<1>2. Stage' = "rest" /\ Replacing' = {} /\ (queue \ Current)' = {}
  BY <1>1 DEF Stage, Replacing
<1>3. Seen' = Atomic!Nothing /\ Goals' = Atomic!Nothing
  BY <1>2 DEF Seen, Goals, Atomic!Nothing
<1> QED BY <1>2, <1>3 DEF Atomic!Rest

\* A kill loses at most the file being filled, and only while one is.
LEMMA InterruptStep ==
    ASSUME TypeOK, TypeOK', Consistent, Kill
    PROVE  Atomic!Interrupt
<1>1. Rest /\ kills' = kills + 1 /\ UNCHANGED <<disk, edits>> /\ pc' = "idle"
  BY DEF Kill, Rest
<1>2. Atomic!Rest
  BY <1>1, RestForgets
<1>3. Shown' = disk
  BY <1>1 DEF Shown, Current, TypeOK
<1>4. CASE pc # "filling"
  <2>1. Shown' = Shown
    BY <1>3, <1>4, ShownIsDisk
  <2> QED BY <1>1, <1>2, <2>1 DEF Atomic!Interrupt
<1>5. CASE pc = "filling"
  <2> DEFINE f == Least(queue)
  <2>1. f \in Files /\ f \in queue
    BY <1>5, LeastIn DEF TypeOK, Consistent, Shaped
  <2>2. Current = {f}
    BY <1>5 DEF Current
  <2> HIDE DEF f
  <2>3. f \in Replacing
    <3>1. Planned /\ Judged
      BY <1>5 DEF Consistent, Judged
    <3>2. f \in Changed \ Refusals /\ cmd.write
      BY <2>1, <3>1 DEF Planned
    <3>3. plan[f] = Wanted(f) /\ refused = Refusals
      BY <2>1, <3>1 DEF Planned
    <3> QED BY <1>5, <2>1, <3>2, <3>3 DEF Replacing, Changed
  <2>4. f \in DOMAIN Goals \ (queue \ Current)
    BY <2>2, <2>3 DEF Goals
  <2>5. \A g \in Files : g # f => Shown[g] = disk[g]
    BY <2>2 DEF Shown
  <2>6. disk = [g \in Files |-> disk[g]] /\ disk[f] \in Content
    BY <2>1 DEF TypeOK
  <2>7. Shown' = [Shown EXCEPT ![f] = Shown'[f]] /\ Shown'[f] \in Content
    BY <1>3, <2>5, <2>6 DEF Shown
  <2>8. Atomic!OnlyAt(f)
    BY <2>7 DEF Atomic!OnlyAt
  <2> QED BY <1>1, <1>2, <2>4, <2>8 DEF Atomic!Interrupt
<1> QED BY <1>4, <1>5

\* A save changes what is shown of that file, unless it is being filled.
LEMMA SaveIsSave ==
    ASSUME TypeOK, TypeOK', NEW f \in Files, NEW c \in Drafts, Save(f, c)
    PROVE  Atomic!Save
<1>1. /\ UNCHANGED <<pc, cmd, cfg, todo, read, plan, refused, queue, kills>>
      /\ edits' = edits + 1 /\ disk' = [disk EXCEPT ![f] = c]
  BY DEF Save, run
<1>2. UNCHANGED <<Stage, Goals, Seen, queue \ Current>> /\ Current' = Current
  BY <1>1, SameGoals DEF Stage, Seen, Current
<1>3. \A g \in Files : Planning(g)' = Planning(g)
  BY <1>1 DEF Planning
<1>4. Shown' = [g \in Files |-> IF g \in Current THEN Planning(g) ELSE disk'[g]]
  BY <1>2, <1>3 DEF Shown
<1>5. CASE f \in Current
  <2>1. Shown' = Shown
    BY <1>1, <1>4, <1>5 DEF Shown, TypeOK
  <2> QED BY <1>1, <1>2, <2>1 DEF Atomic!Save
<1>6. CASE f \notin Current
  <2>1. \A g \in Files : g # f => disk'[g] = disk[g]
    BY <1>1 DEF TypeOK
  <2>2. \A g \in Files : g # f => Shown'[g] = Shown[g]
    BY <1>4, <2>1 DEF Shown
  <2>3. Shown'[f] = disk'[f] /\ disk'[f] \in Content
    BY <1>4, <1>6 DEF TypeOK
  <2>4. Shown' = [Shown EXCEPT ![f] = Shown'[f]]
    <3>1. Shown = [g \in Files |-> Shown[g]] /\ Shown' = [g \in Files |-> Shown'[g]]
      BY <1>4 DEF Shown
    <3> HIDE DEF Shown
    <3> QED BY <2>2, <3>1
  <2>5. Atomic!OnlyAt(f)
    BY <2>3, <2>4 DEF Atomic!OnlyAt
  <2> QED BY <1>1, <1>2, <2>5 DEF Atomic!Save
<1> QED BY <1>5, <1>6

\* Every step of a run, of a developer and every kill is a step of AtomicFix
\* or shows nothing.
LEMMA AtomicStep ==
    TypeOK /\ TypeOK' /\ Consistent /\ Consistent' /\ [Next]_vars
        => [Atomic!Next]_(Atomic!vars)
<1> SUFFICES ASSUME TypeOK, TypeOK', Consistent, Consistent', [Next]_vars
             PROVE  [Atomic!Next]_(Atomic!vars)
  OBVIOUS
<1>1. ASSUME NEW c \in Commands, Start(c) PROVE UNCHANGED Atomic!vars
  <2>1. /\ pc = "idle" /\ pc' \in {"selecting", "done"} /\ UNCHANGED <<disk, kills, edits>>
        /\ queue' = {} /\ pc # "filling" /\ pc' # "filling"
    BY <1>1 DEF Start, Forget
  <2>2. /\ Stage = "rest" /\ Seen = Atomic!Nothing /\ Goals = Atomic!Nothing
        /\ queue \ Current = {}
    BY <2>1, AtRest
  <2>3. Stage' = "rest" /\ Replacing' = {} /\ (queue \ Current)' = {}
    BY <2>1 DEF Stage, Replacing
  <2>4. Seen' = Atomic!Nothing /\ Goals' = Atomic!Nothing
    BY <2>3 DEF Seen, Goals, Atomic!Nothing
  <2>5. Shown' = disk' /\ Shown = disk
    BY <2>1 DEF Shown, Current, TypeOK
  <2> QED BY <2>1, <2>2, <2>3, <2>4, <2>5 DEF Atomic!vars
<1>2. CASE Select
  <2>1. /\ pc = "selecting" /\ queue' = queue
        /\ UNCHANGED <<disk, kills, edits>>
        /\ \/ pc' = "done"
           \/ pc' = "reading" /\ todo' = Files
        /\ pc' # "filling" /\ pc # "filling"
    BY <1>2 DEF Select
  <2>2. /\ Stage = "rest" /\ Seen = Atomic!Nothing /\ Goals = Atomic!Nothing
        /\ queue \ Current = {} /\ queue = {}
    BY <2>1, AtRest DEF Consistent, Shaped
  <2>3. Replacing' = {} /\ (queue \ Current)' = {}
    BY <2>1, <2>2 DEF Replacing
  <2>4. Goals' = Atomic!Nothing
    BY <2>3 DEF Goals, Atomic!Nothing
  <2>5. Shown' = disk' /\ Shown = disk
    BY <2>1 DEF Shown, Current, TypeOK
  <2>6. Seen' = Atomic!Nothing
    BY <2>1 DEF Seen, Stage, Atomic!Nothing
  <2>7. Stage' \in {"rest", "looking"}
    BY <2>1 DEF Stage
  <2>8. CASE Stage' = "rest"
    BY <2>1, <2>2, <2>3, <2>4, <2>5, <2>6, <2>8 DEF Atomic!vars
  <2>9. CASE Stage' = "looking"
    <3>1. Atomic!Begin
      BY <2>1, <2>2, <2>3, <2>4, <2>5, <2>6, <2>9 DEF Atomic!Begin
    <3> QED BY <3>1 DEF Atomic!Next
  <2> QED BY <2>7, <2>8, <2>9
<1>3. CASE ReadFile
  <2>1. \E f \in Files : Atomic!Look(f)
    BY <1>3, LookStep
  <2> QED BY <2>1 DEF Atomic!Next
<1>4. CASE Plan
  <2>1. Atomic!Decide
    BY <1>4, DecideStep
  <2> QED BY <2>1 DEF Atomic!Next
<1>5. CASE OpenFile
  <2>1. \E f \in Files : Atomic!Replace(f)
    BY <1>5, ReplaceStep
  <2> QED BY <2>1 DEF Atomic!Next
<1>6. CASE FillFile
  BY <1>6, FillStutters
<1>7. CASE Finish
  <2>1. /\ pc = "writing" /\ queue = {} /\ pc' = "done" /\ queue' = queue
        /\ UNCHANGED <<disk, kills, edits>>
    BY <1>7 DEF Finish
  <2>2. /\ Stage = "replacing" /\ queue \ Current = {}
        /\ Stage' = "rest" /\ (queue \ Current)' = {} /\ Replacing' = {}
    BY <2>1 DEF Stage, Replacing
  <2>3. Seen' = Atomic!Nothing /\ Goals' = Atomic!Nothing
    BY <2>2 DEF Seen, Goals, Atomic!Nothing
  <2>4. Shown' = disk' /\ Shown = disk
    BY <2>1 DEF Shown, Current, TypeOK
  <2>5. Atomic!Finish
    BY <2>1, <2>2, <2>3, <2>4 DEF Atomic!Finish, Atomic!Rest
  <2> QED BY <2>5 DEF Atomic!Next
<1>8. CASE Return
  <2>1. /\ pc = "done" /\ Rest /\ pc' = "idle" /\ UNCHANGED <<disk, kills, edits>>
        /\ pc # "filling"
    BY <1>8 DEF Return, Rest
  <2>2. /\ Stage = "rest" /\ Seen = Atomic!Nothing /\ Goals = Atomic!Nothing
        /\ queue \ Current = {}
    BY <2>1, AtRest
  <2>3. Atomic!Rest
    BY <2>1, RestForgets
  <2>4. Shown' = disk' /\ Shown = disk
    BY <2>1 DEF Shown, Current, TypeOK
  <2> QED BY <2>1, <2>2, <2>3, <2>4 DEF Atomic!Rest, Atomic!vars
<1>9. CASE Kill
  <2>1. Atomic!Interrupt
    BY <1>9, InterruptStep
  <2> QED BY <2>1 DEF Atomic!Next
<1>10. ASSUME NEW f \in Files, NEW c \in Drafts, Save(f, c) PROVE Atomic!Next
  <2>1. Atomic!Save
    BY <1>10, SaveIsSave
  <2> QED BY <2>1 DEF Atomic!Next
<1>11. ASSUME NEW off \in Configs, Reconfigure(off) PROVE Atomic!Next
  <2>1. /\ UNCHANGED <<disk, pc, cmd, cfg, todo, read, plan, refused, queue, kills>>
        /\ edits' = edits + 1
    BY <1>11 DEF Reconfigure, run
  <2>2. UNCHANGED <<Stage, Goals, Seen, queue \ Current, Shown>>
    BY <2>1, SameGoals DEF Stage, Seen, Current, Shown, Planning
  <2>3. Atomic!Save
    BY <2>1, <2>2 DEF Atomic!Save
  <2> QED BY <2>3 DEF Atomic!Next
<1>12. CASE UNCHANGED vars
  <2>1. UNCHANGED <<disk, pc, cmd, cfg, todo, read, plan, refused, queue, kills, edits>>
    BY <1>12 DEF vars, run
  <2>2. UNCHANGED <<Stage, Goals, Seen, queue \ Current, Shown>>
    BY <2>1, SameGoals DEF Stage, Seen, Current, Shown, Planning
  <2> QED BY <2>1, <2>2 DEF Atomic!vars
<1> QED BY <1>1, <1>2, <1>3, <1>4, <1>5, <1>6, <1>7, <1>8, <1>9, <1>10, <1>11, <1>12 DEF Next

\* Apart from the time between opening and filling, which only a kill reveals,
\* `fix` replaces files at once: a run's effect on the tree is that of
\* AtomicFix, for every set of fixers, files, commands and saves (cmd_fix).
THEOREM FixIsAtomic == Spec => ImplementsAtomicFix
<1>1. Init => Atomic!Init
  BY AtomicInit
<1>2. TypeOK /\ TypeOK' /\ Consistent /\ Consistent' /\ [Next]_vars
          => [Atomic!Next]_(Atomic!vars)
  BY AtomicStep
<1> QED BY <1>1, <1>2, TypesHold, Consistency, PTL DEF Spec, ImplementsAtomicFix, Atomic!Spec
=============================================================================
