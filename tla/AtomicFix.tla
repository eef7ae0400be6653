------------------------------ MODULE AtomicFix ------------------------------
(***************************************************************************)
(* What `fix` promises of a tree, whatever the fixers are: a run looks at  *)
(* every file, decides which to replace and by what, and replaces those at *)
(* once, one by one.  It replaces no file that was whole by one that is    *)
(* not, each at most once, none before it has looked at all; an interrupt  *)
(* costs at most one file the run has replaced, and every other change is  *)
(* somebody else's save.                                                   *)
(***************************************************************************)
EXTENDS Naturals

CONSTANTS Files,
          Contents,     \* what a file may hold
          Whole(_, _)   \* Whole(f, c): file f is in order if it holds c

VARIABLES text,     \* what each file holds
          phase,    \* how far the current run is
          seen,     \* what it saw, of the files it has looked at
          goal,     \* what the files it decided to replace shall hold
          due,      \* those it has not replaced yet
          saves,    \* saves by others so far
          kills     \* interrupts so far

vars == <<text, phase, seen, goal, due, saves, kills>>

Nothing == [f \in {} |-> {}]

Rest == phase' = "rest" /\ seen' = Nothing /\ goal' = Nothing /\ due' = {}

\* No file but f holds something else than before.
OnlyAt(f) == text' = [text EXCEPT ![f] = text'[f]] /\ text'[f] \in Contents

Init == /\ text \in [Files -> Contents]
        /\ phase = "rest" /\ seen = Nothing /\ goal = Nothing /\ due = {}
        /\ saves = 0 /\ kills = 0

Begin == /\ phase = "rest"
         /\ phase' = "looking"
         /\ UNCHANGED <<text, seen, goal, due, saves, kills>>

Look(f) == /\ phase = "looking" /\ f \notin DOMAIN seen
           /\ seen' = [g \in DOMAIN seen \cup {f} |-> IF g = f THEN text[f] ELSE seen[g]]
           /\ UNCHANGED <<text, phase, goal, due, saves, kills>>

Decide == /\ phase = "looking" /\ DOMAIN seen = Files
          /\ phase' = "replacing"
          /\ DOMAIN goal' \subseteq Files /\ goal' \in [DOMAIN goal' -> Contents]
          /\ due' = DOMAIN goal'
          /\ \A f \in due' : /\ goal'[f] # seen[f]
                             /\ Whole(f, seen[f]) => Whole(f, goal'[f])
          /\ UNCHANGED <<text, seen, saves, kills>>

Replace(f) == /\ f \in due
              /\ due' = due \ {f}
              /\ text' = [text EXCEPT ![f] = goal[f]]
              /\ UNCHANGED <<phase, seen, goal, saves, kills>>

Finish == /\ phase = "replacing" /\ due = {}
          /\ Rest
          /\ UNCHANGED <<text, saves, kills>>

\* What the run was about to do is forgotten, and one of the files it has
\* replaced may be lost.
Interrupt == /\ kills' = kills + 1
             /\ Rest
             /\ text' = text \/ \E f \in DOMAIN goal \ due : OnlyAt(f)
             /\ UNCHANGED saves

\* A file is saved, or something else that runs read.
Save == /\ saves' = saves + 1
        /\ text' = text \/ \E f \in Files : OnlyAt(f)
        /\ UNCHANGED <<phase, seen, goal, due, kills>>

Next == \/ Begin \/ Decide \/ Finish \/ Interrupt \/ Save
        \/ \E f \in Files : Look(f) \/ Replace(f)

Spec == Init /\ [][Next]_vars
=============================================================================
