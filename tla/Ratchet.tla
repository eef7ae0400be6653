------------------------------- MODULE Ratchet -------------------------------
(***************************************************************************)
(* What a baseline promises, without tree, files or steps of a process: a  *)
(* multiset of accepted debt and a gate that fails a run only for debt in  *)
(* excess of what it read of it.  Accepted debt only ever shrinks, except  *)
(* when a run that accepts replaces it by exactly the debt it saw.         *)
(***************************************************************************)
EXTENDS Integers

CONSTANTS Keys,     \* kinds of debt
          Gates,    \* Gates[b]: the kinds a run with bar b may fail for
          NoBar     \* the bar of no run

VARIABLES accepted, \* the accepted debt, a bag of kinds
          phase,    \* how far the current run is
          bar,      \* the bar it gates on
          debt,     \* the debt it saw
          basis,    \* the accepted debt it compares with
          verdict   \* 0 = pass, 1 = fail

vars == <<accepted, phase, bar, debt, basis, verdict>>

Nothing == [k \in {} |-> 0]

Copies(k, B) == IF k \in DOMAIN B THEN B[k] ELSE 0

BagOf(B) == DOMAIN B \subseteq Keys /\ B \in [DOMAIN B -> Nat \ {0}]

\* Every kind has in B at most the copies it has in C.
AtMost(B, C) == \A k \in DOMAIN B : B[k] <= Copies(k, C)

Exceeds == \E k \in DOMAIN debt : k \in Gates[bar] /\ debt[k] > Copies(k, basis)

Rest == /\ phase' = "rest" /\ bar' = NoBar /\ verdict' = 0
        /\ debt' = Nothing /\ basis' = Nothing

Init == /\ accepted = Nothing
        /\ phase = "rest" /\ bar = NoBar /\ verdict = 0
        /\ debt = Nothing /\ basis = Nothing

Aim == /\ phase = "rest"
       /\ bar' \in DOMAIN Gates
       /\ UNCHANGED <<accepted, phase, debt, basis, verdict>>

Look == /\ phase = "rest"
        /\ phase' = "looked"
        /\ BagOf(debt')
        /\ UNCHANGED <<accepted, bar, basis, verdict>>

Read == /\ phase = "looked"
        /\ phase' = "read"
        /\ basis' \in {accepted, Nothing}
        /\ UNCHANGED <<accepted, bar, debt, verdict>>

Accept == /\ phase = "read"
          /\ phase' = "accepted"
          /\ accepted' = debt
          /\ UNCHANGED <<bar, debt, basis, verdict>>

Judge == /\ phase \in {"read", "accepted"}
         /\ phase' = "judged"
         /\ verdict' = IF phase = "read" /\ Exceeds THEN 1 ELSE 0
         /\ UNCHANGED <<accepted, bar, debt, basis>>

End == /\ phase # "rest" \/ bar # NoBar
       /\ Rest
       /\ UNCHANGED accepted

\* Entries are pruned, damaged, or lost with a write that did not finish.
Forget == /\ BagOf(accepted')
          /\ AtMost(accepted', accepted)
          /\ UNCHANGED <<phase, bar, debt, basis, verdict>>

Next == Aim \/ Look \/ Read \/ Accept \/ Judge \/ End \/ Forget

Spec == Init /\ [][Next]_vars
=============================================================================
