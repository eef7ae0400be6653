---------------------------- MODULE MCEcosystem ----------------------------
(***************************************************************************)
(* Four repositories on three pages of the registry, one of them twice.    *)
(***************************************************************************)
EXTENDS Ecosystem

MCRepos == 1..4
MCPages == <<{1}, {2, 3}, {1, 4}>>

\* Each seed leaves out a repository.
MCSample == [s \in {1, 2} |-> IF s = 1 THEN {1, 2, 4} ELSE {2, 3, 4}]

Server(grade, clean, floor) ==
    [language |-> "Python", verdict |-> "graded", grade |-> grade, clean |-> clean,
     breaking |-> ~clean, floor |-> floor]
As(verdict) == [Server("A", TRUE, 0) EXCEPT !.verdict = verdict]
Elsewhere   == [Server("F", FALSE, 1) EXCEPT !.language = "Other"]

Barred      == [Elsewhere EXCEPT !.language = "barred"]

\* What spoils a sample is a repository the first seed leaves out.
MCWorlds ==
    {[r \in MCRepos |-> CASE r = 1 -> Server("A", TRUE, 2)  [] r = 2 -> Server("D", FALSE, 1)
                          [] r = 3 -> Elsewhere             [] r = 4 -> Server("A", TRUE, 0)],
     [r \in MCRepos |-> CASE r = 1 -> As("refused")         [] r = 2 -> Server("A", TRUE, 1)
                          [] r = 3 -> As("sdk")             [] r = 4 -> Server("F", FALSE, 0)],
     [r \in MCRepos |-> CASE r = 1 -> As("hangs")           [] r = 2 -> As("sdk")
                          [] r = 3 -> Barred                [] r = 4 -> As("refused")]}
=============================================================================
