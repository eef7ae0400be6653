------------------------------ MODULE MCBoard ------------------------------
(***************************************************************************)
(* Two files, one named unknown, which may share a repository; a           *)
(* repository with a dot in its name, one that is gone, and a number.      *)
(***************************************************************************)
EXTENDS Board

MCStems == 1..2
MCSpelling == <<"plain", "unknown">>
MCRepos == {"mono", "a.b", "gone", "42"}
MCShape == [r \in MCRepos |-> CASE r = "a.b" -> "dotted" [] r = "42" -> "untyped" [] OTHER -> "plain"]
MCHolds == [r \in MCRepos |-> IF r \in {"gone", "42"} THEN {} ELSE {"python"}]

E(repo, language, grade, score) ==
    [kind |-> "entry", named |-> TRUE, repo |-> repo, language |-> language, grade |-> grade,
     score |-> score, rest |-> TRUE, sha |-> "full", path |-> "", off |-> 0, owner |-> FALSE,
     version |-> 1]

Good    == E("mono", "python", "B", 80)
Worse   == [E("mono", "python", "F", 20) EXCEPT !.path = "sub"]
Better  == [E("mono", "other", "B", 85) EXCEPT !.owner = TRUE, !.off = 1, !.sha = "short"]
Gone    == [E("gone", "python", "A", 100) EXCEPT !.sha = "none"]
Dotted  == E("a.b", "python", "A", 100)
Number  == E("42", "python", "C", 60)
NoGrade == [E("mono", "python", "E", 100) EXCEPT !.version = 2]

MCContents == {Gone, NoGrade, NoFile, Number}
MCRegistries == {<<Worse, Good>>, <<Better, Dotted>>}

Graded(grade, score) == [kind |-> "graded", grade |-> grade, score |-> score]
Not(kind) == [kind |-> kind]
MCScan ==
    [v \in 1..2 |-> [r \in MCRepos |->
        CASE r = "mono" -> [p \in {"", "sub"} |-> IF p = "" THEN Graded("B", 80)
                                                  ELSE IF v = 1 THEN Graded("F", 20) ELSE Graded("D", 50)]
          [] r = "a.b"  -> [p \in {"", "sub"} |-> IF v = 1 THEN Graded("A", 100) ELSE Not("refused")]
          [] r \in {"gone", "42"} -> [p \in {"", "sub"} |-> Not("missing")]]]
=============================================================================
