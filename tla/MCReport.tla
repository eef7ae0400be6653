------------------------------ MODULE MCReport ------------------------------
EXTENDS Report

MCFiles == 1..2
MCLanguage == <<"python", "typescript">>
MCLength == <<2, 2>>

Code(says) == [says |-> says, comment |-> FALSE]
Mention(says) == [says |-> says, comment |-> TRUE]
MCTexts == {Code(w) : w \in {"session id", "handler", "call", "keyword", "decorator", "general", "evidence",
                             "discover string", "unparsed", "broken"}}
           \cup {Mention(w) : w \in {"handler", "discover string"}}

List(ids, wrong, reason) == [form |-> "list", ids |-> ids, wrong |-> wrong, reason |-> reason]
MCDirectives ==
    {NoDirective, List(Rules, FALSE, TRUE), List({"R001"}, TRUE, FALSE),
     List({}, TRUE, TRUE), [NoDirective EXCEPT !.form = "bare"],
     [form |-> "unseparated", ids |-> {"R001"}, wrong |-> FALSE, reason |-> FALSE]}

Ask(rules, form) == [rules |-> rules, form |-> form]
MCCommands == {Ask(Rules, "text"), Ask(Rules, "json"), Ask(Rules, "sarif"), Ask({"R001"}, "text"),
               Ask({"R010"}, "ungraded")}

Asks(place, op, major) == [place |-> place, package |-> "mcp", constraints |-> <<[op |-> op, major |-> major]>>]
Pyproject(parses, requires) == [parses |-> parses, requires |-> requires]
Below3 == [op |-> "<", major |-> 3]

MCInitialManifests ==
    {Pyproject(TRUE, {Asks("dependencies", ">=", 1), Asks("requirements", ">=", 2)}),
     Pyproject(TRUE, {[Asks("dependencies", ">=", 1) EXCEPT !.constraints = @ \o <<Below3>>]}),
     Pyproject(TRUE, {[Asks("dependencies", ">=", 2) EXCEPT !.constraints = <<Below3>> \o @]}),
     Pyproject(TRUE, {Asks("poetry", "^", 1), Asks("comment", ">=", 2)}),
     Pyproject(FALSE, {Asks("optional", "~=", 1), Asks("comment", ">=", 2)}),
     Pyproject(FALSE, {Asks("poetry", "^", 2), Asks("requirements", ">", 1)}),
     Pyproject(FALSE, {Asks("poetry", "^", 1), [Asks("dependencies", ">=", 1) EXCEPT !.package = "fastmcp"]})}
=============================================================================
