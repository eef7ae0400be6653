------------------------------ MODULE MCFixRun ------------------------------
(***************************************************************************)
(* Five fixers that cover the families and their guards, over two Python   *)
(* files and a TypeScript file drawn from a handful of shapes.             *)
(***************************************************************************)
EXTENDS FixRun

MCRules    == {"R007", "R008", "R009", "R017", "R018"}
MCSeverity == [r \in MCRules |-> CASE r = "R007" -> "deprecated"
                                   [] r = "R008" -> "advisory"
                                   [] OTHER      -> "breaking"]
MCOrder    == <<"R007", "R008", "R009", "R017", "R018">>

MCNoCommand == [exists |-> TRUE, clash |-> FALSE, rules |-> {}, safeOnly |-> FALSE,
                write |-> FALSE]
WriteAll    == [MCNoCommand EXCEPT !.write = TRUE]
MCCommands  == {MCNoCommand, WriteAll,
                [WriteAll EXCEPT !.safeOnly = TRUE],
                [WriteAll EXCEPT !.rules = {"R007", "R017"}],
                [WriteAll EXCEPT !.clash = TRUE], [MCNoCommand EXCEPT !.exists = FALSE]}

MCConfigs == {{}, {"R009"}, {"R007", "R008", "R009", "R018"}}

L(form, depth, reported, fixed) ==
    [Bare(form, depth) EXCEPT !.flags = reported, !.edits = fixed]

Ignored(l) == [l EXCEPT !.ignore = l.flags]

\* A function whose whole body goes, and an `if` whose body goes.
Sole   == <<L("def", 0, {}, {}), L("plain", 1, {"R009"}, {"R009"})>>
Suite  == <<L("block", 0, {}, {}), L("plain", 1, {"R009"}, {"R009"})>>
\* An import of two removed names, a bracket across two lines, two uses.
Shim   == <<L("import", 0, {"R009"}, {"R007", "R009"}), L("reach", 0, {}, {"R009"}),
            L("close", 0, {}, {}), L("plain", 0, {"R009"}, {"R009"})>>
\* A loop header two fixers annotate, a suppressed use, a constant.
Roots  == <<L("block", 0, {"R007", "R018"}, {"R007", "R018"}),
            Ignored(L("plain", 1, {"R018"}, {"R018"})), L("plain", 0, {"R017"}, {"R017"})>>
\* Two suppressed findings of every kind and nothing else.
Quiet  == <<Ignored(L("plain", 0, {"R007", "R017"}, {"R007", "R017"})),
            Ignored(L("plain", 0, {"R009"}, {"R009"}))>>
\* Spans of a tree that imports OpenTelemetry; reading the header, in a
\* line another fixer rewrites.
Spans  == <<L("plain", 0, {"R008"}, {}), L("open", 0, {}, {"R008"}), L("close", 0, {}, {})>>
Reader == <<[L("plain", 0, {"R017"}, {"R008", "R017"}) EXCEPT !.clears = {"R008"}]>>
\* The same in a line that another fixer comments out.
Tracer == <<[L("plain", 0, {"R009"}, {"R009"}) EXCEPT !.clears = {"R008"}]>>
\* A help text that mentions what the code below it uses.
Help   == <<L("string", 0, {}, {"R009"}), L("plain", 0, {"R009"}, {"R009"})>>
\* A file in the middle of a migration.
Halfway == <<L("close", 0, {}, {}), L("plain", 0, {"R007"}, {"R007"})>>

\* A quote that nothing closes; what a template says.
Torn    == <<L("stray", 0, {}, {}), L("plain", 0, {"R017"}, {"R017"})>>
Markup  == <<L("template", 0, {"R009"}, {"R009"}), L("plain", 0, {"R017"}, {"R017"})>>

\* Each shape is the first and the second Python file of some tree.
MCPairs == {<<Sole, Shim>>, <<Shim, Suite>>, <<Suite, Roots>>, <<Roots, Quiet>>, <<Quiet, Spans>>,
            <<Spans, Reader>>, <<Reader, Help>>, <<Help, Halfway>>, <<Halfway, Sole>>,
            <<Spans, Sole>>, <<Spans, Tracer>>, <<Torn, Help>>}

Clean(text) == [lines |-> text, faithful |-> TRUE]
Crlf(text)  == [lines |-> text, faithful |-> FALSE]

\* Beside them a TypeScript file with spans, or with a template and CRLF.
MCInitialDisks == {<<Clean(p[1]), Clean(p[2]), c>> : p \in MCPairs, c \in {Clean(Spans), Crlf(Markup)}}

MCDrafts == {Clean(Roots), Clean(Suite), Clean(Reader)}

\* For the run that checks a claim of the documentation.
RootsOnly == {<<Clean(Roots), Clean(Quiet)>>}
=============================================================================
