--------------------------- MODULE MCBaselineGate ---------------------------
(***************************************************************************)
(* A small project for BaselineGate: five rules that cover every way a     *)
(* report and a match can differ - one finding per match (R001), the       *)
(* merged pair (R007, R018), first hit in a file only (R005), and one      *)
(* finding for the whole tree (R008).                                      *)
(***************************************************************************)
EXTENDS BaselineGate

MCRules == {"R001", "R005", "R007", "R008", "R018"}

MCSeverity == [r \in MCRules |->
                 CASE r \in {"R001", "R018"} -> "breaking"
                   [] r = "R007"             -> "deprecated"
                   [] OTHER                  -> "advisory"]

MCOverlapPair  == {"R007", "R018"}
MCFirstOnly    == {"R005"}
MCProjectRules == {"R008"}

Server == <<"src", "server.py">>
Tool   == <<"tool.py">>
MCPaths == {Server, Tool}
MCRoots == {<<>>, <<"src">>}

MCTexts == {"session id", "ServerCapabilities", "extensions", "RootsCapability",
            "ListRootsResult", "list_roots", "opentelemetry", "traceparent"}
MCDirectives == {{}, {"R018"}}

MCCanonical == [f \in {"Roots", "Server-initiated roots/list"} |-> "roots"]

M(r, f) == [rule |-> r, feature |-> f, order |-> 1]

MCMarks == [t \in MCTexts |->
    CASE t = "session id"      -> {M("R001", "none")}
      [] t = "ServerCapabilities" -> {M("R005", "none")}
      [] t = "RootsCapability" -> {M("R007", "Roots")}
      [] t = "list_roots"      -> {M("R018", "Server-initiated roots/list")}
      [] t = "ListRootsResult" -> {M("R007", "Roots"),
                                   M("R018", "Server-initiated roots/list")}
      [] OTHER                 -> {}]

MCSilences == [t \in MCTexts |-> IF t = "extensions" THEN {"R005"} ELSE {}]

MCOpens  == {"opentelemetry"}
MCCloses == {"traceparent"}

MCNoPath == <<"(project)">>
MCNoSnippet == [text |-> "", ignore |-> {}]

Plain(t) == [text |-> t, ignore |-> {}]

\* A file starts empty, with a finding another line holds back, or with the
\* raw material of the findings that stand for more than one match.
MCInitialFiles == {<<>>, <<Plain("ServerCapabilities"), Plain("extensions")>>,
                   <<Plain("ListRootsResult"), Plain("opentelemetry")>>}
MCEditTexts == {"session id", "ServerCapabilities", "ListRootsResult", "traceparent"}
MCToggles == {"R001"}
MCFailOns == {"breaking", "advisory"}

\* For the runs that check a claim of the documentation: one root, and a file
\* that uses one deprecated feature in two places.
TopOnly    == {<<>>}
MergedFile == {<<Plain("RootsCapability"), Plain("list_roots")>>}
NoTexts    == {}
=============================================================================
