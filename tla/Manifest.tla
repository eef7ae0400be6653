------------------------------ MODULE Manifest ------------------------------
(***************************************************************************)
(* The lowest version of the Python SDK a project asks for (sdk.py), as    *)
(* far as its major number: what R010 stays silent on.                     *)
(*                                                                         *)
(* A manifest is what pyproject.toml and the requirements files say of one *)
(* dependency or another: requirements, each in its place, and whether     *)
(* pyproject.toml can be parsed.  A comment of pyproject.toml that quotes  *)
(* a requirement is a requirement whose place is "comment".                *)
(***************************************************************************)
EXTENDS Naturals, Sequences

Places      == {"dependencies", "optional", "poetry", "requirements", "comment"}
Constraint  == [op : {">=", "==", "~=", "^", ">", "<", "!="}, major : Nat]
Requirement == [place : Places, package : {"mcp", "fastmcp"}, constraints : Seq(Constraint)]
Manifests   == [parses : BOOLEAN, requires : SUBSET Requirement]

\* The constraints a lower bound can be read from.
Readable == {">=", "==", "~=", "^", ">"}

\* Only the first constraint of a requirement is looked at.
FloorFromRequirement(r) ==
    IF r.package = "mcp" /\ r.constraints # <<>> /\ Head(r.constraints).op \in Readable
    THEN {Head(r.constraints).major} ELSE {}

\* Without a parse, every quoted string that begins with the package's name
\* counts: commented out or not, but not poetry's, which quotes the version.
Candidates(m) ==
    {r \in m.requires : r.place \notin (IF m.parses THEN {"comment"} ELSE {"poetry"})}

Floors(m) == UNION {FloorFromRequirement(r) : r \in Candidates(m)}

\* declared_mcp_floor(root) is known and its major number is below v.
FloorBelow(m, v) == Floors(m) # {} /\ \A f \in Floors(m) : f < v

-----------------------------------------------------------------------------

\* The reference: what the constraints mean.
Satisfies(v, c) ==
    \/ c.op \in {">=", ">"} /\ v >= c.major
    \/ c.op \in {"==", "~=", "^"} /\ v = c.major
    \/ c.op = "<" /\ v < c.major
    \/ c.op = "!="

\* Major version v can be installed, with none of the extras.
Accepts(m, v) ==
    \A r \in m.requires :
        r.package = "mcp" /\ r.place \notin {"comment", "optional"}
            => \A i \in DOMAIN r.constraints : Satisfies(v, r.constraints[i])

\* Some major version below v can be installed.
AcceptsBelow(m, v) == \E w \in 0..(v - 1) : Accepts(m, w)

Mentioned(m) == UNION {{r.constraints[i].major : i \in DOMAIN r.constraints} : r \in m.requires}

\* Somewhere the SDK is asked for with a lower bound.
Bounded(m) ==
    \E r \in m.requires : /\ r.package = "mcp" /\ r.place # "comment"
                          /\ \E i \in DOMAIN r.constraints : r.constraints[i].op \in Readable

\* No extra asks for another version than the project itself.
NothingOptional(m) == \A r \in m.requires : r.place # "optional"

\* What FloorBelow leaves out does not matter: some version can be installed;
\* no lower bound stands behind another constraint; and a pyproject.toml that
\* cannot be parsed neither has a requirement commented out nor is poetry's.
ReadAsMeant(m) ==
    /\ \E v \in Mentioned(m) : Accepts(m, v)
    /\ \A r \in m.requires : \A i \in DOMAIN r.constraints : i > 1 => r.constraints[i].op \notin Readable
    /\ m.parses \/ \A r \in m.requires : r.place \notin {"comment", "poetry"}
=============================================================================
