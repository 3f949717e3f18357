-------------------------------- MODULE MCShelf --------------------------------
\* The cores of the shelf, small: the sizes are such that every case a core treats by
\* itself occurs, and that whoever may be overtaken is.
EXTENDS Shelf, TLC
CONSTANTS c1, c2

\* Three labels for two places; delays and periods that make a period shorter than,
\* equal to and longer than another timer's delay.
MCLabels   == {"la", "lb", "lc"}
MCPayloads == {"p"}
MCDelays   == {1, 3}
MCPeriods  == {0, 1, 2}

\* Two files, a link and two loads: enough for a load to be overtaken.
MCCallers  == {c1, c2}
MCFiles    == {"f", "g"}
MCVersions == {"old", "new", "bad"}

\* Two types, so that a handler may publish what it is not subscribed to.
MCTypes    == {"chime", "echo"}
MCHandlers == {"h1", "h2"}

\* A delimiter that overlaps itself and is longer than the shortest chunk.
MCBytes     == {"x", "n", "r"}
MCDelimiter == <<"n", "n">>
MCStripped  == {"r"}

\* No body holds an IAC that an SE follows: strip_iac takes the pair for the end.
MCTexts   == {"x", "SE"}
MCOptions == {"ECHO", "NAWS"}
MCBodies  == {<<>>, <<"ECHO", "x">>, <<"SE">>, <<"x", "IAC">>, <<"IAC", "IAC", "x">>}

MCChecks == {"lint", "unit"}

\* An approval with a guard, a comment anyone may add and a wiring mistake, and two
\* definitions that build_workflow must refuse.
Step(from, event, to, roles, guard) ==
  [state |-> from, event |-> event, to |-> to, roles |-> roles, guard |-> guard]
Approval ==
  [start    |-> "draft",
   terminal |-> {"approved"},
   steps    |-> << Step("draft",     "submit",  "submitted", {"author"},  "no guard"),
                   Step("submitted", "approve", "approved",  {"manager"}, "complete"),
                   Step("submitted", "reject",  "draft",     {"manager"}, "no guard"),
                   Step("submitted", "comment", "submitted", {"*"},       "no guard"),
                   Step("approved",  "archive", "approved",  {"author"},  "unwired") >>]
Ambiguous ==
  [start    |-> "draft",
   terminal |-> {},
   steps    |-> << Step("draft", "submit", "submitted", {"author"},  "no guard"),
                   Step("draft", "submit", "approved",  {"manager"}, "no guard") >>]
Endless ==
  [start    |-> "draft",
   terminal |-> {"approved"},
   steps    |-> << Step("draft", "submit", "draft", {"author"}, "no guard") >>]
MCActors      == {"author", "manager", "*"}
MCDefinitions == {Approval, Ambiguous, Endless}
MCGuards      == {"complete"}

\* Three requests whose seconds no two sets of them have in common.
MCRequests == {1, 2, 3}
MCRoutes   == {"found", "missing"}
MCSeconds  == <<1, 2, 4>>

\* Two files beside each other and one below, and two changes among them.
MCOrdered == <<"a.json", "b.json", "sub/c.json">>
MCNested  == {"sub/c.json"}
MCRecords == {"old", "new"}

\* Two checks: a status is worse than another, and one may have the other registered.
MCIndicators == {"db", "queue"}

\* A cap that cuts a run of blanks, an empty one and none.
MCCaps == {0, 1, 2, NoCap}

\* Halves to round either way, a stat that may be negative, a penalty beyond 100 %.
MCNumbers   == {-3, 0, 2, 7}
MCModifiers == {[flat |-> 1, percent |-> 0], [flat |-> -2, percent |-> 0],
                [flat |-> 0, percent |-> 1], [flat |-> 0, percent |-> 2],
                [flat |-> 1, percent |-> -3], [flat |-> 0, percent |-> -6]}

\* Four calls: add, say something of it, drop it, add it again.
MCNames     == {"x", "y"}
MCPlugins   == {"plugin", "incapable"}
MCIncapable == {"incapable"}
MCEntities  == {"old", "new"}

\* One link to f, without loss; and where a core starts in several ways, one of
\* them for the behaviours of the others.
MCInit ==
  /\ ShelfInit
  /\ target = "f" /\ disk["f"].content = "old"
  /\ core # "loader"    => disk["g"].content = "old"
  /\ core # "directory" => ~there /\ call.recursive
  /\ core # "sheet"     => stat = [base |-> 0, min_value |-> 0, max_value |-> 0]
  /\ core # "shelved"   => registry = "flags"

MCSpec ==
  MCInit /\ [][ShelfNext]_<<core, vars, loader, bus, framer, telnet, evidence, flow, metrics,
                            directory, health, typed, sheet, shelved>>

\* Once an edit has kept its mtime both of the loader's properties are vacuous, for
\* good: nothing is to be learnt from there on. And edits of one file are enough: the
\* other is there for the link to move to, and to be deleted.
Explored == steady /\ disk["g"].mtime = 0

MCSymmetry == Permutations({c1, c2})
================================================================================
