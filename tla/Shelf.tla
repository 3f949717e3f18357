--------------------------------- MODULE Shelf ---------------------------------
(***************************************************************************)
(* Thirteen cores of the shelf, one of them at a time: they share no       *)
(* state, so a behaviour is a behaviour of one, and the instances below    *)
(* are added up, not multiplied. The timer queue is the one that is        *)
(* extended, for the assumptions on its constants. A constant of a core    *)
(* that has its name to itself goes by it.                                 *)
(***************************************************************************)
EXTENDS Hourglass, FiniteSets

CONSTANTS Callers, Files, Link, Versions, Broken, Missing, MaxTime, MaxParses,  \* loader cache
          Types, Handlers, MaxSubscribers, MaxDepth,                         \* signal bus
          Bytes, Delimiter, Stripped, MaxChunk, MaxStream,                   \* stream framer
          Texts, Options, Bodies, MaxItems,                                  \* telnet codec
          Checks, MaxRecorded,                                               \* test evidence
          Actors, Definitions, Guards, MaxMoves,                             \* workflow
          Requests, Routes, Scrapes, Nobody, Seconds,                        \* observability
          Ordered, Nested, Records, Rejected, Garbled, Undecodable,
          MaxChanges,                                                        \* record loader
          Indicators,                                                        \* health
          NoCap, Caps, MaxTyped,                                             \* sanitizer
          Numbers, Unit, Modifiers, MaxStack,                                \* statistics
          Names, Plugins, Incapable, Entities, MaxCalls                      \* registries

VARIABLES core, \* which of the cores this behaviour is of
          disk, target, cache, loads, seen, parses, steady, alone,
          subscribers, frames, ended,
          buffer, messages, stream,
          wire, text, agreed, sent,
          expected, records, recorded,
          definition, workflow, state, history, menu, outcome,
          count, dur_sum, lock, at, shown, observed,
          files, there, call, held, changes,
          checks, pass, said,
          typed,
          stat, modifiers,
          registry, items, marks, calls

\* The steps of a workflow are a sequence.
ASSUME StepsAssumption == \A d \in Definitions : DOMAIN d.steps = 1..Len(d.steps)

\* What sorted() returns is a sequence, and no content is that a file is absent.
ASSUME FilesAssumption ==
  /\ Ordered \in Seq({Ordered[i] : i \in DOMAIN Ordered})
  /\ "absent" \notin Records \cup {Rejected, Garbled, Undecodable}

\* Finitely many requests, that are not nobody, each take whole seconds.
ASSUME RequestsAssumption ==
  /\ IsFiniteSet(Requests) /\ Nobody \notin Requests
  /\ Seconds \in [Requests -> Nat]

\* What may be said of a plugin is no plugin, and only plugins lack what is required.
ASSUME PluginsAssumption ==
  "off" \notin Plugins /\ Incapable \cap (Entities \cup {"on", "off"}) = {}

Loader    == INSTANCE LoaderCache WITH Contents <- Versions
Bus       == INSTANCE SignalBus
Framer    == INSTANCE StreamFramer WITH Strip <- Stripped
Telnet    == INSTANCE TelnetCodec WITH items <- sent
Evidence  == INSTANCE TestEvidence WITH MaxCalls <- MaxRecorded, calls <- recorded
Flow      == INSTANCE Workflow
Scraped   == INSTANCE Metrics WITH Free <- Nobody
Directory == INSTANCE RecordLoader WITH Paths <- Ordered
Panel     == INSTANCE Health WITH Names <- Indicators
Cleaner   == INSTANCE Sanitizer
Sheet     == INSTANCE Stats
Shelved   == INSTANCE Registries

\* No byte of text is a command's, and a body is a sequence in which no SE follows
\* an IAC, which strip_iac takes for the end, and no verb and option, which
\* read_negotiation takes for a reply; after a body comes the IAC that ends the frame.
ASSUME TelnetAssumption ==
  /\ Texts \cap ({Telnet!IAC} \cup Telnet!Verbs) = {}
  /\ \A body \in Bodies :
       /\ body \in Seq({body[i] : i \in DOMAIN body})
       /\ \A i \in 1..(Len(body) - 1) : body[i] = Telnet!IAC => body[i + 1] # Telnet!SE
       /\ \A option \in Options : Telnet!Replies(Append(body, Telnet!IAC), option) = {}

\* The numbers of a stat are integers; a percentage is so many units, of any size.
ASSUME NumbersAssumption ==
  /\ Numbers \subseteq Int /\ Modifiers \subseteq [flat : Int, percent : Int]
  /\ Unit \in Nat \ {0}

\* A cap is a natural number.
ASSUME CapsAssumption == Caps \ {NoCap} \subseteq Nat

\* An empty delimiter is refused.
ASSUME FramerAssumption ==
  /\ Delimiter \in Seq(Bytes) /\ Len(Delimiter) # 0
  /\ MaxChunk \in Nat

loader    == <<disk, target, cache, loads, seen, parses, steady, alone>>
bus       == <<subscribers, frames, ended>>
framer    == <<buffer, messages, stream>>
telnet    == <<wire, text, agreed, sent>>
evidence  == <<expected, records, recorded>>
flow      == <<definition, workflow, state, history, menu, outcome>>
metrics   == <<count, dur_sum, lock, at, shown, observed>>
directory == <<files, there, call, held, changes>>
health    == <<checks, pass, said>>
sheet     == <<stat, modifiers>>
shelved   == <<registry, items, marks, calls>>

ShelfInit ==
  /\ core \in {"hourglass", "loader", "bus", "framer", "telnet", "evidence", "flow", "metrics",
               "directory", "health", "cleaner", "sheet", "shelved"}
  /\ Init /\ Loader!Init /\ Bus!Init /\ Framer!Init /\ Telnet!Init /\ Evidence!Init /\ Flow!Init
  /\ Scraped!Init /\ Directory!Init /\ Panel!Init /\ Cleaner!Init /\ Sheet!Init /\ Shelved!Init

\* It is c's turn, as it always is.
Turn(c) ==
  /\ core = c /\ UNCHANGED core
  /\ IF c = "hourglass" THEN TRUE ELSE UNCHANGED vars
  /\ IF c = "loader"    THEN TRUE ELSE UNCHANGED loader
  /\ IF c = "bus"       THEN TRUE ELSE UNCHANGED bus
  /\ IF c = "framer"    THEN TRUE ELSE UNCHANGED framer
  /\ IF c = "telnet"    THEN TRUE ELSE UNCHANGED telnet
  /\ IF c = "evidence"  THEN TRUE ELSE UNCHANGED evidence
  /\ IF c = "flow"      THEN TRUE ELSE UNCHANGED flow
  /\ IF c = "metrics"   THEN TRUE ELSE UNCHANGED metrics
  /\ IF c = "directory" THEN TRUE ELSE UNCHANGED directory
  /\ IF c = "health"    THEN TRUE ELSE UNCHANGED health
  /\ IF c = "cleaner"   THEN TRUE ELSE UNCHANGED typed
  /\ IF c = "sheet"     THEN TRUE ELSE UNCHANGED sheet
  /\ IF c = "shelved"   THEN TRUE ELSE UNCHANGED shelved

ShelfNext ==
  \/ Turn("hourglass") /\ Next
  \/ Turn("loader")    /\ Loader!Next
  \/ Turn("bus")       /\ Bus!Next
  \/ Turn("framer")    /\ Framer!Next
  \/ Turn("telnet")    /\ Telnet!Next
  \/ Turn("evidence")  /\ Evidence!Next
  \/ Turn("flow")      /\ Flow!Next
  \/ Turn("metrics")   /\ Scraped!Next
  \/ Turn("directory") /\ Directory!Next
  \/ Turn("health")    /\ Panel!Next
  \/ Turn("cleaner")   /\ Cleaner!Next
  \/ Turn("sheet")     /\ Sheet!Next
  \/ Turn("shelved")   /\ Shelved!Next

ShelfSpec ==
  ShelfInit /\ [][ShelfNext]_<<core, vars, loader, bus, framer, telnet, evidence, flow, metrics,
                               directory, health, typed, sheet, shelved>>

--------------------------------------------------------------------------------
\* The properties of the cores, each stated in its module and looked at where its
\* core is the one that moves. The timer queue's and the workflow's are of steps.
LoadsAreFresh         == core = "loader"    => Loader!LoadsAreFresh
ParsesAgainOnlyIfOvertaken ==
                         core = "loader"    => Loader!ParsesAgainOnlyIfOvertaken
EveryoneHears         == core = "bus"       => Bus!EveryoneHears
ChunksDoNotMatter     == core = "framer"    => Framer!ChunksDoNotMatter
OnlyTextIsLeft        == core = "telnet"    => Telnet!OnlyTextIsLeft
LastReplyWins         == core = "telnet"    => Telnet!LastReplyWins
VerdictIsEarned       == core = "evidence"  => Evidence!VerdictIsEarned
HistoryIsAPath        == core = "flow"      => Flow!HistoryIsAPath
OnlyAuthorised        == core = "flow"      => Flow!OnlyAuthorised
MenusAreHonest        == Flow!MenusAreHonest
ScrapesAreWhole       == core = "metrics"   => Scraped!ScrapesAreWhole
EveryRecordOrNone     == core = "directory" => Directory!EveryRecordOrNone
OverallIsEarned       == core = "health"    => Panel!OverallIsEarned
SanitizingTwiceIsOnce == core = "cleaner"   => Cleaner!SanitizingTwiceIsOnce
BuffsNeverCost        == core = "sheet"     => Sheet!BuffsNeverCost
AnswersFollowTheCalls == core = "shelved"   => Shelved!AnswersFollowTheCalls
================================================================================
