SPECIFICATION MCSpec
CONSTANTS
  c1 = c1
  c2 = c2
  Labels <- MCLabels
  Payloads <- MCPayloads
  NoPayload = NoPayload
  Delays <- MCDelays
  Periods <- MCPeriods
  MAX_TIMERS = 2
  MaxBeats = 5
  Callers <- MCCallers
  Files <- MCFiles
  Link = "l"
  Versions <- MCVersions
  Broken = "bad"
  Missing = "gone"
  MaxTime = 1
  MaxParses = 3
  Types <- MCTypes
  Handlers <- MCHandlers
  MaxSubscribers = 2
  MaxDepth = 2
  Bytes <- MCBytes
  Delimiter <- MCDelimiter
  Stripped <- MCStripped
  MaxChunk = 3
  MaxStream = 7
  Texts <- MCTexts
  Options <- MCOptions
  Bodies <- MCBodies
  MaxItems = 3
  Checks <- MCChecks
  MaxRecorded = 4
  Actors <- MCActors
  Definitions <- MCDefinitions
  Guards <- MCGuards
  MaxMoves = 3
  Requests <- MCRequests
  Routes <- MCRoutes
  Scrapes = "metrics"
  Nobody = 0
  Seconds <- MCSeconds
  Ordered <- MCOrdered
  Nested <- MCNested
  Records <- MCRecords
  Rejected = "rejected"
  Garbled = "garbled"
  Undecodable = "undecodable"
  MaxChanges = 2
  Indicators <- MCIndicators
  NoCap = NoCap
  Caps <- MCCaps
  MaxTyped = 4
  Numbers <- MCNumbers
  Unit = 4
  Modifiers <- MCModifiers
  MaxStack = 3
  Names <- MCNames
  Plugins <- MCPlugins
  Incapable <- MCIncapable
  Entities <- MCEntities
  MaxCalls = 4
SYMMETRY MCSymmetry
CONSTRAINT Explored
INVARIANTS
  LoadsAreFresh
  ParsesAgainOnlyIfOvertaken
  EveryoneHears
  ChunksDoNotMatter
  OnlyTextIsLeft
  LastReplyWins
  VerdictIsEarned
  HistoryIsAPath
  OnlyAuthorised
  ScrapesAreWhole
  EveryRecordOrNone
  OverallIsEarned
  SanitizingTwiceIsOnce
  BuffsNeverCost
  AnswersFollowTheCalls
PROPERTIES
  ImplementsTimetable
  MenusAreHonest
CHECK_DEADLOCK FALSE
