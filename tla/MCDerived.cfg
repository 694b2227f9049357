CONSTANTS
  Hooks = {a1, a2}
  Titles = {r1, r2}
  NoTitle = NoTitle
  MaxHookRuns = 3
  HookEvents = {1}
  MaxPrepared = 2
  Summaries = {1, 2, 3, 4, Blank}
  Blank = Blank
  MaxNodes = 3
  MaxDepth = 2
  MaxLinks = 4
  MaxPeerWrites = 1
  PeerFiles = {r1, r2}
  Links = {L}
  PeerIds = {1, 2}
  NoAlias = NoAlias
  ScanMax = 1
  MaxPeerSteps = 4
  Threads = {1, 2}
  StepLimit = 3
  WatchIds = {w1}
  Targets = {t1, t2}
  Ttl = 2
  StaleAfter = 1
  MaxTime = 2
  MaxPersists = 2
  ClaudeFiles = {r1, r2}
  SessionIds = {r1, r2}
  Fixture = Fixture
  NoRow = NoRow
  MaxClaudeSteps = 2
  Indexers = {a1, a2}
  MaxLines = 2
  MaxChanges = 1
  MaxEvents = 2
  MaxInstant = 7
  MaxCommands = 1
  Actors = {a1, a2}
  Refs = {r1, r2}
  NoFile = NoFile
  ApprovalTtl = 1
  MaxHour = 1
  MaxLaunches = 1
  MaxKeys = 1
  Keys = {1, 2, 3}
  Limits = {0, 1, 2}
  PageSize = 1
  MaxRowWrites = 1
  Openers = {a1, a2}
  Rows = {r1, r2}
  Chats = {C1, C2}
  MaxOldWrites = 3
  MaxOpens = 3
  Agents = {a1, a2}
  Queries = {q1}
  Window = 1
  Lookback = 1
  PruneEvery = 1
  PruneBatch = 1
  SearchLimit = 1
  MaxRows = 1
  MaxNow = 2
  MaxCalls = 3
  Operators = {a1, a2}
  Dirs = {d1}
  Actions = {"send"}
  Sacrificed = {1}
  TailLimit = 2
  MaxAudit = 4
  MaxPerformed = 2
  MaxWall = 1
  Runs = {a1, a2}
  ShownThreads = {1, 2}
  Target = 1
  ThreadTitles = {r1, r2}
  Untitled = Untitled
  MaxWorld = 1
  MaxAsks = 2
  ToolThreads = {r1, r2}
  NoThread = NoThread
  NoReport = NoReport
  MaxGateways = 1
  MaxSmokes = 1
  MaxRuns = 1
  TriedThreads = {r1, r2}
  NoSha = NoSha
  MaxHead = 3
  MaxMakes = 2
  CardThreads = {1}
  Claudes = {9}
  NoCard = NoCard
  Signals = {"completed", "blocked_missing_info"}
  MaxTexts = 2
  MaxWatch = 1
  Unasked = Unasked
  NoResult = NoResult
  MaxUnread = 2
  MaxRequests = 3
  MaxRepairs = 1
  DriveTtl = 2
  MaxClock = 3
  NoTime = NoTime
  NoDrive = NoDrive
  Releases = {1, 2}
  MaxBuilds = 2
  MaxReruns = 1
SPECIFICATION Spec
SYMMETRY Symmetry
INVARIANTS
  NothingOmittedSilently OneReadingPerPeer ProbedBeforeDriven
  QueueFollowsObservations HooksWriteOnce RowsTellTheFiles EveryEventHasContent
  ReadyWasSo DerivedIsReady ReadyIsEarned EveryRowAccountedFor OpenedIsWhole ProposalsHappened
  ProofsAreEarned ReceiptIsTrue PlannerLeadsOn SmokesAreHonest GaIsGrounded
  CardsAreWhole SaidWasSo CallsGetTheirAnswers DriveIsGrounded NamesStayAlike
PROPERTIES PassesOnlyIfServed
CHECK_DEADLOCK FALSE
