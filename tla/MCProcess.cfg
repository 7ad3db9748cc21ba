SPECIFICATION ProcessSpec
CONSTANTS
  j1 = j1
  j2 = j2
  Jobs <- MCJobs
  MaxRetries <- MCMaxRetries
  MaxDead = 2
  MaxLeases = 3
  MaxStored = 3
  r1 = r1
  Requests <- OneRequest
  Timed = TRUE
  MaxRejects = 2
  c1 = c1
  c2 = c2
  c3 = c3
  Conns <- ThreeConns
  Cap = 1
  Methods = {"GET", "POST"}
  GET = "GET"
  HEAD = "HEAD"
  Patterns <- MCPatterns
  PathsAsked <- MCPathsAsked
  Malformed = "%"
  Slashed = "%2F"
  MaxRegistered = 3
  RealmHandles = {"tenantA", "tenantB"}
  RealmOptions <- MCRealmOptions
  TopContext = "top"
  Below = {"below"}
  MaxRealms = 2
  MaxTokens = 1
  LastSecond = 2
  EdgeTables <- MCEdgeTables
  EdgePaths <- MCEdgePaths
  EdgeMethods = {"GET", "POST"}
  Internal = {"localhost"}
  BadEscape = "%"
  Updaters = {1, 2}
  MaxCacheSize = 2
  MaxUpdates = 2
  MaxAsked = 3
  Calls <- MCCalls
  MaxDepth = 2
  MaxNext = 2
  SchemasGiven <- MCSchemas
  Named <- MCNamed
  Bodies <- MCBodies
  MaxSchemaDepth = 4
  HeaderValues <- MCHeaderValues
  CookieValues = {"c1"}
  StatusCodes = {204}
  OwnResponses <- MCOwnResponses
  Symbols <- MCSymbols
  AllowedHosts = {"good"}
  MaxWrites = 2
  Sites <- MCSites
  NonRoutable = {"localhost"}
  CookieTexts <- MCCookieTexts
  ForeignPairs <- MCForeignPairs
  MaxWarnedHosts = 1
  Incoming <- MCIncoming
  BodyLimits = {0, 2}
  ParsersGiven <- MCParsers
  MaxFileSize = 1
  MaxFiles = 1
  MimesAllowed = {"png", "text"}
  Sniffable = {"png", "zip"}
  Origins = {"partner", "stranger"}
  TrustedOrigins = {"partner"}
  MaxEpochs = 2
  MaxIssued = 2
  ClientRequests <- MCClientRequests
  AppAnswers <- MCAppAnswers
  Encodings <- MCEncodings
  MediaTypes <- MCMediaTypes
  Languages <- MCLanguages
  CronTables <- MCCronTables
  Triggers <- MCTriggers
  MaxInvocations = 2
  Sockets = {"b1", "b2", "b3"}
  Clients = {"a", "b"}
  PerAddress = 1
  MaxFrames = 1
  Callers = {"x", "y", "z"}
  MaxWorkers = 3
INVARIANTS
  RequestsSound
  AnswersSound
  SchemaSound
  CallSound
  CacheIsTransparent
  RealmsApart
  JobsAccounted
  DeliveriesSound
  TransactionsSettle
  StatusReported
  DrainsBeforeExit
  SlotsMatch
  RoutingSound
PROPERTIES
  ImplementsLifecycle
  AnsweredInTime
  NothingStartsLate
  ShutdownEnds
CHECK_DEADLOCK FALSE
