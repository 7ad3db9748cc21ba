SPECIFICATION ServicesSpec
CONSTANTS
  LastMinute = 1
  LastHour = 1
  LastDay = 3
  LastMonth = 2
  LastWeekday = 1
  Definitions <- MCDefinitions
  MaxMinute = 24
  MaxSkip = 4
  MaxSetBacks = 2
  HeartbeatFloor = 2
  DefaultTimeout = 6
  DefaultVisibility = 5
  Leases <- MCLeases
  Timeouts <- MCTimeouts
  MaxTime = 12
  Clients = {c1, c2, c3}
  Proxies = {proxy}
  Text = text
  Anonymous = anonymous
  Hops = 2
  Limit = 1
  Window = 2
  MaxKeys = 3
  ScanLimit = 2
  Second = 2
  LastTick = 3
  MaxCount = 2
  Handlers = {c1, c2, c3}
  MaxEntries = 2
  SessionTtl = 2
  MaxIds = 3
  MaxCalls = 2
  MaxClock = 3
  MaxChurn = 1
  p1 = p1
  p2 = p2
  Plugins = {p1, p2}
  Root = root
  Callers = {q1}
  a = a
  Segments <- MCSegments
  Paths <- MCPaths
  MaxHooks = 2
  MaxRoutes = 1
  n1 = n1
  n2 = n2
  s1 = s1
  s2 = s2
  lobby = lobby
  Nodes <- MCNodes
  Rooms <- MCRooms
  Sockets <- MCSockets
  Home <- MCHome
  Everywhere = everywhere
  NoSocket = nosocket
  Senders <- OneNode
  Steady <- OneNode
  MaxSent = 2
  MaxFaults = 1
  SseChannels = {ch1, ch2}
  Throwing = {ch2}
  MaxIdle = 2
  SweepEvery = 2
  Users = {u1, u2}
  Slow = {2}
  Durations = {0, 2}
  NoHeader = noheader
  MaxQueries = 2
SYMMETRY Symmetry
INVARIANTS
  OnSchedule
  NeverTwice
  LeaseKept
  LimiterSound
  Rotation
  HooksComplete
  BridgeSound
  HubSound
  AloneExact
PROPERTIES
  PardonNeedsCrowd
  DeadStaysDead
CHECK_DEADLOCK FALSE
