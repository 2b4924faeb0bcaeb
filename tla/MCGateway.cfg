CONSTANTS
  wechat = wechat
  slack = slack
  discord = discord
  w1 = w1
  w2 = w2
  w3 = w3
  k1 = k1
  k2 = k2
  k3 = k3
  x1 = x1
  x2 = x2
  x3 = x3
  chatW = chatW
  chatK = chatK
  chatX = chatX
  Platforms <- MCPlatforms
  Messages <- MCMessages
  Sessions <- MCSessions
  KindOf <- MCKindOf
  PlatformOf <- MCPlatformOf
  Number <- MCNumber
  SessionOf <- MCSessionOf
  CommandOf <- MCCommandOf
  Allowed <- MCAllowed
  Skipped <- MCSkipped
  Traffic <- MCTraffic
  MaxFailures = 2
  MaxDeliveries = 2
  MaxHalts = 2
SPECIFICATION Spec
INVARIANTS
  TypeOK
  OneAgentPerSession
  FetchedOnce
  ConfirmedWasHandled
PROPERTIES
  SessionsBecomeFree
CHECK_DEADLOCK FALSE
