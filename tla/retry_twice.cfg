\* Calls of the SDK for one account, and lost answers.
SPECIFICATION Spec
CONSTANTS
  Scenes = {"tx"}
  Addresses = {a1, a2, a3}
  Ips = {ip1, ip2}
  Writers = {ip1}
  Malformed = malformed
  cooldownMs = 3
  ipCooldownMs = 2
  spamIpCooldownMs = 1
  MAX_COOLDOWN_ENTRIES = 1
  Names = {n1, n2}
  maxEntries = 2
  writeRateLimitMax = 2
  writeRateLimitWindowMs = 2
  ArtifactIds = {p1, p2, p3}
  ArtifactSizes = {1, 2, 3}
  artifactMaxBytes = 2
  artifactCacheMaxBytes = 4
  SeatIntents = {s1, s2}
  seatIntentTtlMs = 2
  MaxNow = 4
  MaxPaid = 3
  Tables = {t1, t2}
  NoTable = none
  CHAT_RING_SIZE = 1
  MAX_CHAT_MESSAGES = 2
  IP_CHAT_LIMIT_PER_MIN = 1
  SecsPerMinute = 2
  MaxSecs = 2
  MaxDrops = 1
  MaxSwitches = 3
  MaxChats = 2
  MaxEvents = 3
  MaxSockets = 3
  Contents = {c1, c2}
  DEDUP_MAX = 1
  MaxLog = 2
  MaxLosses = 1
  MaxSelects = 1
  MaxHands = 3
  MAX_HISTORY_PER_TABLE = 2
  Views = {1, 2, 3}
  Calls = {k1, k2}
  MaxErrors = 3
  MaxStack = 4
  MaxFailures = 2
INVARIANT RetryIsSafe
CHECK_DEADLOCK FALSE
