\* Public requests: two processes and the quota, the cache and other writers,
\* every answer of upstream, every link.
SPECIFICATION FairSpec
CONSTANTS
  w1 = w1
  w2 = w2
  a1 = a1
  r1 = r1
  r2 = r2
  start = start
  moved = moved
  check = check
  far = far
  inner = inner
  odd = odd
  worse = worse
  broken = broken
  Web = {w1, w2}
  Actor = {a1}
  Release = {r1, r2}
  Query <- MCQuery
  Key <- MCKey
  Limit <- MCLimit
  Window = 3
  Cooldown = 2
  MaxClock = 5
  Variants = 1
  Shortened = FALSE
  Url <- MCUrl
  Host <- MCHost
  BadUrl <- MCBadUrl
  BadPort <- MCBadPort
  Unparsable = {broken}
  AllowedHost <- MCAllowedHost
  Intermediate <- MCIntermediate
  Download = {inner, far}
  Moved <- MCMoved
  MaxRedirects = 2
  MaxHistory = 1
  Site <- MCSite
INVARIANTS
  QuotaTypeOK
  QuotaHolds
  LiveQueriesAreSpaced
  CachedAnswerCameFromProvider
  VerdictIsJustified
  OnlyCheckedHostsAreContacted
  HistoryIsChecked
PROPERTIES
  RetryAfterIsEnough
  RequestsEnd
CHECK_DEADLOCK FALSE
