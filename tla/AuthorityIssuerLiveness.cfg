SPECIFICATION FairSpec
CONSTANTS
  p1 = p1
  p2 = p2
  None = None
  current = current
  previous = previous
  Proc = {p1, p2}
  RequestId = {1, 2}
  Requests <- MCRequests
  Issuers <- ContendingIssuers
  Identity = {current, previous}
  Repository = {repo}
  Root = {root}
  Taker = {taker}
  Venue = {venue}
  Network = {ink, legacy}
  CANONICAL_REPOSITORY_IDENTITY = repo
  INK_V0F_AUTHORITY_ROOT_ID = root
  INK_V0F_TAKER_ADDRESS = taker
  INK_V0F_VENUE_ID = venue
  INK_V0F_NETWORK_ID = ink
  LEGACY_ROBINHOOD_TESTNET_NETWORK_ID = legacy
  INK_V0F_MAX_ENTRY_ATOMIC = 1
  INK_V0F_MAX_GRANT_DURATION_S = 2
  MAX_GRANT_DURATION_S = 3
PROPERTY
  CallsAreAtomic
  CallsEnd
