SPECIFICATION Spec
CONSTANTS
  current = current
  RequestId = {a, b}
  Requests <- LegacyRequests
  Issuer <- LegacyIssuer
  Junk = Junk
  MaxRows = 2
  MaxDamage = 4
  Identity = {current}
  Repository = {repo}
  Root = {root}
  Taker = {taker}
  Venue = {venue}
  Network = {ink, legacy}
  CANONICAL_REPOSITORY_IDENTITY = repo
  INK_V0F_AUTHORITY_ROOT_ID = root
  INK_V0F_TAKER_ADDRESS = taker
  INK_V0F_VENUE_ID = venue
  INK_V0F_NETWORK_ID = ink
  LEGACY_ROBINHOOD_TESTNET_NETWORK_ID = legacy
  INK_V0F_MAX_ENTRY_ATOMIC = 1
  INK_V0F_MAX_GRANT_DURATION_S = 2
  MAX_GRANT_DURATION_S = 3
SYMMETRY Ids
CHECK_DEADLOCK FALSE
INVARIANT
  TypeOK
  ReadsAreGenuine
  ReadsAreExact
