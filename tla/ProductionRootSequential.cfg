SPECIFICATION Spec
CONSTANTS
  p1 = p1
  p2 = p2
  None = None
  Torn = Torn
  current = current
  previous = previous
  Proc = {p1}
  Preparations <- TwoPreparations
  IssuedAt = {1, 2, 3, 5}
  DURATION_S = 2
  OlderEpoch = {4}
  EPOCH5_IDENTITY = previous
  HISTORICAL_EPOCH6_SERIAL1 <- FirstRequest
  LastExport = 2
  EXPECTED_PUBLIC_KEY = "anchor"
  Identity = {current, previous}
  Repository = {repo}
  Root = {root}
  Taker = {taker}
  Venue = {venue}
  Network = {ink, legacy}
  CANONICAL_REPOSITORY_IDENTITY = repo
  INK_V0F_AUTHORITY_ROOT_ID = root
  INK_V0F_TAKER_ADDRESS = taker
  INK_V0F_VENUE_ID = venue
  INK_V0F_NETWORK_ID = ink
  LEGACY_ROBINHOOD_TESTNET_NETWORK_ID = legacy
  INK_V0F_MAX_ENTRY_ATOMIC = 1
  INK_V0F_MAX_GRANT_DURATION_S = 2
  MAX_GRANT_DURATION_S = 3
INVARIANT
  SuccessorsStartAfterExpiry
  EpochFiveHoldsOneRequest
  ReportsAreExported
PROPERTY
  NoGrantBeginsInsideAnothers
  ExactRetryIsNotRefused
  SuccessorIsNotRefused
  SupersededLaneIsHistorical
