\* As Blocking_reload, with one update task.
SPECIFICATION Spec
CONSTANTS
  ad = ad  new = new  v1 = v1  v2 = v2
  Domains = {ad, new}
  Versions = {v1, v2}
  Updaters = {u1}
  Listed <- MCListed
  h1 <- MCh1
  h2 <- MCh2
  Word = 16
  Size = 2
  HeaderLen = 2
  m_bits = 5
  k_hashes = 2
  SeedParses = TRUE
  Allowlists <- MCAllowlists
  Sizes <- MCSizes
  Counts <- MCCounts
  Lengths <- MCLengths
  Names <- MCNames
  Tails <- MCTails
  Bodies <- MCBodies
  Headers <- MCHeaders
  Queries <- MCQueries
  DNS_WIRE_MAX_NAME_LEN = 7
  DNS_WIRE_MAX_MSG_LEN = 48
INVARIANT NoFalsePositive
