\* Every capture of three packets of these kinds, every interleaving of the
\* workers that are scheduled again and again.
CONSTANTS
  Length = 3
  Kinds = {"syn", "hello", "request", "other", "reply", "blocked", "arp", "garbage"}
  worker_count = 2
  MaxPackets = 3
  Captures <- MCCaptures
  Address = {1, 2, 3}
  Port = {0, 4, 5}
  Protocol = {"TCP", "UDP", "ICMP"}
  crc32 <- MCCrc32
  Char <- MCChar
  Dot = "."
  Space = " "
  lower_of <- MCLower
  AppType <- MCAppType
  UNKNOWN = "UNKNOWN"
  domain_rules <- MCDomainRules
  default_ips = {3}
  default_apps = {"FACEBOOK"}
  default_domains <- MCDefaultDomains
  None = None
  blocked_ips = None
  blocked_apps = None
  blocked_domains <- LabelGoogle
SPECIFICATION FairSpec
INVARIANTS
  TypeOK
  OneWorkerPerConversation
  TablesAreDisjoint
  BlockedStaysBlocked
  OutputKeepsConversations
  ReportAddsUp
PROPERTIES
  DecidesLikeOneProcessor
  RunEnds
