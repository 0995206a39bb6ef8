\* A packet that the parser does not survive.
CONSTANTS
  Length = 2
  Kinds = {"syn", "garbage"}
  worker_count = 2
  MaxPackets = 2
  Captures <- MCCaptures
  Address = {1, 2, 3}
  Port = {0, 4, 5}
  Protocol = {"TCP", "UDP", "ICMP"}
  crc32 <- MCCrc32
  Char <- MCChar
  Dot = "."
  Space = " "
  lower_of <- MCLower
  AppType <- MCAppType
  UNKNOWN = "UNKNOWN"
  domain_rules <- MCDomainRules
  default_ips = {3}
  default_apps = {"FACEBOOK"}
  default_domains <- MCDefaultDomains
  None = None
  blocked_ips = None
  blocked_apps = None
  blocked_domains = None
SPECIFICATION FairSpec
PROPERTIES
  BadPacketDoesNotStopThePipeline
