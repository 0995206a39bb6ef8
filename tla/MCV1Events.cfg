\* A packet without a five-tuple and the emitter.
CONSTANTS
  Length = 2
  Kinds = {"syn", "arp"}
  Captures <- MCV1Captures
  word = word
  agent = agent
  Texts = {}
  Char <- MCChar
  Dot = "."
  Space = " "
  lower_of <- MCLower
  AppType <- MCAppType
  UNKNOWN = "UNKNOWN"
  domain_rules <- MCDomainRules
  default_ips = {3}
  default_apps = {"FACEBOOK"}
  default_domains <- MCDefaultDomains
  None = None
  blocked_ips = None
  blocked_apps = None
  blocked_domains = None
  blacklist <- MCDefaultDomains
SPECIFICATION Spec
INVARIANTS
  OneEventPerPacket
