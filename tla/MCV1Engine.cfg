\* Both entries on every capture of 3 packets of these kinds.
CONSTANTS
  Length = 3
  Kinds = {"syn", "hello", "search", "malicious", "request", "reply", "blocked", "ping", "arp"}
  Captures <- MCV1Captures
  word = word
  agent = agent
  Texts = {"short", "twice", "post", "put", "status", "torn"}
  Char <- MCChar
  Dot = "."
  Space = " "
  lower_of <- MCLower
  AppType <- MCAppType
  UNKNOWN = "UNKNOWN"
  domain_rules <- MCDomainRules
  default_ips = {3}
  default_apps = {"FACEBOOK"}
  default_domains <- MCDefaultDomains
  None = None
  blocked_ips = None
  blocked_apps = None
  blocked_domains = None
  blacklist <- MCDefaultDomains
SPECIFICATION Spec
INVARIANTS
  TypeOK
  EngineDecisionsStick
  MainDropsWholeFlows
  MainAgreesWithV2
  EventsAgreeWithFile
  CountersAddUp
  EnginesAgreeOnHosts
PROPERTIES
  AnalysisDecidesNothing
