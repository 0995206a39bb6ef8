\* Every name of up to three labels against every rule of one or two.
CONSTANTS
  Char <- MCChar
  Dot = "."
  Space = " "
  lower_of <- MCLower
  AppType = {"UNKNOWN", "GOOGLE", "ZOOM", "YOUTUBE"}
  UNKNOWN = "UNKNOWN"
  domain_rules <- MCDomainRules
  default_ips = {}
  default_apps = {}
  default_domains = {}
  None = None
  Label <- MCLabel
  MaxLabels = 3
  Applications <- MCApplications
SPECIFICATION Spec
INVARIANTS
  BlockedByLabels
  ClassifiedByLabels
