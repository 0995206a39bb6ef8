\* ClientHellos of up to two extensions, cut off anywhere or with a wrong byte.
CONSTANTS
  Payloads <- MCPayloads
  Hellos <- MCHellos
  decode <- MCDecode
  None = None
SPECIFICATION FairSpec
INVARIANTS
  ReadsInBounds
  NameIsWhole
  TruncationNeverLies
PROPERTIES
  Ends
