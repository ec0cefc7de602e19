SPECIFICATION Spec
CONSTANTS
  TTL = 2
  MaxEntries = 3
  EmptyString = ""
  Redacted = "[REDACTED]"
  Call = {"c1", "c2"}
  MaxClock = 3
  MaxDepth = 3
  Atoi <- MCAtoi
  Float <- MCFloat
  From <- MCFrom
  UpstreamProvenance <- MCUpstreamProvenance
  Result <- MCResult
  Obligation <- MCObligation
  Address <- MCAddress
INVARIANTS RedactionIsExact LabelIsShown RoomMeansMemory
