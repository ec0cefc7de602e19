SPECIFICATION Spec
CONSTANTS
  Call = {c1, c2}
  Cred = {"ann", "bob", "stale", "eve", "nobody"}
  ListCred = {"ann", "nobody"}
  Identity <- MCIdentity
  AgentReg <- MCAgentReg
  Tool = {"lookup", "pay", "loose", "moved", "absent"}
  Route <- MCRoute
  ToolReg <- MCToolReg
  UpstreamProvenance <- MCUpstreamProvenance
  Value = {"v"}
  Redacted = "[REDACTED]"
  HasBroker = TRUE
  Policy <- MCPolicy
  rate_limits <- MCRateLimits
  Window = 1
  TTL = 1
  MaxEntries = 1
  EmptyString = ""
  MaxClock = 1
  MaxBoots = 2
SYMMETRY Symmetry
INVARIANTS EffectIsRecorded EffectIsGoverned DeniedHasNoEffect TokenIsScoped LabelIsTraced RateIsLimited
