SPECIFICATION SessionSpec
CONSTANTS
  Call = {c1, c2}
  AgentId = {ann, bob}
  Upstream = {bank, mail}
  Tool = {"pay"}
  Scope = {"admin"}
  Audience = "gateways"
  SitTTL = 2
  ExchangeTTL = 2
  MaxClock = 3
  MaxIssuers = 2
  MaxTokens = 3
SYMMETRY Symmetry
INVARIANTS CredentialsDie OnlySessionsGrant RestartEndsSessions MintedForSubject
