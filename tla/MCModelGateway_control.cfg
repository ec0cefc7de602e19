SPECIFICATION Spec
CONSTANTS
  Call = {c1, c2}
  Purpose = {"plan", "near", "risky", "solo", "early", "none"}
  sonnet = sonnet
  haiku = haiku
  gpt = gpt
  draft = draft
  Target = {sonnet, haiku, gpt, draft}
  NoTarget = noTarget
  Approved = {sonnet, haiku, gpt}
  Route <- MCRoute
  Provider <- MCProvider
  Name <- MCName
  Resolved <- MCResolved
  Policy <- MCPolicy
INVARIANTS CallIsRecorded CallIsGoverned DeniedHasNoEffect FallbackIsVisible
