SPECIFICATION AllSpec
CONSTANTS
  w = w
  f = f
  q = q
  acme = acme
  globex = globex
  initech = initech
  noSlug = noSlug
  h1 = h1
  h2 = h2
  NoSlug = noSlug
  None = None
  Catalog <- TwoFeishu
  Suffix <- SelfSuffix
  Subs = {"create", "update", "destroy", "pause", "resume"}
  MaxInFlight = 1
  Calls = {h1}
INVARIANTS
  CallsTypeOK
  ForeignOnlyWhenDisturbed
PROPERTIES
  PausedIsSilent
