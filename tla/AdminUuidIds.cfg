SPECIFICATION Spec
CONSTANTS
  w = w
  f = f
  q = q
  acme = acme
  globex = globex
  initech = initech
  noSlug = noSlug
  NoSlug = noSlug
  None = None
  Catalog <- OnePerType
  Suffix <- NoSuffix
  Subs = {"create", "update", "destroy", "pause", "resume"}
  MaxInFlight = 1
INVARIANTS
  EveryDestroyGone
