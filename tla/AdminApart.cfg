SPECIFICATION ApartSpec
CONSTANTS
  w = w
  f = f
  q = q
  acme = acme
  globex = globex
  initech = initech
  noSlug = noSlug
  NoSlug = noSlug
  None = None
  Catalog <- SharedAndOther
  Suffix <- SelfSuffix
  Subs = {"create", "update", "destroy", "pause", "resume"}
  MaxInFlight = 2
INVARIANTS
  EveryDestroyGone
PROPERTIES
  ImplementsDirectory

