SPECIFICATION Spec
CONSTANTS
  w = w
  f = f
  q = q
  acme = acme
  globex = globex
  initech = initech
  noSlug = noSlug
  NoSlug = noSlug
  None = None
  Catalog <- SharedTenant
  Suffix <- NoSuffix
  Subs = {"destroy", "resume", "sync.create", "sync.update", "sync.destroy", "sync.pause", "sync.resume"}
  MaxInFlight = 2
INVARIANTS
  KeyedBySlug
  ServedIsRefreshed
PROPERTIES
  PauseLasts
  ListedStays
  ImplementsListing
