SPECIFICATION FairAllSpec
CONSTANTS
  w = w
  f = f
  q = q
  acme = acme
  globex = globex
  initech = initech
  noSlug = noSlug
  h1 = h1
  h2 = h2
  NoSlug = noSlug
  None = None
  Catalog <- OneWeixin
  Suffix <- NoSuffix
  Subs = {"destroy", "pause", "resume"}
  MaxInFlight = 3
  Calls = {h1}
PROPERTIES
  RequestsFinish
  BootFinishes
  CallsFinish
