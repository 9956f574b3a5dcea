SPECIFICATION Spec
CONSTANTS
  m1 = m1
  m2 = m2
  m3 = m3
  h1 = h1
  h2 = h2
  w1 = w1
  w2 = w2
  None = None
  Msgs = {m1, m2}
  Anonymous = {}
  NoMsgId = {}
  Calls = {h1}
  Workers = {w1}
  MaxDeliveries = 2
  MaxFaults = 1
  MaxCrashes = 1

PROPERTIES
  SkippedWasHandled
