SPECIFICATION FairSpec
CONSTANTS
  m1 = m1
  m2 = m2
  m3 = m3
  h1 = h1
  h2 = h2
  w1 = w1
  w2 = w2
  None = None
  Msgs = {m1, m2, m3}
  Anonymous = {m2}
  NoMsgId = {m3}
  Calls = {h1}
  Workers = {w1}
  MaxDeliveries = 1
  MaxFaults = 1
  MaxCrashes = 1

INVARIANTS
  TypeOK
  OnlyMarkedRun
PROPERTIES
  QueueDrains
