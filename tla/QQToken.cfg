SPECIFICATION Spec
CONSTANTS
  p1 = p1
  p2 = p2
  s1 = s1
  s2 = s2
  k1 = k1
  k2 = k2
  None = None
  Senders = {p1, p2}
  States = {s1, s2}
  Tokens = {k1, k2}
  Life = 4
  Margin = 2
  Deadline = 1
  MaxTime = 5
SYMMETRY Symmetry
CHECK_DEADLOCK FALSE
INVARIANTS
  TypeOK
  LiveTokenUsed
  OwnToken
  ErrorStaysOwn
