CONSTANTS
  c1 = c1
  c2 = c2
  c3 = c3
  p = p
  q = q
  Call = {c1, c2, c3}
  Peer = {p, q}
  Target <- TwoOnP
  Sentinel = TRUE
  Stun = TRUE
  Punch = TRUE
  MaxSockets = 2
  MaxSentinels = 3
SPECIFICATION Spec
INVARIANT CloseReleases
