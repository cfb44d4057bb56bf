CONSTANTS
  a = a
  b = b
  c = c
  e1 = e1
  e2 = e2
  s1 = s1
  s2 = s2
  s3 = s3
  Node = {a, b, c}
  Event = {e1}
  Sub = {s1, s2}
  Origin <- OneFromA
  Owner <- AtBAndC
  Wants <- WantsFirst
  Peers <- HubPeers
  Survives = FALSE
SPECIFICATION Spec
INVARIANT SettledReachesAll
