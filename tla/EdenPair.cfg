CONSTANTS
  a = a
  b = b
  c = c
  e1 = e1
  e2 = e2
  s1 = s1
  s2 = s2
  s3 = s3
  Node = {a, b}
  Event = {e1, e2}
  Sub = {s1, s2, s3}
  Origin <- BothWays
  Owner <- TwoAtB
  Wants <- WantsAll
  Peers <- PairPeers
  Survives = FALSE
SPECIFICATION Spec
INVARIANT TypeOK
INVARIANT AcksEarned
INVARIANT AtMostOnce
INVARIANT SettledMeansHandled
PROPERTY ImplementsPromise
