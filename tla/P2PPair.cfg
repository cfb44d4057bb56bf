CONSTANTS
  a = a
  b = b
  Node = {a, b}
  Other <- Pair
  Answers = TRUE
  Forgets = FALSE
  Message <- Messages
  Genuine <- Answered
  Mapped <- Address
  Loopback <- Home
  Punching = TRUE
  Tries <- TwiceA
  Sends <- ThreeFromB
  Binds = {a}
  Loses = {a}
  Closes = {a}
SPECIFICATION Spec
INVARIANT TypeOK
INVARIANT HostGenuine
INVARIANT SameMode
INVARIANT RelayReaches
INVARIANT NeverStuck
INVARIANT InOrder
INVARIANT HeardOnce
CHECK_DEADLOCK FALSE
