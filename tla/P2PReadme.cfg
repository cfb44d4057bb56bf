CONSTANTS
  a = a
  b = b
  Node = {a, b}
  Other <- Pair
  Answers = FALSE
  Forgets = TRUE
  Message <- Messages
  Genuine <- Answered
  Mapped <- Address
  Loopback <- Home
  Punching = FALSE
  Tries <- TwiceA
  Sends <- Nothing
  Binds = {}
  Loses = {a, b}
  Closes = {}
SPECIFICATION Spec
INVARIANT NeverStuck
CHECK_DEADLOCK FALSE
