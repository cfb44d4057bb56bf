CONSTANTS
  Node = {1, 2, 3}
  Successors <- Rotating
  Interval = 2
  Timeout = 6
  Step = 5
  Delay = 1
  MaxLosses = 1
  MaxStops = 1
  MaxEpoch = 6
SPECIFICATION FairSpec
INVARIANT SplitHeals
PROPERTY Elected
