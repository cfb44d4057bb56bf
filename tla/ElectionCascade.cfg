CONSTANTS
  Node = {1, 2, 3}
  Successors <- Rotating
  Interval = 3
  Timeout = 9
  Step = 3
  Delay = 1
  MaxLosses = 0
  MaxStops = 2
  MaxEpoch = 6
SPECIFICATION Spec
INVARIANT TypeOK
INVARIANT TimersMatchRole
INVARIANT SplitHeals
INVARIANT VacancyEnds
INVARIANT OrderlySuccession
