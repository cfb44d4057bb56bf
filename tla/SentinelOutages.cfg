CONSTANTS
  MaxSockets = 3
  MaxTimers = 2
  MaxStarts = 3
  MaxEndpoint = 1
SPECIFICATION FairSpec
INVARIANT TypeOK
INVARIANT OneLine
INVARIANT EndpointCurrent
PROPERTY StaysStopped
PROPERTY Reconnects
