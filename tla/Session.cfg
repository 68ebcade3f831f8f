SPECIFICATION FairSession
CONSTANTS
  MaxTxs = 2
  Period = 5
  Loggers <- Processes
  MaxOps = 2
  Left <- KilledTwice
INVARIANT TypeOK
INVARIANT TimesAssigned
INVARIANT PrintingComplete
INVARIANT AllocatedWhileRunning
INVARIANT CountsWhileAllocated
INVARIANT LogOfThisRun
INVARIANT EndHeals
PROPERTY MonitorStops
