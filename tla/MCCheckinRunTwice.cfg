\* Overlapping ticks.
SPECIFICATION SafeSpec
\* Days, requests and faults are bounded, so the system comes to rest.
CHECK_DEADLOCK FALSE
CONSTANTS
  p = p
  tick1 = tick1
  tick2 = tick2
  admin = admin
  Providers  <- OneProvider
  CronTasks  <- TwoTicks
  AdminTasks = {}
  MaxDay    = 1
  MaxManual = 0
  MaxFaults = 0
INVARIANT CronOncePerDay
