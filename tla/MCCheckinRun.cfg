\* One tick at a time and an administrator over one provider and two days, with two faults.
SPECIFICATION Spec
\* Days, requests and faults are bounded, so the system comes to rest.
CHECK_DEADLOCK FALSE
CONSTANTS
  p = p
  tick1 = tick1
  tick2 = tick2
  admin = admin
  Providers  <- OneProvider
  CronTasks  <- OneTick
  AdminTasks <- OneAdmin
  MaxDay    = 2
  MaxManual = 1
  MaxFaults = 2
INVARIANTS
  OneRunAtATime
  SuccessMeansGranted
  CheckedInWasGranted
  CronOncePerDay
PROPERTIES
  CronRunHappens
  GuardReleased
