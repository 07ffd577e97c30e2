\* Changes, backups of every trigger, the queue, failing calls and restarts.
SPECIFICATION SafeSpec
CONSTANTS
  pass1 = pass1
  pass2 = pass2
  Passes <- OnePass
  Mode = "hybrid"
  MinTicks = 1
  MaxRetries = 1
  MaxChanges = 2
  MaxAsks = 1
  MaxFaults = 2
  MaxTogether = 3
INVARIANTS
  TypeOK
  OneBackupAtATime
  ChangesBackedUp
  SuccessIsStored
  PackageKept
PROPERTIES
  DoneStaysDone
