\* How often a package is uploaded again.
SPECIFICATION SafeSpec
CONSTANTS
  pass1 = pass1
  pass2 = pass2
  Passes <- OnePass
  Mode = "event"
  MinTicks = 1
  MaxRetries = 1
  MaxChanges = 1
  MaxAsks = 0
  MaxFaults = 3
  MaxTogether = 3
INVARIANTS
  RetriesWithinLimit
