\* Passes over the retry queue that overlap; backups and retries come to their end.
SPECIFICATION Spec
CONSTANTS
  pass1 = pass1
  pass2 = pass2
  Passes <- TwoPasses
  Mode = "event"
  MinTicks = 1
  MaxRetries = 1
  MaxChanges = 1
  MaxAsks = 1
  MaxFaults = 2
  MaxTogether = 2
INVARIANT QueuedNotLost
PROPERTIES
  RowSettles
  DirtySettles
