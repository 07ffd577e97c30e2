\* Two accounts, one mailbox and one request at a time.
SPECIFICATION VerificationSpec
CONSTANTS
  mail = mail  ann = ann  bob = bob  p1 = p1
  Addresses  <- MCAddresses
  People     <- MCPeople
  Presenters <- MCPresenters
  Valid    = 2
  MaxPairs = 1
  MaxCodes = 2
  LastTime = 2
INVARIANT BoundAddressWasFree
CHECK_DEADLOCK FALSE
