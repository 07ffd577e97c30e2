\* What README.md:294 says of an upstream's explicit failure.
SPECIFICATION Spec
\* Every request is handled once, so the system comes to rest.
CHECK_DEADLOCK FALSE
CONSTANTS
  Requests    <- TwoRequests
  Providers   <- MCProviders
  Routes      <- TwoRoutes
  ProviderOf  <- TwoProviderOf
  PriorityOf  <- TwoPriorityOf
  Models      <- TwoModels
  CanonicalOf <- TwoCanonical
  RoutesOf    <- TwoRoutesOf
  Whitelist   <- TwoModels
  MaxLines    = 1
  AdminModes  = {}
  AdminLegacy = {}
INVARIANT UpstreamFailureEndsRequest
