\* One request, three routes, every mode and every kind of answer; or two requests that
\* share the providers' health.
SPECIFICATION MCSpec
CONSTANTS
  Requests    <- TwoRequests
  Providers   <- MCProviders
  Routes      <- ThreeRoutes
  ProviderOf  <- ThreeProviderOf
  PriorityOf  <- ThreePriorityOf
  Models      <- ThreeModels
  CanonicalOf <- ThreeCanonical
  RoutesOf    <- ThreeRoutesOf
  Whitelist   <- ThreeWhitelist
  MaxLines    = 2
  AdminModes  = {"off", "observe", "enforce"}
  AdminLegacy = {FALSE}
INVARIANTS
  TypeOK
  OneSource
  EnforcedAnswerHasOutput
  AttemptsRecorded
  SuccessIsTheAnswer
  DowngradeAfterTierFailed
  UnreachableHasEvidence
PROPERTY PromiseKept
