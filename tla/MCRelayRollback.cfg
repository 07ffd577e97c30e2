\* The rollback step of the rollout checklist.
SPECIFICATION Spec
CONSTANTS
  Requests    <- OneRequest
  Providers   <- MCProviders
  Routes      <- TwoRoutes
  ProviderOf  <- TwoProviderOf
  PriorityOf  <- TwoPriorityOf
  Models      <- TwoModels
  CanonicalOf <- TwoCanonical
  RoutesOf    <- TwoRoutesOf
  Whitelist   <- TwoModels
  MaxLines    = 1
  AdminModes  = {}
  AdminLegacy = {TRUE, FALSE}
PROPERTY LegacySwitchRestoresTransportOnly
