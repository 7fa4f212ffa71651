\* Every gate; the live broker: redirects, deadline, byte cap and secrets.
SPECIFICATION Spec
CONSTANTS
  NoUrl = NoUrl
  Urls <- MCUrls
  Manifests <- MCManifests
  Requests <- MCRequests
  RedirectLimit = 2
  PolicyTimeout = 4
  PolicyBytes = 4
  Chunks = {1, 2}
  MaxClock = 4
CHECK_DEADLOCK FALSE
INVARIANTS
  TypeOK
  SecretsTravelSafely
  WithinOneTimeout
  DeliveredIsClean
  StatusCoversFetch
PROPERTIES
  KeepsContract
  FetchAnswered
