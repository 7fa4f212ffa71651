SPECIFICATION Spec
CONSTANTS
  HostAbi = 1
  NoMaximum = NoMaximum
  Word = 8
  HostMaximum <- MCHostMaximum
  Manifests <- MCManifests
  Modules <- MCModules
INVARIANTS
  CheckedPacksRun
  CheckedCallsPermitted
  LimitsWithinPolicy
  OneDomainMode
