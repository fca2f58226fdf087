SPECIFICATION FairSpec
CONSTANTS
  Publications = {root, android}
  MaxVersion = 2
  MaxRevision = 2
  MaxDeployments = 2
  statusAttempts = 2
INVARIANTS PortalTypeOK SuccessMeansReleased BundlesAreWhole
PROPERTY EveryRunEnds
