SPECIFICATION FairSpec
CONSTANTS
  Deployments <- MCDeployments
  MaxSessionFrames = 1
INVARIANTS TypeOK MutualAuthentication StreamsDoNotMix
PROPERTIES ImplementsBaton EstablishmentEnds HalfOpenEnds
CHECK_DEADLOCK FALSE
