CONSTANTS
  wsA = wsA  wsB = wsB  wsC = wsC  ucU = ucU  ucV = ucV
  Request <- Requests
  GlobalInFlight = 3  WorkspaceInFlight = 2  UseCaseInFlight = 3
  RetryInFlight = 1
  GlobalRate = 3  WorkspaceRate = 1  UseCaseRate = 2
  RateWindow = 2  WorkspaceStateTTL = 2
  MaxWorkspaceStates = 2  MaxUseCaseStates = 2
  GivenDegraded = 60  GivenRecovery = 10
  MaxTime = 4
SPECIFICATION Spec
INVARIANTS LeasesAccounted StateMatchesLoad WorkspaceRateHolds
