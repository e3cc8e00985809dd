CONSTANTS
  wsA = wsA  wsB = wsB  wsC = wsC  ucU = ucU  ucV = ucV
  Request <- Requests
  GlobalInFlight = 4  WorkspaceInFlight = 3  UseCaseInFlight = 3
  RetryInFlight = 2
  GlobalRate = 9  WorkspaceRate = 9  UseCaseRate = 9
  RateWindow = 1  WorkspaceStateTTL = 1
  MaxWorkspaceStates = 3  MaxUseCaseStates = 2
  GivenDegraded = 50  GivenRecovery = 0
  MaxTime = 1
SPECIFICATION Spec
INVARIANT DegradesAtRatio
