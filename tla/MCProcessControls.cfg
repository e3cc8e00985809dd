CONSTANTS
  Worker = {w1, w2}
  Waiter = {v1, v2}
  MaxChans = 3
  Evaluation = {e1, e2}
  Check = {c1, c2}
  Critical = {c1}
  NoCheck = NoCheck
  Never = Never
SPECIFICATION ControlsSpec
INVARIANTS IdleChannelTracksClaims WaitIdleIsSound HistoryIsRetained
PROPERTIES StopIsFinal DrainConverges EvaluateReturns LateRunsEnd
