CONSTANTS
  Worker = {w1, w2}
  MaxToken = 2
  Drivers <- ContextDrivers
  Rows = {r1, r2}
  MaxTx = 4
SPECIFICATION WorkSpec
INVARIANTS FailureIsReported FlagTracksTransaction EveryTransactionObserved
PROPERTIES
  FinishedRowIsFinal StopReturns LostLeaseCancelsWork ExplicitEndsByItself
