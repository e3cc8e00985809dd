CONSTANTS
  Concurrency = 3
  MinInterval = 2
  MaxInterval = 7
  Named = {"named"}
  Adaptive = {"adaptive"}
  Recovery = {"recovery"}
  Hinted = {"adaptive", "recovery"}
  QueueKind = {"padded", "plain", "other", "blank"}
  Trimmed <- Kinds
  KindOf <- Subscriptions
  Capacity = 1
  MinBackoff = 2
  MaxBackoff = 3
SPECIFICATION WorkersSpec
INVARIANTS FreedSlotIsSignalled
PROPERTIES ShutdownCompletes LoopCadence JoinsExactly
