CONSTANTS
  Caller = {c1, c2}
  Key = {k1, e}
  EmptyKey = e
  Limit = 1
  Window = 2
  Capacity = 1
  IdleTTL = 4
  MaxStale = 1
  LastTime = 5
  KeyIds = {i1, i2, i3}
  Materials = {m1, m2}
  Usable = {m1}
  Erased = nil
  Bindings = {b1, b2}
  Encryptors = {e1}
  Names = {svc, intra}
  Addresses = {pub, loop, priv}
  Public = {pub}
  Loopback = {loop}
  Answers <- Answers1
  AllowedHosts = {intra}
  NoTarget = NoTarget
  MaxRedirects = 2
  MaxPrecision = 2
  DefaultPrecision = 3
  DefaultScale = 1
  GuardPlaces = 1
  DivisionPlaces = 4
  ScaleModulus = 16
  Calculations <- Calculations1
  DayLength = 24
  NilText = 5000
  Expressions <- Expressions1
  IntMax = 15
  Walks <- Walks1
  Blank = 0
  DurationMax = 15
  Calls <- Calls1
  Policies <- Policies1
SPECIFICATION LibrariesSpec
INVARIANTS
  RateHolds SealedStaysReadable DialsStayAllowed
  DecimalsAreExact AcceptedEvaluates PagesPartition SchedulesAreFair
SYMMETRY Symmetry
