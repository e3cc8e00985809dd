CONSTANTS
  Process = {p1, p2, p3}
  Owner = {o1, o2}
  Fingerprint = {f1, f2}
  NoFingerprint = none
  MaxToken = 3
SPECIFICATION Spec
INVARIANT EffectMatchesReceipt
PROPERTY KeepsPromise
