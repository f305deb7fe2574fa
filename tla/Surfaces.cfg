SPECIFICATION Spec
CONSTANTS
  b0 = b0  b1 = b1  b2 = b2  m = m  odd = odd
  Watched = {"protocol", "spec", "marker"}
  Bodies <- MCBodies  Legacy <- MCLegacy  Degraded = degraded
  Adopters <- MCAdopters  Odd <- MCOdd
  Torn = torn  Checkout = checkout  Nothing = nothing
  Faults = {"kill", "backup", "validate", "manifest"}
INVARIANTS RecordIsFrameworks NoLoss
PROPERTIES AdopterBytesStay FailureKeepsRecord RecordOutlivesRuns
