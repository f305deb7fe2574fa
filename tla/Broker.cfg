SPECIFICATION Spec
CONSTANTS
  k1 = k1  k2 = k2  k3 = k3
  Requests <- MCRequests
  r1 = r1  r2 = r2  r3 = r3
  Tokens <- MCTokens  Allowed <- MCAllowed  Trusted <- MCTrusted
  Issuer = "idp"  Audience = "broker"  Subjects <- MCSubjects
  Skew = 1  TTL = 3  MaxEntries = 2  MaxClock = 4
SYMMETRY Threads
INVARIANTS
    AdmitOnce
    OncePerLife
    Bounded
PROPERTIES
    EvictsClosestToExpiry
CHECK_DEADLOCK FALSE
