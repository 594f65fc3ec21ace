CONSTANTS
    Null = Null
    k1 = k1
    k2 = k2
    p1 = p1
    p2 = p2
    Caller <- MCCaller
    Phone <- MCPhone
    Erasers = {f}
    Agency = {RDF, RNP}
    MaxFailures = 1
    FailureWindow = 1
    LockTime = 1
    OtpTtl = 1
    OtpMaxAttempts = 1
    OnboardingTtl = 2
    SessionTtl = 2
    Bounds <- MCBounds
    PurgeGrace = 0
SYMMETRY Symmetry
SPECIFICATION CitizenSpec
CHECK_DEADLOCK FALSE
INVARIANTS
  SignInIsSound
  ErasureIsComplete
PROPERTIES
  DecisionsStand
