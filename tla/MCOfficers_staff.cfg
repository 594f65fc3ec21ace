CONSTANTS
    None = None
    NoOne = NoOne
    a = a
    b = b
    c = c
    z = z
    o = o
    d = d
    e = e
    Officer <- MCOfficer
    AgencyOf <- MCAgencyOf
    Admin = "agency_admin"
    Posts <- MCPosts
    Sessions = {s1}
    Scopes <- MCScopes
    CodeTtl = 1
    IdleTtl = 2
    TokenTtl = 3
    AbsoluteTtl = 4
    RotationGrace = 1
    TouchInterval = 1
    SweepGrace = 0
    MaxGen = 4
SYMMETRY Symmetry
SPECIFICATION Spec
CHECK_DEADLOCK FALSE
INVARIANTS
  AlwaysAnAdmin
  ActivationIsSound
  SessionsEndInTime
PROPERTIES
  ActivatedForGood
