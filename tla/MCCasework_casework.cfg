CONSTANTS
    None = None
    k1 = k1
    k2 = k2
    w1 = w1
    w2 = w2
    clean = clean
    bare = bare
    signed = signed
    t1 = t1
    Caller <- MCCaller
    Worker <- MCWorker
    Content <- MCContent
    SignalsOf <- MCSignalsOf
    Scopes <- MCScopes
    ValidityDays = 1
    AgeOnDate = 25
    AgeCriteria <- MCAgeCriteria
    Requirement <- MCRequirement
    Policy <- MCPolicy
    ClearanceContentReviewAdmitsToExam = TRUE
SYMMETRY Symmetry
SPECIFICATION Spec
CHECK_DEADLOCK FALSE
INVARIANTS
  DocumentsAreEvidence
  JudgedOnRecord
  OutagesAreFollowedUp
