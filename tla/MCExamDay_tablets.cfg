CONSTANTS
  None = None
  Sessions = {w1, w2}
  Apps = {"a1", "w1"}
  WalkIns = {"w1"}
  VenueOf <- MCVenueOf
  Officers = {"cap", "sup"}
  Devices = {"t1", "t2"}
  AgencyOf <- MCAgencyOf
  Screeners = {"cap"}
  Supervisors = {"sup"}
  Suspended = {}
  Scans <- MCScans
  Records = {}
  LegalBasis = "CONSENT_OR_DECLINE"
  Capturers = {"cap"}
  FleetManagers = {}
  Adjudicators = {"sup"}
  Tests <- MCTests
  MaxCaptures = 3
  FirstDay = "exam"
  LastDay = "exam"
  Pending = {"PHYSICAL_TEST_SCHEDULED"}
  FirstMode = "OFF"
  Enrolled = {"t1", "t2"}
SYMMETRY SessionSymmetry
SPECIFICATION Spec
CHECK_DEADLOCK FALSE
INVARIANTS
  CapturesAreKept
PROPERTIES
  HeldWhileOpen
