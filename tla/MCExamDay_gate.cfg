CONSTANTS
  None = None
  Sessions = {w1, w2}
  Apps = {"a1", "a2"}
  WalkIns = {}
  VenueOf <- MCVenueOf
  Officers = {"scr", "sup"}
  Devices = {"t1"}
  AgencyOf <- MCAgencyOf
  Screeners = {"scr", "sup"}
  Supervisors = {"sup"}
  Suspended = {}
  Scans <- MCScans
  Records <- MCRecords
  LegalBasis = "CONSENT_OR_DECLINE"
  Capturers = {}
  FleetManagers = {"sup"}
  Adjudicators = {}
  Tests = {}
  MaxCaptures = 0
  FirstDay = "exam"
  LastDay = "after"
  Pending = {"SLOT_ASSIGNED", "PHYSICAL_TEST_SCHEDULED"}
  FirstMode = "SHADOW"
  Enrolled = {}
SYMMETRY SessionSymmetry
SPECIFICATION Spec
CHECK_DEADLOCK FALSE
INVARIANTS
  AdmissionIsExact
  EvidenceIsHeeded
