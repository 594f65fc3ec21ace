CONSTANTS
  a1 = a1
  a2 = a2
  c1 = c1
  o1 = o1
  o2 = o2
  k1 = k1
  k2 = k2
  None = None
  Apps <- OneApp
  Citizens = {c1}
  CitizenOf <- OneCitizenOf
  AgencyOf <- OneAgencyOf
  Campaigns = {k1}
  CampaignOf <- OneCampaignOf
  LegacyCampaigns = {}
  EndingCampaigns = {}
  Officers <- RdfOfficers
  OfficerAgency <- RdfOfficerAgency
  AgeVerdicts = {"ELIGIBLE", "INELIGIBLE"}
  AcademicVerdicts = {"PENDING", "ELIGIBLE"}
  CriminalVerdicts = {"CLEARED", "UNDER_REVIEW", "FLAGGED_CONVICTION"}
  ForensicsLanes = {"AMBER", "RED", "GREEN"}
  WalkInOpen = TRUE
  ClearanceContentReviewAdmitsToExam = FALSE
  FinalDecisionExcludesMedicalReviewer = TRUE
  AcceptExcludesFinalDecider = FALSE
  ClearanceReviewExcludesAccepter = TRUE
SPECIFICATION Spec
CHECK_DEADLOCK FALSE
INVARIANTS
  HumanDecisionStands
  NoUnseenFlag
  AccepterDidNotResolve
  LanesAreKept
PROPERTIES
  LifecycleIsOneWay
  MedicalReviewerNeedsAClear
