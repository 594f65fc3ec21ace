CONSTANTS
  a1 = a1
  a2 = a2
  c1 = c1
  o1 = o1
  o2 = o2
  k1 = k1
  k2 = k2
  None = None
  Apps <- TwoApps
  Citizens = {c1}
  CitizenOf <- TwoCitizenOf
  AgencyOf <- TwoAgencyOf
  Campaigns = {k1, k2}
  CampaignOf <- TwoCampaignOf
  LegacyCampaigns = {k2}
  EndingCampaigns = {k1, k2}
  Officers <- TwoOfficers
  OfficerAgency <- TwoOfficerAgency
  AgeVerdicts = {"ELIGIBLE"}
  AcademicVerdicts = {"ELIGIBLE"}
  CriminalVerdicts = {"CLEARED"}
  ForensicsLanes = {}
  WalkInOpen = TRUE
  ClearanceContentReviewAdmitsToExam = FALSE
  FinalDecisionExcludesMedicalReviewer = FALSE
  AcceptExcludesFinalDecider = FALSE
  ClearanceReviewExcludesAccepter = TRUE
SPECIFICATION FairSpec
CHECK_DEADLOCK FALSE
INVARIANTS
  OneAcceptancePerCitizen
PROPERTIES
  GreenIsPlaced
  AcceptanceRetiresSiblings
