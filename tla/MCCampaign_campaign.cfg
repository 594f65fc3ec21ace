CONSTANTS
  None = None
  Workers = {w1, w2}
  Officers = {"ann"}
  Admins = {"ann"}
  Codes = {"c1", "old"}
  Legacy <- MCLegacy
  Districts = {"d1", "d2"}
  AgencyOf <- MCAgencyOf
  Categories <- MCCategories
  Requests <- MCRequests
  MaxApps = 1
SYMMETRY WorkerSymmetry
SPECIFICATION Spec
INVARIANTS
  OneEffectPerKey
  CampaignsAreWhole
  CommandsSerialise
