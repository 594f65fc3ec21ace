CONSTANTS
  d1 = d1
  d2 = d2
  d3 = d3
  d4 = d4
  Nothing = Nothing
  Deliveries <- Four
  KeyOf <- FourKeys
  BodyOf <- FourBodies
  IntentOf <- OneIntent
  Keyless = {d4}
SPECIFICATION FairSubmission
CHECK_DEADLOCK FALSE
INVARIANTS
  OneFiling
  RetriesGetTheirOwn
PROPERTIES
  NothingFiledAfterClose
  EveryRequestAnswered
