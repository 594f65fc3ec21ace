CONSTANTS
  a1 = a1
  a2 = a2
  a3 = a3
  a4 = a4
  d1 = d1
  d2 = d2
  d3 = d3
  d4 = d4
  d5 = d5
  v1 = v1
  None = None
  Deliveries <- Five
  Apps = {a1, a2, a3, a4}
  AppOf <- FiveAppOf
  Venues = {v1}
  VenueOf <- FourVenueOf
  Capacity <- TwoSeats
SPECIFICATION FairSpec
CHECK_DEADLOCK FALSE
INVARIANTS
  SeatsAreExact
  OneTicketPerApplication
PROPERTIES
  FullOnlyForTheUnplaced
  EveryClearanceAnswered
