CONSTANTS
  t1 = t1
  t2 = t2
  e1 = e1
  e2 = e2
  e3 = e3
  Txs <- TwoTxs
  Events <- ThreeEvents
  EventsOf <- TwoEventsOf
  TxOf <- TwoTxOf
  PosOf <- TwoPosOf
  Corrupt = {e3}
  BatchSize = 2
SPECIFICATION FairSpec
CHECK_DEADLOCK FALSE
INVARIANTS
  NoOvertaking
PROPERTIES
  AtLeastOnceDelivery
  EveryEventAnnounced
