SPECIFICATION FairSpec
CONSTANTS
  Peers = {mario}
  NoPeer = nobody
  MaxCalls = 2
  MaxHangups = 1
  MaxTicks = 1
INVARIANTS TypeOK HungUpCallStaysDown StreamsOnCall LegsHaveOnePeer
PROPERTIES HangUpEnds PlacedCallLeaves
CHECK_DEADLOCK FALSE
