SPECIFICATION FairSpec
CONSTANTS
  Users = {mario, shakira}
  NoOne = noone
  Writers = {mario}
  MaxSent = 2
  MaxLogins = 3
  MaxWaiting = 2
  MaxFaults = 1
INVARIANTS TypeOK ShownOnce ShownInOrder DeliveredWasLoaded
PROPERTY ChatArrives
CHECK_DEADLOCK FALSE
