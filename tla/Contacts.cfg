SPECIFICATION FairSpec
CONSTANTS
  Others = {mario, shakira}
  Me = john
  Unknown = nobody
  NoOne = noone
  Callees = {john}
  MaxChanges = 3
  MaxClicks = 1
  MaxWaiting = 2
INVARIANTS TypeOK BoxShowsLastList RingsFollowCalls
PROPERTY LoginGetsReady
CHECK_DEADLOCK FALSE
