SPECIFICATION Spec
CONSTANTS
  Others = {mario, shakira}
  Me = john
  Unknown = nobody
  NoOne = noone
  Callees = {mario}
  MaxChanges = 2
  MaxClicks = 0
  MaxWaiting = 2
INVARIANT RingIsForMe
CHECK_DEADLOCK FALSE
