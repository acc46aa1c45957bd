SPECIFICATION FairSpec
CONSTANTS
  AudioSize = 418
  VideoSize = 1000
  Sizes = {0, 999, 1009, 12003, 89999, 90001, 98999, 999999}
  Talkers = {"initiator"}
  MaxPackages = 3
  MaxPictures = 1
  Garbage = {0, 2}
  MaxFaults = 1
  MaxMisread = 1
  MaxHangups = 1
INVARIANTS TypeOK FramesAddUp PlayedAsSent
PROPERTY DoneEndsPeer
CHECK_DEADLOCK FALSE
