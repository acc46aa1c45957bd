SPECIFICATION Spec
CONSTANTS
  Users = {a, b}
  Hosts = {h1}
  NoUser = NoUser
  CallOnce = {a, b}
  CallTwice = {}
  MaxRequests <- Calls
SYMMETRY UserSymmetry
INVARIANTS TypeOK EraseInBounds WalksStayInBlock
PROPERTY PingedSurvives
