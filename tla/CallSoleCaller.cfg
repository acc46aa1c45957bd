SPECIFICATION FairSpec
CONSTANTS
  Users = {a, b}
  Hosts = {h1, h2}
  NoUser = NoUser
  CallOnce = {}
  CallTwice = {a}
  MaxRequests <- Calls
PROPERTIES EndsAgreeOnNetwork AbandonedRequestExpires
