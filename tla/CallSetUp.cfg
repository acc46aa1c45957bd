SPECIFICATION FairSpec
CONSTANTS
  Filtered = {"initiator", "acceptor"}
  Networks = {"LOCAL", "WEB"}
  m_PING_TIMEOUT = 0
  m_ACCEPT_TIMEOUT = 0
  m_MAX_PUNCH_TRIALS = 1
  MaxCalls <- Calls
  CallTwice = {"LOCAL"}
  MaxAnswers = 1
  MaxLate = 1
INVARIANTS TypeOK ConnectedHeardPeer FirstCallPaired
PROPERTIES SetUpEnds AnsweredCallConnects
