SPECIFICATION FairPollSpec
CONSTANTS
  Fds = {f1, f2, f3, f4}
  NoFd = NoFd
  m_max = 4
INVARIANT PollIsCompact
PROPERTIES ImplementsConnections PolledIsServed
