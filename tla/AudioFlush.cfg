SPECIFICATION PlaySpec
CONSTANTS
  Nodes = {n1, n2, n3}
  Packages = {p1}
  Callback = callback
  Network = network
  HangupJob = hangup
  Consumers = {callback, network, hangup}
  NoNode = NoNode
  NoPackage = NoPackage
INVARIANT SingleConsumer
