SPECIFICATION Spec
CONSTANTS
  Nodes = {n1, n2, n3, n4}
  Packages = {p1, p2}
  Consumers = {callback}
  NoNode = NoNode
  NoPackage = NoPackage
INVARIANTS NodesAlive NoLeak
PROPERTY ImplementsFifo
