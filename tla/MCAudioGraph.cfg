CONSTANTS
  n1 = n1
  n2 = n2
  n3 = n3
  n4 = n4
  NodeIds = {n1, n2, n3, n4}
  SourceChannels = {0}
  DestChannels = {0, 1}
  MaxConnections = 5
  MaxSearched = 4
SPECIFICATION MCSpec
SYMMETRY Symmetry
INVARIANTS
  NoDanglingConnection
  OrderExact
  GroupsByDepth
  DetectorExact
