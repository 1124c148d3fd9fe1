SPECIFICATION Spec
CONSTANTS
  Nodes = {1, 2}
  NodeType <- MCNodeType
  NoNode = NoNode
  NDevs = 3
  DevType <- MCDevType
  DevNodes <- MCDevNodes
  Workers = {w1, w2}
  Observers = {o1}
  Values = {0, 1}
  Scripts <- MCScripts
INVARIANT DevShowsLatest
