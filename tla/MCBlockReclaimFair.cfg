SPECIFICATION FairSpec
CONSTANTS
  p = p  q = q  l = l  x = x  y = y
  Nodes <- MCNodes
  Records <- MCRecords
  Values <- MCValues
  Subtrees <- MCSubtrees
  Below <- MCBelow
  Roots <- MCRoots
  Readers = {}
  GracePeriod = 1
  RetryInterval = 1
  ReclaimBatch = 2
  MaxRev = 3
PROPERTY GarbageEventuallyDeleted
