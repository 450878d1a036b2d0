SPECIFICATION Spec
CONSTANTS
  p = p  q = q  l = l  x = x  y = y
  Nodes <- MCNodes
  Records <- MCRecords
  Values <- MCValues
  Subtrees <- MCSubtrees
  Below <- MCBelow
  Roots <- MCRoots
  Readers = {r1}
  GracePeriod = 2
  RetryInterval = 1
  ReclaimBatch = 9
  MaxRev = 3
INVARIANTS
  CurrentStored
  ReadsWithinGrace
  ExportComplete
