\* A failure between storing a log and writing its mirror row.
SPECIFICATION Spec
CONSTANTS
  ClaimIds = {c1}
  PolicyIds = {p1}
  NoItem = NoItem
  Null = Null
  DeployBlock = 1
  ReorgSafety = 1
  ChunkSize = 2
  AbortsScan <- ThrowsAsCommitted
  MaxReorg = 1
  MaxBlocks = 4
  MaxLogs = 3
  MaxFailures = 1
  MaxReorgs = 0
INVARIANTS
  RescanIsSafe
