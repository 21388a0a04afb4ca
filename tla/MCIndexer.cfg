\* Failures at any await and shallow reorganisations.
SPECIFICATION FairSpec
CONSTANTS
  ClaimIds = {c1}
  PolicyIds = {p1}
  NoItem = NoItem
  Null = Null
  DeployBlock = 1
  ReorgSafety = 1
  ChunkSize = 2
  AbortsScan <- ThrowsAsCommitted
  MaxReorg = 1
  MaxBlocks = 4
  MaxLogs = 3
  MaxFailures = 2
  MaxReorgs = 1
INVARIANTS
  TypeOK
  ReportedAtMostOnce
  CheckpointCovers
  StoredIsFinal
  MirrorFollowsLog
PROPERTIES
  CatchesUp
