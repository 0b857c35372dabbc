\* Live data (batch_size 1) and batches; datums that do not follow the one before.
SPECIFICATION Spec
CONSTANTS
  BatchSizes = {1, 3}
  NumResources = 2
  NumFrames = 6
  MaxDatum = 2
  MaxGaps = 1
  MaxFaults = 2
INVARIANTS   PatchesTile
\* The run ends.
CHECK_DEADLOCK FALSE
