\* Batches of two StreamResources of one data key.
SPECIFICATION Spec
CONSTANTS
  BatchSizes = {2}
  NumResources = 2
  NumFrames = 4
  MaxDatum = 2
  MaxGaps = 0
  MaxFaults = 0
INVARIANT AssetsAreFrames
\* The run ends.
CHECK_DEADLOCK FALSE
